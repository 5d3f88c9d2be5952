----------------------------- MODULE MC_Messages -----------------------------
(* Model-checking instance of Messages: messages of every type as the     *)
(* nodes build them, over two node ids and two addresses (ordered as      *)
(* std::set orders endpoints).  States, modes and actions are taken at    *)
(* the ends of their enums; a HeartBeat lists up to two nodes.            *)
EXTENDS Messages

CONSTANTS n1, n2

MC_Ids == {n1, n2}
MC_Addrs == {1, 2}
MC_Keys == <<"args", "error", "redirect">>

(* Header as nexus::send builds it. *)
Header(op) == [version : {Version}, seqnr : {0}, op : {op}, cluster : {0}, sender : MC_Ids]

Services ==
    {<<>>} \cup [1..1 -> [name : {"s"}, event : {"", "start"}, state : {0, 8},
                          failed : BOOLEAN]]
Reports ==
    [name : {"a"}, uptime : {0}, state : {0, 7}, mode : {0, 1},
     maintenance : BOOLEAN, action : {0, 4}, services : Services]

(* elector::_send_state_updates: no master gives the defaults. *)
Updates ==
    [uptime : {0, 1}, maintenance : BOOLEAN, master : {Nil}, lastSeen : {MinTime},
     mname : {""}, maddr : {NoAddr}]
    \cup [uptime : {0, 1}, maintenance : BOOLEAN, master : MC_Ids, lastSeen : {1},
          mname : {"a"}, maddr : MC_Addrs]

Requests == [cmd : {"start"}, args : {<<>>, <<"a">>, <<"a", "b">>}]

Values == {Item("str", "x"), Item("int", 1), Item("bool", TRUE), Item("list", <<"a">>)}
Responses == UNION {[K -> Values] : K \in SUBSET ToSet(MC_Keys)}

Mrus == {r \in [set : SUBSET MC_Addrs, mru : MC_Addrs] : r.mru \in r.set}
Node == [id : MC_Ids, name : {"a"}, seen : {0}, flags : {1}, addrs : Mrus]
Beats ==
    [name : {"a"}, flags : {0, 1}, elector : {Nil}, master : {Nil},
     maintenance : BOOLEAN, nodes : {<<>>} \cup [1..1 -> Node]]
    \cup [name : {"a"}, flags : {0, 1}, elector : MC_Ids, master : MC_Ids \cup {Nil},
          maintenance : BOOLEAN, nodes : UNION {[1..k -> Node] : k \in 0..2}]

Msg(op, Bodies) == {h @@ [body |-> b] : h \in Header(op), b \in Bodies}

MC_Msgs ==
    Msg(HealthReport, Reports) \cup Msg(StateUpdate, Updates) \cup Msg(Request, Requests)
    \cup Msg(Response, Responses) \cup Msg(HeartBeat, Beats)
=============================================================================
