------------------------------ MODULE Messages ------------------------------
(***************************************************************************)
(* The message layer of msg.cpp: msg::encode and msg::decode of the five   *)
(* message bodies, at the level of archive items.  Codec models how each   *)
(* item is laid out in bytes; compression, padding and encryption (which   *)
(* decode undoes) are left out.  An item is a type tag and a value; the    *)
(* reader's operator>> of a type throws on an item of another type, which   *)
(* decode turns into a failed decode.                                      *)
(*                                                                         *)
(* A layout is a sequence of <<field, type>>: write_archive appends the    *)
(* fields in the order of its layout, read_archive reads the fields of its *)
(* own layout at the positions that order gives.  A node's endpoint set    *)
(* (mru<endpoint>) is written as a List of its addresses.                  *)
(*                                                                         *)
(* The wire: a node builds a message from Msgs, nexus sends it encoded,    *)
(* and the receiving nexus decodes it.                                     *)
(***************************************************************************)
EXTENDS Integers, Sequences, SequencesExt

CONSTANTS
    Version,   \* koi::version
    Nil,       \* the nil uuid
    NoAddr,    \* net::endpoint(), the empty endpoint
    MinTime,   \* ptime(min_date_time)
    Keys,      \* response field names, in std::map order
    Msgs       \* the messages the nodes build

(* base::Type *)
HealthReport == 0
StateUpdate == 1
Request == 2
Response == 3
HeartBeat == 4
NumOps == 5

(* koi.hpp and service_info.hpp: S_NumStates, R_NumModes, Svc_Promote,     *)
(* Svc_Promoted.                                                            *)
S_NumStates == 8
R_NumModes == 2
Svc_Promote == 4
Svc_Promoted == 8

Item(t, v) == [t |-> t, v |-> v]
Fail == [decodeFailed |-> TRUE]

(* The layouts write_archive appends. *)
HeadOut == <<<<"version", "int">>, <<"seqnr", "int">>, <<"op", "int">>,
             <<"cluster", "int">>, <<"sender", "uuid">>>>
HrOut == <<<<"name", "str">>, <<"uptime", "u64">>, <<"state", "int">>,
           <<"mode", "int">>, <<"maintenance", "bool">>, <<"action", "int">>>>
SvcOut == <<<<"name", "str">>, <<"event", "str">>, <<"state", "int">>,
            <<"failed", "bool">>>>
SuOut == <<<<"uptime", "u64">>, <<"master", "uuid">>>>
SuMasterOut == <<<<"lastSeen", "time">>, <<"mname", "str">>, <<"maddr", "ep">>>>
HbOut == <<<<"name", "str">>, <<"flags", "int">>>>
HbStateOut == <<<<"elector", "uuid">>, <<"master", "uuid">>,
                <<"maintenance", "bool">>>>
NodeOut == <<<<"id", "uuid">>, <<"name", "str">>, <<"seen", "time">>,
             <<"flags", "int">>, <<"addrs", "mru">>>>
RqOut == <<<<"cmd", "str">>, <<"args", "list">>>>

(* The layouts read_archive (and decode, for the header) reads. *)
HeadIn == <<<<"version", "int">>, <<"seqnr", "int">>, <<"op", "int">>,
            <<"cluster", "int">>, <<"sender", "uuid">>>>
HrIn == <<<<"name", "str">>, <<"uptime", "u64">>, <<"state", "int">>,
          <<"mode", "int">>, <<"maintenance", "bool">>, <<"action", "int">>>>
SvcIn == <<<<"name", "str">>, <<"event", "str">>, <<"state", "int">>,
           <<"failed", "bool">>>>
SuIn == <<<<"uptime", "u64">>, <<"master", "uuid">>>>
SuMasterIn == <<<<"lastSeen", "time">>, <<"mname", "str">>, <<"maddr", "ep">>>>
HbIn == <<<<"name", "str">>, <<"flags", "int">>>>
HbStateIn == <<<<"elector", "uuid">>, <<"master", "uuid">>,
               <<"maintenance", "bool">>>>
NodeIn == <<<<"id", "uuid">>, <<"name", "str">>, <<"seen", "time">>,
            <<"flags", "int">>, <<"addrs", "mru">>>>
RqIn == <<<<"cmd", "str">>, <<"args", "list">>>>

Count == <<<<"n", "int">>>>

(* operator<<(mru<endpoint>): the addresses in the set's (ascending) order; *)
(* which of them is the most recently used is not written.                 *)
WriteMru(m) == Item("list", SetToSortSeq(m.set, <))

(* operator>>(mru<endpoint>): a List is required; each address is inserted *)
(* in turn, so the last one read becomes the most recently used.           *)
ReadMru(it) ==
    [set |-> ToSet(it.v), mru |-> IF it.v = <<>> THEN NoAddr ELSE Last(it.v)]

Put(t, v) == IF t = "mru" THEN WriteMru(v) ELSE Item(t, v)
Get(it, t) == IF t = "mru" THEN ReadMru(it) ELSE it.v
Tag(t) == IF t = "mru" THEN "list" ELSE t

Write(r, L) == [i \in 1..Len(L) |-> Put(L[i][2], r[L[i][1]])]
WriteAll(rs, L) == FlattenSeq([k \in 1..Len(rs) |-> Write(rs[k], L)])

(* The items from position p on have the types of layout L. *)
Fits(its, p, L) ==
    /\ p + Len(L) - 1 <= Len(its)
    /\ \A i \in 1..Len(L) : its[p + i - 1].t = Tag(L[i][2])

Group(L, n) == FlattenSeq([k \in 1..n |-> L])

Read(its, p, L) ==
    [f \in {L[i][1] : i \in 1..Len(L)} |->
        LET i == CHOOSE k \in 1..Len(L) : L[k][1] = f IN Get(its[p + i - 1], L[i][2])]
ReadAll(its, p, n, L) == [k \in 1..n |-> Read(its, p + (k - 1) * Len(L), L)]

(* write_archive of each body. *)
WriteHr(b) == Write(b, HrOut) \o <<Item("int", Len(b.services))>>
                 \o WriteAll(b.services, SvcOut)
WriteSu(b) == Write(b, SuOut)
                 \o (IF b.master = Nil THEN <<>> ELSE Write(b, SuMasterOut))
WriteHb(b) ==
    IF b.elector = Nil THEN Write(b, HbOut) \o <<Item("bool", FALSE)>>
    ELSE Write(b, HbOut) \o <<Item("bool", TRUE)>> \o Write(b, HbStateOut)
            \o <<Item("int", Len(b.nodes))>> \o WriteAll(b.nodes, NodeOut)
WriteRs(b) ==
    LET ks == SelectSeq(Keys, LAMBDA f : f \in DOMAIN b)
    IN FlattenSeq([k \in 1..Len(ks) |-> <<Item("str", ks[k]), b[ks[k]]>>])

(* read_archive(healthreport): the range checks on state and mode admit   *)
(* S_NumStates and R_NumModes themselves (> where >= is meant).           *)
ReadHr(its, p) ==
    LET h == Read(its, p, HrIn)
        q == p + Len(HrIn) + 1
        n == its[q - 1].v
        svc == ReadAll(its, q, n, SvcIn)
    IN IF /\ Fits(its, p, HrIn \o Count)
          /\ h.state \in 0..S_NumStates /\ h.mode \in 0..R_NumModes
          /\ h.action \in 0..Svc_Promote
          /\ Fits(its, q, Group(SvcIn, n))
          /\ \A k \in 1..n : svc[k].state \in 0..Svc_Promoted
       THEN h @@ [services |-> svc]
       ELSE Fail

(* read_archive(stateupdate): a nil master resets the master fields. *)
ReadSu(its, p) ==
    LET s == Read(its, p, SuIn)
    IN CASE ~Fits(its, p, SuIn) -> Fail
         [] s.master = Nil -> s @@ [lastSeen |-> MinTime, mname |-> "", maddr |-> NoAddr]
         [] Fits(its, p + 2, SuMasterIn) -> s @@ Read(its, p + 2, SuMasterIn)
         [] OTHER -> Fail

(* read_archive(heartbeat): without state, elector and master are nil and *)
(* the node list is empty.                                                  *)
ReadHb(its, p) ==
    LET h == Read(its, p, HbIn)
        n == its[p + 6].v
    IN CASE ~Fits(its, p, HbIn \o <<<<"state", "bool">>>>) -> Fail
         [] ~its[p + 2].v -> h @@ [elector |-> Nil, master |-> Nil, nodes |-> <<>>]
         [] Fits(its, p + 3, HbStateIn \o Count)
              /\ Fits(its, p + 7, Group(NodeIn, n)) ->
                h @@ Read(its, p + 3, HbStateIn)
                  @@ [nodes |-> ReadAll(its, p + 7, n, NodeIn)]
         [] OTHER -> Fail

(* read_archive(response): name/value pairs to the end; a later pair of   *)
(* the same name overwrites an earlier one.                                *)
RECURSIVE ReadPairs(_, _, _)
ReadPairs(its, p, acc) ==
    IF p + 1 > Len(its) THEN acc
    ELSE ReadPairs(its, p + 2, (its[p].v :> its[p + 1]) @@ acc)

ReadRs(its, p) == ReadPairs(its, p, <<>>)

(* msg::encode: the header, then the body of the message's type. *)
Encode(m) ==
    Write(m, HeadOut)
      \o CASE m.op = HealthReport -> WriteHr(m.body)
           [] m.op = StateUpdate -> WriteSu(m.body)
           [] m.op = Request -> Write(m.body, RqOut)
           [] m.op = Response -> WriteRs(m.body)
           [] m.op = HeartBeat -> WriteHb(m.body)

(* msg::decode: version and operation are checked before the body is read *)
(* into a fresh body (read_message_body).                                  *)
Decode(its) ==
    LET h == Read(its, 1, HeadIn)
        p == Len(HeadIn) + 1
        b == CASE h.op = HealthReport -> ReadHr(its, p)
               [] h.op = StateUpdate -> ReadSu(its, p)
               [] h.op = Request -> IF Fits(its, p, RqIn) THEN Read(its, p, RqIn) ELSE Fail
               [] h.op = Response -> ReadRs(its, p)
               [] h.op = HeartBeat -> ReadHb(its, p)
    IN IF ~Fits(its, 1, HeadIn) \/ h.version # Version \/ h.op \notin 0..NumOps - 1
          \/ b = Fail
       THEN Fail
       ELSE h @@ [body |-> b]

VARIABLES sent, got

vars == <<sent, got>>
NoMsg == [nothingReceived |-> TRUE]

Init == sent \in Msgs /\ got = NoMsg

(* nexus::send encodes the message; nexus::handle at the receiver decodes *)
(* the datagram.                                                            *)
Transmit ==
    /\ got = NoMsg
    /\ got' = Decode(Encode(sent))
    /\ UNCHANGED sent

(* The next message the node builds. *)
Build(m) ==
    /\ got # NoMsg
    /\ sent' = m
    /\ got' = NoMsg

Next == Transmit \/ \E m \in Msgs : Build(m)

Spec == Init /\ [][Next]_vars

-----------------------------------------------------------------------------
(* Properties *)

Without(r, F) == [f \in DOMAIN r \ F |-> r[f]]

(* The message as spec.md section 6 lays it out: a StateUpdate without    *)
(* maintenance flag, a HeartBeat without state (nil elector) with nothing  *)
(* after has_state.                                                         *)
Carried(m) ==
    CASE m.op = StateUpdate -> [m EXCEPT !.body = Without(@, {"maintenance"})]
      [] m.op = HeartBeat /\ m.body.elector = Nil ->
            [m EXCEPT !.body = [name |-> @.name, flags |-> @.flags, elector |-> Nil,
                                master |-> Nil, nodes |-> <<>>]]
      [] OTHER -> m

(* A heartbeat's endpoint sets without their most-recently-used marks. *)
Unmarked(m) ==
    IF m.op = HeartBeat
    THEN [m EXCEPT !.body.nodes = [k \in DOMAIN @ |-> [@[k] EXCEPT !.addrs = @.set]]]
    ELSE m

(* msg::decode gives back what msg::encode was given, in the layouts of   *)
(* spec.md section 6, every field at its place and every list complete;   *)
(* the address sets of heartbeat nodes arrive as sets.                     *)
ReceivedAsSent ==
    got # NoMsg => Unmarked(got) = Unmarked(Carried(sent))

(* cluster::update_state takes n._addrs.get(), the most recently used     *)
(* address of a node in the Leader's list, as that node's endpoint: the   *)
(* address it is given is the one the Leader used last.                    *)
MruKept ==
    got # NoMsg /\ got # Fail /\ sent.op = HeartBeat =>
        \A k \in DOMAIN got.body.nodes :
            got.body.nodes[k].addrs.mru = sent.body.nodes[k].addrs.mru

(* spec.md section 4.6 (Tick emission): the StateUpdate the elector sends *)
(* carries the maintenance flag (elector.cpp sets it from                  *)
(* _cluster_maintenance).                                                  *)
StateUpdateCarriesMaintenance ==
    got # NoMsg /\ got # Fail /\ sent.op = StateUpdate =>
        "maintenance" \in DOMAIN got.body
        /\ got.body.maintenance = sent.body.maintenance
=============================================================================
