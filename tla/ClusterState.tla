---------------------------- MODULE ClusterState ----------------------------
(***************************************************************************)
(* The peer table (clusterstate.cpp) of every node, composed with the      *)
(* election of Cluster.  Each tick of Cluster is one conjunct here; the    *)
(* other conjunct is what the same cluster::update() does to _state:       *)
(* _update_state upserts the node itself, the drained heartbeats upsert    *)
(* their senders (and, at a Servant or beaten Candidate, the node list a   *)
(* Leader embeds), update_seen refreshes the node itself, and             *)
(* timeout_nodes prunes what is outdated.                                  *)
(*                                                                         *)
(* Abstractions:                                                           *)
(*  - An entry is its age in rounds since last_seen and its Elector flag   *)
(*    (the flag get_elector reads).  Names, addresses, the other flags and *)
(*    the informational _elector and _master fields are left out.          *)
(*  - A round is one cluster_update_interval (1 s).  nexus::update starts  *)
(*    a tick once the interval has passed at a main-loop iteration, so     *)
(*    ticks are 1 s to 1 s + mainloop_sleep_time (1/3 s) apart: an entry  *)
(*    a rounds old has not been seen for between a and 4a/3 seconds, and   *)
(*    is_outdated's "> 5 s" may hold from MinPruneAge rounds on and surely  *)
(*    holds from MaxPruneAge rounds on.                                     *)
(*  - A servant's unicast reply (reply_leader) is not lost; the broadcast  *)
(*    losses of Cluster stand for the network's.                            *)
(***************************************************************************)
EXTENDS Cluster, SequencesExt

CONSTANTS
    MinPruneAge,   \* rounds after which 5 s may have passed (4)
    MaxPruneAge,   \* rounds after which 5 s have surely passed (6)
    DownCap        \* saturation of the rounds-since-crash ghost

ASSUME MinPruneAge \in Nat /\ MaxPruneAge \in Nat /\ MinPruneAge <= MaxPruneAge
       /\ DownCap \in Nat

VARIABLES
    table,     \* clusterstate::_nodes of each node: id -> [age, el]
    gossip,    \* gossip[m][s]: the list s's queued Leader-flagged heartbeat at m embeds
    replies,   \* replies[m]: senders of queued servant replies at m
    downFor    \* ghost: rounds since each node's last crash

peerVars == <<table, gossip, replies, downFor>>
allVars == <<vars, peerVars>>

Entry == [age : 0..MaxPruneAge, el : BOOLEAN]

IsTable(t) == DOMAIN t \subseteq Nodes /\ \A x \in DOMAIN t : t[x] \in Entry

EmptyTable == [x \in {} |-> [age |-> 0, el |-> FALSE]]

(* The list a Leader's heartbeat embeds, as the receiver uses it: each id *)
(* with its Elector flag.  The last_seen it also carries is never read     *)
(* (update() stamps now).                                                  *)
IsList(l) == DOMAIN l \subseteq Nodes /\ \A x \in DOMAIN l : l[x] \in BOOLEAN

ListOf(t) == [x \in DOMAIN t |-> t[x].el]

(* A Candidate's heartbeat has no state (network.cpp:45).  A Leader's list *)
(* always holds the Leader itself, so the empty list stands for none.      *)
NoList == [x \in {} |-> FALSE]

PeersTypeOK ==
    /\ TypeOK
    /\ \A n \in Nodes : IsTable(table[n])
    /\ \A m, s \in Nodes : IsList(gossip[m][s])
    /\ replies \in [Nodes -> SUBSET Nodes]
    /\ downFor \in [Nodes -> 0..DownCap]

(* clusterstate::update for one id: insert it or overwrite its flags, and  *)
(* update_seen(ID) sets last_seen to now.                                  *)
Upsert(t, x, el) ==
    [y \in DOMAIN t \cup {x} |-> IF y = x THEN [age |-> 0, el |-> el] ELSE t[y]]

(* Mutant: an upsert that keeps the flags already known for a sender. *)
HeardKeepsFlags(t, S, E) ==
    [y \in DOMAIN t \cup S |->
        IF y \in S
        THEN [age |-> 0, el |-> IF y \in DOMAIN t THEN t[y].el ELSE y \in E]
        ELSE t[y]]

(* clusterstate::update_seen: the entry of x, if any, is seen now; its   *)
(* flags stay as they are.                                                 *)
Seen(t, x) == [t EXCEPT ![x].age = 0]

(* The same for every sender in S; those in E carry the Elector flag. *)
Heard(t, S, E) ==
    [y \in DOMAIN t \cup S |-> IF y \in S THEN [age |-> 0, el |-> y \in E] ELSE t[y]]

(* cluster::update_state: every node of a Leader's list is upserted with   *)
(* the flags the Leader holds for it, and update() stamps it seen now.     *)
Absorb(t, list) ==
    [y \in DOMAIN t \cup DOMAIN list |->
        IF y \in DOMAIN list THEN [age |-> 0, el |-> list[y]] ELSE t[y]]

(* One Leader-flagged heartbeat from s drained by a Servant or Candidate  *)
(* whose current leader is acc.ld: update_state(m), then set_leader(m),    *)
(* which upserts the sender only when the leader changes.                  *)
Follow(p, acc, s) ==
    LET t1 == IF p[s] # NoList THEN Absorb(acc.t, p[s]) ELSE acc.t
    IN [t |-> IF s # acc.ld THEN Upsert(t1, s, p[s] # NoList) ELSE t1, ld |-> s]

(* The heartbeats of ord drained in that order. *)
FollowAll(n, t, ord) ==
    FoldLeft(LAMBDA acc, s : Follow(gossip[n], acc, s), [t |-> t, ld |-> leader[n]], ord).t

(* Entries is_outdated may find older than 5 s, and those it surely does. *)
MayOutdated(t) == {x \in DOMAIN t : t[x].age >= MinPruneAge}
MustOutdated(t) == {x \in DOMAIN t : t[x].age >= MaxPruneAge}

(* timeout_nodes: the tables left after erasing the outdated entries. *)
Pruned(t) ==
    {[y \in DOMAIN t \ P |-> t[y]] :
        P \in {P \in SUBSET MayOutdated(t) : MustOutdated(t) \subseteq P}}

(* The table of n after draining its queue in mode mode[n]: update_leader  *)
(* upserts every sender; update_candidate and update_servant follow the    *)
(* Leader-flagged heartbeats that their test lets through, in some order,  *)
(* ending at the leader Cluster picked.                                    *)
Drained(n, t) ==
    CASE mode[n] = Leader ->
            {Heard(t, inbox[n] \cup replies[n],
                   {s \in inbox[n] : gossip[n][s] # NoList})}
      [] mode[n] = Candidate /\ HigherLeaders(n) = {} -> {t}
      [] mode[n] = Servant /\ OtherLeaders(n) = {} -> {t}
      [] OTHER ->
            LET F == IF mode[n] = Candidate THEN HigherLeaders(n) ELSE OtherLeaders(n)
            IN {FollowAll(n, t, ord) :
                    ord \in {o \in SetToSeqs(F) : o[Len(o)] = leader'[n]}}

(* One cluster::update of node n (Cluster's Tick) with what it does to the *)
(* peer table: _update_state, the drain, the Leader's broadcast of the     *)
(* list as it stands before pruning, update_seen and timeout_nodes. A     *)
(* Servant replies to each Leader it follows.  n's own entry keeps the     *)
(* flags _update_state gave it at the start of the tick (or a followed     *)
(* Leader's list gave it), so a node deposed in this tick still flags      *)
(* itself as elector until its next tick.                                  *)
PeerTick(n, d) ==
    /\ Tick(n, d)
    /\ LET own == Upsert(table[n], n, mode[n] = Leader)
       IN \E t \in Drained(n, own) :
            LET sent == Seen(t, n)
                got == {m \in up \ {n} : m \notin d}
            IN /\ \E t2 \in Pruned(sent) : table' = [table EXCEPT ![n] = t2]
               /\ gossip' = [m \in Nodes |->
                               IF m = n THEN [s \in Nodes |-> NoList]
                               ELSE IF Sends(n) /\ m \in got
                               THEN [gossip[m] EXCEPT ![n] =
                                        IF mode[n] = Leader THEN ListOf(sent) ELSE NoList]
                               ELSE gossip[m]]
    /\ replies' = [m \in Nodes |->
                     IF m = n THEN {}
                     ELSE IF mode[n] = Servant /\ m \in OtherLeaders(n) /\ m \in up
                     THEN replies[m] \cup {n}
                     ELSE replies[m]]
    /\ UNCHANGED downFor

(* A new round: one more interval since every entry was seen, and since   *)
(* every dead node died.                                                   *)
PeerNewRound ==
    /\ NewRound
    /\ table' = [n \in Nodes |->
                   [x \in DOMAIN table[n] |->
                       [table[n][x] EXCEPT !.age = IF @ < MaxPruneAge THEN @ + 1 ELSE @]]]
    /\ downFor' = [x \in Nodes |->
                     IF x \notin up /\ downFor[x] < DownCap THEN downFor[x] + 1 ELSE downFor[x]]
    /\ UNCHANGED <<gossip, replies>>

(* A crash loses the process's table and queue. *)
PeerCrash(n) ==
    /\ Crash(n)
    /\ table' = [table EXCEPT ![n] = EmptyTable]
    /\ gossip' = [gossip EXCEPT ![n] = [s \in Nodes |-> NoList]]
    /\ replies' = [replies EXCEPT ![n] = {}]
    /\ downFor' = [downFor EXCEPT ![n] = 0]

(* clusterstate::clusterstate: a restarted node's table is empty. *)
PeerRestart(n) ==
    /\ Restart(n)
    /\ downFor' = [downFor EXCEPT ![n] = 0]
    /\ UNCHANGED <<table, gossip, replies>>

PeersInit ==
    /\ Init
    /\ table = [n \in Nodes |-> EmptyTable]
    /\ gossip = [m \in Nodes |-> [s \in Nodes |-> NoList]]
    /\ replies = [n \in Nodes |-> {}]
    /\ downFor = [n \in Nodes |-> 0]

PeersNext ==
    \/ \E n \in Nodes :
          \/ \E d \in Drops(n, Sends(n)) : PeerTick(n, d)
          \/ PeerCrash(n)
          \/ PeerRestart(n)
    \/ PeerNewRound

(* The steps of PeerTick(n, _), told by what they do to ticked: no other  *)
(* step adds a live node to ticked, and PeerTick(n, _) is enabled exactly  *)
(* when n is live and has not ticked this round (Drops, Drained and       *)
(* Pruned are never empty), and always changes ticked.  Fairness is      *)
(* stated on this form, which TLC evaluates without recomputing tables.   *)
TickedBy(n) == n \in up \ ticked /\ ticked' = ticked \cup {n}

PeersFairness ==
    /\ \A n \in Nodes : WF_ticked(TickedBy(n))
    /\ \A n \in Nodes : WF_allVars(PeerRestart(n))
    /\ WF_allVars(PeerNewRound)

PeersSpec == PeersInit /\ [][PeersNext]_allVars /\ PeersFairness

-----------------------------------------------------------------------------
(* Properties *)

(* spec.md section 3: a ClusterNode is "destroyed when unseen for 5s".    *)
(* The Leader runs the elector, whose has_quorum counts this table         *)
(* (nexus::has_quorum), so a node dead for longer than 5 s, plus one       *)
(* round for its last queued heartbeat, must be gone from it.  update()    *)
(* stamps every node of a Leader's list as seen now, so a Servant keeps a  *)
(* dead node while the Leader lists it; a Servant elected soon after the   *)
(* Leader dies inherits such an entry.                                     *)
LeaderTableFresh ==
    \A l \in Leaders : \A x \in DOMAIN table[l] :
        x \in up \/ downFor[x] <= MaxPruneAge + 1

(* Once the crashes are over, every live node's table eventually carries *)
(* the Elector flag on the Leader and on no other node, so that           *)
(* get_elector, which returns the first flagged entry, names the node that *)
(* runs the elector everywhere.  A deposed or restarted Leader whose old   *)
(* flag survives in some table, kept alive by the Leader's gossip, would   *)
(* break it.                                                               *)
ElectorFlagsConverge ==
    <>[](\A n \in up : {x \in DOMAIN table[n] : table[n][x].el} = Leaders)

(* spec.md section 4.5: heartbeats "discover peers", and the elector's     *)
(* quorum is the "visible-peer count".  Once the crashes are over, the     *)
(* Leader's table eventually lists every live node for good.  Only a       *)
(* Servant's reply (reply_leader) puts a node there, so a node that never  *)
(* follows the Leader as a Servant would break it.                         *)
LeaderSeesAll == <>[](\A l \in Leaders : DOMAIN table[l] = up)
=============================================================================
