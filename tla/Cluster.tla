------------------------------ MODULE Cluster ------------------------------
(***************************************************************************)
(* Election of the elector role (cluster.cpp).                             *)
(*                                                                         *)
(* Every node runs cluster::update() once per cluster_update_interval.     *)
(* A tick drains the heartbeats queued by network::handle, reacts to       *)
(* those flagged Leader, and sends this node's own heartbeats. A node is   *)
(* Servant, Candidate or Leader. The Leader runs the elector: nexus::up    *)
(* starts it when the node becomes Leader, and nexus::down stops it when   *)
(* the node leaves Leader.                                                 *)
(*                                                                         *)
(* Abstractions:                                                           *)
(*  - Node ids are naturals. The code compares uuids with >, and only the  *)
(*    order matters.                                                       *)
(*  - The tick counter _t is kept only as the saturated differences        *)
(*    min(_t - _last_seen, Limit) and min(_t - _candidate_time, Limit).    *)
(*    The code compares them only with Limit.                              *)
(*  - Every heartbeat the model sends carries the Leader flag. Leaders and *)
(*    candidates set it (cluster.cpp:162,177). The servant's unicast reply *)
(*    (reply_leader) does not carry it. Every branch that changes the      *)
(*    modelled state tests msg_from_leader first, so the reply only feeds  *)
(*    the peer table and is left out. A queued heartbeat is just the id of *)
(*    its sender.                                                          *)
(*  - Ticks run in rounds: each live node ticks once per round, in any     *)
(*    order. All nodes use the same cluster_update_interval, and a LAN     *)
(*    datagram arrives well within one interval. So a heartbeat sent in a  *)
(*    round is queued before the receiver's next tick, unless it is lost.  *)
(***************************************************************************)
EXTENDS Naturals, FiniteSets, FiniteSetsExt

CONSTANTS
    Nodes,        \* node ids (naturals; larger id wins, as uuid operator >)
    Electors,     \* nodes configured with node.elector = true (_cfg._elector)
    Nil,          \* the nil uuid
    Limit,        \* cluster::Limit, 4 ticks
    MaxCrashes,   \* bound on process crashes in a behaviour
    MaxLoss       \* bound on lost heartbeat datagrams in a behaviour

ASSUME /\ Nodes \subseteq Nat /\ Nodes # {}
       /\ Electors \subseteq Nodes
       /\ Nil \notin Nodes
       /\ Limit \in Nat \ {0}
       /\ MaxCrashes \in Nat /\ MaxLoss \in Nat

Servant == "Servant"
Candidate == "Candidate"
Leader == "Leader"

VARIABLES
    mode,       \* cluster::_mode
    since,      \* min(_t - _last_seen, Limit)
    candFor,    \* min(_t - _candidate_time, Limit)
    leader,     \* cluster::_leader
    inbox,      \* network::_in_queue: senders of queued Leader-flagged heartbeats
    up,         \* nodes whose koi process is running
    ticked,     \* nodes that have run cluster::update in the current round
    crashes,    \* crashes so far
    lost        \* datagrams lost so far

vars == <<mode, since, candFor, leader, inbox, up, ticked, crashes, lost>>

TypeOK ==
    /\ mode \in [Nodes -> {Servant, Candidate, Leader}]
    /\ since \in [Nodes -> 0..Limit]
    /\ candFor \in [Nodes -> 0..Limit]
    /\ leader \in [Nodes -> Nodes \cup {Nil}]
    /\ inbox \in [Nodes -> SUBSET Nodes]
    /\ up \subseteq Nodes /\ ticked \subseteq up
    /\ crashes \in 0..MaxCrashes /\ lost \in 0..MaxLoss

Leaders == {n \in up : mode[n] = Leader}

(* One more tick on a saturated tick difference (++_t in cluster::update). *)
Later(d) == IF d + 1 >= Limit THEN Limit ELSE d + 1

(* Mutant: the step-down test on a larger Leader's heartbeat dropped. *)
HigherLeadersIgnored(n) == {s \in inbox[n] : FALSE}

(* Leader-flagged heartbeats from a node with a larger id: the test        *)
(* msg_from_leader(m) && msg_id(m) > _cfg._uuid of update_leader and       *)
(* update_candidate.                                                       *)
HigherLeaders(n) == {s \in inbox[n] : s > n}

(* Leader-flagged heartbeats from any other node: the test of             *)
(* update_servant, msg_from_leader(m) && msg_id(m) != _cfg._uuid.           *)
OtherLeaders(n) == {s \in inbox[n] : s # n}

(* Mutant: the servant's timeout compared with > instead of >=. *)
ServantTimesOutLate(n, s) == n \in Electors /\ s > Limit

(* The servant's election timeout, _cfg._elector && _t - _last_seen >= Limit. *)
ServantTimesOut(n, s) == n \in Electors /\ s >= Limit

(* Mutant: a candidate that promotes itself after one tick. *)
CandidateWinsEarly(c) == c >= 1

(* The candidate's promotion, _t - _candidate_time >= Limit. *)
CandidateWins(c) == c >= Limit

(* The inboxes after node n drains its own queue and, if it sends, queues  *)
(* its heartbeat at every other live node except those whose datagram is   *)
(* lost (network::send through nexus::send to every link).                 *)
Deliver(n, sends, dropped) ==
    [m \in Nodes |->
        IF m = n THEN {}
        ELSE IF sends /\ m \in up /\ m \notin dropped THEN inbox[m] \cup {n}
        ELSE inbox[m]]

(* Subsets of receivers whose copy of a heartbeat may be lost. *)
Drops(n, sends) ==
    IF sends
    THEN {d \in SUBSET (up \ {n}) : lost + Cardinality(d) <= MaxLoss}
    ELSE {{}}

Init ==
    /\ mode = [n \in Nodes |-> Servant]
    /\ since = [n \in Nodes |-> 0]
    /\ candFor = [n \in Nodes |-> 0]
    /\ leader = [n \in Nodes |-> Nil]
    /\ inbox = [n \in Nodes |-> {}]
    /\ up = Nodes
    /\ ticked = {}
    /\ crashes = 0
    /\ lost = 0

(* update_leader: step down on a heartbeat from a larger Leader (and call  *)
(* _on_down, which stops the elector); otherwise broadcast the heartbeat   *)
(* with the Leader flag and the cluster state.                             *)
LeaderStep(n, d) ==
    LET H == HigherLeaders(n) IN
    \/ /\ H = {}
       /\ inbox' = Deliver(n, TRUE, d)
       /\ lost' = lost + Cardinality(d)
       /\ UNCHANGED <<mode, leader>>
    \/ /\ H # {}
       /\ mode' = [mode EXCEPT ![n] = Servant]
       /\ \E s \in H : leader' = [leader EXCEPT ![n] = s]
       /\ inbox' = Deliver(n, FALSE, {})
       /\ UNCHANGED lost

(* update_candidate: defeated by a heartbeat from a larger Leader;         *)
(* otherwise broadcast with the Leader flag and, after Limit ticks as      *)
(* candidate, become Leader (set_leader to itself, then _on_up).           *)
CandidateStep(n, d) ==
    LET H == HigherLeaders(n)
        c == Later(candFor[n])
    IN
    \/ /\ H # {}
       /\ mode' = [mode EXCEPT ![n] = Servant]
       /\ \E s \in H : leader' = [leader EXCEPT ![n] = s]
       /\ inbox' = Deliver(n, FALSE, {})
       /\ UNCHANGED lost
    \/ /\ H = {}
       /\ inbox' = Deliver(n, TRUE, d)
       /\ lost' = lost + Cardinality(d)
       /\ IF CandidateWins(c)
            THEN /\ mode' = [mode EXCEPT ![n] = Leader]
                 /\ leader' = [leader EXCEPT ![n] = n]
            ELSE UNCHANGED <<mode, leader>>

(* update_servant: any other Leader-flagged heartbeat resets _last_seen    *)
(* and makes its sender the leader. An elector-capable servant that has    *)
(* heard no leader for Limit ticks becomes Candidate and clears _leader.   *)
ServantStep(n) ==
    LET O == OtherLeaders(n)
        s == IF O # {} THEN 0 ELSE Later(since[n])
    IN
    /\ since' = [since EXCEPT ![n] = s]
    /\ inbox' = Deliver(n, FALSE, {})
    /\ UNCHANGED lost
    /\ IF ServantTimesOut(n, s)
         THEN /\ mode' = [mode EXCEPT ![n] = Candidate]
              /\ leader' = [leader EXCEPT ![n] = Nil]
         ELSE /\ UNCHANGED mode
              /\ \/ O = {} /\ UNCHANGED leader
                 \/ \E l \in O : leader' = [leader EXCEPT ![n] = l]

(* A Leader or Candidate that no larger Leader has topped broadcasts its   *)
(* heartbeat at the end of its tick.                                       *)
Sends(n) == mode[n] \in {Leader, Candidate} /\ HigherLeaders(n) = {}

(* cluster::update: one tick of node n in the current round, whose         *)
(* heartbeat, if it sends one, is lost on the way to the nodes in d.       *)
Tick(n, d) ==
    /\ n \in up \ ticked
    /\ ticked' = ticked \cup {n}
    /\ \/ mode[n] = Leader /\ LeaderStep(n, d) /\ since' = [since EXCEPT ![n] = Later(@)]
       \/ mode[n] = Candidate /\ CandidateStep(n, d) /\ since' = [since EXCEPT ![n] = Later(@)]
       \/ mode[n] = Servant /\ ServantStep(n)
    /\ candFor' = [candFor EXCEPT ![n] =
                     IF mode[n] = Servant /\ mode'[n] = Candidate THEN 0
                     ELSE Later(@)]
    /\ UNCHANGED <<up, crashes>>

Update(n) == \E d \in Drops(n, Sends(n)) : Tick(n, d)

(* Every live node has ticked: the next cluster_update_interval begins. *)
NewRound ==
    /\ ticked # {}
    /\ up \subseteq ticked
    /\ ticked' = {}
    /\ UNCHANGED <<mode, since, candFor, leader, inbox, up, crashes, lost>>

(* The koi process on n dies: its cluster state, queue and elector vanish. *)
Crash(n) ==
    /\ n \in up
    /\ crashes < MaxCrashes
    /\ up' = up \ {n}
    /\ ticked' = ticked \ {n}
    /\ inbox' = [inbox EXCEPT ![n] = {}]
    /\ crashes' = crashes + 1
    /\ UNCHANGED <<mode, since, candFor, leader, lost>>

(* The process starts again with the same configuration: cluster::cluster *)
(* constructs a Servant with _t = _last_seen = 0 and a nil leader.         *)
Restart(n) ==
    /\ n \notin up
    /\ up' = up \cup {n}
    /\ mode' = [mode EXCEPT ![n] = Servant]
    /\ since' = [since EXCEPT ![n] = 0]
    /\ candFor' = [candFor EXCEPT ![n] = 0]
    /\ leader' = [leader EXCEPT ![n] = Nil]
    /\ inbox' = [inbox EXCEPT ![n] = {}]
    /\ ticked' = ticked \cup {n}
    /\ UNCHANGED <<crashes, lost>>

Next ==
    \/ \E n \in Nodes : Update(n) \/ Crash(n) \/ Restart(n)
    \/ NewRound

(* The main loop runs every node's tick each interval; a crashed daemon is *)
(* restarted by its supervisor.                                            *)
Fairness ==
    /\ \A n \in Nodes : WF_vars(Update(n)) /\ WF_vars(Restart(n))
    /\ WF_vars(NewRound)

Spec == Init /\ [][Next]_vars /\ Fairness

-----------------------------------------------------------------------------
(* Properties *)

(* At most one live node is Leader, so at most one elector runs (nexus::up *)
(* starts one per Leader). Two candidates racing through the Limit-tick    *)
(* window of update_candidate, or a restarted node that missed the current *)
(* leader, could break this.                                               *)
AtMostOneLeader == Cardinality(Leaders) <= 1

(* Eventually one node is Leader, the same node forever, and no other live *)
(* node is. Leaders toppling each other (update_leader steps down on a     *)
(* larger id) or a timed-out servant overthrowing the Leader would break   *)
(* it.                                                                     *)
EventuallyStableLeader ==
    \E l \in Nodes : <>[](Leaders = {l})

(* spec.md section 8, property 6: "all others settle in Servant". Once a   *)
(* Leader exists, eventually every other live node stays a Servant.        *)
OthersSettleAsServants ==
    <>[](\A n \in up : mode[n] = Leader \/ mode[n] = Servant)

(* spec.md section 8, property 6: the elector-capable node with the        *)
(* largest id becomes Leader, and all the others settle as Servants.       *)
LargestElectorLeads ==
    <>[](mode[Max(Electors)] = Leader)
=============================================================================
