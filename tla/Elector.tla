------------------------------ MODULE Elector ------------------------------
(***************************************************************************)
(* The elector (elector.cpp): the service the cluster Leader runs to pick  *)
(* the master among the runners.                                           *)
(*                                                                         *)
(* The runner table _runners is a std::map keyed by uuid; known is its key *)
(* set and the functions st, rmode, svc, age and recentFail hold the       *)
(* runner_info fields of each entry. _master and _target_master are map    *)
(* iterators; they are runner ids here, None standing for _runners.end().  *)
(* An iterator whose entry was erased is an id outside known.              *)
(*                                                                         *)
(* Abstractions:                                                           *)
(*  - Time is kept only as the comparisons the code makes: age[r] says     *)
(*    whether now - _last_seen is within master_dead_time (Fresh), beyond  *)
(*    it (Dead) or beyond the 30 minutes of _forget_old_runners (Old);     *)
(*    recentFail[r] says now - _last_failed <= the failure promotion       *)
(*    timeout; warm says the elector's uptime has passed                   *)
(*    initial_promotion_delay. Time moves by environment actions.          *)
(*  - The service list of a runner is kept as the two facts the elector    *)
(*    reads: promoted_service() and failed_service().                      *)
(*  - Uptime and last_seen are kept only as the order runner_electability  *)
(*    sorts by; the model lets any candidate come first.                   *)
(*  - has_quorum() reads the peer table; it is an environment variable.    *)
(*  - Logging, the failure log and the status dump change nothing the      *)
(*    elector decides and are left out.                                    *)
(***************************************************************************)
EXTENDS Naturals, FiniteSets, FiniteSetsExt

CONSTANTS
    Runners,      \* runner uuids (naturals: std::map iterates in key order)
    Names,        \* runner names as configured on the runner nodes
    Name,         \* Name[r]: the name runner r reports
    None,         \* _runners.end()
    ReportStates, \* runner states an Active runner's HealthReport may carry
    ReportSvcs    \* service summaries a HealthReport may carry

ASSUME /\ Runners \subseteq Nat /\ Runners # {}
       /\ Name \in [Runners -> Names]
       /\ None \notin Runners
       /\ ReportStates \subseteq 0..5
       /\ ReportSvcs \subseteq SUBSET {"promoted", "failed"}

(* koi::State, in enum order; the code compares states with < and >. *)
S_Failed == 0
S_Disconnected == 1
S_Stopped == 2
S_Live == 3
S_Slave == 4
S_Master == 5
RunnerStates == S_Failed..S_Master

Active == "Active"
Passive == "Passive"
Promoted == "promoted"     \* a service in state >= Svc_Demoting
FailedSvc == "failed"      \* a service with _failed set

Fresh == "Fresh"
Dead == "Dead"
Old == "Old"

VARIABLES
    known,       \* keys of _runners
    st,          \* runner_info::_state
    rmode,       \* runner_info::_mode
    svc,         \* what runner_info::_services says
    age,         \* now - runner_info::_last_seen, as Fresh / Dead / Old
    recentFail,  \* now - runner_info::_last_failed <= promotion timeout
    master,      \* elector::_master
    target,      \* elector::_target_master
    manual,      \* elector::_manual_master_mode
    warm,        \* _emitter.uptime(_starttime) > initial_promotion_delay
    quorum       \* _emitter._nexus.has_quorum()

vars == <<known, st, rmode, svc, age, recentFail, master, target, manual,
          warm, quorum>>

TypeOK ==
    /\ known \subseteq Runners
    /\ st \in [Runners -> RunnerStates]
    /\ rmode \in [Runners -> {Active, Passive}]
    /\ svc \in [Runners -> SUBSET {Promoted, FailedSvc}]
    /\ age \in [Runners -> {Fresh, Dead, Old}]
    /\ recentFail \in [Runners -> BOOLEAN]
    /\ master \in Runners \cup {None}
    /\ target \in Runners \cup {None}
    /\ manual \in BOOLEAN /\ warm \in BOOLEAN /\ quorum \in BOOLEAN
-----------------------------------------------------------------------------
(* runner_info::alive: seen within master_dead_time. *)
Alive(r) == age[r] = Fresh

(* runner_info::electable(now, promotion_timeout): running above Stopped,  *)
(* Active, and (when the timeout is applied) not failed recently. The      *)
(* fallback call electable(now, 0) tests now - _last_failed > 0, which     *)
(* holds for any failure recorded at an earlier time.                      *)
Electable(s, r, withTimeout) ==
    /\ s[r] > S_Stopped
    /\ rmode[r] # Passive
    /\ withTimeout => ~recentFail[r]

(* elector::elect_node: only a runner in state Master or Slave is taken. *)
ElectNode(s, i) ==
    /\ s[i] > S_Stopped
    /\ s[i] = S_Master \/ s[i] = S_Slave

(* _repromote_master: with no master, no target and no manual mode, the    *)
(* first runner in uuid order whose state is above Slave is elected.       *)
Repromoted ==
    LET P == {r \in known : st[r] > S_Slave} IN
    IF master = None /\ target = None /\ ~manual /\ P # {}
    THEN Min(P) ELSE master

(* _check_runner_health, on the runner states: a runner above Disconnected *)
(* that is not alive is marked Disconnected once the elector is past its   *)
(* initial promotion delay; a live one with a failed service is marked     *)
(* Failed (transition_runner).                                             *)
HealthState ==
    [r \in Runners |->
        IF r \in known /\ st[r] > S_Disconnected
        THEN IF ~Alive(r)
             THEN IF warm THEN S_Disconnected ELSE st[r]
             ELSE IF FailedSvc \in svc[r] THEN S_Failed ELSE st[r]
        ELSE st[r]]

(* transition_runner to Disconnected clears the service list. *)
HealthSvc ==
    [r \in Runners |->
        IF r \in known /\ st[r] > S_Disconnected /\ ~Alive(r) /\ warm
        THEN {} ELSE svc[r]]

(* npromoted > 0: a live runner above Disconnected reports a service in a  *)
(* promoted or promoting state.                                            *)
AnyPromoted ==
    \E r \in known : st[r] > S_Disconnected /\ Alive(r) /\ Promoted \in svc[r]

(* Mutant: _check_master_health without the quorum test. *)
MasterHealthNoQuorum(m, s) ==
    IF m # None /\ (s[m] <= S_Stopped \/ rmode[m] = Passive)
    THEN None ELSE m

(* _check_master_health: the master is dropped when Stopped or below,      *)
(* Passive, or when the cluster has no quorum.                             *)
MasterHealth(m, s) ==
    IF m # None /\ (s[m] <= S_Stopped \/ rmode[m] = Passive \/ ~quorum)
    THEN None ELSE m

(* Mutant: manual master mode forgotten by _should_skip_election. *)
ShouldSkipElectionNoManual(m) ==
    AnyPromoted \/ known = {} \/ m # None \/ ~quorum \/ ~warm

(* _should_skip_election. *)
ShouldSkipElection(m) ==
    AnyPromoted \/ known = {} \/ m # None \/ manual \/ ~quorum \/ ~warm

(* _find_candidates: the electable runners, and if there are none, the     *)
(* runners electable when the failure promotion timeout is ignored.        *)
Candidates(s) ==
    LET C == {r \in known : Electable(s, r, TRUE)} IN
    IF C # {} THEN C ELSE {r \in known : Electable(s, r, FALSE)}

(* The runners _election may pick after sorting by runner_electability:    *)
(* the first candidate above Slave if any, else the first candidate. Any   *)
(* order of uptimes and last_seen times is possible, so any of them.       *)
Winners(s) ==
    LET C == Candidates(s)
        P == {c \in C : s[c] > S_Slave}
    IN IF P # {} THEN P ELSE C

(* _election, with _elect_target_master and _elect_candidate: the possible *)
(* (master, target, manual) after the election step.                       *)
ElectionOutcomes(m, s) ==
    LET Keep == [master |-> m, target |-> target, manual |-> manual]
        Elect(i) == [master |-> i, target |-> None, manual |-> manual]
    IN
    IF ShouldSkipElection(m) THEN {Keep}
    ELSE IF target # None
         THEN IF ElectNode(s, target) THEN {Elect(target)}
              ELSE {[master |-> m, target |-> None, manual |-> FALSE]}
    ELSE IF Candidates(s) = {} THEN {Keep}
    ELSE {IF ElectNode(s, w) THEN Elect(w) ELSE Keep : w \in Winners(s)}

(* Mutant: runners forgotten after 30 minutes whatever their state. *)
ForgettableAnyState(s, r) == age[r] = Old

(* _forget_old_runners: Disconnected or Failed for over 30 minutes. *)
Forgettable(s, r) == s[r] <= S_Disconnected /\ age[r] = Old

(* A map entry as runner_info() constructs it: what an erased entry, or    *)
(* one never inserted, holds in the model.                                 *)
Erase(f, gone, default) == [r \in Runners |-> IF r \in gone THEN default ELSE f[r]]

(* elector::update: _repromote_master, _check_runner_health,               *)
(* _check_master_health, _election and _forget_old_runners in this order,  *)
(* in one tick. save_state writes the master into the cluster state.       *)
Update ==
    LET m1 == Repromoted
        s1 == HealthState
        m2 == MasterHealth(m1, s1)
        gone == {r \in known : Forgettable(s1, r)}
    IN
    /\ \E o \in ElectionOutcomes(m2, s1) :
          /\ master' = o.master
          /\ target' = o.target
          /\ manual' = o.manual
    /\ known' = known \ gone
    /\ st' = Erase(s1, gone, S_Disconnected)
    /\ svc' = Erase(HealthSvc, gone, {})
    /\ rmode' = Erase(rmode, gone, Passive)
    /\ recentFail' = Erase(recentFail, gone, FALSE)
    /\ UNCHANGED <<age, warm, quorum>>
(* elector::handle of a HealthReport from runner r reporting state s, mode *)
(* md and services sv: an existing entry goes through transition_runner,   *)
(* a new one is inserted; _last_seen becomes now, and _last_failed too     *)
(* when the runner is Failed.                                              *)
Report(r, s, md, sv) ==
    /\ known' = known \cup {r}
    /\ st' = [st EXCEPT ![r] = s]
    /\ rmode' = [rmode EXCEPT ![r] = md]
    /\ svc' = [svc EXCEPT ![r] = sv]
    /\ age' = [age EXCEPT ![r] = Fresh]
    /\ recentFail' = [recentFail EXCEPT ![r] =
                        (s = S_Failed) \/ (r \in known /\ @)]
    /\ UNCHANGED <<master, target, manual, warm, quorum>>

(* Time passes for runner r: no report for master_dead_time, then for 30   *)
(* minutes.                                                                *)
RunnerAges(r) ==
    /\ r \in known /\ age[r] # Old
    /\ age' = [age EXCEPT ![r] = IF @ = Fresh THEN Dead ELSE Old]
    /\ UNCHANGED <<known, st, rmode, svc, recentFail, master, target, manual,
                   warm, quorum>>

(* Time passes: a failure falls behind the failure promotion timeout. *)
FailureAges(r) ==
    /\ r \in known /\ recentFail[r]
    /\ recentFail' = [recentFail EXCEPT ![r] = FALSE]
    /\ UNCHANGED <<known, st, rmode, svc, age, master, target, manual,
                   warm, quorum>>

(* Time passes: the elector's uptime exceeds initial_promotion_delay. *)
WarmUp ==
    /\ ~warm
    /\ warm' = TRUE
    /\ UNCHANGED <<known, st, rmode, svc, age, recentFail, master, target,
                   manual, quorum>>

(* The peer table gains or loses enough peers to change has_quorum(). *)
QuorumChanges ==
    /\ quorum' = ~quorum
    /\ UNCHANGED <<known, st, rmode, svc, age, recentFail, master, target,
                   manual, warm>>

(* find_runner: among the entries whose name matches, the one in the       *)
(* highest state, the first in uuid order on a tie (evaluate_candidate     *)
(* replaces only on a strictly higher state).                              *)
FindByName(n) ==
    LET M == {r \in known : Name[r] = n}
        Top == {r \in M : \A q \in M : st[q] <= st[r]}
    IN IF M = {} THEN None ELSE Min(Top)

(* promote_node on a found runner i: leave manual mode, set the target,    *)
(* and drop the master unless it is i.                                     *)
PromoteNode(i) ==
    /\ i # None
    /\ manual' = FALSE
    /\ target' = i
    /\ master' = IF i # master THEN None ELSE master
    /\ UNCHANGED <<known, st, rmode, svc, age, recentFail, warm, quorum>>

(* rpc_promote with a runner name. *)
PromoteByName(n) == PromoteNode(FindByName(n))

(* rpc_promote with a runner uuid: find_runner's uuid loop. *)
PromoteById(u) == PromoteNode(IF u \in known THEN u ELSE None)

(* demote_master: with a master, enter manual mode and drop it; without   *)
(* one it returns false and changes nothing.                               *)
DemoteMaster ==
    /\ master # None
    /\ manual' = TRUE
    /\ master' = None

(* rpc_demote: demote_master, and the answer reports whether it worked.   *)
Demote ==
    /\ DemoteMaster
    /\ UNCHANGED <<known, st, rmode, svc, age, recentFail, target, warm,
                   quorum>>

(* rpc_elect: leave manual master mode. *)
Elect ==
    /\ manual' = FALSE
    /\ UNCHANGED <<known, st, rmode, svc, age, recentFail, master, target,
                   warm, quorum>>

(* load_state on a fresh elector whose cluster state names master ms,      *)
(* last seen at an age a: the table holds only that runner, in state       *)
(* Master and Active (runner_info::read), and it is the master.            *)
Loaded(ms, a) ==
    [known |-> IF ms = None THEN {} ELSE {ms},
     st |-> [r \in Runners |-> IF r = ms THEN S_Master ELSE S_Disconnected],
     rmode |-> [r \in Runners |-> IF r = ms THEN Active ELSE Passive],
     svc |-> [r \in Runners |-> {}],
     age |-> [r \in Runners |-> IF r = ms THEN a ELSE Old],
     recentFail |-> [r \in Runners |-> FALSE],
     master |-> ms]

(* A new elector (constructor, then init: load_state) with the master      *)
(* state the cluster heartbeats carried, if any.                           *)
Init ==
    \E ms \in Runners \cup {None}, a \in {Fresh, Dead, Old} :
        LET l == Loaded(ms, a) IN
        /\ known = l.known /\ st = l.st /\ rmode = l.rmode /\ svc = l.svc
        /\ age = l.age /\ recentFail = l.recentFail /\ master = l.master
        /\ target = None /\ manual = FALSE /\ warm = FALSE
        /\ quorum \in BOOLEAN

(* nexus::down destroys the elector (its destructor saves the master) and  *)
(* a later nexus::up builds a new one that loads the master state then in  *)
(* the cluster state, saved by this or by another elector.                 *)
Restart ==
    /\ \E ms \in Runners \cup {None}, a \in {Fresh, Dead, Old} :
        LET l == Loaded(ms, a) IN
        /\ known' = l.known /\ st' = l.st /\ rmode' = l.rmode
        /\ svc' = l.svc /\ age' = l.age /\ recentFail' = l.recentFail
        /\ master' = l.master
    /\ target' = None /\ manual' = FALSE /\ warm' = FALSE
    /\ UNCHANGED quorum

(* The HealthReports a runner sends. runner::on_tick reports _state,       *)
(* _mode and the services as they are before it reacts to a failed        *)
(* service, so any state may come with any services. A runner is Passive   *)
(* only in runner::stop, after it has stopped its services and gone to     *)
(* Stopped (the report its final immediate_tick sends).                    *)
HealthReports ==
    [state : ReportStates, mode : {Active}, svc : ReportSvcs]
    \cup {[state |-> S_Stopped, mode |-> Passive, svc |-> {}]}

Next ==
    \/ Update
    \/ \E r \in Runners, h \in HealthReports : Report(r, h.state, h.mode, h.svc)
    \/ \E r \in Runners : RunnerAges(r) \/ FailureAges(r)
    \/ WarmUp \/ QuorumChanges
    \/ \E n \in Names : PromoteByName(n)
    \/ \E u \in Runners : PromoteById(u)
    \/ Demote \/ Elect \/ Restart

Spec == Init /\ [][Next]_vars

-----------------------------------------------------------------------------
(* Properties *)

(* _master always names an entry of _runners. on_tick and save_state       *)
(* dereference it every tick; _forget_old_runners erasing the master's     *)
(* entry while _master still points at it would make that a use of an     *)
(* erased iterator.                                                        *)
MasterNeverDangles == master # None => master \in known

(* _target_master always names an entry of _runners: _election and         *)
(* rpc_status dereference it. promote_node sets it, and                    *)
(* _forget_old_runners erases entries without looking at it.               *)
TargetNeverDangles == target # None => target \in known

(* In manual master mode (after rpc_demote) there is no master: neither    *)
(* _repromote_master nor _election may pick one until rpc_elect or         *)
(* rpc_promote leaves the mode.                                            *)
ManualMeansMasterless == manual => master = None

(* After a tick, the master the elector announces in its StateUpdates (and *)
(* saves into the cluster state) is one _check_master_health accepts:      *)
(* above Stopped, Active, and with quorum. _repromote_master runs before   *)
(* the health checks and elect_node does not look at the mode or quorum,   *)
(* so this rests on the order of the pipeline and on what runners report.  *)
MasterAnnouncedHealthy ==
    [][Update =>
        (master' # None =>
            st'[master'] > S_Stopped /\ rmode'[master'] = Active /\ quorum')]_vars

(* spec.md section 8, property 7: a target set by rpc_promote is elected   *)
(* once it is Slave or above. So an elector tick that finds the target     *)
(* connected and Live (its services starting, on its way to Slave) does    *)
(* not give it up in _elect_target_master.                                 *)
TargetKeptUntilElected ==
    [][Update /\ target # None /\ target' = None /\ st'[target] = S_Live
         => master' = target]_vars
=============================================================================
