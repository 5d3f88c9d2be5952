------------------------------- MODULE Runner -------------------------------
(***************************************************************************)
(* The runner (runner.cpp): the per-node agent that follows the elector's  *)
(* StateUpdates and drives the local service supervisor.                  *)
(*                                                                         *)
(* nexus::update first hands every queued StateUpdate to runner::handle,  *)
(* then calls runner::update, which runs _check_timeouts,                 *)
(* _update_elector_state and _check_recovery (unless the services are     *)
(* disabled) and _check_service_status, in that order, each of which may  *)
(* call transition. transition sets the supervisor's target action.       *)
(*                                                                         *)
(* The electors are the environment. An elector instance is created each  *)
(* time its node becomes cluster Leader (nexus::up) and counts its ticks  *)
(* from 0 (emitter::_current_tick, the seqnr) and its uptime from 0. Its  *)
(* StateUpdates travel over UDP: they may be lost or reordered.            *)
(*                                                                         *)
(* Abstractions:                                                           *)
(*  - The seqnr and the uptime of a StateUpdate are both the tick count   *)
(*    of its instance: both only grow during an instance and restart with *)
(*    a new one. A StateUpdate is warm when the uptime exceeds            *)
(*    elector_startup_tolerance (tick > WarmAt). Ticks past MaxTick all   *)
(*    carry MaxTick: the runner compares them with the stored values,     *)
(*    which are at most MaxTick, and so treats them as the real later     *)
(*    ticks; only their order among themselves is lost.                    *)
(*  - Each instance is numbered (inc) in the order instances are created; *)
(*    the number is a name for the properties, not part of the message.   *)
(*  - Time is kept as the comparisons the code makes: eAge says whether   *)
(*    now - _elector._last_seen is within elector_lost_time (Fresh), past *)
(*    it (Lost) or past elector_gone_time (Gone); grace says the quorum   *)
(*    has been lost for quorum_demote_time; recWait and quiet say the     *)
(*    recovery wait and failcount_reset_time have passed since the last   *)
(*    transition.                                                          *)
(*  - The supervisor is kept as its target action (service_manager::start,*)
(*    stop, promote, demote, fail); its verdict (ServicesStatus), whether *)
(*    a HealthReport lists a failed service, and has_quorum are inputs.   *)
(*  - The HealthReport itself, the receivers list, the masterstate the    *)
(*    runner forwards to the nexus, and logging change nothing the runner *)
(*    decides and are left out.                                            *)
(***************************************************************************)
EXTENDS Integers, FiniteSets

CONSTANTS
    Self,           \* this node's uuid
    Other,          \* the uuid of another runner
    Nil,            \* the nil uuid
    Electors,       \* uuids of the nodes that may run an elector
    MaxTick,        \* ticks per elector instance
    MaxStarts,      \* elector instances in a behaviour
    WarmAt,         \* the last tick within elector_startup_tolerance
    AutoRecover,    \* service.auto_recover
    StatusValues,   \* verdicts the supervisor may return
    DisabledModes,  \* values _services.is_disabled() may return
    Masters         \* masters a StateUpdate may name

ASSUME /\ Electors \cap {Self, Other, Nil} = {}
       /\ MaxTick \in Nat /\ MaxStarts \in Nat /\ WarmAt \in Nat
       /\ AutoRecover \in Nat
       /\ DisabledModes \subseteq BOOLEAN
       /\ Masters \subseteq {Self, Other, Nil}

(* koi::State, in enum order (S_Live takes the place of S_Offline). *)
S_Failed == 0
S_Disconnected == 1
S_Stopped == 2
S_Live == 3
S_Slave == 4
S_Master == 5

(* ServiceAction, in enum order. *)
Svc_Fail == 0
Svc_Stop == 1
Svc_Start == 2
Svc_Demote == 3
Svc_Promote == 4

(* ServicesStatus, in the order the runner compares it. *)
Status_Error == 0
Status_Ok == 1
Status_Promotable == 2

ASSUME StatusValues \subseteq {Status_Error, Status_Ok, Status_Promotable}

Fresh == "Fresh"
Lost == "Lost"
Gone == "Gone"

NoSeq == -1   \* no entry in sequence::_sequence

Msg == [from : Electors, inc : 1..MaxStarts, seq : 1..MaxTick, up : 1..MaxTick,
        master : {Self, Other, Nil}]

NoInst == [inc |-> 0, tick |-> 0]   \* no elector instance (runs) / no StateUpdate (heard)

VARIABLES
    rs,         \* the runner's own fields: st, target, failcount, qlost, grace, recWait, quiet
    enabled,    \* runner::_enabled
    elector,    \* runner::_elector: uuid, uptime, master
    eAge,       \* now - _elector._last_seen: Fresh, Lost or Gone
    seqnrs,     \* sequence::_sequence
    quorum,     \* nexus::has_quorum()
    inst,       \* inst[e]: number and tick count of e's running elector instance
    starts,     \* elector instances started so far
    net,        \* StateUpdates in flight
    heard       \* heard[e]: instance and tick of the last StateUpdate from e applied

vars == <<rs, enabled, elector, eAge, seqnrs, quorum, inst, starts, net, heard>>

InstRec == [inc : 0..MaxStarts, tick : 0..MaxTick]

RunnerRec == [st : S_Failed..S_Master, target : Svc_Fail..Svc_Promote,
              failcount : 0..AutoRecover, qlost : BOOLEAN, grace : BOOLEAN,
              recWait : BOOLEAN, quiet : BOOLEAN]

TypeOK ==
    /\ rs \in RunnerRec
    /\ enabled \in BOOLEAN
    /\ elector \in [uuid : Electors \cup {Nil}, up : 0..MaxTick, master : {Self, Other, Nil}]
    /\ eAge \in {Fresh, Lost, Gone}
    /\ seqnrs \in [Electors -> {NoSeq} \cup 1..MaxTick]
    /\ quorum \in BOOLEAN
    /\ inst \in [Electors -> InstRec]
    /\ starts \in 0..MaxStarts
    /\ net \subseteq Msg
    /\ heard \in [Electors -> InstRec]
-----------------------------------------------------------------------------
(* The supervisor's target-action setters (service_manager). *)
SmStart(t) == IF t < Svc_Start THEN Svc_Start ELSE t
SmStop(t) == IF t > Svc_Stop THEN Svc_Stop ELSE t
SmDemote(t) == IF t > Svc_Demote THEN Svc_Demote ELSE t

(* Mutant: transition to Live or Slave starts the services but never      *)
(* demotes them.                                                           *)
ServicesForNoDemote(old, new, t) ==
    CASE new \in {S_Disconnected, S_Stopped} -> IF old > S_Stopped THEN SmStop(t) ELSE t
      [] new \in {S_Live, S_Slave} -> IF old > S_Failed THEN SmStart(t) ELSE t
      [] new = S_Master -> IF old > S_Failed THEN Svc_Promote ELSE t
      [] new = S_Failed -> Svc_Fail

(* The switch of runner::transition: the supervisor call for a move from  *)
(* old to new, as the target action it leaves.                             *)
ServicesFor(old, new, t) ==
    CASE new \in {S_Disconnected, S_Stopped} -> IF old > S_Stopped THEN SmStop(t) ELSE t
      [] new \in {S_Live, S_Slave} ->
           IF old > S_Slave THEN SmDemote(t)
           ELSE IF old > S_Failed THEN SmStart(t) ELSE t
      [] new = S_Master -> IF old > S_Failed THEN Svc_Promote ELSE t
      [] new = S_Failed -> Svc_Fail

(* runner::transition: nothing for the current state; otherwise the       *)
(* supervisor call, the new state, and _last_transition = now.             *)
Transition(r, new) ==
    IF new = r.st THEN r
    ELSE [r EXCEPT !.st = new, !.target = ServicesFor(r.st, new, r.target),
                   !.recWait = FALSE, !.quiet = FALSE]

(* runner::_check_timeouts: a Master demotes itself once the elector is   *)
(* gone; a Master without quorum starts the grace period, and demotes     *)
(* itself once it has passed; the quorum-lost flag is cleared otherwise.  *)
CheckTimeouts(r) ==
    IF r.st <= S_Stopped THEN r
    ELSE LET r1 == IF eAge = Gone /\ r.st = S_Master THEN Transition(r, S_Slave) ELSE r
         IN IF r1.st > S_Slave /\ ~quorum
            THEN IF ~r1.qlost THEN [r1 EXCEPT !.qlost = TRUE, !.grace = FALSE]
                 ELSE IF r1.grace THEN Transition(r1, S_Slave) ELSE r1
            ELSE [r1 EXCEPT !.qlost = FALSE]

(* runner::_check_elector_transition. *)
CheckElectorTransition(r) ==
    IF ~enabled
    THEN IF r.st \notin {S_Failed, S_Stopped} THEN Transition(r, S_Stopped) ELSE r
    ELSE IF elector.master = Self /\ r.st >= S_Stopped
    THEN Transition(r, IF r.st < S_Live THEN S_Live ELSE S_Master)
    ELSE IF r.st > S_Slave THEN Transition(r, S_Slave)
    ELSE IF r.st \in {S_Slave, S_Live} THEN r
    ELSE IF r.st >= S_Disconnected THEN Transition(r, S_Live)
    ELSE r

(* Mutant: the elector directive applied whatever the age of _elector.   *)
UpdateElectorStateAnyAge(r) ==
    IF elector.up > WarmAt THEN CheckElectorTransition(r)
    ELSE IF ~enabled /\ (r.st = S_Disconnected \/ r.st > S_Stopped)
         THEN Transition(r, S_Stopped)
    ELSE IF enabled /\ r.st \in {S_Disconnected, S_Stopped}
         THEN Transition(r, S_Live)
    ELSE r

(* runner::_update_elector_state: only while the elector has been heard   *)
(* within elector_lost_time; below elector_startup_tolerance the runner   *)
(* only goes Stopped or Live.                                              *)
UpdateElectorState(r) ==
    IF eAge # Fresh THEN r
    ELSE IF elector.up > WarmAt THEN CheckElectorTransition(r)
    ELSE IF ~enabled /\ (r.st = S_Disconnected \/ r.st > S_Stopped)
         THEN Transition(r, S_Stopped)
    ELSE IF enabled /\ r.st \in {S_Disconnected, S_Stopped}
         THEN Transition(r, S_Live)
    ELSE r

(* runner::forget_failure: a Failed runner transitions to Disconnected.   *)
(* (service_manager::forget_failure leaves the target action alone.)      *)
ForgetFailure(r) == IF r.st = S_Failed THEN Transition(r, S_Disconnected) ELSE r

(* Mutant: recovery also counts a failcount that has reached auto_recover.*)
CheckRecoveryOffByOne(r) ==
    IF r.st = S_Failed /\ r.failcount <= AutoRecover
    THEN IF r.recWait THEN ForgetFailure([r EXCEPT !.failcount = @ + 1]) ELSE r
    ELSE IF AutoRecover > 0 /\ r.failcount >= AutoRecover /\ r.quiet
    THEN ForgetFailure([r EXCEPT !.failcount = 0])
    ELSE r

(* runner::_check_recovery: a Failed runner below auto_recover recovers   *)
(* once its wait has passed; an exhausted failcount is reset after        *)
(* failcount_reset_time.                                                   *)
CheckRecovery(r) ==
    IF r.st = S_Failed /\ r.failcount < AutoRecover
    THEN IF r.recWait THEN ForgetFailure([r EXCEPT !.failcount = @ + 1]) ELSE r
    ELSE IF AutoRecover > 0 /\ r.failcount >= AutoRecover /\ r.quiet
    THEN ForgetFailure([r EXCEPT !.failcount = 0])
    ELSE r

(* runner::_check_service_status, on the supervisor's verdict v. *)
CheckServiceStatus(r, v) ==
    IF v = Status_Error THEN Transition(r, S_Failed)
    ELSE IF r.st = S_Live /\ v >= Status_Promotable THEN Transition(r, S_Slave)
    ELSE IF r.st > S_Live /\ v < Status_Promotable THEN Transition(r, S_Live)
    ELSE r
-----------------------------------------------------------------------------
(* runner::start, after service_manager::init (target Stop): Disconnected,*)
(* no elector seen, _last_transition at the epoch.                         *)
Init ==
    /\ rs = [st |-> S_Disconnected, target |-> Svc_Stop, failcount |-> 0,
             qlost |-> FALSE, grace |-> FALSE, recWait |-> TRUE, quiet |-> TRUE]
    /\ enabled = TRUE
    /\ elector = [uuid |-> Nil, up |-> 0, master |-> Nil]
    /\ eAge = Gone
    /\ seqnrs = [e \in Electors |-> NoSeq]
    /\ quorum \in BOOLEAN
    /\ inst = [e \in Electors |-> NoInst]
    /\ starts = 0
    /\ net = {}
    /\ heard = [e \in Electors |-> NoInst]

(* The runner fields one runner::update pass leaves, with the             *)
(* supervisor's verdict v and is_disabled() d.                             *)
UpdatePass(v, d) ==
    LET r1 == CheckTimeouts(rs)
        r2 == IF d THEN r1 ELSE CheckRecovery(UpdateElectorState(r1))
    IN CheckServiceStatus(r2, v)

(* runner::update. *)
Update(v, d) ==
    /\ rs' = UpdatePass(v, d)
    /\ UNCHANGED <<enabled, elector, eAge, seqnrs, quorum, inst, starts, net, heard>>

(* sequence::check: accept nr unless an entry above it exists. *)
SeqAccepts(e, nr) == seqnrs[e] = NoSeq \/ seqnrs[e] <= nr

(* runner::handle of StateUpdate m. From a new elector uuid the sequence  *)
(* entry is set and m applied; from the same uuid a smaller uptime means  *)
(* the elector restarted (the entry is set), and otherwise m is dropped   *)
(* when its seqnr is below the entry.                                      *)
Handle(m) ==
    /\ m \in net
    /\ net' = net \ {m}
    /\ IF elector.uuid = m.from /\ m.up >= elector.up /\ ~SeqAccepts(m.from, m.seq)
       THEN UNCHANGED <<elector, eAge, seqnrs, heard>>
       ELSE /\ seqnrs' = [seqnrs EXCEPT ![m.from] = m.seq]
            /\ elector' = [uuid |-> m.from, up |-> m.up, master |-> m.master]
            /\ eAge' = Fresh
            /\ heard' = [heard EXCEPT ![m.from] = [inc |-> m.inc, tick |-> m.seq]]
    /\ UNCHANGED <<rs, enabled, quorum, inst, starts>>

(* runner::on_tick: the HealthReport lists a failed service. *)
OnTickFailed ==
    /\ rs' = Transition(rs, S_Failed)
    /\ UNCHANGED <<enabled, elector, eAge, seqnrs, quorum, inst, starts, net, heard>>

(* runner::rpc_start and rpc_stop. *)
RpcStart ==
    /\ ~enabled /\ enabled' = TRUE
    /\ UNCHANGED <<rs, elector, eAge, seqnrs, quorum, inst, starts, net, heard>>
RpcStop ==
    /\ enabled /\ enabled' = FALSE
    /\ UNCHANGED <<rs, elector, eAge, seqnrs, quorum, inst, starts, net, heard>>

(* runner::rpc_recover: forget_failure, then _failcount = 0. *)
RpcRecover ==
    /\ rs' = [ForgetFailure(rs) EXCEPT !.failcount = 0]
    /\ UNCHANGED <<enabled, elector, eAge, seqnrs, quorum, inst, starts, net, heard>>
-----------------------------------------------------------------------------
(* The environment: time, quorum, electors and the network. *)

ElectorAges ==
    /\ eAge # Gone
    /\ eAge' = IF eAge = Fresh THEN Lost ELSE Gone
    /\ UNCHANGED <<rs, enabled, elector, seqnrs, quorum, inst, starts, net, heard>>

GraceElapses ==
    /\ rs.qlost /\ ~rs.grace
    /\ rs' = [rs EXCEPT !.grace = TRUE]
    /\ UNCHANGED <<enabled, elector, eAge, seqnrs, quorum, inst, starts, net, heard>>

RecoveryWaitElapses ==
    /\ ~rs.recWait
    /\ rs' = [rs EXCEPT !.recWait = TRUE]
    /\ UNCHANGED <<enabled, elector, eAge, seqnrs, quorum, inst, starts, net, heard>>

ResetTimeElapses ==
    /\ ~rs.quiet
    /\ rs' = [rs EXCEPT !.quiet = TRUE]
    /\ UNCHANGED <<enabled, elector, eAge, seqnrs, quorum, inst, starts, net, heard>>

QuorumChanges ==
    /\ quorum' = ~quorum
    /\ UNCHANGED <<rs, enabled, elector, eAge, seqnrs, inst, starts, net, heard>>

(* nexus::up: node e becomes Leader and creates a new elector instance;   *)
(* nexus::down destroys it.                                                *)
ElectorUp(e) ==
    /\ inst[e] = NoInst /\ starts < MaxStarts
    /\ inst' = [inst EXCEPT ![e] = [inc |-> starts + 1, tick |-> 0]]
    /\ starts' = starts + 1
    /\ UNCHANGED <<rs, enabled, elector, eAge, seqnrs, quorum, net, heard>>
ElectorDown(e) ==
    /\ inst[e] # NoInst
    /\ inst' = [inst EXCEPT ![e] = NoInst]
    /\ UNCHANGED <<rs, enabled, elector, eAge, seqnrs, quorum, starts, net, heard>>

(* elector::on_tick after emitter::update: a StateUpdate naming master mu. *)
ElectorTick(e, mu) ==
    LET t == IF inst[e].tick < MaxTick THEN inst[e].tick + 1 ELSE MaxTick IN
    /\ inst[e] # NoInst
    /\ inst' = [inst EXCEPT ![e].tick = t]
    /\ net' = net \cup {[from |-> e, inc |-> inst[e].inc, seq |-> t, up |-> t, master |-> mu]}
    /\ UNCHANGED <<rs, enabled, elector, eAge, seqnrs, quorum, starts, heard>>

(* A datagram is lost. *)
Lose(m) ==
    /\ m \in net
    /\ net' = net \ {m}
    /\ UNCHANGED <<rs, enabled, elector, eAge, seqnrs, quorum, inst, starts, heard>>

Next ==
    \/ \E v \in StatusValues, d \in DisabledModes : Update(v, d)
    \/ \E m \in net : Handle(m) \/ Lose(m)
    \/ OnTickFailed \/ RpcStart \/ RpcStop \/ RpcRecover
    \/ ElectorAges \/ GraceElapses \/ RecoveryWaitElapses \/ ResetTimeElapses
    \/ QuorumChanges
    \/ \E e \in Electors : ElectorUp(e) \/ ElectorDown(e)
                           \/ \E mu \in Masters : ElectorTick(e, mu)

(* runner::update runs on every main-loop iteration, and time passes. *)
Fairness ==
    /\ WF_vars(\E v \in StatusValues, d \in DisabledModes : Update(v, d))
    /\ WF_vars(ElectorAges) /\ WF_vars(GraceElapses)

Spec == Init /\ [][Next]_vars /\ Fairness
-----------------------------------------------------------------------------
(* Properties *)

(* The supervisor's target action agrees with the runner's state after    *)
(* every step: services are promoted exactly while the runner is Master,  *)
(* started or demoted while it is Live or Slave, stopped while it is      *)
(* Disconnected or Stopped, and failed while it is Failed. Every path of  *)
(* transition (elector directives, timeouts, the quorum grace, service    *)
(* verdicts, HealthReports, recovery and RPCs, several in one update)     *)
(* must leave the two in step.                                             *)
ServicesFollowState ==
    /\ rs.st = S_Master => rs.target = Svc_Promote
    /\ rs.st \in {S_Live, S_Slave} => rs.target \in {Svc_Start, Svc_Demote}
    /\ rs.st \in {S_Disconnected, S_Stopped} => rs.target \in {Svc_Fail, Svc_Stop}
    /\ rs.st = S_Failed => rs.target = Svc_Fail

(* spec.md section 4.7: "If quorum is lost while Master, after            *)
(* quorum_demote_time grace, demote." A Master that has lost quorum       *)
(* eventually stops being Master (or regains quorum).                      *)
QuorumLossDemotes ==
    [](rs.st = S_Master /\ ~quorum => <>(rs.st # S_Master \/ quorum))

(* spec.md section 4.7: a runner that has not heard the elector for      *)
(* elector_gone_time demotes itself. The update pass that finds a Master  *)
(* with its elector gone leaves it below Master: _check_timeouts demotes  *)
(* it, and no later step of the same pass (the elector directive, which   *)
(* must not act on the stale _elector, recovery, the service verdict)     *)
(* promotes it back. Otherwise a partitioned Master would stay Master     *)
(* beside the one a new elector elects.                                    *)
ElectorGoneDemotes ==
    rs.st = S_Master /\ eAge = Gone =>
        \A v \in StatusValues, d \in DisabledModes : UpdatePass(v, d).st # S_Master

(* spec.md sections 4.4 and 4.7: StateUpdates out of order are dropped,   *)
(* and only an elector restart resets the sequence. From each elector     *)
(* node, the runner never applies a StateUpdate of an earlier elector     *)
(* instance, or an earlier tick of the same instance, than one it has      *)
(* already applied from that node.                                         *)
StateUpdatesInOrder ==
    [][\A e \in Electors :
         heard'[e] # heard[e] =>
            \/ heard'[e].inc > heard[e].inc
            \/ heard'[e].inc = heard[e].inc /\ heard'[e].tick >= heard[e].tick]_vars
====
