--------------------------- MODULE ServiceManager ---------------------------
(***************************************************************************)
(* The service supervisor (service_manager, servicemgr.cpp).               *)
(*                                                                         *)
(* The runner sets a target action (start, stop, promote, demote, fail).   *)
(* On each main-loop iteration service_manager::update runs the status     *)
(* checks (verify_states) when status_interval has passed, then, when      *)
(* state_update_interval has passed, update_states: one _update_service    *)
(* per service in name order, which completes a running transition or     *)
(* launches the script that moves the service toward the target. Scripts  *)
(* run as child processes concurrently with the main loop; the supervisor *)
(* polls them with waitpid(WNOHANG) and kills them on timeout.             *)
(*                                                                         *)
(* Each service is a record:                                               *)
(*   st      service::_state (the ServiceState enum, in enum order)        *)
(*   failed  the IS_FAILED flag                                            *)
(*   run     the event of the child _running tracks (pid # 0), or NoEv     *)
(*   killed  the tracked child has been sent SIGKILL                       *)
(*   exit    Running while the child runs, then its exit status, which    *)
(*           waitpid collects at the next poll                             *)
(*   late    now - started_at exceeds the event's timeout                  *)
(*   lost    what became of children the supervisor stopped tracking      *)
(*           without reaping them: Zombie (dead, never waited for) or      *)
(*           Live (still running, no longer supervised)                    *)
(*                                                                         *)
(* Abstractions:                                                           *)
(*  - The set of services is fixed: update_list and _remove_services      *)
(*    (directory scanning) are not modelled, nor are the script files'    *)
(*    flags changing at run time; Has and Disabled are constants.          *)
(*  - fork never fails (a failed fork is fatal, spec.md section 7).        *)
(*  - Time is the per-child flag late and the nondeterministic choice of   *)
(*    whether the status and state-update intervals have passed.           *)
(*  - Logging, the status summary and the environment variables set for   *)
(*    the scripts change no supervisor state and are left out.             *)
(***************************************************************************)
EXTENDS Naturals, FiniteSets, Sequences, SequencesExt, TLC

CONSTANTS
    Services,         \* service names (naturals: std::map iterates in name order)
    Prio,             \* Prio[s]: the NN- prefix, or NO_PRIORITY
    Has,              \* Has[s]: the events s has a script for
    Disabled,         \* Disabled[s]: a "disabled" file exists
    StatusCodes,      \* exit statuses a status script may return
    MaintenanceModes  \* values of node.maintenance the runner may pass

NO_PRIORITY == -1
Events == {"start", "stop", "status", "promote", "demote", "failed"}

ASSUME /\ Services \subseteq Nat /\ Services # {}
       /\ Prio \in [Services -> {NO_PRIORITY} \cup (0..99)]
       /\ Has \in [Services -> SUBSET Events]
       /\ Disabled \in [Services -> BOOLEAN]
       /\ StatusCodes \subseteq {0, 1, 90, 91, 92}
       /\ MaintenanceModes \subseteq BOOLEAN

(* ServiceState, service_info.hpp, in enum order. *)
Svc_Failed == 0
Svc_Failing == 1
Svc_Stopped == 2
Svc_Stopping == 3
Svc_Starting == 4
Svc_Started == 5
Svc_Demoting == 6
Svc_Promoting == 7
Svc_Promoted == 8

(* ServiceAction, service_info.hpp, in enum order. *)
Svc_Fail == 0
Svc_Stop == 1
Svc_Start == 2
Svc_Demote == 3
Svc_Promote == 4

(* Status script exit codes, check_exitcode. *)
EC_Master == 90
EC_Slave == 91
EC_Stopped == 92

NoEv == "none"
(* exit while the child runs: no exit status is ever negative. *)
Running == -1
Zombie == "zombie"
Live == "live"

VARIABLES
    target,  \* service_manager::_target_action
    sv       \* sv[s]: the service record of s

vars == <<target, sv>>

Rec == [st : Svc_Failed..Svc_Promoted, failed : BOOLEAN,
        run : Events \cup {NoEv}, killed : BOOLEAN,
        exit : {Running, 0, 1, 90, 91, 92}, late : BOOLEAN,
        lost : SUBSET {Zombie, Live}]

(* The type, and an idle command handle is clean: no pid means no        *)
(* pending kill, exit status or timeout.                                   *)
TypeOK ==
    /\ target \in Svc_Fail..Svc_Promote
    /\ sv \in [Services -> Rec]
    /\ \A s \in Services :
          sv[s].run = NoEv => sv[s].exit = Running /\ ~sv[s].killed /\ ~sv[s].late
-----------------------------------------------------------------------------
(* The child process and the command handle (cmd.cpp). *)

(* What a child the supervisor stops tracking becomes: a zombie once it    *)
(* has exited or been sent SIGKILL (nobody calls waitpid on it), and a    *)
(* running unsupervised process otherwise.                                 *)
LostKind(r) == IF r.exit = Running /\ ~r.killed THEN {Live} ELSE {Zombie}

(* query_complete after the child exited: waitpid reaps it, pid = 0. *)
Reap(r) == [r EXCEPT !.run = NoEv, !.killed = FALSE, !.exit = Running,
                     !.late = FALSE]

(* Mutant: unrun clears the pid but not the rest of the handle. *)
UnrunPidOnly(r) ==
    [r EXCEPT !.run = NoEv, !.lost = IF r.run = NoEv THEN @ ELSE @ \cup LostKind(r)]

(* service::unrun: pid = 0, exitcode = 0, event "none". A child still     *)
(* tracked is forgotten without waitpid.                                   *)
Unrun(r) ==
    [Reap(r) EXCEPT !.lost = IF r.run = NoEv THEN @ ELSE @ \cup LostKind(r)]

(* service::launch_command: fork a new child for event ev; pid and        *)
(* _event are overwritten whatever the handle held.                        *)
Launch(r, ev) == [Unrun(r) EXCEPT !.run = ev]

(* command::kill(SIGKILL) on an active handle. *)
Kill(r) == IF r.run # NoEv THEN [r EXCEPT !.killed = TRUE] ELSE r

(* service::transition. *)
Trans(r, x) == [r EXCEPT !.st = x]
-----------------------------------------------------------------------------
(* The per-service operations (service_manager::service). *)

(* Mutant: complete_transition takes Demoting to Promoted. *)
CompletionDemotedToPromoted ==
    (Svc_Starting :> Svc_Started) @@ (Svc_Stopping :> Svc_Stopped)
    @@ (Svc_Promoting :> Svc_Promoted) @@ (Svc_Demoting :> Svc_Promoted)
    @@ (Svc_Failing :> Svc_Failed)

(* service::complete_transition, and the states in_transition names. *)
Completion == (Svc_Starting :> Svc_Started) @@ (Svc_Stopping :> Svc_Stopped)
              @@ (Svc_Promoting :> Svc_Promoted) @@ (Svc_Demoting :> Svc_Started)
              @@ (Svc_Failing :> Svc_Failed)

InTransition(r) == r.st \in DOMAIN Completion

CompleteTransition(r) ==
    IF InTransition(r) THEN Trans(r, Completion[r.st]) ELSE r

(* service::start: deferred while a child runs; refused when disabled,    *)
(* failed or below Stopped.                                                *)
SvcStart(s, r) ==
    IF \/ r.run # NoEv \/ Disabled[s] \/ r.failed
       \/ r.st <= Svc_Failing \/ r.st >= Svc_Starting
    THEN r
    ELSE IF "start" \in Has[s] THEN Launch(Trans(r, Svc_Starting), "start")
    ELSE Trans(r, Svc_Started)

(* Mutant: stop launches its script without killing the running child. *)
SvcStopNoKill(s, r) ==
    IF r.run \in {"stop", "demote", "failed"} THEN r
    ELSE IF r.st < Svc_Starting THEN r
    ELSE IF "stop" \in Has[s] THEN Launch(Trans(r, Svc_Stopping), "stop")
    ELSE Trans(r, Svc_Stopped)

(* service::stop: a running start, promote or status is SIGKILLed and the  *)
(* stop goes ahead; a running stop, demote or failed defers it.            *)
SvcStop(s, r) ==
    IF r.run \in {"stop", "demote", "failed"} THEN r
    ELSE LET k == Kill(r) IN
         IF r.st < Svc_Starting THEN k
         ELSE IF "stop" \in Has[s] THEN Launch(Trans(k, Svc_Stopping), "stop")
         ELSE Trans(k, Svc_Stopped)

(* service::status: a disabled service is stopped instead. *)
SvcStatus(s, r) ==
    IF r.run # NoEv \/ r.st < Svc_Started THEN r
    ELSE IF Disabled[s] THEN SvcStop(s, r)
    ELSE IF "status" \in Has[s] THEN Launch(r, "status")
    ELSE r

(* service::promote. *)
SvcPromote(s, r) ==
    IF r.run # NoEv \/ Disabled[s] \/ r.st # Svc_Started THEN r
    ELSE IF "promote" \in Has[s] THEN Launch(Trans(r, Svc_Promoting), "promote")
    ELSE Trans(r, Svc_Promoted)

(* service::demote. *)
SvcDemote(s, r) ==
    IF r.run # NoEv \/ r.st # Svc_Promoted THEN r
    ELSE IF "demote" \in Has[s] THEN Launch(Trans(r, Svc_Demoting), "demote")
    ELSE Trans(r, Svc_Started)

(* service::fail: a running child only draws a warning; the failed script *)
(* is launched over it.                                                    *)
SvcFail(s, r) ==
    IF r.st <= Svc_Failing THEN r
    ELSE IF "failed" \in Has[s] THEN Launch(Trans(r, Svc_Failing), "failed")
    ELSE IF r.st > Svc_Stopped THEN SvcStop(s, r)
    ELSE Trans(r, Svc_Failed)
-----------------------------------------------------------------------------
(* The supervisor (service_manager). *)

(* service_manager::resolves: the states that satisfy target action a. *)
Resolves(x, a) ==
    CASE a = Svc_Fail    -> x = Svc_Failed
      [] a = Svc_Stop    -> x \in {Svc_Failed, Svc_Stopped}
      [] a = Svc_Start   -> x > Svc_Starting
      [] a = Svc_Demote  -> x < Svc_Demoting
      [] a = Svc_Promote -> x = Svc_Promoted

(* service_manager::check_exitcode on child r of event ev exiting with c:  *)
(* a status script's 90/91/92 set the state and count as success.          *)
CheckExitcode(r, ev, c) ==
    IF ev = "status" /\ c \in {EC_Master, EC_Slave, EC_Stopped}
    THEN [ok |-> TRUE,
          r |-> CASE c = EC_Master ->
                       IF r.st < Svc_Demoting THEN Trans(r, Svc_Promoted) ELSE r
                  [] c = EC_Slave ->
                       IF r.st = Svc_Promoted \/ r.st < Svc_Stopping
                       THEN Trans(r, Svc_Started) ELSE r
                  [] OTHER ->
                       IF r.st > Svc_Starting THEN Trans(r, Svc_Stopped) ELSE r]
    ELSE [ok |-> c = 0, r |-> r]

(* The tracked child has exited; query_complete reaps it and its exit     *)
(* status goes through check_exitcode.                                     *)
Reaped(r) == CheckExitcode(Reap(r), r.run, r.exit)

(* _service_failed: report_fail sets IS_FAILED, then service::fail. *)
ServiceFailed(s, r) == SvcFail(s, [r EXCEPT !.failed = TRUE])

(* The priority gates. An unprioritized service has priority -1, the      *)
(* lowest, so it gates every prioritized one.                              *)
AllowStart(s, f) ==
    Prio[s] = NO_PRIORITY \/
    \A b \in Services \ {s} : ~(Prio[s] > Prio[b] /\ f[b].st < Svc_Started)

(* Mutant: allow_stop waits for higher-priority services to fall below   *)
(* Stopped (>= for >).                                                     *)
AllowStopOffByOne(s, f) ==
    Prio[s] = NO_PRIORITY \/
    \A b \in Services \ {s} : ~(Prio[s] < Prio[b] /\ f[b].st >= Svc_Stopped)

AllowStop(s, f) ==
    Prio[s] = NO_PRIORITY \/
    \A b \in Services \ {s} : ~(Prio[s] < Prio[b] /\ f[b].st > Svc_Stopped)

(* Mutant: allow_promote lets a service promote once the lower-priority   *)
(* ones are Promoting.                                                     *)
AllowPromoteEarly(s, f) ==
    Prio[s] = NO_PRIORITY \/
    \A b \in Services \ {s} : ~(Prio[s] > Prio[b] /\ f[b].st < Svc_Promoting)

AllowPromote(s, f) ==
    Prio[s] = NO_PRIORITY \/
    \A b \in Services \ {s} : ~(Prio[s] > Prio[b] /\ f[b].st < Svc_Promoted)

AllowDemote(s, f) ==
    Prio[s] = NO_PRIORITY \/
    \A b \in Services \ {s} : ~(Prio[s] < Prio[b] /\ f[b].st > Svc_Started)

(* service_manager::complete_transition for a service in transition. *)
CompleteTransitionM(s, r) ==
    IF r.run = NoEv THEN CompleteTransition(Unrun(r))
    ELSE IF r.exit # Running
         THEN IF Reaped(r).ok THEN CompleteTransition(Unrun(Reaped(r).r))
              ELSE ServiceFailed(s, Reaped(r).r)
    ELSE IF r.late THEN ServiceFailed(s, Unrun(Kill(r)))
    ELSE IF target \in {Svc_Stop, Svc_Fail} /\ r.st = Svc_Starting
         THEN SvcStop(s, Trans(Unrun(Kill(r)), Svc_Started))
    ELSE r

(* _update_failed_service. *)
UpdateFailed(s, r) ==
    IF r.st > Svc_Stopped THEN SvcStop(s, r) ELSE SvcFail(s, r)

(* _update_service_state, with _update_promoted_service,                   *)
(* _update_started_service and _update_stopped_service; f is the service   *)
(* table as the loop of update_states has left it so far.                  *)
UpdateServiceState(s, f) ==
    LET r == f[s] IN
    IF r.failed THEN UpdateFailed(s, r)
    ELSE CASE r.st = Svc_Promoted ->
                IF target \in {Svc_Demote, Svc_Stop, Svc_Fail} /\ AllowDemote(s, f)
                THEN SvcDemote(s, r) ELSE r
           [] r.st = Svc_Started ->
                IF target \in {Svc_Stop, Svc_Fail}
                THEN IF AllowStop(s, f) THEN SvcStop(s, r) ELSE r
                ELSE IF target = Svc_Promote /\ AllowPromote(s, f)
                THEN SvcPromote(s, r) ELSE r
           [] r.st = Svc_Stopped ->
                IF target > Svc_Stop /\ AllowStart(s, f) THEN SvcStart(s, r) ELSE r
           [] OTHER -> r

(* _update_service. *)
UpdateService(s, f) ==
    LET r == f[s] IN
    IF InTransition(r) THEN CompleteTransitionM(s, r)
    ELSE IF r.run # NoEv /\ r.exit # Running
         THEN IF Reaped(r).ok THEN Unrun(Reaped(r).r) ELSE ServiceFailed(s, Reaped(r).r)
    ELSE IF r.st # Svc_Failed /\ ~Resolves(r.st, target)
         THEN UpdateServiceState(s, f)
    ELSE r

(* update_states: _update_service on every service, in name order, each   *)
(* seeing the services before it as already updated.                       *)
RECURSIVE UpdateLoop(_, _)
UpdateLoop(order, f) ==
    IF order = <<>> THEN f
    ELSE UpdateLoop(Tail(order), [f EXCEPT ![Head(order)] = UpdateService(Head(order), f)])

(* verify_states on one service: a running child past its timeout is      *)
(* killed and the service marked failed; an exited one is reaped and a    *)
(* new status check launched; an idle service gets a status check.        *)
Verified(s, r) ==
    IF r.run = NoEv THEN SvcStatus(s, r)
    ELSE IF r.exit = Running
         THEN IF r.late THEN Unrun([Kill(r) EXCEPT !.failed = TRUE]) ELSE r
    ELSE IF Reaped(r).ok THEN SvcStatus(s, Unrun(Reaped(r).r))
    ELSE ServiceFailed(s, Reaped(r).r)

(* verify_states returns false when some service timed out or failed. *)
VerifyFails(r) ==
    /\ r.run # NoEv
    /\ IF r.exit = Running THEN r.late ELSE ~Reaped(r).ok

(* The services in name order (the std::map iteration of update_states). *)
Order == SetToSortSeq(Services, <)

(* Every service after verify_states. *)
Checked == [s \in Services |-> Verified(s, sv[s])]

(* service_manager::update(maintenance m): the status check (status(),     *)
(* that is verify_states) when statusDue, skipped in maintenance mode and  *)
(* ending the call when it fails; then, outside maintenance mode,          *)
(* update_states when updateDue.                                           *)
Update(m, statusDue, updateDue) ==
    /\ IF statusDue /\ ~m
       THEN IF \E s \in Services : VerifyFails(sv[s])
            THEN sv' = Checked
            ELSE sv' = IF updateDue THEN UpdateLoop(Order, Checked) ELSE Checked
       ELSE sv' = IF ~m /\ updateDue THEN UpdateLoop(Order, sv) ELSE sv
    /\ UNCHANGED target

(* The runner's calls that set the target action. *)
SmStart == /\ target < Svc_Start /\ target' = Svc_Start /\ UNCHANGED sv
SmStop == /\ target > Svc_Stop /\ target' = Svc_Stop /\ UNCHANGED sv
SmPromote == /\ target' = Svc_Promote /\ UNCHANGED sv
SmDemote == /\ target > Svc_Demote /\ target' = Svc_Demote /\ UNCHANGED sv
SmFail == /\ target' = Svc_Fail /\ UNCHANGED sv

(* service_manager::forget_failure (runner::forget_failure). *)
ForgetFailure ==
    /\ sv' = [s \in Services |->
                [sv[s] EXCEPT !.st = IF @ < Svc_Stopped THEN Svc_Stopped ELSE @,
                              !.failed = FALSE]]
    /\ UNCHANGED target

(* The tracked child of s exits with status c; after SIGKILL, WEXITSTATUS *)
(* of the signalled child is 0.                                            *)
ChildExits(s, c) ==
    /\ sv[s].run # NoEv /\ sv[s].exit = Running
    /\ c \in IF sv[s].killed THEN {0}
             ELSE IF sv[s].run = "status" THEN StatusCodes ELSE {0, 1}
    /\ sv' = [sv EXCEPT ![s].exit = c]
    /\ UNCHANGED target

(* The running child of s passes its event's timeout. *)
TimeoutElapses(s) ==
    /\ sv[s].run # NoEv /\ sv[s].exit = Running /\ ~sv[s].late
    /\ sv' = [sv EXCEPT ![s].late = TRUE]
    /\ UNCHANGED target

(* service_manager::init: target Stop; update_list adds every service as   *)
(* Stopped with no child.                                                  *)
Init ==
    /\ target = Svc_Stop
    /\ sv = [s \in Services |->
               [st |-> Svc_Stopped, failed |-> FALSE, run |-> NoEv,
                killed |-> FALSE, exit |-> Running, late |-> FALSE, lost |-> {}]]

Next ==
    \/ \E m \in MaintenanceModes, sd, ud \in BOOLEAN : Update(m, sd, ud)
    \/ SmStart \/ SmStop \/ SmPromote \/ SmDemote \/ SmFail \/ ForgetFailure
    \/ \E s \in Services : TimeoutElapses(s) \/ \E c \in {0, 1, 90, 91, 92} : ChildExits(s, c)

(* The main loop calls service_manager::update every iteration and both  *)
(* intervals come round, so a step with the status check and              *)
(* update_states is weakly fair. A running child's timeout elapses, and a *)
(* SIGKILLed child dies.                                                   *)
Fairness ==
    /\ \A m \in MaintenanceModes : WF_vars(Update(m, TRUE, TRUE))
    /\ \A s \in Services :
          WF_vars(TimeoutElapses(s)) /\ WF_vars(sv[s].killed /\ ChildExits(s, 0))

Spec == Init /\ [][Next]_vars /\ Fairness

-----------------------------------------------------------------------------
(* Properties *)

(* The supervisor never loses track of a script that is still running:    *)
(* every child it stops tracking has exited or been sent SIGKILL. fail()  *)
(* launching the failed script over a running child, or unrun() after a   *)
(* kill that was skipped, would leave a script running unsupervised,      *)
(* possibly alongside the next script of the same service.                 *)
NoUnsupervisedScript == \A s \in Services : Live \notin sv[s].lost

(* Every child the supervisor starts is eventually reaped by waitpid: no   *)
(* killed or exited child is forgotten (unrun after kill, launch_command  *)
(* over a killed child) and left a zombie.                                 *)
NoZombies == \A s \in Services : Zombie \notin sv[s].lost

(* A non-failed service is settled for target t when it is in a state     *)
(* that resolves t; for Fail that is Stopped or Failed, since              *)
(* _update_started_service treats Fail as Stop and only services marked   *)
(* failed take the fail path. A disabled service is never started.         *)
Settled(t) ==
    \A s \in Services :
        Disabled[s] \/ Resolves(sv[s].st, IF t = Svc_Fail THEN Svc_Stop ELSE t)

(* spec.md section 4.8 and section 8, property 8: once the runner stops   *)
(* changing the target action, update_states brings every service to a    *)
(* state that resolves it, again and again, unless a service has failed   *)
(* (the runner reacts to a failure by changing the target). Priority      *)
(* gates waiting on each other, a transition that never completes, or the *)
(* Starting override looping would break it.                              *)
TargetEventuallyResolved ==
    \/ []<>(Settled(target) \/ \E s \in Services : sv[s].failed)
    \/ []<><<target' # target>>_target

(* Service s enters state st in this step. *)
Enters(s, st) == sv'[s].st = st /\ sv[s].st # st

(* spec.md section 4.8, priority ordering: update_states starts or        *)
(* promotes a prioritized, non-failed service only once every             *)
(* lower-priority service is at least Started or Promoted, and stops or   *)
(* demotes it only once every higher-priority service is at most Stopped  *)
(* or Started. The allow_* gates read the table as the name-ordered loop  *)
(* of update_states has left it. A failure and the Starting override      *)
(* (from Starting) take the stop path without the gates, and are left to  *)
(* StopsInPriorityOrder.                                                   *)
PriorityOrderKept ==
    [][\A a, b \in Services :
         (a # b /\ Prio[a] # NO_PRIORITY /\ ~sv[a].failed) =>
            /\ Enters(a, Svc_Starting) /\ Prio[b] < Prio[a] => sv'[b].st >= Svc_Started
            /\ Enters(a, Svc_Promoting) /\ Prio[b] < Prio[a] => sv'[b].st = Svc_Promoted
            /\ Enters(a, Svc_Stopping) /\ Prio[b] > Prio[a] /\ sv[a].st # Svc_Starting
                   => sv'[b].st <= Svc_Stopped
            /\ Enters(a, Svc_Demoting) /\ Prio[b] > Prio[a] => sv'[b].st <= Svc_Started
      ]_vars

(* spec.md section 4.8: "a lower-priority service may not stop ... while  *)
(* a higher-priority service is still above Stopped", here for every      *)
(* stop of a non-failed service, the override of complete_transition,     *)
(* which kills a Starting service and calls stop() when the target turns  *)
(* to Stop, included.                                                      *)
StopsInPriorityOrder ==
    [][\A a, b \in Services :
         (/\ a # b /\ Prio[a] # NO_PRIORITY /\ ~sv[a].failed
          /\ Enters(a, Svc_Stopping) /\ Prio[b] > Prio[a])
         => sv'[b].st <= Svc_Stopped]_vars
=============================================================================
