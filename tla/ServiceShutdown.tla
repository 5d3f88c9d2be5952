--------------------------- MODULE ServiceShutdown ---------------------------
(***************************************************************************)
(* The supervisor at node shutdown (service_manager::~service_manager and  *)
(* wait_for_shutdown, servicemgr.cpp).                                     *)
(*                                                                         *)
(* When koi::run leaves its main loop (a shutdown signal, or a restart    *)
(* for new settings) the nexus goes out of scope, and with it the runner  *)
(* and its service_manager, whose destructor calls stop() and then        *)
(* wait_for_shutdown. Each iteration of that loop checks a 360 s cap      *)
(* (past it, every running child is SIGKILLed and the loop is left), runs *)
(* update_states, then blocks in command::wait on every running child and *)
(* unruns it, until no child ran and every service that is not marked     *)
(* failed resolves Stop. (runner::stop, which would demote first, is      *)
(* called from nowhere.)                                                   *)
(*                                                                         *)
(* The main loop, and so ServiceManager's Next, runs while phase is Up.   *)
(* Children keep running, exiting and passing their timeouts throughout.  *)
(***************************************************************************)
EXTENDS ServiceManager

Up == "up"            \* the main loop runs
First == "first"      \* destructor: stop() has set the target
Top == "top"          \* wait_for_shutdown, at the top of a later iteration
Waiting == "waiting"  \* wait_for_shutdown, blocked in command::wait
Stopped == "stopped"  \* wait_for_shutdown has returned from its loop
Capped == "capped"    \* wait_for_shutdown has given up at the 360 s cap

VARIABLE phase

allVars == <<target, sv, phase>>

ShutdownTypeOK ==
    TypeOK /\ phase \in {Up, First, Top, Waiting, Stopped, Capped}

(* koi::run leaves the main loop; ~service_manager calls stop(). *)
Destroy ==
    /\ phase = Up
    /\ phase' = First
    /\ target' = IF target > Svc_Stop THEN Svc_Stop ELSE target
    /\ UNCHANGED sv

(* wait_for_shutdown, top of a later iteration: past the 360 s cap every  *)
(* running child is SIGKILLed and the loop is left.                        *)
CapReached ==
    /\ phase = Top
    /\ phase' = Capped
    /\ sv' = [s \in Services |-> Kill(sv[s])]
    /\ UNCHANGED target

(* The services wait_for_shutdown waits for: not failed, not resolving    *)
(* Stop.                                                                   *)
NotAtTarget == {s \in Services : ~Resolves(sv[s].st, Svc_Stop) /\ ~sv[s].failed}

(* wait_for_shutdown, update_states: forced in the first iteration; later *)
(* with a 0.1 s interval, which has passed (due) when the last iteration  *)
(* found a service not at target and slept 0.3 s, and otherwise only if   *)
(* its waits took long.                                                    *)
ShutdownUpdate(due) ==
    /\ \/ phase = First /\ due
       \/ phase = Top /\ (due \/ NotAtTarget = {})
    /\ sv' = IF due THEN UpdateLoop(Order, sv) ELSE sv
    /\ phase' = Waiting
    /\ UNCHANGED target

(* wait_for_shutdown, rest of the iteration: command::wait blocks until   *)
(* each running child exits and reaps it, whatever its exit status, and   *)
(* service::unrun clears the handle. The loop ends when no child was      *)
(* waited for and every service is at target.                              *)
ShutdownWait ==
    /\ phase = Waiting
    /\ \A s \in Services : sv[s].run # NoEv => sv[s].exit # Running
    /\ sv' = [s \in Services |-> Reap(sv[s])]
    /\ phase' = IF (\A s \in Services : sv[s].run = NoEv) /\ NotAtTarget = {}
                THEN Stopped ELSE Top
    /\ UNCHANGED target

(* The running child of s exits with status c while the node shuts down. *)
ExitsWhileStopping(s, c) == ChildExits(s, c) /\ UNCHANGED phase

(* The child processes, while wait_for_shutdown runs. *)
ChildrenRun ==
    /\ phase \in {First, Top, Waiting}
    /\ \E s \in Services :
          \/ TimeoutElapses(s) /\ UNCHANGED phase
          \/ \E c \in {0, 1, 90, 91, 92} : ExitsWhileStopping(s, c)

ShutdownInit == Init /\ phase = Up

ShutdownNext ==
    \/ phase = Up /\ Next /\ UNCHANGED phase
    \/ Destroy
    \/ CapReached
    \/ \E due \in BOOLEAN : ShutdownUpdate(due)
    \/ ShutdownWait
    \/ ChildrenRun

(* While shutting down, the loop of wait_for_shutdown keeps iterating,    *)
(* and every script eventually exits. No fairness is assumed for the      *)
(* 360 s cap, so that the loop is seen to end by itself.                   *)
ShutdownFairness ==
    /\ WF_allVars(\E due \in BOOLEAN : ShutdownUpdate(due))
    /\ WF_allVars(ShutdownWait)
    /\ \A s \in Services : WF_allVars(\E c \in {0, 1} : ExitsWhileStopping(s, c))

ShutdownSpec == ShutdownInit /\ [][ShutdownNext]_allVars /\ ShutdownFairness

(* The loop iterates and the 360 s cap comes round, but a script may hang *)
(* (only SIGKILLed children surely exit).                                  *)
HangFairness ==
    /\ WF_allVars(\E due \in BOOLEAN : ShutdownUpdate(due))
    /\ WF_allVars(ShutdownWait)
    /\ WF_allVars(CapReached)
    /\ \A s \in Services : WF_allVars(sv[s].killed /\ ExitsWhileStopping(s, 0))

HangSpec == ShutdownInit /\ [][ShutdownNext]_allVars /\ HangFairness

-----------------------------------------------------------------------------
(* Properties *)

(* Once the destructor has started, wait_for_shutdown eventually returns. *)
(* update_states relaunching stop or failed scripts, or a transition that *)
(* the unrun after command::wait leaves behind, could keep it going.      *)
ShutdownCompletes == phase \in {First, Top, Waiting} ~> phase \in {Stopped, Capped}

(* spec.md section 5: "on shutdown the supervisor drives each service to  *)
(* Stopped". When wait_for_shutdown's loop has ended by itself, every     *)
(* enabled service is Stopped or Failed.                                   *)
ShutdownStopsServices ==
    phase = Stopped => \A s \in Services : Disabled[s] \/ Resolves(sv[s].st, Svc_Stop)
=============================================================================
