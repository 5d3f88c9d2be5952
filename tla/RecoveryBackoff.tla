--------------------------- MODULE RecoveryBackoff ---------------------------
(***************************************************************************)
(* The runner's recovery from service failure (runner::_check_recovery,    *)
(* forget_failure, rpc_recover, runner.cpp).                               *)
(*                                                                         *)
(* A runner whose services fail goes to Failed. Each tick, a Failed runner *)
(* with _failcount < service.auto_recover waits                            *)
(*     auto_recover_time * max(1, (int)pow((float)factor, _failcount))     *)
(* after its last transition, then increments _failcount and leaves        *)
(* Failed (forget_failure: transition to Disconnected). Once _failcount    *)
(* has reached auto_recover, it is reset to 0 after failcount_reset_time.  *)
(*                                                                         *)
(* Abstractions:                                                           *)
(*  - The runner states other than Failed are one state, Up: only the      *)
(*    Failed test and the time of the last transition matter here.         *)
(*  - Waits are in units of auto_recover_time. The time since the last     *)
(*    transition is kept only as whether it exceeds failcount_reset_time   *)
(*    (quiet); a recovery happens at some tick after its wait.             *)
(*  - pow is computed in double (the <cmath> overloads promote float and   *)
(*    int to double), which is exact below 2^53 and so whenever the        *)
(*    result fits in an int. Converting a larger double to int is          *)
(*    undefined behaviour: x86-64's cvttsd2si gives INT_MIN, AArch64's     *)
(*    fcvtzs saturates to INT_MAX. The model allows both.                  *)
(***************************************************************************)
EXTENDS Naturals, Integers

CONSTANTS
    AutoRecover,  \* service.auto_recover (default 120)
    Factors       \* values of service.auto_recover_wait_factor, clamped to 1..8

ASSUME /\ AutoRecover \in Nat
       /\ Factors \subseteq 1..8 /\ Factors # {}

IntMax == 2147483647
IntMin == -IntMax - 1

(* AUTO_RECOVER_MAX_FACTOR, settings.hpp. *)
AUTO_RECOVER_MAX_FACTOR == 8

Failed == "Failed"
Up == "Up"

VARIABLES
    factor,     \* cfg._auto_recover_wait_factor
    state,      \* runner::_state, Failed or not
    failcount,  \* runner::_failcount
    gap,        \* the wait, in auto_recover_time units, before the last recovery
    quiet       \* now - _last_transition > failcount_reset_time

vars == <<factor, state, failcount, gap, quiet>>

TypeOK ==
    /\ factor \in Factors
    /\ state \in {Failed, Up}
    /\ failcount \in 0..AutoRecover
    /\ gap \in Nat /\ gap <= IntMax
    /\ quiet \in BOOLEAN

(* acc * f^n when it is at most INT_MAX, else -1: the exact value of pow  *)
(* in double whenever that value fits in an int.                           *)
RECURSIVE PowIfInt(_, _, _)
PowIfInt(f, n, acc) ==
    IF n = 0 THEN acc
    ELSE IF acc > IntMax \div f THEN -1
    ELSE PowIfInt(f, n - 1, acc * f)

(* static_cast<int>(pow((float)factor, (int)_failcount)): the exact power  *)
(* when it fits, otherwise what the conversion gives on the build target.  *)
CFac(f, n) ==
    LET p == PowIfInt(f, n, 1) IN
    IF p >= 0 THEN {p} ELSE {IntMin, IntMax}

(* The possible waits of _check_recovery at failcount n, in units of       *)
(* auto_recover_time: the power applies only for 2 <= factor <= 8.        *)
Waits(f, n) ==
    IF f >= 2 /\ f <= AUTO_RECOVER_MAX_FACTOR
    THEN {IF c > 1 THEN c ELSE 1 : c \in CFac(f, n)}
    ELSE {1}

(* Mutant: the recovery test with <= instead of <. *)
CanRecoverOffByOne(s, n) == s = Failed /\ n <= AutoRecover

(* The first-branch test of _check_recovery: Failed, and the failcount     *)
(* below auto_recover.                                                     *)
CanRecover(s, n) == s = Failed /\ n < AutoRecover

(* Mutant: the failcount reset only once auto_recover is exceeded. *)
ExhaustedLate(n) == AutoRecover > 0 /\ n > AutoRecover

(* The else-branch test of _check_recovery: auto_recover is set and the    *)
(* failcount has reached it.                                               *)
Exhausted(n) == AutoRecover > 0 /\ n >= AutoRecover

(* forget_failure: a Failed runner transitions to Disconnected, which      *)
(* restarts the time since its last transition.                            *)
ForgetFailure ==
    /\ state' = Up
    /\ quiet' = IF state = Failed THEN FALSE ELSE quiet

Init ==
    /\ factor \in Factors
    /\ state = Up
    /\ failcount = 0
    /\ gap = 0
    /\ quiet = FALSE

(* A failure: _check_service_status sees Status_Error, or on_tick finds a  *)
(* failed service; transition(S_Failed) stamps _last_transition.           *)
Fail ==
    /\ state = Up
    /\ state' = Failed
    /\ quiet' = FALSE
    /\ UNCHANGED <<factor, failcount, gap>>

(* Any other runner transition, between states other than Failed, stamps  *)
(* _last_transition too.                                                   *)
OtherTransition ==
    /\ state = Up
    /\ quiet' = FALSE
    /\ UNCHANGED <<factor, state, failcount, gap>>

(* Time passes beyond failcount_reset_time since the last transition. *)
TimePasses ==
    /\ ~quiet
    /\ quiet' = TRUE
    /\ UNCHANGED <<factor, state, failcount, gap>>

(* _check_recovery, first branch: the tick at which now - _last_transition *)
(* exceeds the wait. _failcount is incremented and the failure forgotten.  *)
Recover ==
    /\ CanRecover(state, failcount)
    /\ \E w \in Waits(factor, failcount) : gap' = w
    /\ failcount' = failcount + 1
    /\ ForgetFailure
    /\ UNCHANGED factor

(* _check_recovery, second branch: the failcount is reset once it has      *)
(* reached auto_recover and failcount_reset_time has passed.               *)
ResetFailcount ==
    /\ ~CanRecover(state, failcount)
    /\ Exhausted(failcount) /\ quiet
    /\ failcount' = 0
    /\ ForgetFailure
    /\ UNCHANGED <<factor, gap>>

(* rpc_recover: forget_failure, then _failcount = 0. *)
RpcRecover ==
    /\ failcount' = 0
    /\ ForgetFailure
    /\ UNCHANGED <<factor, gap>>

Next ==
    \/ Fail \/ OtherTransition \/ TimePasses
    \/ Recover \/ ResetFailcount \/ RpcRecover

(* runner::update runs _check_recovery on every main-loop iteration, and   *)
(* time keeps passing.                                                     *)
Fairness ==
    /\ WF_vars(TimePasses)
    /\ WF_vars(Recover)
    /\ WF_vars(ResetFailcount)

Spec == Init /\ [][Next]_vars /\ Fairness

-----------------------------------------------------------------------------
(* Properties *)

(* A Failed runner always leaves Failed again: either _check_recovery's    *)
(* first branch recovers it, or, with the failcount used up, the second    *)
(* branch resets the failcount after failcount_reset_time. A gap between   *)
(* the two branch tests would leave the node Failed for good.              *)
FailedEventuallyLeaves == [](state = Failed => <>(state = Up))

(* spec.md section 8, property 9: with factor >= 2 the wait before each    *)
(* successive recovery attempt of _check_recovery is at least the one      *)
(* before it.                                                              *)
BackoffNonDecreasing ==
    [][Recover /\ failcount >= 1 /\ factor >= 2 => gap' >= gap]_vars

(* spec.md section 4.7: "After failcount_reset_time of no further          *)
(* failures, failcount resets to 0." A runner that has not transitioned    *)
(* for that long, and is not Failed, eventually has failcount 0 (or        *)
(* transitions again).                                                     *)
QuietRunnerForgetsFailures ==
    [](quiet /\ state = Up => <>(failcount = 0 \/ ~quiet))
=============================================================================
