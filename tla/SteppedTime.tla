---------------------------- MODULE SteppedTime ----------------------------
(***************************************************************************)
(* Time of a simulation that is stepped from outside in steps of its own:  *)
(*   runtime  an importer calls model_runtime_step (model_runtime.c)       *)
(*   mcl      the ModelC calls mcl_step, for a model of a library (mcl.c)  *)
(*   gateway  a remote simulation calls model_gw_sync (gateway.c), and its *)
(*            time is that of a SimBus (simbus/handler.c)                  *)
(* All three advance by compensated (Kahan) summation.  Times are integers *)
(* in a unit in which steps and corrections are exact; a double as large   *)
(* as a time is a multiple of Grid, and a sum is rounded to such a one.    *)
(* Times are counted from one late in a simulation at which the sum was    *)
(* exact: at the true start the grid of doubles is much finer.             *)
(***************************************************************************)
EXTENDS Integers

CONSTANTS
  Kinds,         \* the kinds above that are possible
  StepSize,      \* step_size of the simulation that is stepped
  Grid,          \* odd: there are no ties to round
  Epsilon,       \* the tolerance of the caller's times: step_size * 0.01
  LastCall       \* bound: the last time that is called for

VARIABLES
  kind,
  active,        \* a call is in its loop
  asked,         \* the end time of the last call
  result,        \* of the last call: "ok", "beyond", "behind", or "none"
  sum,           \* runtime.model_time, MclDesc.model_time, adapter->bus_time
  correction,    \* step_time_correction, model_time_correction,
                 \* bus_time_correction
  steps          \* history: steps taken

vars == <<kind, active, asked, result, sum, correction, steps>>

ASSUME TimeAssumption ==
  /\ Kinds \subseteq {"runtime", "mcl", "gateway"}
  /\ Grid \in Nat /\ Grid % 2 = 1
  /\ StepSize \in Nat \ {0}
  /\ Epsilon \in Nat /\ Epsilon % Grid = 0 /\ Grid <= Epsilon
  /\ 3 * Epsilon < StepSize
  /\ LastCall \in Nat

\* The bus time before the first cycle is one step before 0.
Origin == IF kind = "gateway" THEN -StepSize ELSE 0

Init ==
  /\ kind \in Kinds
  /\ active = FALSE
  /\ asked = 0
  /\ result = "none"
  /\ sum = Origin
  /\ correction = 0
  /\ steps = 0

-----------------------------------------------------------------------------
\* The double next to x.
Round(x) == LET y == x + Grid \div 2 IN y - (y % Grid)

\* The next value of the sum, and the correction that it leaves.
NextSum == Round(sum + (StepSize - correction))

NextCorrection == (NextSum - sum) - (StepSize - correction)

\* AdapterModel.model_time of the gateway: the stop_time of its last cycle.
GatewayTime == IF steps = 0 THEN 0 ELSE Round(sum + StepSize)

GatewayBehind(t) == t + Epsilon < GatewayTime

\* The caller's time never goes back.
Call ==
  /\ ~active
  /\ \E t \in asked..LastCall :
       /\ t % Grid = 0
       /\ asked' = t
       /\ IF kind = "gateway" /\ GatewayBehind(t)
          THEN active' = FALSE /\ result' = "behind"
          ELSE active' = TRUE /\ result' = "ok"
  /\ UNCHANGED <<kind, sum, correction, steps>>

\* Mutant: the plain sum.
StepUncompensated ==
  /\ sum' = Round(sum + StepSize)
  /\ steps' = steps + 1
  /\ UNCHANGED <<kind, asked, result, correction>>

\* modelc_sync, or the step of the library.
Step ==
  /\ sum' = NextSum
  /\ correction' = NextCorrection
  /\ steps' = steps + 1
  /\ UNCHANGED <<kind, asked, result>>

Return(r) ==
  /\ active' = FALSE
  /\ result' = r
  /\ UNCHANGED <<kind, asked, sum, steps>>

\* Mutant: the step need only begin by the end time.
FitsInPart == sum <= asked + Epsilon

\* Mutant: the end of the step must not exceed the end time at all.
FitsExactly == NextSum <= asked

\* The step ends by the end time.
Fits == NextSum <= asked + Epsilon

\* The loop of model_runtime_step, once.
RuntimeLoop ==
  /\ active
  /\ kind = "runtime"
  /\ IF sum < asked /\ Fits
     THEN Step /\ active' = (NextSum + Epsilon < asked)
     ELSE Return("ok") /\ UNCHANGED correction

\* The loop of mcl_step, once: the correction is stored before the step is
\* found to end too late.
MclLoop ==
  /\ active
  /\ kind = "mcl"
  /\ \/ sum >= asked /\ Return("beyond") /\ UNCHANGED correction
     \/ sum < asked /\ Fits /\ Step /\ active' = (NextSum + Epsilon < asked)
     \/ sum < asked /\ ~Fits /\ Return("ok") /\ correction' = NextCorrection

\* The loop of model_gw_sync, once: a step is a cycle of the SimBus.
GatewayLoop ==
  /\ active
  /\ kind = "gateway"
  /\ IF GatewayTime <= asked + Epsilon
     THEN Step /\ UNCHANGED active
     ELSE Return("ok") /\ UNCHANGED correction

Next == Call \/ RuntimeLoop \/ MclLoop \/ GatewayLoop

Spec == Init /\ [][Next]_vars

-----------------------------------------------------------------------------
Distance(x, y) == IF x < y THEN y - x ELSE x - y

Compensated ==
  2 * Distance(sum, Origin + steps * StepSize) <= Grid

\* The sum is the number of steps times their size, rounded once, however
\* many steps were taken ("Increment via Kahan summation", model_runtime.c and
\* handler.c).
CompensatedTime == kind # "mcl" => Compensated

\* A caller that asks for the time of step k, inexact by less than the
\* tolerance, finds exactly k steps taken, in as many calls and with as many
\* times between the steps as it liked.  A gateway has then begun cycle k.
StepsAsAsked ==
  kind # "mcl" /\ ~active /\ result = "ok" =>
    \A k \in 0..steps + 1 :
      Distance(asked, k * StepSize) + Grid <= Epsilon =>
        steps = IF kind = "gateway" THEN k + 1 ELSE k

\* Between two calls the simulation is less than one step behind the time
\* asked for; it is ahead by no more than the tolerance, or for a gateway by
\* the cycle it has begun.
WithinAStep ==
  ~active /\ result # "none" =>
    /\ asked - sum < StepSize
    /\ kind = "gateway" \/ sum <= asked + Epsilon
=============================================================================
