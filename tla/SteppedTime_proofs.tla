------------------------- MODULE SteppedTime_proofs -------------------------
(***************************************************************************)
(* Compensated summation, for every step size, every grid of doubles and   *)
(* every tolerance.  A sum is exact only as long as no correction is       *)
(* stored for a step that is not taken; mcl.c does that.                   *)
(***************************************************************************)
EXTENDS SteppedTime, TLAPS

\* The spacing of doubles is positive, and odd so that no sum is halfway.
LEMMA GridIsOdd == Grid \in Nat /\ Grid > 0 /\ Grid % 2 = 1
  BY TimeAssumption, Z3

\* Round returns the double next to its argument.
LEMMA RoundIsNear ==
  ASSUME NEW x \in Int
  PROVE  /\ Round(x) \in Int
         /\ 2 * (Round(x) - x) <= Grid
         /\ 2 * (x - Round(x)) <= Grid
<1> DEFINE h == Grid \div 2
           rest == (x + h) % Grid
<1>1. h \in Int /\ Grid = 2 * h + 1
  BY GridIsOdd, Z3
<1>2. rest \in Int /\ rest >= 0 /\ rest < Grid
  <2>1. x + h \in Int
    BY <1>1
  <2> QED BY <2>1, GridIsOdd, Z3
<1>3. Round(x) = (x + h) - rest
  BY DEF Round
<1> QED
  <2> HIDE DEF h, rest
  <2> QED BY <1>1, <1>2, <1>3, GridIsOdd, SMT

\* The constants are integers, and the tolerance of a caller is well below half
\* a step (step_size * 0.01).
LEMMA Constants ==
  /\ Grid \in Int /\ StepSize \in Int /\ Epsilon \in Int
  /\ 0 < Grid /\ Grid <= Epsilon /\ 3 * Epsilon < StepSize
<1>1. StepSize \in Nat /\ Epsilon \in Nat /\ Grid <= Epsilon /\ 3 * Epsilon < StepSize
  BY TimeAssumption
<1> QED BY <1>1, GridIsOdd

-----------------------------------------------------------------------------
\* How far the simulation is: the sum less its correction is exact, and a
\* loop is left only with the caller's time reached.
Target == asked + Epsilon

SumInv ==
  /\ sum \in Int /\ correction \in Int /\ steps \in Nat
  /\ 2 * correction <= Grid /\ -Grid <= 2 * correction
  /\ kind # "mcl" => sum - correction = Origin + steps * StepSize

\* The next sum of a library depends on what it has rejected.
MclInv ==
  kind = "mcl" =>
    /\ sum <= Target
    /\ ~active /\ result # "none" =>
         asked <= sum + Epsilon \/ sum + StepSize + Grid > Target

RuntimeInv ==
  kind = "runtime" =>
    /\ sum <= Target
    /\ ~active /\ result # "none" => asked <= sum + Epsilon \/ NextSum > Target

GatewayInv ==
  kind = "gateway" =>
    /\ steps > 0 => (steps - 1) * StepSize <= Target + Grid
    /\ ~active /\ result # "none" => GatewayTime > Target

TimeInv ==
  /\ kind \in {"runtime", "mcl", "gateway"}
  /\ asked \in Int
  /\ active \in BOOLEAN
  /\ SumInv
  /\ RuntimeInv
  /\ MclInv
  /\ GatewayInv

\* One more step: compensated summation keeps the sum exact but for its
\* correction.
LEMMA SumStep ==
  ASSUME TimeInv, Step
  PROVE  /\ SumInv'
         /\ NextSum \in Int
         /\ (steps + 1) * StepSize = steps * StepSize + StepSize
<1> DEFINE y == StepSize - correction
<1>1. y \in Int /\ sum + y \in Int
  BY Constants DEF TimeInv, SumInv
<1>2. /\ NextSum \in Int
      /\ 2 * (NextSum - (sum + y)) <= Grid
      /\ 2 * ((sum + y) - NextSum) <= Grid
  BY <1>1, RoundIsNear DEF NextSum
<1>3. (steps + 1) * StepSize = steps * StepSize + StepSize
  BY Constants DEF TimeInv, SumInv
<1>4. Origin' = Origin /\ Origin \in Int
  BY Constants DEF Origin, Step
<1>5. steps * StepSize \in Int
  BY Constants DEF TimeInv, SumInv
<1>6. sum' = NextSum /\ correction' = (NextSum - sum) - y /\ steps' = steps + 1
  BY DEF Step, NextCorrection
<1>7. /\ sum' \in Int /\ correction' \in Int /\ steps' \in Nat
      /\ 2 * correction' <= Grid /\ -Grid <= 2 * correction'
  BY <1>1, <1>2, <1>6, Constants DEF TimeInv, SumInv
<1>8. kind' # "mcl" => sum' - correction' = Origin' + steps' * StepSize
  <2>1. SUFFICES ASSUME kind # "mcl"
                 PROVE  sum' - correction' = Origin' + steps' * StepSize
    BY DEF Step
  <2>2. sum - correction = Origin + steps * StepSize
    BY <2>1 DEF TimeInv, SumInv
  <2> QED BY <1>1, <1>2, <1>3, <1>4, <1>5, <1>6, <2>2, Constants DEF TimeInv, SumInv
<1> QED BY <1>2, <1>3, <1>7, <1>8 DEF SumInv

\* Before the first call nothing is summed.
LEMMA TimeInvInit ==
  ASSUME Init
  PROVE  TimeInv
<1>1. kind \in {"runtime", "mcl", "gateway"}
  BY TimeAssumption DEF Init
<1>2. Origin \in Int /\ 0 * StepSize = 0
  BY Constants DEF Origin
<1>3. SumInv
  BY <1>2, Constants DEF Init, SumInv
<1>4. RuntimeInv /\ MclInv
  BY Constants DEF Init, RuntimeInv, MclInv, Target, Origin
<1>5. GatewayInv
  BY DEF Init, GatewayInv
<1>6. asked \in Int
  BY DEF Init
<1>7. active \in BOOLEAN
  BY DEF Init
<1> QED BY <1>1, <1>3, <1>4, <1>5, <1>6, <1>7 DEF TimeInv

\* What is in reach of a time is in reach of a later one.
LEMMA LaterIsFurther ==
  ASSUME NEW s \in Int, NEW t \in Int, NEW u \in Int, NEW e \in Int,
         s <= t + e, t <= u
  PROVE  s <= u + e
  OBVIOUS

\* A call moves only the target, and away from the simulation.
LEMMA CallStep ==
  ASSUME TimeInv, Call
  PROVE  TimeInv'
<1>1. PICK t \in asked..LastCall :
        /\ asked' = t
        /\ IF kind = "gateway" /\ GatewayBehind(t)
           THEN active' = FALSE /\ result' = "behind"
           ELSE active' = TRUE /\ result' = "ok"
  BY DEF Call
<1>2. asked \in Int /\ asked' \in Int /\ asked <= asked'
  BY <1>1, TimeAssumption DEF TimeInv
<1>3. /\ active' \in BOOLEAN
      /\ active' \/ (kind = "gateway" /\ GatewayBehind(asked'))
  BY <1>1
<1>4. UNCHANGED <<kind, sum, correction, steps>>
  BY DEF Call
<1>5. SumInv'
  BY <1>4 DEF TimeInv, SumInv, Origin
<1>6. RuntimeInv' /\ MclInv'
  <2>1. kind' \in {"runtime", "mcl"} => sum' <= Target'
    <3>1. kind \in {"runtime", "mcl"} => sum <= asked + Epsilon
      BY DEF TimeInv, RuntimeInv, MclInv, Target
    <3>2. sum \in Int
      BY DEF TimeInv, SumInv
    <3>3. kind' = kind /\ sum' = sum
      BY <1>4
    <3>4. ASSUME kind \in {"runtime", "mcl"} PROVE sum <= asked' + Epsilon
      <4>1. sum <= asked + Epsilon
        BY <3>1, <3>4
      <4> QED BY <1>2, <3>2, <4>1, Constants, LaterIsFurther
    <3> QED BY <3>3, <3>4 DEF Target
  <2>2. kind' \in {"runtime", "mcl"} => active'
    BY <1>3, <1>4
  <2> QED BY <2>1, <2>2 DEF RuntimeInv, MclInv
<1>7. GatewayInv'
  <2>1. (steps - 1) * StepSize \in Int
    BY Constants DEF TimeInv, SumInv
  <2>2. kind' = "gateway" /\ steps' > 0 =>
          (steps' - 1) * StepSize <= Target' + Grid
    BY <1>2, <1>4, <2>1, Constants DEF TimeInv, GatewayInv, Target
  <2>3. GatewayTime \in Int /\ GatewayTime' = GatewayTime
    <3>1. sum + StepSize \in Int
      BY Constants DEF TimeInv, SumInv
    <3> QED BY <1>4, <3>1, RoundIsNear DEF GatewayTime
  <2>4. GatewayBehind(asked') => GatewayTime' > Target'
    BY <1>2, <2>3, Constants DEF GatewayBehind, Target
  <2> QED BY <1>3, <2>2, <2>4 DEF GatewayInv
<1> QED BY <1>2, <1>3, <1>4, <1>5, <1>6, <1>7 DEF TimeInv

\* The loop of model_runtime_step steps or returns, and returns only with the
\* time reached or the next step out of reach.
LEMMA RuntimeLoopStep ==
  ASSUME TimeInv, RuntimeLoop
  PROVE  TimeInv'
<1>1. kind = "runtime" /\ active
  BY DEF RuntimeLoop
<1>2. CASE sum < asked /\ Fits
  <2>1. Step /\ active' = (NextSum + Epsilon < asked)
    BY <1>2 DEF RuntimeLoop
  <2>2. SumInv' /\ NextSum \in Int
    BY <2>1, SumStep
  <2>3. UNCHANGED <<kind, asked, result>> /\ sum' = NextSum
    BY <2>1 DEF Step
  <2>4. RuntimeInv'
    <3>1. sum' <= Target'
      BY <1>2, <2>3 DEF Target, Fits
    <3>2. active' \/ asked' <= sum' + Epsilon
      <4>1. NextSum + Epsilon < asked \/ asked <= NextSum + Epsilon
        BY <2>2, Constants DEF TimeInv
      <4> QED BY <2>1, <2>3, <4>1
    <3> QED BY <3>1, <3>2 DEF RuntimeInv
  <2>5. GatewayInv' /\ MclInv'
    BY <1>1, <2>3 DEF GatewayInv, MclInv
  <2>6. active' \in BOOLEAN
    BY <2>1
  <2> QED BY <2>2, <2>3, <2>4, <2>5, <2>6 DEF TimeInv
<1>3. CASE ~(sum < asked /\ Fits)
  <2>1. Return("ok") /\ UNCHANGED correction
    BY <1>3 DEF RuntimeLoop
  <2>2. UNCHANGED <<kind, asked, sum, correction, steps>> /\ active' = FALSE
    BY <2>1 DEF Return
  <2>3. SumInv' /\ NextSum' = NextSum
    BY <2>2 DEF TimeInv, SumInv, Origin, NextSum
  <2>4. NextSum \in Int
    <3>1. sum + (StepSize - correction) \in Int
      BY Constants DEF TimeInv, SumInv
    <3> QED BY <3>1, RoundIsNear DEF NextSum
  <2>5. asked <= sum + Epsilon \/ NextSum > Target
    BY <1>3, <2>4, Constants DEF TimeInv, SumInv, Target, Fits
  <2>6. RuntimeInv'
    BY <1>1, <2>2, <2>3, <2>5 DEF TimeInv, RuntimeInv, Target
  <2>7. GatewayInv' /\ MclInv'
    BY <1>1, <2>2 DEF GatewayInv, MclInv
  <2> QED BY <2>2, <2>3, <2>6, <2>7 DEF TimeInv
<1> QED BY <1>2, <1>3

\* The loop of model_gw_sync runs a cycle, or returns when the next is later
\* than the gateway.
LEMMA GatewayLoopStep ==
  ASSUME TimeInv, GatewayLoop
  PROVE  TimeInv'
<1>1. kind = "gateway" /\ active
  BY DEF GatewayLoop
<1>2. CASE GatewayTime <= Target
  <2>1. Step /\ UNCHANGED active
    BY <1>2 DEF GatewayLoop, Target
  <2>2. SumInv' /\ (steps + 1) * StepSize = steps * StepSize + StepSize
    BY <2>1, SumStep
  <2>3. UNCHANGED <<kind, asked, result>> /\ steps' = steps + 1
    BY <2>1 DEF Step
  <2>4. (steps' - 1) * StepSize = steps * StepSize /\ steps * StepSize \in Int
    BY <2>3, Constants DEF TimeInv, SumInv
  <2>5. steps * StepSize <= Target + Grid
    <3>1. CASE steps = 0
      BY <1>2, <3>1, Constants DEF TimeInv, GatewayTime, Target
    <3>2. CASE steps # 0
      <4>1. sum + StepSize \in Int
        BY Constants DEF TimeInv, SumInv
      <4>2. GatewayTime \in Int /\ 2 * ((sum + StepSize) - GatewayTime) <= Grid
        BY <3>2, <4>1, RoundIsNear DEF GatewayTime
      <4>3. sum - correction = steps * StepSize - StepSize
        BY <1>1, <2>4, Constants DEF TimeInv, SumInv, Origin
      <4> QED BY <1>2, <2>4, <4>2, <4>3, Constants DEF TimeInv, SumInv, Target
    <3> QED BY <3>1, <3>2
  <2>6. GatewayInv'
    BY <1>1, <2>1, <2>3, <2>4, <2>5 DEF GatewayInv, Target
  <2>7. RuntimeInv' /\ MclInv'
    BY <1>1, <2>3 DEF RuntimeInv, MclInv
  <2> QED BY <2>1, <2>2, <2>3, <2>6, <2>7 DEF TimeInv
<1>3. CASE ~(GatewayTime <= Target)
  <2>1. Return("ok") /\ UNCHANGED correction
    BY <1>3 DEF GatewayLoop, Target
  <2>2. UNCHANGED <<kind, asked, sum, correction, steps>> /\ active' = FALSE
    BY <2>1 DEF Return
  <2>3. SumInv' /\ GatewayTime' = GatewayTime /\ Target' = Target
    BY <2>2 DEF TimeInv, SumInv, Origin, GatewayTime, Target
  <2>4. GatewayTime \in Int
    <3>1. sum + StepSize \in Int
      BY Constants DEF TimeInv, SumInv
    <3> QED BY <3>1, RoundIsNear DEF GatewayTime
  <2>5. GatewayTime > Target
    BY <1>3, <2>4, Constants DEF TimeInv, Target
  <2>6. GatewayInv'
    BY <2>2, <2>3, <2>5 DEF TimeInv, GatewayInv
  <2>7. RuntimeInv' /\ MclInv'
    BY <1>1, <2>2 DEF RuntimeInv, MclInv
  <2> QED BY <2>2, <2>3, <2>6, <2>7 DEF TimeInv
<1> QED BY <1>2, <1>3

\* The loop of mcl_step steps, or returns with the time reached or the next step
\* out of reach, whatever correction it has stored.
LEMMA MclLoopStep ==
  ASSUME TimeInv, MclLoop
  PROVE  TimeInv'
<1>1. kind = "mcl" /\ active
  BY DEF MclLoop
<1>2. CASE sum < asked /\ Fits
  <2>1. Step /\ active' = (NextSum + Epsilon < asked)
    <3>1. ~(sum >= asked)
      BY <1>2 DEF TimeInv, SumInv
    <3> QED BY <1>2, <3>1 DEF MclLoop
  <2>2. SumInv' /\ NextSum \in Int
    BY <2>1, SumStep
  <2>3. UNCHANGED <<kind, asked, result>> /\ sum' = NextSum
    BY <2>1 DEF Step
  <2>4. MclInv'
    <3>1. sum' <= Target'
      BY <1>2, <2>3 DEF Target, Fits
    <3>2. active' \/ asked' <= sum' + Epsilon
      <4>1. NextSum + Epsilon < asked \/ asked <= NextSum + Epsilon
        BY <2>2, Constants DEF TimeInv
      <4> QED BY <2>1, <2>3, <4>1
    <3> QED BY <3>1, <3>2 DEF MclInv
  <2>5. GatewayInv' /\ RuntimeInv'
    BY <1>1, <2>3 DEF GatewayInv, RuntimeInv
  <2>6. active' \in BOOLEAN
    BY <2>1
  <2> QED BY <2>2, <2>3, <2>4, <2>5, <2>6 DEF TimeInv
<1>3. CASE ~(sum < asked /\ Fits)
  <2>1. /\ UNCHANGED <<kind, asked, sum, steps>> /\ active' = FALSE
        /\ correction' = correction \/ correction' = NextCorrection
    <3>1. \/ Return("beyond") /\ UNCHANGED correction
          \/ Return("ok") /\ correction' = NextCorrection
      BY <1>3 DEF MclLoop
    <3> QED BY <3>1 DEF Return
  <2>2. sum + (StepSize - correction) \in Int
    BY Constants DEF TimeInv, SumInv
  <2>3. /\ NextSum \in Int
        /\ 2 * (NextSum - (sum + (StepSize - correction))) <= Grid
        /\ 2 * ((sum + (StepSize - correction)) - NextSum) <= Grid
    BY <2>2, RoundIsNear DEF NextSum
  <2>4. SumInv'
    <3>1. /\ NextCorrection \in Int
          /\ 2 * NextCorrection <= Grid /\ -Grid <= 2 * NextCorrection
      BY <2>3, Constants DEF NextCorrection, TimeInv, SumInv
    <3> QED BY <1>1, <2>1, <3>1 DEF TimeInv, SumInv
  <2>5. asked <= sum + Epsilon \/ sum + StepSize + Grid > asked + Epsilon
    BY <1>3, <2>3, Constants DEF TimeInv, SumInv, Fits
  <2>6. MclInv'
    BY <1>1, <2>1, <2>5 DEF TimeInv, MclInv, Target
  <2>7. GatewayInv' /\ RuntimeInv'
    BY <1>1, <2>1 DEF GatewayInv, RuntimeInv
  <2>8. active' \in BOOLEAN
    BY <2>1
  <2> QED BY <2>1, <2>4, <2>6, <2>7, <2>8 DEF TimeInv
<1> QED BY <1>2, <1>3

\* Every step preserves the invariant.
LEMMA TimeInvStep ==
  ASSUME TimeInv, [Next]_vars
  PROVE  TimeInv'
<1>1. CASE UNCHANGED vars
  BY <1>1 DEF vars, TimeInv, SumInv, RuntimeInv, MclInv, GatewayInv, Target,
              NextSum, GatewayTime, Origin
<1> QED BY <1>1, CallStep, RuntimeLoopStep, MclLoopStep, GatewayLoopStep DEF Next

\* The sums of model_runtime_step and of the SimBus are exact but for the
\* correction they keep.
THEOREM Inductive == Spec => []TimeInv
<1>1. Init => TimeInv
  BY TimeInvInit
<1>2. TimeInv /\ [Next]_vars => TimeInv'
  BY TimeInvStep
<1> QED BY <1>1, <1>2, PTL DEF Spec

-----------------------------------------------------------------------------
\* The product of the steps is all that the following needs of them.
LEMMA InSteps ==
  ASSUME TimeInv
  PROVE  /\ steps * StepSize \in Int
         /\ kind # "mcl" => sum - correction = Origin + steps * StepSize
         /\ NextSum \in Int
         /\ 2 * (NextSum - (sum + (StepSize - correction))) <= Grid
<1>1. sum + (StepSize - correction) \in Int
  BY Constants DEF TimeInv, SumInv
<1>2. steps * StepSize \in Int
  BY Constants DEF TimeInv, SumInv
<1> QED BY <1>1, <1>2, RoundIsNear DEF NextSum, TimeInv, SumInv

\* The model time of a gateway is the end of its last cycle, rounded.
LEMMA GatewayTimeIsNear ==
  ASSUME TimeInv, kind = "gateway"
  PROVE  /\ GatewayTime \in Int
         /\ 2 * (GatewayTime - (sum + StepSize)) <= Grid \/ steps = 0
         /\ GatewayTime <= steps * StepSize + Grid
<1>1. sum + StepSize \in Int
  BY Constants DEF TimeInv, SumInv
<1>2. CASE steps = 0
  BY <1>2, Constants DEF GatewayTime
<1>3. CASE steps # 0
  <2>1. /\ GatewayTime \in Int
        /\ 2 * (GatewayTime - (sum + StepSize)) <= Grid
    BY <1>1, <1>3, RoundIsNear DEF GatewayTime
  <2>2. sum - correction = steps * StepSize - StepSize
    BY InSteps, Constants DEF Origin
  <2> QED BY <2>1, <2>2, InSteps, Constants DEF TimeInv, SumInv
<1> QED BY <1>2, <1>3

\* Fewer times the step is fewer steps.
LEMMA FewerSteps ==
  ASSUME NEW a \in Int, NEW b \in Int, a * StepSize < b * StepSize
  PROVE  a < b
<1>1. SUFFICES ASSUME b <= a PROVE FALSE
  OBVIOUS
<1>2. (a - b) * StepSize = a * StepSize - b * StepSize
  BY Constants
<1>3. (a - b) * StepSize >= 0
  BY <1>1, Constants
<1>4. a * StepSize \in Int /\ b * StepSize \in Int
  BY Constants
<1> QED BY <1>2, <1>3, <1>4

\* Kahan summation does not drift, for a runtime and for a gateway.
THEOREM SumIsCompensated == Spec => []CompensatedTime
<1>1. TimeInv => CompensatedTime
  <2>1. SUFFICES ASSUME TimeInv, kind # "mcl" PROVE Compensated
    BY DEF CompensatedTime
  <2>2. Origin \in Int
    BY Constants DEF Origin
  <2>3. sum - correction = Origin + steps * StepSize
    BY <2>1, InSteps
  <2> QED BY <2>1, <2>2, <2>3, InSteps, Constants
          DEF Compensated, Distance, TimeInv, SumInv
<1> QED BY <1>1, Inductive, PTL

\* A caller's time may be inexact and its calls as irregular as it likes: once
\* the time of step k is asked for, exactly the steps up to it are taken.
THEOREM StepsAreAsAsked == Spec => []StepsAsAsked
<1>1. TimeInv => StepsAsAsked
  <2>1. SUFFICES
          ASSUME TimeInv, kind # "mcl", ~active, result = "ok", NEW k \in 0..steps + 1,
                 Distance(asked, k * StepSize) + Grid <= Epsilon
          PROVE  steps = IF kind = "gateway" THEN k + 1 ELSE k
    BY DEF StepsAsAsked
  <2> DEFINE P == steps * StepSize
             K == k * StepSize
  <2>2. k \in Int /\ steps \in Int /\ asked \in Int /\ P \in Int /\ K \in Int
    <3>1. steps \in Nat /\ asked \in Int
      BY <2>1 DEF TimeInv, SumInv
    <3>2. k \in Int
      BY <2>1, <3>1
    <3> QED BY <3>1, <3>2, Constants
  <2>3. asked + Grid <= K + Epsilon /\ K + Grid <= asked + Epsilon
    <3> HIDE DEF K
    <3> QED BY <2>1, <2>2, Constants DEF Distance, K
  <2>4. (k + 1) * StepSize = K + StepSize /\ (steps + 1) * StepSize = P + StepSize
        /\ (steps - 1) * StepSize = P - StepSize
    BY <2>2, Constants
  <2>5. CASE kind = "runtime"
    <3>1. sum <= asked + Epsilon
      BY <2>1, <2>5 DEF TimeInv, RuntimeInv, Target
    <3>2. asked <= sum + Epsilon \/ NextSum > asked + Epsilon
      BY <2>1, <2>5 DEF TimeInv, RuntimeInv, Target
    <3>3. /\ sum \in Int /\ correction \in Int
          /\ 2 * correction <= Grid /\ -Grid <= 2 * correction
      BY <2>1 DEF TimeInv, SumInv
    <3>4. sum - correction = P
      BY <2>1, <2>2, <2>5, <3>3, InSteps DEF Origin
    <3>5. NextSum \in Int /\ 2 * (NextSum - (P + StepSize)) <= Grid
      <4>1. sum + (StepSize - correction) = P + StepSize
        <5> HIDE DEF P
        <5> QED BY <2>2, <3>3, <3>4, Constants
      <4> QED BY <2>1, <4>1, InSteps
    <3> HIDE DEF P, K
    <3>6. P < K + StepSize
      BY <2>2, <2>3, <3>1, <3>3, <3>4, Constants
    <3>7. K < P + StepSize
      BY <2>2, <2>3, <3>2, <3>3, <3>4, <3>5, Constants
    <3>8. steps < k + 1
      BY <2>2, <2>4, <3>6, FewerSteps DEF P, K
    <3>9. k < steps + 1
      BY <2>2, <2>4, <3>7, FewerSteps DEF P, K
    <3> QED BY <2>2, <2>5, <3>8, <3>9
  <2>6. CASE kind = "gateway"
    <3>1. GatewayTime > asked + Epsilon
      BY <2>1, <2>6 DEF TimeInv, GatewayInv, Target
    <3>2. GatewayTime \in Int /\ GatewayTime <= P + Grid
      BY <2>1, <2>6, GatewayTimeIsNear
    <3>3. steps > 0 => P - StepSize <= asked + Epsilon + Grid
      BY <2>1, <2>4, <2>6 DEF TimeInv, GatewayInv, Target
    <3> HIDE DEF P, K
    <3>4. K < P
      BY <2>2, <2>3, <3>1, <3>2, Constants
    <3>5. k < steps
      BY <2>2, <3>4, FewerSteps DEF P, K
    <3>6. steps > 0
      BY <2>1, <2>2, <3>5
    <3>7. P - StepSize < K + StepSize
      BY <2>2, <2>3, <3>3, <3>6, Constants
    <3>8. steps - 1 < k + 1
      BY <2>2, <2>4, <3>7, FewerSteps DEF P, K
    <3> QED BY <2>2, <2>6, <3>5, <3>8
  <2> QED BY <2>1, <2>5, <2>6 DEF TimeInv
<1> QED BY <1>1, Inductive, PTL

\* The simulation is never a whole step behind its caller.
THEOREM CallerIsNear == Spec => []WithinAStep
<1>1. TimeInv => WithinAStep
  <2>1. SUFFICES ASSUME TimeInv, ~active, result # "none"
                 PROVE  /\ asked - sum < StepSize
                        /\ kind = "gateway" \/ sum <= asked + Epsilon
    BY DEF WithinAStep
  <2>2. /\ sum \in Int /\ correction \in Int /\ asked \in Int
        /\ 2 * correction <= Grid /\ -Grid <= 2 * correction
    BY <2>1 DEF TimeInv, SumInv
  <2>3. CASE kind = "runtime"
    <3>1. sum <= asked + Epsilon
      BY <2>1, <2>3 DEF TimeInv, RuntimeInv, Target
    <3>2. asked <= sum + Epsilon \/ NextSum > asked + Epsilon
      BY <2>1, <2>3 DEF TimeInv, RuntimeInv, Target
    <3>3. asked - sum < StepSize
      BY <2>1, <2>2, <3>2, InSteps, Constants
    <3> QED BY <3>1, <3>3
  <2>5. CASE kind = "mcl"
    <3>1. sum <= asked + Epsilon
      BY <2>1, <2>5 DEF TimeInv, MclInv, Target
    <3>2. asked <= sum + Epsilon \/ sum + StepSize + Grid > asked + Epsilon
      BY <2>1, <2>5 DEF TimeInv, MclInv, Target
    <3>3. asked - sum < StepSize
      BY <2>1, <2>2, <3>2, Constants
    <3> QED BY <3>1, <3>3
  <2>4. CASE kind = "gateway"
    <3>1. GatewayTime > asked + Epsilon
      BY <2>1, <2>4 DEF TimeInv, GatewayInv, Target
    <3>2. CASE steps = 0
      <4>1. GatewayTime = 0 /\ sum - correction = -StepSize
        BY <2>1, <2>4, <3>2, InSteps, Constants DEF GatewayTime, Origin
      <4> QED BY <2>2, <2>4, <3>1, <4>1, Constants
    <3>3. CASE steps # 0
      BY <2>1, <2>2, <2>4, <3>1, <3>3, GatewayTimeIsNear, Constants
    <3> QED BY <3>2, <3>3
  <2> QED BY <2>1, <2>3, <2>4, <2>5 DEF TimeInv
<1> QED BY <1>1, Inductive, PTL
=============================================================================
