-------------------------- MODULE ModelCRun_proofs --------------------------
(***************************************************************************)
(* A ModelC process keeps the contract with its models, and a run that is  *)
(* left because of its end time has made the steps that lead there.        *)
(*                                                                         *)
(* The invariant: Place says where the instance in hand is, Lives which    *)
(* models there are, Rounds how many steps they have made in terms of the  *)
(* phase and of the instance in hand, and Clock what the time of the       *)
(* SimBus is then.  The return codes of the models do not appear: they are *)
(* dropped.                                                                *)
(*                                                                         *)
(* Then the settings, which are resolved layer by layer, the uids of the   *)
(* instances, by which the adapter finds their models, and the vectors,    *)
(* by which a model finds the signals that the documents give its channels.*)
(***************************************************************************)
EXTENDS ModelCRun, SequenceTheorems, WellFoundedInduction, TLAPS

Setup == {"parse", "configure", "endpoint", "uids", "init"}
Between == {"connect", "register", "run", "ready"}
Living == { p \in Places : life[p] # "none" }

Place ==
  /\ phase \in Setup \cup Between => at = 1
  /\ left = "no" \/ phase \in {"exit", "done"}

Lives ==
  /\ phase \in Setup => \A p \in Places : life[p] = "none"
  /\ phase = "load" => \A p \in Places : life[p] = IF p < at THEN "created" ELSE "none"
  /\ phase \in Between \cup {"step"} => \A p \in Places : life[p] # "destroyed"
  /\ phase = "exit" => \A p \in Places : /\ p < at => life[p] # "created"
                                         /\ p >= at => life[p] # "destroyed"
  /\ phase \notin Setup => \A p \in Living : p <= N

\* In a round of steps the models before the one in hand are a step ahead.
Ahead(p) == IF phase = "step" /\ p < at THEN 1 ELSE 0

Rounds ==
  /\ phase \in Setup \cup {"load"} => \A p \in Places : steps[p] = 0
  /\ phase # "dead" => \A p, q \in Living : steps[p] - Ahead(p) = steps[q] - Ahead(q)

\* The time of the SimBus is that of the steps made, unless a step was made on
\* a stop request; it is past the end time in the last round only.
Clock ==
  /\ phase \in {"parse", "configure", "dead"} \/ StepSize <= EndTime
  /\ phase \in Setup \cup {"load"} => stopTime = 0
  /\ phase \in {"connect", "register", "ready"} \/ (phase = "run" /\ ~stop) =>
       \A p \in Living : stopTime = steps[p] * StepSize
  /\ phase \in Setup \cup Between \cup {"load"} => stopTime <= EndTime
  /\ phase = "step" =>
       \/ stop /\ stopTime <= EndTime
       \/ /\ stopTime - StepSize <= EndTime
          /\ \A p \in Living : stopTime = (steps[p] - Ahead(p) + 1) * StepSize

IInv == TypeOK /\ Place /\ Lives /\ Rounds /\ Clock /\ StepsToEnd

-----------------------------------------------------------------------------
\* The least of a set of instances is one of them.
LEMMA MinIsMember ==
  ASSUME NEW S, S \subseteq Nat, S # {}
  PROVE  Min(S) \in S /\ \A y \in S : Min(S) <= y
<1> DEFINE R == { ss \in Nat \X Nat : ss[1] < ss[2] }
<1>0. IsWellFoundedOn(R, Nat)
  BY NatLessThanWellFounded DEF OpToRel
<1>1. \E x \in S : \A y \in S : ~(<<y, x>> \in R)
  <2> HIDE DEF R
  <2> QED BY <1>0, WFMin
<1>2. PICK x \in S : \A y \in S : ~(<<y, x>> \in R)
  BY <1>1
<1>3. ASSUME NEW y \in S PROVE x <= y
  <2>1. ~(y < x)
    BY <1>2 DEF R
  <2> QED BY <2>1
<1> QED BY <1>3 DEF Min

LEMMA InstanceCount ==
  ASSUME TypeOK, file # << >>
  PROVE  N \in Nat /\ 1 <= N /\ N <= MaxInstances
  BY RunAssumption DEF TypeOK, N

LEMMA AssignedUid ==
  ASSUME TypeOK, phase = "uids", NEW given, given = { p \in 1..N : uid[p] # 0 }
  PROVE  (IF given = {} THEN simUid ELSE uid[Min(given)]) \in Nat
<1>0. file # << >>
  BY DEF TypeOK
<1>1. given \subseteq Places
  BY <1>0, InstanceCount, RunAssumption DEF Places
<1>2. CASE given = {}
  BY <1>2 DEF TypeOK
<1>3. CASE given # {}
  <2>1. given \subseteq Nat
    BY <1>1, RunAssumption DEF Places
  <2>2. Min(given) \in Places
    BY <1>1, <1>3, <2>1, MinIsMember
  <2> QED BY <1>3, <2>2 DEF TypeOK
<1> QED BY <1>2, <1>3

-----------------------------------------------------------------------------
\* Type correctness.

LEMMA InitType == Init => TypeOK
<1> SUFFICES ASSUME Init PROVE TypeOK
  OBVIOUS
<1>1. /\ phase = "parse" /\ file = << >> /\ kind = "none" /\ left = "no"
      /\ stopRequest = FALSE /\ stop = FALSE
      /\ at = 1 /\ tries = RetryCount /\ modelTime = 0 /\ stopTime = 0
      /\ simUid \in SimUids
  BY DEF Init
<1>2. /\ uid \in [Places -> Nat] /\ steps \in [Places -> Nat]
      /\ life \in [Places -> {"none", "created", "destroyed"}]
  <2>1. /\ uid = [p \in Places |-> 0] /\ steps = [p \in Places |-> 0]
        /\ life = [p \in Places |-> "none"]
    BY Zenon DEF Init
  <2> QED BY <2>1
<1>3. /\ simUid \in Nat /\ modelTime \in Nat /\ stopTime \in Nat
      /\ at \in Places /\ tries \in 0..RetryCount /\ tries # 0
  BY <1>1, RunAssumption DEF Places
<1>4. /\ phase \in {"parse", "configure"} <=> file = << >>
      /\ phase \in {"parse", "configure", "endpoint", "uids", "init", "done", "dead"}
      /\ kind \in {"none", "message", "loopback"}
      /\ left \in {"no", "stop", "timeout", "model", "end"}
      /\ stop \in BOOLEAN /\ stopRequest \in BOOLEAN
  BY <1>1
<1> QED BY <1>1, <1>2, <1>3, <1>4 DEF TypeOK

LEMMA AssignType ==
  ASSUME TypeOK, AssignUids
  PROVE  TypeOK'
<1> DEFINE given == { p \in 1..N : uid[p] # 0 }
           base  == IF given = {} THEN simUid ELSE uid[Min(given)]
<1>0. /\ simUid' = base
      /\ uid' = [p \in Places |-> IF p <= N /\ uid[p] = 0
                                THEN (p - 1) * 10000 + base ELSE uid[p]]
  BY DEF AssignUids
<1>1. /\ phase = "uids" /\ phase' = "init"
      /\ UNCHANGED <<file, tries, kind, at, stopRequest, stop, life, steps,
                     modelTime, stopTime, left>>
  <2> HIDE DEF given, base
  <2> QED BY DEF AssignUids, Becomes, modelVars, timeVars
<1>2. base \in Nat
  BY <1>1, AssignedUid
<1> HIDE DEF given, base
<1>3. simUid' \in Nat
  BY <1>0, <1>2
<1>4. uid \in [Places -> Nat]
  BY DEF TypeOK
<1>5. uid' \in [Places -> Nat]
  BY <1>0, <1>2, <1>4, RunAssumption DEF Places
<1>6. /\ phase' \in {"parse", "configure", "endpoint", "uids", "init", "done", "dead"}
      /\ phase' \notin {"parse", "configure", "endpoint"}
      /\ file # << >>
  BY <1>1 DEF TypeOK
<1> HIDE DEF TypeOK
<1>7. N' = N
  BY <1>1 DEF N
<1> QED BY <1>1, <1>3, <1>5, <1>6, <1>7 DEF TypeOK

LEMMA SetupType ==
  ASSUME TypeOK, Place, ParseArguments \/ Configure \/ CreateEndpoint \/ AssignUids
                 \/ InitController
  PROVE  TypeOK'
<1> USE RunAssumption DEF TypeOK, HasController, Becomes
<1>1. CASE ParseArguments
  BY <1>1 DEF ParseArguments, modelVars, timeVars, N
<1>2. CASE Configure
  <2>1. /\ phase = "configure" /\ phase' \in {"dead", "endpoint"}
        /\ file' \in Files
        /\ uid' = [p \in Places |-> IF p <= Len(file') THEN ConfiguredUid(file'[p]) ELSE 0]
        /\ UNCHANGED <<simUid, tries, kind, at, stopRequest, stop, life, steps,
                       modelTime, stopTime, left>>
    BY <1>2, Zenon DEF Configure, modelVars, timeVars
  <2>2. Len(file') \in 1..MaxInstances /\ file' # << >>
    BY <2>1
  <2>3. uid' \in [Places -> Nat]
    BY <2>1, <2>2 DEF ConfiguredUid, Places
  <2>4. at' <= N'
    BY <2>1, <2>2 DEF N, Place, Setup
  <2>5. /\ phase' \in {"parse", "configure", "endpoint", "uids", "init", "done", "dead"}
        /\ ~(phase' \in {"parse", "configure"})
    BY <2>1
  <2> QED BY <2>1, <2>2, <2>3, <2>4, <2>5
<1>3. CASE CreateEndpoint
  BY <1>3 DEF CreateEndpoint, Created, EndpointUid, modelVars, timeVars, N
<1>4. CASE AssignUids
  BY <1>4, AssignType
<1>5. CASE InitController
  BY <1>5 DEF InitController, setupVars, modelVars, timeVars, N
<1> QED BY <1>1, <1>2, <1>3, <1>4, <1>5

\* What LoadModel does, whatever the files say.
LoadOutcome ==
  /\ phase = "load"
  /\ \/ phase' = "dead" /\ at' = at /\ life' = life
     \/ phase' = "connect" /\ at' = 1 /\ life' = life
     \/ /\ life' = [life EXCEPT ![at] = "created"]
        /\ NextInstance("connect") \/ (phase' = "dead" /\ at' = at)
  /\ UNCHANGED <<setupVars, stopRequest, stop, steps, timeVars>>

LEMMA LoadModelFacts == LoadModel => LoadOutcome
<1> SUFFICES ASSUME LoadModel PROVE LoadOutcome
  OBVIOUS
<1>1. phase = "load" /\ UNCHANGED <<setupVars, stopRequest, stop, steps, timeVars>>
  BY Zenon DEF LoadModel
<1>2. \/ phase' = "dead" /\ at' = at /\ life' = life
      \/ phase' = "connect" /\ at' = 1 /\ life' = life
      \/ /\ life' = [life EXCEPT ![at] = "created"]
         /\ NextInstance("connect") \/ (phase' = "dead" /\ at' = at)
  BY Zenon DEF LoadModel, Becomes
<1> QED BY <1>1, <1>2, Zenon DEF LoadOutcome

LEMMA LoadType ==
  ASSUME TypeOK, LoadModel
  PROVE  TypeOK'
<1>1. LoadOutcome
  BY LoadModelFacts
<1>2. /\ phase = "load" /\ file' = file
      /\ UNCHANGED <<simUid, uid, tries, kind, stopRequest, stop, steps,
                     modelTime, stopTime, left>>
  BY <1>1 DEF LoadOutcome, setupVars, timeVars
<1>3. /\ file # << >> /\ at \in Places /\ at <= N
      /\ life \in [Places -> {"none", "created", "destroyed"}]
  BY <1>2 DEF TypeOK
<1>4. N' = N /\ N \in Nat /\ 1 <= N /\ N <= MaxInstances
  BY <1>2, <1>3, InstanceCount DEF N
<1>5. life' \in [Places -> {"none", "created", "destroyed"}]
  BY <1>1, <1>3 DEF LoadOutcome
<1>6. phase' \in {"dead", "connect", "load"}
  BY <1>1, <1>2 DEF LoadOutcome, NextInstance, Becomes
<1>7. at' = at \/ at' = 1 \/ (at < N /\ at' = at + 1)
  BY <1>1 DEF LoadOutcome, NextInstance
<1>8. at' \in Places /\ at' <= N'
  BY <1>3, <1>4, <1>7, RunAssumption DEF Places
<1>9. phase' \in {"done", "dead"} \/ HasController'
  BY <1>6 DEF HasController
<1> QED BY <1>2, <1>3, <1>5, <1>6, <1>8, <1>9 DEF TypeOK

LEMMA DestroyType ==
  ASSUME TypeOK, DestroyModel
  PROVE  TypeOK'
<1>1. /\ phase = "exit" /\ phase' \in {"exit", "done"} /\ file' = file
      /\ life' = [life EXCEPT ![at] = IF @ = "created" THEN "destroyed" ELSE @]
      /\ at' = 1 \/ (at < N /\ at' = at + 1)
      /\ UNCHANGED <<simUid, uid, tries, kind, stopRequest, stop, steps,
                     modelTime, stopTime, left>>
  BY DEF DestroyModel, NextInstance, Becomes, setupVars, timeVars
<1>2. /\ file # << >> /\ at \in Places /\ at <= N
      /\ life \in [Places -> {"none", "created", "destroyed"}]
  BY <1>1 DEF TypeOK
<1>3. N' = N /\ N \in Nat /\ 1 <= N /\ N <= MaxInstances
  BY <1>1, <1>2, InstanceCount DEF N
<1>4. life' \in [Places -> {"none", "created", "destroyed"}]
  BY <1>1, <1>2
<1>5. at' \in Places /\ at' <= N'
  BY <1>1, <1>2, <1>3, RunAssumption DEF Places
<1>6. phase' = "done" \/ HasController'
  BY <1>1 DEF HasController
<1> QED BY <1>1, <1>2, <1>4, <1>5, <1>6 DEF TypeOK

\* The phases after the set-up leave it alone.
LEMMA RunType ==
  ASSUME TypeOK, Place,
         LoadModel \/ Connect \/ Register \/ CheckStop \/ Start
           \/ StartInterrupted \/ StartTimeout \/ DestroyModel \/ Signal
  PROVE  TypeOK'
<1>1. CASE LoadModel
  BY <1>1, LoadType
<1> USE DEF TypeOK, HasController, Becomes, N
<1>2. CASE Connect
  BY <1>2 DEF Connect, setupVars, modelVars, timeVars
<1>3. CASE Register
  BY <1>3 DEF Register, setupVars, modelVars, timeVars
<1>4. CASE CheckStop
  BY <1>4 DEF CheckStop, setupVars, modelVars, timeVars
<1>5. CASE Start
  BY <1>5, RunAssumption DEF Start, setupVars, modelVars, timeVars
<1>6. CASE StartInterrupted
  BY <1>6 DEF StartInterrupted, setupVars, modelVars, timeVars
<1>7. CASE StartTimeout
  BY <1>7 DEF StartTimeout, setupVars, modelVars, timeVars
<1>8. CASE DestroyModel
  BY <1>8, DestroyType
<1>9. CASE Signal
  BY <1>9 DEF Signal, setupVars, modelVars, timeVars
<1> QED BY <1>1, <1>2, <1>3, <1>4, <1>5, <1>6, <1>7, <1>8, <1>9

\* What StepModel does, since the return code of the model is dropped.
LEMMA StepModelFacts ==
  ASSUME TypeOK, StepModel
  PROVE  /\ phase = "step"
         /\ steps' = IF life[at] = "created" THEN [steps EXCEPT ![at] = @ + 1] ELSE steps
         /\ modelTime' = stopTime
         /\ UNCHANGED <<setupVars, stopRequest, stop, life, stopTime>>
         /\ \/ /\ at < N /\ at' = at + 1 /\ phase' = "step" /\ left' = left
            \/ /\ at = N /\ at' = 1
               /\ phase' = IF EndReached(stopTime) THEN "exit" ELSE "run"
               /\ left' = IF EndReached(stopTime) THEN "end" ELSE left
  BY DEF StepModel, DoStep, Becomes

LEMMA StepModelType ==
  ASSUME TypeOK, Place, StepModel
  PROVE  TypeOK'
<1> USE RunAssumption
<1>1. /\ steps \in [Places -> Nat] /\ at \in Places /\ at <= N
      /\ N \in Nat /\ N <= MaxInstances /\ left \in {"no", "stop", "timeout", "model", "end"}
      /\ stopTime \in Nat
  BY StepModelFacts, InstanceCount DEF TypeOK, HasController
<1>2. /\ steps' = IF life[at] = "created" THEN [steps EXCEPT ![at] = @ + 1] ELSE steps
      /\ modelTime' = stopTime
      /\ UNCHANGED <<setupVars, stopRequest, stop, life, stopTime>>
      /\ phase = "step" /\ phase' \in {"step", "exit", "run"}
      /\ left' \in {left, "end"}
      /\ at' = 1 \/ (at < N /\ at' = at + 1)
  BY StepModelFacts
<1>3. steps' \in [Places -> Nat]
  BY <1>1, <1>2
<1>4. at' \in Places /\ at' <= N
  BY <1>1, <1>2 DEF Places
<1>5. N' = N
  BY <1>2 DEF setupVars, N
<1>6. left' \in {"no", "stop", "timeout", "model", "end"} /\ modelTime' \in Nat
  BY <1>1, <1>2
<1> QED BY <1>2, <1>3, <1>4, <1>5, <1>6 DEF TypeOK, HasController, setupVars

-----------------------------------------------------------------------------
\* The set-up does not touch the models and their times.
SetupMove ==
  /\ phase \in Setup /\ phase' \in Setup \cup {"load", "dead"}
  /\ phase' \in {"configure", "dead"} \/ StepSize <= EndTime
                                     \/ phase \notin {"parse", "configure"}
  /\ UNCHANGED <<at, life, steps, stopTime, left>>

LEMMA SetupMoves ==
  ParseArguments \/ Configure \/ CreateEndpoint \/ AssignUids \/ InitController
    => SetupMove
<1> USE DEF SetupMove, Setup, Becomes
<1>1. ParseArguments => SetupMove
  BY DEF ParseArguments, modelVars, timeVars
<1>2. Configure => SetupMove
  <2>1. ASSUME Configure
        PROVE  /\ phase = "configure"
               /\ phase' = "dead" \/ (phase' = "endpoint" /\ ~(StepSize > EndTime))
               /\ UNCHANGED <<at, modelVars, timeVars>>
    BY <2>1, Zenon DEF Configure
  <2> QED BY <2>1, RunAssumption DEF modelVars, timeVars
<1>3. CreateEndpoint => SetupMove
  <2>1. ASSUME CreateEndpoint
        PROVE  /\ phase = "endpoint"
               /\ phase' \in {"uids", "dead", "endpoint"}
               /\ UNCHANGED <<at, modelVars, timeVars>>
    BY <2>1, Zenon DEF CreateEndpoint
  <2> QED BY <2>1 DEF modelVars, timeVars
<1>4. AssignUids => SetupMove
  BY DEF AssignUids, modelVars, timeVars
<1>5. InitController => SetupMove
  BY DEF InitController, modelVars, timeVars
<1> QED BY <1>1, <1>2, <1>3, <1>4, <1>5

LEMMA PlaceStep ==
  ASSUME TypeOK, Place, Next
  PROVE  Place'
<1> USE DEF Place, Setup, Between, Becomes
<1>1. CASE SetupMove
  BY <1>1 DEF SetupMove
<1>2. CASE LoadModel
  BY <1>2, LoadModelFacts DEF LoadOutcome, NextInstance, timeVars
<1>3. CASE Connect \/ Register
  BY <1>3 DEF Connect, Register, timeVars
<1>4. CASE CheckStop \/ Start \/ StartInterrupted \/ StartTimeout
  BY <1>4 DEF CheckStop, Start, StartInterrupted, StartTimeout, timeVars
<1>5. CASE StepModel
  BY <1>5, StepModelFacts
<1>6. CASE DestroyModel
  BY <1>6 DEF DestroyModel, NextInstance, timeVars
<1>7. CASE Signal
  BY <1>7 DEF Signal, timeVars
<1> QED BY <1>1, <1>2, <1>3, <1>4, <1>5, <1>6, <1>7, SetupMoves, Zenon DEF Next, Process

LEMMA LivesStep ==
  ASSUME TypeOK, Place, Lives, Next
  PROVE  Lives'
<1> USE DEF Lives, Living, Setup, Between, Becomes
<1>0. phase \notin Setup => N \in Nat /\ at \in Places /\ at <= N
  BY InstanceCount DEF TypeOK
<1>1. CASE SetupMove
  BY <1>1 DEF SetupMove, Place, Places
<1>2. CASE LoadModel
  <2>1. LoadOutcome
    BY <1>2, LoadModelFacts
  <2>2. /\ phase = "load" /\ N' = N
        /\ \A p \in Places : life[p] = IF p < at THEN "created" ELSE "none"
    BY <2>1 DEF LoadOutcome, setupVars, N
  <2>3. CASE life' = life /\ phase' \in {"dead", "connect"}
    BY <2>2, <2>3, <1>0 DEF Places
  <2>4. CASE life' = [life EXCEPT ![at] = "created"]
    <3>1. \A p \in Places : life'[p] = IF p < at + 1 THEN "created" ELSE "none"
      BY <2>2, <2>4, <1>0 DEF Places, TypeOK
    <3>2. \/ phase' = "dead"
          \/ phase' = "load" /\ at' = at + 1
          \/ phase' = "connect"
      BY <2>1, <2>2 DEF LoadOutcome, NextInstance
    <3>3. \A p \in Living' : p <= N'
      BY <3>1, <2>2, <1>0 DEF Places
    <3> QED BY <3>1, <3>2, <3>3
  <2> QED BY <2>1, <2>3, <2>4 DEF LoadOutcome
<1>3. CASE Connect \/ Register
  BY <1>3 DEF Connect, Register, setupVars, modelVars, N
<1>4. CASE CheckStop \/ Start \/ StartInterrupted \/ StartTimeout
  <2>1. /\ phase \in {"run", "ready"} /\ phase' \in {"exit", "ready", "step"}
        /\ life' = life /\ N' = N /\ at' = at /\ at = 1
    BY <1>4 DEF CheckStop, Start, StartInterrupted, StartTimeout, Place,
                setupVars, modelVars, N
  <2> QED BY <2>1 DEF Places
<1>5. CASE StepModel
  <2>1. /\ phase = "step" /\ life' = life /\ N' = N
        /\ phase' \in {"step", "run"} \/ (phase' = "exit" /\ at' = 1)
    BY <1>5, StepModelFacts DEF setupVars, N
  <2> QED BY <2>1 DEF Places
<1>6. CASE DestroyModel
  <2>1. /\ phase = "exit" /\ N' = N
        /\ life' = [life EXCEPT ![at] = IF @ = "created" THEN "destroyed" ELSE @]
        /\ phase' = "done" \/ (phase' = "exit" /\ at' = at + 1)
    BY <1>6 DEF DestroyModel, NextInstance, setupVars, N
  <2>2. \A p \in Places : /\ p # at => life'[p] = life[p]
                          /\ p = at => life'[p] # "created"
                          /\ life'[p] = "none" <=> life[p] = "none"
    BY <2>1, <1>0 DEF TypeOK
  <2>3. ASSUME phase' = "exit", NEW p \in Places
        PROVE  (p < at' => life'[p] # "created") /\ (p >= at' => life'[p] # "destroyed")
    <3>1. at' = at + 1 /\ p \in Nat /\ at \in Nat
      BY <2>1, <2>3, <1>0 DEF Places
    <3>2. (p < at => life[p] # "created") /\ (p >= at => life[p] # "destroyed")
      BY <2>1
    <3> QED BY <2>2, <3>1, <3>2
  <2>4. \A p \in Living' : p <= N'
    BY <2>1, <2>2
  <2>5. phase' \notin Setup \cup Between \cup {"load", "step"}
    BY <2>1
  <2> QED BY <2>3, <2>4, <2>5
<1>7. CASE Signal
  BY <1>7 DEF Signal, setupVars, modelVars, N
<1> QED BY <1>1, <1>2, <1>3, <1>4, <1>5, <1>6, <1>7, SetupMoves, Zenon DEF Next, Process

-----------------------------------------------------------------------------
\* A model that is stepped gets ahead of those after it, and all are level
\* again when the last one has been.
LEMMA StepModelRound ==
  ASSUME TypeOK, Lives, StepModel, NEW p \in Living
  PROVE  /\ Living' = Living
         /\ steps[p] - Ahead(p) \in Int
         /\ steps'[p] - Ahead(p)' = IF at < N THEN steps[p] - Ahead(p)
                                              ELSE steps[p] - Ahead(p) + 1
<1>1. /\ phase = "step" /\ p \in Places /\ p <= N
      /\ at \in Places /\ N \in Nat /\ at <= N
      /\ steps \in [Places -> Nat]
      /\ life[at] = "created" <=> at \in Living
  BY StepModelFacts, InstanceCount DEF TypeOK, Lives, Living, Between, Setup
<1>2. /\ life' = life
      /\ steps' = IF life[at] = "created" THEN [steps EXCEPT ![at] = @ + 1] ELSE steps
      /\ \/ at < N /\ at' = at + 1 /\ phase' = "step"
         \/ at = N /\ phase' # "step"
  BY StepModelFacts
<1>3. steps'[p] = IF p = at THEN steps[p] + 1 ELSE steps[p]
  BY <1>1, <1>2
<1>4. Living' = Living
  BY <1>2 DEF Living
<1>5. steps[p] \in Nat /\ p \in Nat /\ at \in Nat
  BY <1>1, RunAssumption DEF Places
<1> QED BY <1>1, <1>2, <1>3, <1>4, <1>5 DEF Ahead

LEMMA RoundsStep ==
  ASSUME TypeOK, Place, Lives, Rounds, Next
  PROVE  Rounds'
<1> USE DEF Rounds, Living, Setup, Becomes
<1>1. CASE SetupMove
  BY <1>1 DEF SetupMove, Lives
<1>2. CASE LoadModel
  <2>1. /\ phase = "load" /\ phase' # "step" /\ steps' = steps
    BY <1>2, LoadModelFacts DEF LoadOutcome, NextInstance
  <2> QED BY <2>1 DEF Ahead
<1>3. CASE Connect \/ Register \/ CheckStop \/ Start \/ StartInterrupted \/ StartTimeout
  <2>1. /\ phase \in Between /\ phase' \notin Setup \cup {"load"}
        /\ steps' = steps /\ life' = life /\ at' = at /\ at = 1
    BY <1>3 DEF Connect, Register, CheckStop, Start, StartInterrupted, StartTimeout,
                modelVars, Between, Place
  <2>2. \A p \in Places : Ahead(p) = 0 /\ Ahead(p)' = 0
    BY <2>1 DEF Ahead, Between, Places
  <2> QED BY <2>1, <2>2 DEF Between
<1>4. CASE StepModel
  <2>1. phase = "step" /\ phase' \in {"step", "run", "exit"}
    BY <1>4, StepModelFacts
  <2>2. \A p \in Living :
          /\ Living' = Living
          /\ steps[p] - Ahead(p) \in Int
          /\ steps'[p] - Ahead(p)' = IF at < N THEN steps[p] - Ahead(p)
                                               ELSE steps[p] - Ahead(p) + 1
    BY <1>4, StepModelRound
  <2>3. Living' = Living
    BY <1>4, StepModelFacts
  <2>4. ASSUME NEW p \in Living', NEW q \in Living'
        PROVE  (steps[p] - Ahead(p))' = (steps[q] - Ahead(q))'
    <3>1. steps[p] - Ahead(p) = steps[q] - Ahead(q)
      BY <2>1, <2>3
    <3> HIDE DEF Rounds, Living
    <3> QED BY <2>2, <2>3, <3>1
  <2> HIDE DEF Living
  <2> QED BY <2>1, <2>4
<1>5. CASE DestroyModel
  <2>1. /\ phase = "exit" /\ phase' \in {"exit", "done"} /\ steps' = steps
        /\ life' = [life EXCEPT ![at] = IF @ = "created" THEN "destroyed" ELSE @]
    BY <1>5 DEF DestroyModel, NextInstance
  <2>2. Living' = Living
    BY <2>1 DEF TypeOK
  <2> QED BY <2>1, <2>2 DEF Ahead
<1>6. CASE Signal
  BY <1>6 DEF Signal, modelVars, Ahead
<1> QED BY <1>1, <1>2, <1>3, <1>4, <1>5, <1>6, SetupMoves, Zenon DEF Next, Process

-----------------------------------------------------------------------------
LEMMA ClockStep ==
  ASSUME TypeOK, Place, Lives, Rounds, Clock, Next
  PROVE  Clock'
<1> USE RunAssumption DEF Clock, Living, Setup, Between, Becomes
<1>1. CASE SetupMove
  BY <1>1 DEF SetupMove
<1>2. CASE LoadModel
  <2>1. /\ phase = "load" /\ phase' \in {"load", "connect", "dead"}
        /\ steps' = steps /\ stopTime' = stopTime
        /\ \A p \in Places : steps[p] = 0
    BY <1>2, LoadModelFacts DEF LoadOutcome, NextInstance, timeVars, Rounds
  <2> QED BY <2>1
<1>3. CASE Connect \/ Register \/ CheckStop \/ StartTimeout
  BY <1>3 DEF Connect, Register, CheckStop, StartTimeout, modelVars, timeVars
<1>4. CASE StartInterrupted
  BY <1>4 DEF StartInterrupted, modelVars, timeVars
<1>5. CASE Start
  <2>1. /\ phase = "ready" /\ phase' = "step" /\ stopTime' = stopTime + StepSize
        /\ steps' = steps /\ life' = life /\ at' = 1
    BY <1>5 DEF Start, modelVars, Place
  <2>2. \A p \in Living : /\ Ahead(p)' = 0 /\ steps[p] \in Nat
                          /\ stopTime = steps[p] * StepSize
    BY <2>1 DEF Ahead, Places, TypeOK
  <2>3. \A p \in Living : stopTime' = (steps'[p] - Ahead(p)' + 1) * StepSize
    BY <2>1, <2>2
  <2>4. Living' = Living
    BY <2>1
  <2>5. stopTime \in Nat
    BY DEF TypeOK
  <2> QED BY <2>1, <2>3, <2>4, <2>5
<1>6. CASE StepModel
  <2>1. /\ phase = "step" /\ stopTime' = stopTime /\ stop' = stop
        /\ \/ at < N /\ phase' = "step"
           \/ at = N /\ phase' = IF EndReached(stopTime) THEN "exit" ELSE "run"
    BY <1>6, StepModelFacts
  <2>2. \A p \in Living :
          /\ Living' = Living
          /\ steps[p] - Ahead(p) \in Int
          /\ steps'[p] - Ahead(p)' = IF at < N THEN steps[p] - Ahead(p)
                                               ELSE steps[p] - Ahead(p) + 1
    BY <1>6, StepModelRound
  <2>3. Living' = Living
    BY <1>6, StepModelFacts
  <2>4. CASE at < N
    <3>1. \A p \in Living' : (steps[p] - Ahead(p))' = steps[p] - Ahead(p)
      <4> HIDE DEF Living
      <4> QED BY <2>2, <2>3, <2>4
    <3>2. phase' = "step"
      BY <2>1, <2>4, InstanceCount DEF TypeOK
    <3> QED BY <2>1, <2>3, <3>1, <3>2
  <2>5. CASE at = N /\ EndReached(stopTime)
    BY <2>1, <2>5, InstanceCount DEF TypeOK
  <2>6. CASE at = N /\ ~EndReached(stopTime)
    <3>1. phase' = "run" /\ stopTime' <= EndTime
      BY <2>1, <2>6, InstanceCount DEF TypeOK, EndReached
    <3>2. \A p \in Living' : steps'[p] = steps[p] - Ahead(p) + 1
      <4>1. \A p \in Living' : /\ steps'[p] \in Int /\ Ahead(p)' = 0
                               /\ steps'[p] - Ahead(p)' = steps[p] - Ahead(p) + 1
        <5>1. steps' \in [Places -> Nat]
          BY <1>6, StepModelType DEF TypeOK
        <5>2. \A p \in Living' : Ahead(p)' = 0 /\ steps'[p] \in Int
          BY <3>1, <5>1 DEF Ahead
        <5>3. ~(at < N)
          BY <2>6, InstanceCount DEF TypeOK
        <5> HIDE DEF Living
        <5> QED BY <2>2, <2>3, <5>2, <5>3
      <4> QED BY <4>1
    <3> QED BY <2>1, <2>3, <3>1, <3>2
  <2> QED BY <2>1, <2>4, <2>5, <2>6
<1>7. CASE DestroyModel
  BY <1>7 DEF DestroyModel, NextInstance
<1>8. CASE Signal
  BY <1>8 DEF Signal, modelVars, timeVars, HasController, Ahead
<1> QED BY <1>1, <1>2, <1>3, <1>4, <1>5, <1>6, <1>7, <1>8, SetupMoves, Zenon
       DEF Next, Process

\* The number of steps that lead past an end time.
LEMMA StepsPast ==
  ASSUME NEW k \in Int, NEW e \in Nat, NEW s \in Nat \ {0},
         e < k * s, k * s - s <= e
  PROVE  k = e \div s + 1
<1> DEFINE q == e \div s
<1>1. q \in Int /\ q * s <= e /\ e < (q + 1) * s
  OBVIOUS
<1> HIDE DEF q
<1>2. k * s - s = (k - 1) * s
  OBVIOUS
<1>3. ~(k < q + 1)
  <2>1. SUFFICES ASSUME k <= q PROVE FALSE
    BY <1>1
  <2>2. k * s <= q * s
    BY <1>1, <2>1
  <2> QED BY <1>1, <2>2
<1>4. ~(k > q + 1)
  <2>1. SUFFICES ASSUME k - 1 >= q + 1 PROVE FALSE
    BY <1>1
  <2>2. (k - 1) * s >= (q + 1) * s
    BY <1>1, <2>1
  <2> QED BY <1>1, <1>2, <2>2
<1> QED BY <1>1, <1>3, <1>4 DEF q

LEMMA EndStep ==
  ASSUME TypeOK, Place, Lives, Rounds, Clock, StepsToEnd, Next
  PROVE  StepsToEnd'
<1> SUFFICES ASSUME left' = "end", NEW p \in (1..N)', life'[p] # "none"
             PROVE  steps'[p] = EndTime \div StepSize + 1
  BY DEF StepsToEnd
<1>1. CASE left = "end"
  <2>1. phase \in {"exit", "done"}
    BY <1>1 DEF Place
  <2>2. /\ steps' = steps /\ N' = N /\ (life[p] = "none" => life'[p] = "none")
    <3>1. CASE DestroyModel
      BY <3>1 DEF DestroyModel, setupVars, N, TypeOK
    <3>2. CASE Signal
      BY <3>2 DEF Signal, setupVars, modelVars, N
    <3> QED BY <2>1, <3>1, <3>2, SetupMoves DEF SetupMove, Setup, Next, Process,
              LoadModel, Connect, Register, CheckStop, Start, StartInterrupted,
              StartTimeout, StepModel
  <2> QED BY <1>1, <2>2 DEF StepsToEnd
<1>2. CASE left # "end"
  <2>1. StepModel
    BY <1>2, SetupMoves, LoadModelFacts
       DEF SetupMove, LoadOutcome, Next, Process, Connect, Register, CheckStop, Start,
           StartInterrupted, StartTimeout, DestroyModel, Signal, timeVars
  <2>2. /\ phase = "step" /\ phase' = "exit" /\ at = N /\ EndReached(stopTime)
        /\ life' = life /\ N' = N
    BY <1>2, <2>1, StepModelFacts DEF setupVars, N
  <2>3. p \in Living
    <3>1. N \in Nat /\ N <= MaxInstances
      BY <2>2, InstanceCount DEF TypeOK
    <3> QED BY <2>2, <3>1, RunAssumption DEF Living, Places
  <2>4. /\ steps[p] - Ahead(p) \in Int
        /\ steps'[p] - Ahead(p)' = steps[p] - Ahead(p) + 1
    BY <2>1, <2>2, <2>3, StepModelRound, InstanceCount DEF TypeOK
  <2>5. steps'[p] = steps[p] - Ahead(p) + 1
    <3>1. steps'[p] \in Int
      BY <2>1, <2>2, <2>3, StepModelType DEF TypeOK, Living
    <3>2. Ahead(p)' = 0
      BY <2>2 DEF Ahead
    <3> QED BY <2>4, <3>1, <3>2
  <2>6. EndTime < stopTime /\ stopTime \in Nat
    BY <2>2 DEF EndReached, TypeOK
  <2>7. stopTime - StepSize <= EndTime /\ stopTime = steps'[p] * StepSize
    BY <2>2, <2>3, <2>5, <2>6, RunAssumption DEF Clock
  <2> QED BY <2>4, <2>5, <2>6, <2>7, StepsPast, RunAssumption
<1> QED BY <1>1, <1>2

-----------------------------------------------------------------------------
LEMMA IInvInit == Init => IInv
<1> SUFFICES ASSUME Init PROVE IInv
  OBVIOUS
<1>1. TypeOK
  BY InitType
<1>2. /\ phase = "parse" /\ at = 1 /\ left = "no" /\ stopTime = 0
      /\ life = [p \in Places |-> "none"] /\ steps = [p \in Places |-> 0]
  BY Zenon DEF Init
<1>3. Place /\ Lives /\ Rounds /\ Clock /\ StepsToEnd
  BY <1>2, RunAssumption DEF Place, Lives, Rounds, Clock, StepsToEnd, Living, Ahead, Setup,
                             Between
<1> QED BY <1>1, <1>3 DEF IInv

LEMMA TypeStep ==
  ASSUME TypeOK, Place, Next
  PROVE  TypeOK'
  BY SetupType, RunType, StepModelType, Zenon DEF Next, Process

LEMMA IInvStep == IInv /\ [Next]_vars => IInv'
<1> SUFFICES ASSUME IInv, [Next]_vars PROVE IInv'
  OBVIOUS
<1>1. CASE Next
  BY <1>1, TypeStep, PlaceStep, LivesStep, RoundsStep, ClockStep, EndStep, Zenon DEF IInv
<1>2. CASE UNCHANGED vars
  BY <1>2 DEF IInv, TypeOK, Place, Lives, Rounds, Clock, StepsToEnd, Living, Ahead, N,
              HasController, vars, setupVars, modelVars, timeVars
<1> QED BY <1>1, <1>2

LEMMA Invariant == Spec => []IInv
<1> QED BY IInvInit, IInvStep, PTL DEF Spec

\* A process has the types of TypeOK, whatever its settings, files and endpoint.
THEOREM RunTypeCorrect == Spec => []TypeOK
<1>1. IInv => TypeOK
  BY DEF IInv
<1> QED BY <1>1, Invariant, PTL

\* A run that is left because of its end time (controller_step) has made one
\* step for each step size in it and one more, with any models and return codes.
THEOREM EndIsReached == Spec => []StepsToEnd
<1>1. IInv => StepsToEnd
  BY DEF IInv
<1> QED BY <1>1, Invariant, PTL

-----------------------------------------------------------------------------
LEMMA ContractStep ==
  ASSUME IInv, Next
  PROVE  Contract!ContractNext \/ UNCHANGED <<life, steps>>
<1> USE DEF IInv, Living, Setup, Between
<1>0. phase \notin Setup => at \in Places /\ at <= N /\ N \in Nat
  BY InstanceCount DEF TypeOK
<1>1. CASE SetupMove
  BY <1>1 DEF SetupMove
<1>2. CASE LoadModel
  <2>1. /\ phase = "load" /\ steps' = steps
        /\ life' = life \/ life' = [life EXCEPT ![at] = "created"]
    BY <1>2, LoadModelFacts DEF LoadOutcome
  <2>2. CASE life' = [life EXCEPT ![at] = "created"]
    <3>1. Contract!Create(at)
      BY <2>1, <2>2, <1>0 DEF Contract!Create, Lives, Rounds, Places
    <3> QED BY <2>1, <3>1, <1>0 DEF Contract!ContractNext
  <2> QED BY <2>1, <2>2
<1>3. CASE Connect \/ Register \/ CheckStop \/ Start \/ StartInterrupted \/ StartTimeout \/ Signal
  BY <1>3 DEF Connect, Register, CheckStop, Start, StartInterrupted, StartTimeout, Signal,
              modelVars
<1>4. CASE StepModel
  <2>1. /\ phase = "step" /\ life' = life
        /\ steps' = IF life[at] = "created" THEN [steps EXCEPT ![at] = @ + 1] ELSE steps
    BY <1>4, StepModelFacts
  <2>2. CASE life[at] = "created"
    <3>1. \A n \in Places : life[n] # "destroyed"
      BY <2>1 DEF Lives
    <3>2. ASSUME NEW n \in Contract!Alive
          PROVE  IF n < at THEN steps[n] = steps[at] + 1 ELSE steps[n] = steps[at]
      <4>1. n \in Living /\ at \in Living /\ n \in Places
        BY <2>1, <2>2, <3>2, <1>0 DEF Contract!Alive
      <4>2. steps[n] - Ahead(n) = steps[at] - Ahead(at)
        BY <2>1, <4>1 DEF Rounds
      <4>3. steps[n] \in Nat /\ steps[at] \in Nat /\ n \in Nat /\ at \in Nat
        BY <2>1, <4>1, <1>0 DEF TypeOK, Places
      <4> QED BY <2>1, <4>2, <4>3 DEF Ahead
    <3>3. Contract!Step(at)
      BY <2>1, <2>2, <3>1, <3>2 DEF Contract!Step
    <3> QED BY <2>1, <3>3, <1>0 DEF Contract!ContractNext
  <2> QED BY <2>1, <2>2
<1>5. CASE DestroyModel
  <2>1. /\ phase = "exit" /\ steps' = steps
        /\ life' = [life EXCEPT ![at] = IF @ = "created" THEN "destroyed" ELSE @]
    BY <1>5 DEF DestroyModel
  <2>2. CASE life[at] = "created"
    <3>1. Contract!BetweenRounds
      <4>1. ASSUME NEW m \in Living, NEW n \in Living PROVE steps[m] = steps[n]
        <5>1. steps[m] - Ahead(m) = steps[n] - Ahead(n)
          BY <2>1 DEF Rounds
        <5> QED BY <2>1, <5>1 DEF Ahead, TypeOK
      <4> QED BY <4>1 DEF Contract!BetweenRounds
    <3>2. Contract!Destroy(at)
      BY <2>1, <2>2, <3>1 DEF Contract!Destroy
    <3> QED BY <2>1, <3>2, <1>0 DEF Contract!ContractNext
  <2>3. CASE life[at] # "created"
    BY <2>1, <2>3, <1>0 DEF TypeOK
  <2> QED BY <2>2, <2>3
<1> QED BY <1>1, <1>2, <1>3, <1>4, <1>5, SetupMoves, Zenon DEF Next, Process

\* The models of a process see the life that ModelContract promises, whatever
\* the files lack, the models return, and whenever a stop is requested.
THEOREM ContractIsKept == Spec => ImplementsContract
<1>1. Init => Contract!ContractInit
  BY Zenon DEF Init, Contract!ContractInit
<1>2. IInv /\ [Next]_vars => [Contract!ContractNext]_<<life, steps>>
  <2>1. UNCHANGED vars => UNCHANGED <<life, steps>>
    BY DEF vars, modelVars
  <2> QED BY <2>1, ContractStep
<1> QED BY <1>1, <1>2, Invariant, PTL
       DEF Spec, ImplementsContract, Contract!ContractSpec, Contract!contractVars

-----------------------------------------------------------------------------
\* The settings.

LEMMA ElseElse ==
  ASSUME NEW a, NEW b, NEW c
  PROVE  Else(Else(a, b), c) = Else(a, Else(b, c)) /\ Else(a, Else(a, b)) = Else(a, b)
  BY DEF Else

\* The settings that a layer leaves.
Settings(t, u, l, o) == [ transport |-> t, uri |-> u, loglevel |-> l, timeout |-> o ]

LEMMA SettingsFields ==
  ASSUME NEW t, NEW u, NEW l, NEW o
  PROVE  /\ Settings(t, u, l, o).transport = t /\ Settings(t, u, l, o).uri = u
         /\ Settings(t, u, l, o).loglevel = l /\ Settings(t, u, l, o).timeout = o
  BY DEF Settings

\* A record of settings of which some change.
LEMMA SettingsChange ==
  ASSUME NEW t, NEW u, NEW l, NEW o, NEW x
  PROVE  /\ [Settings(t, u, l, o) EXCEPT !.transport = x] = Settings(x, u, l, o)
         /\ [Settings(t, u, l, o) EXCEPT !.uri = x] = Settings(t, x, l, o)
         /\ [Settings(t, u, l, o) EXCEPT !.loglevel = x] = Settings(t, u, x, o)
         /\ [Settings(t, u, l, o) EXCEPT !.timeout = x] = Settings(t, u, l, x)
  BY SMT DEF Settings

LEMMA SettingsChanges ==
  ASSUME NEW r, NEW t, NEW u, NEW l, NEW o
  PROVE  /\ [r EXCEPT !.transport = t, !.uri = u, !.timeout = o]
              = [[[r EXCEPT !.transport = t] EXCEPT !.uri = u] EXCEPT !.timeout = o]
         /\ [r EXCEPT !.transport = t, !.uri = u, !.loglevel = l, !.timeout = o]
              = [[[[r EXCEPT !.transport = t] EXCEPT !.uri = u] EXCEPT !.loglevel = l]
                 EXCEPT !.timeout = o]
  BY SMT

\* What the layers leave of each setting, one layer after the other.
LEMMA FromCliFields ==
  ASSUME NEW c, NEW t, NEW u, NEW l, NEW k, c = Settings(t, u, l, k)
  PROVE  \E o : FromCli(c) = Settings(t, u, l, o)
<1>1. PICK o : o = IF c.timeout # Unset /\ c.timeout > 0 THEN c.timeout ELSE Unset
  OBVIOUS
<1>2. FromCli(c) = [c EXCEPT !.timeout = o]
  BY <1>1, SMT DEF FromCli
<1>3. [Settings(t, u, l, k) EXCEPT !.timeout = o] = Settings(t, u, l, o)
  BY SettingsChange
<1>4. FromCli(c) = Settings(t, u, l, o)
  BY <1>2, <1>3
<1> QED BY <1>4

LEMMA StackEnvironmentFields ==
  ASSUME NEW t, NEW u, NEW l, NEW o, NEW s
  PROVE  FromStackEnvironment(Settings(t, u, l, o), s) = Settings(t, u, Else(l, s.loglevel), o)
<1>1. PICK r : r = Settings(t, u, l, o)
  OBVIOUS
<1>2. PICK l1 : l1 = Else(r.loglevel, s.loglevel)
  OBVIOUS
<1>3. FromStackEnvironment(r, s) = [r EXCEPT !.loglevel = l1]
  BY <1>2, SMT DEF FromStackEnvironment
<1>4. [r EXCEPT !.loglevel = l1] = Settings(t, u, l1, o)
  BY <1>1, SettingsChange
<1> QED BY <1>1, <1>2, <1>3, <1>4, SettingsFields

LEMMA EnvironmentFields ==
  ASSUME NEW t, NEW u, NEW l, NEW o, NEW c, NEW e
  PROVE  FromEnvironment(Settings(t, u, l, o), c, e) =
           Settings(Else(t, e.transport), Else(u, e.uri),
                    Else(c.loglevel, Else(e.loglevel, l)),
                    Else(c.timeout, Else(e.timeout, o)))
<1>1. PICK r : r = Settings(t, u, l, o)
  OBVIOUS
<1>2. PICK t1, u1, l1, o1 :
        /\ t1 = Else(r.transport, e.transport) /\ u1 = Else(r.uri, e.uri)
        /\ l1 = Else(c.loglevel, Else(e.loglevel, r.loglevel))
        /\ o1 = Else(c.timeout, Else(e.timeout, r.timeout))
  OBVIOUS
<1>3. FromEnvironment(r, c, e) =
        [r EXCEPT !.transport = t1, !.uri = u1, !.loglevel = l1, !.timeout = o1]
  BY <1>2, SMT DEF FromEnvironment
<1>4. FromEnvironment(r, c, e) = Settings(t1, u1, l1, o1)
  <2>1. [r EXCEPT !.transport = t1] = Settings(t1, u, l, o)
    BY <1>1, SettingsChange
  <2>2. [Settings(t1, u, l, o) EXCEPT !.uri = u1] = Settings(t1, u1, l, o)
    BY SMT DEF Settings
  <2>3. [Settings(t1, u1, l, o) EXCEPT !.loglevel = l1] = Settings(t1, u1, l1, o)
    BY SMT DEF Settings
  <2>4. [Settings(t1, u1, l1, o) EXCEPT !.timeout = o1] = Settings(t1, u1, l1, o1)
    BY SMT DEF Settings
  <2> QED BY <1>3, <2>1, <2>2, <2>3, <2>4, SettingsChanges
<1>5. r.transport = t /\ r.uri = u /\ r.loglevel = l /\ r.timeout = o
  BY <1>1, SettingsFields
<1> QED BY <1>1, <1>2, <1>4, <1>5

LEMMA ConnectionFields ==
  ASSUME NEW t, NEW u, NEW l, NEW o, NEW c, NEW s
  PROVE  LET transport == Else(t, s.transport)
         IN  \E k : FromConnection(Settings(t, u, l, o), c, s) =
               Settings(transport, IF transport \in DOMAIN s.entries
                                   THEN Else(u, s.entries[transport]) ELSE u, l, k)
<1>1. PICK r : r = Settings(t, u, l, o)
  OBVIOUS
<1>2. PICK t1 : t1 = Else(r.transport, s.transport)
  OBVIOUS
<1>3. PICK u1 : u1 = IF t1 \in DOMAIN s.entries THEN Else(r.uri, s.entries[t1]) ELSE r.uri
  OBVIOUS
<1>4. PICK o1 : o1 = Else(c.timeout, Else(s.timeout, r.timeout))
  OBVIOUS
<1>5. FromConnection(r, c, s) = [r EXCEPT !.transport = t1, !.uri = u1, !.timeout = o1]
  BY <1>2, <1>3, <1>4, SMT DEF FromConnection
<1>6. FromConnection(r, c, s) = Settings(t1, u1, l, o1)
  <2>1. [r EXCEPT !.transport = t1] = Settings(t1, u, l, o)
    BY <1>1, SettingsChange
  <2>2. [Settings(t1, u, l, o) EXCEPT !.uri = u1] = Settings(t1, u1, l, o)
    BY SMT DEF Settings
  <2>3. [Settings(t1, u1, l, o) EXCEPT !.timeout = o1] = Settings(t1, u1, l, o1)
    BY SMT DEF Settings
  <2> QED BY <1>5, <2>1, <2>2, <2>3, SettingsChanges
<1>7. r.transport = t /\ r.uri = u
  BY <1>1, SettingsFields
<1> QED BY <1>1, <1>2, <1>3, <1>6, <1>7

LEMMA ResolvedSettings ==
  ASSUME NEW c \in Cli, NEW e, NEW s
  PROVE  LET transport == Else(c.transport, Else(e.transport, s.transport))
             uri == Else(c.uri, e.uri)
         IN  /\ Resolved(c, e, s).transport = Else(transport, DefaultArgs.transport)
             /\ Resolved(c, e, s).uri =
                  Else(IF transport \in DOMAIN s.entries
                       THEN Else(uri, s.entries[transport]) ELSE uri, DefaultArgs.uri)
             /\ Resolved(c, e, s).loglevel =
                  Else(Else(c.loglevel, Else(e.loglevel, Else(c.loglevel, s.loglevel))),
                       DefaultArgs.loglevel)
<1> DEFINE transport == Else(c.transport, Else(e.transport, s.transport))
           uri == Else(c.uri, e.uri)
           loglevel == Else(c.loglevel, Else(e.loglevel, Else(c.loglevel, s.loglevel)))
<1>1. PICK t, u, l, k : /\ t = c.transport /\ u = c.uri /\ l = c.loglevel /\ k = c.timeout
                        /\ c = Settings(t, u, l, k)
  BY LayerAssumption DEF Settings
<1>2. PICK o : FromCli(c) = Settings(t, u, l, o)
  BY <1>1, FromCliFields
<1>3. FromCli(c) = Settings(t, u, l, o) /\ FromCli(c).loglevel = l
  BY <1>2, SettingsFields
<1>4. PICK l1 : l1 = Else(l, s.loglevel)
  OBVIOUS
<1>5. FromStackEnvironment(FromCli(c), s) = Settings(t, u, l1, o)
  BY <1>3, <1>4, StackEnvironmentFields
<1>6. PICK t2, u2, l2, o2 :
        /\ t2 = Else(t, e.transport) /\ u2 = Else(u, e.uri)
        /\ l2 = Else(l, Else(e.loglevel, l1))
        /\ o2 = Else(FromCli(c).timeout, Else(e.timeout, o))
  OBVIOUS
<1>61. FromEnvironment(FromStackEnvironment(FromCli(c), s), FromCli(c), e) =
         Settings(t2, u2, l2, o2)
  BY <1>3, <1>5, <1>6, EnvironmentFields
<1>62. PICK n : FromConnection(Settings(t2, u2, l2, o2), FromCli(c), s) =
         Settings(Else(t2, s.transport),
                  IF Else(t2, s.transport) \in DOMAIN s.entries
                  THEN Else(u2, s.entries[Else(t2, s.transport)]) ELSE u2, l2, n)
  BY ConnectionFields
<1>63. Else(t2, s.transport) = transport /\ u2 = uri /\ l2 = loglevel
  <2>1. Else(t2, s.transport) = transport
    <3>1. t2 = Else(c.transport, e.transport)
      BY <1>1, <1>6
    <3>2. Else(Else(c.transport, e.transport), s.transport) = transport
      BY DEF Else
    <3> QED BY <3>1, <3>2
  <2>2. u2 = uri
    BY <1>1, <1>6
  <2>3. l2 = loglevel
    BY <1>1, <1>4, <1>6
  <2> QED BY <2>1, <2>2, <2>3
<1>64. FromConnection(FromEnvironment(FromStackEnvironment(FromCli(c), s), FromCli(c), e),
                      FromCli(c), s) =
         Settings(transport, IF transport \in DOMAIN s.entries
                             THEN Else(uri, s.entries[transport]) ELSE uri, loglevel, n)
  <2> HIDE DEF transport, uri, loglevel
  <2> QED BY <1>61, <1>62, <1>63
<1>7. \A setting \in DOMAIN DefaultArgs :
        Resolved(c, e, s)[setting] =
          Else(FromConnection(FromEnvironment(FromStackEnvironment(FromCli(c), s), FromCli(c), e),
                              FromCli(c), s)[setting], DefaultArgs[setting])
  BY Zenon DEF Resolved
<1>8. "transport" \in DOMAIN DefaultArgs /\ "uri" \in DOMAIN DefaultArgs
      /\ "loglevel" \in DOMAIN DefaultArgs
  BY DEF DefaultArgs
<1> HIDE DEF transport, uri, loglevel
<1>9. /\ Resolved(c, e, s).transport = Else(transport, DefaultArgs.transport)
      /\ Resolved(c, e, s).uri =
           Else(IF transport \in DOMAIN s.entries
                THEN Else(uri, s.entries[transport]) ELSE uri, DefaultArgs.uri)
      /\ Resolved(c, e, s).loglevel = Else(loglevel, DefaultArgs.loglevel)
  BY <1>64, <1>7, <1>8, SettingsFields
<1> QED BY <1>9 DEF transport, uri, loglevel

\* The layers are there until they are resolved.
SettingsInv ==
  /\ phase = "parse" => cli \in Cli /\ stack \in Stack
  /\ SettingsByPriority

LEMMA ParseSettings ==
  ASSUME SettingsInv, ParseArguments
  PROVE  SettingsByPriority'
<1>1. /\ phase = "parse" /\ cli \in Cli /\ stack \in Stack
      /\ args' = Resolved(cli, env, stack) /\ UNCHANGED <<cli, env, stack>>
  BY DEF SettingsInv, ParseArguments
<1>2. PICK c, e, s : c = cli /\ e = env /\ s = stack /\ c \in Cli /\ s \in Stack
  BY <1>1, Zenon
<1> DEFINE transport == Else(c.transport, Else(e.transport, s.transport))
           uri == Else(c.uri, e.uri)
           entry == IF args'.transport \in DOMAIN s.entries
                    THEN s.entries[args'.transport] ELSE Unset
<1>3. /\ args'.transport = Else(transport, DefaultArgs.transport)
      /\ args'.uri = Else(IF transport \in DOMAIN s.entries
                          THEN Else(uri, s.entries[transport]) ELSE uri, DefaultArgs.uri)
      /\ args'.loglevel =
           Else(Else(c.loglevel, Else(e.loglevel, Else(c.loglevel, s.loglevel))),
                DefaultArgs.loglevel)
  BY <1>1, <1>2, ResolvedSettings
<1>4. args'.transport = Else(c.transport, Else(e.transport, Else(s.transport, DefaultArgs.transport)))
  BY <1>3 DEF Else
<1>5. args'.loglevel = Else(c.loglevel, Else(e.loglevel, Else(s.loglevel, DefaultArgs.loglevel)))
  BY <1>3 DEF Else
<1>6. args'.uri = Else(c.uri, Else(e.uri, Else(entry, DefaultArgs.uri)))
  <2>1. CASE transport = Unset
    <3>0. s.transport = Unset
      BY <2>1 DEF Else
    <3>1. DOMAIN s.entries = {}
      BY <3>0, <1>2, LayerAssumption
    <3> QED BY <1>3, <2>1, <3>1 DEF Else
  <2>2. CASE transport # Unset
    <3>1. args'.transport = transport
      BY <1>3, <2>2 DEF Else
    <3> QED BY <1>3, <3>1 DEF Else
  <2> QED BY <2>1, <2>2
<1> QED BY <1>1, <1>2, <1>4, <1>5, <1>6 DEF SettingsByPriority

\* After the arguments are resolved nothing leads back.
LEMMA NotBack ==
  ASSUME TypeOK, Next, ~ParseArguments
  PROVE  phase' \notin {"parse", "configure"}
<1> USE DEF Becomes
<1>1. CASE Configure
  BY <1>1 DEF Configure
<1>2. CASE CreateEndpoint
  BY <1>2 DEF CreateEndpoint
<1>3. CASE AssignUids \/ InitController
  BY <1>3, Zenon DEF AssignUids, InitController
<1>4. CASE LoadModel
  BY <1>4, LoadModelFacts DEF LoadOutcome, NextInstance
<1>5. CASE Connect \/ Register \/ CheckStop \/ Start \/ StartInterrupted \/ StartTimeout
  BY <1>5 DEF Connect, Register, CheckStop, Start, StartInterrupted, StartTimeout
<1>6. CASE StepModel
  BY <1>6, StepModelFacts
<1>7. CASE DestroyModel
  BY <1>7 DEF DestroyModel, NextInstance
<1>8. CASE Signal
  BY <1>8 DEF Signal, HasController
<1> QED BY <1>1, <1>2, <1>3, <1>4, <1>5, <1>6, <1>7, <1>8, Zenon DEF Next, Process

LEMMA SettingsStep == IInv /\ SettingsInv /\ [Next]_vars => SettingsInv'
<1> SUFFICES ASSUME IInv, SettingsInv, [Next]_vars PROVE SettingsInv'
  OBVIOUS
<1>1. CASE ParseArguments
  <2>1. phase' = "configure"
    BY <1>1 DEF ParseArguments, Becomes
  <2> QED BY <1>1, <2>1, ParseSettings DEF SettingsInv
<1>2. CASE Next /\ ~ParseArguments
  <2>1. phase' # "parse" /\ phase' # "configure"
    BY <1>2, NotBack DEF IInv
  <2> QED BY <2>1 DEF SettingsInv, SettingsByPriority
<1>3. CASE UNCHANGED vars
  BY <1>3, Zenon DEF SettingsInv, SettingsByPriority, vars, setupVars
<1> QED BY <1>1, <1>2, <1>3

LEMMA SettingsInvariant == Spec => []SettingsInv
<1>1. Init => SettingsInv
  <2> SUFFICES ASSUME Init PROVE SettingsInv
    OBVIOUS
  <2>1. phase = "parse" /\ cli \in Cli /\ stack \in Stack
    BY Zenon DEF Init
  <2> QED BY <2>1 DEF SettingsInv, SettingsByPriority
<1> QED BY <1>1, SettingsStep, Invariant, PTL DEF Spec

\* Transport, uri and log level are those of the command line, of the
\* environment, of the stack or the default, in this order, for any layers
\* (modelc_parse_arguments, modelc_set_default_args).
THEOREM SettingsHavePriority == Spec => []SettingsByPriority
<1>1. SettingsInv => SettingsByPriority
  BY DEF SettingsInv
<1> QED BY <1>1, SettingsInvariant, PTL

-----------------------------------------------------------------------------
\* The uids of the instances.

Given(p) == ConfiguredUid(file[p])

\* The files give no uid at all, or each instance one of its own.
NoneOrOwn ==
  \/ \A p \in 1..N : Given(p) = 0
  \/ \A p, q \in 1..N : Given(p) # 0 /\ (Given(p) = Given(q) => p = q)

BeforeUids == {"parse", "configure", "endpoint", "uids"}

\* The uids are as given until they are completed, and then differ; the index
\* of the adapter holds every instance that has a model.
UidInv ==
  /\ phase \in {"endpoint", "uids"} => \A p \in 1..N : uid[p] = Given(p)
  /\ phase \notin BeforeUids \cup {"dead"} /\ NoneOrOwn =>
       \A p, q \in 1..N : uid[p] = uid[q] => p = q
  /\ NoneOrOwn => \A p \in 1..N : life[p] = "created" =>
       uid[p] \in DOMAIN lookup /\ lookup[uid[p]] = p

LEMMA UidsGiveFound == UidInv => LoadedAreFound
  BY DEF UidInv, NoneOrOwn, Given, LoadedAreFound

\* What leaves uids and index alone, and makes no model.
Unconcerned ==
  /\ UNCHANGED <<file, uid, lookup>>
  /\ \A p \in Places : life'[p] = "created" => life[p] = "created"
  /\ phase' \in {"endpoint", "uids"} => phase \in {"endpoint", "uids"}
  /\ phase' \notin BeforeUids \cup {"dead"} => phase \notin BeforeUids \cup {"dead"}

LEMMA UnconcernedKeeps ==
  ASSUME TypeOK, UidInv, Unconcerned
  PROVE  UidInv'
<1>1. N' = N /\ \A p \in 1..N : Given(p)' = Given(p)
  BY DEF Unconcerned, N, Given
<1>2. NoneOrOwn' <=> NoneOrOwn
  BY <1>1 DEF NoneOrOwn
<1>3. file # << >> => 1..N \subseteq Places
  BY InstanceCount, RunAssumption DEF Places
<1>4. file = << >> => 1..N = {}
  BY DEF N
<1>5. phase' \in {"endpoint", "uids"} => \A p \in 1..N' : uid'[p] = Given(p)'
  BY <1>1 DEF Unconcerned, UidInv
<1>6. phase' \notin BeforeUids \cup {"dead"} /\ NoneOrOwn' =>
        \A p, q \in 1..N' : uid'[p] = uid'[q] => p = q
  BY <1>1, <1>2 DEF Unconcerned, UidInv
<1>7. ASSUME NoneOrOwn', NEW p \in 1..N', life'[p] = "created"
      PROVE  uid'[p] \in DOMAIN lookup' /\ lookup'[uid'[p]] = p
  <2>1. p \in 1..N /\ p \in Places
    BY <1>1, <1>3, <1>4, <1>7
  <2> QED BY <1>2, <1>7, <2>1 DEF Unconcerned, UidInv
<1> QED BY <1>5, <1>6, <1>7 DEF UidInv

\* No instance has a model.
LEMMA NoModels ==
  ASSUME TypeOK, Lives, SetupMove
  PROVE  \A p \in Places : life'[p] # "created"
  BY DEF Lives, SetupMove

LEMMA ConfigureUids ==
  ASSUME TypeOK, Lives, Configure
  PROVE  UidInv'
<1>1. /\ phase = "configure" /\ phase' \in {"dead", "endpoint"}
      /\ file' \in Files /\ life' = life
      /\ uid' = [p \in Places |-> IF p <= Len(file') THEN ConfiguredUid(file'[p]) ELSE 0]
  BY Zenon DEF Configure, Becomes, modelVars
<1>2. 1..N' \subseteq Places /\ N' = Len(file')
  BY <1>1, RunAssumption DEF Places, N
<1>3. \A p \in 1..N' : uid'[p] = Given(p)'
  <2> SUFFICES ASSUME NEW p \in 1..N' PROVE uid'[p] = Given(p)'
    OBVIOUS
  <2>1. p \in Places /\ p <= Len(file')
    BY <1>1, <1>2, RunAssumption
  <2> QED BY <1>1, <2>1 DEF Given
<1>4. \A p \in 1..N' : life'[p] # "created"
  BY <1>1, <1>2 DEF Lives, Setup
<1> QED BY <1>1, <1>3, <1>4 DEF UidInv, BeforeUids

LEMMA AssignDistinct ==
  ASSUME TypeOK, Lives, UidInv, AssignUids
  PROVE  UidInv'
<1> DEFINE given == { p \in 1..N : uid[p] # 0 }
           base  == IF given = {} THEN simUid ELSE uid[Min(given)]
<1>1. uid' = [p \in Places |-> IF p <= N /\ uid[p] = 0
                                THEN (p - 1) * 10000 + base ELSE uid[p]]
  BY DEF AssignUids
<1>2. phase = "uids" /\ phase' = "init" /\ file' = file /\ life' = life
  <2> HIDE DEF given, base
  <2> QED BY DEF AssignUids, Becomes, modelVars
<1>3. base \in Nat
  BY <1>2, AssignedUid
<1> HIDE DEF given, base
<1>4. /\ N' = N /\ 1..N \subseteq Places /\ N \in Nat
      /\ \A p \in 1..N : uid[p] = Given(p) /\ Given(p)' = Given(p)
  <2>1. file # << >>
    BY <1>2 DEF TypeOK
  <2> QED BY <1>2, <2>1, InstanceCount, RunAssumption DEF N, Places, Given, UidInv
<1>5. NoneOrOwn' <=> NoneOrOwn
  BY <1>4 DEF NoneOrOwn
<1>6. ASSUME NoneOrOwn, NEW p \in 1..N, NEW q \in 1..N, uid'[p] = uid'[q]
      PROVE  p = q
  <2>1. /\ uid'[p] = IF uid[p] = 0 THEN (p - 1) * 10000 + base ELSE uid[p]
        /\ uid'[q] = IF uid[q] = 0 THEN (q - 1) * 10000 + base ELSE uid[q]
    BY <1>1, <1>4
  <2>2. CASE uid[p] = 0 /\ uid[q] = 0
    <3>1. (p - 1) * 10000 + base = (q - 1) * 10000 + base
      BY <2>1, <2>2, <1>6
    <3>2. p \in Int /\ q \in Int /\ base \in Int
      BY <1>3
    <3> QED BY <3>1, <3>2
  <2>3. CASE uid[p] # 0 /\ uid[q] # 0
    <3>1. Given(p) # 0 /\ Given(q) # 0 /\ Given(p) = Given(q)
      BY <2>1, <2>3, <1>4, <1>6
    <3> QED BY <3>1, <1>6 DEF NoneOrOwn
  <2>4. uid[p] = 0 <=> uid[q] = 0
    BY <1>4, <1>6 DEF NoneOrOwn
  <2> QED BY <2>2, <2>3, <2>4
<1>7. \A p \in 1..N' : life'[p] # "created"
  BY <1>2, <1>4 DEF Lives, Setup
<1> QED BY <1>2, <1>4, <1>5, <1>6, <1>7 DEF UidInv

\* The instance in hand is put into the index; its uid is that of no other.
LEMMA LoadFinds ==
  ASSUME TypeOK, Lives, UidInv, LoadModel
  PROVE  UidInv'
<1>1. /\ LoadOutcome
      /\ lookup' = [ u \in DOMAIN lookup \cup {uid[at]} |->
                       IF u = uid[at] THEN at ELSE lookup[u] ]
  BY LoadModelFacts, Zenon DEF LoadModel
<1>2. /\ phase = "load" /\ phase' \in {"dead", "connect", "load"}
      /\ file' = file /\ uid' = uid
  BY <1>1 DEF LoadOutcome, setupVars, NextInstance, Becomes
<1>3. N' = N /\ \A p \in 1..N : Given(p)' = Given(p)
  BY <1>2 DEF N, Given
<1>4. NoneOrOwn' <=> NoneOrOwn
  BY <1>3 DEF NoneOrOwn
<1>5. at \in 1..N /\ 1..N \subseteq Places
  BY <1>2, InstanceCount, RunAssumption DEF TypeOK, Places
<1>6. phase \notin BeforeUids \cup {"dead"} /\ phase' \notin {"endpoint", "uids"}
  BY <1>2 DEF BeforeUids
<1>7. ASSUME NoneOrOwn, NEW p \in 1..N, life'[p] = "created"
      PROVE  uid[p] \in DOMAIN lookup' /\ lookup'[uid[p]] = p
  <2>1. CASE p = at
    BY <1>1, <2>1
  <2>2. CASE p # at
    <3>1. uid[p] # uid[at]
      BY <1>5, <1>6, <1>7, <2>2 DEF UidInv
    <3>2. life[p] = "created"
      BY <1>1, <1>5, <1>7, <2>2 DEF LoadOutcome, TypeOK
    <3>3. uid[p] \in DOMAIN lookup /\ lookup[uid[p]] = p
      BY <1>7, <3>2 DEF UidInv
    <3> QED BY <1>1, <3>1, <3>3
  <2> QED BY <2>1, <2>2
<1> QED BY <1>2, <1>3, <1>4, <1>6, <1>7 DEF UidInv

LEMMA UidStep == IInv /\ UidInv /\ [Next]_vars => UidInv'
<1> SUFFICES ASSUME IInv, UidInv, [Next]_vars PROVE UidInv'
  OBVIOUS
<1>0. TypeOK /\ Place /\ Lives
  BY DEF IInv
<1>1. CASE Configure
  BY <1>0, <1>1, ConfigureUids
<1>2. CASE AssignUids
  BY <1>0, <1>2, AssignDistinct
<1>3. CASE LoadModel
  BY <1>0, <1>3, LoadFinds
<1> USE DEF Becomes
<1>4. CASE ParseArguments \/ CreateEndpoint \/ InitController
  <2>1. /\ UNCHANGED <<file, uid, lookup, life>>
        /\ \/ phase' = "configure"
           \/ phase = "endpoint" /\ phase' \in {"dead", "endpoint", "uids"}
           \/ phase = "init" /\ phase' = "load"
    BY <1>4, Zenon DEF ParseArguments, CreateEndpoint, InitController, setupVars, modelVars
  <2>2. Unconcerned
    BY <2>1 DEF Unconcerned, BeforeUids
  <2> QED BY <1>0, <2>2, UnconcernedKeeps
<1>5. CASE Connect \/ Register \/ CheckStop \/ Start \/ StartInterrupted \/ StartTimeout \/ Signal
  <2>1. UNCHANGED <<file, uid, lookup, life>>
    BY <1>5, Zenon DEF Connect, Register, CheckStop, Start, StartInterrupted, StartTimeout,
                       Signal, setupVars, modelVars
  <2>2. \/ phase' = phase
        \/ /\ phase' \in {"run", "register", "dead", "exit", "ready", "step"}
           /\ phase \in Between
    <3>1. CASE Signal
      BY <3>1 DEF Signal
    <3>2. CASE Connect \/ Register \/ CheckStop \/ Start \/ StartInterrupted \/ StartTimeout
      BY <3>2, Zenon DEF Connect, Register, CheckStop, Start, StartInterrupted, StartTimeout,
                         Between
    <3> QED BY <1>5, <3>1, <3>2
  <2>3. Unconcerned
    BY <2>1, <2>2 DEF Unconcerned, BeforeUids, Between
  <2> QED BY <1>0, <2>3, UnconcernedKeeps
<1>6. CASE StepModel
  <2>1. UNCHANGED <<file, uid, lookup, life>> /\ phase = "step" /\ phase' \in {"step", "exit", "run"}
    <3>1. lookup' = lookup
      BY <1>6, Zenon DEF StepModel
    <3> QED BY <1>0, <1>6, <3>1, StepModelFacts DEF setupVars
  <2>2. Unconcerned
    BY <2>1 DEF Unconcerned, BeforeUids
  <2> QED BY <1>0, <2>2, UnconcernedKeeps
<1>7. CASE DestroyModel
  <2>1. /\ UNCHANGED <<file, uid, lookup>> /\ phase = "exit" /\ phase' \in {"exit", "done"}
        /\ life' = [life EXCEPT ![at] = IF @ = "created" THEN "destroyed" ELSE @]
    BY <1>7 DEF DestroyModel, NextInstance, setupVars
  <2>2. \A p \in Places : life'[p] = "created" => life[p] = "created"
    BY <1>0, <2>1 DEF TypeOK
  <2>3. Unconcerned
    BY <2>1, <2>2 DEF Unconcerned, BeforeUids
  <2> QED BY <1>0, <2>3, UnconcernedKeeps
<1>8. CASE UNCHANGED vars
  <2>1. UNCHANGED <<phase, file, uid, lookup, life>>
    BY <1>8 DEF vars, setupVars, modelVars
  <2>2. Unconcerned
    BY <2>1 DEF Unconcerned
  <2> QED BY <1>0, <2>2, UnconcernedKeeps
<1> QED BY <1>1, <1>2, <1>3, <1>4, <1>5, <1>6, <1>7, <1>8, Zenon DEF Next, Process

LEMMA UidInvariant == Spec => []UidInv
<1>1. Init => UidInv
  <2> SUFFICES ASSUME Init PROVE UidInv
    OBVIOUS
  <2>1. phase = "parse" /\ file = << >>
    BY Zenon DEF Init
  <2>2. 1..N = {}
    BY <2>1 DEF N
  <2> QED BY <2>1, <2>2 DEF UidInv, BeforeUids
<1> QED BY <1>1, UidStep, Invariant, PTL DEF Spec

\* Every model that is created is found by its uid in the index of the adapter,
\* if the files give none of the instances a uid, or all of them one of their
\* own: those that modelc_run generates differ, for any number of instances.
THEOREM ModelsAreFound == Spec => []LoadedAreFound
<1>1. UidInv => LoadedAreFound
  BY UidsGiveFound
<1> QED BY <1>1, UidInvariant, PTL

-----------------------------------------------------------------------------
\* Lists that are put together.

\* A set of positions that holds the first and with each the next holds all.
LEMMA Upwards ==
  ASSUME NEW n \in Nat, NEW T, n > 0 => 1 \in T,
         \A i \in 1..n : i \in T /\ i < n => i + 1 \in T
  PROVE  \A i \in 1..n : i \in T
<1> DEFINE U == {i \in 1..n : i \notin T}
<1>1. U = {}
  <2> SUFFICES ASSUME U # {} PROVE FALSE
    OBVIOUS
  <2>1. U \subseteq Nat
    OBVIOUS
  <2>2. PICK k \in U : \A j \in U : k <= j
    <3> HIDE DEF U
    <3> QED BY <2>1, MinIsMember
  <2>3. k \in 1..n /\ k # 1
    OBVIOUS
  <2>4. k - 1 \in 1..n /\ k - 1 < n /\ (k - 1) + 1 = k
    BY <2>3
  <2>5. k - 1 \notin U
    BY <2>2, <2>3, <2>4
  <2> QED BY <2>4, <2>5
<1> QED BY <1>1

\* FlattenSeq is defined by recursion: its value is the last of those that the
\* recursion gives for the beginnings of the sequence.
Begins(f, ss, k) ==
  /\ f[1] = ss[1]
  /\ \A i \in 1..k : i < k => f[i + 1] = f[i] \o ss[i + 1]

LEMMA BeginningsExist ==
  ASSUME NEW S, NEW n \in Nat, n > 0, NEW ss \in [1..n -> Seq(S)]
  PROVE  \E f \in [1..n -> Seq(S)] : Begins(f, ss, n)
<1> DEFINE T == {k \in 1..n : \E f \in [1..k -> Seq(S)] : Begins(f, ss, k)}
<1>1. 1 \in T
  <2> DEFINE f == [i \in 1..1 |-> ss[1]]
  <2>1. f \in [1..1 -> Seq(S)] /\ f[1] = ss[1]
    OBVIOUS
  <2> HIDE DEF f
  <2>2. Begins(f, ss, 1)
    BY <2>1 DEF Begins
  <2>3. 1 \in 1..n
    OBVIOUS
  <2>4. \E h \in [1..1 -> Seq(S)] : Begins(h, ss, 1)
    BY <2>1, <2>2
  <2> QED BY <2>3, <2>4
<1>2. ASSUME NEW k \in 1..n, k \in T, k < n PROVE k + 1 \in T
  <2>1. PICK f \in [1..k -> Seq(S)] : Begins(f, ss, k)
    BY <1>2
  <2>2. PICK v \in Seq(S) : v = f[k] \o ss[k + 1]
    <3>1. f[k] \in Seq(S) /\ ss[k + 1] \in Seq(S)
      BY <1>2
    <3> QED BY <3>1, ConcatProperties
  <2> DEFINE g == [i \in 1..(k + 1) |-> IF i = k + 1 THEN v ELSE f[i]]
  <2>3. /\ g \in [1..(k + 1) -> Seq(S)]
        /\ g[k + 1] = v
        /\ \A i \in 1..k : g[i] = f[i]
    OBVIOUS
  <2> HIDE DEF g
  <2>4. g[1] = ss[1]
    BY <2>1, <2>3 DEF Begins
  <2>5. ASSUME NEW i \in 1..(k + 1), i < k + 1 PROVE g[i + 1] = g[i] \o ss[i + 1]
    <3>1. g[i] = f[i] /\ i \in 1..k
      BY <2>3, <2>5
    <3>2. CASE i = k
      <4>1. g[i + 1] = v
        BY <2>3, <3>2
      <4> QED BY <2>2, <3>1, <3>2, <4>1
    <3>3. CASE i < k
      <4>1. i + 1 \in 1..k
        BY <3>3
      <4>2. g[i + 1] = f[i + 1]
        BY <2>3, <4>1
      <4>3. f[i + 1] = f[i] \o ss[i + 1]
        BY <2>1, <3>1, <3>3 DEF Begins
      <4> QED BY <3>1, <4>2, <4>3
    <3>4. i = k \/ i < k
      BY <3>1
    <3> QED BY <3>2, <3>3, <3>4
  <2>6. Begins(g, ss, k + 1)
    BY <2>4, <2>5 DEF Begins
  <2>7. k + 1 \in 1..n
    BY <1>2
  <2> QED BY <2>3, <2>6, <2>7
<1>3. n \in T
  <2> HIDE DEF T
  <2>1. \A i \in 1..n : i \in T /\ i < n => i + 1 \in T
    BY <1>2
  <2>2. \A i \in 1..n : i \in T
    BY <1>1, <2>1, Upwards
  <2> QED BY <2>2
<1> QED BY <1>3

LEMMA FlattenSteps ==
  ASSUME NEW S, NEW n \in Nat, n > 0, NEW ss \in [1..n -> Seq(S)]
  PROVE  \E f \in [1..n -> Seq(S)] : Begins(f, ss, n) /\ FlattenSeq(ss) = f[n]
<1> DEFINE Cat(a, b) == a \o b
           Solution(f) == [i \in 1..n |-> IF i = 1 THEN ss[i] ELSE Cat(f[i - 1], ss[i])]
<1>1. PICK f \in [1..n -> Seq(S)] : Begins(f, ss, n)
  BY BeginningsExist
<1>2. f[1] = ss[1] /\ \A i \in 1..n : i < n => f[i + 1] = Cat(f[i], ss[i + 1])
  BY <1>1 DEF Begins
<1>3. FlattenSeq(ss) = (CHOOSE h : h = Solution(h))[n]
  <2>1. Len(ss) = n
    OBVIOUS
  <2> QED BY <2>1 DEF FlattenSeq
<1> HIDE DEF Cat
<1>4. f = Solution(f)
  <2>1. ASSUME NEW i \in 1..n PROVE f[i] = IF i = 1 THEN ss[i] ELSE Cat(f[i - 1], ss[i])
    <3>1. CASE i = 1
      BY <1>2, <3>1
    <3>2. CASE i # 1
      <4>1. i - 1 \in 1..n /\ i - 1 < n /\ (i - 1) + 1 = i
        BY <3>2
      <4>2. f[(i - 1) + 1] = Cat(f[i - 1], ss[(i - 1) + 1])
        BY <1>2, <4>1
      <4> QED BY <3>2, <4>1, <4>2
    <3> QED BY <3>1, <3>2
  <2> QED BY <2>1
<1> DEFINE flatten == CHOOSE h : h = Solution(h)
<1>5. flatten = Solution(flatten)
  <2> HIDE DEF Solution
  <2> QED BY <1>4
<1> HIDE DEF flatten
<1>6. \A i \in 1..n : flatten[i] = IF i = 1 THEN ss[i] ELSE Cat(flatten[i - 1], ss[i])
  <2>1. PICK h : h = flatten
    OBVIOUS
  <2>2. h = Solution(h)
    BY <1>5, <2>1
  <2>3. \A i \in 1..n : h[i] = IF i = 1 THEN ss[i] ELSE Cat(h[i - 1], ss[i])
    BY <2>2
  <2> QED BY <2>1, <2>3
<1>7. \A i \in 1..n : flatten[i] = f[i]
  <2> DEFINE E == {i \in 1..n : flatten[i] = f[i]}
  <2>1. 1 \in E
    BY <1>2, <1>6
  <2>2. ASSUME NEW i \in 1..n, i \in E, i < n PROVE i + 1 \in E
    <3>1. i + 1 \in 1..n /\ i + 1 # 1 /\ (i + 1) - 1 = i
      BY <2>2
    <3>2. flatten[i + 1] = Cat(flatten[(i + 1) - 1], ss[i + 1])
      BY <1>6, <3>1
    <3>3. f[i + 1] = Cat(f[i], ss[i + 1])
      BY <1>2, <2>2
    <3>4. flatten[i] = f[i]
      BY <2>2
    <3>5. flatten[i + 1] = f[i + 1]
      BY <3>1, <3>2, <3>3, <3>4
    <3> QED BY <3>1, <3>5
  <2> HIDE DEF E
  <2>3. \A i \in 1..n : i \in E
    BY <2>1, <2>2, Upwards
  <2> QED BY <2>3 DEF E
<1>8. FlattenSeq(ss) = f[n]
  <2>1. n \in 1..n
    OBVIOUS
  <2> QED BY <1>3, <1>7, <2>1 DEF flatten
<1> QED BY <1>1, <1>8

LEMMA ConcatElements ==
  ASSUME NEW S, NEW a \in Seq(S), NEW b \in Seq(S)
  PROVE  ToSet(a \o b) = ToSet(a) \cup ToSet(b)
<1> DEFINE q == a \o b
<1>1. /\ Len(a) \in Nat /\ Len(b) \in Nat
      /\ DOMAIN a = 1..Len(a) /\ DOMAIN b = 1..Len(b) /\ DOMAIN q = 1..(Len(a) + Len(b))
      /\ \A i \in 1..(Len(a) + Len(b)) :
           q[i] = IF i <= Len(a) THEN a[i] ELSE b[i - Len(a)]
  BY ConcatProperties, LenProperties
<1> HIDE DEF q
<1>2. ASSUME NEW i \in DOMAIN q PROVE q[i] \in ToSet(a) \cup ToSet(b)
  <2>1. CASE i <= Len(a)
    <3>1. i \in DOMAIN a /\ q[i] = a[i]
      BY <1>1, <2>1
    <3> QED BY <3>1 DEF ToSet
  <2>2. CASE ~(i <= Len(a))
    <3>1. i - Len(a) \in DOMAIN b /\ q[i] = b[i - Len(a)]
      BY <1>1, <2>2
    <3> QED BY <3>1 DEF ToSet
  <2> QED BY <2>1, <2>2
<1>3. ASSUME NEW i \in DOMAIN a PROVE a[i] \in ToSet(q)
  <2>1. i \in DOMAIN q /\ q[i] = a[i]
    BY <1>1
  <2> QED BY <2>1 DEF ToSet
<1>4. ASSUME NEW i \in DOMAIN b PROVE b[i] \in ToSet(q)
  <2>1. i + Len(a) \in DOMAIN q /\ i + Len(a) \in Int /\ ~(i + Len(a) <= Len(a))
        /\ (i + Len(a)) - Len(a) = i
    BY <1>1
  <2>2. q[i + Len(a)] = b[i]
    BY <1>1, <2>1
  <2> QED BY <2>1, <2>2 DEF ToSet
<1>5. ToSet(q) = ToSet(a) \cup ToSet(b)
  <2>1. ToSet(q) \subseteq ToSet(a) \cup ToSet(b)
    <3> SUFFICES ASSUME NEW p \in ToSet(q) PROVE p \in ToSet(a) \cup ToSet(b)
      OBVIOUS
    <3>1. \E i \in DOMAIN q : p = q[i]
      BY DEF ToSet
    <3> QED BY <1>2, <3>1
  <2>2. ToSet(a) \subseteq ToSet(q)
    BY <1>3 DEF ToSet
  <2>3. ToSet(b) \subseteq ToSet(q)
    BY <1>4 DEF ToSet
  <2> QED BY <2>1, <2>2, <2>3
<1> QED BY <1>5 DEF q

\* FlattenSeq has the elements of its parts.
LEMMA FlattenElements ==
  ASSUME NEW S, NEW n \in Nat, NEW ss \in [1..n -> Seq(S)]
  PROVE  /\ FlattenSeq(ss) \in Seq(S)
         /\ ToSet(FlattenSeq(ss)) = UNION {ToSet(ss[i]) : i \in 1..n}
<1>0. CASE n = 0
  <2>1. ss = << >>
    BY <1>0
  <2>2. FlattenSeq(ss) = << >>
    BY <2>1 DEF FlattenSeq
  <2> QED BY <1>0, <2>2 DEF ToSet
<1>1. CASE n # 0
  <2>1. PICK f \in [1..n -> Seq(S)] : Begins(f, ss, n) /\ FlattenSeq(ss) = f[n]
    BY <1>1, FlattenSteps
  <2> DEFINE Parts(k) == UNION {ToSet(ss[i]) : i \in 1..k}
             T == {k \in 1..n : ToSet(f[k]) = Parts(k)}
  <2>2. 1 \in T
    BY <1>1, <2>1 DEF Begins
  <2>3. ASSUME NEW i \in 1..n, i \in T, i < n PROVE i + 1 \in T
    <3>1. i + 1 \in 1..n
      BY <2>3
    <3>2. f[i + 1] = f[i] \o ss[i + 1]
      BY <2>1, <2>3 DEF Begins
    <3>3. f[i] \in Seq(S) /\ ss[i + 1] \in Seq(S)
      BY <3>1
    <3>4. ToSet(f[i + 1]) = ToSet(f[i]) \cup ToSet(ss[i + 1])
      BY <3>2, <3>3, ConcatElements
    <3>5. Parts(i + 1) = Parts(i) \cup ToSet(ss[i + 1])
      <4>1. 1..(i + 1) = 1..i \cup {i + 1}
        OBVIOUS
      <4> QED BY <4>1
    <3> HIDE DEF Parts
    <3> QED BY <2>3, <3>1, <3>4, <3>5
  <2>4. n \in T
    <3> HIDE DEF T
    <3>1. n > 0 /\ n \in 1..n
      BY <1>1
    <3>2. \A i \in 1..n : i \in T
      BY <2>2, <2>3, Upwards
    <3> QED BY <3>1, <3>2
  <2> QED BY <1>1, <2>1, <2>4
<1> QED BY <1>0, <1>1

\* A list is a sequence of its elements.
LEMMA ListFacts ==
  ASSUME NEW s, IsList(s)
  PROVE  /\ Len(s) \in Nat /\ DOMAIN s = 1..Len(s)
         /\ \A i \in DOMAIN s : s[i] \in ToSet(s)
  BY LenProperties DEF IsList, ToSet

-----------------------------------------------------------------------------
\* The channels of an instance.

\* The channel that is found has the value, if there is one that has.
LEMMA Found ==
  ASSUME NEW channels, IsList(channels), NEW field, NEW value
  PROVE  LET found == FindChannel(channels, field, value)
         IN IF \E c \in ToSet(channels) : c[field] = value
            THEN found \in ToSet(channels) /\ found[field] = value
            ELSE found = Unset
<1> DEFINE having == { c \in DOMAIN channels : channels[c][field] = value }
<1>1. FindChannel(channels, field, value) = IF having = {} THEN Unset ELSE channels[Min(having)]
  BY DEF FindChannel
<1>2. having \subseteq Nat /\ \A c \in DOMAIN channels : channels[c] \in ToSet(channels)
  BY ListFacts
<1>3. CASE having = {}
  <2>1. ~ \E c \in ToSet(channels) : c[field] = value
    BY <1>3 DEF ToSet
  <2> QED BY <1>1, <1>3, <2>1
<1>4. CASE having # {}
  <2>1. Min(having) \in having
    <3> HIDE DEF having
    <3> QED BY <1>2, <1>4, MinIsMember
  <2>2. channels[Min(having)] \in ToSet(channels) /\ channels[Min(having)][field] = value
    BY <1>2, <2>1
  <2> QED BY <1>1, <1>4, <2>2
<1> QED BY <1>3, <1>4

\* A channel of a model definition that means one of the stack.
Means(modelChannel, channel) ==
  modelChannel.name = channel.name \/ modelChannel.alias = channel.alias

\* The channels of the stack have a name and an alias that are not those of
\* another one, and the model definition does not name one of them twice, with
\* other selectors.
NamesAreClear(spec) ==
  /\ \A s, t \in ToSet(spec.channels) :
       /\ s.name # Unset /\ s.alias # Unset
       /\ {s.name, s.alias} \cap {t.name, t.alias} # {} => s = t
  /\ \A s \in ToSet(spec.channels), b, d \in ToSet(ModelChannels(spec)) :
       Means(b, s) /\ Means(d, s) => b.selectors = d.selectors

\* What FilesAssumption says of an instance.
Lists(spec) ==
  /\ IsList(spec.channels) /\ Unset \notin ToSet(spec.channels)
  /\ spec.definition # Unset => /\ IsList(spec.definition.channels)
                                /\ Unset \notin ToSet(spec.definition.channels)
  /\ IsList(spec.documents)
  /\ \A doc \in ToSet(spec.documents) : IsList(doc.signals)

LEMMA ModelLists ==
  ASSUME NEW spec, Lists(spec)
  PROVE  /\ IsList(ModelChannels(spec)) /\ Unset \notin ToSet(ModelChannels(spec))
         /\ IsList(Selected(spec))
<1>1. IsList(<< >>) /\ ToSet(<< >>) = {}
  BY DEF IsList, ToSet
<1>2. Runtime(spec) \in {"dynlib", "gateway"} => spec.definition # Unset
  BY DEF Runtime
<1>3. IsList(ModelChannels(spec)) /\ Unset \notin ToSet(ModelChannels(spec))
  BY <1>1, <1>2 DEF Lists, ModelChannels
<1> QED BY <1>3 DEF Lists, Selected

\* A channel is configured by its name or by its alias.
LEMMA SpecOfWanted ==
  ASSUME NEW spec, Lists(spec), NamesAreClear(spec),
         NEW s \in ToSet(spec.channels), NEW wanted \in {s.name, s.alias}
  PROVE  ChannelSpec(spec.channels, wanted) = s
<1> DEFINE named == FindChannel(spec.channels, "name", wanted)
           aliased == FindChannel(spec.channels, "alias", wanted)
<1>1. IF \E c \in ToSet(spec.channels) : c.name = wanted
      THEN named \in ToSet(spec.channels) /\ named.name = wanted
      ELSE named = Unset
  BY Found DEF Lists
<1>2. IF \E c \in ToSet(spec.channels) : c.alias = wanted
      THEN aliased \in ToSet(spec.channels) /\ aliased.alias = wanted
      ELSE aliased = Unset
  BY Found DEF Lists
<1>3. ChannelSpec(spec.channels, wanted) = IF named = Unset THEN aliased ELSE named
  BY DEF ChannelSpec, Else
<1> HIDE DEF named, aliased
<1>4. \A t \in ToSet(spec.channels) : wanted \in {t.name, t.alias} => t = s
  BY DEF NamesAreClear
<1>5. Unset \notin ToSet(spec.channels)
  BY DEF Lists
<1>6. CASE \E c \in ToSet(spec.channels) : c.name = wanted
  BY <1>1, <1>3, <1>4, <1>5, <1>6
<1>7. CASE ~ \E c \in ToSet(spec.channels) : c.name = wanted
  <2>1. s.alias = wanted
    BY <1>7
  <2> QED BY <1>1, <1>2, <1>3, <1>4, <1>7, <2>1
<1> QED BY <1>6, <1>7

\* The other way around: the channel of the stack that is found.
LEMMA SpecIsInStack ==
  ASSUME NEW spec, Lists(spec), NEW wanted, ChannelSpec(spec.channels, wanted) # Unset
  PROVE  /\ ChannelSpec(spec.channels, wanted) \in ToSet(spec.channels)
         /\ wanted \in {ChannelSpec(spec.channels, wanted).name,
                         ChannelSpec(spec.channels, wanted).alias}
<1> DEFINE named == FindChannel(spec.channels, "name", wanted)
           aliased == FindChannel(spec.channels, "alias", wanted)
<1>1. named = Unset \/ (named \in ToSet(spec.channels) /\ named.name = wanted)
  BY Found DEF Lists
<1>2. aliased = Unset \/ (aliased \in ToSet(spec.channels) /\ aliased.alias = wanted)
  BY Found DEF Lists
<1>3. ChannelSpec(spec.channels, wanted) = IF named = Unset THEN aliased ELSE named
  BY DEF ChannelSpec, Else
<1> HIDE DEF named, aliased
<1> QED BY <1>1, <1>2, <1>3

LEMMA AliasOfName ==
  ASSUME NEW spec, Lists(spec), NamesAreClear(spec), NEW s \in ToSet(spec.channels)
  PROVE  FindChannel(spec.channels, "name", s.name) = s
<1> DEFINE named == FindChannel(spec.channels, "name", s.name)
<1>1. named \in ToSet(spec.channels) /\ named.name = s.name
  BY Found DEF Lists
<1> HIDE DEF named
<1>2. named = s
  BY <1>1 DEF NamesAreClear
<1> QED BY <1>2 DEF named

\* The labels of a selector are those that the documents give the channel.
LabelsOf(f) == IF f = Unset THEN {} ELSE { <<l, f[l]>> : l \in DOMAIN f }

LEMMA SelectorLabels ==
  ASSUME NEW spec, Lists(spec), NamesAreClear(spec), NEW s \in ToSet(spec.channels)
  PROVE  LET selector == Selector(s, ModelChannels(spec))
         IN /\ LabelsOf(selector) = Labels(s, ModelChannels(spec))
            /\ selector # Unset => LabelsOf(selector) # {}
<1> DEFINE channels == ModelChannels(spec)
           named == FindChannel(channels, "name", s.name)
           aliased == FindChannel(channels, "alias", s.alias)
           inModel == IF named = Unset THEN aliased ELSE named
           own == LabelsOf(s.selectors)
           meaning == { c \in ToSet(channels) : c.name = s.name \/ c.alias = s.alias }
           chosen == IF s.selectors # Unset /\ DOMAIN s.selectors # {} THEN s.selectors
                     ELSE IF inModel = Unset THEN Unset ELSE inModel.selectors
<1>1. s.alias # Unset
  BY DEF NamesAreClear
<1>2. Selector(s, channels) = IF chosen # Unset /\ DOMAIN chosen # {} THEN chosen ELSE Unset
  BY <1>1 DEF Selector, Else
<1>3. Labels(s, channels) =
        IF own # {} THEN own ELSE UNION { LabelsOf(c.selectors) : c \in meaning }
  BY DEF Labels, LabelsOf
<1>4. \A f : LabelsOf(f) = {} <=> f = Unset \/ DOMAIN f = {}
  BY DEF LabelsOf
<1>5. IF \E c \in ToSet(channels) : c.name = s.name
      THEN named \in ToSet(channels) /\ named.name = s.name ELSE named = Unset
  BY Found, ModelLists
<1>6. IF \E c \in ToSet(channels) : c.alias = s.alias
      THEN aliased \in ToSet(channels) /\ aliased.alias = s.alias ELSE aliased = Unset
  BY Found, ModelLists
<1>7. Unset \notin ToSet(channels)
  BY ModelLists
<1>8. \A b, d \in meaning : b.selectors = d.selectors
  BY DEF NamesAreClear, Means
<1> HIDE DEF channels, named, aliased
<1>9. IF meaning = {} THEN inModel = Unset ELSE inModel \in meaning
  BY <1>5, <1>6, <1>7
<1>10. CASE own # {}
  <2>1. Selector(s, channels) = s.selectors
    BY <1>2, <1>4, <1>10
  <2> QED BY <1>3, <1>4, <1>10, <2>1 DEF channels
<1>11. CASE own = {}
  <2>1. chosen = IF inModel = Unset THEN Unset ELSE inModel.selectors
    BY <1>4, <1>11
  <2>2. Labels(s, channels) = UNION { LabelsOf(c.selectors) : c \in meaning }
    BY <1>3, <1>11
  <2>3. LabelsOf(chosen) = UNION { LabelsOf(c.selectors) : c \in meaning }
    <3>1. CASE meaning = {}
      <4>1. chosen = Unset
        BY <1>9, <2>1, <3>1
      <4> QED BY <3>1, <4>1 DEF LabelsOf
    <3>2. CASE meaning # {}
      <4>1. inModel \in meaning /\ inModel # Unset
        BY <1>7, <1>9, <3>2
      <4> HIDE DEF inModel, meaning, chosen
      <4>2. chosen = inModel.selectors
        BY <2>1, <4>1
      <4>3. \A c \in meaning : LabelsOf(c.selectors) = LabelsOf(chosen)
        BY <1>8, <4>1, <4>2
      <4> QED BY <4>1, <4>3
    <3> QED BY <3>1, <3>2
  <2> HIDE DEF chosen, meaning
  <2>4. LabelsOf(Selector(s, channels)) = LabelsOf(chosen)
    BY <1>2, <1>4
  <2>5. Selector(s, channels) # Unset => LabelsOf(Selector(s, channels)) # {}
    BY <1>2, <1>4
  <2> QED BY <2>2, <2>3, <2>4, <2>5 DEF channels
<1> QED BY <1>10, <1>11

-----------------------------------------------------------------------------
\* The signals of a channel.

\* The names of a group: those that are not internal, up to the first entry
\* without a name.
External(doc) ==
  { doc.signals[i].signal : i \in { i \in DOMAIN doc.signals :
      /\ ~doc.signals[i].internal
      /\ \A j \in 1..i : doc.signals[j].signal # Unset } }

LEMMA EnumeratedPart ==
  ASSUME NEW doc, IsList(doc.signals)
  PROVE  \E n \in 0..Len(doc.signals) :
           /\ IsList(Enumerated(doc)) /\ Len(Enumerated(doc)) = n
           /\ \A i \in 1..n : Enumerated(doc)[i] = doc.signals[i]
           /\ \A i \in DOMAIN doc.signals :
                i <= n <=> \A j \in 1..i : doc.signals[j].signal # Unset
<1> DEFINE nameless == { i \in DOMAIN doc.signals : doc.signals[i].signal = Unset }
<1>1. /\ Len(doc.signals) \in Nat /\ DOMAIN doc.signals = 1..Len(doc.signals)
      /\ doc.signals \in Seq(ToSet(doc.signals))
  BY ListFacts DEF IsList
<1>2. CASE nameless = {}
  <2>1. Enumerated(doc) = doc.signals
    BY <1>2 DEF Enumerated
  <2>2. \A i \in DOMAIN doc.signals : \A j \in 1..i : doc.signals[j].signal # Unset
    BY <1>1, <1>2
  <2>3. Len(doc.signals) \in 0..Len(doc.signals)
    BY <1>1
  <2> QED BY <1>1, <2>1, <2>2, <2>3
<1>3. CASE nameless # {}
  <2> DEFINE m == Min(nameless)
  <2>1. m \in nameless /\ \A i \in nameless : m <= i
    <3>1. nameless \subseteq Nat
      BY <1>1
    <3> HIDE DEF nameless
    <3> QED BY <1>3, <3>1, MinIsMember
  <2>2. Enumerated(doc) = SubSeq(doc.signals, 1, m - 1)
    BY <1>3 DEF Enumerated
  <2> HIDE DEF m
  <2>3. m \in 1..Len(doc.signals) /\ m - 1 \in 0..Len(doc.signals)
    BY <1>1, <2>1
  <2>4. /\ Len(Enumerated(doc)) = m - 1
        /\ \A i \in 1..(m - 1) : Enumerated(doc)[i] = doc.signals[i]
        /\ Enumerated(doc) = [i \in 1..(m - 1) |-> Enumerated(doc)[i]]
    BY <1>1, <2>2, <2>3
  <2>5. IsList(Enumerated(doc))
    <3>1. PICK entries : entries = Enumerated(doc)
      OBVIOUS
    <3>2. entries = [i \in 1..(m - 1) |-> entries[i]]
      BY <2>4, <3>1
    <3>3. \A i \in 1..(m - 1) : entries[i] \in ToSet(entries)
      BY <3>2 DEF ToSet
    <3>4. entries \in Seq(ToSet(entries))
      BY <2>3, <3>2, <3>3
    <3> QED BY <3>1, <3>4 DEF IsList
  <2>6. ASSUME NEW i \in DOMAIN doc.signals
        PROVE  i <= m - 1 <=> \A j \in 1..i : doc.signals[j].signal # Unset
    <3>1. i \in Nat
      BY <1>1
    <3>2. CASE i <= m - 1
      <4>1. \A j \in 1..i : j \in DOMAIN doc.signals /\ ~(m <= j)
        BY <1>1, <2>3, <3>1, <3>2
      <4> QED BY <2>1, <3>2, <4>1
    <3>3. CASE ~(i <= m - 1)
      <4>1. m \in 1..i /\ doc.signals[m].signal = Unset
        BY <2>1, <2>3, <3>1, <3>3
      <4> QED BY <3>3, <4>1
    <3> QED BY <3>2, <3>3
  <2> QED BY <2>3, <2>4, <2>5, <2>6
<1> QED BY <1>2, <1>3

LEMMA GroupNames ==
  ASSUME NEW doc, IsList(doc.signals), NEW S,
         \A i \in DOMAIN doc.signals : doc.signals[i].signal \in S
  PROVE  GroupSignals(doc) \in Seq(S) /\ ToSet(GroupSignals(doc)) = External(doc)
<1>1. PICK n \in 0..Len(doc.signals) :
        /\ IsList(Enumerated(doc)) /\ Len(Enumerated(doc)) = n
        /\ \A i \in 1..n : Enumerated(doc)[i] = doc.signals[i]
        /\ \A i \in DOMAIN doc.signals :
             i <= n <=> \A j \in 1..i : doc.signals[j].signal # Unset
  BY EnumeratedPart
<1>2. Len(doc.signals) \in Nat /\ DOMAIN doc.signals = 1..Len(doc.signals)
  BY ListFacts
<1>3. n \in Nat /\ \A i \in 1..n : i \in DOMAIN doc.signals
  BY <1>1, <1>2
<1>4. DOMAIN Enumerated(doc) = 1..n
  BY <1>1, ListFacts
<1> DEFINE parts == [ i \in 1..n |->
                      IF doc.signals[i].internal THEN << >> ELSE << doc.signals[i].signal >> ]
<1>5. GroupSignals(doc) = FlattenSeq(parts)
  <2> DEFINE entries == Enumerated(doc)
  <2>1. [ i \in DOMAIN entries |->
            IF entries[i].internal THEN << >> ELSE << entries[i].signal >> ] = parts
    BY <1>1, <1>4
  <2> HIDE DEF parts
  <2> QED BY <2>1 DEF GroupSignals
<1>6. parts \in [1..n -> Seq(S)]
  <2>1. \A i \in 1..n : << doc.signals[i].signal >> \in Seq(S) /\ << >> \in Seq(S)
    BY <1>3
  <2> QED BY <2>1
<1>7. \A i \in 1..n : ToSet(parts[i]) = IF doc.signals[i].internal THEN {}
                                       ELSE {doc.signals[i].signal}
  BY DEF ToSet
<1> HIDE DEF parts
<1>8. FlattenSeq(parts) \in Seq(S) /\ ToSet(FlattenSeq(parts)) = UNION {ToSet(parts[i]) : i \in 1..n}
  BY <1>3, <1>6, FlattenElements
<1>9. UNION {ToSet(parts[i]) : i \in 1..n} = External(doc)
  <2>1. ASSUME NEW x \in External(doc) PROVE x \in UNION {ToSet(parts[i]) : i \in 1..n}
    <3>1. PICK i \in DOMAIN doc.signals : /\ ~doc.signals[i].internal
                                          /\ \A j \in 1..i : doc.signals[j].signal # Unset
                                          /\ x = doc.signals[i].signal
      BY DEF External
    <3>2. i \in 1..n
      BY <1>1, <1>2, <3>1
    <3>3. x \in ToSet(parts[i])
      BY <1>7, <3>1, <3>2
    <3> QED BY <3>2, <3>3
  <2>2. ASSUME NEW x \in UNION {ToSet(parts[i]) : i \in 1..n} PROVE x \in External(doc)
    <3>1. PICK i \in 1..n : x \in ToSet(parts[i])
      OBVIOUS
    <3>2. ~doc.signals[i].internal /\ x = doc.signals[i].signal
      BY <1>7, <3>1
    <3>3. i \in DOMAIN doc.signals /\ \A j \in 1..i : doc.signals[j].signal # Unset
      BY <1>1, <1>3
    <3> QED BY <3>2, <3>3 DEF External
  <2> QED BY <2>1, <2>2
<1> QED BY <1>5, <1>8, <1>9

\* The list of a channel has exactly its documented signals.
LEMMA LoadedSignals ==
  ASSUME NEW spec, Lists(spec), NamesAreClear(spec), NEW s \in ToSet(spec.channels)
  PROVE  LET signals == LoadSignals(spec.documents, Selector(s, ModelChannels(spec))).signals
         IN IsList(signals) /\ ToSet(signals) = Documented(spec, s)
<1> DEFINE documents == spec.documents
           n == Len(documents)
           selector == Selector(s, ModelChannels(spec))
           labels == Labels(s, ModelChannels(spec))
           groups == IF selector = Unset THEN {} ELSE Search(documents, "SignalGroup", selector)
           S == UNION { { doc.signals[i].signal : i \in DOMAIN doc.signals } :
                          doc \in ToSet(documents) }
           parts == [ d \in 1..n |-> IF d \in groups THEN GroupSignals(documents[d]) ELSE << >> ]
           signals == LoadSignals(documents, selector).signals
           Has(doc) == /\ doc.kind = "SignalGroup" /\ labels # {}
                       /\ \A pair \in labels : /\ pair[1] \in DOMAIN doc.labels
                                               /\ doc.labels[pair[1]] = pair[2]
<1>1. /\ n \in Nat /\ DOMAIN documents = 1..n
      /\ \A d \in 1..n : documents[d] \in ToSet(documents) /\ IsList(documents[d].signals)
  BY ListFacts DEF Lists
<1>2. signals = FlattenSeq(parts)
  <2>1. [ d \in DOMAIN documents |-> IF d \in groups THEN GroupSignals(documents[d]) ELSE << >> ]
        = parts
    BY <1>1
  <2> HIDE DEF parts
  <2> QED BY <2>1 DEF LoadSignals
<1>3. LabelsOf(selector) = labels /\ (selector # Unset => labels # {})
  BY SelectorLabels
<1> HIDE DEF labels, selector, n
<1>4. \A d \in 1..n : d \in groups <=> Has(documents[d])
  <2>1. CASE selector = Unset
    <3>1. labels = {}
      BY <1>3, <2>1 DEF LabelsOf
    <3> QED BY <2>1, <3>1
  <2>2. CASE selector # Unset
    <3>1. labels = { <<l, selector[l]>> : l \in DOMAIN selector } /\ labels # {}
      BY <1>3, <2>2 DEF LabelsOf
    <3>2. ASSUME NEW doc
          PROVE  (\A label \in DOMAIN selector :
                    label \in DOMAIN doc.labels /\ doc.labels[label] = selector[label])
                 <=> \A pair \in labels : /\ pair[1] \in DOMAIN doc.labels
                                          /\ doc.labels[pair[1]] = pair[2]
      <4>1. ASSUME NEW label \in DOMAIN selector,
                   \A pair \in labels : /\ pair[1] \in DOMAIN doc.labels
                                        /\ doc.labels[pair[1]] = pair[2]
            PROVE  label \in DOMAIN doc.labels /\ doc.labels[label] = selector[label]
        <5>1. <<label, selector[label]>> \in labels
          BY <3>1
        <5> QED BY <4>1, <5>1
      <4>2. ASSUME NEW pair \in labels,
                   \A label \in DOMAIN selector :
                     label \in DOMAIN doc.labels /\ doc.labels[label] = selector[label]
            PROVE  pair[1] \in DOMAIN doc.labels /\ doc.labels[pair[1]] = pair[2]
        <5>1. PICK l \in DOMAIN selector : pair = <<l, selector[l]>>
          BY <3>1
        <5> QED BY <4>2, <5>1
      <4> QED BY <4>1, <4>2
    <3> QED BY <1>1, <2>2, <3>1, <3>2 DEF Search
  <2> QED BY <2>1, <2>2
<1>5. ASSUME NEW d \in 1..n
      PROVE  /\ GroupSignals(documents[d]) \in Seq(S)
             /\ ToSet(GroupSignals(documents[d])) = External(documents[d])
  <2>1. \A i \in DOMAIN documents[d].signals : documents[d].signals[i].signal \in S
    BY <1>1
  <2> HIDE DEF S
  <2> QED BY <1>1, <2>1, GroupNames
<1> HIDE DEF S, groups
<1>6. parts \in [1..n -> Seq(S)]
  BY <1>5
<1>7. \A d \in 1..n : ToSet(parts[d]) = IF Has(documents[d]) THEN External(documents[d]) ELSE {}
  <2>1. ToSet(<< >>) = {}
    BY DEF ToSet
  <2> HIDE DEF Has
  <2> QED BY <1>4, <1>5, <2>1
<1> HIDE DEF parts
<1>8. signals \in Seq(S) /\ ToSet(signals) = UNION {ToSet(parts[d]) : d \in 1..n}
  BY <1>1, <1>2, <1>6, FlattenElements
<1>9. Documented(spec, s) = UNION { External(doc) : doc \in { doc \in ToSet(documents) : Has(doc) } }
  BY DEF Documented, External, labels
<1>10. ToSet(documents) = { documents[d] : d \in 1..n }
  BY <1>1 DEF ToSet
<1>11. UNION {ToSet(parts[d]) : d \in 1..n} = Documented(spec, s)
  <2> HIDE DEF Has
  <2> QED BY <1>7, <1>9, <1>10
<1>12. IsList(signals)
  <2> HIDE DEF signals
  <2>1. Len(signals) \in Nat /\ signals = [i \in 1..Len(signals) |-> signals[i]]
    BY <1>8
  <2>2. \A i \in 1..Len(signals) : signals[i] \in ToSet(signals)
    BY <2>1 DEF ToSet
  <2> QED BY <2>1, <2>2 DEF IsList
<1> QED BY <1>8, <1>11, <1>12 DEF selector

-----------------------------------------------------------------------------
\* The vectors of a model.

LEMMA MaxIsMember ==
  ASSUME NEW n \in Nat, NEW S, S \subseteq 1..n, S # {}
  PROVE  Max(S) \in S
<1> DEFINE T == { n - x : x \in S }
<1>1. T \subseteq Nat /\ T # {}
  <2>1. \A x \in S : n - x \in Nat
    OBVIOUS
  <2>2. T \subseteq Nat
    BY <2>1
  <2> QED BY <2>2
<1>2. PICK m \in T : \A y \in T : m <= y
  <2> HIDE DEF T
  <2> QED BY <1>1, MinIsMember
<1>3. PICK x \in S : m = n - x
  OBVIOUS
<1>4. \A y \in S : y <= x
  <2> SUFFICES ASSUME NEW y \in S PROVE y <= x
    OBVIOUS
  <2>1. n - x <= n - y
    BY <1>2, <1>3
  <2>2. x \in Int /\ y \in Int
    OBVIOUS
  <2> QED BY <2>1, <2>2
<1> QED BY <1>3, <1>4 DEF Max

\* The vector of a channel of the stack.
VectorOf(spec, s) ==
  LET loaded == LoadSignals(spec.documents, Selector(s, ModelChannels(spec)))
  IN [ signals |-> loaded.signals, binary |-> loaded.binary, alias |-> s.alias ]

LEMMA SelectedSpec ==
  ASSUME NEW spec, Lists(spec), ~CreateFails(spec), NEW c \in ToSet(Selected(spec))
  PROVE  LET s == ChannelSpec(spec.channels, Wanted(c))
         IN s \in ToSet(spec.channels) /\ Wanted(c) \in {s.name, s.alias}
<1>1. Configurable(c, spec.channels)
  BY DEF CreateFails
<1>2. ChannelSpec(spec.channels, Wanted(c)) # Unset
  BY <1>1 DEF Configurable
<1> QED BY <1>2, SpecIsInStack

\* A model has the vectors of the channels that it asks for.
LEMMA VectorsAreThoseOfChannels ==
  ASSUME NEW spec, Lists(spec), NamesAreClear(spec), ~CreateFails(spec)
  PROVE  LET vs == CreatedVectors(spec)
         IN /\ \A name \in DOMAIN vs : \E s \in ToSet(spec.channels) :
                 name = s.name /\ vs[name] = VectorOf(spec, s)
            /\ \A c \in ToSet(Selected(spec)), s \in ToSet(spec.channels) :
                 Wanted(c) \in {s.name, s.alias} => s.name \in DOMAIN vs
<1> DEFINE ofStack == spec.channels
           selected == Selected(spec)
           n == Len(selected)
           channel == [ c \in DOMAIN selected |-> ChannelSpec(ofStack, Wanted(selected[c])) ]
           loaded == [ s \in ToSet(ofStack) |->
                         LoadSignals(spec.documents, Selector(s, ModelChannels(spec))) ]
           Named(name) == { c \in DOMAIN selected : channel[c].name = name }
           Full(name) == { c \in Named(name) : loaded[channel[c]].signals # << >> }
           Taken(name) == IF Full(name) = {} THEN Max(Named(name)) ELSE Min(Full(name))
           names == { channel[c].name : c \in DOMAIN selected }
           configured == Configured(spec.documents, ofStack, ModelChannels(spec), selected)
           vs == CreatedVectors(spec)
<1>1. /\ n \in Nat /\ DOMAIN selected = 1..n
      /\ \A c \in 1..n : selected[c] \in ToSet(selected)
  BY ModelLists, ListFacts
<1>2. ASSUME NEW c \in 1..n
      PROVE  /\ channel[c] = ChannelSpec(ofStack, Wanted(selected[c]))
             /\ channel[c] \in ToSet(ofStack)
             /\ Wanted(selected[c]) \in {channel[c].name, channel[c].alias}
  BY <1>1, SelectedSpec
<1>3. configured = [ name \in names |-> loaded[channel[Taken(name)]] ]
  BY DEF Configured
<1>4. ASSUME NEW name \in names
      PROVE  Taken(name) \in 1..n /\ channel[Taken(name)].name = name
  <2>1. Named(name) \subseteq 1..n /\ Named(name) # {} /\ Full(name) \subseteq Named(name)
    BY <1>1
  <2>2. Taken(name) \in Named(name)
    <3>1. CASE Full(name) = {}
      <4> HIDE DEF Named, Full, n
      <4>1. Max(Named(name)) \in Named(name)
        BY <1>1, <2>1, MaxIsMember
      <4> QED BY <3>1, <4>1
    <3>2. CASE Full(name) # {}
      <4>1. Full(name) \subseteq Nat
        BY <1>1, <2>1
      <4> HIDE DEF Named, Full
      <4>2. Min(Full(name)) \in Full(name)
        BY <3>2, <4>1, MinIsMember
      <4> QED BY <2>1, <3>2, <4>2
    <3> QED BY <3>1, <3>2
  <2> HIDE DEF Taken
  <2> QED BY <1>1, <2>2
<1>5. DOMAIN vs = names /\ \A name \in names :
        vs[name] = [ signals |-> configured[name].signals,
                     binary  |-> configured[name].binary,
                     alias   |-> FindChannel(ofStack, "name", name).alias ]
  <2>1. vs = [ name \in DOMAIN configured |->
                [ signals |-> configured[name].signals,
                  binary  |-> configured[name].binary,
                  alias   |-> FindChannel(ofStack, "name", name).alias ] ]
    <3> HIDE DEF configured
    <3>1. CreatedVectors(spec) = VectorsOf(spec.documents, ofStack, ModelChannels(spec), selected)
      BY DEF CreatedVectors
    <3> QED BY <3>1 DEF VectorsOf, configured
  <2>2. DOMAIN configured = names
    BY <1>3
  <2> HIDE DEF configured, names, vs
  <2> QED BY <2>1, <2>2
<1>6. ASSUME NEW name \in names
      PROVE  \E s \in ToSet(ofStack) : name = s.name /\ vs[name] = VectorOf(spec, s)
  <2>1. PICK s \in ToSet(ofStack) : s = channel[Taken(name)]
    BY <1>2, <1>4
  <2>2. s.name = name
    BY <1>4, <2>1
  <2>3. configured[name] = loaded[s]
    BY <1>3, <2>1
  <2>4. loaded[s] = LoadSignals(spec.documents, Selector(s, ModelChannels(spec)))
    OBVIOUS
  <2>5. FindChannel(ofStack, "name", name) = s
    BY <2>2, AliasOfName
  <2> HIDE DEF configured, names, vs, loaded
  <2> QED BY <1>5, <2>2, <2>3, <2>4, <2>5 DEF VectorOf
<1>7. ASSUME NEW c \in ToSet(selected), NEW s \in ToSet(ofStack), Wanted(c) \in {s.name, s.alias}
      PROVE  s.name \in names
  <2>1. PICK i \in 1..n : c = selected[i]
    BY <1>1 DEF ToSet
  <2>2. channel[i] = s
    BY <1>2, <1>7, <2>1, SpecOfWanted
  <2> QED BY <1>1, <2>1, <2>2
<1> HIDE DEF names, vs
<1> QED BY <1>5, <1>6, <1>7 DEF vs

\* Which is what the property says of a model.
AsDocumented(spec, vs, s) ==
  /\ \A signal \in Documented(spec, s) :
       /\ Indexed(vs, s.alias, signal) = {s.name}
       /\ vs[s.name].signals[ModelIndex(vs, s.alias, signal).signal] = signal
  /\ ToSet(vs[s.name].signals) = Documented(spec, s)

LEMMA CreatedAsDocumented ==
  ASSUME NEW spec, Lists(spec), NamesAreClear(spec), ~CreateFails(spec),
         NEW vs, vs = CreatedVectors(spec),
         NEW c \in ToSet(Selected(spec)), NEW s \in ToSet(spec.channels),
         Wanted(c) \in {s.name, s.alias}
  PROVE  AsDocumented(spec, vs, s)
<1>1. /\ s.name \in DOMAIN vs
      /\ \A name \in DOMAIN vs : \E t \in ToSet(spec.channels) :
           name = t.name /\ vs[name] = VectorOf(spec, t)
  BY VectorsAreThoseOfChannels
<1>2. \A t \in ToSet(spec.channels) : t.name = s.name \/ t.alias = s.alias => t = s
  BY DEF NamesAreClear
<1>3. vs[s.name] = VectorOf(spec, s)
  BY <1>1, <1>2
<1>4. vs[s.name].alias = s.alias
  BY <1>3 DEF VectorOf
<1>5. IsList(vs[s.name].signals) /\ ToSet(vs[s.name].signals) = Documented(spec, s)
  BY <1>3, LoadedSignals DEF VectorOf
<1>6. ASSUME NEW name \in DOMAIN vs, vs[name].alias = s.alias PROVE name = s.name
  <2>1. PICK t \in ToSet(spec.channels) : name = t.name /\ vs[name] = VectorOf(spec, t)
    BY <1>1
  <2>2. t.alias = s.alias
    BY <1>6, <2>1 DEF VectorOf
  <2> QED BY <1>2, <2>1, <2>2
<1>7. ASSUME NEW signal \in Documented(spec, s)
      PROVE  /\ Indexed(vs, s.alias, signal) = {s.name}
             /\ vs[s.name].signals[ModelIndex(vs, s.alias, signal).signal] = signal
  <2>1. Indexed(vs, s.alias, signal) = {s.name}
    BY <1>1, <1>4, <1>5, <1>6 DEF Indexed
  <2> DEFINE places == { i \in DOMAIN vs[s.name].signals : vs[s.name].signals[i] = signal }
  <2>2. ModelIndex(vs, s.alias, signal).signal = Max(places)
    BY <2>1 DEF ModelIndex
  <2>3. places # {} /\ places \subseteq 1..Len(vs[s.name].signals)
    BY <1>5, ListFacts DEF ToSet
  <2>4. Len(vs[s.name].signals) \in Nat
    BY <1>5, ListFacts
  <2>5. Max(places) \in places
    <3> HIDE DEF places
    <3> QED BY <2>3, <2>4, MaxIsMember
  <2> QED BY <2>1, <2>2, <2>5
<1> QED BY <1>5, <1>7 DEF AsDocumented

\* A model that is there has the vectors that it was created with.
VectorInv ==
  /\ vectors = [p \in Places |-> vectors[p]]
  /\ \A p \in Places : life[p] = "created" =>
       /\ p \in 1..N
       /\ ~CreateFails(file[p])
       /\ vectors[p] = CreatedVectors(file[p])

LEMMA VectorsStay ==
  ASSUME VectorInv, UNCHANGED <<file, vectors>>,
         \A p \in Places : life'[p] = "created" => life[p] = "created"
  PROVE  VectorInv'
  BY DEF VectorInv, N

LEMMA LoadVectors ==
  ASSUME TypeOK, VectorInv, LoadModel
  PROVE  VectorInv'
<1> DEFINE spec == file[at]
           complete == VTable(spec) \cap {"create", "step"} # {}
           fails == LoadFails(spec) \/ (complete /\ CreateFails(spec))
<1>1. /\ \/ UNCHANGED <<vectors, life>>
         \/ /\ ~fails /\ complete
            /\ vectors' = [vectors EXCEPT ![at] = CreatedVectors(spec)]
            /\ life' = [life EXCEPT ![at] = "created"]
      /\ file' = file /\ phase = "load"
  BY Zenon DEF LoadModel, setupVars
<1>2. N' = N
  BY <1>1 DEF N
<1>3. CASE UNCHANGED <<vectors, life>>
  BY <1>1, <1>3, VectorsStay
<1>4. CASE /\ ~fails /\ complete
           /\ vectors' = [vectors EXCEPT ![at] = CreatedVectors(spec)]
           /\ life' = [life EXCEPT ![at] = "created"]
  <2>1. ~CreateFails(spec)
    BY <1>4
  <2>2. at \in Places /\ at \in 1..N
    <3>1. file # << >> /\ at \in Places /\ at <= N
      BY <1>1 DEF TypeOK
    <3> QED BY <3>1, InstanceCount, RunAssumption DEF Places
  <2>3. life \in [Places -> {"none", "created", "destroyed"}]
    BY DEF TypeOK
  <2>4. ASSUME NEW p \in Places, life'[p] = "created"
        PROVE  p \in 1..N /\ ~CreateFails(file[p]) /\ vectors'[p] = CreatedVectors(file[p])
    <3>1. CASE p = at
      BY <1>4, <2>1, <2>2, <3>1 DEF VectorInv
    <3>2. CASE p # at
      BY <1>4, <2>2, <2>3, <2>4, <3>2 DEF VectorInv
    <3> QED BY <3>1, <3>2
  <2>5. vectors' = [p \in Places |-> vectors'[p]]
    BY <1>4, <2>2 DEF VectorInv
  <2> QED BY <1>1, <1>2, <2>4, <2>5 DEF VectorInv
<1> QED BY <1>1, <1>3, <1>4

LEMMA VectorStep == IInv /\ VectorInv /\ [Next]_vars => VectorInv'
<1> SUFFICES ASSUME IInv, VectorInv, [Next]_vars PROVE VectorInv'
  OBVIOUS
<1>0. TypeOK /\ Lives
  BY DEF IInv
<1>1. CASE Configure
  <2>1. phase = "configure" /\ UNCHANGED <<vectors, life>>
    BY <1>1, Zenon DEF Configure, modelVars
  <2>2. \A p \in Places : life'[p] # "created"
    BY <1>0, <2>1 DEF Lives, Setup
  <2> QED BY <2>1, <2>2 DEF VectorInv
<1>2. CASE LoadModel
  BY <1>0, <1>2, LoadVectors
<1>3. CASE ParseArguments \/ CreateEndpoint \/ AssignUids \/ InitController
  <2>1. UNCHANGED <<file, vectors, life>>
    BY <1>3, Zenon DEF ParseArguments, CreateEndpoint, AssignUids, InitController, setupVars,
                       modelVars
  <2> QED BY <2>1, VectorsStay
<1>4. CASE Connect \/ Register \/ CheckStop \/ Start \/ StartInterrupted \/ StartTimeout \/ Signal
  <2>1. UNCHANGED <<file, vectors, life>>
    BY <1>4, Zenon DEF Connect, Register, CheckStop, Start, StartInterrupted, StartTimeout,
                       Signal, setupVars, modelVars
  <2> QED BY <2>1, VectorsStay
<1>5. CASE StepModel
  <2>1. UNCHANGED <<file, vectors, life>>
    BY <1>5, Zenon DEF StepModel, setupVars
  <2> QED BY <2>1, VectorsStay
<1>6. CASE DestroyModel
  <2>1. /\ UNCHANGED <<file, vectors>>
        /\ life' = [life EXCEPT ![at] = IF @ = "created" THEN "destroyed" ELSE @]
    BY <1>6, Zenon DEF DestroyModel, setupVars
  <2>2. \A p \in Places : life'[p] = "created" => life[p] = "created"
    BY <1>0, <2>1 DEF TypeOK
  <2> QED BY <2>1, <2>2, VectorsStay
<1>7. CASE UNCHANGED vars
  <2>1. UNCHANGED <<file, vectors, life>>
    BY <1>7 DEF vars, setupVars, modelVars
  <2> QED BY <2>1, VectorsStay
<1> QED BY <1>1, <1>2, <1>3, <1>4, <1>5, <1>6, <1>7, Zenon DEF Next, Process

\* A model can index exactly the signals that the documents give its channels,
\* as far as it is clear which channel of the stack a name or an alias means:
\* model_configure_channel and schema_build_channel_selector take the first
\* that they find, and model_index the first vector with the alias.
THEOREM ChannelsAsDocumented ==
  ASSUME \A f \in Files : \A p \in 1..Len(f) : NamesAreClear(f[p])
  PROVE  Spec => []SignalsAsDocumented
<1>1. Init => VectorInv
  <2> SUFFICES ASSUME Init PROVE VectorInv
    OBVIOUS
  <2>1. vectors = [p \in Places |-> << >>] /\ life = [p \in Places |-> "none"]
    BY Zenon DEF Init
  <2> QED BY <2>1 DEF VectorInv
<1>2. ASSUME TypeOK, VectorInv PROVE SignalsAsDocumented
  <2> SUFFICES ASSUME phase = "connect", NEW p \in 1..N, life[p] = "created",
                      NEW c \in ToSet(Selected(file[p])), NEW s \in ToSet(file[p].channels),
                      Wanted(c) \in {s.name, s.alias}
               PROVE  AsDocumented(file[p], vectors[p], s)
    BY DEF SignalsAsDocumented, AsDocumented
  <2>1. file # << >> /\ file \in Files
    BY <1>2 DEF TypeOK
  <2>2. p \in Places
    BY <1>2, <2>1, InstanceCount, RunAssumption DEF Places
  <2>3. p \in 1..Len(file)
    BY DEF N
  <2>4. Lists(file[p]) /\ NamesAreClear(file[p])
    BY <2>1, <2>3, FilesAssumption DEF Lists
  <2>5. ~CreateFails(file[p]) /\ vectors[p] = CreatedVectors(file[p])
    BY <1>2, <2>2 DEF VectorInv
  <2>6. PICK spec, vs : spec = file[p] /\ vs = vectors[p]
    OBVIOUS
  <2>7. /\ Lists(spec) /\ NamesAreClear(spec) /\ ~CreateFails(spec)
        /\ vs = CreatedVectors(spec)
        /\ c \in ToSet(Selected(spec)) /\ s \in ToSet(spec.channels)
    BY <2>4, <2>5, <2>6
  <2>8. AsDocumented(spec, vs, s)
    BY <2>7, CreatedAsDocumented
  <2> QED BY <2>6, <2>8
<1>3. IInv => TypeOK
  BY DEF IInv
<1> QED BY <1>1, <1>2, <1>3, VectorStep, Invariant, PTL DEF Spec
=============================================================================
