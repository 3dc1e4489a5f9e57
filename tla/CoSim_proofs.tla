---------------------------- MODULE CoSim_proofs ----------------------------
(***************************************************************************)
(* Theorems about the co-simulation for every topology, retry count and    *)
(* end time, and with any process stopped, killed or timing out.  First    *)
(* its types; then that the protocol of SimBus and ModelC processes        *)
(* implements the barrier of LockStep, and that the bus does not advance   *)
(* under a model that is stepping.                                         *)
(*                                                                         *)
(* The argument follows the request of a process for its next cycle: it is *)
(* a ModelReady on the list of the SimBus, then a member of the ready      *)
(* sets, then a ModelStart on the list of the process, and never two of    *)
(* these at a time (BatonInv).                                             *)
(***************************************************************************)
EXTENDS CoSim, FiniteSetTheorems, TLAPS

-----------------------------------------------------------------------------
\* Type correctness.

LEMMA LinkInLink ==
  ASSUME SimTypeOK, NEW s \in Sims
  PROVE  CurrentLink(s) \in Link
  BY TopologyAssumption DEF CurrentLink, SimTypeOK

LEMMA InitTypeOK == Init => TypeOK
<1> SUFFICES ASSUME Init PROVE TypeOK
  OBVIOUS
<1>1. TransportTypeOK
  BY DEF Init, TransportInit, TransportTypeOK
<1>2. BusTypeOK
  BY DEF Init, BusInit, BusTypeOK
<1>3. SimTypeOK
  BY TopologyAssumption, AdapterAssumption DEF Init, SimInit, SimTypeOK, Phases
<1> QED BY <1>1, <1>2, <1>3 DEF TypeOK, Init

LEMMA NotifyType ==
  ASSUME TransportTypeOK, NEW S, NEW m \in ToSimMessage, Notify(S, m)
  PROVE  toSim' \in [Sims -> Seq(ToSimMessage)]
  BY DEF TransportTypeOK, Notify

LEMMA BusStepTypeOK ==
  ASSUME TypeOK, BusNext
  PROVE  TransportTypeOK' /\ BusTypeOK'
<1> USE DEF TypeOK, BusTypeOK
<1>1. CASE StartBus
  BY <1>1 DEF StartBus, transportVars, TransportTypeOK
<1>2. ASSUME NEW type, Handles(type)
      PROVE  /\ Head(toBus) \in ToBusMessage
             /\ Head(toBus).type = type
             /\ toBus' \in Seq(ToBusMessage)
  BY <1>2 DEF Handles, PopBus, TransportTypeOK
<1>3. CASE HandleModelRegister
  <2>1. Head(toBus).sim \in Sims /\ Head(toBus).link \in Link /\ Head(toBus).token \in Nat
    BY <1>2, <1>3 DEF HandleModelRegister, ToBusMessage
  <2> DEFINE ack == [type |-> "ModelRegister", link |-> Head(toBus).link,
                     token |-> Head(toBus).token]
  <2>2. ack \in ToSimMessage
    BY <2>1 DEF ToSimMessage
  <2>3. toSim' \in [Sims -> Seq(ToSimMessage)]
    BY <1>3, <2>2, NotifyType DEF HandleModelRegister
  <2>4. registerSet' \in [Channels -> SUBSET Models]
    BY <1>3, <2>1 DEF HandleModelRegister, Add, Link
  <2> QED
    BY <1>2, <1>3, <2>1, <2>3, <2>4 DEF HandleModelRegister, TransportTypeOK
<1>4. CASE HandleSignalIndex
  <2>1. Head(toBus).link \in Link /\ Head(toBus).token \in Nat
    BY <1>2, <1>4 DEF HandleSignalIndex, ToBusMessage
  <2> DEFINE reply == [type |-> "SignalIndex", link |-> Head(toBus).link,
                       token |-> Head(toBus).token]
  <2>2. reply \in ToSimMessage
    BY <2>1 DEF ToSimMessage
  <2>3. toSim' \in [Sims -> Seq(ToSimMessage)]
    BY <1>4, <2>2, NotifyType DEF HandleSignalIndex
  <2> QED
    BY <1>2, <1>4, <2>3 DEF HandleSignalIndex, TransportTypeOK, busVars
<1>5. CASE HandleModelExit
  <2>1. Head(toBus).link \in Link
    BY <1>2, <1>5 DEF HandleModelExit, ToBusMessage
  <2>2. /\ registerSet' \in [Channels -> SUBSET Models]
        /\ readySet' \in [Channels -> SUBSET Models]
    BY <1>5, <2>1 DEF HandleModelExit, Remove
  <2>3. busPhase' \in {"off", "run", "exit"}
    BY <1>5 DEF HandleModelExit
  <2> QED
    BY <1>2, <1>5, <2>2, <2>3 DEF HandleModelExit, TransportTypeOK
<1>6. CASE HandleModelReady
  <2> DEFINE sim == Head(toBus).sim
             ready == AddAll(readySet, LinksOf(sim))
             start == [type |-> "ModelStart", modelTime |-> busTime',
                       stopTime |-> busTime' + 1]
  <2>1. sim \in Sims
    BY <1>2, <1>6 DEF HandleModelReady, ToBusMessage
  <2>2. LinksOf(sim) \subseteq Link
    BY <2>1, TopologyAssumption DEF LinksOf
  <2>3. ready \in [Channels -> SUBSET Models]
    BY <2>2 DEF AddAll, Link
  <2>4. CASE AllExpected(registerSet) /\ AllExpected(ready)
    <3>1. /\ busTime' = busTime + 1
          /\ readySet' = [c \in Channels |-> {}]
          /\ Notify(notifyUids, start)
      BY <1>6, <2>4 DEF HandleModelReady
    <3>2. start \in ToSimMessage
      BY <3>1 DEF ToSimMessage
    <3>3. toSim' \in [Sims -> Seq(ToSimMessage)]
      BY <3>1, <3>2, NotifyType
    <3> QED
      BY <1>2, <1>6, <3>1, <3>3 DEF HandleModelReady, TransportTypeOK
  <2>5. CASE ~(AllExpected(registerSet) /\ AllExpected(ready))
    <3>1. readySet' = ready /\ UNCHANGED <<busTime, toSim>>
      BY <1>6, <2>5 DEF HandleModelReady
    <3> QED
      BY <1>2, <1>6, <2>3, <3>1 DEF HandleModelReady, TransportTypeOK
  <2> QED BY <2>4, <2>5
<1> QED BY <1>1, <1>3, <1>4, <1>5, <1>6 DEF BusNext, BusHandle

LEMMA SendToBusType ==
  ASSUME TransportTypeOK, NEW m \in ToBusMessage, SendToBus(m), UNCHANGED toSim
  PROVE  TransportTypeOK'
  BY DEF TransportTypeOK, SendToBus

LEMMA ReceivesType ==
  ASSUME TransportTypeOK, NEW s \in Sims, Receives(s), UNCHANGED toBus
  PROVE  TransportTypeOK' /\ Head(toSim[s]) \in ToSimMessage
  BY DEF TransportTypeOK, Receives, PopSim

LEMMA LinksLength ==
  ASSUME NEW s \in Sims
  PROVE  /\ Len(Links[s]) \in Nat \ {0}
         /\ DOMAIN Links[s] = 1..Len(Links[s])
  BY TopologyAssumption

LEMMA NextLinkType ==
  ASSUME SimTypeOK, NEW s \in Sims, NEW more \in Phases, NEW last \in Phases,
         NextLink(s, more, last)
  PROVE  /\ phase' \in [Sims -> Phases]
         /\ phase' = [phase EXCEPT ![s] = more] \/ phase' = [phase EXCEPT ![s] = last]
         /\ at' \in [Sims -> Nat]
         /\ \A t \in Sims : at'[t] \in DOMAIN Links[t]
<1>1. PICK p \in {more, last} : phase' = [phase EXCEPT ![s] = p]
  BY DEF NextLink, Becomes
<1>2. /\ at[s] \in Nat /\ at[s] \in 1..Len(Links[s])
      /\ at \in [Sims -> Nat]
  BY LinksLength DEF SimTypeOK
<1>3. PICK i \in 1..Len(Links[s]) : at' = [at EXCEPT ![s] = i]
  <2>1. CASE at[s] < Len(Links[s])
    <3>1. at[s] + 1 \in 1..Len(Links[s])
      BY <1>2, <2>1, LinksLength
    <3> QED BY <2>1, <3>1 DEF NextLink
  <2>2. CASE ~(at[s] < Len(Links[s]))
    <3>1. 1 \in 1..Len(Links[s])
      BY LinksLength
    <3> QED BY <2>2, <3>1 DEF NextLink
  <2> QED BY <2>1, <2>2
<1>4. \A t \in Sims : at'[t] \in DOMAIN Links[t]
  BY <1>2, <1>3, LinksLength DEF SimTypeOK
<1>5. at' \in [Sims -> Nat]
  BY <1>2, <1>3, LinksLength
<1>6. phase' \in [Sims -> Phases]
  BY <1>1 DEF SimTypeOK
<1> QED BY <1>1, <1>4, <1>5, <1>6

LEMMA ConnectedType ==
  ASSUME SimTypeOK, NEW s \in Sims, Connected(s),
         UNCHANGED <<token, indexed, stop, modelTime, stopTime>>
  PROVE  SimTypeOK'
<1>1. NextLink(s, "connect", IF stop[s] THEN "exit" ELSE "index")
  BY DEF Connected
<1>2. "connect" \in Phases /\ (IF stop[s] THEN "exit" ELSE "index") \in Phases
  BY DEF Phases
<1>3. tries' = [tries EXCEPT ![s] = 0]
  BY DEF Connected
<1> QED
  BY <1>1, <1>2, <1>3, NextLinkType, AdapterAssumption DEF SimTypeOK

LEMMA SimStepTypeOK ==
  ASSUME TypeOK, NEW s \in Sims, SimStep(s)
  PROVE  TransportTypeOK' /\ SimTypeOK'
<1> USE DEF TypeOK
<1>0. /\ CurrentLink(s) \in Link
      /\ TransportTypeOK
      /\ SimTypeOK
  BY LinkInLink
<1>a. UNCHANGED transportVars => TransportTypeOK'
  BY DEF transportVars, TransportTypeOK
<1>b. ASSUME NEW p \in Phases \ {"connect"}, Becomes(s, p),
             UNCHANGED <<at, tries, token, indexed, stop>>,
             modelTime' \in [Sims -> Int], stopTime' \in [Sims -> Int]
      PROVE  SimTypeOK'
  BY <1>b DEF SimTypeOK, Becomes
<1>1. CASE SendModelRegister(s)
  <2> DEFINE m == [type |-> "ModelRegister", sim |-> s,
                   link |-> CurrentLink(s), token |-> token'[s]]
  <2>1. token' \in [Sims -> Nat]
    BY <1>1 DEF SendModelRegister, SimTypeOK
  <2>2. m \in ToBusMessage
    BY <1>0, <2>1 DEF ToBusMessage
  <2>3. TransportTypeOK'
    BY <1>0, <1>1, <2>2, SendToBusType DEF SendModelRegister
  <2>4. tries' \in [Sims -> 0..RetryCount]
    BY <1>1, AdapterAssumption DEF SendModelRegister, SimTypeOK
  <2>5. phase' \in [Sims -> Phases] /\ \A t \in Sims : phase'[t] = "connect" => tries'[t] < RetryCount
    BY <1>1 DEF SendModelRegister, SimTypeOK, Becomes, Phases
  <2> QED BY <1>1, <2>1, <2>3, <2>4, <2>5 DEF SendModelRegister, SimTypeOK
<1>2. CASE ReceiveRegisterAck(s)
  BY <1>0, <1>2, ReceivesType, ConnectedType DEF ReceiveRegisterAck
<1>3. CASE RegisterTimeout(s)
  <2>1. CASE tries[s] < RetryCount
    BY <1>3, <1>a, <2>1 DEF RegisterTimeout, SimTypeOK, Becomes, Phases
  <2>2. CASE ~(tries[s] < RetryCount)
    BY <1>0, <1>3, <1>a, <2>2, ConnectedType DEF RegisterTimeout
  <2> QED BY <2>1, <2>2
<1>4. CASE RegisterInterrupted(s)
  BY <1>0, <1>4, <1>a, ConnectedType DEF RegisterInterrupted
<1>5. CASE SendSignalIndex(s)
  <2> DEFINE m == [type |-> "SignalIndex", link |-> CurrentLink(s),
                   token |-> token'[s]]
  <2>1. token' \in [Sims -> Nat]
    BY <1>5 DEF SendSignalIndex, SimTypeOK
  <2>2. m \in ToBusMessage
    BY <1>0, <2>1 DEF ToBusMessage
  <2>3. TransportTypeOK'
    BY <1>0, <1>5, <2>2, SendToBusType DEF SendSignalIndex
  <2> QED BY <1>5, <2>1, <2>3 DEF SendSignalIndex, SimTypeOK, Becomes, Phases
<1>6. CASE ReceiveSignalIndex(s)
  <2>1. TransportTypeOK' /\ Head(toSim[s]) \in ToSimMessage
    BY <1>0, <1>6, ReceivesType DEF ReceiveSignalIndex
  <2>2. Head(toSim[s]).link \in Link
    BY <1>6, <2>1 DEF ReceiveSignalIndex, IsReply, ToSimMessage
  <2>3. indexed' \in [Sims -> SUBSET Link]
    BY <1>6, <2>2 DEF ReceiveSignalIndex, SimTypeOK
  <2>4. "index" \in Phases /\ "loop" \in Phases
    BY DEF Phases
  <2> QED
    BY <1>0, <1>6, <2>1, <2>3, <2>4, NextLinkType DEF ReceiveSignalIndex, SimTypeOK
<1>7. CASE NoSignalIndex(s) \/ LeaveLoop(s) \/ StartTimeout(s) \/ StartInterrupted(s)
  BY <1>7, <1>a, <1>b
     DEF NoSignalIndex, LeaveLoop, StartTimeout, StartInterrupted, Phases, SimTypeOK
<1>8. CASE SendModelReady(s)
  <2>1. [type |-> "ModelReady", sim |-> s] \in ToBusMessage
    BY DEF ToBusMessage
  <2> QED
    BY <1>0, <1>8, <1>b, <2>1, SendToBusType DEF SendModelReady, Phases, SimTypeOK
<1>9. CASE ReceiveModelStart(s)
  <2>1. TransportTypeOK' /\ Head(toSim[s]) \in ToSimMessage
    BY <1>0, <1>9, ReceivesType DEF ReceiveModelStart
  <2>2. Head(toSim[s]).modelTime \in Int /\ Head(toSim[s]).stopTime \in Int
    BY <1>9, <2>1 DEF ReceiveModelStart, ToSimMessage
  <2>3. modelTime' \in [Sims -> Int] /\ stopTime' \in [Sims -> Int]
    BY <1>9, <2>2 DEF ReceiveModelStart, SimTypeOK
  <2> QED BY <1>9, <1>b, <2>1, <2>3 DEF ReceiveModelStart, Phases
<1>10. CASE StepModels(s)
  BY <1>10, <1>a, <1>b DEF StepModels, Phases, SimTypeOK
<1>11. CASE Discard(s)
  BY <1>0, <1>11, ReceivesType DEF Discard, simVars, SimTypeOK
<1>12. CASE SendModelExit(s)
  <2>1. [type |-> "ModelExit", link |-> CurrentLink(s)] \in ToBusMessage
    BY <1>0 DEF ToBusMessage
  <2>2. "exit" \in Phases /\ "done" \in Phases
    BY DEF Phases
  <2> QED
    BY <1>0, <1>12, <2>1, <2>2, SendToBusType, NextLinkType
       DEF SendModelExit, SimTypeOK
<1> QED
  BY <1>1, <1>2, <1>3, <1>4, <1>5, <1>6, <1>7, <1>8, <1>9, <1>10, <1>11, <1>12
     DEF SimStep

LEMMA StepTypeOK == TypeOK /\ [Next]_vars => TypeOK'
<1> SUFFICES ASSUME TypeOK, [Next]_vars PROVE TypeOK'
  OBVIOUS
<1>1. CASE Bus
  BY <1>1, BusStepTypeOK DEF Bus, TypeOK, simVars, SimTypeOK
<1>2. ASSUME NEW s \in Sims, Sim(s) PROVE TypeOK'
  <2>1. asked' \in [Sims -> Nat]
    BY <1>2 DEF Sim, CountReady, TypeOK
  <2> QED
    BY <1>2, <2>1, SimStepTypeOK DEF Sim, TypeOK, busVars, BusTypeOK
<1>3. ASSUME NEW s \in Sims, Environment(s) PROVE TypeOK'
  <2>1. UNCHANGED <<transportVars, busVars, asked>>
    BY <1>3 DEF Environment, RequestStop, Kill
  <2>2. SimTypeOK'
    BY <1>3 DEF Environment, RequestStop, Kill, Becomes, Phases, TypeOK, SimTypeOK
  <2> QED
    BY <2>1, <2>2
       DEF transportVars, busVars, TypeOK, TransportTypeOK, BusTypeOK
<1>4. CASE UNCHANGED vars
  BY <1>4 DEF vars, transportVars, busVars, simVars, TypeOK, TransportTypeOK,
              BusTypeOK, SimTypeOK
<1> QED BY <1>1, <1>2, <1>3, <1>4 DEF Next

\* Every variable keeps its type: the messages on the lists are well formed,
\* no process is ever past its last link, and no link is tried more than
\* RetryCount times.
THEOREM TypeCorrect == Spec => []TypeOK
  BY InitTypeOK, StepTypeOK, PTL DEF Spec

-----------------------------------------------------------------------------
\* What is on a list after a message was taken from it or added to it.

LEMMA BusPop ==
  ASSUME TransportTypeOK, toBus # << >>, PopBus
  PROVE  /\ 1 \in DOMAIN toBus
         /\ Head(toBus) = toBus[1]
         /\ \A i \in DOMAIN toBus' : /\ i + 1 \in DOMAIN toBus
                                     /\ i + 1 # 1
                                     /\ i \in Int
                                     /\ toBus'[i] = toBus[i + 1]
  BY DEF TransportTypeOK, PopBus

LEMMA BusPush ==
  ASSUME TransportTypeOK, NEW m \in ToBusMessage, SendToBus(m)
  PROVE  \A i \in DOMAIN toBus' :
           \/ i \in DOMAIN toBus /\ toBus'[i] = toBus[i]
           \/ i = Len(toBus) + 1 /\ toBus'[i] = m
  BY DEF TransportTypeOK, SendToBus

LEMMA SimPop ==
  ASSUME TransportTypeOK, NEW s \in Sims, toSim[s] # << >>, PopSim(s)
  PROVE  /\ 1 \in DOMAIN toSim[s]
         /\ Head(toSim[s]) = toSim[s][1]
         /\ \A i \in DOMAIN toSim'[s] : /\ i + 1 \in DOMAIN toSim[s]
                                        /\ i + 1 # 1
                                        /\ i \in Int
                                        /\ toSim'[s][i] = toSim[s][i + 1]
         /\ \A t \in Sims \ {s} : toSim'[t] = toSim[t]
  BY DEF TransportTypeOK, PopSim

LEMMA SimPush ==
  ASSUME TransportTypeOK, NEW S, NEW m \in ToSimMessage, Notify(S, m)
  PROVE  \A t \in Sims : \A i \in DOMAIN toSim'[t] :
           \/ i \in DOMAIN toSim[t] /\ toSim'[t][i] = toSim[t][i]
           \/ i = Len(toSim[t]) + 1 /\ toSim'[t][i] = m
  BY DEF TransportTypeOK, Notify

-----------------------------------------------------------------------------
\* Steps that neither ask, start a cycle nor take a ModelStart.

LEMMA LinksAreLinks ==
  ASSUME NEW s \in Sims
  PROVE  LinksOf(s) \subseteq Link
  BY TopologyAssumption DEF LinksOf

LEMMA RequestsKept ==
  ASSUME TypeOK, Requests, UNCHANGED <<busTime, asked>>,
         \A c \in Channels : readySet'[c] \subseteq readySet[c],
         \/ UNCHANGED toBus
         \/ toBus # << >> /\ PopBus
         \/ \E m \in ToBusMessage : m.type # "ModelReady" /\ SendToBus(m)
  PROVE  Requests'
<1> USE DEF Requests, Cycles, ReadyQueued
<1>1. \A s \in Sims : InReadySet(s)' => InReadySet(s)
  BY LinksAreLinks DEF InReadySet, Link
<1>2. CASE UNCHANGED toBus
  BY <1>1, <1>2
<1>3. CASE toBus # << >> /\ PopBus
  BY <1>1, <1>3, BusPop DEF TypeOK
<1>4. ASSUME NEW m \in ToBusMessage, m.type # "ModelReady", SendToBus(m)
      PROVE  Requests'
  BY <1>1, <1>4, BusPush DEF TypeOK
<1> QED BY <1>2, <1>3, <1>4

LEMMA GrantsKept ==
  ASSUME TypeOK, Grants, UNCHANGED <<busTime, stopTime>>,
         \/ UNCHANGED toSim
         \/ \E s \in Sims : toSim[s] # << >> /\ PopSim(s)
         \/ \E S : \E m \in ToSimMessage : m.type # "ModelStart" /\ Notify(S, m)
  PROVE  Grants'
<1> USE DEF Grants, Cycles, StartQueued
<1>1. CASE UNCHANGED toSim
  BY <1>1
<1>2. ASSUME NEW s \in Sims, toSim[s] # << >>, PopSim(s) PROVE Grants'
  BY <1>2, SimPop DEF TypeOK
<1>3. ASSUME NEW S, NEW m \in ToSimMessage, m.type # "ModelStart", Notify(S, m)
      PROVE  Grants'
  BY <1>3, SimPush DEF TypeOK
<1> QED BY <1>1, <1>2, <1>3

-----------------------------------------------------------------------------
\* The steps of the SimBus.

LEMMA HandledMessage ==
  ASSUME TypeOK, NEW type, Handles(type)
  PROVE  /\ Head(toBus) \in ToBusMessage
         /\ Head(toBus).type = type
         /\ toBus # << >> /\ PopBus
  BY DEF Handles, PopBus, TypeOK, TransportTypeOK

LEMMA StartBusBaton ==
  ASSUME TypeOK, BatonInv, StartBus, UNCHANGED <<simVars, asked>>
  PROVE  BatonInv'
<1>1. UNCHANGED <<busTime, readySet, toBus, toSim, asked, stopTime, phase, stop, modelTime>>
  BY DEF StartBus, transportVars, simVars
<1> QED
  BY <1>1, RequestsKept, GrantsKept
     DEF BatonInv, Places, Progress, Cycles

LEMMA RegisterBaton ==
  ASSUME TypeOK, BatonInv, HandleModelRegister, UNCHANGED <<simVars, asked>>
  PROVE  BatonInv'
<1> DEFINE m == Head(toBus)
           ack == [type |-> "ModelRegister", link |-> m.link, token |-> m.token]
<1>1. m \in ToBusMessage /\ m.type = "ModelRegister" /\ toBus # << >> /\ PopBus
  BY HandledMessage DEF HandleModelRegister
<1>2. ack \in ToSimMessage /\ ack.type # "ModelStart"
  BY <1>1 DEF ToBusMessage, ToSimMessage
<1>3. Notify(notifyUids', ack) /\ UNCHANGED <<busTime, readySet>>
  BY DEF HandleModelRegister
<1>4. UNCHANGED <<asked, stopTime, phase, stop, modelTime>>
  BY DEF simVars
<1>5. Requests'
  BY <1>1, <1>3, <1>4, RequestsKept DEF BatonInv
<1>6. Grants'
  BY <1>2, <1>3, <1>4, GrantsKept DEF BatonInv
<1> QED
  BY <1>3, <1>4, <1>5, <1>6 DEF BatonInv, Places, Progress, Cycles

LEMMA SignalIndexBaton ==
  ASSUME TypeOK, BatonInv, HandleSignalIndex, UNCHANGED <<simVars, asked>>
  PROVE  BatonInv'
<1> DEFINE m == Head(toBus)
           reply == [type |-> "SignalIndex", link |-> m.link, token |-> m.token]
<1>1. m \in ToBusMessage /\ m.type = "SignalIndex" /\ toBus # << >> /\ PopBus
  BY HandledMessage DEF HandleSignalIndex
<1>2. reply \in ToSimMessage /\ reply.type # "ModelStart"
  BY <1>1 DEF ToBusMessage, ToSimMessage
<1>3. Notify(notifyUids, reply) /\ UNCHANGED <<busTime, readySet>>
  BY DEF HandleSignalIndex, busVars
<1>4. UNCHANGED <<asked, stopTime, phase, stop, modelTime>>
  BY DEF simVars
<1>5. Requests'
  BY <1>1, <1>3, <1>4, RequestsKept DEF BatonInv
<1>6. Grants'
  BY <1>2, <1>3, <1>4, GrantsKept DEF BatonInv
<1> QED
  BY <1>3, <1>4, <1>5, <1>6 DEF BatonInv, Places, Progress, Cycles

LEMMA ExitBaton ==
  ASSUME TypeOK, BatonInv, HandleModelExit, UNCHANGED <<simVars, asked>>
  PROVE  BatonInv'
<1>1. toBus # << >> /\ PopBus
  BY HandledMessage DEF HandleModelExit
<1>2. UNCHANGED <<busTime, toSim, asked, stopTime, phase, stop, modelTime>>
  BY DEF HandleModelExit, simVars
<1>3. \A c \in Channels : readySet'[c] \subseteq readySet[c]
  BY DEF HandleModelExit, Remove, TypeOK, BusTypeOK
<1>4. Requests'
  BY <1>1, <1>2, <1>3, RequestsKept DEF BatonInv
<1>5. Grants'
  BY <1>2, GrantsKept DEF BatonInv
<1> QED
  BY <1>2, <1>4, <1>5 DEF BatonInv, Places, Progress, Cycles

\* A link belongs to one process only.
LEMMA OwnLink ==
  ASSUME NEW s \in Sims, NEW t \in Sims, NEW k \in LinksOf(s), NEW l \in LinksOf(t),
         k.model = l.model
  PROVE  s = t
  BY UidAssumption DEF ModelsOf

\* Ready sets that hold as many models as a channel has are complete.
LEMMA AllExpectedMembers ==
  ASSUME NEW sets, AllExpected(sets),
         \A c \in Channels : sets[c] \subseteq Members(c)
  PROVE  \A c \in Channels : sets[c] = Members(c)
<1> SUFFICES ASSUME NEW c \in Channels PROVE sets[c] = Members(c)
  OBVIOUS
<1>1. Members(c) \subseteq Models
  BY LinksAreLinks DEF Members, ChannelLinks, Link
<1>2. IsFiniteSet(Members(c))
  BY <1>1, TopologyAssumption, FS_Subset
<1>3. Cardinality(sets[c]) = Cardinality(Members(c))
  BY DEF AllExpected, Expected
<1> QED BY <1>2, <1>3, FS_Subset

\* A ModelReady puts its own process in the ready sets, and no other one.
LEMMA ReadySetsAfter ==
  ASSUME TypeOK, Requests, NEW s \in Sims, NEW ready,
         ready = AddAll(readySet, LinksOf(s))
  PROVE  /\ \A c \in Channels : ready[c] \subseteq Members(c)
         /\ \A t \in Sims \ {s} : \A l \in LinksOf(t) :
              l.model \in ready[l.channel] => InReadySet(t)
<1>1. LinksOf(s) \subseteq Link
  BY LinksAreLinks
<1>2. \A c \in Channels : ready[c] \subseteq Members(c)
  BY DEF AddAll, Requests, Members, ChannelLinks
<1>3. ASSUME NEW t \in Sims \ {s}, NEW l \in LinksOf(t),
             l.model \in ready[l.channel]
      PROVE  InReadySet(t)
  <2>1. l.channel \in Channels
    BY LinksAreLinks DEF Link
  <2>2. CASE l.model \in readySet[l.channel]
    BY <2>2 DEF InReadySet
  <2>3. ASSUME NEW k \in LinksOf(s), k.model = l.model
        PROVE  FALSE
    BY <2>3, OwnLink
  <2> QED BY <1>3, <2>1, <2>2, <2>3 DEF AddAll
<1> QED BY <1>2, <1>3

LEMMA ReadyBaton ==
  ASSUME TypeOK, BatonInv, HandleModelReady, UNCHANGED <<simVars, asked>>
  PROVE  /\ BatonInv'
         /\ \/ UNCHANGED busTime
            \/ busTime' = busTime + 1 /\ \A t \in Sims : asked[t] = Cycles + 1
<1>1. /\ toBus # << >> /\ PopBus
      /\ Head(toBus) \in ToBusMessage
      /\ Head(toBus).type = "ModelReady"
  BY HandledMessage DEF HandleModelReady
<1>2. PICK s \in Sims : s = Head(toBus).sim
  BY <1>1 DEF ToBusMessage
<1> DEFINE ready == AddAll(readySet, LinksOf(s))
           start == [type |-> "ModelStart", modelTime |-> busTime',
                     stopTime |-> busTime' + 1]
<1>3. ReadyQueued(s, 1) /\ 1 \in DOMAIN toBus
  BY <1>1, <1>2, BusPop DEF ReadyQueued, TypeOK
<1>4. UNCHANGED <<asked, stopTime, phase, stop, modelTime>>
  BY DEF simVars
<1>5. asked[s] = Cycles + 1
  BY <1>2, <1>3 DEF BatonInv, Requests
<1>6. \A i \in DOMAIN toBus' : ~ReadyQueued(s, i)'
  BY <1>1, <1>2, <1>3, BusPop DEF BatonInv, Requests, ReadyQueued, TypeOK
<1>7. /\ \A c \in Channels : ready[c] \subseteq Members(c)
      /\ \A t \in Sims \ {s} : \A l \in LinksOf(t) :
           l.model \in ready[l.channel] => InReadySet(t)
  BY <1>2, ReadySetsAfter DEF BatonInv
<1>8. CASE ~(AllExpected(registerSet) /\ AllExpected(ready))
  <2>1. readySet' = ready /\ UNCHANGED <<busTime, toSim>>
    BY <1>2, <1>8 DEF HandleModelReady
  <2>2. \A t \in Sims : InReadySet(t)' => t = s \/ InReadySet(t)
    BY <1>7, <2>1 DEF InReadySet
  <2>3. Requests'
    BY <1>1, <1>4, <1>5, <1>6, <1>7, <2>1, <2>2, BusPop
       DEF BatonInv, Requests, ReadyQueued, Cycles, TypeOK
  <2>4. Grants'
    BY <2>1, <1>4, GrantsKept DEF BatonInv
  <2> QED BY <1>4, <2>1, <2>3, <2>4 DEF BatonInv, Places, Progress, Cycles
<1>9. CASE AllExpected(registerSet) /\ AllExpected(ready)
  <2>1. /\ busTime' = busTime + 1
        /\ readySet' = [c \in Channels |-> {}]
        /\ Notify(notifyUids, start)
    BY <1>2, <1>9 DEF HandleModelReady
  <2>2. \A c \in Channels : ready[c] = Members(c)
    BY <1>7, <1>9, AllExpectedMembers
  <2>3. \A t \in Sims \ {s} : InReadySet(t)
    <3> SUFFICES ASSUME NEW t \in Sims \ {s} PROVE InReadySet(t)
      OBVIOUS
    <3>1. PICK l \in LinksOf(t) : TRUE
      BY TopologyAssumption DEF LinksOf
    <3>2. l.channel \in Channels
      BY LinksAreLinks DEF Link
    <3>3. l.model \in Members(l.channel)
      BY DEF Members, ChannelLinks
    <3> QED BY <1>7, <2>2, <3>2, <3>3
  <2>4. \A t \in Sims : asked[t] = Cycles + 1 /\ stopTime[t] = Cycles
    BY <1>5, <2>3 DEF BatonInv, Requests, Places, Cycles, TypeOK, BusTypeOK
  <2>5. Cycles' = Cycles + 1
    BY <2>1 DEF Cycles, TypeOK, BusTypeOK
  <2>6. Places'
    BY <1>4, <2>4, <2>5 DEF Places, Cycles, TypeOK, BusTypeOK
  <2>7. \A t \in Sims : \A i \in DOMAIN toBus' : ~ReadyQueued(t, i)'
    BY <1>1, <1>6, <2>3, BusPop DEF BatonInv, Requests, ReadyQueued, TypeOK
  <2>8. \A t \in Sims : ~InReadySet(t)'
    BY <2>1, LinksAreLinks DEF InReadySet, Link
  <2>9. Requests'
    BY <2>1, <2>7, <2>8 DEF Requests
  <2>10. \A t \in Sims : \A i \in DOMAIN toSim[t] : ~StartQueued(t, i)
    BY <2>4 DEF BatonInv, Grants, Cycles, TypeOK, BusTypeOK
  <2>11. start \in ToSimMessage
    BY <2>1 DEF ToSimMessage, TypeOK, BusTypeOK
  <2>12. \A t \in Sims : \A i \in DOMAIN toSim'[t] :
           StartQueued(t, i)' => i = Len(toSim[t]) + 1 /\ toSim'[t][i] = start
    BY <2>1, <2>10, <2>11, SimPush DEF StartQueued, TypeOK
  <2>13. Grants'
    BY <1>4, <2>1, <2>4, <2>5, <2>12 DEF Grants, Cycles, TypeOK, BusTypeOK
  <2> QED BY <1>4, <2>1, <2>4, <2>6, <2>9, <2>13 DEF BatonInv, Progress
<1> QED BY <1>8, <1>9

-----------------------------------------------------------------------------
\* The steps of a process.

\* Steps by which a process moves without asking, taking or executing a cycle.
LEMMA OtherSimStepBaton ==
  ASSUME TypeOK, BatonInv, NEW s \in Sims,
         UNCHANGED <<busTime, readySet, asked, stopTime, modelTime, stop>>,
         \/ UNCHANGED toBus
         \/ \E m \in ToBusMessage : m.type # "ModelReady" /\ SendToBus(m),
         \/ UNCHANGED toSim
         \/ toSim[s] # << >> /\ PopSim(s),
         \A t \in Sims \ {s} : phase'[t] = phase[t],
         \/ phase'[s] = phase[s]
         \/ phase'[s] = "dead"
         \/ /\ phase'[s] \in {"connectWait", "index", "indexWait", "connect", "loop"}
            /\ phase[s] \in {"connect", "connectWait", "index", "indexWait"}
         \/ phase'[s] \in {"exit", "done"} /\ phase[s] \notin {"step", "dead"}
         \/ phase'[s] = "step" /\ phase[s] = "startWait" /\ stop[s]
  PROVE  BatonInv'
<1>1. Requests'
  BY RequestsKept DEF BatonInv
<1>2. Grants'
  BY GrantsKept DEF BatonInv
<1>3. Progress'
  BY DEF BatonInv, Progress
<1> QED BY <1>1, <1>2, <1>3 DEF BatonInv, Places, Cycles

LEMMA NextLinkPhase ==
  ASSUME SimTypeOK, NEW s \in Sims, NEW more, NEW last, NextLink(s, more, last)
  PROVE  /\ phase'[s] \in {more, last}
         /\ \A t \in Sims \ {s} : phase'[t] = phase[t]
  BY DEF NextLink, Becomes, SimTypeOK

LEMMA ConnectPhaseBaton ==
  ASSUME TypeOK, BatonInv, NEW s \in Sims, UNCHANGED <<busVars, asked>>,
         \/ SendModelRegister(s) \/ ReceiveRegisterAck(s)
         \/ RegisterTimeout(s) \/ RegisterInterrupted(s)
         \/ SendSignalIndex(s) \/ ReceiveSignalIndex(s) \/ NoSignalIndex(s)
  PROVE  BatonInv'
<1> USE DEF TypeOK
<1>0. /\ CurrentLink(s) \in Link
      /\ UNCHANGED <<busTime, readySet, asked>>
  BY LinkInLink DEF busVars
<1>1. CASE SendModelRegister(s)
  <2> DEFINE m == [type |-> "ModelRegister", sim |-> s,
                   link |-> CurrentLink(s), token |-> token'[s]]
  <2>1. token'[s] \in Nat
    BY <1>1 DEF SendModelRegister, SimTypeOK
  <2>2. m \in ToBusMessage /\ m.type # "ModelReady" /\ SendToBus(m)
    BY <1>0, <1>1, <2>1 DEF ToBusMessage, SendModelRegister
  <2> HIDE DEF m
  <2> QED
    BY <1>0, <1>1, <2>2, OtherSimStepBaton DEF SendModelRegister, Becomes, SimTypeOK
<1>2. CASE Connected(s) /\ phase[s] = "connectWait" /\ UNCHANGED <<stop, modelTime, stopTime, toBus>>
           /\ (UNCHANGED toSim \/ (toSim[s] # << >> /\ PopSim(s)))
  <2>1. phase'[s] \in {"connect", "index", "exit"} /\ \A t \in Sims \ {s} : phase'[t] = phase[t]
    BY <1>2, NextLinkPhase DEF Connected
  <2> QED BY <1>0, <1>2, <2>1, OtherSimStepBaton
<1>3. CASE ReceiveRegisterAck(s)
  BY <1>2, <1>3 DEF ReceiveRegisterAck, Receives
<1>4. CASE RegisterTimeout(s)
  <2>1. CASE Becomes(s, "connect")
    BY <1>0, <1>4, <2>1, OtherSimStepBaton
       DEF RegisterTimeout, Becomes, transportVars, SimTypeOK
  <2> QED BY <1>2, <1>4, <2>1 DEF RegisterTimeout, transportVars
<1>5. CASE RegisterInterrupted(s)
  BY <1>2, <1>5 DEF RegisterInterrupted, transportVars
<1>6. CASE SendSignalIndex(s)
  <2> DEFINE m == [type |-> "SignalIndex", link |-> CurrentLink(s),
                   token |-> token'[s]]
  <2>1. token'[s] \in Nat
    BY <1>6 DEF SendSignalIndex, SimTypeOK
  <2>2. m \in ToBusMessage /\ m.type # "ModelReady" /\ SendToBus(m)
    BY <1>0, <1>6, <2>1 DEF ToBusMessage, SendSignalIndex
  <2> HIDE DEF m
  <2> QED
    BY <1>0, <1>6, <2>2, OtherSimStepBaton DEF SendSignalIndex, Becomes, SimTypeOK
<1>7. CASE ReceiveSignalIndex(s)
  <2>1. phase'[s] \in {"index", "loop"} /\ \A t \in Sims \ {s} : phase'[t] = phase[t]
    BY <1>7, NextLinkPhase DEF ReceiveSignalIndex
  <2> QED
    BY <1>0, <1>7, <2>1, OtherSimStepBaton DEF ReceiveSignalIndex, Receives
<1>8. CASE NoSignalIndex(s)
  BY <1>0, <1>8, OtherSimStepBaton
     DEF NoSignalIndex, Becomes, transportVars, SimTypeOK
<1> QED BY <1>1, <1>3, <1>4, <1>5, <1>6, <1>7, <1>8

LEMMA LeavePhaseBaton ==
  ASSUME TypeOK, BatonInv, NEW s \in Sims, UNCHANGED <<busVars, asked>>,
         \/ LeaveLoop(s) \/ StartTimeout(s) \/ StartInterrupted(s)
         \/ Discard(s) \/ SendModelExit(s) \/ Kill(s)
  PROVE  BatonInv'
<1> USE DEF TypeOK
<1>0. /\ CurrentLink(s) \in Link
      /\ UNCHANGED <<busTime, readySet, asked>>
  BY LinkInLink DEF busVars
<1>1. CASE LeaveLoop(s) \/ StartTimeout(s) \/ StartInterrupted(s) \/ Kill(s)
  BY <1>0, <1>1, OtherSimStepBaton
     DEF LeaveLoop, StartTimeout, StartInterrupted, Kill, Becomes, transportVars,
         SimTypeOK
<1>2. CASE Discard(s)
  BY <1>0, <1>2, OtherSimStepBaton DEF Discard, Receives, simVars
<1>3. CASE SendModelExit(s)
  <2> DEFINE m == [type |-> "ModelExit", link |-> CurrentLink(s)]
  <2>1. m \in ToBusMessage /\ m.type # "ModelReady" /\ SendToBus(m)
    BY <1>0, <1>3 DEF ToBusMessage, SendModelExit
  <2>2. phase'[s] \in {"exit", "done"} /\ \A t \in Sims \ {s} : phase'[t] = phase[t]
    BY <1>3, NextLinkPhase DEF SendModelExit
  <2> HIDE DEF m
  <2> QED BY <1>0, <1>3, <2>1, <2>2, OtherSimStepBaton DEF SendModelExit
<1> QED BY <1>1, <1>2, <1>3

\* A process asks when it has executed all cycles, so none of its requests is
\* anywhere else.
LEMMA SendReadyBaton ==
  ASSUME TypeOK, BatonInv, NEW s \in Sims, UNCHANGED busVars,
         SendModelReady(s), CountReady(s)
  PROVE  /\ BatonInv'
         /\ asked[s] = Cycles /\ stopTime[s] = Cycles
         /\ asked' = [asked EXCEPT ![s] = @ + 1]
<1> USE DEF TypeOK
<1> DEFINE m == [type |-> "ModelReady", sim |-> s]
<1>1. asked[s] = Cycles /\ stopTime[s] = Cycles
  BY DEF BatonInv, Places, Progress, SendModelReady, Cycles, BusTypeOK
<1>2. /\ asked' = [asked EXCEPT ![s] = @ + 1]
      /\ phase' = [phase EXCEPT ![s] = "startWait"]
      /\ UNCHANGED <<busTime, readySet, stopTime, modelTime, stop, toSim>>
  BY DEF SendModelReady, CountReady, Becomes, SimTypeOK, busVars
<1>3. asked'[s] = Cycles + 1 /\ \A t \in Sims \ {s} : asked'[t] = asked[t]
  BY <1>1, <1>2
<1>4. m \in ToBusMessage /\ SendToBus(m)
  BY DEF ToBusMessage, SendModelReady
<1>5. ~InReadySet(s) /\ \A i \in DOMAIN toBus : ~ReadyQueued(s, i)
  BY <1>1 DEF BatonInv, Requests, Cycles, BusTypeOK
<1>6. \A t \in Sims : InReadySet(t)' <=> InReadySet(t)
  BY <1>2 DEF InReadySet
<1>7. \A t \in Sims : \A i \in DOMAIN toBus' :
        ReadyQueued(t, i)' =>
          \/ i \in DOMAIN toBus /\ ReadyQueued(t, i)
          \/ i = Len(toBus) + 1 /\ t = s
  BY <1>4, BusPush DEF ReadyQueued
<1>8. Requests'
  BY <1>2, <1>3, <1>5, <1>6, <1>7 DEF BatonInv, Requests, Cycles
<1>9. Grants'
  BY <1>2, GrantsKept DEF BatonInv
<1>10. Places'
  BY <1>1, <1>2, <1>3 DEF BatonInv, Places, Cycles
<1>11. Progress'
  BY <1>2, <1>3 DEF BatonInv, Progress, SendModelReady, SimTypeOK
<1> QED BY <1>1, <1>2, <1>8, <1>9, <1>10, <1>11 DEF BatonInv

LEMMA ReceiveStartBaton ==
  ASSUME TypeOK, BatonInv, NEW s \in Sims, UNCHANGED <<busVars, asked>>,
         ReceiveModelStart(s)
  PROVE  /\ BatonInv'
         /\ stopTime[s] = Cycles - 1
         /\ stopTime' = [stopTime EXCEPT ![s] = @ + 1]
<1> USE DEF TypeOK
<1>1. /\ 1 \in DOMAIN toSim[s]
      /\ Head(toSim[s]) = toSim[s][1]
      /\ toSim[s] # << >> /\ PopSim(s)
  BY SimPop DEF ReceiveModelStart, Receives
<1>2. StartQueued(s, 1)
  BY <1>1 DEF StartQueued, ReceiveModelStart
<1>3. /\ stopTime[s] = Cycles - 1
      /\ Head(toSim[s]).modelTime = busTime
      /\ Head(toSim[s]).stopTime = busTime + 1
  BY <1>1, <1>2 DEF BatonInv, Grants
<1>4. /\ stopTime' = [stopTime EXCEPT ![s] = busTime + 1]
      /\ modelTime' = [modelTime EXCEPT ![s] = busTime]
      /\ phase' = [phase EXCEPT ![s] = "step"]
      /\ UNCHANGED <<busTime, readySet, asked, stop, toBus>>
  BY <1>3 DEF ReceiveModelStart, Becomes, busVars
<1>5. Requests'
  BY <1>4, RequestsKept DEF BatonInv
<1>6. asked[s] = Cycles
  BY <1>3 DEF BatonInv, Places, Cycles, BusTypeOK
<1>7. Places' /\ Progress'
  <2>1. /\ stopTime'[s] = busTime + 1
        /\ modelTime'[s] = busTime
        /\ phase'[s] = "step"
        /\ \A t \in Sims \ {s} : /\ stopTime'[t] = stopTime[t]
                                /\ modelTime'[t] = modelTime[t]
                                /\ phase'[t] = phase[t]
    BY <1>4 DEF SimTypeOK
  <2>2. Places'
    BY <1>4, <1>6, <2>1 DEF BatonInv, Places, Cycles, BusTypeOK
  <2>3. Progress'
    BY <1>4, <1>6, <2>1 DEF BatonInv, Progress, Cycles, BusTypeOK
  <2> QED BY <2>2, <2>3
<1>8. \A i \in DOMAIN toSim'[s] : ~StartQueued(s, i)'
  BY <1>1, <1>2, SimPop DEF BatonInv, Grants, StartQueued
<1>9. \A t \in Sims \ {s} : toSim'[t] = toSim[t] /\ stopTime'[t] = stopTime[t]
  BY <1>1, <1>4, SimPop DEF SimTypeOK
<1>10. Grants'
  <2>1. ASSUME NEW t \in Sims, NEW i \in DOMAIN toSim'[t], StartQueued(t, i)'
        PROVE  /\ stopTime'[t] = Cycles' - 1
               /\ toSim'[t][i].modelTime = busTime'
               /\ toSim'[t][i].stopTime = busTime' + 1
    <3>1. t \in Sims \ {s}
      BY <1>8, <2>1
    <3> QED BY <1>4, <1>9, <2>1, <3>1 DEF BatonInv, Grants, Cycles, StartQueued
  <2>2. ASSUME NEW t \in Sims, NEW i \in DOMAIN toSim'[t], NEW j \in DOMAIN toSim'[t],
               StartQueued(t, i)', StartQueued(t, j)'
        PROVE  i = j
    <3>1. t \in Sims \ {s}
      BY <1>8, <2>2
    <3> QED BY <1>9, <2>2, <3>1 DEF BatonInv, Grants, StartQueued
  <2> QED BY <2>1, <2>2 DEF Grants
<1>11. stopTime' = [stopTime EXCEPT ![s] = @ + 1]
  <2>1. stopTime[s] + 1 = busTime + 1
    BY <1>3 DEF Cycles, BusTypeOK
  <2> QED BY <1>4, <2>1
<1> QED BY <1>3, <1>5, <1>7, <1>10, <1>11 DEF BatonInv

LEMMA StepModelsBaton ==
  ASSUME TypeOK, BatonInv, NEW s \in Sims, UNCHANGED <<busVars, asked>>,
         StepModels(s)
  PROVE  BatonInv'
<1> USE DEF TypeOK
<1>1. UNCHANGED <<busTime, readySet, asked, stop, stopTime, toBus, toSim>>
  BY DEF StepModels, busVars, transportVars
<1>2. Requests' /\ Grants'
  BY <1>1, RequestsKept, GrantsKept DEF BatonInv
<1>3. Progress'
  BY <1>1 DEF BatonInv, Progress, StepModels, Becomes, SimTypeOK
<1> QED BY <1>1, <1>2, <1>3 DEF BatonInv, Places, Cycles

LEMMA RequestStopBaton ==
  ASSUME TypeOK, BatonInv, NEW s \in Sims, UNCHANGED <<busVars, asked>>,
         RequestStop(s)
  PROVE  BatonInv'
<1> USE DEF TypeOK
<1>1. UNCHANGED <<busTime, readySet, asked, stopTime, modelTime, phase, toBus, toSim>>
  BY DEF RequestStop, busVars, transportVars
<1>2. Requests' /\ Grants'
  BY <1>1, RequestsKept, GrantsKept DEF BatonInv
<1>3. Progress'
  BY <1>1 DEF BatonInv, Progress, RequestStop, SimTypeOK
<1> QED BY <1>1, <1>2, <1>3 DEF BatonInv, Places, Cycles

-----------------------------------------------------------------------------
\* The theorems.

LEMMA InitBaton == Init => BatonInv
<1> SUFFICES ASSUME Init PROVE BatonInv
  OBVIOUS
<1> USE DEF Init, TransportInit, BusInit, SimInit
<1>1. \A s \in Sims : ~InReadySet(s)
  BY LinksAreLinks DEF InReadySet, Link
<1> QED
  BY <1>1 DEF BatonInv, Places, Requests, Grants, Progress, Cycles

\* The history variable counts the sends of ModelReady and nothing else.
LEMMA OnlyReadyCounts ==
  ASSUME TypeOK, NEW s \in Sims, SimStep(s), ~SendModelReady(s), CountReady(s)
  PROVE  UNCHANGED asked
<1>1. phase[s] = "loop" => LeaveLoop(s)
  BY DEF SimStep, SendModelRegister, ReceiveRegisterAck, RegisterTimeout,
         RegisterInterrupted, SendSignalIndex, ReceiveSignalIndex, NoSignalIndex,
         ReceiveModelStart, StartTimeout, StartInterrupted, StepModels, Discard,
         SendModelExit
<1>2. LeaveLoop(s) => phase'[s] = "exit"
  BY DEF LeaveLoop, Becomes, TypeOK, SimTypeOK
<1> QED BY <1>1, <1>2 DEF CountReady

LEMMA StepBaton == TypeOK /\ BatonInv /\ [Next]_vars => BatonInv'
<1> SUFFICES ASSUME TypeOK, BatonInv, [Next]_vars PROVE BatonInv'
  OBVIOUS
<1>1. CASE Bus
  BY <1>1, StartBusBaton, RegisterBaton, SignalIndexBaton, ExitBaton, ReadyBaton
     DEF Bus, BusNext, BusHandle
<1>2. ASSUME NEW s \in Sims, Sim(s) PROVE BatonInv'
  <2>1. SimStep(s) /\ CountReady(s) /\ UNCHANGED busVars
    BY <1>2 DEF Sim
  <2>2. CASE SendModelReady(s)
    BY <2>1, <2>2, SendReadyBaton
  <2>3. CASE ~SendModelReady(s)
    <3>1. UNCHANGED asked
      BY <2>1, <2>3, OnlyReadyCounts
    <3> QED
      BY <2>1, <2>3, <3>1, ConnectPhaseBaton, LeavePhaseBaton,
         ReceiveStartBaton, StepModelsBaton
         DEF SimStep
  <2> QED BY <2>2, <2>3
<1>3. ASSUME NEW s \in Sims, Environment(s) PROVE BatonInv'
  BY <1>3, LeavePhaseBaton, RequestStopBaton DEF Environment
<1>4. CASE UNCHANGED vars
  BY <1>4, RequestsKept, GrantsKept
     DEF vars, transportVars, busVars, simVars, BatonInv, Places, Progress, Cycles
<1> QED BY <1>1, <1>2, <1>3, <1>4 DEF Next

THEOREM BatonInvariant == Spec => [](TypeOK /\ BatonInv)
<1>1. Init => TypeOK /\ BatonInv
  BY InitTypeOK, InitBaton
<1>2. TypeOK /\ BatonInv /\ [Next]_vars => (TypeOK /\ BatonInv)'
  BY StepTypeOK, StepBaton
<1> QED BY <1>1, <1>2, PTL DEF Spec

\* A model that was given an interval steps the current cycle of the bus,
\* whoever else is stopped, killed or times out meanwhile.
THEOREM SteppingIsSafe == Spec => []StepsTheBusCycle
<1>1. TypeOK /\ BatonInv => StepsTheBusCycle
  BY DEF TypeOK, SimTypeOK, BusTypeOK, BatonInv, Places, Progress, Cycles,
         StepsTheBusCycle
<1> QED BY <1>1, BatonInvariant, PTL

\* No ModelStart comes to a process that still waits for a token and would
\* drop it.
THEOREM NoStartIsDropped == Spec => []StartFindsWaiting
<1>1. TypeOK /\ BatonInv => StartFindsWaiting
  <2> SUFFICES ASSUME TypeOK, BatonInv, NEW s \in Sims, NEW i \in DOMAIN toSim[s],
                      toSim[s][i].type = "ModelStart"
               PROVE  phase[s] \notin {"connect", "connectWait", "index", "indexWait"}
    BY DEF StartFindsWaiting
  <2>1. stopTime[s] = Cycles - 1
    BY DEF BatonInv, Grants, StartQueued
  <2>2. asked[s] # stopTime[s]
    BY <2>1 DEF BatonInv, Places, Cycles, TypeOK, BusTypeOK
  <2> QED BY <2>2 DEF BatonInv, Progress
<1> QED BY <1>1, BatonInvariant, PTL

\* No process is more than one bus cycle away from another one, in what it was
\* given to execute and in what it has asked for, whoever leaves or times out.
THEOREM ProcessesInLockStep == Spec => []Barrier!InLockStep
<1>1. TypeOK /\ BatonInv => Barrier!InLockStep
  <2> SUFFICES ASSUME TypeOK, BatonInv, NEW s \in Sims, NEW t \in Sims
               PROVE  stopTime[s] <= stopTime[t] + 1 /\ asked[s] <= asked[t] + 1
    BY DEF Barrier!InLockStep
  <2>1. Cycles \in Int
    BY DEF TypeOK, BusTypeOK, Cycles
  <2>2. ASSUME NEW p \in Sims
        PROVE  \/ asked[p] = Cycles /\ stopTime[p] = Cycles
               \/ asked[p] = Cycles + 1 /\ stopTime[p] = Cycles
               \/ asked[p] = Cycles /\ stopTime[p] = Cycles - 1
    BY DEF BatonInv, Places
  <2> QED BY <2>1, <2>2
<1> QED BY <1>1, BatonInvariant, PTL

\* The protocol implements the barrier: a step of the SimBus or of a process
\* starts a cycle, asks for one, takes one, or is not visible.
THEOREM ProtocolIsBarrier == Spec => ImplementsLockStep
<1>1. Init => Barrier!Init
  BY DEF Init, BusInit, SimInit, Barrier!Init
<1>2. TypeOK /\ BatonInv /\ [Next]_vars => [Barrier!Next]_(Barrier!vars)
  <2> SUFFICES ASSUME TypeOK, BatonInv, [Next]_vars
               PROVE  Barrier!Next \/ UNCHANGED <<busTime, asked, stopTime>>
    BY DEF Barrier!vars
  <2>1. CASE Bus
    <3>1. UNCHANGED <<stopTime, asked>>
      BY <2>1 DEF Bus, simVars
    <3>2. CASE HandleModelReady
      <4>1. CASE UNCHANGED busTime
        BY <3>1, <4>1
      <4>2. CASE busTime' = busTime + 1 /\ \A t \in Sims : asked[t] = Cycles + 1
        <5>1. Barrier!StartCycle
          BY <3>1, <4>2 DEF Barrier!StartCycle, Cycles, TypeOK, BusTypeOK
        <5> QED BY <5>1 DEF Barrier!Next
      <4> QED BY <2>1, <3>2, <4>1, <4>2, ReadyBaton DEF Bus
    <3>3. CASE ~HandleModelReady
      BY <2>1, <3>1, <3>3
         DEF Bus, BusNext, BusHandle, StartBus, HandleModelRegister,
             HandleSignalIndex, HandleModelExit, busVars
    <3> QED BY <3>2, <3>3
  <2>2. ASSUME NEW s \in Sims, Sim(s)
        PROVE  Barrier!Next \/ UNCHANGED <<busTime, asked, stopTime>>
    <3>1. SimStep(s) /\ CountReady(s) /\ UNCHANGED busVars /\ UNCHANGED busTime
      BY <2>2 DEF Sim, busVars
    <3>2. CASE SendModelReady(s)
      <4>1. /\ asked[s] = Cycles /\ stopTime[s] = Cycles
            /\ asked' = [asked EXCEPT ![s] = @ + 1]
        BY <3>1, <3>2, SendReadyBaton
      <4>2. Barrier!Ask(s)
        BY <3>1, <3>2, <4>1 DEF Barrier!Ask, Cycles, SendModelReady
      <4> QED BY <4>2 DEF Barrier!Next
    <3>3. CASE ~SendModelReady(s)
      <4>1. UNCHANGED asked
        BY <3>1, <3>3, OnlyReadyCounts
      <4>2. CASE ReceiveModelStart(s)
        <5>1. stopTime[s] = Cycles - 1 /\ stopTime' = [stopTime EXCEPT ![s] = @ + 1]
          BY <3>1, <4>1, <4>2, ReceiveStartBaton
        <5>2. Barrier!Grant(s)
          BY <3>1, <4>1, <5>1 DEF Barrier!Grant, Cycles, TypeOK, BusTypeOK
        <5> QED BY <5>2 DEF Barrier!Next
      <4>3. CASE ~ReceiveModelStart(s)
        BY <3>1, <3>3, <4>1, <4>3
           DEF SimStep, SendModelRegister, ReceiveRegisterAck, RegisterTimeout,
               RegisterInterrupted, SendSignalIndex, ReceiveSignalIndex,
               NoSignalIndex, LeaveLoop, StartTimeout, StartInterrupted,
               StepModels, Discard, SendModelExit, simVars
      <4> QED BY <4>2, <4>3
    <3> QED BY <3>2, <3>3
  <2>3. ASSUME NEW s \in Sims, Environment(s)
        PROVE  UNCHANGED <<busTime, asked, stopTime>>
    BY <2>3 DEF Environment, RequestStop, Kill, busVars
  <2>4. CASE UNCHANGED vars
    BY <2>4 DEF vars, busVars, simVars
  <2> QED BY <2>1, <2>2, <2>3, <2>4 DEF Next
<1> QED BY <1>1, <1>2, BatonInvariant, PTL DEF Spec, ImplementsLockStep, Barrier!Spec

-----------------------------------------------------------------------------
(***************************************************************************)
(* Who is in the simulation loop has joined on all of its links, the       *)
(* SimBus outlives its models, and no one waits for what will not come.    *)
(*                                                                         *)
(* The argument is that lists keep their order: what a process sends after *)
(* its ModelRegister messages is handled after them, and its ModelExit     *)
(* messages are handled last (InOrder, Exits).  Hence who gets an answer   *)
(* to a SignalIndex is registered on every link (Joining), and remains so  *)
(* until it leaves (Staying); and who is ready or registered is known to   *)
(* the SimBus (BusKnows), so that the reply reaches it (Waiting).          *)
(***************************************************************************)

Early == {"connect", "connectWait", "index", "indexWait"}
Looping == {"loop", "startWait", "step"}

Registered(l) == l.model \in registerSet[l.channel]
Joined(s) == \A l \in LinksOf(s) : Registered(l)

RegisterQueued(l, i) == toBus[i].type = "ModelRegister" /\ toBus[i].link = l
ExitQueued(l, i) == toBus[i].type = "ModelExit" /\ toBus[i].link = l
IndexQueued(s, i) ==
  toBus[i].type = "SignalIndex" /\ toBus[i].link.model \in ModelsOf(s)
IndexReplied(s, i) ==
  toSim[s][i].type = "SignalIndex" /\ toSim[s][i].link.model \in ModelsOf(s)

Registering(l) == Registered(l) \/ \E i \in DOMAIN toBus : RegisterQueued(l, i)

\* Ahead of a SignalIndex all links are registered or about to be; ahead of a
\* ModelReady all are; and behind a ModelExit neither of them follows.
InOrder(s) ==
  /\ \A i \in DOMAIN toBus : IndexQueued(s, i) => \A l \in LinksOf(s) :
       Registered(l) \/ \E j \in DOMAIN toBus : j < i /\ RegisterQueued(l, j)
  /\ \A i \in DOMAIN toBus : ReadyQueued(s, i) => Joined(s)
  /\ \A i, j \in DOMAIN toBus : \A l \in LinksOf(s) :
       ExitQueued(l, j) /\ (IndexQueued(s, i) \/ ReadyQueued(s, i)) => i < j

\* A ModelExit is on the list only for links that the process has left.
Exits(s) ==
  \A i \in DOMAIN toBus : \A l \in LinksOf(s) : ExitQueued(l, i) =>
    \/ phase[s] = "done"
    \/ /\ phase[s] \in {"exit", "dead"}
       /\ \E k \in DOMAIN Links[s] : k < at[s] /\ l = Links[s][k]

\* By the phase of a process: which of its links are registered, or about to
\* be.  A reply to SignalIndex says that all of them are.
Joining(s) ==
  /\ phase[s] \in {"connect", "connectWait"} => \A k \in DOMAIN Links[s] :
       k < at[s] \/ (k = at[s] /\ phase[s] = "connectWait") => Registering(Links[s][k])
  /\ phase[s] \in {"index", "indexWait"} => \A l \in LinksOf(s) : Registering(l)
  /\ phase[s] \in Early => \A i \in DOMAIN toSim[s] : IndexReplied(s, i) => Joined(s)
  /\ phase[s] \in Looping => Joined(s) /\ at[s] = 1

\* The links that have their uids are those before the one in hand: the reply
\* with the current token is for that one.
Indexing(s) ==
  /\ phase[s] \in {"connect", "connectWait"} => indexed[s] = {}
  /\ phase[s] \in {"index", "indexWait"} =>
       indexed[s] = { Links[s][k] : k \in 1..at[s] - 1 }
  /\ phase[s] \in Looping => indexed[s] = LinksOf(s)
  /\ \A i \in DOMAIN toBus : IndexQueued(s, i) =>
       /\ toBus[i].token <= token[s]
       /\ phase[s] = "indexWait" /\ toBus[i].token = token[s]
            => toBus[i].link = CurrentLink(s)
  /\ \A i \in DOMAIN toSim[s] : IndexReplied(s, i) =>
       /\ toSim[s][i].token <= token[s]
       /\ phase[s] = "indexWait" /\ toSim[s][i].token = token[s]
            => toSim[s][i].link = CurrentLink(s)

\* Once the simulation has started, a process that is not done has yet to
\* leave the link in hand and those after it.
Staying(s) ==
  /\ phase[s] \in Early => asked[s] = 0
  /\ busTime >= 0 => \/ phase[s] = "done"
                     \/ \A k \in DOMAIN Links[s] : k >= at[s] => Registered(Links[s][k])

\* The sets of the SimBus, and that it notifies whom it has registered.
BusKnows ==
  /\ \A i \in DOMAIN toBus :
       toBus[i].type = "ModelRegister" => toBus[i].link \in LinksOf(toBus[i].sim)
  /\ \A c \in Channels : registerSet[c] \subseteq Members(c)
  /\ ReadyIsRegistered
  /\ \A s \in Sims : \A l \in LinksOf(s) : Registered(l) => s \in notifyUids

\* The two parts of NoMutualWait.
Waiting(s) ==
  /\ phase[s] = "connectWait" => Answering(s, "ModelRegister")
  /\ phase[s] = "indexWait" => Answering(s, "SignalIndex")
  /\ phase[s] = "startWait" =>
       \/ \E i \in DOMAIN toBus : ReadyQueued(s, i)
       \/ \A l \in LinksOf(s) : l.model \in readySet[l.channel]
       \/ \E i \in DOMAIN toSim[s] : StartQueued(s, i)

NotComplete == \E s \in Sims : \E l \in LinksOf(s) : l.model \notin readySet[l.channel]

ProcessInv(s) == /\ InOrder(s) /\ Exits(s) /\ Joining(s)
                 /\ Indexing(s) /\ Staying(s) /\ Waiting(s)

JoinInv == /\ \A s \in Sims : ProcessInv(s)
           /\ BusKnows /\ BusExitsLast /\ NotComplete

-----------------------------------------------------------------------------
\* The steps of the SimBus.

\* Taking a message shifts the others.
LEMMA BusShift ==
  ASSUME TransportTypeOK, toBus # << >>, PopBus
  PROVE  /\ 1 \in DOMAIN toBus /\ DOMAIN toBus \subseteq Int /\ DOMAIN toBus' \subseteq Int
         /\ Head(toBus) = toBus[1]
         /\ \A i \in DOMAIN toBus : i >= 1
         /\ \A i \in DOMAIN toBus' : i + 1 \in DOMAIN toBus /\ i + 1 > 1
                                     /\ toBus'[i] = toBus[i + 1]
         /\ \A i \in DOMAIN toBus : i # 1 =>
              i - 1 \in DOMAIN toBus' /\ toBus'[i - 1] = toBus[i]
  BY DEF TransportTypeOK, PopBus

\* The order on the list of the SimBus is kept when its first message is
\* handled, if that only unregisters the link of a ModelExit, and registers
\* that of a ModelRegister.
LEMMA PopKeepsOrder ==
  ASSUME TypeOK, NEW s \in Sims, InOrder(s), toBus # << >>, PopBus,
         \A l \in LinksOf(s) : Registered(l) => Registered(l)' \/ ExitQueued(l, 1),
         \A l \in LinksOf(s) : RegisterQueued(l, 1) => Registered(l)'
  PROVE  InOrder(s)'
<1> USE DEF InOrder
<1>0. /\ 1 \in DOMAIN toBus /\ DOMAIN toBus \subseteq Int /\ DOMAIN toBus' \subseteq Int
      /\ \A i \in DOMAIN toBus : i >= 1
      /\ \A i \in DOMAIN toBus' : i + 1 \in DOMAIN toBus /\ i + 1 > 1
                                  /\ toBus'[i] = toBus[i + 1]
      /\ \A i \in DOMAIN toBus : i # 1 =>
           i - 1 \in DOMAIN toBus' /\ toBus'[i - 1] = toBus[i]
  BY BusShift DEF TypeOK
<1>1. ASSUME NEW i \in DOMAIN toBus', NEW l \in LinksOf(s)
      PROVE  /\ IndexQueued(s, i)' => IndexQueued(s, i + 1)
             /\ ReadyQueued(s, i)' => ReadyQueued(s, i + 1)
             /\ ExitQueued(l, i)' => ExitQueued(l, i + 1)
  BY <1>0, <1>1 DEF IndexQueued, ReadyQueued, ExitQueued
<1>2. ASSUME NEW i \in DOMAIN toBus', IndexQueued(s, i)' \/ ReadyQueued(s, i)',
             NEW l \in LinksOf(s), Registered(l)
      PROVE  Registered(l)'
  <2>1. i + 1 \in DOMAIN toBus /\ i + 1 > 1 /\ i + 1 \in Int
    BY <1>0
  <2>2. ~ExitQueued(l, 1)
    BY <1>0, <1>1, <1>2, <2>1
  <2> QED BY <1>2, <2>2
<1>3. ASSUME NEW i \in DOMAIN toBus', IndexQueued(s, i)', NEW l \in LinksOf(s)
      PROVE  Registered(l)' \/ \E j \in DOMAIN toBus' : j < i /\ RegisterQueued(l, j)'
  <2>1. CASE Registered(l)
    BY <1>2, <1>3, <2>1
  <2>2. ASSUME NEW j \in DOMAIN toBus, j < i + 1, RegisterQueued(l, j)
        PROVE  Registered(l)' \/ \E k \in DOMAIN toBus' : k < i /\ RegisterQueued(l, k)'
    <3>1. CASE j = 1
      BY <2>2, <3>1
    <3>2. CASE j # 1
      <4>1. /\ j - 1 \in DOMAIN toBus' /\ toBus'[j - 1] = toBus[j]
            /\ i \in Int /\ j \in Int
        BY <1>0, <3>2
      <4>2. j - 1 < i /\ RegisterQueued(l, j - 1)'
        BY <2>2, <4>1 DEF RegisterQueued
      <4> QED BY <4>1, <4>2
    <3> QED BY <3>1, <3>2
  <2> QED BY <1>0, <1>1, <1>3, <2>1, <2>2
<1>4. ASSUME NEW i \in DOMAIN toBus', ReadyQueued(s, i)' PROVE Joined(s)'
  BY <1>0, <1>1, <1>2, <1>4 DEF Joined
<1>5. ASSUME NEW i \in DOMAIN toBus', NEW j \in DOMAIN toBus', NEW l \in LinksOf(s),
             ExitQueued(l, j)', IndexQueued(s, i)' \/ ReadyQueued(s, i)'
      PROVE  i < j
  <2>1. i + 1 < j + 1
    BY <1>0, <1>1, <1>5
  <2> QED BY <1>0, <2>1
<1> QED BY <1>3, <1>4, <1>5

\* Nor does it disturb a process, to which it may send the reply that its
\* first message asks for.
LEMMA PopKeepsProcess ==
  ASSUME TypeOK, NEW s \in Sims, ProcessInv(s), toBus # << >>, PopBus,
         UNCHANGED <<simVars, asked>>,
         \A l \in LinksOf(s) : Registered(l) => Registered(l)' \/ ExitQueued(l, 1),
         \A l \in LinksOf(s) : RegisterQueued(l, 1) => Registered(l)',
         \A i \in DOMAIN toSim'[s] :
           \/ i \in DOMAIN toSim[s] /\ toSim'[s][i] = toSim[s][i]
           \/ IndexReplied(s, i)' => /\ IndexQueued(s, 1)
                                     /\ toSim'[s][i].token = toBus[1].token
                                     /\ toSim'[s][i].link = toBus[1].link
  PROVE  InOrder(s)' /\ Exits(s)' /\ Joining(s)' /\ Indexing(s)'
<1> USE DEF ProcessInv
<1>0. /\ 1 \in DOMAIN toBus /\ DOMAIN toBus \subseteq Int
      /\ \A i \in DOMAIN toBus : i >= 1
      /\ \A i \in DOMAIN toBus' : i + 1 \in DOMAIN toBus /\ toBus'[i] = toBus[i + 1]
      /\ \A i \in DOMAIN toBus : i # 1 =>
           i - 1 \in DOMAIN toBus' /\ toBus'[i - 1] = toBus[i]
  BY BusShift DEF TypeOK
<1>1. UNCHANGED <<phase, at, token, indexed, stop>>
  BY DEF simVars
<1>2. InOrder(s)'
  BY PopKeepsOrder
<1>3. Exits(s)'
  BY <1>0, <1>1 DEF Exits, ExitQueued
<1>4. ASSUME phase[s] \in Early \cup Looping, NEW l \in LinksOf(s), Registered(l)
      PROVE  Registered(l)'
  BY <1>0, <1>4 DEF Exits, Early, Looping
<1>5. ASSUME phase[s] \in Early, NEW l \in LinksOf(s), Registering(l)
      PROVE  Registering(l)'
  <2>1. CASE Registered(l)
    BY <1>4, <1>5, <2>1 DEF Registering
  <2>2. ASSUME NEW i \in DOMAIN toBus, RegisterQueued(l, i) PROVE Registering(l)'
    <3>1. CASE i = 1
      BY <2>2, <3>1 DEF Registering
    <3>2. CASE i # 1
      BY <1>0, <2>2, <3>2 DEF Registering, RegisterQueued
    <3> QED BY <3>1, <3>2
  <2> QED BY <1>5, <2>1, <2>2 DEF Registering
<1>6. ASSUME phase[s] \in Early, NEW i \in DOMAIN toSim'[s], IndexReplied(s, i)'
      PROVE  Joined(s)'
  <2>1. CASE i \in DOMAIN toSim[s] /\ toSim'[s][i] = toSim[s][i]
    BY <1>4, <1>6, <2>1 DEF Joining, IndexReplied, Joined
  <2>2. CASE IndexQueued(s, 1)
    <3>1. \A l \in LinksOf(s) : Registered(l)
      BY <1>0, <2>2 DEF InOrder
    <3> QED BY <1>4, <1>6, <3>1 DEF Joined
  <2> QED BY <1>6, <2>1, <2>2
<1>7. \A k \in DOMAIN Links[s] : Links[s][k] \in LinksOf(s)
  BY DEF LinksOf
<1>8. Joining(s)'
  BY <1>1, <1>4, <1>5, <1>6, <1>7 DEF Joining, Joined, Early, Looping
<1>9. Indexing(s)'
  BY <1>0, <1>1 DEF Indexing, IndexQueued, IndexReplied, CurrentLink
<1> QED BY <1>2, <1>3, <1>8, <1>9

\* What the SimBus notifies is on the lists, behind what was there.
LEMMA NotifyAppends ==
  ASSUME TransportTypeOK, NEW S, NEW m \in ToSimMessage, Notify(S, m), NEW t \in Sims
  PROVE  /\ \A i \in DOMAIN toSim[t] : i \in DOMAIN toSim'[t] /\ toSim'[t][i] = toSim[t][i]
         /\ \A i \in DOMAIN toSim'[t] :
              (i \in DOMAIN toSim[t] /\ toSim'[t][i] = toSim[t][i]) \/ toSim'[t][i] = m
         /\ t \in S => \E i \in DOMAIN toSim'[t] : toSim'[t][i] = m
<1>1. toSim[t] \in Seq(ToSimMessage)
  BY DEF TransportTypeOK
<1>2. CASE t \in S
  <2>1. toSim'[t] = Append(toSim[t], m)
    BY <1>2 DEF Notify
  <2>2. /\ Len(toSim[t]) + 1 \in DOMAIN toSim'[t]
        /\ toSim'[t][Len(toSim[t]) + 1] = m
    BY <1>1, <2>1
  <2>3. /\ \A i \in DOMAIN toSim[t] : i \in DOMAIN toSim'[t] /\ toSim'[t][i] = toSim[t][i]
        /\ \A i \in DOMAIN toSim'[t] : i \in DOMAIN toSim[t] \/ i = Len(toSim[t]) + 1
    BY <1>1, <2>1
  <2> QED BY <2>2, <2>3
<1>3. CASE t \notin S
  BY <1>3 DEF Notify
<1> QED BY <1>2, <1>3

\* Who waits goes on waiting for what will come, if the SimBus answers the
\* message that it takes and counts a process that is ready.
LEMMA PopKeepsWaiting ==
  ASSUME TypeOK, NEW s \in Sims, Waiting(s), toBus # << >>, PopBus, UNCHANGED simVars,
         \A i \in DOMAIN toSim[s] : i \in DOMAIN toSim'[s] /\ toSim'[s][i] = toSim[s][i],
         \A type \in {"ModelRegister", "SignalIndex"} :
           toBus[1].type = type /\ toBus[1].link = CurrentLink(s) /\ toBus[1].token = token[s]
             => \E i \in DOMAIN toSim'[s] : IsReply(s, toSim'[s][i], type),
         ReadyQueued(s, 1) \/ (\A l \in LinksOf(s) : l.model \in readySet[l.channel]) =>
           \/ phase[s] # "startWait"
           \/ \A l \in LinksOf(s) : l.model \in readySet'[l.channel]
           \/ \E i \in DOMAIN toSim'[s] : StartQueued(s, i)'
  PROVE  Waiting(s)'
<1>0. /\ 1 \in DOMAIN toBus
      /\ \A i \in DOMAIN toBus : i # 1 =>
           i - 1 \in DOMAIN toBus' /\ toBus'[i - 1] = toBus[i]
  BY BusShift DEF TypeOK
<1>1. UNCHANGED <<phase, token, at>>
  BY DEF simVars
<1>2. ASSUME NEW type \in {"ModelRegister", "SignalIndex"}, Answering(s, type)
      PROVE  Answering(s, type)'
  <2>1. CASE \E i \in DOMAIN toSim[s] : IsReply(s, toSim[s][i], type)
    BY <1>1, <2>1 DEF Answering, IsReply
  <2>2. ASSUME NEW i \in DOMAIN toBus, toBus[i].type = type,
               toBus[i].link = CurrentLink(s), toBus[i].token = token[s]
        PROVE  Answering(s, type)'
    <3>1. CASE i = 1
      <4>1. PICK k \in DOMAIN toSim'[s] : IsReply(s, toSim'[s][k], type)
        BY <2>2, <3>1
      <4> QED BY <1>1, <4>1 DEF Answering, IsReply
    <3>2. CASE i # 1
      BY <1>0, <1>1, <2>2, <3>2 DEF Answering, CurrentLink
    <3> QED BY <3>1, <3>2
  <2> QED BY <1>2, <2>1, <2>2 DEF Answering
<1>3. phase[s] = "startWait" => Waiting(s)'
  BY <1>0, <1>1 DEF Waiting, ReadyQueued, StartQueued
<1> QED BY <1>1, <1>2, <1>3 DEF Waiting

LEMMA StayingKept ==
  ASSUME NEW s \in Sims, Staying(s), UNCHANGED <<phase, at, asked, busTime>>,
         \A l \in LinksOf(s) : Registered(l) => Registered(l)'
  PROVE  Staying(s)'
  BY DEF Staying, LinksOf

\* The SimBus registers the link, and acknowledges to all it has registered.
LEMMA RegisterJoin ==
  ASSUME TypeOK, JoinInv, HandleModelRegister, UNCHANGED <<simVars, asked>>
  PROVE  JoinInv'
<1> DEFINE m == Head(toBus)
           ack == [type |-> "ModelRegister", link |-> m.link, token |-> m.token]
<1>1. m \in ToBusMessage /\ m.type = "ModelRegister" /\ toBus # << >> /\ PopBus
  BY HandledMessage DEF HandleModelRegister
<1>2. 1 \in DOMAIN toBus /\ m = toBus[1]
  BY <1>1, BusShift DEF TypeOK
<1>3. m.sim \in Sims /\ m.link \in LinksOf(m.sim) /\ ack \in ToSimMessage
  BY <1>1, <1>2 DEF ToBusMessage, ToSimMessage, JoinInv, BusKnows
<1>4. /\ Notify(notifyUids', ack) /\ UNCHANGED <<busPhase, busTime, readySet>>
      /\ notifyUids' = notifyUids \cup {m.sim}
      /\ registerSet' = Add(registerSet, m.link)
  BY DEF HandleModelRegister
<1>5. UNCHANGED <<phase, at, token, indexed, stop, asked>>
  BY DEF simVars
<1> HIDE DEF m
<1>6. m.link \in Link
  BY <1>3, LinksAreLinks
<1>7. /\ \A c \in Channels : registerSet[c] \subseteq registerSet'[c]
      /\ m.link.model \in registerSet'[m.link.channel]
      /\ \A c \in Channels : \A x \in registerSet'[c] :
           x \in registerSet[c] \/ (c = m.link.channel /\ x = m.link.model)
  BY <1>4, <1>6 DEF Add, TypeOK, BusTypeOK, Link
<1>8. \A s \in Sims : \A l \in LinksOf(s) : Registered(l) => Registered(l)'
  BY <1>7, LinksAreLinks DEF Registered, Link
<1>9. \A s \in Sims : \A l \in LinksOf(s) : RegisterQueued(l, 1) => Registered(l)'
  BY <1>2, <1>7 DEF RegisterQueued, Registered
<1>10. ASSUME NEW s \in Sims PROVE ProcessInv(s)'
  <2>1. ProcessInv(s)
    BY DEF JoinInv
  <2>2. /\ \A i \in DOMAIN toSim[s] : i \in DOMAIN toSim'[s] /\ toSim'[s][i] = toSim[s][i]
        /\ \A i \in DOMAIN toSim'[s] :
             (i \in DOMAIN toSim[s] /\ toSim'[s][i] = toSim[s][i]) \/ toSim'[s][i] = ack
        /\ s \in notifyUids' => \E i \in DOMAIN toSim'[s] : toSim'[s][i] = ack
    BY <1>3, <1>4, NotifyAppends DEF TypeOK
  <2>3. \A i \in DOMAIN toSim'[s] : toSim'[s][i] = ack => ~IndexReplied(s, i)'
    BY DEF IndexReplied
  <2>4. InOrder(s)' /\ Exits(s)' /\ Joining(s)' /\ Indexing(s)'
    BY <1>1, <1>8, <1>9, <2>1, <2>2, <2>3, PopKeepsProcess
  <2>5. Staying(s)'
    BY <1>4, <1>5, <1>8, <2>1, StayingKept DEF ProcessInv
  <2>6. m.link = CurrentLink(s) /\ m.token = token[s] =>
          \E i \in DOMAIN toSim'[s] : IsReply(s, toSim'[s][i], "ModelRegister")
    <3> SUFFICES ASSUME m.link = CurrentLink(s), m.token = token[s]
                 PROVE  \E i \in DOMAIN toSim'[s] : IsReply(s, toSim'[s][i], "ModelRegister")
      OBVIOUS
    <3>1. CurrentLink(s) \in LinksOf(s)
      BY DEF CurrentLink, LinksOf, TypeOK, SimTypeOK
    <3>2. m.sim = s
      BY <1>3, <3>1, OwnLink
    <3>3. PICK i \in DOMAIN toSim'[s] : toSim'[s][i] = ack
      BY <1>4, <2>2, <3>2
    <3> QED BY <3>1, <3>3 DEF IsReply, ModelsOf
  <2>7. Waiting(s)'
    BY <1>1, <1>2, <1>4, <2>1, <2>2, <2>6, PopKeepsWaiting DEF ProcessInv, ReadyQueued
  <2> QED BY <2>4, <2>5, <2>7 DEF ProcessInv
<1>11. BusKnows'
  <2>1. \A i \in DOMAIN toBus' :
          toBus'[i].type = "ModelRegister" => toBus'[i].link \in LinksOf(toBus'[i].sim)
    BY <1>1, BusShift DEF TypeOK, JoinInv, BusKnows
  <2>2. \A c \in Channels : registerSet'[c] \subseteq Members(c)
    BY <1>3, <1>7 DEF JoinInv, BusKnows, Members, ChannelLinks
  <2>3. ReadyIsRegistered'
    BY <1>4, <1>7 DEF JoinInv, BusKnows, ReadyIsRegistered
  <2>4. ASSUME NEW s \in Sims, NEW l \in LinksOf(s), Registered(l)' PROVE s \in notifyUids'
    <3>1. CASE Registered(l)
      BY <1>4, <3>1 DEF JoinInv, BusKnows
    <3>2. CASE l.model = m.link.model
      BY <1>3, <1>4, <3>2, OwnLink
    <3> QED BY <1>7, <2>4, <3>1, <3>2, LinksAreLinks DEF Registered, Link
  <2> QED BY <2>1, <2>2, <2>3, <2>4 DEF BusKnows
<1> QED
  BY <1>4, <1>5, <1>10, <1>11 DEF JoinInv, BusExitsLast, NotComplete

LEMMA StartBusJoin ==
  ASSUME TypeOK, JoinInv, StartBus, UNCHANGED <<simVars, asked>>
  PROVE  JoinInv'
<1>1. /\ UNCHANGED <<toBus, toSim, busTime, notifyUids, registerSet, readySet>>
      /\ UNCHANGED <<phase, at, token, indexed, stop, asked>>
      /\ busPhase' = "run"
  BY DEF StartBus, transportVars, simVars
<1>2. ASSUME NEW s \in Sims, ProcessInv(s) PROVE ProcessInv(s)'
  <2> USE DEF ProcessInv
  <2>1. InOrder(s)' /\ Exits(s)'
    BY <1>1, <1>2
       DEF InOrder, Exits, IndexQueued, ReadyQueued, ExitQueued, RegisterQueued, Registered, Joined
  <2>2. Joining(s)' /\ Indexing(s)'
    BY <1>1, <1>2
       DEF Joining, Indexing, Registering, RegisterQueued, Registered, Joined, IndexQueued,
           IndexReplied, CurrentLink
  <2>3. Staying(s)' /\ Waiting(s)'
    BY <1>1, <1>2
       DEF Staying, Waiting, Registered, Answering, IsReply, CurrentLink, ReadyQueued, StartQueued
  <2> QED BY <2>1, <2>2, <2>3
<1> QED
  BY <1>1, <1>2
     DEF JoinInv, BusKnows, BusExitsLast, NotComplete, ReadyIsRegistered, Registered

\* The reply goes to all whom the SimBus knows, the sender among them.
LEMMA SignalIndexJoin ==
  ASSUME TypeOK, JoinInv, HandleSignalIndex, UNCHANGED <<simVars, asked>>
  PROVE  JoinInv'
<1> DEFINE m == Head(toBus)
           reply == [type |-> "SignalIndex", link |-> m.link, token |-> m.token]
<1>1. m \in ToBusMessage /\ m.type = "SignalIndex" /\ toBus # << >> /\ PopBus
  BY HandledMessage DEF HandleSignalIndex
<1>2. /\ 1 \in DOMAIN toBus /\ m = toBus[1]
      /\ DOMAIN toBus \subseteq Int /\ \A i \in DOMAIN toBus : i >= 1
  BY <1>1, BusShift DEF TypeOK
<1>3. reply \in ToSimMessage
  BY <1>1 DEF ToBusMessage, ToSimMessage
<1>4. /\ Notify(notifyUids, reply)
      /\ UNCHANGED <<busPhase, busTime, notifyUids, registerSet, readySet>>
  BY DEF HandleSignalIndex, busVars
<1>5. UNCHANGED <<phase, at, token, indexed, stop, asked>>
  BY DEF simVars
<1> HIDE DEF m
<1>6. \A s \in Sims : \A l \in LinksOf(s) :
        (Registered(l) <=> Registered(l)') /\ ~RegisterQueued(l, 1)
  BY <1>1, <1>2, <1>4 DEF Registered, RegisterQueued
<1>7. ASSUME NEW s \in Sims PROVE ProcessInv(s)'
  <2>1. ProcessInv(s)
    BY DEF JoinInv
  <2>2. /\ \A i \in DOMAIN toSim[s] : i \in DOMAIN toSim'[s] /\ toSim'[s][i] = toSim[s][i]
        /\ \A i \in DOMAIN toSim'[s] :
             (i \in DOMAIN toSim[s] /\ toSim'[s][i] = toSim[s][i]) \/ toSim'[s][i] = reply
        /\ s \in notifyUids => \E i \in DOMAIN toSim'[s] : toSim'[s][i] = reply
    BY <1>3, <1>4, NotifyAppends DEF TypeOK
  <2>3. \A i \in DOMAIN toSim'[s] : toSim'[s][i] = reply =>
          (IndexReplied(s, i)' => /\ IndexQueued(s, 1)
                                  /\ toSim'[s][i].token = toBus[1].token
                                  /\ toSim'[s][i].link = toBus[1].link)
    BY <1>1, <1>2 DEF IndexReplied, IndexQueued
  <2>4. InOrder(s)' /\ Exits(s)' /\ Joining(s)' /\ Indexing(s)'
    BY <1>1, <1>6, <2>1, <2>2, <2>3, PopKeepsProcess
  <2>5. Staying(s)'
    BY <1>4, <1>5, <1>6, <2>1, StayingKept DEF ProcessInv
  <2>6. m.link = CurrentLink(s) /\ m.token = token[s] =>
          \E i \in DOMAIN toSim'[s] : IsReply(s, toSim'[s][i], "SignalIndex")
    <3> SUFFICES ASSUME m.link = CurrentLink(s), m.token = token[s]
                 PROVE  \E i \in DOMAIN toSim'[s] : IsReply(s, toSim'[s][i], "SignalIndex")
      OBVIOUS
    <3>1. CurrentLink(s) \in LinksOf(s)
      BY DEF CurrentLink, LinksOf, TypeOK, SimTypeOK
    <3>2. IndexQueued(s, 1)
      BY <1>1, <1>2, <3>1 DEF IndexQueued, ModelsOf
    <3>3. \A j \in DOMAIN toBus : ~(j < 1)
      BY <1>2
    <3>4. Registered(CurrentLink(s))
      BY <1>2, <3>3, <2>1, <3>1, <3>2 DEF ProcessInv, InOrder
    <3>5. PICK i \in DOMAIN toSim'[s] : toSim'[s][i] = reply
      BY <2>2, <3>1, <3>4 DEF JoinInv, BusKnows
    <3> QED BY <3>1, <3>5 DEF IsReply, ModelsOf
  <2>7. Waiting(s)'
    <3>1. ~ReadyQueued(s, 1)
      BY <1>1, <1>2 DEF ReadyQueued
    <3>2. \A type \in {"ModelRegister", "SignalIndex"} :
            toBus[1].type = type /\ toBus[1].link = CurrentLink(s) /\ toBus[1].token = token[s]
              => \E i \in DOMAIN toSim'[s] : IsReply(s, toSim'[s][i], type)
      BY <1>1, <1>2, <2>6
    <3> QED BY <1>1, <1>4, <2>1, <2>2, <3>1, <3>2, PopKeepsWaiting DEF ProcessInv
  <2> QED BY <2>4, <2>5, <2>7 DEF ProcessInv
<1>8. \A i \in DOMAIN toBus' :
        toBus'[i].type = "ModelRegister" => toBus'[i].link \in LinksOf(toBus'[i].sim)
  BY <1>1, BusShift DEF TypeOK, JoinInv, BusKnows
<1>9. BusKnows'
  BY <1>4, <1>8 DEF JoinInv, BusKnows, ReadyIsRegistered, Registered
<1> QED
  BY <1>4, <1>5, <1>7, <1>9 DEF JoinInv, BusExitsLast, NotComplete

\* A model that leaves is neither registered nor ready.  The SimBus exits with
\* the last one, and then no process has a link left to leave.
LEMMA ExitJoin ==
  ASSUME TypeOK, JoinInv, HandleModelExit, UNCHANGED <<simVars, asked>>
  PROVE  JoinInv'
<1> DEFINE m == Head(toBus)
<1>1. m \in ToBusMessage /\ m.type = "ModelExit" /\ toBus # << >> /\ PopBus
  BY HandledMessage DEF HandleModelExit
<1>2. 1 \in DOMAIN toBus /\ m = toBus[1]
  BY <1>1, BusShift DEF TypeOK
<1>3. /\ registerSet' = Remove(registerSet, m.link)
      /\ readySet' = Remove(readySet, m.link)
      /\ busPhase' = IF NoneLeft(registerSet') THEN "exit" ELSE busPhase
      /\ busPhase = "run"
      /\ UNCHANGED <<busTime, notifyUids, toSim>>
  BY DEF HandleModelExit, Handles
<1>4. UNCHANGED <<phase, at, token, indexed, stop, asked>>
  BY DEF simVars
<1>5. m.link \in Link
  BY <1>1 DEF ToBusMessage
<1> HIDE DEF m
<1>6. /\ \A c \in Channels : registerSet'[c] \subseteq registerSet[c]
      /\ \A c \in Channels : readySet'[c] \subseteq readySet[c]
      /\ \A c \in Channels : \A x \in registerSet[c] :
           x \in registerSet'[c] \/ (c = m.link.channel /\ x = m.link.model)
      /\ \A c \in Channels : \A x \in readySet[c] :
           x \in readySet'[c] \/ (c = m.link.channel /\ x = m.link.model)
      /\ m.link.model \notin registerSet'[m.link.channel]
      /\ m.link.model \notin readySet'[m.link.channel]
  BY <1>3, <1>5 DEF Remove, TypeOK, BusTypeOK, Link
<1>7. \A s \in Sims : \A l \in LinksOf(s) : l.channel \in Channels
  BY LinksAreLinks DEF Link
<1>8. ASSUME NEW s \in Sims, NEW l \in LinksOf(s),
             l.channel = m.link.channel, l.model = m.link.model
      PROVE  ExitQueued(l, 1)
  <2>1. l = m.link
    BY <1>5, <1>8, LinksAreLinks DEF Link
  <2> QED BY <1>1, <1>2, <2>1 DEF ExitQueued
<1>9. ASSUME NEW s \in Sims, NEW l \in LinksOf(s)
      PROVE  /\ Registered(l) => Registered(l)' \/ ExitQueued(l, 1)
             /\ l.model \in readySet[l.channel] =>
                  l.model \in readySet'[l.channel] \/ ExitQueued(l, 1)
             /\ ~RegisterQueued(l, 1)
  BY <1>1, <1>2, <1>6, <1>7, <1>8 DEF Registered, RegisterQueued
<1>10. ASSUME NEW s \in Sims PROVE ProcessInv(s)'
  <2>1. ProcessInv(s)
    BY DEF JoinInv
  <2>2. InOrder(s)' /\ Exits(s)' /\ Joining(s)' /\ Indexing(s)'
    BY <1>1, <1>3, <1>9, <2>1, PopKeepsProcess
  <2>3. Staying(s)'
    <3>1. ASSUME busTime >= 0, phase[s] # "done",
                 NEW k \in DOMAIN Links[s], k >= at[s]
          PROVE  Registered(Links[s][k])'
      <4>1. Links[s][k] \in LinksOf(s) /\ Registered(Links[s][k])
        BY <2>1, <3>1 DEF ProcessInv, Staying, LinksOf
      <4>2. ASSUME ExitQueued(Links[s][k], 1) PROVE FALSE
        <5>1. PICK j \in DOMAIN Links[s] : j < at[s] /\ Links[s][k] = Links[s][j]
          BY <1>2, <2>1, <3>1, <4>1, <4>2 DEF ProcessInv, Exits
        <5>2. j = k
          BY <5>1, LinksAssumption
        <5>3. k \in Int /\ at[s] \in Int
          BY LinksLength DEF TypeOK, SimTypeOK
        <5> QED BY <3>1, <5>1, <5>2, <5>3
      <4> QED BY <1>9, <4>1, <4>2
    <3> QED BY <1>3, <1>4, <2>1, <3>1 DEF ProcessInv, Staying
  <2>4. Waiting(s)'
    <3>1. /\ ~ReadyQueued(s, 1)
          /\ toBus[1].type \notin {"ModelRegister", "SignalIndex"}
      BY <1>1, <1>2 DEF ReadyQueued
    <3>2. phase[s] = "startWait" => \A l \in LinksOf(s) : ~ExitQueued(l, 1)
      BY <1>2, <2>1 DEF ProcessInv, Exits
    <3> QED
      BY <1>1, <1>3, <1>9, <2>1, <3>1, <3>2, PopKeepsWaiting DEF ProcessInv
  <2> QED BY <2>2, <2>3, <2>4 DEF ProcessInv
<1>11. BusKnows'
  <2>1. \A i \in DOMAIN toBus' :
          toBus'[i].type = "ModelRegister" => toBus'[i].link \in LinksOf(toBus'[i].sim)
    BY <1>1, BusShift DEF TypeOK, JoinInv, BusKnows
  <2>2. ReadyIsRegistered'
    BY <1>6 DEF JoinInv, BusKnows, ReadyIsRegistered
  <2> QED BY <1>3, <1>6, <1>7, <2>1, <2>2 DEF JoinInv, BusKnows, Registered
<1>12. BusExitsLast'
  <2> SUFFICES ASSUME busPhase' = "exit", busTime >= 0, NEW s \in Sims, phase[s] # "done"
               PROVE  FALSE
    BY <1>3, <1>4 DEF BusExitsLast
  <2>1. NoneLeft(registerSet')
    BY <1>3
  <2>2. Staying(s)'
    BY <1>10 DEF ProcessInv
  <2>3. at[s] \in DOMAIN Links[s] /\ at[s] \in Nat
    BY DEF TypeOK, SimTypeOK
  <2>4. Registered(Links[s][at[s]])'
    BY <1>3, <1>4, <2>2, <2>3 DEF Staying
  <2>5. Links[s][at[s]].channel \in Channels
    BY <1>7, <2>3 DEF LinksOf
  <2> QED BY <1>4, <2>1, <2>4, <2>5 DEF Registered, NoneLeft
<1>13. NotComplete'
  BY <1>6, <1>7 DEF JoinInv, NotComplete
<1> QED BY <1>10, <1>11, <1>12, <1>13 DEF JoinInv

\* A ModelReady makes its process ready, which has joined.  If all are ready
\* the cycle starts, everyone is notified and no one is ready any more; if one
\* is missing it remains so, for registered are at least those who are ready.
LEMMA ReadyJoin ==
  ASSUME TypeOK, Requests, JoinInv, HandleModelReady, UNCHANGED <<simVars, asked>>
  PROVE  JoinInv'
<1>1. /\ Head(toBus) \in ToBusMessage /\ Head(toBus).type = "ModelReady"
      /\ toBus # << >> /\ PopBus
  BY HandledMessage DEF HandleModelReady
<1>2. PICK sim \in Sims : sim = Head(toBus).sim
  BY <1>1 DEF ToBusMessage
<1>3. /\ 1 \in DOMAIN toBus /\ toBus[1].type = "ModelReady" /\ toBus[1].sim = sim
      /\ ReadyQueued(sim, 1)
  BY <1>1, <1>2, BusShift DEF TypeOK, ReadyQueued
<1>4. /\ UNCHANGED <<busPhase, notifyUids, registerSet>>
      /\ UNCHANGED <<phase, at, token, indexed, stop, asked>>
      /\ busPhase = "run"
  BY DEF HandleModelReady, Handles, simVars
<1> DEFINE ready == AddAll(readySet, LinksOf(sim))
           start == [type |-> "ModelStart", modelTime |-> busTime',
                     stopTime |-> busTime' + 1]
<1>5. /\ \A c \in Channels : ready[c] \subseteq Members(c)
      /\ \A c \in Channels : readySet[c] \subseteq ready[c]
      /\ \A c \in Channels : ready[c] \subseteq registerSet[c]
      /\ \A l \in LinksOf(sim) : l.model \in ready[l.channel]
  <2>1. \A l \in LinksOf(sim) : Registered(l) /\ l.channel \in Channels
    BY <1>3, LinksAreLinks DEF JoinInv, ProcessInv, InOrder, Joined, Link
  <2>2. \A c \in Channels : ready[c] \subseteq Members(c)
    BY ReadySetsAfter
  <2> QED
    BY <2>1, <2>2 DEF AddAll, JoinInv, BusKnows, ReadyIsRegistered, Registered
<1>6. \A s \in Sims : \A l \in LinksOf(s) :
        l.channel \in Channels /\ l.model \in Members(l.channel)
  BY LinksAreLinks DEF Link, Members, ChannelLinks
<1> HIDE DEF ready
<1>7. \A s \in Sims : \A l \in LinksOf(s) :
        (Registered(l) <=> Registered(l)') /\ ~RegisterQueued(l, 1)
  BY <1>3, <1>4 DEF Registered, RegisterQueued
<1>8. \A i \in DOMAIN toBus' :
        toBus'[i].type = "ModelRegister" => toBus'[i].link \in LinksOf(toBus'[i].sim)
  BY <1>1, BusShift DEF TypeOK, JoinInv, BusKnows
<1>9. CASE ~(AllExpected(registerSet) /\ AllExpected(ready))
  <2>1. readySet' = ready /\ UNCHANGED <<busTime, toSim>>
    BY <1>2, <1>9 DEF HandleModelReady, ready
  <2>2. ASSUME NEW s \in Sims PROVE ProcessInv(s)'
    <3>1. ProcessInv(s)
      BY DEF JoinInv
    <3>2. InOrder(s)' /\ Exits(s)' /\ Joining(s)' /\ Indexing(s)'
      BY <1>1, <1>7, <2>1, <3>1, PopKeepsProcess
    <3>3. Staying(s)'
      BY <1>4, <1>7, <2>1, <3>1, StayingKept DEF ProcessInv
    <3>4. ReadyQueued(s, 1) => s = sim
      BY <1>3 DEF ReadyQueued
    <3>5. Waiting(s)'
      BY <1>1, <1>3, <1>5, <1>6, <2>1, <3>1, <3>4, PopKeepsWaiting DEF ProcessInv
    <3> QED BY <3>2, <3>3, <3>5 DEF ProcessInv
  <2>3. BusKnows'
    BY <1>4, <1>5, <1>8, <2>1 DEF JoinInv, BusKnows, ReadyIsRegistered, Registered
  <2>4. NotComplete'
    <3> SUFFICES ASSUME \A s \in Sims : \A l \in LinksOf(s) : l.model \in ready[l.channel]
                 PROVE  FALSE
      BY <2>1 DEF NotComplete
    <3>1. \A c \in Channels : \A x \in Members(c) : x \in ready[c]
      BY DEF Members, ChannelLinks
    <3>2. \A c \in Channels : ready[c] = Members(c) /\ registerSet[c] = Members(c)
      BY <1>5, <3>1 DEF JoinInv, BusKnows
    <3> QED BY <1>9, <3>2 DEF AllExpected, Expected
  <2> QED BY <1>4, <2>1, <2>2, <2>3, <2>4 DEF JoinInv, BusExitsLast
<1>10. CASE AllExpected(registerSet) /\ AllExpected(ready)
  <2>1. /\ busTime' = busTime + 1
        /\ readySet' = [c \in Channels |-> {}]
        /\ Notify(notifyUids, start)
    BY <1>2, <1>10 DEF HandleModelReady, ready
  <2>2. start \in ToSimMessage
    BY <2>1 DEF ToSimMessage, TypeOK, BusTypeOK
  <2>3. \A s \in Sims : \A l \in LinksOf(s) : Registered(l)
    BY <1>6, <1>10, AllExpectedMembers DEF JoinInv, BusKnows, Registered
  <2>4. \A s \in Sims : LinksOf(s) # {}
    BY TopologyAssumption DEF LinksOf
  <2>5. \A s \in Sims : s \in notifyUids
    BY <2>3, <2>4 DEF JoinInv, BusKnows
  <2>6. ASSUME NEW s \in Sims PROVE ProcessInv(s)'
    <3>1. ProcessInv(s)
      BY DEF JoinInv
    <3>2. /\ \A i \in DOMAIN toSim[s] : i \in DOMAIN toSim'[s] /\ toSim'[s][i] = toSim[s][i]
          /\ \A i \in DOMAIN toSim'[s] :
               (i \in DOMAIN toSim[s] /\ toSim'[s][i] = toSim[s][i]) \/ toSim'[s][i] = start
          /\ \E i \in DOMAIN toSim'[s] : toSim'[s][i] = start
      BY <2>1, <2>2, <2>5, NotifyAppends DEF TypeOK
    <3>3. \A i \in DOMAIN toSim'[s] : toSim'[s][i] = start => ~IndexReplied(s, i)'
      BY DEF IndexReplied
    <3>4. InOrder(s)' /\ Exits(s)' /\ Joining(s)' /\ Indexing(s)'
      BY <1>1, <1>7, <3>1, <3>2, <3>3, PopKeepsProcess
    <3>5. Staying(s)'
      BY <1>4, <1>7, <2>3, <3>1 DEF ProcessInv, Staying, LinksOf
    <3>6. \E i \in DOMAIN toSim'[s] : StartQueued(s, i)'
      BY <3>2 DEF StartQueued
    <3>7. Waiting(s)'
      BY <1>1, <1>3, <3>1, <3>2, <3>6, PopKeepsWaiting DEF ProcessInv
    <3> QED BY <3>4, <3>5, <3>7 DEF ProcessInv
  <2>7. BusKnows'
    BY <1>4, <1>8, <2>1 DEF JoinInv, BusKnows, ReadyIsRegistered, Registered
  <2>8. NotComplete'
    BY <1>6, <2>1, <2>4, SimsAssumption DEF NotComplete
  <2>9. BusExitsLast'
    BY <1>4 DEF BusExitsLast
  <2> QED BY <2>6, <2>7, <2>8, <2>9 DEF JoinInv
<1> QED BY <1>9, <1>10

-----------------------------------------------------------------------------
\* The steps of a process.

\* The messages of a process name it or one of its links.
MessageOf(s, m) ==
  /\ m.type = "ModelReady" => m.sim = s
  /\ m.type # "ModelReady" => m.link \in LinksOf(s)
  /\ m.type = "ModelRegister" => m.sim = s

\* A step of s changes the variables of no other process.
OthersStay(s) ==
  \A t \in Sims \ {s} :
    /\ phase'[t] = phase[t] /\ at'[t] = at[t] /\ token'[t] = token[t]
    /\ indexed'[t] = indexed[t] /\ asked'[t] = asked[t] /\ toSim'[t] = toSim[t]

LEMMA BusAppend ==
  ASSUME TransportTypeOK, NEW m \in ToBusMessage, SendToBus(m)
  PROVE  /\ Len(toBus) + 1 \in DOMAIN toBus' /\ toBus'[Len(toBus) + 1] = m
         /\ \A i \in DOMAIN toBus :
              i \in DOMAIN toBus' /\ toBus'[i] = toBus[i] /\ i < Len(toBus) + 1
         /\ \A i \in DOMAIN toBus' :
              (i \in DOMAIN toBus /\ toBus'[i] = toBus[i]) \/ i = Len(toBus) + 1
  BY DEF TransportTypeOK, SendToBus

LEMMA SimShift ==
  ASSUME TransportTypeOK, NEW s \in Sims, toSim[s] # << >>, PopSim(s)
  PROVE  /\ 1 \in DOMAIN toSim[s] /\ Head(toSim[s]) = toSim[s][1]
         /\ \A i \in DOMAIN toSim'[s] :
              i + 1 \in DOMAIN toSim[s] /\ toSim'[s][i] = toSim[s][i + 1]
         /\ \A i \in DOMAIN toSim[s] : i # 1 =>
              i - 1 \in DOMAIN toSim'[s] /\ toSim'[s][i - 1] = toSim[s][i]
<1>1. toSim[s] \in Seq(ToSimMessage) /\ toSim'[s] = Tail(toSim[s])
  BY DEF TransportTypeOK, PopSim
<1> QED BY <1>1

\* A message is sent behind all others, so the order is kept if what it asks
\* for is there and no ModelExit is.
LEMMA PushKeepsOrder ==
  ASSUME TypeOK, NEW s \in Sims, InOrder(s), UNCHANGED registerSet,
         NEW m \in ToBusMessage, SendToBus(m),
         m.type = "SignalIndex" /\ m.link.model \in ModelsOf(s) =>
           \A l \in LinksOf(s) : Registering(l),
         m.type = "ModelReady" /\ m.sim = s => Joined(s),
         (m.type = "SignalIndex" /\ m.link.model \in ModelsOf(s))
           \/ (m.type = "ModelReady" /\ m.sim = s) =>
           \A i \in DOMAIN toBus : \A l \in LinksOf(s) : ~ExitQueued(l, i)
  PROVE  InOrder(s)'
<1>0. PICK n : n = Len(toBus) + 1
  OBVIOUS
<1>1. /\ n \in DOMAIN toBus' /\ toBus'[n] = m
      /\ \A i \in DOMAIN toBus :
           i \in DOMAIN toBus' /\ toBus'[i] = toBus[i] /\ i < n
      /\ \A i \in DOMAIN toBus' :
           (i \in DOMAIN toBus /\ toBus'[i] = toBus[i]) \/ i = n
  BY <1>0, BusAppend DEF TypeOK
<1>2. \A l \in LinksOf(s) : Registered(l)' <=> Registered(l)
  BY DEF Registered
<1>3. \A i \in DOMAIN toBus, l \in LinksOf(s) :
        /\ IndexQueued(s, i)' <=> IndexQueued(s, i)
        /\ ReadyQueued(s, i)' <=> ReadyQueued(s, i)
        /\ ExitQueued(l, i)' <=> ExitQueued(l, i)
        /\ RegisterQueued(l, i)' <=> RegisterQueued(l, i)
  BY <1>1 DEF IndexQueued, ReadyQueued, ExitQueued, RegisterQueued
<1>4. /\ IndexQueued(s, n)' <=> m.type = "SignalIndex" /\ m.link.model \in ModelsOf(s)
      /\ ReadyQueued(s, n)' <=> m.type = "ModelReady" /\ m.sim = s
      /\ \A l \in LinksOf(s) : ExitQueued(l, n)' => m.type = "ModelExit"
  BY <1>1 DEF IndexQueued, ReadyQueued, ExitQueued
<1>5. ASSUME NEW i \in DOMAIN toBus', IndexQueued(s, i)', NEW l \in LinksOf(s)
      PROVE  Registered(l)' \/ \E j \in DOMAIN toBus' : j < i /\ RegisterQueued(l, j)'
  <2>1. CASE i \in DOMAIN toBus
    BY <1>1, <1>2, <1>3, <1>5, <2>1 DEF InOrder
  <2>2. CASE i = n
    BY <1>1, <1>2, <1>3, <1>4, <1>5, <2>2 DEF Registering
  <2> QED BY <1>1, <2>1, <2>2
<1>6. ASSUME NEW i \in DOMAIN toBus', ReadyQueued(s, i)' PROVE Joined(s)'
  BY <1>1, <1>2, <1>3, <1>4, <1>6 DEF InOrder, Joined
<1>7. ASSUME NEW i \in DOMAIN toBus', NEW j \in DOMAIN toBus', NEW l \in LinksOf(s),
             ExitQueued(l, j)', IndexQueued(s, i)' \/ ReadyQueued(s, i)'
      PROVE  i < j
  <2>1. CASE i = n
    BY <1>1, <1>3, <1>4, <1>7, <2>1
  <2>2. CASE i \in DOMAIN toBus /\ j \in DOMAIN toBus
    BY <1>3, <1>7, <2>2 DEF InOrder
  <2> QED BY <1>1, <2>1, <2>2
<1> QED BY <1>5, <1>6, <1>7 DEF InOrder

LEMMA QuietKeepsOrder ==
  ASSUME NEW s \in Sims, InOrder(s), UNCHANGED <<toBus, registerSet>>
  PROVE  InOrder(s)'
  BY DEF InOrder, IndexQueued, ReadyQueued, ExitQueued, RegisterQueued, Registered, Joined

\* What is about to be registered remains so when a message is sent.
LEMMA RegisteringKept ==
  ASSUME TypeOK, UNCHANGED registerSet,
         \/ UNCHANGED toBus
         \/ \E m \in ToBusMessage : SendToBus(m),
         NEW l, Registering(l)
  PROVE  Registering(l)'
<1>1. CASE UNCHANGED toBus
  BY <1>1 DEF Registering, Registered, RegisterQueued
<1>2. ASSUME NEW m \in ToBusMessage, SendToBus(m) PROVE Registering(l)'
  BY <1>2, BusAppend DEF TypeOK, Registering, Registered, RegisterQueued
<1> QED BY <1>1, <1>2

LEMMA OtherProcess ==
  ASSUME TypeOK, NEW s \in Sims, NEW t \in Sims \ {s}, ProcessInv(t),
         UNCHANGED busVars, OthersStay(s),
         \/ UNCHANGED toBus
         \/ \E m \in ToBusMessage : MessageOf(s, m) /\ SendToBus(m)
  PROVE  ProcessInv(t)'
<1> USE DEF ProcessInv
<1>1. /\ phase'[t] = phase[t] /\ at'[t] = at[t] /\ token'[t] = token[t]
      /\ indexed'[t] = indexed[t] /\ asked'[t] = asked[t] /\ toSim'[t] = toSim[t]
      /\ UNCHANGED <<registerSet, readySet, busTime>>
  BY DEF OthersStay, busVars
<1>2. \A i \in DOMAIN toBus :
        i \in DOMAIN toBus' /\ toBus'[i] = toBus[i]
  BY BusAppend DEF TypeOK
<1>3. \A i \in DOMAIN toBus' :
        \/ i \in DOMAIN toBus /\ toBus'[i] = toBus[i]
        \/ toBus'[i] \in ToBusMessage /\ MessageOf(s, toBus'[i])
  BY BusAppend DEF TypeOK
<1>4. ASSUME NEW i \in DOMAIN toBus', NEW l \in LinksOf(t),
             IndexQueued(t, i)' \/ ReadyQueued(t, i)' \/ ExitQueued(l, i)'
      PROVE  i \in DOMAIN toBus /\ toBus'[i] = toBus[i]
  <2>1. ASSUME MessageOf(s, toBus'[i]) PROVE FALSE
    <3>1. CASE ReadyQueued(t, i)'
      BY <2>1, <3>1 DEF MessageOf, ReadyQueued
    <3>2. CASE IndexQueued(t, i)'
      <4>1. toBus'[i].link \in LinksOf(s)
        BY <2>1, <3>2 DEF MessageOf, IndexQueued
      <4>2. PICK k \in LinksOf(t) : k.model = toBus'[i].link.model
        BY <3>2 DEF IndexQueued, ModelsOf
      <4> QED BY <4>1, <4>2, OwnLink
    <3>3. CASE ExitQueued(l, i)'
      BY <2>1, <3>3, OwnLink DEF MessageOf, ExitQueued
    <3> QED BY <1>4, <3>1, <3>2, <3>3
  <2> QED BY <1>3, <2>1
<1>5. InOrder(t)'
  <2>1. CASE UNCHANGED toBus
    BY <1>1, <2>1, QuietKeepsOrder
  <2>2. ASSUME NEW m \in ToBusMessage, MessageOf(s, m), SendToBus(m)
        PROVE  InOrder(t)'
    <3>1. ~(m.type = "SignalIndex" /\ m.link.model \in ModelsOf(t))
      BY <2>2, OwnLink DEF MessageOf, ModelsOf
    <3>2. ~(m.type = "ModelReady" /\ m.sim = t)
      BY <2>2 DEF MessageOf
    <3> QED BY <1>1, <2>2, <3>1, <3>2, PushKeepsOrder
  <2> QED BY <2>1, <2>2
<1>6. Exits(t)'
  BY <1>1, <1>4 DEF Exits, ExitQueued
<1>7. \A l \in LinksOf(t) : Registering(l) => Registering(l)'
  BY <1>1, RegisteringKept
<1>8. Joining(t)'
  <2>1. Joined(t)' <=> Joined(t)
    BY <1>1 DEF Joined, Registered
  <2>2. \A i : IndexReplied(t, i)' <=> IndexReplied(t, i)
    BY <1>1 DEF IndexReplied
  <2>3. \A k \in DOMAIN Links[t] : Links[t][k] \in LinksOf(t)
    BY DEF LinksOf
  <2>4. \A k \in DOMAIN Links[t] : Registering(Links[t][k]) => Registering(Links[t][k])'
    BY <1>7, <2>3
  <2> QED BY <1>1, <1>7, <2>1, <2>2, <2>4 DEF Joining
<1>9. Indexing(t)'
  <2>1. CurrentLink(t) \in LinksOf(t)
    BY DEF CurrentLink, LinksOf, TypeOK, SimTypeOK
  <2>2. CurrentLink(t)' = CurrentLink(t)
    BY <1>1 DEF CurrentLink
  <2> QED BY <1>1, <1>4, <2>1, <2>2 DEF Indexing, IndexQueued, IndexReplied
<1>10. Staying(t)'
  BY <1>1 DEF Staying, Registered
<1>11. Waiting(t)'
  <2>1. \A type : Answering(t, type) => Answering(t, type)'
    BY <1>1, <1>2 DEF Answering, CurrentLink, IsReply
  <2> QED BY <1>1, <1>2, <2>1 DEF Waiting, ReadyQueued, StartQueued
<1> QED BY <1>5, <1>6, <1>8, <1>9, <1>10, <1>11

\* A process that has not come to its end has sent no ModelExit.
LEMMA NoExitYet ==
  ASSUME NEW s \in Sims, Exits(s), phase[s] \notin {"exit", "done", "dead"}
  PROVE  \A i \in DOMAIN toBus : \A l \in LinksOf(s) : ~ExitQueued(l, i)
  BY DEF Exits

\* Before the simulation loop a process has not asked for a cycle, so none was
\* started.
LEMMA EarlyIsBeforeStart ==
  ASSUME TypeOK, Places, NEW s \in Sims, Staying(s), phase[s] \in Early
  PROVE  busTime < 0
  BY DEF TypeOK, BusTypeOK, Places, Cycles, Staying

\* A process that sends nothing, and at most takes a message.
Quiet(s) ==
  /\ UNCHANGED <<toBus, registerSet, readySet, busTime>>
  /\ at'[s] = at[s] /\ token'[s] = token[s]
  /\ indexed'[s] = indexed[s] /\ asked'[s] = asked[s]
  /\ \A i \in DOMAIN toSim'[s] : \E k \in DOMAIN toSim[s] : toSim'[s][i] = toSim[s][k]

LEMMA QuietStep ==
  ASSUME TypeOK, NEW s \in Sims, ProcessInv(s), Quiet(s),
         \/ phase'[s] = phase[s]
         \/ phase[s] # "done" /\ phase'[s] = "dead"
         \/ phase[s] \in Looping /\ phase'[s] \in {"loop", "step", "exit"},
         Waiting(s)'
  PROVE  ProcessInv(s)'
<1> USE DEF ProcessInv
<1>1. /\ UNCHANGED <<toBus, registerSet, readySet, busTime>>
      /\ at'[s] = at[s] /\ token'[s] = token[s]
      /\ indexed'[s] = indexed[s] /\ asked'[s] = asked[s]
      /\ \A i \in DOMAIN toSim'[s] : \E k \in DOMAIN toSim[s] : toSim'[s][i] = toSim[s][k]
  BY DEF Quiet
<1>2. /\ phase'[s] \in Early \cup {"startWait"} => phase'[s] = phase[s]
      /\ phase'[s] \in Looping => phase[s] \in Looping
      /\ phase'[s] = "done" <=> phase[s] = "done"
  BY DEF Early, Looping
<1>3. InOrder(s)'
  BY <1>1, QuietKeepsOrder
<1>4. Exits(s)'
  BY <1>1 DEF Exits, ExitQueued, Looping
<1>5. \A l : /\ Registering(l)' <=> Registering(l)
             /\ Registered(l)' <=> Registered(l)
  BY <1>1 DEF Registering, Registered, RegisterQueued
<1>6. \A i \in DOMAIN toSim'[s] : IndexReplied(s, i)' =>
        \E k \in DOMAIN toSim[s] : IndexReplied(s, k) /\ toSim'[s][i] = toSim[s][k]
  BY <1>1 DEF IndexReplied
<1>7. Joining(s)'
  BY <1>1, <1>2, <1>5, <1>6 DEF Joining, Joined, Early
<1>8. Indexing(s)'
  BY <1>1, <1>2, <1>6 DEF Indexing, IndexQueued, CurrentLink, Early
<1>9. Staying(s)'
  BY <1>1, <1>2, <1>5 DEF Staying
<1> QED BY <1>3, <1>4, <1>7, <1>8, <1>9

LEMMA LeavingJoin ==
  ASSUME TypeOK, NEW s \in Sims, ProcessInv(s), UNCHANGED <<busVars, asked>>,
         \/ NoSignalIndex(s) \/ LeaveLoop(s) \/ StartTimeout(s)
         \/ StartInterrupted(s) \/ StepModels(s) \/ Kill(s) \/ ReceiveModelStart(s)
  PROVE  ProcessInv(s)' /\ OthersStay(s) /\ UNCHANGED toBus /\ phase[s] # "done"
<1> USE DEF TypeOK
<1>1. /\ UNCHANGED <<toBus, registerSet, readySet, busTime, at, token, indexed, asked>>
      /\ UNCHANGED toSim \/ (toSim[s] # << >> /\ PopSim(s))
  BY DEF NoSignalIndex, LeaveLoop, StartTimeout, StartInterrupted, StepModels, Kill,
         ReceiveModelStart, Receives, busVars, transportVars
<1>2. /\ \/ phase[s] # "done" /\ phase'[s] = "dead"
         \/ phase[s] \in Looping /\ phase'[s] \in {"loop", "step", "exit"}
      /\ phase[s] # "done"
      /\ \A t \in Sims \ {s} : phase'[t] = phase[t]
  BY DEF NoSignalIndex, LeaveLoop, StartTimeout, StartInterrupted, StepModels, Kill,
         ReceiveModelStart, Becomes, SimTypeOK, Looping
<1>3. \A i \in DOMAIN toSim'[s] : \E k \in DOMAIN toSim[s] : toSim'[s][i] = toSim[s][k]
  BY <1>1, SimShift
<1>4. \A t \in Sims \ {s} : toSim'[t] = toSim[t]
  BY <1>1, SimPop
<1>5. Quiet(s)
  BY <1>1, <1>3 DEF Quiet
<1>6. Waiting(s)'
  BY <1>2 DEF Waiting
<1> QED BY <1>1, <1>2, <1>4, <1>5, <1>6, QuietStep DEF OthersStay

LEMMA RequestStopJoin ==
  ASSUME TypeOK, NEW s \in Sims, ProcessInv(s), UNCHANGED <<busVars, asked>>, RequestStop(s)
  PROVE  ProcessInv(s)' /\ OthersStay(s) /\ UNCHANGED <<toBus, phase>>
<1>1. UNCHANGED <<toBus, toSim, registerSet, readySet, busTime, phase, at, token, indexed, asked>>
  BY DEF RequestStop, busVars, transportVars
<1>2. Quiet(s) /\ OthersStay(s)
  BY <1>1 DEF Quiet, OthersStay
<1>3. Waiting(s)'
  BY <1>1 DEF ProcessInv, Waiting, Answering, IsReply, CurrentLink, ReadyQueued, StartQueued
<1> QED BY <1>1, <1>2, <1>3, QuietStep

\* No answer that is waited for is dropped.
LEMMA DiscardJoin ==
  ASSUME TypeOK, NEW s \in Sims, ProcessInv(s), UNCHANGED <<busVars, asked>>, Discard(s)
  PROVE  ProcessInv(s)' /\ OthersStay(s) /\ UNCHANGED <<toBus, phase>>
<1>1. /\ UNCHANGED <<toBus, registerSet, readySet, busTime, phase, at, token, indexed, asked>>
      /\ toSim[s] # << >> /\ PopSim(s)
      /\ \/ phase[s] = "connectWait" /\ ~IsReply(s, Head(toSim[s]), "ModelRegister")
         \/ phase[s] = "indexWait" /\ ~IsReply(s, Head(toSim[s]), "SignalIndex")
         \/ phase[s] = "startWait" /\ Head(toSim[s]).type # "ModelStart"
  BY DEF Discard, Receives, simVars, busVars
<1>2. /\ 1 \in DOMAIN toSim[s] /\ Head(toSim[s]) = toSim[s][1]
      /\ \A i \in DOMAIN toSim'[s] :
           i + 1 \in DOMAIN toSim[s] /\ toSim'[s][i] = toSim[s][i + 1]
      /\ \A i \in DOMAIN toSim[s] : i # 1 =>
           i - 1 \in DOMAIN toSim'[s] /\ toSim'[s][i - 1] = toSim[s][i]
      /\ \A t \in Sims \ {s} : toSim'[t] = toSim[t]
  BY <1>1, SimShift, SimPop DEF TypeOK
<1>3. Quiet(s) /\ OthersStay(s)
  BY <1>1, <1>2 DEF Quiet, OthersStay
<1>4. ASSUME NEW type, Answering(s, type), ~IsReply(s, Head(toSim[s]), type)
      PROVE  Answering(s, type)'
  <2>1. CASE \E i \in DOMAIN toBus :
               /\ toBus[i].type = type
               /\ toBus[i].link = CurrentLink(s) /\ toBus[i].token = token[s]
    BY <1>1, <2>1 DEF Answering, CurrentLink
  <2>2. ASSUME NEW i \in DOMAIN toSim[s], IsReply(s, toSim[s][i], type)
        PROVE  Answering(s, type)'
    <3>1. i - 1 \in DOMAIN toSim'[s] /\ toSim'[s][i - 1] = toSim[s][i]
      BY <1>2, <1>4, <2>2
    <3> QED BY <1>1, <2>2, <3>1 DEF Answering, IsReply
  <2> QED BY <1>4, <2>1, <2>2 DEF Answering
<1>5. phase[s] = "startWait" => Waiting(s)'
  BY <1>1, <1>2 DEF ProcessInv, Waiting, ReadyQueued, StartQueued
<1>6. Waiting(s)'
  BY <1>1, <1>4, <1>5 DEF ProcessInv, Waiting
<1> QED BY <1>1, <1>3, <1>6, QuietStep

\* The ModelRegister for the link in hand is sent.
LEMMA SendRegisterJoin ==
  ASSUME TypeOK, NEW s \in Sims, ProcessInv(s), UNCHANGED <<busVars, asked>>,
         SendModelRegister(s)
  PROVE  /\ ProcessInv(s)' /\ OthersStay(s) /\ phase[s] # "done"
         /\ \E m \in ToBusMessage : MessageOf(s, m) /\ SendToBus(m)
<1> USE DEF TypeOK, ProcessInv
<1>0. PICK m, n : /\ m = [type |-> "ModelRegister", sim |-> s,
                          link |-> CurrentLink(s), token |-> token'[s]]
                  /\ n = Len(toBus) + 1
  OBVIOUS
<1>1. /\ phase[s] = "connect" /\ phase'[s] = "connectWait"
      /\ token'[s] = token[s] + 1 /\ token[s] \in Nat
      /\ UNCHANGED <<at, indexed, asked, toSim, registerSet, readySet, busTime>>
      /\ OthersStay(s) /\ SendToBus(m)
  BY <1>0 DEF SendModelRegister, Becomes, SimTypeOK, busVars, OthersStay
<1>2. CurrentLink(s) \in LinksOf(s) /\ CurrentLink(s)' = CurrentLink(s)
  BY <1>1 DEF CurrentLink, LinksOf, SimTypeOK
<1>3. m \in ToBusMessage /\ MessageOf(s, m)
  BY <1>0, <1>1, <1>2, LinksAreLinks DEF ToBusMessage, MessageOf
<1>4. /\ n \in DOMAIN toBus' /\ toBus'[n] = m
      /\ \A i \in DOMAIN toBus' :
           (i \in DOMAIN toBus /\ toBus'[i] = toBus[i]) \/ i = n
  BY <1>0, <1>1, <1>3, BusAppend
<1>5. InOrder(s)'
  BY <1>0, <1>1, <1>3, PushKeepsOrder
<1>6. Exits(s)'
  BY <1>0, <1>1, <1>4, NoExitYet DEF Exits, ExitQueued
<1>7. \A l : Registering(l) => Registering(l)'
  BY <1>1, <1>3, RegisteringKept
<1>8. Registering(CurrentLink(s))'
  BY <1>0, <1>2, <1>4 DEF Registering, RegisterQueued
<1>9. Joining(s)'
  BY <1>1, <1>7, <1>8 DEF Joining, Joined, Registered, IndexReplied, CurrentLink,
                          Early, Looping
<1>10. Indexing(s)'
  <2>1. ASSUME NEW i \in DOMAIN toBus', IndexQueued(s, i)'
        PROVE  toBus'[i].token \in Nat /\ toBus'[i].token <= token[s]
    <3>1. i \in DOMAIN toBus /\ toBus'[i] = toBus[i] /\ toBus[i] \in ToBusMessage
      BY <1>0, <1>4, <2>1 DEF IndexQueued, TransportTypeOK
    <3>2. IndexQueued(s, i)
      BY <2>1, <3>1 DEF IndexQueued
    <3> QED BY <3>1, <3>2 DEF Indexing, ToBusMessage, IndexQueued
  <2>2. ASSUME NEW i \in DOMAIN toSim[s], IndexReplied(s, i)
        PROVE  toSim[s][i].token \in Nat /\ toSim[s][i].token <= token[s]
    <3>1. toSim[s][i] \in ToSimMessage
      BY DEF TransportTypeOK
    <3> QED BY <2>2, <3>1 DEF Indexing, ToSimMessage, IndexReplied
  <2> QED BY <1>1, <2>1, <2>2 DEF Indexing, IndexReplied, Looping
<1>11. Staying(s)'
  BY <1>1 DEF Staying, Early, Registered
<1>12. Waiting(s)'
  BY <1>0, <1>1, <1>2, <1>4 DEF Waiting, Answering
<1> QED BY <1>1, <1>3, <1>5, <1>6, <1>9, <1>10, <1>11, <1>12

\* The next link, another attempt, or the end of adapter_msg_connect.
LEMMA ConnectedJoin ==
  ASSUME TypeOK, Places, NEW s \in Sims, ProcessInv(s), UNCHANGED <<busVars, asked>>,
         ReceiveRegisterAck(s) \/ RegisterTimeout(s) \/ RegisterInterrupted(s)
  PROVE  ProcessInv(s)' /\ OthersStay(s) /\ UNCHANGED toBus /\ phase[s] # "done"
<1> USE DEF TypeOK, ProcessInv
<1>1. /\ phase[s] = "connectWait"
      /\ UNCHANGED <<toBus, token, indexed, asked, registerSet, readySet, busTime>>
      /\ UNCHANGED toSim \/ (toSim[s] # << >> /\ PopSim(s))
      /\ (Becomes(s, "connect") /\ UNCHANGED at) \/ Connected(s)
  BY DEF ReceiveRegisterAck, RegisterTimeout, RegisterInterrupted, Receives, busVars,
         transportVars
<1>2. /\ \A i \in DOMAIN toSim'[s] : \E k \in DOMAIN toSim[s] : toSim'[s][i] = toSim[s][k]
      /\ \A t \in Sims \ {s} : toSim'[t] = toSim[t]
  BY <1>1, SimShift, SimPop
<1>3. at[s] \in Nat /\ at[s] \in 1..Len(Links[s]) /\ DOMAIN Links[s] = 1..Len(Links[s])
  BY LinksLength DEF SimTypeOK
<1>4. /\ \/ phase'[s] = "connect" /\ at'[s] = at[s]
         \/ phase'[s] = "connect" /\ at'[s] = at[s] + 1 /\ at[s] < Len(Links[s])
         \/ phase'[s] \in {"index", "exit"} /\ at'[s] = 1 /\ at[s] = Len(Links[s])
      /\ \A t \in Sims \ {s} : phase'[t] = phase[t] /\ at'[t] = at[t]
  BY <1>1, <1>3, LinksLength DEF Connected, NextLink, Becomes, SimTypeOK
<1>5. OthersStay(s)
  BY <1>1, <1>2, <1>4 DEF OthersStay
<1>6. InOrder(s)' /\ Exits(s)'
  BY <1>1, QuietKeepsOrder, NoExitYet DEF Exits, ExitQueued
<1>7. \A k \in DOMAIN Links[s] : k <= at[s] => Registering(Links[s][k])'
  <2>1. \A k \in DOMAIN Links[s] : k <= at[s] => Registering(Links[s][k])
    BY <1>1, <1>3 DEF Joining
  <2> QED BY <1>1, <2>1 DEF Registering, Registered, RegisterQueued
<1>8. Joining(s)'
  <2>1. phase'[s] \in {"connect", "connectWait"} => \A k \in DOMAIN Links[s] :
          k < at'[s] \/ (k = at'[s] /\ phase'[s] = "connectWait") => Registering(Links[s][k])'
    BY <1>3, <1>4, <1>7
  <2>2. phase'[s] \in {"index", "indexWait"} => \A l \in LinksOf(s) : Registering(l)'
    BY <1>3, <1>4, <1>7 DEF LinksOf
  <2>3. \A i \in DOMAIN toSim'[s] : IndexReplied(s, i)' => Joined(s)'
    BY <1>1, <1>2 DEF Joining, IndexReplied, Joined, Registered, Early
  <2> QED BY <1>4, <2>1, <2>2, <2>3 DEF Joining, Looping
<1>9. Indexing(s)'
  <2>1. indexed'[s] = {}
    BY <1>1 DEF Indexing
  <2>2. phase'[s] = "index" => indexed'[s] = { Links[s][k] : k \in 1..at'[s] - 1 }
    BY <1>4, <2>1
  <2> QED
    BY <1>1, <1>2, <1>4, <2>1, <2>2 DEF Indexing, IndexQueued, IndexReplied, Looping
<1>10. Staying(s)'
  BY <1>1, <1>4, EarlyIsBeforeStart DEF Staying, Early, BusTypeOK
<1>11. Waiting(s)'
  BY <1>4 DEF Waiting
<1> QED BY <1>1, <1>5, <1>6, <1>8, <1>9, <1>10, <1>11

\* The SignalIndex for the link in hand is sent, behind the ModelRegister
\* messages for all links.
LEMMA SendIndexJoin ==
  ASSUME TypeOK, NEW s \in Sims, ProcessInv(s), UNCHANGED <<busVars, asked>>,
         SendSignalIndex(s)
  PROVE  /\ ProcessInv(s)' /\ OthersStay(s) /\ phase[s] # "done"
         /\ \E m \in ToBusMessage : MessageOf(s, m) /\ SendToBus(m)
<1> USE DEF TypeOK, ProcessInv
<1>0. PICK m, n : /\ m = [type |-> "SignalIndex", link |-> CurrentLink(s),
                          token |-> token'[s]]
                  /\ n = Len(toBus) + 1
  OBVIOUS
<1>1. /\ phase[s] = "index" /\ phase'[s] = "indexWait"
      /\ token'[s] = token[s] + 1 /\ token[s] \in Nat
      /\ UNCHANGED <<at, indexed, asked, toSim, registerSet, readySet, busTime>>
      /\ OthersStay(s) /\ SendToBus(m)
  BY <1>0 DEF SendSignalIndex, Becomes, SimTypeOK, busVars, OthersStay
<1>2. CurrentLink(s) \in LinksOf(s) /\ CurrentLink(s)' = CurrentLink(s)
  BY <1>1 DEF CurrentLink, LinksOf, SimTypeOK
<1>3. m \in ToBusMessage /\ MessageOf(s, m)
  BY <1>0, <1>1, <1>2, LinksAreLinks DEF ToBusMessage, MessageOf
<1>4. /\ n \in DOMAIN toBus' /\ toBus'[n] = m
      /\ \A i \in DOMAIN toBus' :
           (i \in DOMAIN toBus /\ toBus'[i] = toBus[i]) \/ i = n
  BY <1>0, <1>1, <1>3, BusAppend
<1>5. /\ \A l \in LinksOf(s) : Registering(l)
      /\ \A i \in DOMAIN toBus : \A l \in LinksOf(s) : ~ExitQueued(l, i)
  BY <1>1, NoExitYet DEF Joining
<1>6. InOrder(s)'
  BY <1>0, <1>1, <1>3, <1>5, PushKeepsOrder
<1>7. Exits(s)'
  BY <1>0, <1>1, <1>4, <1>5 DEF Exits, ExitQueued
<1>8. Joining(s)'
  <2>1. \A l \in LinksOf(s) : Registering(l)'
    BY <1>1, <1>3, <1>5, RegisteringKept
  <2> QED BY <1>1, <2>1 DEF Joining, Joined, Registered, IndexReplied, Early, Looping
<1>9. Indexing(s)'
  <2>1. ASSUME NEW i \in DOMAIN toBus, IndexQueued(s, i)
        PROVE  toBus[i].token \in Nat /\ toBus[i].token <= token[s]
    <3>1. toBus[i] \in ToBusMessage
      BY DEF TransportTypeOK
    <3> QED BY <2>1, <3>1 DEF Indexing, ToBusMessage, IndexQueued
  <2>2. ASSUME NEW i \in DOMAIN toSim[s], IndexReplied(s, i)
        PROVE  toSim[s][i].token \in Nat /\ toSim[s][i].token <= token[s]
    <3>1. toSim[s][i] \in ToSimMessage
      BY DEF TransportTypeOK
    <3> QED BY <2>2, <3>1 DEF Indexing, ToSimMessage, IndexReplied
  <2>3. ASSUME NEW i \in DOMAIN toBus', IndexQueued(s, i)'
        PROVE  /\ toBus'[i].token <= token'[s]
               /\ toBus'[i].token = token'[s] => toBus'[i].link = CurrentLink(s)
    <3>1. CASE i \in DOMAIN toBus /\ toBus'[i] = toBus[i]
      BY <1>1, <2>1, <2>3, <3>1 DEF IndexQueued
    <3>2. CASE i = n
      BY <1>0, <1>1, <1>4, <3>2
    <3> QED BY <1>4, <3>1, <3>2
  <2>4. ASSUME NEW i \in DOMAIN toSim'[s], IndexReplied(s, i)'
        PROVE  toSim'[s][i].token <= token'[s] /\ toSim'[s][i].token # token'[s]
    BY <1>1, <2>2, <2>4 DEF IndexReplied
  <2>5. indexed'[s] = { Links[s][k] : k \in 1..at'[s] - 1 }
    BY <1>1 DEF Indexing
  <2> QED BY <1>1, <1>2, <2>3, <2>4, <2>5 DEF Indexing, Looping
<1>10. Staying(s)'
  BY <1>1 DEF Staying, Early, Registered
<1>11. Waiting(s)'
  BY <1>0, <1>1, <1>2, <1>4 DEF Waiting, Answering
<1> QED BY <1>1, <1>3, <1>6, <1>7, <1>8, <1>9, <1>10, <1>11

\* The reply with the token of the request is for the link in hand, and comes
\* when all links are registered.
LEMMA ReceiveIndexJoin ==
  ASSUME TypeOK, Places, NEW s \in Sims, ProcessInv(s), UNCHANGED <<busVars, asked>>,
         ReceiveSignalIndex(s)
  PROVE  ProcessInv(s)' /\ OthersStay(s) /\ UNCHANGED toBus /\ phase[s] # "done"
<1> USE DEF TypeOK, ProcessInv
<1>1. /\ phase[s] = "indexWait" /\ toSim[s] # << >> /\ PopSim(s)
      /\ UNCHANGED <<toBus, token, asked, registerSet, readySet, busTime>>
      /\ IsReply(s, Head(toSim[s]), "SignalIndex")
      /\ indexed' = [indexed EXCEPT ![s] = @ \cup {Head(toSim[s]).link}]
  BY DEF ReceiveSignalIndex, Receives, busVars
<1>2. /\ 1 \in DOMAIN toSim[s] /\ Head(toSim[s]) = toSim[s][1]
      /\ \A i \in DOMAIN toSim'[s] : \E k \in DOMAIN toSim[s] : toSim'[s][i] = toSim[s][k]
      /\ \A t \in Sims \ {s} : toSim'[t] = toSim[t]
  BY <1>1, SimShift, SimPop
<1>3. at[s] \in Nat /\ at[s] \in 1..Len(Links[s]) /\ DOMAIN Links[s] = 1..Len(Links[s])
  BY LinksLength DEF SimTypeOK
<1>4. /\ \/ phase'[s] = "index" /\ at'[s] = at[s] + 1 /\ at[s] < Len(Links[s])
         \/ phase'[s] = "loop" /\ at'[s] = 1 /\ at[s] = Len(Links[s])
      /\ \A t \in Sims \ {s} : phase'[t] = phase[t] /\ at'[t] = at[t]
  BY <1>3, LinksLength DEF ReceiveSignalIndex, NextLink, Becomes, SimTypeOK
<1>5. OthersStay(s)
  BY <1>1, <1>2, <1>4 DEF OthersStay, SimTypeOK
<1>6. IndexReplied(s, 1) /\ toSim[s][1].token = token[s]
  BY <1>1, <1>2 DEF IsReply, IndexReplied
<1>7. Joined(s) /\ Head(toSim[s]).link = CurrentLink(s)
  BY <1>1, <1>2, <1>6 DEF Joining, Indexing, Early
<1>8. InOrder(s)' /\ Exits(s)'
  BY <1>1, QuietKeepsOrder, NoExitYet DEF Exits, ExitQueued
<1>9. Joined(s)'
  BY <1>1, <1>7 DEF Joined, Registered
<1>10. Joining(s)'
  BY <1>4, <1>9 DEF Joining, Joined, Registering, Looping
<1>11. Indexing(s)'
  <2>1. indexed'[s] = { Links[s][k] : k \in 1..at[s] - 1 } \cup {Links[s][at[s]]}
    BY <1>1, <1>7 DEF Indexing, CurrentLink, SimTypeOK
  <2>2. indexed'[s] = { Links[s][k] : k \in 1..at[s] }
    BY <1>3, <2>1
  <2>3. phase'[s] = "index" => indexed'[s] = { Links[s][k] : k \in 1..at'[s] - 1 }
    BY <1>3, <1>4, <2>2
  <2>4. phase'[s] = "loop" => indexed'[s] = LinksOf(s)
    BY <1>3, <1>4, <2>2 DEF LinksOf
  <2>5. /\ \A i \in DOMAIN toBus' : IndexQueued(s, i)' => toBus'[i].token <= token'[s]
        /\ \A i \in DOMAIN toSim'[s] : IndexReplied(s, i)' => toSim'[s][i].token <= token'[s]
    BY <1>1, <1>2 DEF Indexing, IndexQueued, IndexReplied
  <2> QED BY <1>4, <2>3, <2>4, <2>5 DEF Indexing, Looping
<1>12. Staying(s)'
  BY <1>1, <1>4, EarlyIsBeforeStart DEF Staying, Early, BusTypeOK
<1>13. Waiting(s)'
  BY <1>4 DEF Waiting
<1> QED BY <1>1, <1>5, <1>8, <1>10, <1>11, <1>12, <1>13

\* A process asks for a cycle when it has joined.
LEMMA SendReadyJoin ==
  ASSUME TypeOK, NEW s \in Sims, ProcessInv(s), UNCHANGED busVars,
         SendModelReady(s), CountReady(s)
  PROVE  /\ ProcessInv(s)' /\ OthersStay(s) /\ phase[s] # "done"
         /\ \E m \in ToBusMessage : MessageOf(s, m) /\ SendToBus(m)
<1> USE DEF TypeOK, ProcessInv
<1>0. PICK m, n : m = [type |-> "ModelReady", sim |-> s] /\ n = Len(toBus) + 1
  OBVIOUS
<1>1. /\ phase[s] = "loop" /\ phase'[s] = "startWait"
      /\ UNCHANGED <<at, token, indexed, toSim, registerSet, readySet, busTime>>
      /\ OthersStay(s) /\ SendToBus(m)
  BY <1>0 DEF SendModelReady, CountReady, Becomes, SimTypeOK, busVars, OthersStay
<1>2. m \in ToBusMessage /\ MessageOf(s, m)
  BY <1>0 DEF ToBusMessage, MessageOf
<1>3. /\ n \in DOMAIN toBus' /\ toBus'[n] = m
      /\ \A i \in DOMAIN toBus' :
           (i \in DOMAIN toBus /\ toBus'[i] = toBus[i]) \/ i = n
  BY <1>0, <1>1, <1>2, BusAppend
<1>4. Joined(s) /\ \A i \in DOMAIN toBus : \A l \in LinksOf(s) : ~ExitQueued(l, i)
  BY <1>1, NoExitYet DEF Joining, Looping
<1>5. InOrder(s)'
  BY <1>0, <1>1, <1>2, <1>4, PushKeepsOrder
<1>6. Exits(s)'
  BY <1>0, <1>1, <1>3, <1>4 DEF Exits, ExitQueued
<1>7. Joining(s)'
  BY <1>1 DEF Joining, Joined, Registered, Early, Looping
<1>8. Indexing(s)'
  BY <1>0, <1>1, <1>3 DEF Indexing, IndexQueued, IndexReplied, Looping
<1>9. Staying(s)'
  BY <1>1 DEF Staying, Early, Registered
<1>10. Waiting(s)'
  BY <1>0, <1>1, <1>3 DEF Waiting, ReadyQueued
<1> QED BY <1>1, <1>2, <1>5, <1>6, <1>7, <1>8, <1>9, <1>10

\* The process leaves the link in hand, having left those before it.
LEMMA SendExitJoin ==
  ASSUME TypeOK, NEW s \in Sims, ProcessInv(s), UNCHANGED <<busVars, asked>>,
         SendModelExit(s)
  PROVE  /\ ProcessInv(s)' /\ OthersStay(s) /\ phase[s] # "done"
         /\ \E m \in ToBusMessage : MessageOf(s, m) /\ SendToBus(m)
<1> USE DEF TypeOK, ProcessInv
<1>0. PICK m, n : /\ m = [type |-> "ModelExit", link |-> CurrentLink(s)]
                  /\ n = Len(toBus) + 1
  OBVIOUS
<1>1. /\ phase[s] = "exit"
      /\ UNCHANGED <<token, indexed, asked, toSim, registerSet, readySet, busTime>>
      /\ SendToBus(m)
  BY <1>0 DEF SendModelExit, busVars
<1>2. at[s] \in Nat /\ at[s] \in 1..Len(Links[s]) /\ DOMAIN Links[s] = 1..Len(Links[s])
  BY LinksLength DEF SimTypeOK
<1>3. /\ \/ phase'[s] = "exit" /\ at'[s] = at[s] + 1
         \/ phase'[s] = "done"
      /\ \A t \in Sims \ {s} : phase'[t] = phase[t] /\ at'[t] = at[t]
  BY <1>2, LinksLength DEF SendModelExit, NextLink, Becomes, SimTypeOK
<1>4. OthersStay(s)
  BY <1>1, <1>3 DEF OthersStay
<1>5. CurrentLink(s) \in LinksOf(s)
  BY DEF CurrentLink, LinksOf, SimTypeOK
<1>6. m \in ToBusMessage /\ MessageOf(s, m)
  BY <1>0, <1>5, LinksAreLinks DEF ToBusMessage, MessageOf
<1>7. /\ n \in DOMAIN toBus' /\ toBus'[n] = m
      /\ \A i \in DOMAIN toBus' :
           (i \in DOMAIN toBus /\ toBus'[i] = toBus[i]) \/ i = n
  BY <1>0, <1>1, <1>6, BusAppend
<1>8. InOrder(s)'
  BY <1>0, <1>1, <1>6, PushKeepsOrder
<1>9. Exits(s)'
  <2>1. ASSUME NEW i \in DOMAIN toBus', NEW l \in LinksOf(s), ExitQueued(l, i)'
        PROVE  \E k \in DOMAIN Links[s] : k < at[s] + 1 /\ l = Links[s][k]
    <3>1. CASE i \in DOMAIN toBus /\ toBus'[i] = toBus[i]
      <4>1. PICK k \in DOMAIN Links[s] : k < at[s] /\ l = Links[s][k]
        BY <1>1, <2>1, <3>1 DEF Exits, ExitQueued
      <4> QED BY <1>2, <4>1
    <3>2. CASE i = n
      BY <1>0, <1>2, <1>7, <2>1, <3>2 DEF ExitQueued, CurrentLink
    <3> QED BY <1>7, <3>1, <3>2
  <2> QED BY <1>3, <2>1 DEF Exits
<1>10. Joining(s)' /\ Waiting(s)'
  BY <1>3 DEF Joining, Waiting, Early, Looping
<1>11. Indexing(s)'
  BY <1>0, <1>1, <1>3, <1>7 DEF Indexing, IndexQueued, IndexReplied, Looping
<1>12. Staying(s)'
  BY <1>1, <1>2, <1>3 DEF Staying, Early, Registered
<1> QED BY <1>1, <1>4, <1>6, <1>8, <1>9, <1>10, <1>11, <1>12

-----------------------------------------------------------------------------
\* The theorems.

LEMMA InitJoin == Init => JoinInv
<1> SUFFICES ASSUME Init PROVE JoinInv
  OBVIOUS
<1> USE DEF Init, TransportInit, BusInit, SimInit
<1>1. \A s \in Sims : \A l \in LinksOf(s) : ~Registered(l) /\ l.model \notin readySet[l.channel]
  BY LinksAreLinks DEF Registered, Link
<1>2. ASSUME NEW s \in Sims PROVE ProcessInv(s)
  <2>1. InOrder(s) /\ Exits(s)
    BY DEF InOrder, Exits
  <2>2. Joining(s)
    BY LinksLength DEF Joining, Looping
  <2>3. Indexing(s) /\ Staying(s) /\ Waiting(s)
    BY DEF Indexing, Staying, Waiting, Looping
  <2> QED BY <2>1, <2>2, <2>3 DEF ProcessInv
<1>3. BusKnows /\ BusExitsLast
  BY <1>1 DEF BusKnows, BusExitsLast, ReadyIsRegistered
<1>4. NotComplete
  <2>1. \A s \in Sims : LinksOf(s) # {}
    BY TopologyAssumption DEF LinksOf
  <2> QED BY <1>1, <2>1, SimsAssumption DEF NotComplete
<1> QED BY <1>2, <1>3, <1>4 DEF JoinInv

\* What a process does disturbs neither the others nor the SimBus.
LEMMA ProcessJoin ==
  ASSUME TypeOK, JoinInv, NEW s \in Sims, UNCHANGED busVars,
         ProcessInv(s)', OthersStay(s), phase[s] = "done" => phase'[s] = "done",
         \/ UNCHANGED toBus
         \/ \E m \in ToBusMessage : MessageOf(s, m) /\ SendToBus(m)
  PROVE  JoinInv'
<1>1. \A t \in Sims : ProcessInv(t)'
  BY OtherProcess DEF JoinInv
<1>2. UNCHANGED <<busPhase, busTime, notifyUids, registerSet, readySet>>
  BY DEF busVars
<1>3. \A i \in DOMAIN toBus' :
        toBus'[i].type = "ModelRegister" => toBus'[i].link \in LinksOf(toBus'[i].sim)
  <2>1. ASSUME NEW m \in ToBusMessage, MessageOf(s, m), SendToBus(m),
               NEW i \in DOMAIN toBus', toBus'[i].type = "ModelRegister"
        PROVE  toBus'[i].link \in LinksOf(toBus'[i].sim)
    <3>1. CASE toBus'[i] = m
      BY <2>1, <3>1 DEF MessageOf
    <3>2. CASE i \in DOMAIN toBus /\ toBus'[i] = toBus[i]
      BY <2>1, <3>2 DEF JoinInv, BusKnows
    <3> QED BY <2>1, <3>1, <3>2, BusAppend DEF TypeOK
  <2> QED BY <2>1 DEF JoinInv, BusKnows
<1>4. BusKnows'
  BY <1>2, <1>3 DEF JoinInv, BusKnows, ReadyIsRegistered, Registered
<1>5. BusExitsLast' /\ NotComplete'
  BY <1>2 DEF JoinInv, BusExitsLast, NotComplete, OthersStay
<1> QED BY <1>1, <1>4, <1>5 DEF JoinInv

LEMMA StepJoin == TypeOK /\ BatonInv /\ JoinInv /\ [Next]_vars => JoinInv'
<1> SUFFICES ASSUME TypeOK, BatonInv, JoinInv, [Next]_vars PROVE JoinInv'
  OBVIOUS
<1>0. Places /\ Requests
  BY DEF BatonInv
<1>1. CASE Bus
  BY <1>0, <1>1, StartBusJoin, RegisterJoin, SignalIndexJoin, ExitJoin, ReadyJoin
     DEF Bus, BusNext, BusHandle
<1>2. ASSUME NEW s \in Sims, Sim(s) PROVE JoinInv'
  <2>1. SimStep(s) /\ CountReady(s) /\ UNCHANGED busVars /\ ProcessInv(s)
    BY <1>2 DEF Sim, JoinInv
  <2>2. CASE SendModelReady(s)
    BY <2>1, <2>2, SendReadyJoin, ProcessJoin
  <2>3. CASE ~SendModelReady(s)
    <3>1. UNCHANGED asked
      BY <2>1, <2>3, OnlyReadyCounts
    <3>2. CASE SendModelRegister(s) \/ SendSignalIndex(s) \/ SendModelExit(s)
      BY <2>1, <3>1, <3>2, SendRegisterJoin, SendIndexJoin, SendExitJoin, ProcessJoin
    <3>3. CASE \/ ReceiveRegisterAck(s) \/ RegisterTimeout(s) \/ RegisterInterrupted(s)
               \/ ReceiveSignalIndex(s)
      BY <1>0, <2>1, <3>1, <3>3, ConnectedJoin, ReceiveIndexJoin, ProcessJoin
    <3>4. CASE \/ NoSignalIndex(s) \/ LeaveLoop(s) \/ StartTimeout(s)
               \/ StartInterrupted(s) \/ StepModels(s) \/ ReceiveModelStart(s)
      BY <2>1, <3>1, <3>4, LeavingJoin, ProcessJoin
    <3>5. CASE Discard(s)
      BY <2>1, <3>1, <3>5, DiscardJoin, ProcessJoin
    <3> QED BY <2>1, <2>3, <3>2, <3>3, <3>4, <3>5 DEF SimStep
  <2> QED BY <2>2, <2>3
<1>3. ASSUME NEW s \in Sims, Environment(s) PROVE JoinInv'
  <2>1. (RequestStop(s) \/ Kill(s)) /\ UNCHANGED <<busVars, asked>> /\ ProcessInv(s)
    BY <1>3 DEF Environment, JoinInv
  <2> QED BY <2>1, RequestStopJoin, LeavingJoin, ProcessJoin
<1>4. CASE UNCHANGED vars
  <2>1. /\ UNCHANGED <<toBus, toSim, phase, at, token, indexed, stop, asked>>
        /\ UNCHANGED busVars
    BY <1>4 DEF vars, transportVars, simVars
  <2>2. ASSUME NEW s \in Sims PROVE ProcessInv(s)'
    <3>1. Waiting(s)'
      BY <2>1 DEF JoinInv, ProcessInv, Waiting, Answering, IsReply, CurrentLink,
                  ReadyQueued, StartQueued, busVars
    <3> QED BY <2>1, <3>1, QuietStep DEF JoinInv, Quiet, busVars
  <2> QED BY <2>1, <2>2, SimsAssumption, ProcessJoin DEF OthersStay
<1> QED BY <1>1, <1>2, <1>3, <1>4 DEF Next

\* Every process registers its links and asks for their indexes in order, is
\* counted by the SimBus from its last ModelRegister to its first ModelExit, and
\* waits only for a reply that is on its way, or in the ready sets (the handlers
\* of handler.c against adapter_msg.c).
THEOREM JoinInvariant == Spec => []JoinInv
<1>1. TypeOK /\ BatonInv /\ JoinInv /\ [Next]_vars => JoinInv'
  BY StepJoin
<1> QED BY <1>1, InitJoin, BatonInvariant, PTL DEF Spec

\* Neither ModelReady nor the resolution asks whether a model that is ready
\* was registered; it always was, on that channel.
THEOREM ReadyWasRegistered == Spec => []ReadyIsRegistered
<1>1. JoinInv => ReadyIsRegistered
  BY DEF JoinInv, BusKnows
<1> QED BY <1>1, JoinInvariant, PTL

\* No process enters the simulation loop without being registered, and having
\* its uids, on every one of its links, whichever of its ModelRegister
\* messages were given up and whatever replies to others came down its list.
THEOREM LoopersHaveJoined == Spec => []LoopHasJoined
<1>1. JoinInv => LoopHasJoined
  BY DEF JoinInv, ProcessInv, Joining, Indexing, Looping, Joined, Registered, LoopHasJoined
<1> QED BY <1>1, JoinInvariant, PTL

\* Once the simulation has started the SimBus exits after every model.
THEOREM BusOutlivesModels == Spec => []BusExitsLast
<1>1. JoinInv => BusExitsLast
  BY DEF JoinInv
<1> QED BY <1>1, JoinInvariant, PTL

\* As long as the SimBus is there, who waits waits for a reply that is on its
\* way, or is counted as ready for a cycle for which someone else is missing.
THEOREM NoOneWaitsInVain == Spec => []NoMutualWait
<1>1. JoinInv => NoMutualWait
  <2> SUFFICES ASSUME JoinInv PROVE NoMutualWait
    OBVIOUS
  <2>1. \A s \in Sims : Waiting(s)
    BY DEF JoinInv, ProcessInv
  <2>2. \E s \in Sims : \E l \in LinksOf(s) : l.model \notin readySet[l.channel]
    BY DEF JoinInv, NotComplete
  <2> QED BY <2>1, <2>2 DEF Waiting, NoMutualWait
<1> QED BY <1>1, JoinInvariant, PTL
=============================================================================
