------------------------------- MODULE CoSim -------------------------------
(***************************************************************************)
(* A co-simulation: one SimBus and the ModelC processes of the topology,   *)
(* connected by the Redis lists.                                           *)
(***************************************************************************)
EXTENDS SimBus, ModelAdapter

\* History: the number of ModelReady messages each process has sent.
VARIABLE asked

vars == <<transportVars, busVars, simVars, asked>>

TypeOK ==
  /\ TransportTypeOK
  /\ BusTypeOK
  /\ SimTypeOK
  /\ asked \in [Sims -> Nat]

Init ==
  /\ TransportInit
  /\ BusInit
  /\ SimInit
  /\ asked = [s \in Sims |-> 0]

Bus == BusNext /\ UNCHANGED <<simVars, asked>>

CountReady(s) ==
  asked' = IF phase[s] = "loop" /\ phase'[s] = "startWait"
           THEN [asked EXCEPT ![s] = @ + 1] ELSE asked

Sim(s) == SimStep(s) /\ CountReady(s) /\ UNCHANGED busVars

Environment(s) ==
  (RequestStop(s) \/ Kill(s)) /\ UNCHANGED <<busVars, asked>>

Next == Bus \/ \E s \in Sims : Sim(s) \/ Environment(s)

\* Every process keeps running, and a wait on a list that stays empty reaches
\* its timeout.  Nothing obliges anyone to start the SimBus, to request a
\* stop or to kill a process.
Fairness ==
  /\ WF_vars(BusHandle /\ UNCHANGED <<simVars, asked>>)
  /\ \A s \in Sims : WF_vars(Sim(s))

Spec == Init /\ [][Next]_vars

FairSpec == Spec /\ Fairness

-----------------------------------------------------------------------------
Left(s) == phase[s] \in {"done", "dead"}

\* A ModelStart never meets a process that is still registering: it would be
\* dropped as a message without the awaited token, and the process would miss
\* its first cycle.
StartFindsWaiting ==
  \A s \in Sims : \A i \in DOMAIN toSim[s] :
    toSim[s][i].type = "ModelStart" =>
      phase[s] \notin {"connect", "connectWait", "index", "indexWait"}

\* Neither ModelReady nor resolve_and_notify asks whether a model that is
\* ready was registered, or may be ready before the network is complete.
ReadyIsRegistered == \A c \in Channels : readySet[c] \subseteq registerSet[c]

\* A process in the simulation loop has joined on every one of its links: it
\* is registered although a ModelRegister without an ACK is only logged, and
\* its signals have uids, although the replies to all processes come down
\* every list and all processes count their tokens from 1.
LoopHasJoined ==
  \A s \in Sims :
    phase[s] \in {"loop", "startWait", "step"} =>
      /\ indexed[s] = LinksOf(s)
      /\ \A l \in LinksOf(s) : l.model \in registerSet[l.channel]

\* A process that was given an interval to simulate is in the current cycle
\* of the bus: the bus does not advance under a model that is stepping.
StepsTheBusCycle ==
  \A s \in Sims :
    phase[s] = "step" /\ modelTime[s] < stopTime[s] =>
      modelTime[s] = busTime /\ stopTime[s] = busTime + 1

\* Once the simulation has started the SimBus outlives every model.
BusExitsLast ==
  busPhase = "exit" /\ busTime >= 0 => \A s \in Sims : phase[s] = "done"

-----------------------------------------------------------------------------
(***************************************************************************)
(* Where the request of a process for the next cycle can be: an inductive  *)
(* invariant.                                                              *)
(***************************************************************************)
Cycles == busTime + 1

ReadyQueued(s, i) == toBus[i].type = "ModelReady" /\ toBus[i].sim = s

StartQueued(s, i) == toSim[s][i].type = "ModelStart"

InReadySet(s) == \E l \in LinksOf(s) : l.model \in readySet[l.channel]

\* A process executed every cycle, or has asked for the next one as well, or
\* has yet to execute the cycle that was started.
Places ==
  \A s \in Sims :
    \/ asked[s] = Cycles /\ stopTime[s] = Cycles
    \/ asked[s] = Cycles + 1 /\ stopTime[s] = Cycles
    \/ asked[s] = Cycles /\ stopTime[s] = Cycles - 1

\* A request is on the list of the SimBus, once, or in the ready sets.
Requests ==
  /\ \A s \in Sims : InReadySet(s) => asked[s] = Cycles + 1
  /\ \A s \in Sims : \A i \in DOMAIN toBus :
       ReadyQueued(s, i) => asked[s] = Cycles + 1 /\ ~InReadySet(s)
  /\ \A s \in Sims : \A i, j \in DOMAIN toBus :
       ReadyQueued(s, i) /\ ReadyQueued(s, j) => i = j
  /\ \A c \in Channels : readySet[c] \subseteq Members(c)

\* A ModelStart on a list is for the current cycle, and the only one.
Grants ==
  /\ \A s \in Sims : \A i \in DOMAIN toSim[s] :
       StartQueued(s, i) =>
         /\ stopTime[s] = Cycles - 1
         /\ toSim[s][i].modelTime = busTime
         /\ toSim[s][i].stopTime = busTime + 1
  /\ \A s \in Sims : \A i, j \in DOMAIN toSim[s] :
       StartQueued(s, i) /\ StartQueued(s, j) => i = j

\* A process asks only after it has executed all that was granted; what an
\* interrupted wait leaves behind is never asked for again.
Progress ==
  \A s \in Sims :
    /\ phase[s] \in {"connect", "connectWait", "index", "indexWait"} =>
         asked[s] = stopTime[s]
    /\ phase[s] \in {"loop", "step"} /\ ~stop[s] => asked[s] = stopTime[s]
    /\ phase[s] = "step" /\ modelTime[s] # stopTime[s] =>
         asked[s] = stopTime[s] /\ modelTime[s] = stopTime[s] - 1
    /\ phase[s] \notin {"step", "dead"} => modelTime[s] = stopTime[s]

BatonInv == Places /\ Requests /\ Grants /\ Progress

Answering(s, type) ==
  \/ \E i \in DOMAIN toBus :
       /\ toBus[i].type = type
       /\ toBus[i].link = CurrentLink(s) /\ toBus[i].token = token[s]
  \/ \E i \in DOMAIN toSim[s] : IsReply(s, toSim[s][i], type)

\* No one waits for what will not come, unless another process has left: as
\* long as the SimBus is there the reply to a request, or the request, is on
\* its way; who waits for ModelStart is counted as ready or will be; and not
\* all processes are counted as ready and wait for each other.
NoMutualWait ==
  busPhase # "exit" =>
    /\ \A s \in Sims :
         /\ phase[s] = "connectWait" => Answering(s, "ModelRegister")
         /\ phase[s] = "indexWait" => Answering(s, "SignalIndex")
         /\ phase[s] = "startWait" =>
              \/ \E i \in DOMAIN toBus : ReadyQueued(s, i)
              \/ \A l \in LinksOf(s) : l.model \in readySet[l.channel]
              \/ \E i \in DOMAIN toSim[s] : StartQueued(s, i)
    /\ \E s \in Sims :
         phase[s] = "startWait" =>
           \E l \in LinksOf(s) : l.model \notin readySet[l.channel]

-----------------------------------------------------------------------------
\* The barrier this protocol implements.
Barrier == INSTANCE LockStep WITH cycles <- busTime + 1, granted <- stopTime

ImplementsLockStep == Barrier!Spec

\* Every process comes to its end: no one waits for ever for a ModelStart, an
\* ACK or a SignalIndex, whoever else has left, and whether the SimBus runs.
AllLeave == <>(\A s \in Sims : Left(s))

\* The SimBus does not stay behind: it exits once every process has sent its
\* ModelExit messages, in whatever order they and the retried ModelRegister
\* messages of others arrived.
BusFollows ==
  (busPhase = "run" /\ \A s \in Sims : phase[s] = "done") ~> busPhase = "exit"
=============================================================================
