------------------------------- MODULE SimBus -------------------------------
(***************************************************************************)
(* The SimBus process: simbus_adapter_run pulls one message at a time and  *)
(* simbus_handle_notify_message handles it to the end, so each handler is  *)
(* one action.  Times are multiples of bus_step_size.                      *)
(***************************************************************************)
EXTENDS RedisLists

VARIABLES
  busPhase,      \* "off" before simbus_adapter_run, "run", "exit" after it
  busTime,       \* adapter->bus_time
  notifyUids,    \* the keys of notify_push_hash
  registerSet,   \* registerSet[c]: Channel.model_register_set
  readySet       \* readySet[c]: Channel.model_ready_set

busVars == <<busPhase, busTime, notifyUids, registerSet, readySet>>

BusTypeOK ==
  /\ busPhase \in {"off", "run", "exit"}
  /\ busTime \in Int
  /\ notifyUids \in SUBSET Sims
  /\ registerSet \in [Channels -> SUBSET Models]
  /\ readySet \in [Channels -> SUBSET Models]

BusInit ==
  /\ busPhase = "off"
  /\ busTime = -1
  /\ notifyUids = {}
  /\ registerSet = [c \in Channels |-> {}]
  /\ readySet = [c \in Channels |-> {}]

-----------------------------------------------------------------------------
\* The operations of states.c on one family of sets.

Add(sets, l) == [sets EXCEPT ![l.channel] = @ \cup {l.model}]

Remove(sets, l) == [sets EXCEPT ![l.channel] = @ \ {l.model}]

AddAll(sets, links) ==
  [c \in Channels |->
     sets[c] \cup {l.model : l \in {k \in links : k.channel = c}}]

\* Mutant: a channel is complete with its first model.
AnyOnEachChannel(sets) == \A c \in Channels : sets[c] # {}

\* Mutant: the comparison is off by one.
MoreThanExpected(sets) ==
  \A c \in Channels : Cardinality(sets[c]) > Expected(c)

\* simbus_network_ready and simbus_models_ready.
AllExpected(sets) == \A c \in Channels : Cardinality(sets[c]) = Expected(c)

\* Mutant: the SimBus leaves when the network is no longer complete.
SomeGone(sets) == \E c \in Channels : Cardinality(sets[c]) < Expected(c)

NoneLeft(sets) == \A c \in Channels : sets[c] = {}

-----------------------------------------------------------------------------
StartBus ==
  /\ busPhase = "off"
  /\ busPhase' = "run"
  /\ UNCHANGED <<busTime, notifyUids, registerSet, readySet, transportVars>>

Handles(type) ==
  /\ busPhase = "run"
  /\ toBus # << >>
  /\ Head(toBus).type = type
  /\ PopBus

\* The ACK is a broadcast: every process registered so far receives it.
HandleModelRegister ==
  /\ Handles("ModelRegister")
  /\ LET m == Head(toBus)
     IN /\ notifyUids' = notifyUids \cup {m.sim}
        /\ registerSet' = Add(registerSet, m.link)
        /\ Notify(notifyUids', [type |-> "ModelRegister",
                                link |-> m.link, token |-> m.token])
  /\ UNCHANGED <<busPhase, busTime, readySet>>

HandleSignalIndex ==
  /\ Handles("SignalIndex")
  /\ LET m == Head(toBus)
     IN Notify(notifyUids, [type |-> "SignalIndex",
                            link |-> m.link, token |-> m.token])
  /\ UNCHANGED busVars

\* Mutant: a model that leaves stays in the ready set.
HandleModelExitStaysReady ==
  /\ Handles("ModelExit")
  /\ registerSet' = Remove(registerSet, Head(toBus).link)
  /\ busPhase' = IF NoneLeft(registerSet') THEN "exit" ELSE busPhase
  /\ UNCHANGED <<busTime, notifyUids, readySet, toSim>>

\* Mutant: the exit condition is evaluated before the removal.
HandleModelExitChecksFirst ==
  /\ Handles("ModelExit")
  /\ LET l == Head(toBus).link
     IN /\ registerSet' = Remove(registerSet, l)
        /\ readySet' = Remove(readySet, l)
  /\ busPhase' = IF NoneLeft(registerSet) THEN "exit" ELSE busPhase
  /\ UNCHANGED <<busTime, notifyUids, toSim>>

HandleModelExit ==
  /\ Handles("ModelExit")
  /\ LET l == Head(toBus).link
     IN /\ registerSet' = Remove(registerSet, l)
        /\ readySet' = Remove(readySet, l)
  /\ busPhase' = IF NoneLeft(registerSet') THEN "exit" ELSE busPhase
  /\ UNCHANGED <<busTime, notifyUids, toSim>>

\* Mutant: the ready sets are not emptied when a cycle starts.
HandleModelReadyKeepsReady ==
  /\ Handles("ModelReady")
  /\ readySet' = AddAll(readySet, LinksOf(Head(toBus).sim))
  /\ IF AllExpected(registerSet) /\ AllExpected(readySet')
     THEN /\ busTime' = busTime + 1
          /\ Notify(notifyUids, [type |-> "ModelStart",
                                 modelTime |-> busTime',
                                 stopTime |-> busTime' + 1])
     ELSE UNCHANGED <<busTime, toSim>>
  /\ UNCHANGED <<busPhase, notifyUids, registerSet>>

\* ModelReady carries a SignalVector for every link of the process.  The last
\* one to arrive resolves the bus: time advances by a step, ModelStart goes
\* to every process and the ready sets are emptied for the next cycle.
HandleModelReady ==
  /\ Handles("ModelReady")
  /\ LET ready == AddAll(readySet, LinksOf(Head(toBus).sim))
     IN IF AllExpected(registerSet) /\ AllExpected(ready)
        THEN /\ busTime' = busTime + 1
             /\ readySet' = [c \in Channels |-> {}]
             /\ Notify(notifyUids, [type |-> "ModelStart",
                                    modelTime |-> busTime',
                                    stopTime |-> busTime' + 1])
        ELSE /\ readySet' = ready
             /\ UNCHANGED <<busTime, toSim>>
  /\ UNCHANGED <<busPhase, notifyUids, registerSet>>

BusHandle ==
  \/ HandleModelRegister
  \/ HandleSignalIndex
  \/ HandleModelExit
  \/ HandleModelReady

BusNext == StartBus \/ BusHandle
=============================================================================
