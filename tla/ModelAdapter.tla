---------------------------- MODULE ModelAdapter ----------------------------
(***************************************************************************)
(* A ModelC process: modelc_run, controller_bus_ready, controller_run and  *)
(* controller_exit over the message adapter (adapter_msg.c, message.c).    *)
(* The process is sequential; its phase is the place where it is about to  *)
(* send, blocked in wait_message, or stepping its models.                  *)
(*                                                                         *)
(*   connect  --(ModelRegister)-->  connectWait   for every link           *)
(*   index    --(SignalIndex)---->  indexWait     for every link           *)
(*   loop     --(ModelReady)----->  startWait --(ModelStart)--> step       *)
(*   exit     --(ModelExit)------>  exit          for every link           *)
(*   done     controller_exit returned                                     *)
(*   dead     the process ended without sending ModelExit                  *)
(*                                                                         *)
(* A signal handler may set the stop request at any time.  Both it and the *)
(* BRPOP slots of redis_recv_fbs are asynchronous to the wait, so a stop   *)
(* that arrives while a message is being received is the same as one that  *)
(* arrives just after: a wait with the stop request set receives nothing.  *)
(***************************************************************************)
EXTENDS RedisLists

CONSTANTS
  RetryCount,    \* ModelRegister attempts per link (5 in controller_bus_ready)
  EndTime,       \* SimulationSpec.end_time in bus steps, 0 for no end
  Stoppable,     \* the processes that may be told to stop
  Impatient,     \* the processes whose wait may reach its timeout
  Killable       \* the processes that may be killed

ASSUME AdapterAssumption ==
  /\ RetryCount \in Nat \ {0}
  /\ EndTime \in Nat
  /\ Stoppable \subseteq Sims
  /\ Impatient \subseteq Sims
  /\ Killable \subseteq Sims

VARIABLES
  phase,         \* phase[s], see above
  at,            \* at[s]: index in Links[s] of the link in hand
  tries,         \* tries[s]: ModelRegister attempts made for that link
  token,         \* token[s]: the last value of get_token
  indexed,       \* indexed[s]: the links whose signals have their uids
  stop,          \* stop[s]: stop_request of controller, adapter, endpoint
  modelTime,     \* modelTime[s]: AdapterModel.model_time of its models
  stopTime       \* stopTime[s]: AdapterModel.stop_time of its models

simVars == <<phase, at, tries, token, indexed, stop, modelTime, stopTime>>

Phases == {"connect", "connectWait", "index", "indexWait", "loop",
           "startWait", "step", "exit", "done", "dead"}

SimTypeOK ==
  /\ phase \in [Sims -> Phases]
  /\ at \in [Sims -> Nat]
  /\ \A s \in Sims : at[s] \in DOMAIN Links[s]
  /\ tries \in [Sims -> 0..RetryCount]
  /\ \A s \in Sims : phase[s] = "connect" => tries[s] < RetryCount
  /\ token \in [Sims -> Nat]
  /\ indexed \in [Sims -> SUBSET Link]
  /\ stop \in [Sims -> BOOLEAN]
  /\ modelTime \in [Sims -> Int]
  /\ stopTime \in [Sims -> Int]

SimInit ==
  /\ phase = [s \in Sims |-> "connect"]
  /\ at = [s \in Sims |-> 1]
  /\ tries = [s \in Sims |-> 0]
  /\ token = [s \in Sims |-> 0]
  /\ indexed = [s \in Sims |-> {}]
  /\ stop = [s \in Sims |-> FALSE]
  /\ modelTime = [s \in Sims |-> 0]
  /\ stopTime = [s \in Sims |-> 0]

-----------------------------------------------------------------------------
\* Control.

Becomes(s, p) == phase' = [phase EXCEPT ![s] = p]

\* Mutant: visits one link more than there are.
NextLinkPastEnd(s, more, last) ==
  IF at[s] <= Len(Links[s])
  THEN Becomes(s, more) /\ at' = [at EXCEPT ![s] = @ + 1]
  ELSE Becomes(s, last) /\ at' = [at EXCEPT ![s] = 1]

\* Proceed to phase more for the next link, or to phase last after the last.
NextLink(s, more, last) ==
  IF at[s] < Len(Links[s])
  THEN Becomes(s, more) /\ at' = [at EXCEPT ![s] = @ + 1]
  ELSE Becomes(s, last) /\ at' = [at EXCEPT ![s] = 1]

CurrentLink(s) == Links[s][at[s]]

\* recv_fbs hands over a message; m is what BRPOP takes.
Receives(s) ==
  /\ ~stop[s]
  /\ toSim[s] # << >>
  /\ PopSim(s)

\* recv_fbs gives up: nothing arrived within the timeout (ETIME).
TimesOut(s) == s \in Impatient /\ ~stop[s] /\ toSim[s] = << >>

\* Mutant: the reply is taken without looking up the model it names.
IsReplyToAnyone(s, m, type) == m.type = type /\ m.token = token[s]

\* process_sbno_message on the model side: the reply of the given kind to the
\* current request.  The reply names a model, and it is looked up by its uid
\* among the models of this process; the channel is not compared.
IsReply(s, m, type) ==
  m.type = type /\ m.link.model \in ModelsOf(s) /\ m.token = token[s]

-----------------------------------------------------------------------------
\* adapter_msg_connect.

SendModelRegister(s) ==
  /\ phase[s] = "connect"
  /\ token' = [token EXCEPT ![s] = @ + 1]
  /\ tries' = [tries EXCEPT ![s] = @ + 1]
  /\ SendToBus([type |-> "ModelRegister", sim |-> s,
                link |-> CurrentLink(s), token |-> token'[s]])
  /\ Becomes(s, "connectWait")
  /\ UNCHANGED <<at, indexed, stop, modelTime, stopTime, toSim>>

\* With this link done, acknowledged or not, connect the next one.  After the
\* last one controller_bus_ready returns early when a stop was requested.
Connected(s) ==
  /\ NextLink(s, "connect", IF stop[s] THEN "exit" ELSE "index")
  /\ tries' = [tries EXCEPT ![s] = 0]

ReceiveRegisterAck(s) ==
  /\ phase[s] = "connectWait"
  /\ Receives(s)
  /\ IsReply(s, Head(toSim[s]), "ModelRegister")
  /\ Connected(s)
  /\ UNCHANGED <<token, indexed, stop, modelTime, stopTime, toBus>>

\* No ACK: try again with a new token, unless this was the last attempt.
RegisterTimeout(s) ==
  /\ phase[s] = "connectWait"
  /\ TimesOut(s)
  /\ IF tries[s] < RetryCount
     THEN Becomes(s, "connect") /\ UNCHANGED <<at, tries>>
     ELSE Connected(s)
  /\ UNCHANGED <<token, indexed, stop, modelTime, stopTime, transportVars>>

RegisterInterrupted(s) ==
  /\ phase[s] = "connectWait"
  /\ stop[s]
  /\ Connected(s)
  /\ UNCHANGED <<token, indexed, stop, modelTime, stopTime, transportVars>>

-----------------------------------------------------------------------------
\* adapter_msg_register.

SendSignalIndex(s) ==
  /\ phase[s] = "index"
  /\ token' = [token EXCEPT ![s] = @ + 1]
  /\ SendToBus([type |-> "SignalIndex",
                link |-> CurrentLink(s), token |-> token'[s]])
  /\ Becomes(s, "indexWait")
  /\ UNCHANGED <<at, tries, indexed, stop, modelTime, stopTime, toSim>>

ReceiveSignalIndex(s) ==
  /\ phase[s] = "indexWait"
  /\ Receives(s)
  /\ IsReply(s, Head(toSim[s]), "SignalIndex")
  /\ indexed' = [indexed EXCEPT ![s] = @ \cup {Head(toSim[s]).link}]
  /\ NextLink(s, "index", "loop")
  /\ UNCHANGED <<tries, token, stop, modelTime, stopTime, toBus>>

\* Without a SignalIndex, be it a timeout or a stop: log_fatal.
NoSignalIndex(s) ==
  /\ phase[s] = "indexWait"
  /\ TimesOut(s) \/ stop[s]
  /\ Becomes(s, "dead")
  /\ UNCHANGED <<at, tries, token, indexed, stop, modelTime, stopTime, transportVars>>

-----------------------------------------------------------------------------
\* controller_run and controller_step.

SendModelReady(s) ==
  /\ phase[s] = "loop"
  /\ ~stop[s]
  /\ SendToBus([type |-> "ModelReady", sim |-> s])
  /\ Becomes(s, "startWait")
  /\ UNCHANGED <<at, tries, token, indexed, stop, modelTime, stopTime, toSim>>

LeaveLoop(s) ==
  /\ phase[s] = "loop"
  /\ stop[s]
  /\ Becomes(s, "exit")
  /\ UNCHANGED <<at, tries, token, indexed, stop, modelTime, stopTime, transportVars>>

ReceiveModelStart(s) ==
  /\ phase[s] = "startWait"
  /\ Receives(s)
  /\ Head(toSim[s]).type = "ModelStart"
  /\ modelTime' = [modelTime EXCEPT ![s] = Head(toSim[s]).modelTime]
  /\ stopTime' = [stopTime EXCEPT ![s] = Head(toSim[s]).stopTime]
  /\ Becomes(s, "step")
  /\ UNCHANGED <<at, tries, token, indexed, stop, toBus>>

\* Mutant: a timed out wait is waited again, as the SimBus does.
StartTimeoutIgnored(s) ==
  /\ phase[s] = "startWait"
  /\ TimesOut(s)
  /\ UNCHANGED <<simVars, transportVars>>

\* ETIME is passed up to controller_run, which leaves its loop.
StartTimeout(s) ==
  /\ phase[s] = "startWait"
  /\ TimesOut(s)
  /\ Becomes(s, "exit")
  /\ UNCHANGED <<at, tries, token, indexed, stop, modelTime, stopTime, transportVars>>

\* An interrupted wait is not an error for adapter_msg_model_start: the
\* models are stepped with the times they have.
StartInterrupted(s) ==
  /\ phase[s] = "startWait"
  /\ stop[s]
  /\ Becomes(s, "step")
  /\ UNCHANGED <<at, tries, token, indexed, stop, modelTime, stopTime, transportVars>>

\* sim_step_models, then the end condition.
StepModels(s) ==
  /\ phase[s] = "step"
  /\ modelTime' = [modelTime EXCEPT ![s] = stopTime[s]]
  /\ Becomes(s, IF EndTime > 0 /\ EndTime < stopTime[s] THEN "exit" ELSE "loop")
  /\ UNCHANGED <<at, tries, token, indexed, stop, stopTime, transportVars>>

-----------------------------------------------------------------------------
\* wait_message drops every other message and goes on waiting.
Discard(s) ==
  /\ Receives(s)
  /\ LET m == Head(toSim[s])
     IN \/ phase[s] = "connectWait" /\ ~IsReply(s, m, "ModelRegister")
        \/ phase[s] = "indexWait" /\ ~IsReply(s, m, "SignalIndex")
        \/ phase[s] = "startWait" /\ m.type # "ModelStart"
  /\ UNCHANGED <<simVars, toBus>>

\* adapter_msg_exit, one message for every link.
SendModelExit(s) ==
  /\ phase[s] = "exit"
  /\ SendToBus([type |-> "ModelExit", link |-> CurrentLink(s)])
  /\ NextLink(s, "exit", "done")
  /\ UNCHANGED <<tries, token, indexed, stop, modelTime, stopTime, toSim>>

-----------------------------------------------------------------------------
\* controller_stop, called from a signal handler.
RequestStop(s) ==
  /\ s \in Stoppable
  /\ ~stop[s]
  /\ phase[s] \notin {"done", "dead"}
  /\ stop' = [stop EXCEPT ![s] = TRUE]
  /\ UNCHANGED <<phase, at, tries, token, indexed, modelTime, stopTime, transportVars>>

Kill(s) ==
  /\ s \in Killable
  /\ phase[s] \notin {"done", "dead"}
  /\ Becomes(s, "dead")
  /\ UNCHANGED <<at, tries, token, indexed, stop, modelTime, stopTime, transportVars>>

\* What the process does by itself ...
SimStep(s) ==
  \/ SendModelRegister(s) \/ ReceiveRegisterAck(s)
  \/ RegisterTimeout(s) \/ RegisterInterrupted(s)
  \/ SendSignalIndex(s) \/ ReceiveSignalIndex(s) \/ NoSignalIndex(s)
  \/ SendModelReady(s) \/ LeaveLoop(s) \/ ReceiveModelStart(s)
  \/ StartTimeout(s) \/ StartInterrupted(s) \/ StepModels(s)
  \/ Discard(s) \/ SendModelExit(s)

\* ... and what is done to it.
SimNext == \E s \in Sims : SimStep(s) \/ RequestStop(s) \/ Kill(s)
=============================================================================
