----------------------------- MODULE RedisLists -----------------------------
(***************************************************************************)
(* The Redis transport (transport/redis.c) as the adapters use it.  Every  *)
(* endpoint pulls from a Redis list, written with LPUSH and read with      *)
(* BRPOP, hence a FIFO that exists whether or not its reader runs: what a  *)
(* model sends before the SimBus is started waits in the list.             *)
(*                                                                         *)
(*   toBus     "dse.simbus", the only list the SimBus pulls                *)
(*   toSim[s]  "dse.model.<sim uid>", the list to which the SimBus pushes  *)
(*             for the process s                                           *)
(***************************************************************************)
EXTENDS Topology

VARIABLES toBus, toSim

transportVars == <<toBus, toSim>>

ToBusMessage ==
  [type : {"ModelRegister"}, sim : Sims, link : Link, token : Nat]
  \cup [type : {"SignalIndex"}, link : Link, token : Nat]
  \cup [type : {"ModelReady"}, sim : Sims]
  \cup [type : {"ModelExit"}, link : Link]

ToSimMessage ==
  [type : {"ModelRegister", "SignalIndex"}, link : Link, token : Nat]
  \cup [type : {"ModelStart"}, modelTime : Int, stopTime : Int]

TransportTypeOK ==
  /\ toBus \in Seq(ToBusMessage)
  /\ toSim \in [Sims -> Seq(ToSimMessage)]

TransportInit ==
  /\ toBus = << >>
  /\ toSim = [s \in Sims |-> << >>]

\* redis_send_fbs of a model endpoint: LPUSH onto the SimBus list.
SendToBus(m) == toBus' = Append(toBus, m)

\* redis_send_fbs of the SimBus with model_uid 0: one LPUSH for every key of
\* notify_push_hash, so the message reaches every process in uids.
Notify(uids, m) ==
  toSim' = [s \in Sims |->
              IF s \in uids THEN Append(toSim[s], m) ELSE toSim[s]]

\* redis_recv_fbs returned a message: BRPOP took the oldest entry.
PopBus == toBus' = Tail(toBus)

PopSim(s) == toSim' = [toSim EXCEPT ![s] = Tail(@)]
=============================================================================
