---------------------------- MODULE RedisPubSub ----------------------------
(***************************************************************************)
(* redispubsub.c: one endpoint of the Pub/Sub transport, and a peer that   *)
(* publishes to it.  Replies of the server are read by callbacks of an     *)
(* event loop; recv_fbs dispatches the loop in slots that a persistent     *)
(* timer ends, and counts them.  A signal handler may break the loop.      *)
(***************************************************************************)
EXTENDS Integers, Sequences

CONSTANTS
  RecvTimeout,   \* recv_timeout: slots of a wait, and attempts of a sender
  Keys,          \* number of keys in the SUBSCRIBE command
  MaxMessages    \* bound: messages published to the endpoint

VARIABLES
  pc,            \* "down", "starting", "idle" (recv_fbs is not called), "loop",
                 \* "dispatch", "broken" (out of the dispatch) or "failed"
  slots,         \* event_timeout_counter
  expired,       \* timeout_condition
  active,        \* sub_active
  queue,         \* recv_msg_queue
  result,        \* how the last recv_fbs ended: "none", "message", "nothing",
                 \* "ETIME"
  subscribes,    \* replies to SUBSCRIBE on the subscribed connection, ...
  wire,          \* ... and the messages behind them
  next, tries,   \* the sender: its message, attempts left
  given          \* history: messages that recv_fbs returned

endpointVars == <<pc, slots, expired, active, queue, result, given>>
connectionVars == <<subscribes, wire>>
vars == <<endpointVars, connectionVars, next, tries>>

ASSUME PubSubAssumption == RecvTimeout \in Nat \ {0} /\ Keys \in Nat \ {0}

Init ==
  /\ pc = "down"
  /\ slots = 0
  /\ expired = FALSE
  /\ active = FALSE
  /\ queue = << >>
  /\ result = "none"
  /\ subscribes = 0
  /\ wire = << >>
  /\ next = 1
  /\ tries = RecvTimeout
  /\ given = << >>

-----------------------------------------------------------------------------
\* redispubsub_send_fbs of a model: PUBLISH returns the number of clients; a
\* message no one received is tried again, at last it is dropped.
Publish ==
  /\ next <= MaxMessages
  /\ IF pc # "down"
     THEN /\ wire' = Append(wire, next)
          /\ next' = next + 1
          /\ tries' = RecvTimeout
     ELSE /\ wire' = wire
          /\ next' = IF tries = 1 THEN next + 1 ELSE next
          /\ tries' = IF tries = 1 THEN RecvTimeout ELSE tries - 1
  /\ UNCHANGED <<endpointVars, subscribes>>

\* redispubsub_start up to the dispatch that waits for SUBSCRIBE.
Start ==
  /\ pc = "down"
  /\ pc' = "starting"
  /\ subscribes' = Keys
  /\ UNCHANGED <<slots, expired, active, queue, result, given, wire, next, tries>>

\* redispubsub_on_message for the replies that a read returns, of which n are
\* to SUBSCRIBE and k are messages: each message and the first reply to
\* SUBSCRIBE break the loop.
OnReplies ==
  /\ pc \in {"starting", "dispatch"}
  /\ \E n \in 0..subscribes, k \in 0..Len(wire) :
       /\ n + k > 0
       /\ k > 0 => n = subscribes
       /\ active' = TRUE
       /\ subscribes' = subscribes - n
       /\ queue' = queue \o SubSeq(wire, 1, k)
       /\ wire' = SubSeq(wire, k + 1, Len(wire))
       /\ pc' = IF active /\ k = 0 THEN pc
                ELSE IF pc = "starting" THEN "idle" ELSE "broken"
  /\ UNCHANGED <<slots, expired, result, given, next, tries>>

\* __event_timeout_handler__.
Timer ==
  /\ pc = "dispatch"
  /\ pc' = "broken"
  /\ expired' = TRUE
  /\ UNCHANGED <<slots, active, queue, result, given, connectionVars, next, tries>>

\* redispubsub_interrupt from the signal handler: loopbreak has an effect
\* only on a dispatch that runs.
Interrupt ==
  /\ pc = "dispatch"
  /\ pc' = "broken"
  /\ UNCHANGED <<slots, expired, active, queue, result, given, connectionVars, next, tries>>

\* "Redis SUBSCRIBE did not activate!", after a timeout or an interrupt.
StartFails ==
  /\ pc = "starting"
  /\ pc' = "failed"
  /\ UNCHANGED <<slots, expired, active, queue, result, given, connectionVars, next, tries>>

-----------------------------------------------------------------------------
\* The end of redispubsub_recv_fbs: a message is taken, if there is one.
Take ==
  /\ pc' = "idle"
  /\ queue' = IF queue = << >> THEN << >> ELSE Tail(queue)
  /\ given' = IF queue = << >> THEN given ELSE Append(given, Head(queue))
  /\ result' = IF queue = << >> THEN "nothing" ELSE "message"

Timeout ==
  /\ pc' = "idle"
  /\ result' = "ETIME"
  /\ UNCHANGED <<queue, given>>

\* redispubsub_recv_fbs is called.
Receive ==
  /\ pc = "idle"
  /\ slots' = 0
  /\ IF queue # << >> THEN Take
     ELSE /\ pc' = "loop"
          /\ result' = "none"
          /\ UNCHANGED <<queue, given>>
  /\ UNCHANGED <<expired, active, connectionVars, next, tries>>

\* Mutant: a slot that ends is not counted.
NextSlotUncounted ==
  /\ pc = "loop"
  /\ pc' = "dispatch"
  /\ UNCHANGED <<slots, expired, active, queue, result, given, connectionVars, next, tries>>

\* The condition of the loop, which counts.
NextSlot ==
  /\ pc = "loop"
  /\ slots' = slots + 1
  /\ IF slots < RecvTimeout
     THEN /\ pc' = "dispatch"
          /\ UNCHANGED <<queue, result, given>>
     ELSE Timeout
  /\ UNCHANGED <<expired, active, connectionVars, next, tries>>

\* Mutant: the timeout condition is left set.
SlotEndsStillExpired ==
  /\ pc = "broken"
  /\ IF expired
     THEN /\ pc' = "loop"
          /\ UNCHANGED <<queue, result, given>>
     ELSE IF slots >= RecvTimeout THEN Timeout ELSE Take
  /\ UNCHANGED <<slots, expired, active, connectionVars, next, tries>>

\* Mutant: what arrived in the last slot is dropped.
SlotEndsDrops ==
  /\ pc = "broken"
  /\ expired' = FALSE
  /\ IF expired
     THEN /\ pc' = "loop"
          /\ UNCHANGED <<queue, result, given>>
     ELSE IF slots >= RecvTimeout
          THEN /\ pc' = "idle"
               /\ result' = "ETIME"
               /\ queue' = << >>
               /\ UNCHANGED given
          ELSE Take
  /\ UNCHANGED <<slots, active, connectionVars, next, tries>>

\* The body of the loop after the dispatch; a break by a message or an
\* interrupt leaves it, and the count then decides on the timeout.
SlotEnds ==
  /\ pc = "broken"
  /\ expired' = FALSE
  /\ IF expired
     THEN /\ pc' = "loop"
          /\ UNCHANGED <<queue, result, given>>
     ELSE IF slots >= RecvTimeout THEN Timeout ELSE Take
  /\ UNCHANGED <<slots, active, connectionVars, next, tries>>

Next ==
  \/ Publish \/ Start \/ OnReplies \/ Timer \/ Interrupt \/ StartFails
  \/ Receive \/ NextSlot \/ SlotEnds

Spec == Init /\ [][Next]_vars

\* The process runs, and the timer is persistent.
FairSpec ==
  /\ Spec
  /\ WF_vars(Timer)
  /\ WF_vars(NextSlot)
  /\ WF_vars(SlotEnds)

-----------------------------------------------------------------------------
\* recv_fbs does not wait with a message in its queue.
NeverWaitsWithMessage == pc \in {"loop", "dispatch"} => queue = << >>

\* Messages may be lost while the endpoint is down, but once one of them was
\* published to it, it is given that one and all later ones, in their order.
NoneLostOnceSubscribed ==
  LET stream == given \o queue \o wire
  IN /\ \A i \in DOMAIN stream : stream[i] = next - 1 - Len(stream) + i
     /\ pc = "down" => stream = << >>

\* recv_fbs returns, whether or not anyone publishes.
ReceiveReturns == pc = "loop" ~> pc = "idle"
=============================================================================
