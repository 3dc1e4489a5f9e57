------------------------- MODULE RedisPubSub_proofs -------------------------
(***************************************************************************)
(* Theorems about an endpoint of the Pub/Sub transport for every           *)
(* recv_timeout, number of keys and number of messages: it does not wait   *)
(* with a message at hand, and loses none once it has subscribed.          *)
(***************************************************************************)
EXTENDS RedisPubSub, SequenceTheorems, TLAPS

Places ==
  {"down", "starting", "idle", "loop", "dispatch", "broken", "failed"}

TypeOK ==
  /\ pc \in Places
  /\ slots \in Nat
  /\ subscribes \in Nat
  /\ queue \in Seq(Int) /\ wire \in Seq(Int) /\ given \in Seq(Int)
  /\ next \in Int /\ tries \in Int

\* The flag of the timer is set only between the end of a slot and the check
\* that clears it, and no message came in that slot.
FlagOfEmptySlot == expired => pc = "broken" /\ queue = << >>

Stream == given \o queue \o wire

\* What is given, is queued or is on its way are consecutive messages, of
\* which the latest is the one before the next.
Consecutive(stream, n) == \A i \in DOMAIN stream : stream[i] = n - 1 - Len(stream) + i

ReceiveInv ==
  /\ TypeOK
  /\ FlagOfEmptySlot
  /\ NeverWaitsWithMessage
  /\ Consecutive(Stream, next)
  /\ pc = "down" => Stream = << >>

-----------------------------------------------------------------------------
LEMMA Regrouped ==
  ASSUME NEW x \in Seq(Int), NEW y \in Seq(Int), NEW z \in Seq(Int)
  PROVE  (x \o y) \o z = x \o (y \o z)
  BY ConcatAssociative

\* Reading moves the first messages from the connection to the queue.
LEMMA ReadKeepsStream ==
  ASSUME NEW g \in Seq(Int), NEW q \in Seq(Int), NEW w \in Seq(Int), NEW k \in 0..Len(w)
  PROVE  /\ g \o (q \o SubSeq(w, 1, k)) \o SubSeq(w, k + 1, Len(w)) = g \o q \o w
         /\ SubSeq(w, 1, k) \in Seq(Int) /\ SubSeq(w, k + 1, Len(w)) \in Seq(Int)
<1> DEFINE a == SubSeq(w, 1, k)
           b == SubSeq(w, k + 1, Len(w))
<1>1. a \in Seq(Int) /\ b \in Seq(Int)
  OBVIOUS
<1>2. a \o b = SubSeq(w, 1, Len(w))
  <2>1. \A m \in 1..Len(w) + 1 : \A j \in m - 1..Len(w) : \A n \in j..Len(w) :
          SubSeq(w, m, j) \o SubSeq(w, j + 1, n) = SubSeq(w, m, n)
    BY ConcatAdjacentSubSeq
  <2>2. 1 \in 1..Len(w) + 1 /\ k \in 1 - 1..Len(w) /\ Len(w) \in k..Len(w)
    OBVIOUS
  <2> QED BY <2>1, <2>2
<1>3. SubSeq(w, 1, Len(w)) = w
  BY SubSeqFull
<1> HIDE DEF a, b
<1>4. /\ g \o (q \o a) = (g \o q) \o a
      /\ ((g \o q) \o a) \o b = (g \o q) \o (a \o b)
  <2>1. g \o q \in Seq(Int)
    BY ConcatProperties
  <2>2. (g \o q) \o a = g \o (q \o a)
    BY <1>1, Regrouped
  <2>3. ((g \o q) \o a) \o b = (g \o q) \o (a \o b)
    BY <1>1, <2>1, Regrouped
  <2> QED BY <2>2, <2>3
<1>5. g \o (q \o a) \o b = g \o q \o w
  BY <1>2, <1>3, <1>4
<1> QED BY <1>1, <1>5 DEF a, b

\* Taking moves the first message of the queue to those that were given.
LEMMA TakeKeepsStream ==
  ASSUME NEW g \in Seq(Int), NEW q \in Seq(Int), q # << >>, NEW w \in Seq(Int)
  PROVE  /\ Append(g, Head(q)) \o Tail(q) \o w = g \o q \o w
         /\ Append(g, Head(q)) \in Seq(Int) /\ Tail(q) \in Seq(Int)
<1>1. /\ Head(q) \in Int /\ Tail(q) \in Seq(Int) /\ <<Head(q)>> \in Seq(Int)
      /\ Append(g, Head(q)) \in Seq(Int)
  OBVIOUS
<1>2. Append(g, Head(q)) = g \o <<Head(q)>>
  BY <1>1, AppendIsConcat
<1>3. <<Head(q)>> \o Tail(q) = q
  <2>1. /\ <<Head(q)>> \o Tail(q) \in Seq(Int)
        /\ Len(<<Head(q)>> \o Tail(q)) = Len(q)
    BY <1>1
  <2>2. ASSUME NEW i \in 1..Len(q) PROVE (<<Head(q)>> \o Tail(q))[i] = q[i]
    OBVIOUS
  <2> QED BY <2>1, <2>2, SeqEqual
<1>4. (g \o <<Head(q)>>) \o Tail(q) = g \o q
  BY <1>1, <1>3, Regrouped
<1> QED BY <1>1, <1>2, <1>4

-----------------------------------------------------------------------------
\* The invariant.

LEMMA StreamKept ==
  ASSUME UNCHANGED <<given, queue, wire>>
  PROVE  Stream' = Stream
  BY DEF Stream

LEMMA InitReceive == Init => ReceiveInv
  BY PubSubAssumption
     DEF Init, ReceiveInv, TypeOK, Places, FlagOfEmptySlot, NeverWaitsWithMessage,
         Consecutive, Stream

\* Who publishes appends to the stream; what is published while the endpoint is
\* down is not in it.
LEMMA PublishReceive == ReceiveInv /\ Publish => ReceiveInv'
<1> SUFFICES ASSUME ReceiveInv, Publish PROVE ReceiveInv'
  OBVIOUS
<1> USE DEF ReceiveInv
<1>1. UNCHANGED <<pc, slots, expired, active, queue, result, given, subscribes>>
  BY DEF Publish, endpointVars
<1>2. TypeOK'
  <2>1. wire' \in Seq(Int) /\ next' \in Int
    <3>1. /\ wire' = wire \/ wire' = Append(wire, next)
          /\ next' = next \/ next' = next + 1
      BY DEF Publish
    <3>2. Append(wire, next) \in Seq(Int)
      BY DEF TypeOK
    <3>3. wire' \in Seq(Int)
      BY <3>1, <3>2 DEF TypeOK
    <3>4. next' \in Int
      BY <3>1 DEF TypeOK
    <3> QED BY <3>3, <3>4
  <2>2. tries' \in Int
    BY PubSubAssumption DEF Publish, TypeOK
  <2> QED BY <1>1, <2>1, <2>2 DEF TypeOK
<1>3. FlagOfEmptySlot' /\ NeverWaitsWithMessage'
  BY <1>1 DEF FlagOfEmptySlot, NeverWaitsWithMessage
<1>4. CASE pc = "down"
  <2>1. Stream' = << >> /\ pc' = "down"
    BY <1>1, <1>4 DEF Publish, Stream
  <2> QED BY <1>2, <1>3, <2>1 DEF Consecutive
<1>5. CASE pc # "down"
  <2>1. wire' = Append(wire, next) /\ next' = next + 1
    BY <1>5 DEF Publish
  <2>2. given \o queue \in Seq(Int) /\ wire \in Seq(Int) /\ next \in Int
    BY ConcatProperties DEF TypeOK
  <2>3. Stream' = Append(Stream, next)
    BY <1>1, <2>1, <2>2 DEF Stream
  <2>4. Stream \in Seq(Int)
    BY <2>2, ConcatProperties DEF Stream
  <2> HIDE DEF ReceiveInv
  <2>5. Consecutive(Append(Stream, next), next + 1)
    <3>1. Len(Append(Stream, next)) = Len(Stream) + 1
      BY <2>2, <2>4
    <3>2. ASSUME NEW i \in 1..Len(Stream) + 1
          PROVE  Append(Stream, next)[i] = (next + 1) - 1 - (Len(Stream) + 1) + i
      <4>1. CASE i \in 1..Len(Stream)
        BY <2>2, <2>4, <4>1 DEF ReceiveInv, Consecutive
      <4>2. CASE i = Len(Stream) + 1
        BY <2>2, <2>4, <4>2
      <4> QED BY <2>4, <4>1, <4>2
    <3> QED BY <2>2, <2>4, <3>1, <3>2 DEF Consecutive
  <2> QED BY <1>1, <1>2, <1>3, <1>5, <2>1, <2>3, <2>5 DEF ReceiveInv
<1> QED BY <1>4, <1>5

\* A read moves messages within the stream, and breaks the dispatch if it finds
\* one.
LEMMA OnRepliesReceive == ReceiveInv /\ OnReplies => ReceiveInv'
<1> SUFFICES ASSUME ReceiveInv, OnReplies PROVE ReceiveInv'
  OBVIOUS
<1> USE DEF ReceiveInv
<1>1. PICK n \in 0..subscribes, k \in 0..Len(wire) :
        /\ active' = TRUE
        /\ subscribes' = subscribes - n
        /\ queue' = queue \o SubSeq(wire, 1, k)
        /\ wire' = SubSeq(wire, k + 1, Len(wire))
        /\ pc' = IF active /\ k = 0 THEN pc
                 ELSE IF pc = "starting" THEN "idle" ELSE "broken"
  BY DEF OnReplies
<1>2. pc \in {"starting", "dispatch"} /\ UNCHANGED <<slots, expired, result, given, next, tries>>
  BY DEF OnReplies
<1>3. /\ given \o (queue \o SubSeq(wire, 1, k)) \o SubSeq(wire, k + 1, Len(wire))
           = given \o queue \o wire
      /\ SubSeq(wire, 1, k) \in Seq(Int) /\ SubSeq(wire, k + 1, Len(wire)) \in Seq(Int)
  BY ReadKeepsStream DEF TypeOK
<1>4. Stream' = Stream
  BY <1>1, <1>2, <1>3 DEF Stream
<1>5. queue' \in Seq(Int) /\ subscribes' \in Nat
  BY <1>1, <1>3, ConcatProperties DEF TypeOK
<1>6. TypeOK'
  BY <1>1, <1>2, <1>3, <1>5 DEF TypeOK, Places
<1>7. k = 0 => queue' = queue
  <2>1. k = 0 => SubSeq(wire, 1, k) = << >>
    OBVIOUS
  <2> QED BY <1>1, <2>1, ConcatEmptySeq DEF TypeOK
<1>8. FlagOfEmptySlot' /\ NeverWaitsWithMessage'
  BY <1>1, <1>2, <1>7 DEF FlagOfEmptySlot, NeverWaitsWithMessage
<1> QED BY <1>1, <1>2, <1>4, <1>6, <1>8

\* The end of a receive moves a message, if there is one, within the stream.
LEMMA TakeReceive ==
  ASSUME ReceiveInv, Take, UNCHANGED <<wire, subscribes, next, tries, active>>,
         slots' \in Nat, ~expired'
  PROVE  ReceiveInv'
<1> USE DEF ReceiveInv
<1>1. CASE queue = << >>
  <2>1. UNCHANGED <<queue, given>>
    BY <1>1 DEF Take
  <2> QED
    BY <2>1, StreamKept DEF Take, TypeOK, Places, FlagOfEmptySlot, NeverWaitsWithMessage
<1>2. CASE queue # << >>
  <2>1. queue' = Tail(queue) /\ given' = Append(given, Head(queue)) /\ pc' = "idle"
    BY <1>2 DEF Take
  <2>2. /\ given' \o queue' \o wire = given \o queue \o wire
        /\ given' \in Seq(Int) /\ queue' \in Seq(Int)
    BY <1>2, <2>1, TakeKeepsStream DEF TypeOK
  <2>3. Stream' = Stream
    BY <2>2 DEF Stream
  <2> QED
    BY <2>1, <2>2, <2>3 DEF TypeOK, Places, FlagOfEmptySlot, NeverWaitsWithMessage
<1> QED BY <1>1, <1>2

LEMMA StepReceive == ReceiveInv /\ [Next]_vars => ReceiveInv'
<1> SUFFICES ASSUME ReceiveInv, [Next]_vars PROVE ReceiveInv'
  OBVIOUS
<1> USE DEF ReceiveInv
<1>1. CASE Publish
  BY <1>1, PublishReceive
<1>2. CASE OnReplies
  BY <1>2, OnRepliesReceive
<1>3. CASE Start
  BY <1>3, StreamKept, PubSubAssumption
     DEF Start, TypeOK, Places, FlagOfEmptySlot, NeverWaitsWithMessage
<1>4. CASE Timer \/ Interrupt \/ StartFails
  BY <1>4, StreamKept
     DEF Timer, Interrupt, StartFails, connectionVars, TypeOK, Places, FlagOfEmptySlot,
         NeverWaitsWithMessage
<1>5. CASE Receive
  <2>1. CASE queue # << >>
    <3>1. Take /\ slots' = 0 /\ UNCHANGED <<expired, active, connectionVars, next, tries>>
      BY <1>5, <2>1 DEF Receive
    <3>2. ~expired'
      BY <1>5, <3>1 DEF Receive, FlagOfEmptySlot
    <3> QED BY <3>1, <3>2, TakeReceive DEF connectionVars
  <2>2. CASE queue = << >>
    BY <1>5, <2>2, StreamKept
       DEF Receive, connectionVars, TypeOK, Places, FlagOfEmptySlot,
           NeverWaitsWithMessage
  <2> QED BY <2>1, <2>2
<1>6. CASE NextSlot
  <2>1. /\ pc = "loop" /\ pc' \in {"dispatch", "idle"} /\ slots' = slots + 1
        /\ UNCHANGED <<expired, active, queue, given, subscribes, wire, next, tries>>
    BY <1>6 DEF NextSlot, Timeout, connectionVars
  <2>2. TypeOK'
    BY <2>1 DEF TypeOK, Places
  <2>3. FlagOfEmptySlot' /\ NeverWaitsWithMessage'
    BY <2>1 DEF FlagOfEmptySlot, NeverWaitsWithMessage
  <2> QED BY <2>1, <2>2, <2>3, StreamKept
<1>7. CASE SlotEnds
  <2>1. /\ pc = "broken" /\ ~expired'
        /\ UNCHANGED <<slots, active, subscribes, wire, next, tries>>
    BY <1>7 DEF SlotEnds, connectionVars
  <2>2. CASE Take
    BY <2>1, <2>2, TakeReceive DEF TypeOK
  <2>3. CASE ~Take
    <3>1. /\ (pc' = "loop" /\ expired) \/ pc' = "idle"
          /\ UNCHANGED <<queue, given>>
      BY <1>7, <2>3 DEF SlotEnds, Timeout
    <3>2. TypeOK'
      BY <2>1, <3>1 DEF TypeOK, Places
    <3>3. FlagOfEmptySlot' /\ NeverWaitsWithMessage'
      BY <2>1, <3>1 DEF FlagOfEmptySlot, NeverWaitsWithMessage
    <3> QED BY <2>1, <3>1, <3>2, <3>3, StreamKept
  <2> QED BY <2>2, <2>3
<1>8. CASE UNCHANGED vars
  BY <1>8, StreamKept
     DEF vars, endpointVars, connectionVars, TypeOK, FlagOfEmptySlot,
         NeverWaitsWithMessage
<1> QED BY <1>1, <1>2, <1>3, <1>4, <1>5, <1>6, <1>7, <1>8 DEF Next

\* The timeout flag is set for an empty queue only, the event loop is not
\* dispatched with a message in it, and what was received, is queued and is on
\* the wire is one stream without gaps (redispubsub_recv_fbs).
THEOREM ReceiveInvariant == Spec => []ReceiveInv
  BY InitReceive, StepReceive, PTL DEF Spec

\* recv_fbs never dispatches the event loop with a message in its queue, in
\* whatever slot the message came and whatever else broke the loop.
THEOREM NoWaitWithMessage == Spec => []NeverWaitsWithMessage
<1>1. ReceiveInv => NeverWaitsWithMessage
  BY DEF ReceiveInv
<1> QED BY <1>1, ReceiveInvariant, PTL

\* From the first message that reached the endpoint on, it is given every one,
\* once and in order.
THEOREM NoneIsLost == Spec => []NoneLostOnceSubscribed
<1>1. ReceiveInv => NoneLostOnceSubscribed
  BY DEF ReceiveInv, Consecutive, Stream, NoneLostOnceSubscribed
<1> QED BY <1>1, ReceiveInvariant, PTL
=============================================================================
