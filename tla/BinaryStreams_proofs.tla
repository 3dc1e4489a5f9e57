------------------------ MODULE BinaryStreams_proofs ------------------------
(***************************************************************************)
(* Theorems about a binary signal between the bus and a model, for any     *)
(* calls of the model in any number of steps, and targets of any step      *)
(* size: a model publishes only what it wrote in the step, and what the    *)
(* bus gave is read once.                                                  *)
(*                                                                         *)
(* The argument goes around the turns of a step.  The controller leaves a  *)
(* signal empty, not reset and at its start, with what the bus gave as its *)
(* data (Handed, Emptied).  From there what the data is follows from what  *)
(* was called: after a reset it is part of what was written (AfterReset),  *)
(* all of it if the calls were in order (Orderly), and before anything but *)
(* a read it is what was given (Reading).  For a target, its time tells    *)
(* whether it has seen what was given (TargetSeen).                        *)
(***************************************************************************)
EXTENDS BinaryStreams, TLAPS

Message == {"own", "other", "init"} \X Nat

Signal == [data : Seq(Message), pos : Nat, reset : BOOLEAN]
Target == [time : Nat, input : Seq(Message), output : Seq(Message)]

CallNames == {"append", "write", "reset", "read", "peek", "seek"}

Turns == {"model", "reset", "step", "in", "out", "bus", "marshal", "begin"}

TypeOK ==
  /\ kind \in {"api", "mcl"} /\ turn \in Turns
  /\ size \in Nat /\ step \in Nat /\ time \in Nat /\ count \in Nat
  /\ signal \in Signal /\ target \in Target
  /\ bin \in Seq(Message) /\ calls \in Seq(CallNames)
  /\ written \in Seq(Message) /\ given \in Seq(Message) /\ taken \in Seq(Message)
  /\ seen \in Seq(Message) /\ all \in Seq(Message) /\ missed \in BOOLEAN

\* The turns in which the model, or its target, has the signal.
Working == {"model", "reset", "step", "in", "out"}

\* Who has a turn of its own.
Owners ==
  /\ turn \in {"reset", "step", "in"} => kind = "mcl" /\ step > 0
  /\ kind = "mcl" => calls = << >>
  /\ turn \in Working \cup {"begin"} => bin = << >>

\* Between the two marshals of the controller the signal is empty, after them
\* it is as the bus gave it, and nothing was called.
Emptied == turn \in {"bus", "marshal"} => signal.data = << >>

Handed ==
  turn = "begin" => /\ signal.data = given /\ ~signal.reset
                    /\ calls = << >> /\ written = << >> /\ taken = << >>

\* The messages of the model are numbered.
Made(q) == \A i \in DOMAIN q : q[i][1] = "own" => q[i][2] < count

Numbered == Made(written) /\ Made(target.output)

PartOf(q, r) == \A i \in DOMAIN q : \E j \in DOMAIN r : q[i] = r[j]
NoneTwice(q) == \A i, j \in DOMAIN q : q[i] = q[j] => i = j

\* What is in the signal after a reset was written since.
AfterReset ==
  turn \in Working /\ signal.reset => /\ PartOf(signal.data, written)
                                      /\ NoneTwice(signal.data)

\* The calls up to r are reads and resets, r is a reset, and all after it are
\* of one way to write.
InOrder(r, way) ==
  /\ calls[r] = "reset"
  /\ \A i \in DOMAIN calls : i < r => calls[i] \in {"read", "peek", "reset"}
  /\ \A i \in DOMAIN calls : i > r => calls[i] = way

NotCalled(names) == \A i \in DOMAIN calls : calls[i] \notin names

\* The calls of a model until the controller takes the signal back.
Orderly ==
  kind = "api" =>
    /\ NotCalled({"append", "write"}) => written = << >>
    /\ turn \in {"model", "out"} =>
         /\ NotCalled({"reset"}) => ~signal.reset
         /\ \A r \in DOMAIN calls : \A way \in {"append", "write"} :
              InOrder(r, way) => /\ signal.reset /\ signal.data = written
                                 /\ way = "write" => signal.pos = Len(signal.data)

Reading ==
  kind = "api" /\ step > 0 /\ (\A i \in DOMAIN calls : calls[i] = "read") =>
    /\ turn \in {"model", "out"} =>
         /\ signal.data = given
         /\ signal.pos = IF calls = << >> THEN 0 ELSE Len(given)
    /\ taken = IF calls = << >> THEN << >> ELSE given

\* What a target writes is its output, once in a step.
TargetWrites ==
  kind = "mcl" =>
    /\ Len(target.output) <= 1
    /\ turn \in {"model", "reset", "step", "in"} => written = << >>
    /\ turn \in {"model", "reset"} => ~signal.reset
    /\ turn \in {"step", "in"} => signal.reset /\ signal.data = << >>
    /\ turn = "out" => IF signal.reset THEN signal.data = written ELSE written = << >>

\* A target as slow as the simulation is a step behind while it has not seen
\* what the bus gave, unless that was nothing, as long as no marshal fails.
Behind(data) == time = target.time + StepSize \/ (time = target.time /\ data = << >>)

TargetSeen ==
  kind = "mcl" /\ size \in {0, StepSize} /\ ~missed =>
    /\ turn \in {"in", "out", "bus"} => time = target.time /\ all = seen
    /\ turn = "marshal" => Behind(bin) /\ all = seen
    /\ turn = "begin" => Behind(given) /\ all = seen \o given
    /\ turn = "model" => IF step = 0 THEN time = target.time /\ all = seen
                         ELSE signal.data = given /\ Behind(given) /\ all = seen \o given
    /\ turn \in {"reset", "step"} => target.input = given /\ Behind(given)
                                     /\ all = seen \o given

StreamInv ==
  /\ TypeOK /\ Owners /\ Emptied /\ Handed
  /\ Numbered /\ AfterReset /\ Orderly /\ Reading
  /\ TargetWrites /\ TargetSeen /\ PublishesWrites

-----------------------------------------------------------------------------
\* The operations on a signal.

LEMMA AppendedFields ==
  ASSUME NEW b \in Signal, NEW q \in Seq(Message)
  PROVE  /\ Appended(b, q) \in Signal
         /\ Appended(b, q).data = b.data \o q
         /\ Appended(b, q).pos = b.pos /\ Appended(b, q).reset = b.reset
<1> DEFINE d == b.data \o q
<1>1. d \in Seq(Message)
  BY DEF Signal
<1>2. Appended(b, q) = [b EXCEPT !.data = d]
  BY DEF Appended
<1> HIDE DEF d
<1>3. /\ Appended(b, q) \in Signal /\ Appended(b, q).data = d
      /\ Appended(b, q).pos = b.pos /\ Appended(b, q).reset = b.reset
  BY <1>1, <1>2 DEF Signal
<1> QED BY <1>3 DEF d

LEMMA WriteFields ==
  ASSUME NEW b \in Signal, NEW q \in Seq(Message)
  PROVE  LET at == Least(b.pos, Len(b.data))
         IN  /\ at \in 0..Len(b.data)
             /\ Write(b, q) \in Signal
             /\ Write(b, q).data = SubSeq(b.data, 1, at) \o q
             /\ Write(b, q).pos = at + Len(q) /\ Write(b, q).reset = b.reset
<1> DEFINE at == Least(b.pos, Len(b.data))
<1>1. at \in 0..Len(b.data)
  BY DEF Signal, Least
<1>2. SubSeq(b.data, 1, at) \o q \in Seq(Message) /\ at + Len(q) \in Nat
  BY <1>1 DEF Signal
<1> HIDE DEF at
<1> DEFINE d == SubSeq(b.data, 1, at) \o q
<1>3. Write(b, q) = [b EXCEPT !.data = d, !.pos = at + Len(q)]
  BY DEF Write, at
<1> HIDE DEF d
<1>4. d \in Seq(Message)
  BY <1>2 DEF d
<1>5. /\ Write(b, q) \in Signal /\ Write(b, q).data = d
      /\ Write(b, q).pos = at + Len(q) /\ Write(b, q).reset = b.reset
  BY <1>2, <1>3, <1>4 DEF Signal
<1> QED BY <1>1, <1>5 DEF at, d

LEMMA SeekFields ==
  ASSUME NEW b \in Signal, NEW n \in Nat
  PROVE  /\ SeekSet(b, n) \in Signal
         /\ SeekSet(b, n).data = b.data /\ SeekSet(b, n).reset = b.reset
         /\ SeekSet(b, n).pos = Least(n, Len(b.data))
         /\ SeekSet(b, n).pos \in 0..Len(b.data)
  BY DEF Signal, SeekSet, Least

LEMMA ReadFields ==
  ASSUME NEW b \in Signal, NEW update \in BOOLEAN
  PROVE  /\ Read(b, update) \in Signal
         /\ Read(b, update).data = b.data /\ Read(b, update).reset = b.reset
         /\ Read(b, update).pos = IF update /\ b.pos < Len(b.data) THEN Len(b.data) ELSE b.pos
         /\ Rest(b) \in Seq(Message)
<1>1. Rest(b) \in Seq(Message)
  BY DEF Signal, Rest
<1> QED BY <1>1 DEF Signal, Read

LEMMA ResetFields ==
  ASSUME NEW b
  PROVE  /\ Reset(b) \in Signal /\ Reset(b).data = << >>
         /\ Reset(b).pos = 0 /\ Reset(b).reset
         /\ SeekReset(b) = Reset(b)
<1>1. << >> \in Seq(Message)
  OBVIOUS
<1> QED BY <1>1 DEF Signal, Reset, SeekReset

-----------------------------------------------------------------------------
\* The calls of a model.

LEMMA CallsGrow ==
  ASSUME TypeOK, NEW name \in CallNames, calls' = calls \o << name >>
  PROVE  /\ calls' \in Seq(CallNames) /\ calls' # << >>
         /\ \A names : NotCalled(names)' => NotCalled(names) /\ name \notin names
         /\ \A r \in DOMAIN calls', way \in {"append", "write"} : InOrder(r, way)' =>
              \/ r \in DOMAIN calls /\ InOrder(r, way) /\ name = way
              \/ name = "reset" /\ NotCalled({"append", "write"})
         /\ (\A i \in DOMAIN calls' : calls'[i] = "read") =>
              name = "read" /\ \A i \in DOMAIN calls : calls[i] = "read"
<1> DEFINE n == Len(calls) + 1
<1>1. calls \in Seq(CallNames) /\ name \in CallNames
  BY DEF TypeOK
<1>2. /\ calls' \in Seq(CallNames) /\ calls' # << >>
      /\ n \in Int /\ n \in DOMAIN calls' /\ calls'[n] = name
      /\ \A i \in DOMAIN calls : i \in DOMAIN calls' /\ calls'[i] = calls[i] /\ i < n
      /\ \A i \in DOMAIN calls' : i \in Int /\ (i \in DOMAIN calls \/ i = n)
  BY <1>1
<1> HIDE DEF n
<1>3. ASSUME NEW names, NotCalled(names)'
      PROVE  NotCalled(names) /\ name \notin names
  BY <1>2, <1>3 DEF NotCalled
<1>4. ASSUME NEW r \in DOMAIN calls', NEW way \in {"append", "write"}, InOrder(r, way)'
      PROVE  \/ r \in DOMAIN calls /\ InOrder(r, way) /\ name = way
             \/ name = "reset" /\ NotCalled({"append", "write"})
  <2>1. CASE r \in DOMAIN calls
    <3>1. n > r
      BY <1>2, <2>1
    <3>2. name = way
      BY <1>2, <1>4, <3>1 DEF InOrder
    <3>3. InOrder(r, way)
      BY <1>2, <1>4, <2>1 DEF InOrder
    <3> QED BY <2>1, <3>2, <3>3
  <2>2. CASE r = n
    <3>1. name = "reset"
      BY <1>2, <1>4, <2>2 DEF InOrder
    <3>2. NotCalled({"append", "write"})
      BY <1>2, <1>4, <2>2 DEF InOrder, NotCalled
    <3> QED BY <3>1, <3>2
  <2> QED BY <1>2, <2>1, <2>2
<1>5. (\A i \in DOMAIN calls' : calls'[i] = "read") =>
        name = "read" /\ \A i \in DOMAIN calls : calls[i] = "read"
  BY <1>2
<1> QED BY <1>2, <1>3, <1>4, <1>5

\* What a call leaves alone, as the model is not a target and has its turn.
LEMMA CallKeeps ==
  ASSUME StreamInv, NEW name \in CallNames, Call(name),
         signal' \in Signal, written' \in Seq(Message), taken' \in Seq(Message),
         count' \in Nat
  PROVE  /\ TypeOK' /\ Owners' /\ Emptied' /\ Handed'
         /\ TargetWrites' /\ TargetSeen' /\ PublishesWrites'
<1>0. turn = "model" /\ turn' = "model" /\ kind = "api" /\ kind' = "api"
  BY DEF Call
<1>1. TypeOK'
  BY CallsGrow DEF StreamInv, TypeOK, Call
<1>2. Owners'
  BY <1>0 DEF StreamInv, Owners, Working, Call
<1>3. Emptied' /\ Handed'
  BY <1>0 DEF Emptied, Handed
<1>4. TargetWrites' /\ TargetSeen' /\ PublishesWrites'
  BY <1>0 DEF TargetWrites, TargetSeen, PublishesWrites
<1> QED BY <1>1, <1>2, <1>3, <1>4

LEMMA FreshIsNew ==
  ASSUME TypeOK, Numbered
  PROVE  /\ Fresh \in Message /\ << Fresh >> \in Seq(Message)
         /\ \A i \in DOMAIN written : written[i] # Fresh
<1>1. Fresh \in Message
  BY DEF TypeOK, Fresh, Message
<1>2. ASSUME NEW i \in DOMAIN written, written[i] = Fresh PROVE FALSE
  <2>1. written[i][1] = "own" /\ written[i][2] = count
    BY <1>2 DEF Fresh
  <2> QED BY <2>1 DEF Numbered, Made, TypeOK
<1> QED BY <1>1, <1>2

LEMMA MadeStays ==
  ASSUME count \in Nat, count' = count + 1, NEW q \in Seq(Message), Made(q)
  PROVE  Made(q)'
<1>1. ASSUME NEW i \in DOMAIN q, q[i][1] = "own" PROVE q[i][2] < count'
  <2>1. q[i] \in Message /\ q[i][2] < count
    BY <1>1 DEF Made
  <2>2. q[i][2] \in Nat
    BY <2>1 DEF Message
  <2> QED BY <2>1, <2>2
<1> QED BY <1>1 DEF Made

LEMMA AddOne ==
  ASSUME NEW q \in Seq(Message), NEW x \in Message
  PROVE  /\ q \o << x >> \in Seq(Message) /\ Len(q \o << x >>) = Len(q) + 1
         /\ Len(q) + 1 \in DOMAIN (q \o << x >>) /\ (q \o << x >>)[Len(q) + 1] = x
         /\ \A i \in DOMAIN q : /\ i \in DOMAIN (q \o << x >>)
                               /\ (q \o << x >>)[i] = q[i] /\ i # Len(q) + 1
         /\ \A i \in DOMAIN (q \o << x >>) : i \in DOMAIN q \/ i = Len(q) + 1
  OBVIOUS

\* What a model writes is added to what it has written, and to a part of what
\* is in the signal.
LEMMA WriteStream ==
  ASSUME StreamInv, NEW name \in {"append", "write"}, Call(name),
         written' = written \o << Fresh >>, count' = count + 1, taken' = taken,
         signal' \in Signal, signal'.reset = signal.reset,
         NEW n \in 0..Len(signal.data),
         signal'.data = SubSeq(signal.data, 1, n) \o << Fresh >>,
         name = "append" => n = Len(signal.data),
         name = "write" => n = Least(signal.pos, Len(signal.data)) /\ signal'.pos = n + 1
  PROVE  StreamInv'
<1> DEFINE d == SubSeq(signal.data, 1, n)
<1>1. /\ turn = "model" /\ turn' = "model" /\ kind = "api" /\ kind' = "api"
      /\ calls' = calls \o << name >> /\ name \in CallNames
  BY DEF Call, CallNames
<1>2. /\ TypeOK /\ Fresh \in Message /\ << Fresh >> \in Seq(Message)
      /\ \A i \in DOMAIN written : written[i] # Fresh
  BY FreshIsNew DEF StreamInv
<1>3. written \in Seq(Message) /\ signal.data \in Seq(Message) /\ count \in Nat
  BY DEF StreamInv, TypeOK, Signal
<1>4. /\ written' \in Seq(Message)
      /\ \A i \in DOMAIN written : i \in DOMAIN written' /\ written'[i] = written[i]
      /\ Len(written) + 1 \in DOMAIN written' /\ written'[Len(written) + 1] = Fresh
      /\ \A i \in DOMAIN written' : i \in DOMAIN written \/ i = Len(written) + 1
  BY <1>2, <1>3, AddOne
<1>5. /\ d \in Seq(Message) /\ Len(d) = n
      /\ \A i \in DOMAIN d : i \in DOMAIN signal.data /\ d[i] = signal.data[i]
  BY <1>3
<1> HIDE DEF d
<1>6. /\ signal'.data \in Seq(Message) /\ Len(signal'.data) = n + 1
      /\ \A i \in DOMAIN signal'.data : \/ i \in DOMAIN d /\ signal'.data[i] = d[i]
                                        \/ i = n + 1 /\ signal'.data[i] = Fresh
      /\ signal'.data = d \o << Fresh >>
  <2>1. signal'.data = d \o << Fresh >>
    BY DEF d
  <2>2. PICK q \in Seq(Message), x \in Message : q = d /\ x = Fresh
    BY <1>2, <1>5
  <2>3. /\ q \o << x >> \in Seq(Message) /\ Len(q \o << x >>) = Len(q) + 1
        /\ (q \o << x >>)[Len(q) + 1] = x
        /\ \A i \in DOMAIN q : (q \o << x >>)[i] = q[i]
        /\ \A i \in DOMAIN (q \o << x >>) : i \in DOMAIN q \/ i = Len(q) + 1
    BY AddOne
  <2>4. signal'.data = q \o << x >>
    BY <2>1, <2>2
  <2> QED BY <1>5, <2>1, <2>2, <2>3, <2>4, Zenon
<1>7. /\ TypeOK' /\ Owners' /\ Emptied' /\ Handed'
      /\ TargetWrites' /\ TargetSeen' /\ PublishesWrites'
  BY <1>1, <1>3, <1>4, CallKeeps DEF StreamInv, TypeOK
<1>8. Numbered'
  <2>1. PICK p \in Seq(Message), q \in Seq(Message) : p = written /\ q = target.output
    BY <1>3 DEF StreamInv, TypeOK, Target
  <2>2. Made(p)' /\ Made(q)'
    BY <1>3, <2>1, MadeStays DEF StreamInv, Numbered
  <2>3. UNCHANGED target
    BY DEF Call
  <2>4. ASSUME NEW i \in DOMAIN written', written'[i][1] = "own"
        PROVE  written'[i][2] < count'
    <3>1. CASE i \in DOMAIN written
      BY <1>4, <2>1, <2>2, <2>4, <3>1 DEF Made
    <3>2. CASE i = Len(written) + 1
      BY <1>3, <1>4, <3>2 DEF Fresh
    <3> QED BY <1>4, <3>1, <3>2
  <2> QED BY <2>1, <2>2, <2>3, <2>4 DEF Numbered, Made
<1>9. AfterReset'
  <2> SUFFICES ASSUME signal'.reset
               PROVE  PartOf(signal'.data, written') /\ NoneTwice(signal'.data)
    BY DEF AfterReset
  <2>1. PartOf(signal.data, written) /\ NoneTwice(signal.data)
    BY <1>1 DEF StreamInv, AfterReset, Working
  <2>2. \A i \in DOMAIN d : \E j \in DOMAIN written : d[i] = written[j]
    BY <1>5, <2>1 DEF PartOf
  <2>3. PartOf(signal'.data, written')
    <3>1. ASSUME NEW i \in DOMAIN signal'.data
          PROVE  \E j \in DOMAIN written' : signal'.data[i] = written'[j]
      <4>1. CASE i \in DOMAIN d /\ signal'.data[i] = d[i]
        <5>1. PICK j \in DOMAIN written : d[i] = written[j]
          BY <2>2, <4>1
        <5> QED BY <1>4, <4>1, <5>1
      <4>2. CASE signal'.data[i] = Fresh
        BY <1>4, <4>2
      <4> QED BY <1>6, <4>1, <4>2
    <3> QED BY <3>1 DEF PartOf
  <2>4. \A i, j \in DOMAIN d : d[i] = d[j] => i = j
    BY <1>5, <2>1 DEF NoneTwice
  <2>5. \A i \in DOMAIN d : d[i] # Fresh
    BY <1>2, <2>2
  <2>6. NoneTwice(signal'.data)
    BY <1>6, <2>4, <2>5 DEF NoneTwice
  <2> QED BY <2>3, <2>6
<1>10. Orderly'
  <2>1. ~NotCalled({"append", "write"})'
    BY <1>1, <1>2, CallsGrow
  <2>2. NotCalled({"reset"})' => ~signal'.reset
    BY <1>1, <1>2, CallsGrow DEF StreamInv, Orderly
  <2>3. ASSUME NEW r \in DOMAIN calls', NEW way \in {"append", "write"}, InOrder(r, way)'
        PROVE  /\ signal'.reset /\ signal'.data = written'
               /\ way = "write" => signal'.pos = Len(signal'.data)
    <3>1. r \in DOMAIN calls /\ InOrder(r, way) /\ name = way
      BY <1>1, <1>2, <2>3, CallsGrow
    <3>2. /\ signal.reset /\ signal.data = written
          /\ way = "write" => signal.pos = Len(signal.data)
      BY <1>1, <3>1 DEF StreamInv, Orderly
    <3>3. n = Len(signal.data)
      BY <1>3, <3>1, <3>2 DEF Least
    <3>4. d = signal.data
      BY <1>3, <3>3 DEF d
    <3>5. signal'.data = written'
      BY <1>6, <3>2, <3>4
    <3>6. way = "write" => signal'.pos = Len(signal'.data)
      BY <1>6, <3>1
    <3> QED BY <3>2, <3>5, <3>6
  <2> QED BY <2>1, <2>2, <2>3 DEF Orderly
<1>11. Reading'
  BY <1>1, <1>2, CallsGrow DEF Reading
<1> QED BY <1>7, <1>8, <1>9, <1>10, <1>11 DEF StreamInv

LEMMA AppendStep == ASSUME StreamInv, CallAppend PROVE StreamInv'
<1>1. /\ Call("append") /\ signal' = Appended(signal, << Fresh >>)
      /\ written' = written \o << Fresh >> /\ count' = count + 1 /\ taken' = taken
  BY DEF CallAppend, Writes
<1>2. TypeOK /\ signal \in Signal /\ << Fresh >> \in Seq(Message) /\ signal.data \in Seq(Message)
  BY FreshIsNew DEF StreamInv, TypeOK, Signal
<1>3. PICK q \in Seq(Message) : q = signal.data
  BY <1>2
<1>4. /\ signal' \in Signal /\ signal'.reset = signal.reset
      /\ signal'.data = signal.data \o << Fresh >>
  BY <1>1, <1>2, AppendedFields
<1>5. SubSeq(q, 1, Len(q)) = q /\ Len(q) \in 0..Len(q)
  OBVIOUS
<1>6. signal'.data = SubSeq(signal.data, 1, Len(signal.data)) \o << Fresh >>
  BY <1>3, <1>4, <1>5
<1> QED BY <1>1, <1>3, <1>4, <1>5, <1>6, WriteStream

LEMMA WriteStep == ASSUME StreamInv, CallWrite PROVE StreamInv'
<1>1. /\ Call("write") /\ signal' = Write(signal, << Fresh >>)
      /\ written' = written \o << Fresh >> /\ count' = count + 1 /\ taken' = taken
  BY DEF CallWrite, Writes
<1>2. TypeOK /\ signal \in Signal /\ << Fresh >> \in Seq(Message) /\ Len(<< Fresh >>) = 1
  BY FreshIsNew DEF StreamInv, TypeOK
<1> DEFINE at == Least(signal.pos, Len(signal.data))
<1>3. /\ at \in 0..Len(signal.data)
      /\ signal' \in Signal /\ signal'.reset = signal.reset
      /\ signal'.data = SubSeq(signal.data, 1, at) \o << Fresh >>
      /\ signal'.pos = at + 1
  BY <1>1, <1>2, WriteFields
<1> QED BY <1>1, <1>3, WriteStream

LEMMA ResetStep == ASSUME StreamInv, CallReset PROVE StreamInv'
<1>1. /\ Call("reset") /\ UNCHANGED <<written, taken, count>>
      /\ signal' = Reset(signal) /\ "reset" \in CallNames
  BY ResetFields DEF CallReset, CallNames
<1>2. /\ signal' \in Signal /\ signal'.data = << >>
      /\ signal'.pos = 0 /\ signal'.reset
  BY <1>1, ResetFields
<1>3. /\ turn = "model" /\ turn' = "model" /\ kind = "api" /\ kind' = "api"
      /\ calls' = calls \o << "reset" >> /\ TypeOK
  BY <1>1 DEF Call, StreamInv
<1>4. /\ TypeOK' /\ Owners' /\ Emptied' /\ Handed'
      /\ TargetWrites' /\ TargetSeen' /\ PublishesWrites'
  BY <1>1, <1>2, CallKeeps DEF StreamInv, TypeOK
<1>5. Numbered'
  BY <1>1 DEF StreamInv, Numbered, Made, Call
<1>6. AfterReset'
  BY <1>2 DEF AfterReset, PartOf, NoneTwice
<1>7. Orderly'
  <2>1. NotCalled({"append", "write"})' => written' = << >>
    BY <1>1, <1>3, CallsGrow DEF StreamInv, Orderly
  <2>2. ~NotCalled({"reset"})'
    BY <1>1, <1>3, CallsGrow
  <2>3. ASSUME NEW r \in DOMAIN calls', NEW way \in {"append", "write"}, InOrder(r, way)'
        PROVE  written' = << >>
    <3>1. NotCalled({"append", "write"})
      BY <1>1, <1>3, <2>3, CallsGrow
    <3> QED BY <1>1, <1>3, <3>1 DEF StreamInv, Orderly
  <2> QED BY <1>2, <2>1, <2>2, <2>3 DEF Orderly
<1>8. Reading'
  BY <1>1, <1>3, CallsGrow DEF Reading
<1> QED BY <1>4, <1>5, <1>6, <1>7, <1>8 DEF StreamInv

\* Reading and seeking leave the data and the flag alone.
LEMMA PositionStep ==
  ASSUME StreamInv, NEW name \in {"read", "peek", "seek"}, Call(name),
         signal' \in Signal, signal'.data = signal.data, signal'.reset = signal.reset,
         signal'.pos \in 0..Len(signal.data) \/ signal'.pos = signal.pos,
         name = "read" => signal'.pos = IF signal.pos < Len(signal.data) THEN Len(signal.data)
                                                                     ELSE signal.pos,
         taken' \in Seq(Message), Reading', UNCHANGED <<written, count>>
  PROVE  StreamInv'
<1>1. /\ turn = "model" /\ turn' = "model" /\ kind = "api" /\ kind' = "api"
      /\ calls' = calls \o << name >> /\ TypeOK /\ name \in CallNames
  BY DEF Call, StreamInv, CallNames
<1>2. /\ TypeOK' /\ Owners' /\ Emptied' /\ Handed'
      /\ TargetWrites' /\ TargetSeen' /\ PublishesWrites'
  BY <1>1, CallKeeps DEF StreamInv, TypeOK
<1>3. Numbered' /\ AfterReset'
  BY <1>1 DEF StreamInv, Numbered, Made, AfterReset, PartOf, NoneTwice, Call
<1>4. Orderly'
  <2>1. NotCalled({"append", "write"})' => written' = << >>
    BY <1>1, CallsGrow DEF StreamInv, Orderly
  <2>2. NotCalled({"reset"})' => ~signal'.reset
    BY <1>1, CallsGrow DEF StreamInv, Orderly
  <2>3. \A r \in DOMAIN calls' : \A way \in {"append", "write"} : ~InOrder(r, way)'
    BY <1>1, CallsGrow
  <2> QED BY <2>1, <2>2, <2>3 DEF Orderly
<1> QED BY <1>2, <1>3, <1>4 DEF StreamInv

LEMMA EmptySides ==
  ASSUME NEW q \in Seq(Message)
  PROVE  /\ << >> \o q = q /\ q \o << >> = q
         /\ SubSeq(q, 1, Len(q)) = q /\ SubSeq(q, Len(q) + 1, Len(q)) = << >>
  OBVIOUS

LEMMA ReadStep == ASSUME StreamInv, CallRead PROVE StreamInv'
<1>1. PICK update \in BOOLEAN :
        /\ Call(IF update THEN "read" ELSE "peek")
        /\ signal' = Read(signal, update) /\ taken' = taken \o Rest(signal)
        /\ UNCHANGED <<written, count>>
  BY DEF CallRead
<1> DEFINE name == IF update THEN "read" ELSE "peek"
<1>2. Call(name) /\ name \in {"read", "peek", "seek"} /\ name \in CallNames
  BY <1>1 DEF CallNames
<1>3. TypeOK /\ signal \in Signal /\ signal.data \in Seq(Message) /\ given \in Seq(Message)
      /\ taken \in Seq(Message) /\ signal.pos \in Nat
  BY DEF StreamInv, TypeOK, Signal
<1>4. /\ signal' \in Signal /\ signal'.data = signal.data /\ signal'.reset = signal.reset
      /\ signal'.pos = IF update /\ signal.pos < Len(signal.data) THEN Len(signal.data)
                                                               ELSE signal.pos
      /\ Rest(signal) \in Seq(Message)
  BY <1>1, <1>3, ReadFields
<1>5. taken' \in Seq(Message)
  BY <1>1, <1>3, <1>4
<1>6. /\ signal'.pos \in 0..Len(signal.data) \/ signal'.pos = signal.pos
      /\ name = "read" => signal'.pos = IF signal.pos < Len(signal.data) THEN Len(signal.data)
                                                                      ELSE signal.pos
  BY <1>3, <1>4
<1>7. Reading'
  <2> SUFFICES ASSUME step > 0, \A i \in DOMAIN calls' : calls'[i] = "read"
               PROVE  /\ signal'.data = given /\ signal'.pos = Len(given)
                      /\ taken' = given
    BY <1>2, CallsGrow, <1>3 DEF Reading, Call
  <2>1. name = "read" /\ \A i \in DOMAIN calls : calls[i] = "read"
    BY <1>2, <1>3, CallsGrow DEF Call
  <2>2. /\ signal.data = given
        /\ signal.pos = IF calls = << >> THEN 0 ELSE Len(given)
        /\ taken = IF calls = << >> THEN << >> ELSE given
    BY <1>2, <2>1 DEF StreamInv, Reading, Call
  <2>3. signal'.data = given /\ signal'.pos = Len(given)
    BY <1>3, <1>4, <1>6, <2>1, <2>2
  <2>4. PICK q \in Seq(Message) : q = given
    BY <1>3
  <2>5. Rest(signal) = SubSeq(q, signal.pos + 1, Len(q))
    BY <2>2, <2>4, Zenon DEF Rest
  <2>6. taken' = given
    <3>1. CASE calls = << >>
      <4>1. signal.pos + 1 = 1 /\ taken = << >>
        BY <2>2, <3>1
      <4>2. Rest(signal) = q
        BY <2>5, <4>1, EmptySides
      <4> QED BY <1>1, <2>4, <4>1, <4>2, EmptySides
    <3>2. CASE calls # << >>
      <4>1. signal.pos = Len(q) /\ taken = q
        BY <2>2, <2>4, <3>2
      <4>2. Rest(signal) = << >>
        BY <2>5, <4>1, EmptySides
      <4> QED BY <1>1, <2>4, <4>1, <4>2, EmptySides
    <3> QED BY <3>1, <3>2
  <2> QED BY <2>3, <2>6
<1> QED BY <1>1, <1>2, <1>4, <1>5, <1>6, <1>7, PositionStep

LEMMA SeekStep == ASSUME StreamInv, CallSeek PROVE StreamInv'
<1>1. /\ Call("seek") /\ "seek" \in CallNames /\ UNCHANGED <<written, taken, count>>
      /\ signal' \in {SeekSet(signal, 0), SeekCur(signal, 1), SeekEnd(signal)}
  BY DEF CallSeek, CallNames
<1>2. TypeOK /\ signal \in Signal /\ signal.pos \in Nat /\ Len(signal.data) \in Nat
      /\ taken \in Seq(Message)
  BY DEF StreamInv, TypeOK, Signal
<1>3. PICK n \in Nat : signal' = SeekSet(signal, n)
  BY <1>1, <1>2 DEF SeekCur, SeekEnd
<1>4. /\ signal' \in Signal /\ signal'.data = signal.data /\ signal'.reset = signal.reset
      /\ signal'.pos \in 0..Len(signal.data)
  BY <1>2, <1>3, SeekFields
<1>5. Reading'
  BY <1>1, <1>2, CallsGrow DEF Reading, Call
<1> QED BY <1>1, <1>2, <1>4, <1>5, PositionStep

-----------------------------------------------------------------------------
\* The other steps of a model or target.

LEMMA ReturnStep == ASSUME StreamInv, StepReturns PROVE StreamInv'
<1>1. /\ turn = "model" /\ turn' = "out" /\ (kind = "api" \/ step = 0)
      /\ UNCHANGED <<kind, size, step, time, bin, signal, target, calls, written, given,
                     taken, seen, all, missed, count>>
  BY DEF StepReturns, Becomes, history, modelHistory
<1>2. TypeOK' /\ Owners' /\ Emptied' /\ Handed' /\ Numbered' /\ PublishesWrites'
  BY <1>1 DEF StreamInv, TypeOK, Turns, Owners, Working, Emptied, Handed, Numbered, Made,
              PublishesWrites
<1>3. AfterReset'
  BY <1>1 DEF StreamInv, AfterReset, Working, PartOf, NoneTwice
<1>4. Orderly'
  BY <1>1 DEF StreamInv, Orderly, NotCalled, InOrder
<1>5. Reading'
  BY <1>1 DEF StreamInv, Reading
<1>6. TargetWrites' /\ TargetSeen'
  BY <1>1 DEF StreamInv, TypeOK, TargetWrites, TargetSeen
<1> QED BY <1>2, <1>3, <1>4, <1>5, <1>6 DEF StreamInv

\* In the turns of a target what is about the calls of a model says nothing.
LEMMA TargetKeeps ==
  ASSUME StreamInv, kind = "mcl", turn \in {"model", "reset", "step", "in"},
         turn' \in {"reset", "step", "in", "out"}, step > 0,
         UNCHANGED <<kind, size, step, time, bin, calls, given, taken, all>>,
         missed' \in BOOLEAN,
         signal' \in Signal, target' \in Target, written' \in Seq(Message),
         seen' \in Seq(Message), count' \in Nat
  PROVE  /\ TypeOK' /\ Owners' /\ Emptied' /\ Handed'
         /\ Orderly' /\ Reading' /\ PublishesWrites'
<1>1. TypeOK'
  BY DEF StreamInv, TypeOK, Turns
<1>2. Owners' /\ Emptied' /\ Handed'
  BY DEF StreamInv, Owners, Working, Emptied, Handed
<1>3. Orderly' /\ Reading' /\ PublishesWrites'
  BY DEF Orderly, Reading, PublishesWrites
<1> QED BY <1>1, <1>2, <1>3

LEMMA TargetOutStep == ASSUME StreamInv, MclMarshalOut PROVE StreamInv'
<1>1. /\ turn = "model" /\ turn' = "reset" /\ kind = "mcl" /\ step > 0
      /\ target' = [target EXCEPT !.input = signal.data]
      /\ UNCHANGED <<kind, size, step, time, bin, signal, calls, written, given, taken,
                     seen, all, missed, count>>
  BY DEF MclMarshalOut, Becomes, history, modelHistory
<1>2. /\ target' \in Target /\ target'.time = target.time
      /\ target'.input = signal.data /\ target'.output = target.output
  BY <1>1 DEF StreamInv, TypeOK, Signal, Target
<1>3. TypeOK' /\ Owners' /\ Emptied' /\ Handed' /\ Orderly' /\ Reading' /\ PublishesWrites'
  BY <1>1, <1>2, TargetKeeps DEF StreamInv, TypeOK
<1>4. Numbered' /\ AfterReset'
  BY <1>1, <1>2 DEF StreamInv, Numbered, Made, AfterReset, Working, PartOf, NoneTwice
<1>5. TargetWrites'
  BY <1>1, <1>2 DEF StreamInv, TargetWrites
<1>6. TargetSeen'
  BY <1>1, <1>2 DEF StreamInv, TargetSeen, Behind
<1> QED BY <1>3, <1>4, <1>5, <1>6 DEF StreamInv

\* An input that the target was given but did not take is part of no step.
LEMMA TargetOutFailsStep == ASSUME StreamInv, MclMarshalOutFails PROVE StreamInv'
<1>1. /\ turn = "model" /\ turn' = "out" /\ kind = "mcl" /\ step > 0
      /\ target' \in {target, [target EXCEPT !.input = signal.data]}
      /\ missed'
      /\ UNCHANGED <<kind, size, step, time, bin, signal, calls, written, given, taken,
                     seen, all, count>>
  BY DEF MclMarshalOutFails, Becomes, modelHistory
<1>2. target' \in Target /\ target'.output = target.output
  BY <1>1 DEF StreamInv, TypeOK, Signal, Target
<1>3. missed' \in BOOLEAN
  BY DEF MclMarshalOutFails
<1>4. TypeOK' /\ Owners' /\ Emptied' /\ Handed' /\ Orderly' /\ Reading' /\ PublishesWrites'
  BY <1>1, <1>2, <1>3, TargetKeeps DEF StreamInv, TypeOK
<1>5. Numbered' /\ AfterReset'
  BY <1>1, <1>2 DEF StreamInv, Numbered, Made, AfterReset, Working, PartOf, NoneTwice
<1>6. TargetWrites' /\ TargetSeen'
  BY <1>1, <1>2 DEF StreamInv, TargetWrites, TargetSeen
<1> QED BY <1>4, <1>5, <1>6 DEF StreamInv

LEMMA TargetResetStep == ASSUME StreamInv, MclReset PROVE StreamInv'
<1>1. /\ turn = "reset" /\ turn' = "step" /\ kind = "mcl" /\ step > 0
      /\ signal' = Reset(signal)
      /\ UNCHANGED <<kind, size, step, time, bin, target, calls, written, given, taken,
                     seen, all, missed, count>>
  BY DEF MclReset, Becomes, history, modelHistory, StreamInv, Owners
<1>2. signal' \in Signal /\ signal'.data = << >> /\ signal'.reset
  BY <1>1, ResetFields
<1>3. TypeOK' /\ Owners' /\ Emptied' /\ Handed' /\ Orderly' /\ Reading' /\ PublishesWrites'
  BY <1>1, <1>2, TargetKeeps DEF StreamInv, TypeOK
<1>4. Numbered' /\ AfterReset'
  BY <1>1, <1>2 DEF StreamInv, Numbered, Made, AfterReset, PartOf, NoneTwice
<1>5. TargetWrites'
  BY <1>1, <1>2 DEF StreamInv, TargetWrites
<1>6. TargetSeen'
  BY <1>1, <1>2 DEF StreamInv, TargetSeen, Behind
<1> QED BY <1>3, <1>4, <1>5, <1>6 DEF StreamInv

\* The two ways not to make a step: only the one that leaves the outputs can be
\* taken by a target as slow as the simulation.
LEMMA NoStepStep == ASSUME StreamInv, MclPast \/ MclNoStep PROVE StreamInv'
<1>1. /\ turn = "step" /\ turn' \in {"in", "out"} /\ kind = "mcl" /\ step > 0
      /\ UNCHANGED <<kind, size, step, time, bin, signal, target, calls, written, given,
                     taken, seen, all, missed, count>>
  BY DEF MclPast, MclNoStep, Becomes, history, modelHistory, StreamInv, Owners
<1>2. signal.reset /\ signal.data = << >> /\ written = << >>
  BY <1>1 DEF StreamInv, TargetWrites
<1>3. TypeOK' /\ Owners' /\ Emptied' /\ Handed' /\ Orderly' /\ Reading' /\ PublishesWrites'
  BY <1>1, TargetKeeps DEF StreamInv, TypeOK
<1>4. Numbered' /\ AfterReset'
  BY <1>1, <1>2 DEF StreamInv, Numbered, Made, AfterReset, PartOf, NoneTwice
<1>5. TargetWrites'
  BY <1>1, <1>2 DEF StreamInv, TargetWrites
<1>6. TargetSeen'
  <2> SUFFICES ASSUME size \in {0, StepSize}, ~missed PROVE time = target.time /\ all = seen
    BY <1>1 DEF TargetSeen
  <2>1. Behind(given) /\ all = seen \o given
    BY <1>1 DEF StreamInv, TargetSeen
  <2>2. time \in Nat /\ target.time \in Nat /\ seen \in Seq(Message)
    BY DEF StreamInv, TypeOK, Target
  <2>3. time = target.time
    BY <2>1, <2>2, StreamAssumption DEF MclPast, MclNoStep, TargetStop, Behind
  <2>4. given = << >>
    BY <2>1, <2>2, <2>3, StreamAssumption DEF Behind
  <2> QED BY <2>1, <2>2, <2>3, <2>4, EmptySides
<1> QED BY <1>3, <1>4, <1>5, <1>6 DEF StreamInv

LEMMA TargetStepStep == ASSUME StreamInv, MclStep PROVE StreamInv'
<1>1. /\ turn = "step" /\ turn' \in {"step", "in", "out"} /\ kind = "mcl" /\ step > 0
      /\ target.time < time /\ TargetStop <= time /\ (turn' = "step" => TargetStop < time)
      /\ target' = [target EXCEPT !.time = TargetStop, !.output = << Fresh >>]
      /\ seen' = seen \o target.input /\ count' = count + 1
      /\ UNCHANGED <<kind, size, step, time, bin, signal, calls, written, given, taken, all,
                  missed>>
  BY DEF MclStep, Becomes, modelHistory, StreamInv, Owners
<1>2. signal.reset /\ signal.data = << >> /\ written = << >>
  BY <1>1 DEF StreamInv, TargetWrites
<1>3. /\ << Fresh >> \in Seq(Message) /\ Len(<< Fresh >>) = 1
      /\ time \in Nat /\ size \in Nat /\ target \in Target /\ target.time \in Nat
      /\ seen \in Seq(Message) /\ target.input \in Seq(Message)
      /\ count \in Nat /\ TargetStop \in Nat
  BY FreshIsNew DEF StreamInv, TypeOK, Target, TargetStop
<1>4. /\ target' \in Target /\ target'.time = TargetStop
      /\ target'.input = target.input /\ target'.output = << Fresh >>
  BY <1>1, <1>3 DEF Target
<1>5. seen' \in Seq(Message) /\ count' \in Nat
  BY <1>1, <1>3
<1>6. TypeOK' /\ Owners' /\ Emptied' /\ Handed' /\ Orderly' /\ Reading' /\ PublishesWrites'
  BY <1>1, <1>4, <1>5, TargetKeeps DEF StreamInv, TypeOK
<1>7. Numbered' /\ AfterReset'
  <2>1. Fresh[1] = "own" /\ Fresh[2] < count'
    BY <1>1, <1>3 DEF Fresh
  <2>2. Made(written)' /\ Made(target.output)'
    BY <1>1, <1>2, <1>4, <2>1 DEF Made
  <2> QED BY <1>1, <1>2, <2>2 DEF Numbered, AfterReset, PartOf, NoneTwice
<1>8. TargetWrites'
  BY <1>1, <1>2, <1>3, <1>4 DEF TargetWrites
<1>9. TargetSeen'
  <2> SUFFICES ASSUME size \in {0, StepSize}, ~missed
               PROVE  turn' # "step" /\ time = target'.time /\ all = seen'
    BY <1>1 DEF TargetSeen
  <2>1. target.input = given /\ Behind(given) /\ all = seen \o given
    BY <1>1 DEF StreamInv, TargetSeen
  <2>2. time = target.time + StepSize
    BY <1>1, <1>3, <2>1 DEF Behind
  <2>3. TargetStop = time
    BY <2>2 DEF TargetStop
  <2> QED BY <1>1, <1>3, <1>4, <2>1, <2>3
<1> QED BY <1>6, <1>7, <1>8, <1>9 DEF StreamInv

LEMMA TargetInStep == ASSUME StreamInv, MclMarshalIn PROVE StreamInv'
<1>1. /\ turn = "in" /\ turn' = "out" /\ kind = "mcl" /\ step > 0
      /\ signal' = Appended(signal, target.output)
      /\ target' = [target EXCEPT !.output = << >>]
      /\ written' = written \o target.output
      /\ UNCHANGED <<kind, size, step, time, bin, calls, given, taken, seen, all,
                     missed, count>>
  BY DEF MclMarshalIn, Becomes, StreamInv, Owners
<1>2. signal.reset /\ signal.data = << >> /\ written = << >> /\ Len(target.output) <= 1
  BY <1>1 DEF StreamInv, TargetWrites
<1>3. /\ signal \in Signal /\ target \in Target /\ target.output \in Seq(Message)
      /\ seen \in Seq(Message) /\ count \in Nat
  BY DEF StreamInv, TypeOK, Target
<1>4. PICK q \in Seq(Message) : q = target.output
  BY <1>3
<1>5. signal' \in Signal /\ signal'.data = q /\ signal'.reset /\ written' = q
  BY <1>1, <1>2, <1>3, <1>4, AppendedFields, EmptySides
<1>6. /\ target' \in Target /\ target'.output = << >> /\ Len(target'.output) = 0
      /\ target'.time = target.time
  <2>1. << >> \in Seq(Message) /\ Len(<< >>) = 0
    OBVIOUS
  <2>2. target' = [target EXCEPT !.output = << >>]
    BY <1>1
  <2> QED BY <1>3, <2>1, <2>2 DEF Target
<1>7. TypeOK' /\ Owners' /\ Emptied' /\ Handed' /\ Orderly' /\ Reading' /\ PublishesWrites'
  BY <1>1, <1>3, <1>5, <1>6, TargetKeeps DEF StreamInv, TypeOK
<1>8. Numbered'
  BY <1>1, <1>4, <1>5, <1>6 DEF StreamInv, Numbered, Made
<1>9. AfterReset'
  BY <1>2, <1>4, <1>5 DEF AfterReset, PartOf, NoneTwice
<1>10. TargetWrites'
  BY <1>1, <1>5, <1>6 DEF TargetWrites
<1>11. TargetSeen'
  BY <1>1, <1>6 DEF StreamInv, TargetSeen
<1> QED BY <1>7, <1>8, <1>9, <1>10, <1>11 DEF StreamInv

LEMMA TargetInFailsStep == ASSUME StreamInv, MclMarshalInFails PROVE StreamInv'
<1>1. /\ turn = "in" /\ turn' = "out" /\ kind = "mcl" /\ step > 0
      /\ UNCHANGED <<kind, size, step, time, bin, signal, target, calls, written, given,
                     taken, seen, all, missed, count>>
  BY DEF MclMarshalInFails, Becomes, history, modelHistory, StreamInv, Owners
<1>2. signal.reset /\ signal.data = << >> /\ written = << >>
  BY <1>1 DEF StreamInv, TargetWrites
<1>3. TypeOK' /\ Owners' /\ Emptied' /\ Handed' /\ Orderly' /\ Reading' /\ PublishesWrites'
  BY <1>1, TargetKeeps DEF StreamInv, TypeOK
<1>4. Numbered' /\ AfterReset'
  BY <1>1, <1>2 DEF StreamInv, Numbered, Made, AfterReset, PartOf, NoneTwice
<1>5. TargetWrites' /\ TargetSeen'
  BY <1>1, <1>2 DEF StreamInv, TargetWrites, TargetSeen
<1> QED BY <1>3, <1>4, <1>5 DEF StreamInv

-----------------------------------------------------------------------------
\* The steps of the controller.

\* Where neither the model nor its target has the signal, nothing is said of
\* what it holds or where its stream is.
LEMMA ControllerKeeps ==
  ASSUME StreamInv, turn \in {"out", "bus"}, turn' \in {"bus", "marshal"},
         UNCHANGED <<kind, size, step, target, calls, written, given, taken, seen, all,
                     missed>>,
         signal' \in Signal, signal'.data = << >>, bin' \in Seq(Message),
         time' \in Nat, count' = count \/ count' = count + 1
  PROVE  /\ TypeOK' /\ Owners' /\ Emptied' /\ Handed'
         /\ Numbered' /\ AfterReset' /\ Orderly' /\ Reading' /\ TargetWrites'
<1>1. TypeOK'
  BY DEF StreamInv, TypeOK, Turns
<1>2. Owners' /\ Emptied' /\ Handed' /\ AfterReset'
  BY DEF StreamInv, Owners, Emptied, Handed, AfterReset, Working
<1>3. Orderly' /\ Reading' /\ TargetWrites'
  BY DEF StreamInv, Orderly, Reading, TargetWrites, NotCalled
<1>4. Numbered'
  <2>1. CASE count' = count
    BY <2>1 DEF StreamInv, Numbered, Made
  <2>2. CASE count' = count + 1
    <3>1. PICK p \in Seq(Message), q \in Seq(Message) : p = written /\ q = target.output
      BY DEF StreamInv, TypeOK, Target
    <3>2. Made(p)' /\ Made(q)'
      BY <2>2, <3>1, MadeStays DEF StreamInv, TypeOK, Numbered
    <3> QED BY <3>1, <3>2 DEF Numbered, Made
  <2> QED BY <2>1, <2>2
<1> QED BY <1>1, <1>2, <1>3, <1>4

LEMMA MarshalOutStep == ASSUME StreamInv, MarshalOut PROVE StreamInv'
<1>1. /\ turn = "out" /\ turn' = "bus"
      /\ bin' = IF signal.reset THEN bin \o signal.data ELSE bin
      /\ signal' = [signal EXCEPT !.data = << >>]
      /\ UNCHANGED <<kind, size, step, time, target, calls, written, given, taken,
                     seen, all, missed, count>>
  BY DEF MarshalOut, Becomes, history, modelHistory
<1>2. signal \in Signal /\ signal.data \in Seq(Message) /\ bin = << >> /\ time \in Nat
  BY <1>1 DEF StreamInv, TypeOK, Signal, Owners, Working
<1>3. PICK q \in Seq(Message) : q = signal.data
  BY <1>2
<1>4. bin' = IF signal.reset THEN q ELSE << >>
  BY <1>1, <1>2, <1>3, EmptySides
<1>5. signal' \in Signal /\ signal'.data = << >>
  <2>1. << >> \in Seq(Message)
    OBVIOUS
  <2> QED BY <1>1, <1>2, <2>1 DEF Signal
<1>6. bin' \in Seq(Message)
  BY <1>3, <1>4
<1>7. /\ TypeOK' /\ Owners' /\ Emptied' /\ Handed'
      /\ Numbered' /\ AfterReset' /\ Orderly' /\ Reading' /\ TargetWrites'
  BY <1>1, <1>2, <1>5, <1>6, ControllerKeeps
<1>8. TargetSeen'
  BY <1>1 DEF StreamInv, TargetSeen
<1>9. PublishesWrites'
  <2>1. ASSUME NEW i \in DOMAIN bin' PROVE bin'[i] \in {written[j] : j \in DOMAIN written}
    <3>1. signal.reset /\ bin' = signal.data
      BY <1>3, <1>4, <2>1
    <3>2. PartOf(signal.data, written)
      BY <1>1, <3>1 DEF StreamInv, AfterReset, Working
    <3> QED BY <2>1, <3>1, <3>2 DEF PartOf
  <2>2. \A i, j \in DOMAIN bin' : bin'[i] = bin'[j] => i = j
    <3>1. CASE signal.reset
      BY <1>1, <1>3, <1>4, <3>1 DEF StreamInv, AfterReset, Working, NoneTwice
    <3>2. CASE ~signal.reset
      BY <1>4, <3>2
    <3> QED BY <3>1, <3>2
  <2>3. Expected \/ (kind = "mcl" /\ step > 0) => bin' = written
    <3>1. ASSUME Expected PROVE bin' = written
      <4>1. PICK r \in DOMAIN calls :
              /\ calls[r] = "reset"
              /\ \A i \in 1..r - 1 : calls[i] \in {"read", "peek", "reset"}
              /\ \E way \in {"append", "write"} : \A i \in r + 1..Len(calls) : calls[i] = way
        BY <3>1 DEF Expected
      <4>2. PICK way \in {"append", "write"} : \A i \in r + 1..Len(calls) : calls[i] = way
        BY <4>1
      <4>3. calls \in Seq(CallNames) /\ kind \in {"api", "mcl"}
        BY DEF StreamInv, TypeOK
      <4>4. InOrder(r, way)
        BY <4>1, <4>2, <4>3 DEF InOrder
      <4>5. kind = "api"
        BY <4>1, <4>3 DEF StreamInv, Owners
      <4>6. signal.reset /\ signal.data = written
        BY <1>1, <4>4, <4>5 DEF StreamInv, Orderly
      <4> QED BY <1>3, <1>4, <4>6
    <3>2. ASSUME kind = "mcl", step > 0 PROVE bin' = written
      <4>1. IF signal.reset THEN signal.data = written ELSE written = << >>
        BY <1>1, <3>2 DEF StreamInv, TargetWrites
      <4> QED BY <1>3, <1>4, <4>1
    <3> QED BY <3>1, <3>2
  <2>4. ASSUME kind = "api", \A i \in DOMAIN calls : calls[i] # "reset"
        PROVE  bin' = << >>
    <3>1. ~signal.reset
      BY <1>1, <2>4 DEF StreamInv, Orderly, NotCalled
    <3> QED BY <1>4, <3>1
  <2>5. Expected' <=> Expected
    BY <1>1 DEF Expected
  <2> QED BY <1>1, <2>1, <2>2, <2>3, <2>4, <2>5 DEF PublishesWrites
<1> QED BY <1>7, <1>8, <1>9 DEF StreamInv

LEMMA ExchangeStep ==
  ASSUME StreamInv, Exchange \/ ExchangeInterrupted
  PROVE  StreamInv'
<1>1. /\ turn = "bus" /\ turn' = "marshal"
      /\ UNCHANGED <<kind, size, step, signal, target, calls, written, given, taken, seen,
                     all, missed>>
  BY DEF Exchange, ExchangeInterrupted, Becomes, history, modelHistory
<1>2. /\ signal \in Signal /\ signal.data = << >> /\ bin \in Seq(Message)
      /\ time \in Nat /\ count \in Nat
  BY <1>1 DEF StreamInv, TypeOK, Emptied
<1>3. /\ bin' \in Seq(Message) /\ (count' = count \/ count' = count + 1)
      /\ time' = time + StepSize \/ (time' = time /\ bin' = << >>)
  <2>1. CASE Exchange
    <3>1. PICK others \in {<< >>, << <<"other", count>> >>} : bin' \in {others \o bin, bin \o others}
      BY <2>1 DEF Exchange
    <3>2. << >> \in Seq(Message) /\ << <<"other", count>> >> \in Seq(Message)
      BY <1>2 DEF Message
    <3>3. others \in Seq(Message)
      BY <3>1, <3>2
    <3>4. PICK p \in Seq(Message), q \in Seq(Message) : p = bin /\ q = others
      BY <1>2, <3>3
    <3>5. p \o q \in Seq(Message) /\ q \o p \in Seq(Message)
      OBVIOUS
    <3>6. bin' \in {q \o p, p \o q}
      BY <3>1, <3>4, Zenon
    <3>7. bin' \in Seq(Message)
      BY <3>5, <3>6
    <3> QED BY <2>1, <3>7 DEF Exchange
  <2>2. CASE ExchangeInterrupted
    <3>1. << >> \in Seq(Message)
      OBVIOUS
    <3> QED BY <2>2, <3>1 DEF ExchangeInterrupted
  <2> QED BY <2>1, <2>2
<1>4. time' \in Nat
  BY <1>2, <1>3, StreamAssumption
<1>5. /\ TypeOK' /\ Owners' /\ Emptied' /\ Handed'
      /\ Numbered' /\ AfterReset' /\ Orderly' /\ Reading' /\ TargetWrites'
  BY <1>1, <1>2, <1>3, <1>4, ControllerKeeps
<1>6. TargetSeen'
  BY <1>1, <1>3 DEF StreamInv, TargetSeen, Behind
<1>7. PublishesWrites'
  BY <1>1 DEF PublishesWrites
<1> QED BY <1>5, <1>6, <1>7 DEF StreamInv

LEMMA MarshalInStep == ASSUME StreamInv, MarshalIn PROVE StreamInv'
<1>1. /\ turn = "marshal" /\ turn' = "begin"
      /\ signal' = [signal EXCEPT !.data = @ \o bin, !.reset = FALSE]
      /\ bin' = << >> /\ given' = bin /\ all' = all \o bin
      /\ calls' = << >> /\ written' = << >> /\ taken' = << >>
      /\ UNCHANGED <<kind, size, step, time, target, seen, missed, count>>
  BY DEF MarshalIn, Becomes
<1>2. /\ signal \in Signal /\ signal.data = << >> /\ bin \in Seq(Message) /\ all \in Seq(Message)
  BY <1>1 DEF StreamInv, TypeOK, Emptied
<1>3. PICK q \in Seq(Message) : q = bin
  BY <1>2
<1>4. signal.data \o bin = q
  BY <1>2, <1>3, EmptySides
<1>5. signal' \in Signal /\ signal'.data = q /\ ~signal'.reset
  <2>1. signal' = [signal EXCEPT !.data = q, !.reset = FALSE]
    BY <1>1, <1>4
  <2> QED BY <1>2, <2>1 DEF Signal
<1>6. all' \in Seq(Message) /\ << >> \in Seq(Message) /\ << >> \in Seq(CallNames)
  BY <1>1, <1>2
<1>7. TypeOK'
  BY <1>1, <1>2, <1>5, <1>6 DEF StreamInv, TypeOK, Turns
<1>8. Owners' /\ Emptied' /\ Handed'
  BY <1>1, <1>3, <1>5 DEF Owners, Emptied, Handed
<1>9. Numbered'
  BY <1>1 DEF StreamInv, Numbered, Made
<1>10. AfterReset' /\ Orderly' /\ Reading'
  BY <1>1 DEF AfterReset, Orderly, Reading, Working
<1>11. TargetWrites'
  BY <1>1 DEF StreamInv, TargetWrites
<1>12. TargetSeen'
  BY <1>1 DEF StreamInv, TargetSeen, Behind
<1>13. PublishesWrites'
  BY <1>1 DEF PublishesWrites
<1> QED BY <1>7, <1>8, <1>9, <1>10, <1>11, <1>12, <1>13 DEF StreamInv

LEMMA DoStepStep == ASSUME StreamInv, DoStep PROVE StreamInv'
<1>1. /\ turn = "begin" /\ turn' = "model"
      /\ signal' = SeekSet(signal, 0) /\ step' = step + 1
      /\ UNCHANGED <<kind, size, time, bin, target, calls, written, given, taken,
                     seen, all, missed, count>>
  BY DEF DoStep, Becomes, history, modelHistory
<1>2. /\ signal \in Signal /\ signal.data = given /\ ~signal.reset /\ bin = << >>
      /\ calls = << >> /\ written = << >> /\ taken = << >> /\ step \in Nat
  BY <1>1 DEF StreamInv, TypeOK, Handed, Owners
<1>3. /\ signal' \in Signal /\ signal'.data = given /\ ~signal'.reset
      /\ signal'.pos = 0
  <2>1. /\ signal' \in Signal /\ signal'.data = signal.data /\ signal'.reset = signal.reset
        /\ signal'.pos = Least(0, Len(signal.data))
    BY <1>1, <1>2, SeekFields
  <2>2. Len(signal.data) \in Nat
    BY <1>2 DEF Signal
  <2> QED BY <1>2, <2>1, <2>2 DEF Least
<1>4. TypeOK'
  BY <1>1, <1>2, <1>3 DEF StreamInv, TypeOK, Turns
<1>5. Owners' /\ Emptied' /\ Handed'
  BY <1>1, <1>2 DEF StreamInv, Owners, Emptied, Handed
<1>6. Numbered' /\ AfterReset'
  BY <1>1, <1>3 DEF StreamInv, Numbered, Made, AfterReset
<1>7. Orderly' /\ Reading'
  BY <1>1, <1>2, <1>3 DEF Orderly, Reading
<1>8. TargetWrites'
  BY <1>1, <1>2, <1>3 DEF StreamInv, TargetWrites
<1>9. TargetSeen'
  BY <1>1, <1>2, <1>3 DEF StreamInv, TargetSeen, Behind
<1>10. PublishesWrites'
  BY <1>1 DEF PublishesWrites
<1> QED BY <1>4, <1>5, <1>6, <1>7, <1>8, <1>9, <1>10 DEF StreamInv

-----------------------------------------------------------------------------
\* The theorems.

LEMMA InitStream == Init => StreamInv
<1> SUFFICES ASSUME Init PROVE StreamInv
  OBVIOUS
<1> DEFINE o == IF kind = "mcl" THEN << <<"init", 0>> >> ELSE << >>
<1>1. /\ kind \in {"api", "mcl"} /\ size \in IF kind = "mcl" THEN TargetSizes ELSE {0}
      /\ turn = "model" /\ step = 0 /\ time = 0 /\ bin = << >> /\ count = 0
      /\ target = [time |-> 0, input |-> << >>, output |-> o]
      /\ signal \in {[data |-> d, pos |-> 0, reset |-> FALSE] : d \in {o, << >>}}
      /\ calls = << >> /\ written = << >> /\ given = << >> /\ taken = << >>
      /\ seen = << >> /\ all = << >> /\ missed = FALSE
  BY DEF Init
<1>2. /\ o \in Seq(Message) /\ Len(o) <= 1 /\ << >> \in Seq(Message) /\ << >> \in Seq(CallNames)
      /\ \A i \in DOMAIN o : o[i][1] # "own"
  BY <1>1 DEF Message
<1> HIDE DEF o
<1>3. /\ signal \in Signal /\ target \in Target /\ target.output = o /\ ~signal.reset
      /\ target.time = 0
  <2>1. PICK d \in {o, << >>} : signal = [data |-> d, pos |-> 0, reset |-> FALSE]
    BY <1>1
  <2>2. d \in Seq(Message)
    BY <1>2, <2>1
  <2>3. signal \in Signal /\ ~signal.reset
    BY <2>1, <2>2 DEF Signal
  <2> QED BY <1>1, <1>2, <2>3 DEF Target
<1>4. TypeOK
  <2>1. size \in TargetSizes \cup {0} /\ missed \in BOOLEAN
    BY <1>1
  <2>2. size \in Nat
    BY <2>1, StreamAssumption
  <2> QED BY <1>1, <1>2, <1>3, <2>1, <2>2 DEF TypeOK, Turns
<1>5. Owners /\ Emptied /\ Handed
  BY <1>1 DEF Owners, Emptied, Handed
<1>6. Numbered /\ AfterReset
  BY <1>1, <1>2, <1>3 DEF Numbered, Made, AfterReset
<1>7. Orderly /\ Reading
  BY <1>1, <1>3 DEF Orderly, Reading
<1>8. TargetWrites /\ TargetSeen
  BY <1>1, <1>2, <1>3 DEF TargetWrites, TargetSeen
<1>9. PublishesWrites
  BY <1>1 DEF PublishesWrites
<1> QED BY <1>4, <1>5, <1>6, <1>7, <1>8, <1>9 DEF StreamInv

LEMMA StutterStream == StreamInv /\ UNCHANGED vars => StreamInv'
<1> SUFFICES ASSUME StreamInv, UNCHANGED vars PROVE StreamInv'
  OBVIOUS
<1> USE DEF StreamInv, vars, history, modelHistory
<1>1. TypeOK' /\ Owners' /\ Emptied' /\ Handed' /\ Numbered'
  BY DEF TypeOK, Owners, Emptied, Handed, Numbered, Made
<1>2. AfterReset' /\ Orderly' /\ Reading'
  BY DEF AfterReset, PartOf, NoneTwice, Orderly, NotCalled, InOrder, Reading
<1>3. TargetWrites' /\ TargetSeen' /\ PublishesWrites'
  BY DEF TargetWrites, TargetSeen, Behind, PublishesWrites, Expected
<1> QED BY <1>1, <1>2, <1>3

\* Around the turns of a step (step.c, controller.c, mcl.c): the data of a
\* signal is what the bus gave, or part of what was written since a reset.
THEOREM StreamInvariant == Spec => []StreamInv
<1>1. StreamInv /\ [Next]_vars => StreamInv'
  BY AppendStep, WriteStep, ResetStep, ReadStep, SeekStep, ReturnStep,
     TargetOutStep, TargetOutFailsStep, TargetResetStep, NoStepStep, TargetStepStep,
     TargetInStep, TargetInFailsStep,
     MarshalOutStep, ExchangeStep, MarshalInStep, DoStepStep, StutterStream
     DEF Next
<1> QED BY <1>1, InitStream, PTL DEF Spec

\* What a model publishes it wrote in this step, each message once: all of it
\* after read, reset and write in this order, nothing without a reset
\* (__marshal__model2adapter), and for a target its output (mcl.c).
THEOREM WritesArePublished == Spec => []PublishesWrites
<1>1. StreamInv => PublishesWrites
  BY DEF StreamInv
<1> QED BY <1>1, StreamInvariant, PTL

\* What the bus gave is read once by a model that reads (_do_step_func sets
\* its stream to the start), and seen once by a target as slow as the
\* simulation, interrupted or not, up to the first marshal that fails.
THEOREM ReadOnce == Spec => []GivenIsReadOnce
<1>1. StreamInv => GivenIsReadOnce
  <2> SUFFICES ASSUME StreamInv PROVE GivenIsReadOnce
    OBVIOUS
  <2>1. ASSUME step > 0, calls # << >>, \A i \in DOMAIN calls : calls[i] = "read"
        PROVE  taken = given
    <3>1. kind = "api"
      BY <2>1 DEF StreamInv, TypeOK, Owners
    <3> QED BY <2>1, <3>1 DEF StreamInv, Reading
  <2>2. kind = "mcl" /\ size \in {0, StepSize} /\ turn = "out" /\ ~missed => seen = all
    BY DEF StreamInv, TargetSeen
  <2> QED BY <2>1, <2>2 DEF GivenIsReadOnce
<1> QED BY <1>1, StreamInvariant, PTL
=============================================================================
