--------------------------- MODULE BinaryStreams ---------------------------
(***************************************************************************)
(* A binary signal between the bus and a model, over the steps of a        *)
(* ModelC process: the controller hands it over in both directions         *)
(* (controller.c), the stream of its codec is set to the start before each *)
(* step (step.c), and the model is one of                                  *)
(*   "api"    a model that calls the signal API and its codec in any order *)
(*   "mcl"    the target of an MCL, which mcl.c steps and marshals         *)
(* The bus is an environment.  It may return what the model published, and *)
(* adds messages of others; SignalExchange has that part in detail.        *)
(*                                                                         *)
(* Times are whole, for rounding see SteppedTime.  The target of an MCL,   *)
(* and the maps between its variables and the signal, are external: an     *)
(* output is taken to be marshalled once.                                  *)
(***************************************************************************)
EXTENDS BinarySignal

CONSTANTS
  StepSize,          \* of the simulation
  TargetSizes,       \* step sizes of a target, 0 for none
  MaxSteps,          \* bound: steps of the simulation
  MaxCalls           \* bound: calls of a model in a step

ASSUME StreamAssumption ==
  /\ StepSize \in Nat \ {0}
  /\ TargetSizes \subseteq Nat
  /\ MaxSteps \in Nat /\ MaxCalls \in Nat

VARIABLES
  kind, size,        \* of the model, and step size of the target
  turn,              \* who is next
  step,              \* steps begun
  time,              \* stop time of the AdapterModel
  bin,               \* SignalValue.bin of the adapter
  signal,            \* the signal of the model, see BinarySignal
  target,            \* time of the MclDesc, input and output of the target
  calls,             \* history: calls of the model since the controller had the signal
  written,           \* history: what the model has written in that time
  given, taken,      \* history: what the bus gave for this step, what was read of it
  seen, all,         \* history: what the target saw in all steps, what it was given
  missed,            \* history: a marshal to the target has failed
  count              \* messages made

modelHistory == <<calls, written, given, taken>>
history == <<modelHistory, seen, all, missed>>
vars == <<kind, size, turn, step, time, bin, signal, target, history, count>>

\* model_create may use the signal; mcl_builtin_model_create marshals in what
\* the target has after its init, and goes on if this fails.
Init ==
  /\ kind \in {"api", "mcl"}
  /\ size \in IF kind = "mcl" THEN TargetSizes ELSE {0}
  /\ turn = "model"
  /\ step = 0
  /\ time = 0
  /\ bin = << >>
  /\ target = [ time |-> 0, input |-> << >>, output |-> IF kind = "mcl" THEN << <<"init", 0>> >> ELSE << >> ]
  /\ signal \in { [ data |-> d, pos |-> 0, reset |-> FALSE ] : d \in { target.output, << >> } }
  /\ calls = << >> /\ written = << >> /\ given = << >> /\ taken = << >>
  /\ seen = << >> /\ all = << >> /\ missed = FALSE
  /\ count = 0

Becomes(t) == turn' = t
Fresh == <<"own", count>>

-----------------------------------------------------------------------------
\* The calls of a model.

Call(name) ==
  /\ turn = "model" /\ kind = "api"
  /\ Len(calls) < MaxCalls
  /\ calls' = calls \o << name >>
  /\ UNCHANGED <<kind, size, turn, step, time, bin, target, given, seen, all, missed>>

Writes(name, operation(_, _)) ==
  /\ Call(name)
  /\ signal' = operation(signal, << Fresh >>)
  /\ written' = written \o << Fresh >>
  /\ count' = count + 1
  /\ UNCHANGED taken

\* signal_append, and ncodec_write with a flush.
CallAppend == Writes("append", Appended)
CallWrite  == Writes("write", Write)

\* signal_reset, signal_release, and ncodec_truncate or NCODEC_SEEK_RESET.
CallReset ==
  /\ Call("reset")
  /\ signal' \in { Reset(signal), SeekReset(signal) }
  /\ UNCHANGED <<written, taken, count>>

\* ncodec_read, which may leave the position as it is.
CallRead == \E update \in BOOLEAN :
  /\ Call(IF update THEN "read" ELSE "peek")
  /\ signal' = Read(signal, update)
  /\ taken' = taken \o Rest(signal)
  /\ UNCHANGED <<written, count>>

CallSeek ==
  /\ Call("seek")
  /\ signal' \in { SeekSet(signal, 0), SeekCur(signal, 1), SeekEnd(signal) }
  /\ UNCHANGED <<written, taken, count>>

StepReturns ==
  /\ turn = "model" /\ (kind = "api" \/ step = 0)
  /\ Becomes("out")
  /\ UNCHANGED <<kind, size, step, time, bin, signal, target, history, count>>

-----------------------------------------------------------------------------
\* mcl_builtin_model_step: to the variables of the target.
MclMarshalOut ==
  /\ turn = "model" /\ kind = "mcl" /\ step > 0
  /\ target' = [target EXCEPT !.input = signal.data]
  /\ Becomes("reset")
  /\ UNCHANGED <<kind, size, step, time, bin, signal, history, count>>

\* vtable.marshal_out fails, with the input handed over or not: the signal is
\* not reset, and no step made.
MclMarshalOutFails ==
  /\ turn = "model" /\ kind = "mcl" /\ step > 0
  /\ target' \in { target, [target EXCEPT !.input = signal.data] }
  /\ missed' = TRUE
  /\ Becomes("out")
  /\ UNCHANGED <<kind, size, step, time, bin, signal, modelHistory, seen, all, count>>

\* mcl_step resets the signal before it looks at the times.
MclReset ==
  /\ turn = "reset"
  /\ signal' = Reset(signal)
  /\ Becomes("step")
  /\ UNCHANGED <<kind, size, step, time, bin, target, history, count>>

TargetStop == IF size = 0 THEN time ELSE target.time + size

\* There is no time left: the outputs are not marshalled.
MclPast ==
  /\ turn = "step"
  /\ target.time >= time
  /\ Becomes("out")
  /\ UNCHANGED <<kind, size, step, time, bin, signal, target, history, count>>

\* The step would go past the time of the simulation: none is made.
MclNoStep ==
  /\ turn = "step"
  /\ target.time < time /\ TargetStop > time
  /\ Becomes("in")
  /\ UNCHANGED <<kind, size, step, time, bin, signal, target, history, count>>

\* A step of the target, on the input it has and with a new output.  An error is
\* dropped when it is not in the last step, and otherwise leaves the output.
MclStep ==
  /\ turn = "step"
  /\ target.time < time /\ TargetStop <= time
  /\ target' = [target EXCEPT !.time = TargetStop, !.output = << Fresh >>]
  /\ seen' = seen \o target.input
  /\ count' = count + 1
  /\ IF TargetStop < time THEN Becomes("step") ELSE turn' \in {"in", "out"}
  /\ UNCHANGED <<kind, size, step, time, bin, signal, modelHistory, all, missed>>

\* mcl_marshal_in: from the variables of the target.
MclMarshalIn ==
  /\ turn = "in"
  /\ signal' = Appended(signal, target.output)
  /\ target' = [target EXCEPT !.output = << >>]
  /\ written' = written \o target.output
  /\ Becomes("out")
  /\ UNCHANGED <<kind, size, step, time, bin, calls, given, taken, seen, all, missed,
                 count>>

\* vtable.marshal_in fails: the signal stays empty.
MclMarshalInFails ==
  /\ turn = "in"
  /\ Becomes("out")
  /\ UNCHANGED <<kind, size, step, time, bin, signal, target, history, count>>

-----------------------------------------------------------------------------
\* __marshal__model2adapter: the size of a signal that was not reset is forced
\* to 0, so that what the bus gave is not echoed.
MarshalOut ==
  /\ turn = "out" /\ step < MaxSteps
  /\ bin' = IF signal.reset THEN bin \o signal.data ELSE bin
  /\ signal' = [signal EXCEPT !.data = << >>]
  /\ Becomes("bus")
  /\ UNCHANGED <<kind, size, step, time, target, history, count>>

\* adapter_ready sends and takes away what was published; the bus gives it to
\* all, with the messages of others before or after it.
Exchange ==
  /\ turn = "bus"
  /\ \E others \in { << >>, << <<"other", count>> >> } :
       bin' \in { others \o bin, bin \o others }
  /\ count' = count + 1
  /\ time' = time + StepSize
  /\ Becomes("marshal")
  /\ UNCHANGED <<kind, size, step, signal, target, history>>

\* A stop request ends the wait for the bus.
ExchangeInterrupted ==
  /\ turn = "bus"
  /\ bin' = << >>
  /\ Becomes("marshal")
  /\ UNCHANGED <<kind, size, step, time, signal, target, history, count>>

\* Mutant: the flag is kept from the step before.
MarshalInKeepsReset ==
  /\ turn = "marshal"
  /\ signal' = [signal EXCEPT !.data = @ \o bin]
  /\ bin' = << >>
  /\ given' = bin /\ all' = all \o bin
  /\ calls' = << >> /\ written' = << >> /\ taken' = << >>
  /\ Becomes("begin")
  /\ UNCHANGED <<kind, size, step, time, target, seen, missed, count>>

\* __marshal__adapter2model.
MarshalIn ==
  /\ turn = "marshal"
  /\ signal' = [signal EXCEPT !.data = @ \o bin, !.reset = FALSE]
  /\ bin' = << >>
  /\ given' = bin /\ all' = all \o bin
  /\ calls' = << >> /\ written' = << >> /\ taken' = << >>
  /\ Becomes("begin")
  /\ UNCHANGED <<kind, size, step, time, target, seen, missed, count>>

\* Mutant: the stream stays where the last step left it.
DoStepKeepsPosition ==
  /\ turn = "begin"
  /\ step' = step + 1
  /\ Becomes("model")
  /\ UNCHANGED <<kind, size, time, bin, signal, target, history, count>>

\* _do_step_func.
DoStep ==
  /\ turn = "begin"
  /\ signal' = SeekSet(signal, 0)
  /\ step' = step + 1
  /\ Becomes("model")
  /\ UNCHANGED <<kind, size, time, bin, target, history, count>>

Next ==
  \/ CallAppend \/ CallWrite \/ CallReset \/ CallRead \/ CallSeek \/ StepReturns
  \/ MclMarshalOut \/ MclMarshalOutFails \/ MclReset
  \/ MclPast \/ MclNoStep \/ MclStep \/ MclMarshalIn \/ MclMarshalInFails
  \/ MarshalOut \/ Exchange \/ ExchangeInterrupted \/ MarshalIn \/ DoStep

Spec == Init /\ [][Next]_vars

-----------------------------------------------------------------------------
\* The calls of a step in the order of read, reset, write ("Expected operation
\* is: read, reset, write (append)", controller.c), by one of the two ways.
Expected == \E r \in DOMAIN calls :
  /\ calls[r] = "reset"
  /\ \A i \in 1..r - 1 : calls[i] \in {"read", "peek", "reset"}
  /\ \E way \in {"append", "write"} : \A i \in r + 1..Len(calls) : calls[i] = way

\* What a model publishes are messages that it wrote in this step, whatever it
\* calls: nothing is echoed or published again.  It publishes them all and in
\* their order when it keeps to the expected operation, and none when it does
\* not reset.
PublishesWrites ==
  turn = "bus" =>
    /\ \A i \in DOMAIN bin : bin[i] \in { written[j] : j \in DOMAIN written }
    /\ \A i, j \in DOMAIN bin : bin[i] = bin[j] => i = j
    /\ Expected \/ (kind = "mcl" /\ step > 0) => bin = written
    /\ kind = "api" /\ (\A i \in DOMAIN calls : calls[i] # "reset") => bin = << >>

\* Each message that the bus gives is read once by a model that reads first,
\* and seen in one step by the target of an MCL, if it makes a step for each
\* of the simulation, and no marshal to it has failed.
GivenIsReadOnce ==
  /\ step > 0 /\ calls # << >> /\ (\A i \in DOMAIN calls : calls[i] = "read") => taken = given
  /\ kind = "mcl" /\ size \in {0, StepSize} /\ turn = "out" /\ ~missed => seen = all
=============================================================================
