# Verification of the DSE Model C runtime and SimBus

This directory holds TLA+ models of `dse.modelc`, the configurations that check
them with TLC, and theorems about them whose proofs TLAPS checks. The source is
the reference: each definition that models code is listed in `PROJECT.json`
(`map`) with the file and lines it stands for.

## 1. The system

A simulation is a set of *models*, stepped together over equal intervals of
simulation time, that exchange *signals* on *channels*. The models live in ModelC
processes (one or several *stacked* models each); one SimBus process joins them.

    ModelC process (a "sim")                          SimBus process
    +------------------------------+                  +---------------------+
    | controller_run               |   toBus (Redis   | simbus_adapter_run  |
    |   controller_step            |   list, BRPOP)   |   one handler per   |
    |     ModelReady  -------------+----------------->|   message           |
    |     wait ModelStart <--------+------------------|                     |
    |     sim_step_models          | toSim[sim]       | register/ready sets |
    | signal handler: stop_request |                  | bus_time, values    |
    +------------------------------+                  +---------------------+

### Inventory

| component | source | state | operations | what makes it correct |
|---|---|---|---|---|
| SimBus adapter | `adapter/simbus/{handler,states,adapter}.c` | register and ready set of every channel, `bus_time`, `notify_push_hash`, exit flag, `val`/`final_val`/`bin` of every signal | handle ModelRegister, SignalIndex, ModelReady, ModelExit; run loop | time advances only when every expected model is ready; no cycle starts twice; it leaves after the last model |
| SimBus profiling | `adapter/simbus/profile.c` | timing sums | accumulate, print | no influence on the simulation |
| Message adapter | `adapter/{adapter,adapter_msg,message}.c` | token, times of the models, values of their signals | connect, register, ready, start, exit; `wait_message` | every link is registered and indexed before the loop; replies to others are not taken for one's own; values agree with the bus |
| Channel index | `adapter/index.c` | signals by name, by position, by uid | refresh, invalidate, look up, create | an index in use matches the signals |
| Loopback adapter | `adapter/adapter_loopb.c` | a vector per channel, cached `vector_index` | connect, register, ready, start | same exchange as over the SimBus |
| Redis transport | `adapter/transport/redis.c` | lists of messages, keys to push to | start, send, receive, interrupt | FIFO, exists before its reader |
| Redis Pub/Sub transport | `adapter/transport/redispubsub.c` | subscription, receive queue | start, send, receive, interrupt | no message lost or reordered; timeouts only when nothing came |
| Endpoint, adapter creation | `transport/endpoint.c`, `create.c` | - | select an implementation | - |
| Controller | `controller/controller.c` | stop request, simulation end time | bus_ready, run, step, stop, exit, marshal | every process comes to its end and says so |
| Model stepping | `controller/{step,model_function}.c` | values of stacked models | parallel and sequential co-simulation | sequential: a model sees what earlier ones wrote |
| ModelC set-up | `controller/{modelc,modelc_args,loader,transform}.c` | SimulationSpec | configure, assign uids, load | uids are unique |
| Model runtime | `controller/model_runtime.c` | model time and its correction | create, step, destroy | exactly the steps up to the stop time asked for, no drift |
| Model and signal API | `model/{model,signal,schema}.c` | views of channels | create, read, append, reset | views match the channel |
| NCodec, trace | `model/{ncodec,trace}.c` | streams | open, flush, truncate | frames are read once |
| Gateway | `model/gateway.c` | clock epsilon | setup, sync, exit | foreign time and bus time stay within a step |
| MCL | `model/mcl.c` | mcl time, strategy | load, init, step, marshal, unload | foreign model steps cover the interval |
| Lua models, PDU network | `model/{lua,luamodel,pdunet}.c`, `model/pdunet/*.c` | interpreter; PDU matrix, schedule | step, pack, transmit | each due PDU is sent once |
| Tools, SimMock, Go packages, simer | `tools/`, `src/dse/mocks`, `src/extra` | - | - | - |

### What is hard

* The SimBus trusts what it receives: a ModelReady is counted without asking
  whether its model is registered, ModelStart is sent to whoever registered once,
  and its only protection is the order in which messages reach its one list.
* Replies are broadcast, and processes number their requests alike. What keeps
  them apart is the model uid.
* Waiting drops what it does not wait for.
* A process can be told to stop at any instant, by a signal handler; its waits
  can time out; it can end without a ModelExit (`log_fatal`, a kill).
* Nobody detects the loss of a process; the others time out.
* Only changes of a signal are sent, so all copies have to agree for ever.
* Binary data is appended on its way and cleared where it is read: each hand-over
  can lose it or give it twice.
* Caches (an index of a channel, a slot of a vector, a flag of the event loop)
  are filled at one point and trusted at another.
* Two simulations with clocks of their own, in doubles, have to take the same steps.

`PROJECT.json` lists these hazards at the lines where they bite.

## 2. The modules

| module | models |
|---|---|
| `Topology` | processes, models, channels, the links of each process in visiting order, the expected model count of a channel |
| `RedisLists` | `redis.c` as the adapters use it: the list of the SimBus and a list per process |
| `SimBus` | `handler.c`, `states.c`: one action per message handler |
| `ModelAdapter` | `controller_bus_ready`, `controller_run`, `controller_step`, `controller_exit` over `adapter_msg.c` and `message.c` |
| `LockStep` | abstract: a barrier, how far each process was allowed to simulate |
| `CoSim` | the composition of the four, its fairness, all its properties |
| `SharedSignals` | abstract: a channel has one value per signal, processes change it in turns |
| `SignalVectors` | the signals in the hands of a model: write, append, reset, and the marshalling of `controller.c` |
| `SignalExchange` | the signals of ModelReady and ModelStart: encoding by the adapter, resolution by the SimBus |
| `LoopbackAdapter` | `adapter_loopb.c`: the same exchange inside of one process, for both ways to step it |
| `SequentialSteps` | abstract: stacked models stepped one after the other on the same values |
| `SequentialCosim` | `sim_step_models` with `sequential_cosim`, its merges, and the index of a channel they go over |
| `RedisPubSub` | `redispubsub.c`: one endpoint, its event loop and timer, and a peer that publishes |
| `SteppedTime` | time of `model_runtime_step`, `mcl_step` and `model_gw_sync`, and of the SimBus |
| `ModelCArgs` | `modelc_args.c`, `endpoint.c`: where each setting comes from, and the endpoint it selects |
| `ChannelSchema` | `schema.c`, `model.c`, `signal.c`: from the documents to the signal vectors of a model |
| `ModelContract` | abstract: what a model may rely on, creation, steps in lock-step, one destruction |
| `ModelCRun` | a ModelC process from its main to its exit, with the signal handler |
| `PduCodec` | `matrix.c`: linear transform and packing of a signal |
| `PduNetwork` | `pdunet.c`, `network.c`, `can.c`, `flexray.c`: a sender and a receiver of PDUs |
| `BinarySignal` | `signal.c`, `ncodec.c`: one binary signal and the stream of its codec |
| `BinaryStreams` | that signal between the bus and a model, or between the bus and the target of an MCL (`mcl.c`) |
| `MC...` | the small instances of these for TLC |
| `CoSim_proofs` | theorems about `CoSim`: types and the barrier; on top of them joining, leaving and waiting |
| `SignalExchange_proofs`, `LoopbackAdapter_proofs`, `BinaryStreams_proofs`, `RedisPubSub_proofs`, `SteppedTime_proofs`, `ModelCRun_proofs`, `SequentialCosim_proofs` | theorems about the module in the name |

Compositions: `CoSim` joins `SimBus` and `ModelAdapter` over `RedisLists`;
`SignalExchange` joins the models of `SignalVectors` to the value handling of
adapter and SimBus over the same `RedisLists`; `LoopbackAdapter` is a second
implementation under the same models. `ModelCRun` builds on `ChannelSchema` and
`ModelCArgs`, and takes the SimBus as an environment that starts a step or does not;
`PduNetwork` builds on `PduCodec`, `BinaryStreams` on `BinarySignal`, and both take
the transport of binary data from `SignalExchange`: what one step publishes, the next
one is given. `SignalExchange` starts where `CoSim` proves
the protocol to arrive: all registered, all signals indexed, one ModelReady per
process and cycle.

### Correspondence with the code

*Protocol.* `toBus`, `toSim[s]` are the Redis lists `dse.simbus` and
`dse.model.<uid>`; `registerSet`, `readySet` are `model_register_set` and
`model_ready_set` of a channel; `notifyUids` the keys of `notify_push_hash`;
`token[s]` the static counter of `get_token`; `at[s]`, `tries[s]` the loop
counters of `adapter_msg_connect`; `modelTime[s]`, `stopTime[s]` the times of an
`AdapterModel`, equal for the stacked models of a process since one message sets
all of them; `phase[s]` is the program counter of the process, which is sequential.
`asked[s]` is a history variable: ModelReady messages sent.

An action is what the code does between two points where another participant can
interfere: a handler of the SimBus; in a process, up to a send or a receive.
Times are counted in bus steps, -1 for the `bus_time` before the first.

Modelled outcomes of `wait_message`: the awaited message; a message that is
dropped; ETIME (only for processes in `Impatient`); a stop request. Processes in
`Stoppable` may be told to stop at any point, those in `Killable` may vanish. The
SimBus itself may be started at any time or never. Without a SignalIndex the
process ends as `log_fatal` ends it: without ModelExit. An interrupted wait for
ModelStart returns 0 (`adapter_msg.c:308-325`), so the models are stepped once more over an
empty interval; the model does that too, and the properties speak of intervals that
are not empty.

*Signals.* `scalar`, `binary`, `reset` of a link are the
`signal_value_double`, `signal_value_binary` and
`signal_value_binary_reset_called` of a `ModelFunctionChannel`; `val` (and `final`)
the `SignalValue` of the adapter, `busVal`, `busFinal`, `busBin` that of the
SimBus. A link stands for a scalar channel with a part of its signals and for the
channel of binary data that goes with it. A payload is told apart by its writer and
a number. `out`, `log` and `got` are history. The loopback adapter's `slots`,
`slotScalar`, `slotData` are its `SimbusVector`, `index` the cached `vector_index`.

*Sequential co-simulation.* One process with `Count` models, alone on its bus;
`names` and `valid` are the keys of `Channel.signal_values` and whether
`Channel.index` is current, since the merges create what they look up.

*Pub/Sub.* `slots` is `event_timeout_counter`, `expired` `timeout_condition`,
`active` `sub_active`, `queue` `recv_msg_queue`; of what the server has sent on the
subscribed connection and hiredis has not read, `subscribes` counts the replies to
SUBSCRIBE, which come first, and `wire` is the messages.

*Time.* `sum`, `correction` are `runtime.model_time` and `step_time_correction`,
their counterparts of `MclDesc`, or the `bus_time` and `bus_time_correction` of the
SimBus that a gateway steps. Doubles are modelled by what the comparisons depend
on: near a time they are multiples of `Grid` and a sum is rounded to the next one,
steps and corrections are exact in the smaller unit. The tolerance is
`step_size * 0.01` in the code; the proofs need only that it is a grid step or
more and less than a third of the step. A call may ask for any time from the
last one on.

*A process.* `phase` of `ModelCRun` is the program counter of `modelc_run` and
`controller_run`; `args` the `ModelCArguments`; `file` what the YAML files say of each
instance, as a record (an instance that the stack does not have, a library without a
path, one that does not open or lacks functions are members of `Files`); `lookup` is
`Adapter.models`, from a uid to an instance; `vectors[p]` the `ModelDesc.sv`;
`stopRequest` and `stop` are `__stop_request` and `Controller.stop_request`. `tries` and
`args` are given a fixed value after their last use, `cli`, `env`, `stack` likewise. Documents are
sequences of records with a kind, labels and signals. A uid is a natural number; the
code computes it in 32 bits from the number of the instance times 10000.

*PDU network.* `tx` holds `raw`, `payload`, `needs_tx` and `checksum` of the matrix of
the sender; a checksum is represented by the payload it was taken of, the cleared one
by an empty sequence. `phys` are the values of its signal vector. `sched` is
`PduNetworkDesc.schedule`, with the cycle of FlexRay that shifts the epoch. A Lua
function is one of four outcomes: it limits the physical value, marks the raw value,
stamps the payload, or rejects the PDU, as it likes. The FlexRay bus itself, which gives
the cycle and delivers each frame, is external. Time wraps by `HyperPeriod` once every
schedule has started (`Settled`), which no schedule can tell. The step size of the
schedule is the default of the code (`pdunet.c:64-66`). Interval and phase are divided by it in
doubles and truncated without an epsilon (`matrix.c:233`, `matrix.c:242`), so that a time in
whole steps may give a step less: the first intervals of which this is so are 0.0215 (42 steps
of 0.0005 instead of 43), 0.0255 and 0.0295. `ShortTimes` are these times, `Lost` the
step, `WholeSteps` the truncated quotient; the time of the simulation is divided with an
epsilon (`Tick`).

*Binary data.* `signal.data`, `pos`, `reset` are the buffer, the `NCodecStreamVTable`
position and `reset_called` of one signal; `bin` its `SignalValue.bin`. A codec reads
and writes whole messages, so positions count messages. `target` is the external
model of an MCL: its time, its binary input and output.

## 3. Runs

`s1`, `s2` are processes; `TwoSims` gives each one model on one channel;
`Stacked` gives `s1` two models on two channels, so that links, sets and messages
of one process differ by channel. Two processes are enough for each interference
looked for (a barrier between one that is late and one that is early, a reply to
the other, a departure of the other); two channels for a readiness that differs by
channel.

| run | question |
|---|---|
| `cosim_faults` | stop, timeout with retries, and kill in any order, stacked models on two channels: is a process in the loop registered and indexed on every link, is a ModelStart ever lost to a process that registers, is a model ever stepped outside of the cycle of the bus, is a departed model ever ready, does anyone wait for what will not come, does the SimBus leave before a model; does the protocol implement `LockStep` |
| `cosim_leave` | does every process come to its end, with a SimBus that may never start, and the SimBus after them |
| `exchange` | do bus and all models agree on each signal after each exchange, is each payload seen exactly once and in one order by all models of its channel, is the exchange `SharedSignals` |
| `loopback` | the same of the loopback adapter, for generated and direct vectors, for `controller_step` and `controller_step_phased` |
| `loopback_stale_index` | expected violation, below |
| `sequential_same` | does each stacked model see what the ones before it wrote, and the bus the last value, when all have the same signals |
| `sequential_lost` | expected violation, below |
| `pubsub_receive` | does an endpoint ever wait with a message at hand, lose one after its subscription, or never return |
| `stepped_time` | do the sums of runtime and gateway drift, do they take exactly the steps that a caller with an inexact clock asks for; is any of the three ever a step behind its caller |
| `pdu_network` | is an update ever lost when a container is full, a function rejects, or the epoch of FlexRay shifts; are priorities kept, is a periodic PDU sent at its phase and in its period (as the truncated quotients have them), whether it has changed or not, and at no other time; do values arrive within their resolution, and all of them in the end |
| `modelc_run` | is each setting taken from the right place, is each model found by its uid, has it the signals that the documents give it, does it see the life that `ModelContract` promises and the steps up to the end time, whatever fails, and does the process end |
| `binary_streams` | does a model publish only what it wrote in the step, is what it was given read once, for any calls of the signal API and its codec, and for MCL targets of any step size |

Bounds. `EndTime` of 1 or 2 steps gives two or three cycles, hence a first, a
middle and a last one; `RetryCount` of 2 gives a retry whose first attempt is
answered late (the code uses 5). Lists are finite since every process sends
finitely often. `exchange`: three values make a change, a change back and a change
to something else differ; two or three payloads make order and repetition visible;
three models on one channel, two of them in one process. `loopback`: two models,
two scalar signals and a binary one, all calls in all orders. `sequential_same`:
three models, so that one is in the middle, on two channels. `pubsub_receive`: three
slots, so that there is a first, a middle and a last; more messages than slots.
`stepped_time`: 12 steps of 20 on a grid of 3, so that 20 is no multiple of the grid
and the correction takes each of its values; a tolerance of two grid steps.
`pdu_network`: a container with room for one of two I-PDUs at a time, so that one of
them always waits; PDUs of two signals that share a byte, on change, and with functions that
reject; two periodic PDUs whose signals change, one whose interval of three steps and one whose
phase of minus three steps is a step short, with an offset of the network's epoch of a step;
the model changes one signal in a step, of one of four pairs (`Writers`). Three steps stand
for the 43 above: what counts is that the quotient falls short, and that the time after
which the PDU is sent is not the one that was configured. The packing is compared with a packing bit by bit, for
every layout in three bytes, as an assumption of `MCPduNetwork`. `modelc_run`: ten
kinds of files, one to three instances, all combinations of settings, four
attempts at an endpoint (the code makes 59), three steps. `binary_streams`: three calls
in a step (read, reset and write, or reset and two writes), three steps, targets whose steps are
half, equal to and twice those of the simulation, and targets without a step size.
`CHECK_DEADLOCK FALSE` where a simulation ends or an endpoint is done.

Every property of a passing run has a mutant in the modules: a definition with a
plausible bug, marked `Mutant`, under which TLC finds the property violated.

### Fairness

`FairSpec` of `CoSim` adds weak fairness of the SimBus's handling of a message and of
the steps of each process, i.e. the operating system runs them and BRPOP delivers what
is in a list; the timeout of a wait on an empty list is part of it where `Impatient`
says that waits do time out (they do in the code, after `recv_timeout`). Starting
the SimBus, stopping and killing are never fair: liveness does not depend on them.
`FairSpec` of `RedisPubSub` is fair to the caller of the endpoint and to the
persistent timer (`EV_PERSIST`), not to messages or signals. `Spec` of `ModelCRun` is fair to
the process, i.e. it runs and its waits time out, and not to the signal
handler. In `PduNetwork` the only fairness is that steps follow each other
(`WF_turn(Alternate)`); that a payload arrives in the end is asked only of models that
stop changing it, since I-PDUs of high priority may otherwise fill a container for ever.

### Findings

* `loopback_stale_index`: `adapter_loopb_register` generates the vectors of all
  channels again for each model, in the order of a hash map; a signal's
  `vector_index` cached at an earlier call may then name another signal's slot
  (`adapter_loopb.c:397`) when the models of a stack differ in their signals.
* `sequential_lost`: the merges of `step.c:124` look a signal up with a function that
  creates it with value 0 where a model does not have it; such a copy takes part in
  the next merge and a stale value replaces an update. It needs stacked models with
  different signals on a channel.

Observed while modelling, in the models, but without a run of their own:

* `controller_step_phased` starts with the read from the bus, so what `model_create` has
  set up is overwritten by the zeros of the vector before the first step
  (`controller.c:303`).
* `redispubsub.c:489` asks whether all slots were used, which is also so when the loop
  was left by a message in the last one: ETIME is returned with a message in the queue.
* `mcl_step` stores the correction of its summation before it finds that the step ends
  too late (`mcl.c:285`). An importer with a shorter step than the model's has steps
  rejected, and the time drifts with each of them. `model_runtime.c:200` commits the
  correction after that check, as the proofs need.
* The binary input of a rejected step of an MCL has been handed to the target and is
  replaced by the next one before the target makes a step; when a target makes several
  steps in one of the simulation, the outputs of all but the last are lost, and their
  errors dropped (the FIXME of `mcl.c:298` speaks of the outputs). What a target has in a
  binary output after its init is never published, since the signal was not reset before.
* A stop request that arrives before `controller_init` is seen only if the creation of
  the endpoint fails: `controller_stop` finds no controller, and nothing carries
  `__stop_request` over to it (`modelc.c:642`, `controller.c:360-364`).
* A uid that is generated (`modelc.c:634`) may be the one that a later instance is given:
  the second of the two replaces the first in `Adapter.models`. With uids for
  all instances or for none this does not happen (`LoadedAreFound`).
* An instance whose library has neither `model_create` nor `model_step` ends the loading
  without an error code (`loader.c:107`), and the process runs with the instances
  before it.
* The timeout of the stack replaces the one of the environment, although
  `modelc_args.c:350` gives the environment the higher priority.
* `schema_object_enumerator` ends at the first entry without a name; a signal name in two
  groups of one channel is two entries in the vector, of which the later one is found.
* A channel that the stack gives no alias has a vector without one (`signal.c:404`), and any
  look up of a signal compares the aliases of the vectors up to its own (`model.c:428`).
* A tx function that modifies the payload beyond its signals makes the PDU change again in
  the next step, because the signals are packed over the modified payload while the
  checksum is that of before (`pdunet.c:402-404`). A PDU on change is then
  transmitted in every step, against `network.c:113`, and a periodic one once more in the step
  after its schedule fired, against `network.c:109`. `PeriodicOnTime` speaks of PDUs
  without a tx function.
* An interval or a phase in whole steps can come out a step shorter, since the quotient of
  doubles is truncated (`matrix.c:233`, `matrix.c:242`): with the step size of 0.0005 a PDU with
  an interval of 0.0215 is transmitted every 0.021, and its schedule drifts away from the
  configured one by a step in each period. The time of the simulation next to it is divided
  with an epsilon (`pdunet.c:263-265`). `PeriodicOnTime` states the period that results.
* An I-PDU that its tx function rejects is taken for transmitted: its checksum was updated
  before (`network.c:563`). `NoUpdateLost` speaks of PDUs without such functions.
* A decode function in Lua cannot set the physical value: it is computed again from the raw
  value, unless that is out of the range (`matrix.c:419`, `matrix.c:435`).
* `signal_append` followed by a write of the codec loses the appended data: the codec writes
  at the position of its stream and truncates the buffer (`ncodec.c:60`).

## 4. Proofs

### The protocol

Proved by TLAPS for every topology that satisfies `TopologyAssumption` (finite set
of models, links in the right type, at least one per process), `SimsAssumption` (there
is a process), `UidAssumption` (a model uid belongs to one process), `LinksAssumption`
(a process visits each of its links once: `AdapterModel.channels` is a hash by name,
`adapter.c:49-82`) and `AdapterAssumption`:

| theorem | statement |
|---|---|
| `TypeCorrect` | `Spec => []TypeOK` |
| `BatonInvariant` | `Spec => []BatonInv` |
| `SteppingIsSafe` | `Spec => []StepsTheBusCycle` |
| `NoStartIsDropped` | `Spec => []StartFindsWaiting` |
| `ProtocolIsBarrier` | `Spec => ImplementsLockStep` |
| `ProcessesInLockStep` | `Spec => []InLockStep` of that barrier: processes are within one cycle of each other |
| `JoinInvariant` | `Spec => []JoinInv` |
| `ReadyWasRegistered` | `Spec => []ReadyIsRegistered` |
| `LoopersHaveJoined` | `Spec => []LoopHasJoined` |
| `BusOutlivesModels` | `Spec => []BusExitsLast` |
| `NoOneWaitsInVain` | `Spec => []NoMutualWait` |

The argument. None of the properties is inductive: that the SimBus may not advance
under a model follows only from where that model's next request can be. `BatonInv`
says so. *Places*: a process has executed all started cycles, or has asked for the
next one too, or has one to execute. *Requests*: an outstanding request is on the
list of the SimBus once, or in the ready sets, never both. *Grants*: a ModelStart on
a process's list is for the current cycle, and the only one. *Progress*: what the
phase of a process says about its times. When the last ModelReady is handled, each
ready set has as many members as the channel has models (`AllExpected`), and only
members, hence is equal to them, since the set of models is finite; so every
process has its request there and none is in its step. `SteppingIsSafe`,
`NoStartIsDropped` and `ProcessesInLockStep` follow from `BatonInv`; `ProtocolIsBarrier` maps
`HandleModelReady` to `StartCycle` or a stutter, `SendModelReady` to `Ask`,
`ReceiveModelStart` to `Grant`, and all other actions to stutters.

Joining and leaving. The SimBus asks nothing, so why who is ready is registered is a
matter of the order in its list. `JoinInv` is `BatonInv`'s complement: *InOrder*: ahead of
a SignalIndex on the list are the ModelRegister messages of all links that are not
registered yet, ahead of a ModelReady there are none left to handle, and no request
follows the ModelExit of its model. *Exits*: only links the process has left have a
ModelExit on the list. *Joining*: who sends a SignalIndex has sent all registrations,
acknowledged or given up; who is given a reply to it is registered everywhere. *Indexing*:
the links with uids are those before the one in hand, since only the reply with the
current token is taken and that is for this one; a reply to an earlier attempt has a
smaller token. *Staying*: a started simulation keeps every link registered until the
process leaves it. *BusKnows*: who is registered is in `notify_push_hash`, so a reply
or a ModelStart reaches it. *Waiting*: by the kind of wait, where the request or its reply
is. `LoopHasJoined` is then immediate; `BusExitsLast` is kept because the last
registered model that leaves is the last of its process (*Exits*, *Staying*); and
`NoMutualWait` needs that not all processes are in the ready sets (`NotComplete`), which the
handler that completes a set makes false and true again in one step.

### Signals

Proved for every topology (with the assumptions above) and, by `SignalsAssumption`, any
sets of signals, values and payloads:

| theorem | statement |
|---|---|
| `ExchangeInvariant` | `Spec => []ScalarInv` |
| `ExchangeTypes` | `Spec => []TypeOK` |
| `ValuesAgree` | `Spec => []Agreement` |
| `ExchangeIsShared` | `Spec => ImplementsSharedSignals` |
| `DataInvariant` | `Spec => []DataInv` |
| `OneStream` | `Spec => []SameStream` |
| `DataOnceInOrder` | `Spec => []ExactlyOnceInOrder` |

Scalars. That all copies agree although only changes are sent needs to know where every
process is with its exchange (*Turns*): it steps and nothing of it is on its way; or it
has offered, and one message of it is on the list or it is counted as ready; or one
ModelStart is on its list. *OffersStand*: a message that is on its way still says what
differs between the signals of the model and what its process was last given, since
neither changes while it waits. *GrantCompletes*: what a ModelStart says, laid over what
its receiver knows, is what the SimBus knows. *FinalIsOffered*: the value to be resolved is
the old one if no ready process changed it (`ChangedBy`), and else one of those it was
changed to. The resolution then sends to each process what changed for anybody, which
makes all copies equal; in `SharedSignals`, `StepModel` is a write of the model or a
stutter, `SendModelReady` an offer, the last `HandleModelReady` the exchange and those
before it stutters, and `ReceiveModelStart` takes what was exchanged.

Binary data. `DataInv` says where a payload can be: in its model, in a message (new to the
stream and to each other message, *QueuedIsNew*), in the `bin` of the SimBus, in the stream
that was resolved. Numbers in the stream grow by writer and are at most those the writer has
counted (*StreamOrdered*, *StreamCounted*), those a model holds are greater
(*WrittenIsNew*), and nothing stays in a model that was sent (*SentIsGone*). What a process
was given, and what is on its way to it, is the stream (*GivenStream*). A message appends to
the SimBus what its vectors hold for the channel, one after the other: that the elements of
such a concatenation are those of its parts, in their order, for any number of vectors, is
`FlattenSteps` and `FlattenElements`, by induction on positions in first-order form.

### Loopback

Proved for one process with any models, channels, signals and payloads, for vectors that
are generated or given (`direct_index`), for `controller_step` and `controller_step_phased`,
and for any order in which the hash map lists the models. The condition is `SlotsStay` of
`LoopbackAdapter_proofs`: the slots are given, or the models that share a channel have the
same signals of it. Without it the theorems are false, which is what `loopback_stale_index`
shows.

| theorem | statement |
|---|---|
| `LoopbackInvariant` | `SlotsStay` implies `Spec => []LoopbackInv` |
| `CachedIndexStays` | `SlotsStay` implies `Spec => []CachedIndexIsLookup` |
| `StreamsAreComplete` | `SlotsStay` implies `Spec => []StreamsComplete` |
| `LoopbackIsShared` | `SlotsStay` and `CreateValues = {0}` imply `Spec => ImplementsSharedSignals` |

The second condition of `LoopbackIsShared` is that `model_create` leaves the signals at 0:
what it writes is overwritten before the first step (`controller.c:303`), so what the models
share starts at 0 whatever they had set up.

The argument. *Slots* (`SlotInv`): a vector has each name once, and the slot cached for a
signal of a registered model is the slot of its name. A model that registers generates the
vectors again; with `SlotsStay` the names of a channel that another model has already do not
change, so neither do the slots. *Scalars* (`ScalarInv`): except between publication and start,
the value last given to a signal is that of its slot, so all models of a channel agree.
Publication goes over the links in some order, as a recursive function; what it leaves in a
slot is described without it: the value of the last link of those visited that changed the
signal, or else what was there (`Reached`, `PublishedValues`, by induction on positions).
*Data* (`DataInv`): a payload is in its model, in `bin` of its link, in the one slot of the
channel, or was given to all; the slot collects what the links append, each distinct and new
(`Collected`, `PublishedPayloads`), and the start gives the same to each. In the refinement of
`SharedSignals` the slots are the shared values; `Register`, the first `Start` and a step
without a change are stutters, `StepModel` is a write, `Marshal` the offer of all models,
`Ready` the exchange, `Start` takes what was exchanged.

### Binary signals of a model

Proved for any calls of a model, any number of steps and calls in one, and targets of any
step size (`StreamAssumption`: the step size of the simulation is above 0):

| theorem | statement |
|---|---|
| `StreamInvariant` | `Spec => []StreamInv` |
| `WritesArePublished` | `Spec => []PublishesWrites` |
| `ReadOnce` | `Spec => []GivenIsReadOnce` |

The argument goes around the turns of a step. Between the two marshals of the controller the
signal is empty (*Emptied*), after them it is what the bus gave, not reset, and nothing was
called (*Handed*). What it holds after a reset is a part, without repetitions, of what was
written since the controller had it (*AfterReset*; the numbers of the messages make a new one
different, *Numbered*); all of it, with the position at its end for a codec, while the calls
keep to read, reset, write (*Orderly*). As long as a model only reads, the position of the
stream is 0 before the first call and the end after it, which is why a second read gives
nothing (*Reading*). A target writes only its output, once (*TargetWrites*). Whether a target
as slow as the simulation has seen what was given is a matter of its time: it is a step
behind until it has, unless there was nothing to see, which is the case of an exchange
that a stop request interrupts (*TargetSeen*). After a marshal to the target that fails
(`mcl.c:445-446`: no reset and no step follow) its time is behind for good, and it sees the next
input in two steps, so `GivenIsReadOnce` speaks of a target up to then (`missed`); that only
what was written is published holds after it too, and after a marshal from the target that
fails (`mcl.c:363-364`).

### Sequential co-simulation

Proved for any number of stacked models, channels, signals and values, under the condition
`SharedAlike` of `SequentialCosim_proofs`: two models that both have a channel have the same
signals of it. Without it the theorems are false, which is what `sequential_lost` shows; the
code neither checks nor documents it. Models may have different channels, which is the case
that the comments of the merges speak of (`step.c:189-191`).

| theorem | statement |
|---|---|
| `SequentialInvariant` | `Spec => []SequentialInv` |
| `BusGetsLastValue` | `Spec => []BusHasLastValue` |
| `LastUpdateStays` | `Spec => LastUpdateIsFinal` |
| `StepsAreSequential` | `Spec => ImplementsSequentialSteps` |

Under the condition a look up of a merge finds its signal, so it creates nothing and no index
is invalidated (`LookUpChangesNothing`). A merge over all models is then described by the last
source that has the channel, or else leaves what was there: `LastOf`, which is carried from
source to source (`LastOfStep`), by induction on positions in first-order form (`Upward`).
For the merge forward this says that a model is stepped with the value of the last model
before it that has the signal (`SeenIsCurrent`); if there is none, it is the first that has
the channel, and its `val` was never merged into (*FirstHasBus*). The merge backward visits
the targets from the first to the last: those already visited hold the value of the last
model that has the channel, the others their own, and either is what the next target needs
(`AllOfLast`, `AllOfLastStep`). When the exchange comes, all models agree, so it does not
matter whose value the SimBus takes; if no model sends, the first one that has the signal
has `val` equal to the value of the bus and to its `final_val`, so the bus has the last value
already (`BusTakesLast`). In `SequentialSteps` the merge backward is a stutter.

### Pub/Sub

Proved for any `recv_timeout`, number of keys and of messages:

| theorem | statement |
|---|---|
| `ReceiveInvariant` | `Spec => []ReceiveInv` |
| `NoWaitWithMessage` | `Spec => []NeverWaitsWithMessage` |
| `NoneIsLost` | `Spec => []NoneLostOnceSubscribed` |

`NeverWaitsWithMessage` is not inductive: the loop is entered again when the flag of the
timer is set, so one has to know that it is set only by a slot in which no message came, and
is cleared before one can (`FlagOfEmptySlot`). That no message is lost is that those
given, queued and on the connection are consecutive, up to the last that was published
(`Consecutive`); a callback moves the first of the connection to the end of the queue.

### Time

Proved for every step size, odd grid and tolerance that satisfy `TimeAssumption`.
`CompensatedTime` and `StepsAsAsked` speak of runtime and gateway (of MCL they are
false, see above), `WithinAStep` of all three:

| theorem | statement |
|---|---|
| `SumIsCompensated` | `Spec => []CompensatedTime` |
| `StepsAreAsAsked` | `Spec => []StepsAsAsked` |
| `CallerIsNear` | `Spec => []WithinAStep` |

The invariant `TimeInv` says that the sum less its correction is exactly the number
of steps times their size (`SumInv`: `RoundIsNear` bounds the correction by half a
grid step, whatever was rounded before), and that a loop is left only with the time
asked for reached or the next step out of reach. That exactly `k` steps were taken
then follows by comparing `steps * StepSize` with `k * StepSize` (`FewerSteps`):
they are less than one step apart, since three tolerances are less than a step.

### A process's life

Proved for everything that satisfies `RunAssumption`: any set of files of at most
`MaxInstances` instances, any arguments, uids and return codes, a step size above 0, an
end time and a number of attempts to connect; and `LayerAssumption`: the arguments are a
struct (`ModelCArguments`), and the transport that the stack stands for is one of its
connections, if it has any (`modelc_args.c:175-189` takes the first). `FilesAssumption` says
that channels, documents and signals are lists.

| theorem | statement |
|---|---|
| `RunTypeCorrect` | `Spec => []TypeOK` |
| `EndIsReached` | `Spec => []StepsToEnd` |
| `ContractIsKept` | `Spec => ImplementsContract` |
| `SettingsHavePriority` | `Spec => []SettingsByPriority` |
| `ModelsAreFound` | `Spec => []LoadedAreFound` |
| `ChannelsAsDocumented` | `NamesAreClear` of all instances implies `Spec => []SignalsAsDocumented` |

The invariant `IInv` has four parts beside the type and `StepsToEnd`. `Place`: outside of
the loops over the instances the first one is in hand. `Lives`: which models there are, by
phase; while they load those before the one in hand, while they are destroyed none of those
before it. `Rounds`: the models that are there have made equally many steps, those
before the one in hand one more while a round is made; this is also why `ModelContract`
may say that no model is two steps ahead of another. `Clock`: the time of the
SimBus is that of the steps made, unless a stop was requested, and it passes the end time in
the last round only. When that round ends, the last time before it is not past the
end and the new one is, whence `steps = EndTime \div StepSize + 1` (`StepsPast`). A
stop request is the case to be careful about: an interrupted wait makes a step at the
old time, so from then on steps and time differ, but then the time does not pass the end
either. Return codes do not occur in the invariant because `DoStep` drops them, and
the rest of what an action does (uids, vectors, lookup) is abstracted by `LoadOutcome` and
`StepModelFacts`. `LoadModel` maps to `Create` or a stutter, `StepModel` to `Step`,
`DestroyModel` to `Destroy` or a stutter, everything else to stutters.

Settings are resolved in one step, so `SettingsByPriority` is about the operators: what each
layer leaves of a record of settings (`FromCliFields`, `StackEnvironmentFields`,
`EnvironmentFields`, `ConnectionFields`), put together in `ResolvedSettings`. The log level of
the stack is looked for before the environment, yet gives way to it, since the environment
starts over from the command line (`ElseElse`). `LoadedAreFound` rests on `UidInv`: the uids
are as given until `AssignUids`, from then on they differ, if they were given to none or to
each (`AssignDistinct`: those that are generated are 10000 apart), so what `LoadModel` puts
into the index does not replace an instance that is there.

`ChannelsAsDocumented` needs that it is clear which channel is meant (`NamesAreClear`): the
channels of the stack have a name and an alias which are not those of another one, since
`dse_yaml_find_node_in_seq` takes the first that it finds and `__model_index__` the first
vector of an alias, and compares an alias without a test for NULL (`model.c:428`); and the model
definition has for a channel of the stack not two with different selectors, of which
`schema_build_channel_selector` takes the first. The code checks none of this; all files of
`MCModelCRun` satisfy it. `VectorInv` says that a model which is there has the vectors it was
created with, and that none of its channels failed. What these are is a matter of the
operators: the channel of the stack that a wanted name means (`SpecOfWanted`), the labels of
its selector (`SelectorLabels`), the names of a group up to the first entry without one
(`EnumeratedPart`, `GroupNames`), and the list that is put together from the groups
(`LoadedSignals`, with the elements of a `FlattenSeq` by induction on positions). Whichever of
the channels that a model asks for is configured under a name, it is the same one of the stack
(`VectorsAreThoseOfChannels`), and no other vector has its alias (`CreatedAsDocumented`).

### Model-checked only

The properties of PDUs (`NoUpdateLost`, `WithinResolution`, `PriorityKept`,
`PeriodicOnTime`): that a payload which is packed again does not change, and that a container
is read as it was written, is arithmetic on fields of bytes with powers of two, of which the
provers know nothing when the exponent is not a number (not even `2^n \in Nat`);
`PeriodicOnTime` needs the former too. And liveness (`AllLeave`,
`BusFollows`, `ReceiveReturns`, `AllDelivered`, `Ends`), which is out of the prover's reach.

## 5. Not modelled

Strings, FlatBuffers and MsgPack encoding, sockets, dlopen and YAML as such (the
models start from what the documents say), external codecs, their traces
(`trace.c`) and timing statistics (`profile.c`). Failure of Redis itself once it is connected.
`signal_transform` (values are exchanged as they are). Hash collisions of signal uids.

*Lua models* (`lua.c`, `luamodel.c`): bindings to an interpreter, whose behaviour is
that of the script. *SimMock*, *mstep*: harnesses that step a model without a bus.
*Go packages and simer*: a port of gateway and connection, and a launcher of
processes; neither takes a decision in the protocol that the C side does not.
*Annotations* and options that only help development. *PDU network*: its YAML, the
configuration of a FlexRay controller and its states, containers with a static layout
(their receiver finds no I-PDU in them, `network.c:636-658`).

In `ModelCRun`: signals after the handler's process has left `modelc_run`; a SimBus
in any detail, for which see `CoSim`. In `SteppedTime`: an error of `modelc_sync`, a
library without a step size (it is in `BinaryStreams`), and the time of the loopback adapter,
which is a plain sum (`adapter_loopb.c:507`). In `LoopbackAdapter`: calls past the
end time, after which `controller_step_phased` returns without an exchange, and a direct index
that is not complete. `Init` takes it to list every signal of each channel; the look up of a
name that it leaves out is skipped (`adapter_loopb.c:415`), as in `Register`, and the signal is
then left at the first slot of its channel; a channel that it leaves out ends the process
(`adapter_loopb.c:404-407`). In `PduNetwork`: a simulation whose step size is not that of the
schedule, of which `PeriodicOnTime` says nothing (with smaller steps a schedule fires
several times in one of its own steps, with larger ones it can be passed over). In `CoSim`
duplicate model uids are excluded by assumption; `LoadedAreFound` says when `modelc_run`
establishes it for one process, between processes nothing does.

## 6. Plan

Next, in this order:

1. `PduNetwork`: `NoUpdateLost`, with the encoding of a signal taken as a constant operator.
2. Channel index by uid; the Go port of adapter and gateway against the same `LockStep`.
