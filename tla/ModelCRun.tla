----------------------------- MODULE ModelCRun -----------------------------
(***************************************************************************)
(* A ModelC process from main to exit (tools/modelc/modelc.c, controller/  *)
(* modelc.c, controller.c, loader.c, step.c), with the signal handler that *)
(* may interrupt it.  The SimBus is an environment: it starts a step, or   *)
(* does not; ModelAdapter and SimBus have that part in detail.             *)
(*                                                                         *)
(*   parse, configure, endpoint, uids, init, load   modelc_run until the   *)
(*     models are there, one instance at a time in load                    *)
(*   connect, register    controller_bus_ready                             *)
(*   run, ready, step     controller_run, one instance at a time in step   *)
(*   exit                 modelc_exit, one instance at a time              *)
(*   done, dead           main returned; log_fatal ended the process       *)
(*                                                                         *)
(* What the YAML files say of an instance is a record                      *)
(*   uid            0 for none                                             *)
(*   inStack        the stack has an instance of that name                 *)
(*   mcl            Unset, "lua", or a runtime that is not known           *)
(*   definition     Unset, or the Model document: gateway (BOOLEAN),       *)
(*                  channels, dynlib: Unset, "nopath", "broken" or "opens" *)
(*                  and symbols, the functions that the library has        *)
(*   channels       those of the stack                                     *)
(*   documents      all documents, for the SignalGroups                    *)
(***************************************************************************)
EXTENDS ChannelSchema

CONSTANTS
  Cli, Env, Stack,     \* what each layer may say, sets of records
  Files,               \* what the YAML files may say, sequences of instances
  MaxInstances,        \* bound: instances of a process
  SimUids,             \* the values of --uid, 0 for none
  ClientId,            \* CLIENT ID of the Redis connection
  RetryCount,          \* retry_count of _create_endpoint
  StepSize, EndTime,   \* of the simulation
  ReturnCodes          \* what the step function of a model may return

ASSUME RunAssumption ==
  /\ MaxInstances \in Nat \ {0}
  /\ \A f \in Files : /\ Len(f) \in 1..MaxInstances
                       /\ \A p \in 1..Len(f) : f[p].uid \in Nat
  /\ SimUids \subseteq Nat
  /\ ClientId \in Nat
  /\ RetryCount \in Nat \ {0}
  /\ StepSize \in Nat \ {0}
  /\ EndTime \in Nat
  /\ 0 \in ReturnCodes /\ ReturnCodes \subseteq Int

\* The arguments are a struct; the transport of the stack is an entry of its
\* connections, if it has any.
ASSUME LayerAssumption ==
  /\ \A c \in Cli : c = [ transport |-> c.transport, uri |-> c.uri,
                         loglevel |-> c.loglevel, timeout |-> c.timeout ]
  /\ \A s \in Stack : /\ Unset \notin DOMAIN s.entries
                      /\ IF s.transport = Unset THEN DOMAIN s.entries = {}
                                               ELSE s.transport \in DOMAIN s.entries

\* Lists of channels, documents and signals; a channel is a node.
IsList(s) == s \in Seq(ToSet(s))

ASSUME FilesAssumption ==
  \A f \in Files : \A p \in 1..Len(f) :
    /\ IsList(f[p].channels) /\ Unset \notin ToSet(f[p].channels)
    /\ f[p].definition # Unset => /\ IsList(f[p].definition.channels)
                                  /\ Unset \notin ToSet(f[p].definition.channels)
    /\ IsList(f[p].documents)
    /\ \A doc \in ToSet(f[p].documents) : IsList(doc.signals)

Places == 1..MaxInstances

VARIABLES
  phase,
  cli, env, stack,     \* the layers of the arguments, until they are resolved
  args,                \* ModelCArguments
  file,                \* what the YAML files say, empty until they are used
  simUid,              \* SimulationSpec.uid
  uid,                 \* uid[p] of ModelInstanceSpec
  tries,               \* retry_count, while it is in use
  kind,                \* EndpointKind of the endpoint, "none" before
  stopRequest,         \* __stop_request
  stop,                \* stop_request of the Controller
  at,                  \* the instance in hand
  lookup,              \* Adapter.models: the instance of a uid
  vectors,             \* vectors[p]: ModelDesc.sv
  life, steps,         \* see ModelContract
  modelTime, stopTime, \* of the AdapterModels
  left                 \* history: why controller_run left its loop

setupVars == <<cli, env, stack, args, file, simUid, uid, tries, kind>>
modelVars == <<lookup, vectors, life, steps>>
timeVars  == <<modelTime, stopTime, left>>
vars == <<phase, at, stopRequest, stop, setupVars, modelVars, timeVars>>

Init ==
  /\ phase = "parse"
  /\ cli \in Cli /\ env \in Env /\ stack \in Stack
  /\ args = DefaultArgs
  /\ file = << >>
  /\ simUid \in SimUids
  /\ uid = [p \in Places |-> 0]
  /\ tries = RetryCount
  /\ kind = "none"
  /\ stopRequest = FALSE
  /\ stop = FALSE
  /\ at = 1
  /\ lookup = << >>
  /\ vectors = [p \in Places |-> << >>]
  /\ life = [p \in Places |-> "none"]
  /\ steps = [p \in Places |-> 0]
  /\ modelTime = 0
  /\ stopTime = 0
  /\ left = "no"

Becomes(p) == phase' = p
N == Len(file)

\* Mutant: also the terminating entry of the list is visited.
NextInstancePastEnd(next) ==
  IF at <= N THEN Becomes(phase) /\ at' = at + 1
  ELSE Becomes(next) /\ at' = 1

\* The next instance, or after the last one the next phase.
NextInstance(next) ==
  IF at < N THEN Becomes(phase) /\ at' = at + 1
  ELSE Becomes(next) /\ at' = 1

-----------------------------------------------------------------------------
\* modelc_configure_model.  An instance that is not in the stack, or whose
\* MCL or model is not known, is left without a runtime; its error is dropped.
Runtime(spec) ==
  CASE ~spec.inStack -> "none"
    [] spec.inStack /\ spec.mcl # Unset ->
         IF spec.mcl = "lua" THEN "mcl" ELSE "none"
    [] OTHER ->
         IF spec.definition = Unset THEN "none"
         ELSE IF spec.definition.dynlib # Unset THEN "dynlib"
         ELSE IF spec.definition.gateway THEN "gateway" ELSE "none"

ConfiguredUid(spec) == IF spec.inStack THEN spec.uid ELSE 0

\* log_fatal of modelc_configure_model.
NoPath(spec) == Runtime(spec) = "dynlib" /\ spec.definition.dynlib = "nopath"

ParseArguments ==
  /\ phase = "parse"
  /\ args' = Resolved(cli, env, stack)
  /\ Becomes("configure")
  /\ UNCHANGED <<cli, env, stack, file, simUid, uid, tries, kind, at, stopRequest, stop,
                 modelVars, timeVars>>

\* modelc_configure.  The layers are not looked at again, and of the arguments
\* only the transport and its uri have an effect from here on.
Configure ==
  /\ phase = "configure"
  /\ cli' = Unset /\ env' = Unset /\ stack' = Unset
  /\ args' = [DefaultArgs EXCEPT !.transport = args.transport, !.uri = args.uri]
  /\ file' \in Files
  /\ uid' = [p \in Places |-> IF p <= Len(file') THEN ConfiguredUid(file'[p]) ELSE 0]
  /\ Becomes(IF StepSize > EndTime \/ \E p \in DOMAIN file' : NoPath(file'[p])
             THEN "dead" ELSE "endpoint")
  /\ UNCHANGED <<simUid, tries, kind, at, stopRequest, stop, modelVars, timeVars>>

-----------------------------------------------------------------------------
\* redis_connect, redispubsub_connect: there may be no server, or it goes away
\* before INFO or CLIENT ID are answered.
Created(connecting) ==
  CASE connecting = "message"  -> {"none", "message"}
    [] connecting = "loopback" -> {"loopback"}
    [] OTHER                   -> {"none"}

\* The uid of an endpoint is the one that was given, or CLIENT ID.
EndpointUid(created) ==
  IF simUid # 0 THEN simUid ELSE IF created = "message" THEN ClientId ELSE 0

\* Mutant: the loop counts only the attempts that succeed.
CreateEndpointForever ==
  /\ phase = "endpoint"
  /\ \E created \in Created(EndpointKind(args.transport, args.uri)) :
       IF created # "none"
       THEN /\ Becomes("uids")
            /\ kind' = created
            /\ simUid' = EndpointUid(created)
            /\ args' = DefaultArgs /\ tries' = 0
       ELSE /\ Becomes(IF stopRequest THEN "dead" ELSE "endpoint")
            /\ UNCHANGED <<tries, args, kind, simUid>>
  /\ UNCHANGED <<cli, env, stack, file, uid, at, stopRequest, stop, modelVars, timeVars>>

\* _create_endpoint and the uid of the simulation.  An attempt is made for each
\* value of the counter above 0, which is decremented first; a stop request is
\* noticed after a failed attempt.  modelc_run ends without an endpoint.
CreateEndpoint ==
  /\ phase = "endpoint"
  /\ \E created \in IF tries = 1 THEN {"none"}
                    ELSE Created(EndpointKind(args.transport, args.uri)) :
       IF created # "none"
       THEN /\ Becomes("uids")
            /\ kind' = created
            /\ simUid' = EndpointUid(created)
            /\ args' = DefaultArgs /\ tries' = 0
       ELSE /\ Becomes(IF tries = 1 \/ stopRequest THEN "dead" ELSE "endpoint")
            /\ tries' = tries - 1
            /\ UNCHANGED <<args, kind, simUid>>
  /\ UNCHANGED <<cli, env, stack, file, uid, at, stopRequest, stop, modelVars, timeVars>>

\* Mutant: the counter of instances is not incremented.
AssignOneUid ==
  /\ phase = "uids"
  /\ LET given == { p \in 1..N : uid[p] # 0 }
         base  == IF given = {} THEN simUid ELSE uid[Min(given)]
     IN /\ simUid' = base
        /\ uid' = [p \in Places |-> IF p <= N /\ uid[p] = 0 THEN base ELSE uid[p]]
  /\ Becomes("init")
  /\ UNCHANGED <<cli, env, stack, args, file, tries, kind, at, stopRequest, stop,
                 modelVars, timeVars>>

\* modelc_run: the uid of the simulation is that of the first instance that
\* has one, and counts on from there for those that have none.
AssignUids ==
  /\ phase = "uids"
  /\ LET given == { p \in 1..N : uid[p] # 0 }
         base  == IF given = {} THEN simUid ELSE uid[Min(given)]
     IN /\ simUid' = base
        /\ uid' = [p \in Places |-> IF p <= N /\ uid[p] = 0
                                    THEN (p - 1) * 10000 + base ELSE uid[p]]
  /\ Becomes("init")
  /\ UNCHANGED <<cli, env, stack, args, file, tries, kind, at, stopRequest, stop,
                 modelVars, timeVars>>

\* controller_init, adapter_create: a stop requested before is not carried
\* over to the new controller.
InitController ==
  /\ phase = "init"
  /\ stop' = FALSE
  /\ Becomes("load")
  /\ UNCHANGED <<setupVars, at, stopRequest, modelVars, timeVars>>

-----------------------------------------------------------------------------
Symbols == {"create", "step", "destroy"}

\* controller_load_model: the interface of an instance.
VTable(spec) ==
  CASE Runtime(spec) = "dynlib" ->
         IF spec.definition.dynlib = "opens" THEN spec.definition.symbols ELSE {}
    [] Runtime(spec) \in {"gateway", "mcl"} -> Symbols
    [] OTHER -> {}

LoadFails(spec) == Runtime(spec) = "dynlib" /\ spec.definition.dynlib = "broken"

\* modelc_model_create: the channels of the stack for a gateway and an MCL, and
\* those of the model definition otherwise.
ModelChannels(spec) ==
  IF Runtime(spec) \in {"dynlib", "gateway"} THEN spec.definition.channels ELSE << >>

Selected(spec) ==
  IF \/ Runtime(spec) = "mcl"
     \/ Runtime(spec) \in {"dynlib", "gateway"} /\ spec.definition.gateway
  THEN spec.channels ELSE ModelChannels(spec)

CreateFails(spec) ==
  \/ "step" \notin VTable(spec)
  \/ \E c \in ToSet(Selected(spec)) : ~Configurable(c, spec.channels)

CreatedVectors(spec) ==
  VectorsOf(spec.documents, spec.channels, ModelChannels(spec), Selected(spec))

\* controller_load_models for the instance in hand.  An error is fatal.  An
\* instance without an interface ends the loop, but without an error: the run
\* begins, and neither it nor those after it take part.  The create function
\* of a model may end the process; an errno that it sets is only logged.
LoadModel ==
  /\ phase = "load"
  /\ LET spec == file[at]
         complete == VTable(spec) \cap {"create", "step"} # {}
         fails == LoadFails(spec) \/ (complete /\ CreateFails(spec))
     IN /\ lookup' = [ u \in DOMAIN lookup \cup {uid[at]} |->
                         IF u = uid[at] THEN at ELSE lookup[u] ]
        /\ \/ /\ fails
              /\ Becomes("dead")
              /\ UNCHANGED <<at, vectors, life>>
           \/ /\ ~fails /\ ~complete
              /\ Becomes("connect")
              /\ at' = 1
              /\ UNCHANGED <<vectors, life>>
           \/ /\ ~fails /\ complete
              /\ vectors' = [vectors EXCEPT ![at] = CreatedVectors(spec)]
              /\ life' = [life EXCEPT ![at] = "created"]
              /\ \/ NextInstance("connect")
                 \/ "create" \in VTable(spec) /\ Becomes("dead") /\ UNCHANGED at
  /\ UNCHANGED <<setupVars, stopRequest, stop, steps, timeVars>>

-----------------------------------------------------------------------------
\* controller_bus_ready: adapter_connect of all instances, whose errors are
\* only logged; then, unless a stop was requested, adapter_register, which is
\* fatal when the SimBus does not answer.
Connect ==
  /\ phase = "connect"
  /\ Becomes(IF stop THEN "run" ELSE "register")
  /\ UNCHANGED <<setupVars, at, stopRequest, stop, modelVars, timeVars>>

Register ==
  /\ phase = "register"
  /\ \/ Becomes("run")
     \/ kind = "message" /\ Becomes("dead")
  /\ UNCHANGED <<setupVars, at, stopRequest, stop, modelVars, timeVars>>

\* controller_run: is a stop requested?
CheckStop ==
  /\ phase = "run"
  /\ Becomes(IF stop THEN "exit" ELSE "ready")
  /\ left' = IF stop THEN "stop" ELSE left
  /\ UNCHANGED <<setupVars, at, stopRequest, stop, modelVars, modelTime, stopTime>>

\* adapter_ready returns 0 with the times of the next step ...
Start ==
  /\ phase = "ready"
  /\ stopTime' = stopTime + StepSize
  /\ Becomes("step")
  /\ UNCHANGED <<setupVars, at, stopRequest, stop, modelVars, modelTime, left>>

\* ... or 0 with the times of the last one, when a signal ends its wait ...
StartInterrupted ==
  /\ phase = "ready"
  /\ stop
  /\ kind = "message"
  /\ Becomes("step")
  /\ UNCHANGED <<setupVars, at, stopRequest, stop, modelVars, timeVars>>

\* ... or ETIME.
StartTimeout ==
  /\ phase = "ready"
  /\ ~stop
  /\ kind = "message"
  /\ Becomes("exit")
  /\ left' = "timeout"
  /\ UNCHANGED <<setupVars, at, stopRequest, stop, modelVars, modelTime, stopTime>>

-----------------------------------------------------------------------------
\* Mutant: the return code of the model is handed on.
DoStepReturns(rc) == rc

\* _do_step_func: the return code of the model is only logged.
DoStep(rc) == 0

\* Mutant: the step that reaches the end is the last one.
EndReachedAtEnd(time) == EndTime > 0 /\ EndTime <= time

\* The end condition of controller_step.
EndReached(time) == EndTime > 0 /\ EndTime < time

\* sim_step_models and step_model.  An instance without a model has no model
\* function, only its time is advanced.
StepModel ==
  /\ phase = "step"
  /\ \E rc \in IF life[at] = "created" THEN {DoStep(r) : r \in ReturnCodes} ELSE {0} :
       /\ steps' = IF life[at] = "created" THEN [steps EXCEPT ![at] = @ + 1] ELSE steps
       /\ modelTime' = stopTime
       /\ \/ /\ rc # 0
             /\ Becomes("exit") /\ at' = 1 /\ left' = "model"
          \/ /\ rc = 0 /\ at < N
             /\ at' = at + 1 /\ UNCHANGED <<phase, left>>
          \/ /\ rc = 0 /\ at = N
             /\ at' = 1
             /\ Becomes(IF EndReached(stopTime) THEN "exit" ELSE "run")
             /\ left' = IF EndReached(stopTime) THEN "end" ELSE left
  /\ UNCHANGED <<setupVars, stopRequest, stop, lookup, vectors, life, stopTime>>

\* controller_exit: the destroy function of every model that has one; then, with
\* the last instance, adapter_exit, and _destroy_model_instances frees the rest.
DestroyModel ==
  /\ phase = "exit"
  /\ life' = [life EXCEPT ![at] = IF @ = "created" THEN "destroyed" ELSE @]
  /\ NextInstance("done")
  /\ UNCHANGED <<setupVars, stopRequest, stop, lookup, vectors, steps, timeVars>>

-----------------------------------------------------------------------------
\* SIGINT or SIGTERM, once main has installed its handler: modelc_shutdown and
\* controller_stop.
HasController == phase \in {"load", "connect", "register", "run", "ready", "step", "exit"}

Signal ==
  /\ phase \in {"endpoint", "uids", "init"} \/ HasController
  /\ ~stop
  /\ stopRequest' = TRUE
  /\ stop' = HasController
  /\ UNCHANGED <<phase, at, setupVars, modelVars, timeVars>>

Process ==
  \/ ParseArguments \/ Configure \/ CreateEndpoint \/ AssignUids
  \/ InitController \/ LoadModel \/ Connect \/ Register
  \/ CheckStop \/ Start \/ StartInterrupted \/ StartTimeout
  \/ StepModel \/ DestroyModel

Next == Process \/ Signal

\* The scheduler runs the process, and its waits have a timeout.
Spec == Init /\ [][Next]_vars /\ WF_vars(Process)

-----------------------------------------------------------------------------
\* What each variable holds.
TypeOK ==
  /\ phase \in {"parse", "configure", "endpoint", "uids", "init", "done", "dead"}
       \/ HasController
  /\ file = << >> \/ file \in Files
  /\ phase \in {"parse", "configure"} <=> file = << >>
  /\ simUid \in Nat
  /\ uid \in [Places -> Nat]
  /\ tries \in 0..RetryCount
  /\ phase \in {"parse", "configure", "endpoint"} => tries # 0
  /\ kind \in {"none", "message", "loopback"}
  /\ stopRequest \in BOOLEAN
  /\ stop \in BOOLEAN
  /\ at \in Places
  /\ file # << >> => at <= N
  /\ life \in [Places -> {"none", "created", "destroyed"}]
  /\ steps \in [Places -> Nat]
  /\ modelTime \in Nat
  /\ stopTime \in Nat
  /\ left \in {"no", "stop", "timeout", "model", "end"}

\* A setting is that of the command line, of the environment, of the stack, or
\* the default, in this order, and the uri of the stack that of the transport
\* that was chosen (the comments of modelc_parse_arguments).  Of the timeout
\* this does not hold.
SettingsByPriority ==
  phase = "configure" =>
    LET First(c, e, s, default) == Else(c, Else(e, Else(s, default)))
        entry == IF args.transport \in DOMAIN stack.entries
                 THEN stack.entries[args.transport] ELSE Unset
    IN /\ args.transport = First(cli.transport, env.transport, stack.transport,
                                 DefaultArgs.transport)
       /\ args.uri = First(cli.uri, env.uri, entry, DefaultArgs.uri)
       /\ args.loglevel = First(cli.loglevel, env.loglevel, stack.loglevel,
                                DefaultArgs.loglevel)

\* When uids are given to no instance, or one of its own to each, then the
\* Adapter finds every model by its uid, as process_sbno_message and the
\* SimBus have to.  (A uid that is given may be one that is generated for an
\* instance before it: then one of the two is not found.)
LoadedAreFound ==
  LET given == [p \in 1..N |-> ConfiguredUid(file[p])]
  IN (\/ \A p \in 1..N : given[p] = 0
      \/ \A p, q \in 1..N : given[p] # 0 /\ (given[p] = given[q] => p = q))
     => \A p \in 1..N : life[p] = "created" => lookup[uid[p]] = p

\* The labels that a group must have for a channel of the stack: its own, or
\* those of the channel of the model definition with that name or alias.
Labels(channel, modelChannels) ==
  LET Pairs(f) == IF f = Unset THEN {} ELSE { <<l, f[l]>> : l \in DOMAIN f }
      own == Pairs(channel.selectors)
  IN IF own # {} THEN own
     ELSE UNION { Pairs(c.selectors) : c \in { c \in ToSet(modelChannels) :
                    c.name = channel.name \/ c.alias = channel.alias } }

\* The signals that the documents give a channel; a group is read up to the
\* first entry without a name.
Documented(spec, channel) ==
  LET labels == Labels(channel, ModelChannels(spec))
      groups == { doc \in ToSet(spec.documents) :
                    /\ doc.kind = "SignalGroup" /\ labels # {}
                    /\ \A pair \in labels : /\ pair[1] \in DOMAIN doc.labels
                                            /\ doc.labels[pair[1]] = pair[2] }
  IN UNION { { doc.signals[i].signal : i \in { i \in DOMAIN doc.signals :
                 /\ ~doc.signals[i].internal
                 /\ \A j \in 1..i : doc.signals[j].signal # Unset } } : doc \in groups }

\* Of each channel that a model asks for it can index exactly the documented
\* signals, under the alias of the stack, whichever way the documents name the
\* channel and wherever the selectors are.
SignalsAsDocumented ==
  phase = "connect" => \A p \in 1..N : life[p] = "created" =>
    LET spec == file[p]
    IN \A c \in ToSet(Selected(spec)), s \in ToSet(spec.channels) :
         Wanted(c) \in {s.name, s.alias} =>
           LET vector == vectors[p][s.name]
           IN /\ \A signal \in Documented(spec, s) :
                   /\ Indexed(vectors[p], s.alias, signal) = {s.name}
                   /\ vector.signals[ModelIndex(vectors[p], s.alias, signal).signal] = signal
              /\ ToSet(vector.signals) = Documented(spec, s)

\* A run that is left because of its end time has made one step for each step
\* size in it and one more, whatever the models returned and whenever they
\* were interrupted.
StepsToEnd ==
  left = "end" => \A p \in 1..N :
    life[p] # "none" => steps[p] = EndTime \div StepSize + 1

\* The models of the process see the life that ModelContract promises.
Contract == INSTANCE ModelContract WITH Models <- Places
ImplementsContract == Contract!ContractSpec

\* The process ends.
Ends == <>(phase \in {"done", "dead"})
=============================================================================
