---------------------------- MODULE MCModelCRun ----------------------------
(***************************************************************************)
(* Processes of one to three instances whose files are complete, name each *)
(* channel in another way, or lack what an instance needs.                 *)
(***************************************************************************)
EXTENDS ModelCRun

LAYER == [ transport |-> Unset, uri |-> Unset, loglevel |-> Unset, timeout |-> Unset ]

MCCli == { [ LAYER EXCEPT !.transport = t, !.uri = u, !.loglevel = l ] :
             t \in {Unset, "redis"}, u \in {Unset, "ftp"}, l \in {Unset, 1} }

MCEnv == { [ LAYER EXCEPT !.transport = t, !.uri = u, !.loglevel = l, !.timeout = 20 ] :
             t \in {Unset, "loopback"}, u \in {Unset, "unix"}, l \in {Unset, 2} }

MCStack ==
  { [ transport |-> t, uri |-> Unset, loglevel |-> l, timeout |-> 30,
      entries |-> IF t = Unset THEN [ x \in {} |-> Unset ]
                  ELSE [ x \in {t, "redis"} |-> IF x = t THEN u ELSE "redisasync" ] ] :
    t \in {Unset, "redispubsub", "bus"}, u \in {Unset, "unix"}, l \in {Unset, 3} }

-----------------------------------------------------------------------------
Entry(signal) == [ signal |-> signal, internal |-> FALSE ]

Group(labels, binary, signals) ==
  [ kind |-> "SignalGroup", labels |-> labels, binary |-> binary, signals |-> signals ]

\* Groups of a scalar and a binary channel, one that is not complete, and one
\* for whoever asks with the label of the model definition.
Docs == <<
  Group([ channel |-> "phys" ], FALSE, << Entry("a"), [ Entry("i") EXCEPT !.internal = TRUE ], Entry("b") >>),
  Group([ channel |-> "phys", side |-> "left" ], FALSE, << Entry("c"), Entry("a"), Entry(Unset), Entry("d") >>),
  [ Group([ channel |-> "phys" ], FALSE, << Entry("x") >>) EXCEPT !.kind = "SignalList" ],
  Group([ channel |-> "net" ], TRUE, << Entry("can") >>),
  Group([ side |-> "model" ], FALSE, << Entry("m") >>) >>

Channel(name, alias, selectors) == [ name |-> name, alias |-> alias, selectors |-> selectors ]

NONE == [ l \in {} |-> "" ]

StackChannels == << Channel("phys", "p", [ channel |-> "phys" ]),
                    Channel("net", "n", NONE), Channel("aux", "x", Unset) >>

ModelDefinition(symbols, channels) ==
  [ gateway |-> FALSE, dynlib |-> "opens", symbols |-> symbols, channels |-> channels ]

\* By alias with other selectors, by name, and by an alias of the model only.
Asked == << Channel(Unset, "p", [ side |-> "model" ]), Channel("net", Unset, [ channel |-> "net" ]),
            Channel("p", Unset, NONE), Channel("q", "x", [ side |-> "left" ]) >>

INST == [ uid |-> 0, inStack |-> TRUE, mcl |-> Unset,
          definition |-> ModelDefinition(Symbols, Asked),
          channels |-> StackChannels, documents |-> Docs ]

Small == [ INST EXCEPT !.definition = ModelDefinition({"step"}, << Channel("phys", Unset, Unset) >>) ]
Gateway == [ INST EXCEPT !.definition = [ ModelDefinition({}, Asked) EXCEPT !.gateway = TRUE, !.dynlib = Unset ] ]
Library == [ INST EXCEPT !.mcl = "lua", !.definition = Unset ]

MCReturnCodes == {-1, 0, 1}

MCFiles == {
  << INST >>, << Small, Gateway, Library >>,
  << [ Small EXCEPT !.uid = 42 ], [ Library EXCEPT !.uid = 5 ] >>,
  << Small, [ Small EXCEPT !.uid = 5 ] >>,
  << Small, [ Library EXCEPT !.mcl = "fmi" ], Small >>,
  << [ Small EXCEPT !.inStack = FALSE ] >>,
  << Small, [ INST EXCEPT !.definition.dynlib = "nopath" ] >>,
  << Small, [ INST EXCEPT !.definition.dynlib = "broken" ] >>,
  << [ INST EXCEPT !.definition.symbols = {"create"} ] >>,
  << [ INST EXCEPT !.definition.channels = << Channel("other", Unset, Unset) >> ] >> }
=============================================================================
