--------------------------- MODULE ChannelSchema ---------------------------
(***************************************************************************)
(* From YAML documents to the signal vectors of a model instance (model.c, *)
(* schema.c, signal.c).  A channel of the stack or of a model definition   *)
(* is a record                                                             *)
(*   [name, alias, selectors]   Unset, or a function of labels to values   *)
(* and a document, in the order in which they were parsed,                 *)
(*   [kind, labels, binary, signals]                                       *)
(* where signals is the sequence of spec/signals, [signal, internal], and  *)
(* an entry may lack its name (Unset).  A signal vector is                 *)
(*   [alias, binary, signals]                                              *)
(* and a model has one for each name of a channel.                         *)
(***************************************************************************)
EXTENDS ModelCArgs, SequencesExt

\* dse_yaml_find_node_in_seq: the first channel whose field has the value.
FindChannel(channels, field, value) ==
  LET found == { c \in DOMAIN channels : channels[c][field] = value }
  IN IF found = {} THEN Unset ELSE channels[Min(found)]

\* model_build_channel_spec: by name, or else by alias.
ChannelSpec(stackChannels, wanted) ==
  Else(FindChannel(stackChannels, "name", wanted),
       FindChannel(stackChannels, "alias", wanted))

-----------------------------------------------------------------------------
\* Mutant: the selectors of the model definition have priority.
SelectorOfModel(channel, modelChannels) ==
  LET inModel == Else(FindChannel(modelChannels, "name", channel.name),
                      IF channel.alias = Unset THEN Unset
                      ELSE FindChannel(modelChannels, "alias", channel.alias))
      selectors == IF inModel # Unset /\ inModel.selectors # Unset
                   THEN inModel.selectors ELSE channel.selectors
  IN IF selectors # Unset /\ DOMAIN selectors # {} THEN selectors ELSE Unset

\* schema_build_channel_selector.  The selectors of the stack, unless they
\* are empty, are taken before those of the model definition.
Selector(channel, modelChannels) ==
  LET inStack == channel.selectors
      inModel == Else(FindChannel(modelChannels, "name", channel.name),
                      IF channel.alias = Unset THEN Unset
                      ELSE FindChannel(modelChannels, "alias", channel.alias))
      selectors == IF inStack # Unset /\ DOMAIN inStack # {} THEN inStack
                   ELSE IF inModel = Unset THEN Unset ELSE inModel.selectors
  IN IF selectors # Unset /\ DOMAIN selectors # {} THEN selectors ELSE Unset

\* schema_object_search: the places of the documents of a kind with all the
\* labels of the selector.
Search(documents, kind, selector) ==
  { d \in DOMAIN documents :
      /\ documents[d].kind = kind
      /\ \A label \in DOMAIN selector :
           /\ label \in DOMAIN documents[d].labels
           /\ documents[d].labels[label] = selector[label] }

\* schema_object_enumerator with schema_signal_object_generator: an entry that
\* has no name is taken for the end of the list.
Enumerated(doc) ==
  LET nameless == { i \in DOMAIN doc.signals : doc.signals[i].signal = Unset }
  IN IF nameless = {} THEN doc.signals
     ELSE SubSeq(doc.signals, 1, Min(nameless) - 1)

\* _signal_group_match_handler: the names of the group, without those that are
\* internal.
GroupSignals(doc) ==
  LET entries == Enumerated(doc)
  IN FlattenSeq([ i \in DOMAIN entries |->
       IF entries[i].internal THEN << >> ELSE << entries[i].signal >> ])

\* _load_signals: all the groups of the channel, in order.  One that says that
\* it is binary makes the vector binary.  A name in two groups is in the list twice.
LoadSignals(documents, selector) ==
  LET groups == IF selector = Unset THEN {}
                ELSE Search(documents, "SignalGroup", selector)
  IN [ signals |-> FlattenSeq([ d \in DOMAIN documents |->
                     IF d \in groups THEN GroupSignals(documents[d]) ELSE << >> ]),
       binary  |-> \E d \in groups : documents[d].binary ]

-----------------------------------------------------------------------------
\* _configure_model_channel: the channel is known by its alias, or else by its
\* name; it fails when the stack has no such channel.
Wanted(channel) == Else(channel.alias, channel.name)

Configurable(channel, stackChannels) ==
  Wanted(channel) # Unset /\ ChannelSpec(stackChannels, Wanted(channel)) # Unset

\* model_configure_channel for the selected channels: the vector of each name.
\* A channel that has signals is configured once, another one again.
Configured(documents, stackChannels, modelChannels, selected) ==
  LET channel == [ c \in DOMAIN selected |->
                     ChannelSpec(stackChannels, Wanted(selected[c])) ]
      loaded  == [ spec \in ToSet(stackChannels) |->
                     LoadSignals(documents, Selector(spec, modelChannels)) ]
      Named(name) == { c \in DOMAIN selected : channel[c].name = name }
      Taken(name) == LET full == { c \in Named(name) : loaded[channel[c]].signals # << >> }
                     IN IF full = {} THEN Max(Named(name)) ELSE Min(full)
  IN [ name \in { channel[c].name : c \in DOMAIN selected } |-> loaded[channel[Taken(name)]] ]

\* model_sv_create: the alias of a vector is that of the first channel of the
\* stack with its name.
VectorsOf(documents, stackChannels, modelChannels, selected) ==
  LET configured == Configured(documents, stackChannels, modelChannels, selected)
  IN [ name \in DOMAIN configured |->
         [ signals |-> configured[name].signals,
           binary  |-> configured[name].binary,
           alias   |-> FindChannel(stackChannels, "name", name).alias ] ]

\* __model_index__: a vector of that alias that has the signal, and the last
\* place of it there (its index holds the place that is set last).
Indexed(vectors, vname, sname) ==
  { name \in DOMAIN vectors : /\ vectors[name].alias = vname
                              /\ sname \in ToSet(vectors[name].signals) }

ModelIndex(vectors, vname, sname) ==
  LET name == CHOOSE name \in Indexed(vectors, vname, sname) : TRUE
  IN [ vector |-> name,
       signal |-> Max({ i \in DOMAIN vectors[name].signals :
                          vectors[name].signals[i] = sname }) ]
=============================================================================
