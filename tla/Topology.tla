------------------------------ MODULE Topology ------------------------------
(***************************************************************************)
(* The static configuration of one simulation: which processes take part,  *)
(* which models each of them hosts and on which channels, and how many     *)
(* models the SimBus is told to expect on a channel (expectedModelCount in *)
(* the simulation YAML).  A sim is a ModelC process: one SimulationSpec    *)
(* with its stacked model instances, one Controller and one Adapter.       *)
(***************************************************************************)
EXTENDS Integers, Sequences, FiniteSets

CONSTANTS Sims,       \* the ModelC processes, by SimulationSpec.uid
          Models,     \* the AdapterModel.model_uid values
          Channels,   \* the channels of the SimBus
          Links       \* Links[s]: the (model, channel) pairs of s in the order
                      \* in which adapter_connect and adapter_register visit
                      \* them: instance by instance, channel by channel

Link == [model : Models, channel : Channels]

LinksOf(s) == {Links[s][i] : i \in DOMAIN Links[s]}

ModelsOf(s) == {l.model : l \in LinksOf(s)}

ChannelLinks(c) == {l \in UNION {LinksOf(s) : s \in Sims} : l.channel = c}

Members(c) == {l.model : l \in ChannelLinks(c)}

\* The expectedModelCount of a correctly configured simulation.
Expected(c) == Cardinality(Members(c))

ASSUME TopologyAssumption ==
  /\ IsFiniteSet(Models)
  /\ Links \in [Sims -> Seq(Link)]
  /\ \A s \in Sims : Len(Links[s]) > 0

\* A model uid names one model: no two processes host the same one.
ASSUME UidAssumption ==
  \A s, t \in Sims : s # t => ModelsOf(s) \cap ModelsOf(t) = {}

\* A model joins a channel once: AdapterModel.channels is a hash by name.
ASSUME LinksAssumption ==
  \A s \in Sims : \A i, j \in DOMAIN Links[s] : Links[s][i] = Links[s][j] => i = j

\* There is a simulation to run.
ASSUME SimsAssumption == Sims # {}
=============================================================================
