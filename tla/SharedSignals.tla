--------------------------- MODULE SharedSignals ---------------------------
(***************************************************************************)
(* What the bus promises to the models, whichever adapter carries it: a    *)
(* channel has one value for each of its signals.  Models work on a view   *)
(* of it between two exchanges; an exchange takes place when every process *)
(* has offered its view; a signal then keeps its value, or takes one that  *)
(* a model changed it to; and each process goes on with the shared values. *)
(***************************************************************************)
EXTENDS Topology

CONSTANTS
  Signals,       \* names of scalar signals
  SignalsOf,     \* SignalsOf[l]: the signals of link l, a part of those of
                 \* the channel
  Values         \* values of a signal, with 0 for the initial one

VARIABLES
  shared,        \* shared[c][x]: the value of signal x on channel c
  view,          \* view[l][x]: the value the model of link l works with
  turn           \* turn[s]: "step", "offered" or "granted"

sharedVars == <<shared, view, turn>>

AllLinks == UNION {LinksOf(s) : s \in Sims}

Known(c) == UNION {SignalsOf[l] : l \in ChannelLinks(c)}

SharedInit ==
  /\ shared = [c \in Channels |-> [x \in Known(c) |-> 0]]
  /\ view = [l \in AllLinks |-> [x \in SignalsOf[l] |-> 0]]
  /\ turn = [s \in Sims |-> "step"]

Write(s) ==
  /\ turn[s] = "step"
  /\ \E l \in LinksOf(s) : \E x \in SignalsOf[l], v \in Values :
       view' = [view EXCEPT ![l][x] = v]
  /\ UNCHANGED <<shared, turn>>

Offer(s) ==
  /\ turn[s] = "step"
  /\ turn' = [turn EXCEPT ![s] = "offered"]
  /\ UNCHANGED <<shared, view>>

\* The values to which models of channel c changed signal x.
Changes(c, x) ==
  {view[l][x] : l \in {k \in ChannelLinks(c) : x \in SignalsOf[k]}}
    \ {shared[c][x]}

Exchange ==
  /\ turn = [s \in Sims |-> "offered"]
  /\ turn' = [s \in Sims |-> "granted"]
  /\ shared' = [c \in Channels |-> [x \in Known(c) |-> shared'[c][x]]]
  /\ \A c \in Channels : \A x \in Known(c) :
       IF Changes(c, x) = {} THEN shared'[c][x] = shared[c][x]
                             ELSE shared'[c][x] \in Changes(c, x)
  /\ UNCHANGED view

Take(s) ==
  /\ turn[s] = "granted"
  /\ turn' = [turn EXCEPT ![s] = "step"]
  /\ view' = [l \in AllLinks |->
                IF l \in LinksOf(s)
                THEN [x \in SignalsOf[l] |-> shared[l.channel][x]]
                ELSE view[l]]
  /\ UNCHANGED shared

SharedNext == Exchange \/ \E s \in Sims : Write(s) \/ Offer(s) \/ Take(s)

SharedSpec == SharedInit /\ [][SharedNext]_sharedVars
=============================================================================
