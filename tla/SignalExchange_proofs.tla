----------------------- MODULE SignalExchange_proofs -----------------------
(***************************************************************************)
(* The exchange of signals, for every network, every set of signals and    *)
(* every set of values: that every participant that is up to date knows    *)
(* what the SimBus knows, that the exchange of changed scalars implements  *)
(* one shared value for each signal, and that binary data reaches every    *)
(* model of a channel as one stream.                                       *)
(*                                                                         *)
(* Why it holds is a matter of where each process is with its exchange.    *)
(* While it steps, nothing of it is on its way.  Once it has offered its   *)
(* signals, there is one message of it, on its way or counted among the    *)
(* ready, and what that message says of the scalars stays true until all   *)
(* have offered.  Then one message is on its way to it, and that message   *)
(* turns what the process knew into what the SimBus knows.                 *)
(***************************************************************************)
EXTENDS SignalExchange, FiniteSetTheorems, SequenceTheorems,
        WellFoundedInduction, TLAPS

\* The messages of process s to the SimBus.
OnBus(s) == {i \in DOMAIN toBus : toBus[i].sim = s}

\* Where s is with its exchange: it steps, has offered or has been granted.
Steps(s) == ~waits[s] /\ toSim[s] = << >> /\ s \notin ready /\ OnBus(s) = {}

Offers(s) ==
  /\ waits[s] /\ toSim[s] = << >>
  /\ \/ s \in ready /\ OnBus(s) = {}
     \/ s \notin ready /\ \E i \in DOMAIN toBus : OnBus(s) = {i}

IsGranted(s) ==
  /\ waits[s] /\ toSim[s] = <<toSim[s][1]>>
  /\ s \notin ready /\ OnBus(s) = {}

Turns == \A s \in Sims : Steps(s) \/ Offers(s) \/ IsGranted(s)

\* The vector of link l as its process offers it: what differs from the value
\* the process was last given.
IsOffer(v, l) ==
  /\ v.link = l
  /\ v.scalars = [x \in {y \in SignalsOf[l] : val[l][y] # scalar[l][y]} |->
                    scalar[l][x]]

MessageIsOffer(m) ==
  /\ m.sim \in Sims
  /\ DOMAIN m.vectors = DOMAIN Links[m.sim]
  /\ \A k \in DOMAIN Links[m.sim] : IsOffer(m.vectors[k], Links[m.sim][k])

OffersStand == \A i \in DOMAIN toBus : MessageIsOffer(toBus[i])

\* What is granted completes what the process knows.
GrantCompletes ==
  \A s \in Sims : toSim[s] # << >> =>
    \A l \in LinksOf(s) :
      Notified(l, toSim[s][1]) = [x \in SignalsOf[l] |-> busVal[l.channel][x]]

\* The values to which the processes of P changed signal x of channel c.
ChangedBy(P, c, x) ==
  {scalar[l][x] : l \in {k \in ChannelLinks(c) :
                           x \in SignalsOf[k] /\ \E s \in P : k \in LinksOf(s)}}
    \ {busVal[c][x]}

\* The value that the SimBus will resolve is one of them.
FinalIsOffered ==
  \A c \in Channels : \A x \in Known(c) :
    IF ChangedBy(ready, c, x) = {} THEN busFinal[c][x] = busVal[c][x]
                                   ELSE busFinal[c][x] \in ChangedBy(ready, c, x)

Shapes ==
  /\ \E M : toBus \in Seq(M)
  /\ toSim = [s \in Sims |-> toSim[s]]
  /\ scalar = [l \in AllLinks |-> scalar[l]]
  /\ val = [l \in AllLinks |-> val[l]]
  /\ reset = [l \in AllLinks |-> reset[l]]
  /\ busVal = [c \in Channels |-> busVal[c]]
  /\ busFinal = [c \in Channels |-> busFinal[c]]

ScalarInv ==
  /\ TypeOK
  /\ Shapes
  /\ Turns
  /\ OffersStand
  /\ Agreement
  /\ GrantCompletes
  /\ FinalIsOffered

\* A payload: its writer and its number.
Payload == AllLinks \X Nat

DataTypes ==
  /\ binary \in [AllLinks -> Seq(Payload)]
  /\ count \in [AllLinks -> Nat]
  /\ busBin \in [Channels -> Seq(Payload)]
  /\ log \in [Channels -> Seq(Payload)]
  /\ got \in [AllLinks -> Seq(Payload)]
  /\ \A i \in DOMAIN toBus : \A k \in DOMAIN toBus[i].vectors :
       toBus[i].vectors[k].data \in Seq(Payload)
  /\ \A s \in Sims : toSim[s] # << >> =>
       \A c \in Channels : toSim[s][1][c].data \in Seq(Payload)

\* With what is on its way to it, a model was given what the SimBus resolved.
GivenStream ==
  \A s \in Sims : \A l \in LinksOf(s) :
    log[l.channel] = IF toSim[s] = << >> THEN got[l]
                     ELSE got[l] \o toSim[s][1][l.channel].data

\* A sequence in which the numbers of each writer grow.
Ordered(q) ==
  \A i, j \in DOMAIN q : i < j /\ q[i][1] = q[j][1] => q[i][2] < q[j][2]

Stream(c) == log[c] \o busBin[c]

\* Data of link l that comes after all its data of the stream.
IsNew(q, l) ==
  /\ Ordered(q)
  /\ \A p \in ToSet(q) :
       /\ p[1] = l /\ p[2] <= count[l]
       /\ \A r \in ToSet(Stream(l.channel)) : r[1] = l => r[2] < p[2]

QueuedIsNew ==
  \A i \in DOMAIN toBus : \A k \in DOMAIN toBus[i].vectors :
    IsNew(toBus[i].vectors[k].data, toBus[i].vectors[k].link)

\* What a model wrote since its reset, and has not sent yet.
WrittenIsNew == \A l \in AllLinks : reset[l] => IsNew(binary[l], l)

SentIsGone ==
  \A s \in Sims : waits[s] => \A l \in LinksOf(s) : binary[l] = << >>

StreamCounted ==
  \A c \in Channels : \A p \in ToSet(Stream(c)) : p[2] <= count[p[1]]

StreamOrdered == \A c \in Channels : Ordered(Stream(c))

OutIsKnown == \A c \in Channels : out[c] = ToSet(Stream(c)) \cup Queued(c)

DataInv ==
  /\ DataTypes
  /\ GivenStream
  /\ QueuedIsNew
  /\ WrittenIsNew
  /\ SentIsGone
  /\ StreamCounted
  /\ StreamOrdered
  /\ OutIsKnown

-----------------------------------------------------------------------------
\* Links, their owners and their channels.

LEMMA LinkFacts ==
  ASSUME NEW s \in Sims, NEW l \in LinksOf(s)
  PROVE  /\ l \in AllLinks
         /\ l.channel \in Channels
         /\ l \in ChannelLinks(l.channel)
         /\ SignalsOf[l] \subseteq Known(l.channel)
<1>1. l \in AllLinks
  BY DEF AllLinks
<1>2. Links[s] \in Seq(Link)
  BY TopologyAssumption
<1>3. l \in Link
  BY <1>2 DEF LinksOf
<1>4. l.channel \in Channels
  BY <1>3 DEF Link
<1>5. l \in ChannelLinks(l.channel)
  BY DEF ChannelLinks
<1> QED BY <1>1, <1>4, <1>5 DEF Known

LEMMA OneOwner ==
  ASSUME NEW s \in Sims, NEW t \in Sims, NEW l \in LinksOf(s), l \in LinksOf(t)
  PROVE  s = t
<1>1. l.model \in ModelsOf(s) /\ l.model \in ModelsOf(t)
  BY DEF ModelsOf
<1> QED BY <1>1, UidAssumption

LEMMA HasOwner ==
  ASSUME NEW l \in AllLinks
  PROVE  \E s \in Sims : l \in LinksOf(s)
BY DEF AllLinks

LEMMA MemberOfKnown ==
  ASSUME NEW c \in Channels, NEW x \in Known(c)
  PROVE  \E s \in Sims : \E l \in LinksOf(s) : l.channel = c /\ x \in SignalsOf[l]
BY DEF Known, ChannelLinks

-----------------------------------------------------------------------------
\* A set of natural numbers has a least element.
LEMMA LeastNatural ==
  ASSUME NEW T, T \subseteq Nat, T # {}
  PROVE  \E n \in T : \A k \in T : n <= k
<1> DEFINE R == { ss \in Nat \X Nat : ss[1] < ss[2] }
<1>0. IsWellFoundedOn(R, Nat)
  BY NatLessThanWellFounded DEF OpToRel
<1>1. \E x \in T : \A y \in T : ~(<<y, x>> \in R)
  <2> HIDE DEF R
  <2> QED BY <1>0, WFMin
<1>2. PICK n \in T : \A k \in T : ~(<<k, n>> \in R)
  BY <1>1
<1>3. ASSUME NEW k \in T PROVE n <= k
  <2>1. ~(k < n)
    BY <1>2 DEF R
  <2> QED BY <2>1
<1> QED BY <1>3

\* A set of positions in a sequence has a last one.
LEMMA LastPosition ==
  ASSUME NEW n \in Nat, NEW W, W \subseteq 1..n, W # {}
  PROVE  \E i \in W : \A j \in W : j <= i
<1> DEFINE T == {n - i : i \in W}
<1>1. T \subseteq Nat /\ T # {}
  OBVIOUS
<1>2. PICK k \in T : \A j \in T : k <= j
  <2> HIDE DEF T
  <2> QED BY <1>1, LeastNatural
<1>3. PICK i \in W : k = n - i
  OBVIOUS
<1>4. ASSUME NEW j \in W PROVE j <= i
  <2>1. n - i <= n - j
    BY <1>2, <1>3
  <2>2. i \in Int /\ j \in Int
    OBVIOUS
  <2> QED BY <2>1, <2>2
<1> QED BY <1>4

-----------------------------------------------------------------------------
\* What a message makes of the value of a signal: nothing, or the value of a
\* model of its process that has changed the signal.
LEMMA WrittenIsOffered ==
  ASSUME NEW m, MessageIsOffer(m), NEW c \in Channels, NEW x \in Known(c),
         NEW D, D = {l \in LinksOf(m.sim) :
                       l.channel = c /\ x \in SignalsOf[l] /\ val[l][x] # scalar[l][x]}
  PROVE  /\ D = {} => Written(m.vectors, c, x) = busFinal[c][x]
         /\ D # {} => \E l \in D : Written(m.vectors, c, x) = scalar[l][x]
<1> DEFINE W == Carriers(m.vectors, c, x)
           n == Len(Links[m.sim])
<1>0. m.sim \in Sims /\ n \in Nat /\ DOMAIN m.vectors = 1..n /\ DOMAIN Links[m.sim] = 1..n
  BY TopologyAssumption DEF MessageIsOffer
<1>1. \A i \in 1..n : i \in W <=> Links[m.sim][i] \in D
  <2> SUFFICES ASSUME NEW i \in 1..n PROVE i \in W <=> Links[m.sim][i] \in D
    OBVIOUS
  <2>1. IsOffer(m.vectors[i], Links[m.sim][i]) /\ Links[m.sim][i] \in LinksOf(m.sim)
    BY <1>0 DEF MessageIsOffer, LinksOf
  <2>2. m.vectors[i].link = Links[m.sim][i]
    BY <2>1 DEF IsOffer
  <2>3. DOMAIN m.vectors[i].scalars =
          {y \in SignalsOf[Links[m.sim][i]] :
             val[Links[m.sim][i]][y] # scalar[Links[m.sim][i]][y]}
    BY <2>1 DEF IsOffer
  <2> QED BY <1>0, <2>1, <2>2, <2>3 DEF Carriers
<1>2. W \subseteq 1..n
  BY <1>0 DEF Carriers
<1>3. CASE W = {}
  <2>1. D = {}
    BY <1>0, <1>1, <1>3 DEF LinksOf
  <2>2. Written(m.vectors, c, x) = busFinal[c][x]
    BY <1>3 DEF Written
  <2> QED BY <2>1, <2>2
<1>4. CASE W # {}
  <2> DEFINE k == CHOOSE i \in W : \A j \in W : j <= i
  <2>1. k \in W
    <3> HIDE DEF W
    <3>1. \E i \in W : \A j \in W : j <= i
      BY <1>0, <1>2, <1>4, LastPosition
    <3> QED BY <3>1
  <2>2. Written(m.vectors, c, x) = m.vectors[k].scalars[x]
    BY <1>4 DEF Written
  <2> HIDE DEF k
  <2>3. k \in 1..n /\ Links[m.sim][k] \in D
    BY <1>1, <1>2, <2>1
  <2>4. IsOffer(m.vectors[k], Links[m.sim][k])
    BY <1>0, <2>3 DEF MessageIsOffer
  <2>5. m.vectors[k].scalars[x] = scalar[Links[m.sim][k]][x]
    BY <2>3, <2>4 DEF IsOffer
  <2> QED BY <2>2, <2>3, <2>5
<1> QED BY <1>3, <1>4

-----------------------------------------------------------------------------
\* What a process offers does not depend on the signals of the others.

LEMMA OfferFrame ==
  ASSUME NEW m, MessageIsOffer(m),
         \A l \in LinksOf(m.sim) : val'[l] = val[l] /\ scalar'[l] = scalar[l]
  PROVE  MessageIsOffer(m)'
<1> SUFFICES ASSUME NEW k \in DOMAIN Links[m.sim]
             PROVE  IsOffer(m.vectors[k], Links[m.sim][k])'
  BY DEF MessageIsOffer
<1> DEFINE l == Links[m.sim][k]
<1>1. l \in LinksOf(m.sim)
  BY DEF LinksOf
<1>2. val'[l] = val[l] /\ scalar'[l] = scalar[l]
  BY <1>1
<1>3. IsOffer(m.vectors[k], l)
  BY DEF MessageIsOffer
<1> QED BY <1>2, <1>3 DEF IsOffer

LEMMA SameOffer ==
  ASSUME NEW m, NEW i, toBus'[i] = m, MessageIsOffer(m)'
  PROVE  MessageIsOffer(toBus[i])'
BY DEF MessageIsOffer, IsOffer

LEMMA ChangedByFrame ==
  ASSUME NEW P \in SUBSET Sims, NEW c, NEW x, busVal'[c] = busVal[c],
         \A s \in P : \A l \in LinksOf(s) : scalar'[l] = scalar[l]
  PROVE  ChangedBy(P, c, x)' = ChangedBy(P, c, x)
<1> DEFINE K == {k \in ChannelLinks(c) :
                   x \in SignalsOf[k] /\ \E s \in P : k \in LinksOf(s)}
<1>1. \A l \in K : scalar'[l] = scalar[l]
  OBVIOUS
<1>2. {scalar'[l][x] : l \in K} = {scalar[l][x] : l \in K}
  BY <1>1
<1> QED BY <1>2 DEF ChangedBy

LEMMA FinalFrame ==
  ASSUME FinalIsOffered, ready \subseteq Sims, ready' = ready,
         busVal' = busVal, busFinal' = busFinal,
         \A s \in ready : \A l \in LinksOf(s) : scalar'[l] = scalar[l]
  PROVE  FinalIsOffered'
<1> SUFFICES ASSUME NEW c \in Channels, NEW x \in Known(c)
             PROVE  IF ChangedBy(ready, c, x)' = {}
                    THEN busFinal'[c][x] = busVal'[c][x]
                    ELSE busFinal'[c][x] \in ChangedBy(ready, c, x)'
  BY DEF FinalIsOffered
<1>1. PICK P : P = ready
  OBVIOUS
<1>2. ChangedBy(P, c, x)' = ChangedBy(P, c, x)
  BY <1>1, ChangedByFrame
<1>3. ChangedBy(ready, c, x)' = ChangedBy(ready, c, x)
  BY <1>1, <1>2 DEF ChangedBy
<1>4. IF ChangedBy(ready, c, x) = {} THEN busFinal[c][x] = busVal[c][x]
      ELSE busFinal[c][x] \in ChangedBy(ready, c, x)
  BY DEF FinalIsOffered
<1> QED BY <1>3, <1>4

-----------------------------------------------------------------------------
\* A step of a model.

LEMMA StepFunctionFacts ==
  ASSUME TypeOK, Shapes, NEW s \in Sims, StepFunction(s)
  PROVE  /\ scalar' = [l \in AllLinks |-> scalar'[l]]
         /\ reset' = [l \in AllLinks |-> reset'[l]]
         /\ \A l \in AllLinks :
              /\ scalar'[l] \in [SignalsOf[l] -> Values]
              /\ reset'[l] \in BOOLEAN
              /\ l \notin LinksOf(s) => scalar'[l] = scalar[l]
<1>1. CASE WriteScalar(s)
  <2>0. PICK k \in LinksOf(s) : \E x \in SignalsOf[k], v \in Values :
          scalar' = [scalar EXCEPT ![k][x] = v]
    BY <1>1 DEF WriteScalar
  <2>1. PICK x \in SignalsOf[k], v \in Values :
          scalar' = [scalar EXCEPT ![k][x] = v]
    BY <2>0
  <2>2. reset' = reset
    BY <1>1 DEF WriteScalar
  <2>3. k \in AllLinks
    BY LinkFacts
  <2>4. scalar' = [scalar EXCEPT ![k] = [scalar[k] EXCEPT ![x] = v]]
    BY <2>1
  <2>5. scalar' = [l \in AllLinks |-> IF l = k THEN [scalar[k] EXCEPT ![x] = v] ELSE scalar[l]]
    BY <2>3, <2>4 DEF Shapes
  <2>6. [scalar[k] EXCEPT ![x] = v] \in [SignalsOf[k] -> Values]
    BY <2>3 DEF TypeOK
  <2>7. \A l \in AllLinks : scalar'[l] \in [SignalsOf[l] -> Values]
                            /\ (l \notin LinksOf(s) => scalar'[l] = scalar[l])
    BY <2>5, <2>6 DEF TypeOK
  <2>8. scalar' = [l \in AllLinks |-> scalar'[l]]
    BY <2>5
  <2> QED BY <2>2, <2>7, <2>8 DEF TypeOK, Shapes
<1>2. CASE ResetBinary(s)
  <2>1. PICK k \in LinksOf(s) : reset' = [reset EXCEPT ![k] = TRUE]
    BY <1>2 DEF ResetBinary
  <2>2. scalar' = scalar
    BY <1>2 DEF ResetBinary
  <2>3. reset' = [l \in AllLinks |-> IF l = k THEN TRUE ELSE reset[l]]
    BY <2>1 DEF Shapes
  <2>4. \A l \in AllLinks : reset'[l] \in BOOLEAN
    BY <2>3 DEF TypeOK
  <2>5. reset' = [l \in AllLinks |-> reset'[l]]
    BY <2>3
  <2> QED BY <2>2, <2>4, <2>5 DEF TypeOK, Shapes
<1>3. CASE AppendBinary(s)
  <2>1. scalar' = scalar /\ reset' = reset
    BY <1>3 DEF AppendBinary
  <2> QED BY <2>1 DEF TypeOK, Shapes
<1> QED BY <1>1, <1>2, <1>3 DEF StepFunction

LEMMA StepModelKeeps ==
  ASSUME ScalarInv, NEW s \in Sims, StepModel(s)
  PROVE  ScalarInv'
<1> USE DEF ScalarInv
<1>0. /\ UNCHANGED <<waits, val, ready, busVal, busFinal, toBus, toSim>>
      /\ ~waits[s]
  BY DEF StepModel, signalBusVars, transportVars
<1>1. /\ scalar' = [l \in AllLinks |-> scalar'[l]]
      /\ reset' = [l \in AllLinks |-> reset'[l]]
      /\ \A l \in AllLinks :
           /\ scalar'[l] \in [SignalsOf[l] -> Values]
           /\ reset'[l] \in BOOLEAN
           /\ l \notin LinksOf(s) => scalar'[l] = scalar[l]
  BY StepFunctionFacts DEF StepModel
<1>2. \A t \in Sims : t # s => \A l \in LinksOf(t) : scalar'[l] = scalar[l]
  BY <1>1, OneOwner, LinkFacts
<1>3. s \notin ready /\ OnBus(s) = {}
  BY <1>0 DEF Turns, Steps, Offers, IsGranted
<1>4. TypeOK'
  BY <1>0, <1>1 DEF TypeOK
<1>5. Shapes'
  BY <1>0, <1>1 DEF Shapes
<1>6. Turns'
  BY <1>0 DEF Turns, Steps, Offers, IsGranted, OnBus
<1>7. OffersStand'
  <2> SUFFICES ASSUME NEW i \in DOMAIN toBus' PROVE MessageIsOffer(toBus[i])'
    BY DEF OffersStand
  <2>1. PICK m : m = toBus[i]
    OBVIOUS
  <2>2. MessageIsOffer(m)
    BY <1>0, <2>1 DEF OffersStand
  <2>3. m.sim \in Sims /\ m.sim # s
    BY <1>0, <1>3, <2>1, <2>2 DEF OnBus, MessageIsOffer
  <2>4. MessageIsOffer(m)'
    BY <1>0, <1>2, <2>2, <2>3, OfferFrame
  <2> QED BY <1>0, <2>1, <2>4, SameOffer
<1>8. Agreement'
  BY <1>0 DEF Agreement
<1>9. GrantCompletes'
  BY <1>0 DEF GrantCompletes, Notified
<1>10. FinalIsOffered'
  BY <1>0, <1>2, <1>3, FinalFrame DEF TypeOK
<1> QED BY <1>4, <1>5, <1>6, <1>7, <1>8, <1>9, <1>10

-----------------------------------------------------------------------------
\* The list of messages to the SimBus grows at its end and shrinks at its head.

LEMMA Appending ==
  ASSUME NEW M, NEW q \in Seq(M), NEW m, NEW r, r = Append(q, m)
  PROVE  /\ \E S : r \in Seq(S)
         /\ Len(q) \in Nat /\ DOMAIN q = 1..Len(q) /\ DOMAIN r = 1..(Len(q) + 1)
         /\ \A i \in DOMAIN q : r[i] = q[i]
         /\ r[Len(q) + 1] = m
<1> DEFINE S == M \cup {m}
<1>1. q \in Seq(S) /\ m \in S
  OBVIOUS
<1>2. /\ Len(r) = Len(q) + 1
      /\ r \in Seq(S)
      /\ \A i \in 1..Len(q) : r[i] = q[i]
      /\ r[Len(q) + 1] = m
  <2> HIDE DEF S
  <2> QED BY <1>1, AppendProperties
<1>3. Len(q) \in Nat /\ DOMAIN q = 1..Len(q) /\ DOMAIN r = 1..(Len(q) + 1)
  <2> HIDE DEF S
  <2> QED BY <1>1, <1>2, LenProperties
<1> HIDE DEF S
<1> QED BY <1>2, <1>3

LEMMA Shrinking ==
  ASSUME NEW M, NEW q \in Seq(M), q # << >>, NEW r, r = Tail(q)
  PROVE  /\ r \in Seq(M)
         /\ Len(q) \in Nat /\ Len(q) > 0
         /\ DOMAIN q = 1..Len(q) /\ DOMAIN r = 1..(Len(q) - 1)
         /\ \A i \in DOMAIN r : r[i] = q[i + 1]
         /\ Head(q) = q[1]
<1>1. Len(q) \in Nat \ {0} /\ DOMAIN q = 1..Len(q)
  BY EmptySeq, LenProperties
<1>2. Len(r) = Len(q) - 1 /\ r \in Seq(M) /\ \A i \in 1..Len(r) : r[i] = q[i + 1]
  BY HeadTailProperties
<1>3. DOMAIN r = 1..(Len(q) - 1) /\ Head(q) = q[1]
  BY <1>1, <1>2, LenProperties
<1> QED BY <1>1, <1>2, <1>3

-----------------------------------------------------------------------------
\* A process offers its signals.

LEMMA SentMessage ==
  ASSUME ScalarInv, NEW s \in Sims, SendModelReady(s)
  PROVE  \E m : \E n \in Nat :
           /\ m = [sim |-> s,
                   vectors |-> [i \in DOMAIN Links[s] |-> Encode(Links[s][i])]]
           /\ DOMAIN toBus = 1..n /\ DOMAIN toBus' = 1..(n + 1)
           /\ \A i \in 1..n : toBus'[i] = toBus[i]
           /\ toBus'[n + 1] = m
           /\ \E S : toBus' \in Seq(S)
<1>1. PICK m : /\ m = [sim |-> s,
                       vectors |-> [i \in DOMAIN Links[s] |-> Encode(Links[s][i])]]
               /\ toBus' = Append(toBus, m)
  BY DEF SendModelReady, SendToBus
<1>2. PICK n \in Nat :
        /\ n = Len(toBus) /\ DOMAIN toBus = 1..n /\ DOMAIN toBus' = 1..(n + 1)
        /\ \A i \in 1..n : toBus'[i] = toBus[i]
        /\ toBus'[n + 1] = m
        /\ \E S : toBus' \in Seq(S)
  <2>1. PICK M : toBus \in Seq(M)
    BY DEF ScalarInv, Shapes
  <2>2. PICK q, r : q = toBus /\ r = toBus'
    OBVIOUS
  <2>3. /\ \E S : r \in Seq(S)
        /\ Len(q) \in Nat /\ DOMAIN q = 1..Len(q) /\ DOMAIN r = 1..(Len(q) + 1)
        /\ \A i \in DOMAIN q : r[i] = q[i]
        /\ r[Len(q) + 1] = m
    <3>1. q \in Seq(M) /\ r = Append(q, m)
      BY <1>1, <2>1, <2>2
    <3> QED BY <3>1, Appending
  <2> QED BY <2>2, <2>3
<1> QED BY <1>1, <1>2

LEMMA SendModelReadyKeeps ==
  ASSUME ScalarInv, NEW s \in Sims, SendModelReady(s)
  PROVE  ScalarInv'
<1> USE DEF ScalarInv
<1>0. /\ UNCHANGED <<scalar, reset, val, ready, busVal, busFinal, toSim>>
      /\ ~waits[s]
      /\ waits' = [waits EXCEPT ![s] = TRUE]
  <2>1. UNCHANGED <<scalar, reset>>
    BY DEF SendModelReady, MarshalOut
  <2>2. UNCHANGED <<val, ready, busVal, busFinal, toSim>>
    BY DEF SendModelReady, signalBusVars
  <2>3. ~waits[s]
    BY DEF SendModelReady
  <2>4. waits' = [waits EXCEPT ![s] = TRUE]
    BY DEF SendModelReady
  <2> QED BY <2>1, <2>2, <2>3, <2>4, Zenon
<1>1. PICK m : \E n \in Nat :
        /\ m = [sim |-> s,
                vectors |-> [i \in DOMAIN Links[s] |-> Encode(Links[s][i])]]
        /\ DOMAIN toBus = 1..n /\ DOMAIN toBus' = 1..(n + 1)
        /\ \A i \in 1..n : toBus'[i] = toBus[i]
        /\ toBus'[n + 1] = m
        /\ \E S : toBus' \in Seq(S)
  <2> HIDE DEF ScalarInv
  <2> QED BY SentMessage
<1>2. PICK n \in Nat :
        /\ DOMAIN toBus = 1..n /\ DOMAIN toBus' = 1..(n + 1)
        /\ \A i \in 1..n : toBus'[i] = toBus[i]
        /\ toBus'[n + 1] = m
        /\ \E S : toBus' \in Seq(S)
  BY <1>1
<1>3. Steps(s)
  BY <1>0 DEF Turns, Steps, Offers, IsGranted
<1>4. m.sim = s /\ DOMAIN m.vectors = DOMAIN Links[s]
  BY <1>1
<1>5. TypeOK'
  BY <1>0 DEF TypeOK
<1>6. Shapes'
  BY <1>0, <1>2 DEF Shapes
<1>7. Turns'
  <2>1. \A t \in Sims \ {s} : OnBus(t)' = OnBus(t)
    BY <1>2, <1>4 DEF OnBus
  <2>2. OnBus(s)' = {n + 1} /\ n + 1 \in DOMAIN toBus'
    BY <1>2, <1>3, <1>4 DEF OnBus, Steps
  <2>3. Offers(s)'
    BY <1>0, <1>3, <2>2 DEF Offers, Steps, TypeOK
  <2>4. \A t \in Sims \ {s} : (Steps(t) \/ Offers(t) \/ IsGranted(t))'
    <3> SUFFICES ASSUME NEW t \in Sims \ {s} PROVE (Steps(t) \/ Offers(t) \/ IsGranted(t))'
      OBVIOUS
    <3>1. waits'[t] = waits[t]
      BY <1>0 DEF TypeOK
    <3>2. \A i \in DOMAIN toBus : i \in DOMAIN toBus'
      BY <1>2
    <3>3. toSim'[t] = toSim[t] /\ ready' = ready /\ OnBus(t)' = OnBus(t)
      BY <1>0, <2>1
    <3>4. CASE Steps(t)
      BY <3>1, <3>3, <3>4 DEF Steps
    <3>5. CASE Offers(t)
      BY <3>1, <3>2, <3>3, <3>5 DEF Offers
    <3>6. CASE IsGranted(t)
      BY <3>1, <3>3, <3>6 DEF IsGranted
    <3>7. Steps(t) \/ Offers(t) \/ IsGranted(t)
      BY DEF Turns
    <3> QED BY <3>4, <3>5, <3>6, <3>7
  <2> QED BY <2>3, <2>4 DEF Turns
<1>8. OffersStand'
  <2> SUFFICES ASSUME NEW i \in 1..(n + 1) PROVE MessageIsOffer(toBus[i])'
    BY <1>2 DEF OffersStand
  <2>1. PICK k : k = toBus'[i]
    OBVIOUS
  <2>2. MessageIsOffer(k)
    <3>1. CASE i = n + 1
      <4>1. k = m
        BY <1>2, <2>1, <3>1
      <4>2. \A j \in DOMAIN Links[s] : m.vectors[j] = Encode(Links[s][j])
        BY <1>1
      <4>3. \A j \in DOMAIN Links[s] : IsOffer(m.vectors[j], Links[s][j])
        <5> SUFFICES ASSUME NEW j \in DOMAIN Links[s]
                     PROVE  IsOffer(m.vectors[j], Links[s][j])
          OBVIOUS
        <5>1. m.vectors[j] = Encode(Links[s][j])
          BY <4>2
        <5> QED BY <5>1 DEF Encode, IsOffer
      <4> QED BY <1>4, <4>1, <4>3 DEF MessageIsOffer
    <3>2. CASE i # n + 1
      <4>1. i \in DOMAIN toBus /\ k = toBus[i]
        BY <1>2, <2>1, <3>2
      <4> QED BY <4>1 DEF OffersStand
    <3> QED BY <3>1, <3>2
  <2>3. MessageIsOffer(k)'
    BY <1>0, <2>2, OfferFrame
  <2> QED BY <2>1, <2>3, SameOffer
<1>9. Agreement'
  BY <1>0 DEF Agreement
<1>10. GrantCompletes'
  BY <1>0 DEF GrantCompletes, Notified
<1>11. FinalIsOffered'
  BY <1>0, FinalFrame DEF TypeOK
<1> QED BY <1>5, <1>6, <1>7, <1>8, <1>9, <1>10, <1>11

-----------------------------------------------------------------------------
\* A process receives what it was granted.

\* For its own links the process now has the values of the SimBus, for the
\* others nothing changes.
LEMMA ReceivedValues ==
  ASSUME ScalarInv, NEW s \in Sims, ReceiveModelStart(s)
  PROVE  /\ val' = [l \in AllLinks |-> val'[l]]
         /\ scalar' = [l \in AllLinks |-> scalar'[l]]
         /\ \A l \in LinksOf(s) :
              /\ val'[l] = [x \in SignalsOf[l] |-> busVal[l.channel][x]]
              /\ scalar'[l] = val'[l]
         /\ \A l \in AllLinks : l \notin LinksOf(s) =>
              val'[l] = val[l] /\ scalar'[l] = scalar[l]
<1> USE DEF ScalarInv
<1>1. toSim[s] # << >> /\ toSim[s] = <<toSim[s][1]>>
  BY DEF ReceiveModelStart, Turns, Steps, Offers, IsGranted
<1>2. PICK d : d = toSim[s][1]
  OBVIOUS
<1>3. Head(toSim[s]) = d
  BY <1>1, <1>2
<1>4. val' = [l \in AllLinks |->
                IF l \in LinksOf(s) THEN Notified(l, d) ELSE val[l]]
  BY <1>3 DEF ReceiveModelStart
<1>5. \A l \in LinksOf(s) : Notified(l, d) = [x \in SignalsOf[l] |-> busVal[l.channel][x]]
  BY <1>1, <1>2 DEF GrantCompletes
<1>6. scalar' = [l \in AllLinks |-> IF l \in LinksOf(s) THEN val'[l] ELSE scalar[l]]
  BY DEF ReceiveModelStart, MarshalIn
<1>7. val' = [l \in AllLinks |-> val'[l]]
  <2> HIDE DEF ScalarInv
  <2> QED BY <1>4
<1>8. scalar' = [l \in AllLinks |-> scalar'[l]]
  <2> HIDE DEF ScalarInv
  <2> QED BY <1>6
<1> HIDE DEF ScalarInv
<1> QED BY <1>4, <1>5, <1>6, <1>7, <1>8, LinkFacts

LEMMA ReceiveModelStartKeeps ==
  ASSUME ScalarInv, NEW s \in Sims, ReceiveModelStart(s)
  PROVE  ScalarInv'
<1>1. /\ val' = [l \in AllLinks |-> val'[l]]
      /\ scalar' = [l \in AllLinks |-> scalar'[l]]
      /\ \A l \in LinksOf(s) :
           /\ val'[l] = [x \in SignalsOf[l] |-> busVal[l.channel][x]]
           /\ scalar'[l] = val'[l]
      /\ \A l \in AllLinks : l \notin LinksOf(s) =>
           val'[l] = val[l] /\ scalar'[l] = scalar[l]
  BY ReceivedValues
<1> USE DEF ScalarInv
<1>2. UNCHANGED <<ready, busVal, busFinal, toBus>>
  BY DEF ReceiveModelStart, signalBusVars
<1>3. reset' = [l \in AllLinks |-> IF l \in LinksOf(s) THEN FALSE ELSE reset[l]]
  BY DEF ReceiveModelStart, MarshalIn
<1>4. IsGranted(s)
  BY DEF ReceiveModelStart, Turns, Steps, Offers, IsGranted
<1>5. \A t \in Sims : toSim'[t] = IF t = s THEN << >> ELSE toSim[t]
  <2>1. toSim' = [toSim EXCEPT ![s] = Tail(toSim[s])]
    BY DEF ReceiveModelStart, PopSim
  <2>2. PICK d : toSim[s] = <<d>>
    BY <1>4 DEF IsGranted
  <2>3. Tail(toSim[s]) = << >>
    BY <2>2
  <2>4. toSim = [t \in Sims |-> toSim[t]]
    BY DEF Shapes
  <2> QED BY <2>1, <2>3, <2>4
<1>6. toSim' = [t \in Sims |-> toSim'[t]]
  BY DEF ReceiveModelStart, PopSim, Shapes
<1>7. /\ waits' \in [Sims -> BOOLEAN]
      /\ \A t \in Sims : waits'[t] = IF t = s THEN FALSE ELSE waits[t]
  BY DEF ReceiveModelStart, TypeOK
<1>8. \A t \in Sims \ {s} : \A l \in LinksOf(t) :
        val'[l] = val[l] /\ scalar'[l] = scalar[l]
  BY <1>1, OneOwner, LinkFacts
<1>9. TypeOK'
  <2>1. ASSUME NEW l \in LinksOf(s)
        PROVE  [x \in SignalsOf[l] |-> busVal[l.channel][x]] \in [SignalsOf[l] -> Values]
    <3>1. l.channel \in Channels /\ SignalsOf[l] \subseteq Known(l.channel)
      BY LinkFacts
    <3>2. busVal[l.channel] \in [Known(l.channel) -> Values]
      BY <3>1 DEF TypeOK
    <3> QED BY <3>1, <3>2
  <2>2. ASSUME NEW l \in AllLinks
        PROVE  /\ scalar'[l] \in [SignalsOf[l] -> Values]
               /\ val'[l] \in [SignalsOf[l] -> Values]
    <3>1. CASE l \in LinksOf(s)
      BY <1>1, <2>1, <3>1
    <3>2. CASE l \notin LinksOf(s)
      BY <1>1, <3>2 DEF TypeOK
    <3> QED BY <3>1, <3>2
  <2>3. \A l \in AllLinks : reset'[l] \in BOOLEAN
    BY <1>3 DEF TypeOK
  <2> QED BY <1>2, <1>7, <2>2, <2>3 DEF TypeOK
<1>10. Shapes'
  <2>1. reset' = [l \in AllLinks |-> reset'[l]]
    BY <1>3
  <2> QED BY <1>1, <1>2, <1>6, <2>1 DEF Shapes
<1>11. Turns'
  <2> SUFFICES ASSUME NEW t \in Sims PROVE (Steps(t) \/ Offers(t) \/ IsGranted(t))'
    BY DEF Turns
  <2>1. ready' = ready /\ OnBus(t)' = OnBus(t) /\ toBus' = toBus
    BY <1>2 DEF OnBus
  <2>2. CASE t = s
    BY <1>4, <1>5, <1>7, <2>1, <2>2 DEF Steps, IsGranted
  <2>3. CASE t # s
    <3>1. waits'[t] = waits[t] /\ toSim'[t] = toSim[t]
      BY <1>5, <1>7, <2>3
    <3>2. CASE Steps(t)
      BY <2>1, <3>1, <3>2 DEF Steps
    <3>3. CASE Offers(t)
      BY <2>1, <3>1, <3>3 DEF Offers
    <3>4. CASE IsGranted(t)
      BY <2>1, <3>1, <3>4 DEF IsGranted
    <3>5. Steps(t) \/ Offers(t) \/ IsGranted(t)
      BY DEF Turns
    <3> QED BY <3>2, <3>3, <3>4, <3>5
  <2> QED BY <2>2, <2>3
<1>12. OffersStand'
  <2> SUFFICES ASSUME NEW i \in DOMAIN toBus' PROVE MessageIsOffer(toBus[i])'
    BY DEF OffersStand
  <2>1. PICK m : m = toBus[i]
    OBVIOUS
  <2>2. MessageIsOffer(m)
    BY <1>2, <2>1 DEF OffersStand
  <2>3. m.sim \in Sims /\ m.sim # s
    BY <1>2, <1>4, <2>1, <2>2 DEF IsGranted, OnBus, MessageIsOffer
  <2>4. MessageIsOffer(m)'
    BY <1>8, <2>2, <2>3, OfferFrame
  <2> QED BY <1>2, <2>1, <2>4, SameOffer
<1>13. Agreement'
  <2> SUFFICES ASSUME NEW t \in Sims, toSim'[t] = << >>, NEW l \in LinksOf(t),
                      NEW x \in SignalsOf[l]
               PROVE  val'[l][x] = busVal'[l.channel][x]
    BY DEF Agreement
  <2>1. CASE t = s
    BY <1>1, <1>2, <2>1
  <2>2. CASE t # s
    BY <1>2, <1>5, <1>8, <2>2 DEF Agreement
  <2> QED BY <2>1, <2>2
<1>14. GrantCompletes'
  <2> SUFFICES ASSUME NEW t \in Sims, toSim'[t] # << >>, NEW l \in LinksOf(t)
               PROVE  Notified(l, toSim[t][1])' =
                        [x \in SignalsOf[l] |-> busVal'[l.channel][x]]
    BY DEF GrantCompletes
  <2>1. t # s /\ toSim'[t] = toSim[t] /\ val'[l] = val[l]
    BY <1>5, <1>8
  <2>2. Notified(l, toSim[t][1])' = Notified(l, toSim[t][1])
    BY <2>1 DEF Notified
  <2> QED BY <1>2, <2>1, <2>2 DEF GrantCompletes
<1>15. FinalIsOffered'
  <2>1. \A t \in ready : \A l \in LinksOf(t) : scalar'[l] = scalar[l]
    BY <1>4, <1>8 DEF IsGranted, TypeOK
  <2> QED BY <1>2, <2>1, FinalFrame DEF TypeOK
<1> QED BY <1>9, <1>10, <1>11, <1>12, <1>13, <1>14, <1>15

-----------------------------------------------------------------------------
\* The SimBus handles the offer of a process.

\* The process of the oldest message has offered and is not counted yet.
LEMMA HeadIsOffer ==
  ASSUME ScalarInv, toBus # << >>, NEW m, m = Head(toBus)
  PROVE  /\ MessageIsOffer(m)
         /\ m.sim \in Sims
         /\ waits[m.sim] /\ toSim[m.sim] = << >>
         /\ m.sim \notin ready
         /\ OnBus(m.sim) = {1}
<1> USE DEF ScalarInv
<1>1. m = toBus[1] /\ 1 \in DOMAIN toBus
  <2>1. PICK M : toBus \in Seq(M)
    BY DEF Shapes
  <2>2. PICK q, r : q = toBus /\ r = Tail(q)
    OBVIOUS
  <2>3. q \in Seq(M) /\ q # << >>
    BY <2>1, <2>2
  <2>4. Len(q) \in Nat /\ Len(q) > 0 /\ DOMAIN q = 1..Len(q) /\ Head(q) = q[1]
    BY <2>2, <2>3, Shrinking
  <2> QED BY <2>2, <2>4
<1>2. MessageIsOffer(m)
  BY <1>1 DEF OffersStand
<1>3. m.sim \in Sims /\ 1 \in OnBus(m.sim)
  BY <1>1, <1>2 DEF MessageIsOffer, OnBus
<1>4. Offers(m.sim)
  BY <1>3 DEF Turns, Steps, IsGranted
<1>5. waits[m.sim] /\ toSim[m.sim] = << >>
  BY <1>4 DEF Offers
<1>6. m.sim \notin ready /\ OnBus(m.sim) = {1}
  BY <1>3, <1>4 DEF Offers
<1> QED BY <1>2, <1>3, <1>5, <1>6

\* The value known for a signal after the message.
LEMMA FinalAfter ==
  ASSUME ScalarInv, toBus # << >>, NEW m, m = Head(toBus),
         NEW c \in Channels, NEW x \in Known(c),
         NEW P, P = ready \cup {m.sim}
  PROVE  IF ChangedBy(P, c, x) = {} THEN Written(m.vectors, c, x) = busVal[c][x]
                                    ELSE Written(m.vectors, c, x) \in ChangedBy(P, c, x)
<1> USE DEF ScalarInv
<1> DEFINE D == {l \in LinksOf(m.sim) :
                   l.channel = c /\ x \in SignalsOf[l] /\ val[l][x] # scalar[l][x]}
           w == Written(m.vectors, c, x)
<1>1. MessageIsOffer(m) /\ m.sim \in Sims /\ toSim[m.sim] = << >>
  BY HeadIsOffer
<1>2. /\ D = {} => w = busFinal[c][x]
      /\ D # {} => \E l \in D : w = scalar[l][x]
  <2>1. PICK E : E = {l \in LinksOf(m.sim) :
                        l.channel = c /\ x \in SignalsOf[l] /\ val[l][x] # scalar[l][x]}
    OBVIOUS
  <2> HIDE DEF ScalarInv
  <2>2. /\ E = {} => w = busFinal[c][x]
        /\ E # {} => \E l \in E : w = scalar[l][x]
    BY <1>1, <2>1, WrittenIsOffered
  <2> QED BY <2>1, <2>2
<1>3. \A l \in LinksOf(m.sim) : l.channel = c /\ x \in SignalsOf[l] =>
        val[l][x] = busVal[c][x]
  BY <1>1 DEF Agreement
<1>4. \A l \in LinksOf(m.sim) : l.channel = c => l \in ChannelLinks(c)
  BY <1>1, LinkFacts
<1>5. ChangedBy(P, c, x) = ChangedBy(ready, c, x) \cup {scalar[l][x] : l \in D}
  <2>1. ASSUME NEW v \in ChangedBy(P, c, x)
        PROVE  v \in ChangedBy(ready, c, x) \cup {scalar[l][x] : l \in D}
    <3>1. PICK k \in ChannelLinks(c) :
            x \in SignalsOf[k] /\ (\E s \in P : k \in LinksOf(s)) /\ v = scalar[k][x]
      BY DEF ChangedBy
    <3>2. v # busVal[c][x] /\ k.channel = c
      BY <3>1 DEF ChangedBy, ChannelLinks
    <3>3. CASE k \in LinksOf(m.sim)
      <4>1. k \in D
        BY <1>3, <3>1, <3>2, <3>3
      <4> QED BY <3>1, <4>1
    <3>4. CASE \E s \in ready : k \in LinksOf(s)
      BY <3>1, <3>2, <3>4 DEF ChangedBy
    <3> QED BY <3>1, <3>3, <3>4
  <2>2. ASSUME NEW l \in D PROVE scalar[l][x] \in ChangedBy(P, c, x)
    <3>1. l \in ChannelLinks(c) /\ x \in SignalsOf[l] /\ l \in LinksOf(m.sim)
      BY <1>4
    <3>2. scalar[l][x] # busVal[c][x]
      BY <1>3
    <3> QED BY <3>1, <3>2 DEF ChangedBy
  <2>3. ChangedBy(ready, c, x) \subseteq ChangedBy(P, c, x)
    BY DEF ChangedBy
  <2> HIDE DEF D
  <2> QED BY <2>1, <2>2, <2>3
<1>6. IF ChangedBy(ready, c, x) = {} THEN busFinal[c][x] = busVal[c][x]
                                     ELSE busFinal[c][x] \in ChangedBy(ready, c, x)
  BY DEF FinalIsOffered
<1> HIDE DEF D, w, ScalarInv
<1>7. CASE D = {}
  BY <1>2, <1>5, <1>6, <1>7 DEF w
<1>8. CASE D # {}
  BY <1>2, <1>5, <1>8 DEF w
<1> QED BY <1>7, <1>8

\* It is a value.
LEMMA WrittenIsValue ==
  ASSUME ScalarInv, toBus # << >>, NEW m, m = Head(toBus),
         NEW c \in Channels, NEW x \in Known(c)
  PROVE  Written(m.vectors, c, x) \in Values
<1>1. PICK P : P = ready \cup {m.sim}
  OBVIOUS
<1>2. IF ChangedBy(P, c, x) = {} THEN Written(m.vectors, c, x) = busVal[c][x]
                                 ELSE Written(m.vectors, c, x) \in ChangedBy(P, c, x)
  BY <1>1, FinalAfter
<1>3. busVal[c][x] \in Values
  BY DEF ScalarInv, TypeOK
<1>4. ASSUME NEW k \in ChannelLinks(c), x \in SignalsOf[k] PROVE scalar[k][x] \in Values
  <2>1. k \in AllLinks
    BY DEF ChannelLinks, AllLinks
  <2> QED BY <1>4, <2>1 DEF ScalarInv, TypeOK
<1>5. ChangedBy(P, c, x) \subseteq Values
  BY <1>4 DEF ChangedBy
<1> QED BY <1>2, <1>3, <1>5

\* The oldest message is taken from the list.
LEMMA HandledMessage ==
  ASSUME ScalarInv, HandleModelReady, NEW m, m = Head(toBus)
  PROVE  /\ \E M : toBus' \in Seq(M)
         /\ \E n \in Nat :
              /\ n > 0 /\ DOMAIN toBus = 1..n /\ DOMAIN toBus' = 1..(n - 1)
              /\ toBus[1] = m
              /\ \A i \in 1..(n - 1) : toBus'[i] = toBus[i + 1]
<1>1. PICK M : toBus \in Seq(M)
  BY DEF ScalarInv, Shapes
<1>2. PICK q, r : q = toBus /\ r = toBus'
  OBVIOUS
<1>3. q \in Seq(M) /\ q # << >> /\ r = Tail(q)
  BY <1>1, <1>2 DEF HandleModelReady, PopBus
<1>4. /\ r \in Seq(M)
      /\ Len(q) \in Nat /\ Len(q) > 0
      /\ DOMAIN q = 1..Len(q) /\ DOMAIN r = 1..(Len(q) - 1)
      /\ \A i \in DOMAIN r : r[i] = q[i + 1]
      /\ Head(q) = q[1]
  BY <1>3, Shrinking
<1>5. PICK n \in Nat : n = Len(q) /\ n > 0
  BY <1>4
<1>6. /\ DOMAIN toBus = 1..n /\ toBus[1] = m /\ DOMAIN toBus' = 1..(n - 1)
      /\ \A i \in 1..(n - 1) : toBus'[i] = toBus[i + 1]
  BY <1>2, <1>4, <1>5
<1> QED BY <1>2, <1>4, <1>5, <1>6

\* What is left on the way to the SimBus.
LEMMA RestOnBus ==
  ASSUME ScalarInv, HandleModelReady, NEW m, m = Head(toBus)
  PROVE  /\ \E M : toBus' \in Seq(M)
         /\ \A i \in DOMAIN toBus' : MessageIsOffer(toBus[i])'
         /\ OnBus(m.sim)' = {}
         /\ \A t \in Sims \ {m.sim} :
              \/ OnBus(t) = {} /\ OnBus(t)' = {}
              \/ \E i \in DOMAIN toBus : OnBus(t) = {i}
                 /\ \E j \in DOMAIN toBus' : OnBus(t)' = {j}
<1>5. PICK n \in Nat :
        /\ n > 0 /\ DOMAIN toBus = 1..n /\ DOMAIN toBus' = 1..(n - 1)
        /\ toBus[1] = m
        /\ \A i \in 1..(n - 1) : toBus'[i] = toBus[i + 1]
  BY HandledMessage
<1>6. /\ DOMAIN toBus = 1..n /\ DOMAIN toBus' = 1..(n - 1)
      /\ \A i \in 1..(n - 1) : toBus'[i] = toBus[i + 1]
      /\ \E M : toBus' \in Seq(M)
  BY <1>5, HandledMessage
<1>7. OnBus(m.sim) = {1} /\ m.sim \in Sims
  BY HeadIsOffer DEF HandleModelReady
<1>8. \A t : \A i \in DOMAIN toBus' : i \in OnBus(t)' <=> i + 1 \in OnBus(t)
  BY <1>6 DEF OnBus
<1>9. UNCHANGED <<val, scalar>>
  BY DEF HandleModelReady, modelVars, functionVars
<1>10. ASSUME NEW i \in DOMAIN toBus' PROVE MessageIsOffer(toBus[i])'
  <2>1. PICK k : k = toBus'[i]
    OBVIOUS
  <2>2. k = toBus[i + 1] /\ i + 1 \in DOMAIN toBus
    BY <1>6, <2>1
  <2>3. MessageIsOffer(k)
    BY <2>2 DEF ScalarInv, OffersStand
  <2>4. MessageIsOffer(k)'
    BY <1>9, <2>3, OfferFrame
  <2> QED BY <2>1, <2>4, SameOffer
<1>11. OnBus(m.sim)' = {}
  <2>1. ASSUME NEW i \in DOMAIN toBus', i \in OnBus(m.sim)' PROVE FALSE
    <3>1. i + 1 = 1 /\ i \in 1..(n - 1)
      BY <1>6, <1>7, <1>8, <2>1
    <3> QED BY <3>1
  <2> QED BY <2>1 DEF OnBus
<1>12. ASSUME NEW t \in Sims \ {m.sim}
       PROVE  \/ OnBus(t) = {} /\ OnBus(t)' = {}
              \/ \E i \in DOMAIN toBus : OnBus(t) = {i}
                 /\ \E j \in DOMAIN toBus' : OnBus(t)' = {j}
  <2>1. 1 \notin OnBus(t)
    BY <1>7 DEF OnBus
  <2>2. OnBus(t)' \subseteq DOMAIN toBus' /\ OnBus(t) \subseteq DOMAIN toBus
    BY DEF OnBus
  <2>3. CASE OnBus(t) = {}
    BY <1>8, <2>2, <2>3
  <2>4. CASE \E i \in DOMAIN toBus : OnBus(t) = {i}
    <3>1. PICK i \in DOMAIN toBus : OnBus(t) = {i}
      BY <2>4
    <3>2. i \in 1..n /\ i # 1
      BY <1>6, <2>1, <3>1
    <3>3. i - 1 \in DOMAIN toBus' /\ (i - 1) + 1 = i
      BY <1>6, <3>2
    <3>4. i - 1 \in OnBus(t)'
      BY <1>8, <3>1, <3>3
    <3>5. ASSUME NEW j \in OnBus(t)' PROVE j = i - 1
      <4>1. j \in 1..(n - 1) /\ j + 1 = i
        BY <1>6, <1>8, <2>2, <3>1
      <4> QED BY <3>2, <4>1
    <3>6. OnBus(t)' = {i - 1}
      BY <3>4, <3>5
    <3> QED BY <3>1, <3>3, <3>6
  <2>5. OnBus(t) = {} \/ \E i \in DOMAIN toBus : OnBus(t) = {i}
    BY DEF ScalarInv, Turns, Steps, Offers, IsGranted
  <2> QED BY <2>3, <2>4, <2>5
<1> QED BY <1>6, <1>10, <1>11, <1>12

\* What the SimBus does with the values in any case.
LEMMA HandledValues ==
  ASSUME ScalarInv, HandleModelReady, NEW m, m = Head(toBus)
  PROVE  /\ UNCHANGED <<waits, val, scalar, reset>>
         /\ busFinal' = [c \in Channels |-> [x \in Known(c) |-> Written(m.vectors, c, x)]]
         /\ \A c \in Channels : busFinal'[c] \in [Known(c) -> Values]
<1>1. UNCHANGED <<waits, val, scalar, reset>>
  BY DEF HandleModelReady, modelVars, functionVars
<1>2. busFinal' = [c \in Channels |-> [x \in Known(c) |-> Written(m.vectors, c, x)]]
  BY DEF HandleModelReady
<1>3. \A c \in Channels : \A x \in Known(c) : Written(m.vectors, c, x) \in Values
  BY WrittenIsValue DEF HandleModelReady
<1> QED BY <1>1, <1>2, <1>3

LEMMA CountedKeeps ==
  ASSUME ScalarInv, HandleModelReady, NEW m, m = Head(toBus),
         ready \cup {m.sim} # Sims
  PROVE  ScalarInv'
<1>0. /\ ready' = ready \cup {m.sim}
      /\ UNCHANGED <<toSim, busVal>>
  BY DEF HandleModelReady
<1>1. /\ UNCHANGED <<waits, val, scalar, reset>>
      /\ busFinal' = [c \in Channels |-> [x \in Known(c) |-> Written(m.vectors, c, x)]]
      /\ \A c \in Channels : busFinal'[c] \in [Known(c) -> Values]
  BY HandledValues
<1>2. /\ MessageIsOffer(m)
      /\ m.sim \in Sims
      /\ waits[m.sim] /\ toSim[m.sim] = << >>
      /\ m.sim \notin ready
  BY HeadIsOffer DEF HandleModelReady
<1>3. /\ \E M : toBus' \in Seq(M)
      /\ \A i \in DOMAIN toBus' : MessageIsOffer(toBus[i])'
      /\ OnBus(m.sim)' = {}
      /\ \A t \in Sims \ {m.sim} :
           \/ OnBus(t) = {} /\ OnBus(t)' = {}
           \/ \E i \in DOMAIN toBus : OnBus(t) = {i}
              /\ \E j \in DOMAIN toBus' : OnBus(t)' = {j}
  BY RestOnBus
<1> USE DEF ScalarInv
<1>4. TypeOK'
  BY <1>0, <1>1, <1>2 DEF TypeOK
<1>5. Shapes'
  <2>1. busFinal' = [c \in Channels |-> busFinal'[c]]
    <3> HIDE DEF ScalarInv
    <3> QED BY <1>1
  <2> QED BY <1>0, <1>1, <1>3, <2>1 DEF Shapes
<1>6. Turns'
  <2> SUFFICES ASSUME NEW t \in Sims PROVE (Steps(t) \/ Offers(t) \/ IsGranted(t))'
    BY DEF Turns
  <2>1. waits'[t] = waits[t] /\ toSim'[t] = toSim[t]
    BY <1>0, <1>1
  <2>2. CASE t = m.sim
    <3>1. t \in ready'
      BY <1>0, <2>2
    <3> QED BY <1>2, <1>3, <2>1, <2>2, <3>1 DEF Offers
  <2>3. CASE t # m.sim
    <3>1. t \in ready' <=> t \in ready
      BY <1>0, <2>3
    <3>2. \/ OnBus(t) = {} /\ OnBus(t)' = {}
          \/ \E i \in DOMAIN toBus : OnBus(t) = {i}
             /\ \E j \in DOMAIN toBus' : OnBus(t)' = {j}
      BY <1>3, <2>3
    <3>3. CASE Steps(t)
      BY <2>1, <3>1, <3>2, <3>3 DEF Steps
    <3>4. CASE Offers(t)
      BY <2>1, <3>1, <3>2, <3>4 DEF Offers
    <3>5. CASE IsGranted(t)
      BY <2>1, <3>1, <3>2, <3>5 DEF IsGranted
    <3>6. Steps(t) \/ Offers(t) \/ IsGranted(t)
      BY DEF Turns
    <3> QED BY <3>3, <3>4, <3>5, <3>6
  <2> QED BY <2>2, <2>3
<1>7. OffersStand'
  BY <1>3 DEF OffersStand
<1>8. Agreement'
  BY <1>0, <1>1 DEF Agreement
<1>9. GrantCompletes'
  BY <1>0, <1>1 DEF GrantCompletes, Notified
<1>10. FinalIsOffered'
  <2> SUFFICES ASSUME NEW c \in Channels, NEW x \in Known(c)
               PROVE  IF ChangedBy(ready, c, x)' = {}
                      THEN busFinal'[c][x] = busVal'[c][x]
                      ELSE busFinal'[c][x] \in ChangedBy(ready, c, x)'
    BY DEF FinalIsOffered
  <2>1. PICK P : P = ready \cup {m.sim}
    OBVIOUS
  <2>2. IF ChangedBy(P, c, x) = {} THEN Written(m.vectors, c, x) = busVal[c][x]
                                   ELSE Written(m.vectors, c, x) \in ChangedBy(P, c, x)
    BY <2>1, FinalAfter DEF HandleModelReady
  <2>3. ChangedBy(ready, c, x)' = ChangedBy(P, c, x)
    BY <1>0, <1>1, <2>1 DEF ChangedBy
  <2>4. busFinal'[c][x] = Written(m.vectors, c, x)
    BY <1>1
  <2> QED BY <1>0, <2>2, <2>3, <2>4
<1> QED BY <1>4, <1>5, <1>6, <1>7, <1>8, <1>9, <1>10

\* The last offer of a round: what the SimBus sends, and to whom.
LEMMA ResolvedValues ==
  ASSUME ScalarInv, HandleModelReady, NEW m, m = Head(toBus),
         ready \cup {m.sim} = Sims
  PROVE  /\ ready' = {}
         /\ busVal' = busFinal'
         /\ \A t \in Sims : Offers(t)
         /\ \E d : /\ toSim' = [t \in Sims |-> <<d>>]
                   /\ \A c \in Channels :
                        d[c].scalars = [x \in {y \in Known(c) : busVal[c][y] # busFinal'[c][y]} |->
                                          busFinal'[c][x]]
<1> DEFINE newBin == [c \in Channels |-> busBin[c] \o Appended(m.vectors, c)]
<1>1. PICK f : f = [c \in Channels |-> [x \in Known(c) |-> Written(m.vectors, c, x)]]
  OBVIOUS
<1>2. /\ busFinal' = f /\ ready' = {} /\ busVal' = f
      /\ Notify(Sims, Delta(f, newBin))
  BY <1>1 DEF HandleModelReady, Resolved
<1>3. PICK d : d = Delta(f, newBin)
  OBVIOUS
<1>4. \A c \in Channels :
        d[c].scalars = [x \in {y \in Known(c) : busVal[c][y] # f[c][y]} |-> f[c][x]]
  BY <1>3 DEF Delta
<1>5. toSim' = [t \in Sims |-> Append(toSim[t], d)]
  <2> HIDE DEF newBin
  <2> QED BY <1>2, <1>3 DEF Notify
<1>6. ASSUME NEW t \in Sims PROVE Offers(t)
  <2>1. t \in ready \/ OnBus(t) = {1}
    BY HeadIsOffer DEF HandleModelReady
  <2> QED BY <2>1 DEF ScalarInv, Turns, Steps, Offers, IsGranted
<1>7. \A t \in Sims : Append(toSim[t], d) = <<d>>
  <2>1. Append(<< >>, d) = <<d>>
    OBVIOUS
  <2>2. \A t \in Sims : toSim[t] = << >>
    BY <1>6 DEF Offers
  <2> QED BY <2>1, <2>2
<1>8. toSim' = [t \in Sims |-> <<d>>]
  BY <1>5, <1>7
<1>9. \A c \in Channels :
        d[c].scalars = [x \in {y \in Known(c) : busVal[c][y] # busFinal'[c][y]} |->
                          busFinal'[c][x]]
  BY <1>2, <1>4
<1> HIDE DEF newBin
<1>10. ready' = {} /\ busVal' = busFinal'
  BY <1>2
<1> QED BY <1>6, <1>8, <1>9, <1>10

LEMMA ResolvedKeeps ==
  ASSUME ScalarInv, HandleModelReady, NEW m, m = Head(toBus),
         ready \cup {m.sim} = Sims
  PROVE  ScalarInv'
<1>1. /\ UNCHANGED <<waits, val, scalar, reset>>
      /\ busFinal' = [c \in Channels |-> [x \in Known(c) |-> Written(m.vectors, c, x)]]
      /\ \A c \in Channels : busFinal'[c] \in [Known(c) -> Values]
  BY HandledValues
<1>2. ready' = {} /\ busVal' = busFinal' /\ \A t \in Sims : Offers(t)
  BY ResolvedValues
<1>3. PICK d : /\ toSim' = [t \in Sims |-> <<d>>]
               /\ \A c \in Channels :
                    d[c].scalars = [x \in {y \in Known(c) : busVal[c][y] # busFinal'[c][y]} |->
                                      busFinal'[c][x]]
  BY ResolvedValues
<1>4. /\ \E M : toBus' \in Seq(M)
      /\ \A i \in DOMAIN toBus' : MessageIsOffer(toBus[i])'
      /\ OnBus(m.sim)' = {}
      /\ \A t \in Sims \ {m.sim} :
           \/ OnBus(t) = {} /\ OnBus(t)' = {}
           \/ \E i \in DOMAIN toBus : OnBus(t) = {i}
              /\ \E j \in DOMAIN toBus' : OnBus(t)' = {j}
  BY RestOnBus
<1>5. \A t \in Sims : toSim'[t] = <<d>> /\ toSim'[t][1] = d /\ toSim'[t] # << >>
  BY <1>3
<1> USE DEF ScalarInv
<1>6. TypeOK'
  BY <1>1, <1>2 DEF TypeOK
<1>7. Shapes'
  <2>1. busFinal' = [c \in Channels |-> busFinal'[c]]
    <3> HIDE DEF ScalarInv
    <3> QED BY <1>1
  <2>2. toSim' = [t \in Sims |-> toSim'[t]]
    <3> HIDE DEF ScalarInv
    <3> QED BY <1>3
  <2> QED BY <1>1, <1>2, <1>4, <2>1, <2>2 DEF Shapes
<1>8. Turns'
  <2> SUFFICES ASSUME NEW t \in Sims PROVE IsGranted(t)'
    BY DEF Turns
  <2>1. OnBus(t)' = {}
    <3>1. CASE t = m.sim
      BY <1>4, <3>1
    <3>2. CASE t # m.sim
      <4>1. t \in ready
        BY <3>2
      <4>2. OnBus(t) = {}
        BY <1>2, <4>1 DEF Offers
      <4> QED BY <1>4, <3>2, <4>2
    <3> QED BY <3>1, <3>2
  <2>2. waits'[t]
    BY <1>1, <1>2 DEF Offers
  <2> QED BY <1>2, <1>5, <2>1, <2>2 DEF IsGranted
<1>9. OffersStand'
  BY <1>4 DEF OffersStand
<1>10. Agreement'
  BY <1>5 DEF Agreement
<1>11. GrantCompletes'
  <2> SUFFICES ASSUME NEW t \in Sims, NEW l \in LinksOf(t)
               PROVE  Notified(l, toSim[t][1])' =
                        [x \in SignalsOf[l] |-> busVal'[l.channel][x]]
    BY DEF GrantCompletes
  <2>1. l.channel \in Channels /\ SignalsOf[l] \subseteq Known(l.channel)
    BY LinkFacts
  <2>2. \A x \in SignalsOf[l] : val[l][x] = busVal[l.channel][x]
    BY <1>2 DEF Offers, Agreement
  <2>3. d[l.channel].scalars =
          [x \in {y \in Known(l.channel) :
                    busVal[l.channel][y] # busFinal'[l.channel][y]} |->
             busFinal'[l.channel][x]]
    BY <1>3, <2>1
  <2>4. \A x \in SignalsOf[l] :
          (IF x \in DOMAIN d[l.channel].scalars
           THEN d[l.channel].scalars[x] ELSE val[l][x]) = busFinal'[l.channel][x]
    BY <2>1, <2>2, <2>3
  <2>5. Notified(l, toSim[t][1])' =
          [x \in SignalsOf[l] |->
             IF x \in DOMAIN d[l.channel].scalars
             THEN d[l.channel].scalars[x] ELSE val[l][x]]
    BY <1>1, <1>5 DEF Notified
  <2> QED BY <1>2, <2>4, <2>5
<1>12. FinalIsOffered'
  <2>1. \A c, x : ChangedBy(ready, c, x)' = {}
    BY <1>2 DEF ChangedBy
  <2> QED BY <1>2, <2>1 DEF FinalIsOffered
<1> QED BY <1>6, <1>7, <1>8, <1>9, <1>10, <1>11, <1>12

-----------------------------------------------------------------------------
\* At first every process steps, and all values are 0.
LEMMA InitScalarInv ==
  ASSUME Init
  PROVE  ScalarInv
<1> USE DEF Init, TransportInit, FunctionsInit
<1>1. \A l \in AllLinks : scalar[l] \in [SignalsOf[l] -> Values] /\ val[l] \in [SignalsOf[l] -> Values]
  BY SignalsAssumption DEF Zeros
<1>2. \A c \in Channels : /\ busVal[c] \in [Known(c) -> Values]
                          /\ busFinal[c] \in [Known(c) -> Values]
  BY SignalsAssumption
<1>3. TypeOK
  BY <1>1, <1>2 DEF TypeOK
<1>4. Shapes
  <2>1. toBus \in Seq({})
    OBVIOUS
  <2> QED BY <2>1 DEF Shapes, Zeros
<1>5. Turns
  <2>1. DOMAIN toBus = {}
    OBVIOUS
  <2> QED BY <2>1 DEF Turns, Steps, OnBus
<1>6. OffersStand
  BY DEF OffersStand
<1>7. Agreement
  <2> SUFFICES ASSUME NEW s \in Sims, NEW l \in LinksOf(s), NEW x \in SignalsOf[l]
               PROVE  val[l][x] = busVal[l.channel][x]
    BY DEF Agreement
  <2>1. l \in AllLinks /\ l.channel \in Channels /\ x \in Known(l.channel)
    BY LinkFacts
  <2> QED BY <2>1 DEF Zeros
<1>8. GrantCompletes
  BY DEF GrantCompletes
<1>9. FinalIsOffered
  <2>1. \A c, x : ChangedBy(ready, c, x) = {}
    BY DEF ChangedBy
  <2> QED BY <2>1 DEF FinalIsOffered
<1> QED BY <1>3, <1>4, <1>5, <1>6, <1>7, <1>8, <1>9 DEF ScalarInv

LEMMA NextScalarInv ==
  ASSUME ScalarInv, [Next]_vars
  PROVE  ScalarInv'
<1>1. CASE HandleModelReady
  <2>1. PICK m : m = Head(toBus)
    OBVIOUS
  <2>2. CASE ready \cup {m.sim} = Sims
    BY <1>1, <2>1, <2>2, ResolvedKeeps
  <2>3. CASE ready \cup {m.sim} # Sims
    BY <1>1, <2>1, <2>3, CountedKeeps
  <2> QED BY <2>2, <2>3
<1>2. ASSUME NEW s \in Sims, StepModel(s) PROVE ScalarInv'
  BY <1>2, StepModelKeeps
<1>3. ASSUME NEW s \in Sims, SendModelReady(s) PROVE ScalarInv'
  BY <1>3, SendModelReadyKeeps
<1>4. ASSUME NEW s \in Sims, ReceiveModelStart(s) PROVE ScalarInv'
  BY <1>4, ReceiveModelStartKeeps
<1>5. CASE UNCHANGED vars
  <2> USE <1>5 DEF vars, transportVars, modelVars, functionVars, signalBusVars
  <2>1. UNCHANGED <<toBus, toSim, waits, val, scalar, reset, ready, busVal, busFinal>>
    OBVIOUS
  <2>2. TypeOK'
    BY <2>1 DEF ScalarInv, TypeOK
  <2>3. Shapes'
    BY <2>1 DEF ScalarInv, Shapes
  <2>4. Turns'
    BY <2>1 DEF ScalarInv, Turns, Steps, Offers, IsGranted, OnBus
  <2>5. OffersStand'
    BY <2>1 DEF ScalarInv, OffersStand, MessageIsOffer, IsOffer
  <2>6. Agreement'
    BY <2>1 DEF ScalarInv, Agreement
  <2>7. GrantCompletes'
    BY <2>1 DEF ScalarInv, GrantCompletes, Notified
  <2>8. FinalIsOffered'
    BY <2>1 DEF ScalarInv, FinalIsOffered, ChangedBy
  <2> QED BY <2>2, <2>3, <2>4, <2>5, <2>6, <2>7, <2>8 DEF ScalarInv
<1> QED BY <1>1, <1>2, <1>3, <1>4, <1>5 DEF Next

-----------------------------------------------------------------------------
\* The theorems.

\* Every process steps, has offered or has been granted; what it offered
\* stands, and what it was granted completes what it knows (controller_step,
\* adapter.c; adapter_msg.c, simbus/adapter.c).
THEOREM ExchangeInvariant == Spec => []ScalarInv
<1>1. Init => ScalarInv
  BY InitScalarInv
<1>2. ScalarInv /\ [Next]_vars => ScalarInv'
  BY NextScalarInv
<1> QED BY <1>1, <1>2, PTL DEF Spec

\* Signals have values of the right kind, whoever holds them.
THEOREM ExchangeTypes == Spec => []TypeOK
<1>1. ScalarInv => TypeOK
  BY DEF ScalarInv
<1> QED BY <1>1, ExchangeInvariant, PTL

\* Only changes are sent (notify_encode_sv, resolve_and_notify), yet a process
\* to which no ModelStart is on its way knows every signal as the SimBus does.
THEOREM ValuesAgree == Spec => []Agreement
<1>1. ScalarInv => Agreement
  BY DEF ScalarInv
<1> QED BY <1>1, ExchangeInvariant, PTL

-----------------------------------------------------------------------------
\* The refinement of SharedSignals.

Turn == [s \in Sims |-> IF ~waits[s] THEN "step"
                        ELSE IF toSim[s] = << >> THEN "offered"
                        ELSE "granted"]

\* Both specifications speak of the same network.
LEMMA SameNetwork ==
  /\ \A s : Shared!LinksOf(s) = LinksOf(s)
  /\ Shared!AllLinks = AllLinks
  /\ \A c : Shared!ChannelLinks(c) = ChannelLinks(c)
  /\ \A c : Shared!Known(c) = Known(c)
<1>1. \A s : Shared!LinksOf(s) = LinksOf(s)
  BY DEF Shared!LinksOf, LinksOf
<1>2. Shared!AllLinks = AllLinks
  BY <1>1 DEF Shared!AllLinks, AllLinks
<1>3. \A c : Shared!ChannelLinks(c) = ChannelLinks(c)
  BY <1>1 DEF Shared!ChannelLinks, ChannelLinks
<1> QED BY <1>1, <1>2, <1>3 DEF Shared!Known, Known

\* A process whose two variables are left alone has its turn as before.
LEMMA TurnOf ==
  ASSUME NEW s \in Sims
  PROVE  /\ Turn[s] = IF ~waits[s] THEN "step"
                      ELSE IF toSim[s] = << >> THEN "offered" ELSE "granted"
         /\ Turn'[s] = IF ~waits'[s] THEN "step"
                       ELSE IF toSim'[s] = << >> THEN "offered" ELSE "granted"
BY DEF Turn

LEMMA StepModelWrites ==
  ASSUME ScalarInv, NEW s \in Sims, StepModel(s)
  PROVE  [Shared!SharedNext]_(Shared!sharedVars)
<1>1. UNCHANGED <<waits, toSim, busVal>> /\ ~waits[s]
  BY DEF StepModel, signalBusVars, transportVars
<1>2. Turn' = Turn
  BY <1>1 DEF Turn
<1>3. CASE WriteScalar(s)
  <2>1. \E l \in LinksOf(s) : \E x \in SignalsOf[l], v \in Values :
          scalar' = [scalar EXCEPT ![l][x] = v]
    BY <1>3 DEF WriteScalar
  <2>2. Turn[s] = "step"
    BY <1>1 DEF Turn
  <2>3. Shared!Write(s)
    BY <1>1, <1>2, <2>1, <2>2, SameNetwork DEF Shared!Write, Turn
  <2> QED BY <2>3 DEF Shared!SharedNext
<1>4. CASE ResetBinary(s) \/ AppendBinary(s)
  <2>1. scalar' = scalar
    BY <1>4 DEF ResetBinary, AppendBinary
  <2> QED BY <1>1, <1>2, <2>1 DEF Shared!sharedVars, Turn
<1> QED BY <1>3, <1>4 DEF StepModel, StepFunction

LEMMA SendModelReadyOffers ==
  ASSUME ScalarInv, NEW s \in Sims, SendModelReady(s)
  PROVE  Shared!Offer(s)
<1>1. UNCHANGED <<scalar, busVal, toSim>> /\ ~waits[s]
  BY DEF SendModelReady, MarshalOut, signalBusVars
<1>2. waits' = [waits EXCEPT ![s] = TRUE]
  BY DEF SendModelReady
<1>3. \A t \in Sims : waits'[t] = IF t = s THEN TRUE ELSE waits[t]
  BY <1>2 DEF ScalarInv, TypeOK
<1>4. toSim[s] = << >>
  BY <1>1 DEF ScalarInv, Turns, Steps, Offers, IsGranted
<1>5. Turn[s] = "step"
  BY <1>1 DEF Turn
<1>6. Turn'[s] = "offered"
  BY <1>1, <1>3, <1>4, TurnOf
<1>7. \A t \in Sims \ {s} : Turn'[t] = Turn[t]
  BY <1>1, <1>3, TurnOf
<1>8. Turn' = [Turn EXCEPT ![s] = "offered"]
  BY <1>6, <1>7 DEF Turn
<1> QED BY <1>1, <1>5, <1>8 DEF Shared!Offer, Turn

LEMMA ReceiveModelStartTakes ==
  ASSUME ScalarInv, NEW s \in Sims, ReceiveModelStart(s)
  PROVE  Shared!Take(s)
<1>1. /\ scalar' = [l \in AllLinks |-> scalar'[l]]
      /\ \A l \in LinksOf(s) :
           /\ val'[l] = [x \in SignalsOf[l] |-> busVal[l.channel][x]]
           /\ scalar'[l] = val'[l]
      /\ \A l \in AllLinks : l \notin LinksOf(s) => scalar'[l] = scalar[l]
  BY ReceivedValues
<1>2. scalar' = [l \in AllLinks |->
                   IF l \in LinksOf(s)
                   THEN [x \in SignalsOf[l] |-> busVal[l.channel][x]]
                   ELSE scalar[l]]
  BY <1>1
<1>3. busVal' = busVal /\ waits[s] /\ toSim[s] # << >>
  BY DEF ReceiveModelStart, signalBusVars
<1>4. \A t \in Sims : waits'[t] = IF t = s THEN FALSE ELSE waits[t]
  BY DEF ReceiveModelStart, ScalarInv, TypeOK
<1>5. \A t \in Sims \ {s} : toSim'[t] = toSim[t]
  BY DEF ReceiveModelStart, PopSim, ScalarInv, Shapes
<1>6. Turn[s] = "granted"
  BY <1>3, TurnOf
<1>7. Turn'[s] = "step"
  BY <1>4, TurnOf
<1>8. \A t \in Sims \ {s} : Turn'[t] = Turn[t]
  BY <1>4, <1>5, TurnOf
<1>9. Turn' = [Turn EXCEPT ![s] = "step"]
  BY <1>7, <1>8 DEF Turn
<1> QED BY <1>2, <1>3, <1>6, <1>9, SameNetwork DEF Shared!Take, Turn

LEMMA HandleModelReadyExchanges ==
  ASSUME ScalarInv, HandleModelReady
  PROVE  [Shared!SharedNext]_(Shared!sharedVars)
<1>1. PICK m : m = Head(toBus)
  OBVIOUS
<1>2. UNCHANGED <<waits, scalar>>
  BY DEF HandleModelReady, modelVars, functionVars
<1>3. CASE ready \cup {m.sim} # Sims
  <2>1. UNCHANGED <<toSim, busVal>>
    BY <1>1, <1>3 DEF HandleModelReady
  <2> QED BY <1>2, <2>1 DEF Shared!sharedVars
<1>4. CASE ready \cup {m.sim} = Sims
  <2>1. busVal' = busFinal' /\ \A t \in Sims : Offers(t)
    BY <1>1, <1>4, ResolvedValues
  <2>2. \A t \in Sims : toSim'[t] # << >>
    BY <1>1, <1>4, ResolvedValues
  <2>3. Turn = [t \in Sims |-> "offered"]
    BY <2>1 DEF Turn, Offers
  <2>4. Turn' = [t \in Sims |-> "granted"]
    <3>1. \A t \in Sims : Turn'[t] = "granted"
      BY <1>2, <2>1, <2>2, TurnOf DEF Offers
    <3> QED BY <3>1 DEF Turn
  <2>5. busFinal' = [c \in Channels |-> [x \in Known(c) |-> Written(m.vectors, c, x)]]
    BY <1>1, HandledValues
  <2>6. busVal' = [c \in Channels |-> [x \in Known(c) |-> busVal'[c][x]]]
    BY <2>1, <2>5
  <2>7. ASSUME NEW c \in Channels, NEW x \in Known(c)
        PROVE  IF Shared!Changes(c, x) = {} THEN busVal'[c][x] = busVal[c][x]
                                            ELSE busVal'[c][x] \in Shared!Changes(c, x)
    <3>1. IF ChangedBy(Sims, c, x) = {} THEN Written(m.vectors, c, x) = busVal[c][x]
                                        ELSE Written(m.vectors, c, x) \in ChangedBy(Sims, c, x)
      BY <1>1, <1>4, FinalAfter DEF HandleModelReady
    <3>2. \A k \in ChannelLinks(c) : \E s \in Sims : k \in LinksOf(s)
      BY DEF ChannelLinks
    <3>3. ChangedBy(Sims, c, x) =
            {scalar[l][x] : l \in {k \in ChannelLinks(c) : x \in SignalsOf[k]}}
              \ {busVal[c][x]}
      BY <3>2 DEF ChangedBy
    <3>4. Shared!Changes(c, x) = ChangedBy(Sims, c, x)
      BY <3>3, SameNetwork DEF Shared!Changes
    <3>5. busVal'[c][x] = Written(m.vectors, c, x)
      BY <2>1, <2>5
    <3> QED BY <3>1, <3>4, <3>5
  <2>8. Shared!Exchange
    BY <1>2, <2>3, <2>4, <2>6, <2>7, SameNetwork DEF Shared!Exchange, Turn
  <2> QED BY <2>8 DEF Shared!SharedNext
<1> QED BY <1>3, <1>4

\* What the models see of the exchange is one shared value for each signal: it
\* keeps its value or takes one that a model changed it to (resolve_channel,
\* notify_model).
THEOREM ExchangeIsShared == Spec => ImplementsSharedSignals
<1>1. Init => Shared!SharedInit
  <2> SUFFICES ASSUME Init PROVE Shared!SharedInit
    OBVIOUS
  <2>1. \A s \in Sims : Turn[s] = "step"
    BY DEF Init, Turn
  <2>2. Turn = [s \in Sims |-> "step"]
    BY <2>1 DEF Turn
  <2>3. scalar = [l \in AllLinks |-> [x \in SignalsOf[l] |-> 0]]
    BY DEF Init, Zeros
  <2>4. busVal = [c \in Channels |-> [x \in Known(c) |-> 0]]
    BY DEF Init
  <2> QED BY <2>2, <2>3, <2>4, SameNetwork DEF Shared!SharedInit, Turn
<1>2. ScalarInv /\ [Next]_vars => [Shared!SharedNext]_(Shared!sharedVars)
  <2> SUFFICES ASSUME ScalarInv, [Next]_vars
               PROVE  [Shared!SharedNext]_(Shared!sharedVars)
    OBVIOUS
  <2>1. CASE HandleModelReady
    BY <2>1, HandleModelReadyExchanges
  <2>2. ASSUME NEW s \in Sims, StepModel(s)
        PROVE  [Shared!SharedNext]_(Shared!sharedVars)
    BY <2>2, StepModelWrites
  <2>3. ASSUME NEW s \in Sims, SendModelReady(s)
        PROVE  [Shared!SharedNext]_(Shared!sharedVars)
    BY <2>3, SendModelReadyOffers DEF Shared!SharedNext
  <2>4. ASSUME NEW s \in Sims, ReceiveModelStart(s)
        PROVE  [Shared!SharedNext]_(Shared!sharedVars)
    BY <2>4, ReceiveModelStartTakes DEF Shared!SharedNext
  <2>5. CASE UNCHANGED vars
    BY <2>5 DEF vars, transportVars, modelVars, functionVars, signalBusVars,
                Shared!sharedVars
  <2> QED BY <2>1, <2>2, <2>3, <2>4, <2>5 DEF Next
<1> QED BY <1>1, <1>2, ExchangeInvariant, PTL
        DEF Spec, ImplementsSharedSignals, Shared!SharedSpec

-----------------------------------------------------------------------------
\* Sequences of payloads one after the other.

\* A set of positions that holds the first and with each the next holds all.
LEMMA Upwards ==
  ASSUME NEW n \in Nat, NEW T, n > 0 => 1 \in T,
         \A i \in 1..n : i \in T /\ i < n => i + 1 \in T
  PROVE  \A i \in 1..n : i \in T
<1> DEFINE U == {i \in 1..n : i \notin T}
<1>1. U = {}
  <2> SUFFICES ASSUME U # {} PROVE FALSE
    OBVIOUS
  <2>1. U \subseteq Nat
    OBVIOUS
  <2>2. PICK k \in U : \A j \in U : k <= j
    <3> HIDE DEF U
    <3> QED BY <2>1, LeastNatural
  <2>3. k \in 1..n /\ k # 1
    OBVIOUS
  <2>4. k - 1 \in 1..n /\ k - 1 < n /\ (k - 1) + 1 = k
    BY <2>3
  <2>5. k - 1 \notin U
    BY <2>2, <2>3, <2>4
  <2> QED BY <2>4, <2>5
<1> QED BY <1>1

\* FlattenSeq is defined by recursion: its value is the last of those that the
\* recursion gives for the beginnings of the sequence.
Begins(f, ss, k) ==
  /\ f[1] = ss[1]
  /\ \A i \in 1..k : i < k => f[i + 1] = f[i] \o ss[i + 1]

LEMMA BeginningsExist ==
  ASSUME NEW S, NEW n \in Nat, n > 0, NEW ss \in [1..n -> Seq(S)]
  PROVE  \E f \in [1..n -> Seq(S)] : Begins(f, ss, n)
<1> DEFINE T == {k \in 1..n : \E f \in [1..k -> Seq(S)] : Begins(f, ss, k)}
<1>1. 1 \in T
  <2> DEFINE f == [i \in 1..1 |-> ss[1]]
  <2>1. f \in [1..1 -> Seq(S)] /\ f[1] = ss[1]
    OBVIOUS
  <2> HIDE DEF f
  <2>2. Begins(f, ss, 1)
    BY <2>1 DEF Begins
  <2>3. 1 \in 1..n
    OBVIOUS
  <2>4. \E h \in [1..1 -> Seq(S)] : Begins(h, ss, 1)
    BY <2>1, <2>2
  <2> QED BY <2>3, <2>4
<1>2. ASSUME NEW k \in 1..n, k \in T, k < n PROVE k + 1 \in T
  <2>1. PICK f \in [1..k -> Seq(S)] : Begins(f, ss, k)
    BY <1>2
  <2>2. PICK v \in Seq(S) : v = f[k] \o ss[k + 1]
    <3>1. f[k] \in Seq(S) /\ ss[k + 1] \in Seq(S)
      BY <1>2
    <3> QED BY <3>1, ConcatProperties
  <2> DEFINE g == [i \in 1..(k + 1) |-> IF i = k + 1 THEN v ELSE f[i]]
  <2>3. /\ g \in [1..(k + 1) -> Seq(S)]
        /\ g[k + 1] = v
        /\ \A i \in 1..k : g[i] = f[i]
    OBVIOUS
  <2> HIDE DEF g
  <2>4. g[1] = ss[1]
    BY <2>1, <2>3 DEF Begins
  <2>5. ASSUME NEW i \in 1..(k + 1), i < k + 1 PROVE g[i + 1] = g[i] \o ss[i + 1]
    <3>1. g[i] = f[i] /\ i \in 1..k
      BY <2>3, <2>5
    <3>2. CASE i = k
      <4>1. g[i + 1] = v
        BY <2>3, <3>2
      <4> QED BY <2>2, <3>1, <3>2, <4>1
    <3>3. CASE i < k
      <4>1. i + 1 \in 1..k
        BY <3>3
      <4>2. g[i + 1] = f[i + 1]
        BY <2>3, <4>1
      <4>3. f[i + 1] = f[i] \o ss[i + 1]
        BY <2>1, <3>1, <3>3 DEF Begins
      <4> QED BY <3>1, <4>2, <4>3
    <3>4. i = k \/ i < k
      BY <3>1
    <3> QED BY <3>2, <3>3, <3>4
  <2>6. Begins(g, ss, k + 1)
    BY <2>4, <2>5 DEF Begins
  <2>7. k + 1 \in 1..n
    BY <1>2
  <2> QED BY <2>3, <2>6, <2>7
<1>3. n \in T
  <2> HIDE DEF T
  <2>1. \A i \in 1..n : i \in T /\ i < n => i + 1 \in T
    BY <1>2
  <2>2. \A i \in 1..n : i \in T
    BY <1>1, <2>1, Upwards
  <2> QED BY <2>2
<1> QED BY <1>3

LEMMA FlattenSteps ==
  ASSUME NEW S, NEW n \in Nat, n > 0, NEW ss \in [1..n -> Seq(S)]
  PROVE  \E f \in [1..n -> Seq(S)] : Begins(f, ss, n) /\ FlattenSeq(ss) = f[n]
<1> DEFINE Cat(a, b) == a \o b
           Solution(f) == [i \in 1..n |-> IF i = 1 THEN ss[i] ELSE Cat(f[i - 1], ss[i])]
<1>1. PICK f \in [1..n -> Seq(S)] : Begins(f, ss, n)
  BY BeginningsExist
<1>2. f[1] = ss[1] /\ \A i \in 1..n : i < n => f[i + 1] = Cat(f[i], ss[i + 1])
  BY <1>1 DEF Begins
<1>3. FlattenSeq(ss) = (CHOOSE h : h = Solution(h))[n]
  <2>1. Len(ss) = n
    OBVIOUS
  <2> QED BY <2>1 DEF FlattenSeq
<1> HIDE DEF Cat
<1>4. f = Solution(f)
  <2>1. ASSUME NEW i \in 1..n PROVE f[i] = IF i = 1 THEN ss[i] ELSE Cat(f[i - 1], ss[i])
    <3>1. CASE i = 1
      BY <1>2, <3>1
    <3>2. CASE i # 1
      <4>1. i - 1 \in 1..n /\ i - 1 < n /\ (i - 1) + 1 = i
        BY <3>2
      <4>2. f[(i - 1) + 1] = Cat(f[i - 1], ss[(i - 1) + 1])
        BY <1>2, <4>1
      <4> QED BY <3>2, <4>1, <4>2
    <3> QED BY <3>1, <3>2
  <2> QED BY <2>1
<1> DEFINE flatten == CHOOSE h : h = Solution(h)
<1>5. flatten = Solution(flatten)
  <2> HIDE DEF Solution
  <2> QED BY <1>4
<1> HIDE DEF flatten
<1>6. \A i \in 1..n : flatten[i] = IF i = 1 THEN ss[i] ELSE Cat(flatten[i - 1], ss[i])
  <2>1. PICK h : h = flatten
    OBVIOUS
  <2>2. h = Solution(h)
    BY <1>5, <2>1
  <2>3. \A i \in 1..n : h[i] = IF i = 1 THEN ss[i] ELSE Cat(h[i - 1], ss[i])
    BY <2>2
  <2> QED BY <2>1, <2>3
<1>7. \A i \in 1..n : flatten[i] = f[i]
  <2> DEFINE E == {i \in 1..n : flatten[i] = f[i]}
  <2>1. 1 \in E
    BY <1>2, <1>6
  <2>2. ASSUME NEW i \in 1..n, i \in E, i < n PROVE i + 1 \in E
    <3>1. i + 1 \in 1..n /\ i + 1 # 1 /\ (i + 1) - 1 = i
      BY <2>2
    <3>2. flatten[i + 1] = Cat(flatten[(i + 1) - 1], ss[i + 1])
      BY <1>6, <3>1
    <3>3. f[i + 1] = Cat(f[i], ss[i + 1])
      BY <1>2, <2>2
    <3>4. flatten[i] = f[i]
      BY <2>2
    <3>5. flatten[i + 1] = f[i + 1]
      BY <3>1, <3>2, <3>3, <3>4
    <3> QED BY <3>1, <3>5
  <2> HIDE DEF E
  <2>3. \A i \in 1..n : i \in E
    BY <2>1, <2>2, Upwards
  <2> QED BY <2>3 DEF E
<1>8. FlattenSeq(ss) = f[n]
  <2>1. n \in 1..n
    OBVIOUS
  <2> QED BY <1>3, <1>7, <2>1 DEF flatten
<1> QED BY <1>1, <1>8

LEMMA ConcatElements ==
  ASSUME NEW S, NEW a \in Seq(S), NEW b \in Seq(S)
  PROVE  ToSet(a \o b) = ToSet(a) \cup ToSet(b)
<1> DEFINE q == a \o b
<1>1. /\ Len(a) \in Nat /\ Len(b) \in Nat
      /\ DOMAIN a = 1..Len(a) /\ DOMAIN b = 1..Len(b) /\ DOMAIN q = 1..(Len(a) + Len(b))
      /\ \A i \in 1..(Len(a) + Len(b)) :
           q[i] = IF i <= Len(a) THEN a[i] ELSE b[i - Len(a)]
  BY ConcatProperties, LenProperties
<1> HIDE DEF q
<1>2. ASSUME NEW i \in DOMAIN q PROVE q[i] \in ToSet(a) \cup ToSet(b)
  <2>1. CASE i <= Len(a)
    <3>1. i \in DOMAIN a /\ q[i] = a[i]
      BY <1>1, <2>1
    <3> QED BY <3>1 DEF ToSet
  <2>2. CASE ~(i <= Len(a))
    <3>1. i - Len(a) \in DOMAIN b /\ q[i] = b[i - Len(a)]
      BY <1>1, <2>2
    <3> QED BY <3>1 DEF ToSet
  <2> QED BY <2>1, <2>2
<1>3. ASSUME NEW i \in DOMAIN a PROVE a[i] \in ToSet(q)
  <2>1. i \in DOMAIN q /\ q[i] = a[i]
    BY <1>1
  <2> QED BY <2>1 DEF ToSet
<1>4. ASSUME NEW i \in DOMAIN b PROVE b[i] \in ToSet(q)
  <2>1. i + Len(a) \in DOMAIN q /\ i + Len(a) \in Int /\ ~(i + Len(a) <= Len(a))
        /\ (i + Len(a)) - Len(a) = i
    BY <1>1
  <2>2. q[i + Len(a)] = b[i]
    BY <1>1, <2>1
  <2> QED BY <2>1, <2>2 DEF ToSet
<1>5. ToSet(q) = ToSet(a) \cup ToSet(b)
  <2>1. ToSet(q) \subseteq ToSet(a) \cup ToSet(b)
    <3> SUFFICES ASSUME NEW p \in ToSet(q) PROVE p \in ToSet(a) \cup ToSet(b)
      OBVIOUS
    <3>1. \E i \in DOMAIN q : p = q[i]
      BY DEF ToSet
    <3> QED BY <1>2, <3>1
  <2>2. ToSet(a) \subseteq ToSet(q)
    BY <1>3 DEF ToSet
  <2>3. ToSet(b) \subseteq ToSet(q)
    BY <1>4 DEF ToSet
  <2> QED BY <2>1, <2>2, <2>3
<1> QED BY <1>5 DEF q

\* What is appended is new to what was there.
LEMMA ConcatOrdered ==
  ASSUME NEW a \in Seq(Payload), NEW b \in Seq(Payload), Ordered(a), Ordered(b),
         \A p \in ToSet(a), r \in ToSet(b) : p[1] = r[1] => p[2] < r[2]
  PROVE  Ordered(a \o b)
<1> DEFINE q == a \o b
<1>1. /\ Len(a) \in Nat /\ Len(b) \in Nat
      /\ DOMAIN a = 1..Len(a) /\ DOMAIN b = 1..Len(b) /\ DOMAIN q = 1..(Len(a) + Len(b))
      /\ \A i \in 1..(Len(a) + Len(b)) :
           q[i] = IF i <= Len(a) THEN a[i] ELSE b[i - Len(a)]
  BY ConcatProperties, LenProperties
<1> HIDE DEF q
<1>2. ASSUME NEW i \in DOMAIN q, NEW j \in DOMAIN q, i < j, q[i][1] = q[j][1]
      PROVE  q[i][2] < q[j][2]
  <2>1. CASE j <= Len(a)
    <3>1. i \in DOMAIN a /\ j \in DOMAIN a /\ q[i] = a[i] /\ q[j] = a[j]
      BY <1>1, <1>2, <2>1
    <3> QED BY <1>2, <3>1 DEF Ordered
  <2>2. CASE i <= Len(a) /\ ~(j <= Len(a))
    <3>1. i \in DOMAIN a /\ j - Len(a) \in DOMAIN b
      BY <1>1, <2>2
    <3>2. q[i] = a[i] /\ q[j] = b[j - Len(a)]
      BY <1>1, <2>2
    <3>3. q[i] \in ToSet(a) /\ q[j] \in ToSet(b)
      BY <3>1, <3>2 DEF ToSet
    <3> QED BY <1>2, <3>3
  <2>3. CASE ~(i <= Len(a))
    <3>1. i - Len(a) \in DOMAIN b /\ j - Len(a) \in DOMAIN b /\ i - Len(a) < j - Len(a)
      BY <1>1, <1>2, <2>3
    <3>2. q[i] = b[i - Len(a)] /\ q[j] = b[j - Len(a)]
      BY <1>1, <1>2, <2>3
    <3> QED BY <1>2, <3>1, <3>2 DEF Ordered
  <2>4. i \in Int /\ j \in Int
    BY <1>1
  <2> QED BY <1>1, <1>2, <2>1, <2>2, <2>3, <2>4
<1>3. Ordered(q)
  BY <1>2 DEF Ordered
<1> QED BY <1>3 DEF q

\* FlattenSeq has the elements of its parts, and if no writer has a payload in
\* two of them it has them in the order of each writer.
LEMMA FlattenElements ==
  ASSUME NEW n \in Nat, n > 0, NEW ss \in [1..n -> Seq(Payload)]
  PROVE  /\ FlattenSeq(ss) \in Seq(Payload)
         /\ ToSet(FlattenSeq(ss)) = UNION {ToSet(ss[i]) : i \in 1..n}
         /\ (/\ \A i \in 1..n : Ordered(ss[i])
             /\ \A i, j \in 1..n : i # j =>
                  \A p \in ToSet(ss[i]), r \in ToSet(ss[j]) : p[1] # r[1])
            => Ordered(FlattenSeq(ss))
<1>1. PICK f \in [1..n -> Seq(Payload)] : Begins(f, ss, n) /\ FlattenSeq(ss) = f[n]
  <2> HIDE DEF Payload
  <2> QED BY FlattenSteps
<1> DEFINE Parts(k) == UNION {ToSet(ss[i]) : i \in 1..k}
           T == {k \in 1..n : ToSet(f[k]) = Parts(k)}
           O == {k \in 1..n : Ordered(f[k])}
<1>2. \A i \in 1..n : i \in T
  <2>1. 1 \in T
    BY <1>1 DEF Begins
  <2>2. ASSUME NEW i \in 1..n, i \in T, i < n PROVE i + 1 \in T
    <3>1. i + 1 \in 1..n
      BY <2>2
    <3>2. f[i + 1] = f[i] \o ss[i + 1]
      BY <1>1, <2>2 DEF Begins
    <3>3. f[i] \in Seq(Payload) /\ ss[i + 1] \in Seq(Payload)
      BY <3>1
    <3>4. ToSet(f[i + 1]) = ToSet(f[i]) \cup ToSet(ss[i + 1])
      BY <3>2, <3>3, ConcatElements
    <3>5. Parts(i + 1) = Parts(i) \cup ToSet(ss[i + 1])
      <4>1. 1..(i + 1) = 1..i \cup {i + 1}
        OBVIOUS
      <4> QED BY <4>1
    <3> HIDE DEF Parts
    <3> QED BY <2>2, <3>1, <3>4, <3>5
  <2> HIDE DEF T
  <2> QED BY <2>1, <2>2, Upwards
<1>3. ASSUME \A i \in 1..n : Ordered(ss[i]),
             \A i, j \in 1..n : i # j =>
               \A p \in ToSet(ss[i]), r \in ToSet(ss[j]) : p[1] # r[1]
      PROVE  \A i \in 1..n : i \in O
  <2>1. 1 \in O
    BY <1>1, <1>3 DEF Begins
  <2>2. ASSUME NEW i \in 1..n, i \in O, i < n PROVE i + 1 \in O
    <3>1. i + 1 \in 1..n
      BY <2>2
    <3>2. f[i + 1] = f[i] \o ss[i + 1]
      BY <1>1, <2>2 DEF Begins
    <3>3. f[i] \in Seq(Payload) /\ ss[i + 1] \in Seq(Payload)
      BY <3>1
    <3>4. ASSUME NEW p \in ToSet(f[i]), NEW r \in ToSet(ss[i + 1]) PROVE p[1] # r[1]
      <4>1. p \in Parts(i)
        BY <1>2
      <4>2. PICK j \in 1..i : p \in ToSet(ss[j])
        BY <4>1
      <4>3. j \in 1..n /\ j # i + 1
        BY <3>1
      <4> QED BY <1>3, <3>1, <4>2, <4>3
    <3>5. Ordered(f[i]) /\ Ordered(ss[i + 1])
      BY <1>3, <2>2, <3>1
    <3>6. Ordered(f[i + 1])
      BY <3>2, <3>3, <3>4, <3>5, ConcatOrdered
    <3> QED BY <3>1, <3>6
  <2> HIDE DEF O
  <2> QED BY <2>1, <2>2, Upwards
<1>4. n \in 1..n
  OBVIOUS
<1>5. FlattenSeq(ss) \in Seq(Payload) /\ ToSet(FlattenSeq(ss)) = Parts(n)
  BY <1>1, <1>2, <1>4
<1>6. ASSUME \A i \in 1..n : Ordered(ss[i]),
             \A i, j \in 1..n : i # j =>
               \A p \in ToSet(ss[i]), r \in ToSet(ss[j]) : p[1] # r[1]
      PROVE  Ordered(FlattenSeq(ss))
  BY <1>1, <1>3, <1>4, <1>6
<1> QED BY <1>5, <1>6

-----------------------------------------------------------------------------
\* The data of a message.

LEMMA LinkOfVector ==
  ASSUME NEW m, MessageIsOffer(m), NEW k \in DOMAIN m.vectors
  PROVE  /\ m.sim \in Sims
         /\ m.vectors[k].link \in LinksOf(m.sim)
         /\ m.vectors[k].link \in AllLinks
<1>1. m.sim \in Sims /\ k \in DOMAIN Links[m.sim]
  BY DEF MessageIsOffer
<1>2. m.vectors[k].link = Links[m.sim][k]
  BY <1>1 DEF MessageIsOffer, IsOffer
<1> QED BY <1>1, <1>2, LinkFacts DEF LinksOf

\* What a message adds to the stream of channel c.
LEMMA AppendedFacts ==
  ASSUME NEW m, MessageIsOffer(m), NEW c,
         \A k \in DOMAIN m.vectors : m.vectors[k].data \in Seq(Payload)
  PROVE  /\ Appended(m.vectors, c) \in Seq(Payload)
         /\ ToSet(Appended(m.vectors, c)) =
              UNION {ToSet(m.vectors[k].data) :
                       k \in {j \in DOMAIN m.vectors : m.vectors[j].link.channel = c}}
         /\ (\A k \in DOMAIN m.vectors : IsNew(m.vectors[k].data, m.vectors[k].link))
            => Ordered(Appended(m.vectors, c))
<1> DEFINE n == Len(Links[m.sim])
           part(i) == IF m.vectors[i].link.channel = c THEN m.vectors[i].data ELSE << >>
<1>1. /\ m.sim \in Sims /\ n \in Nat /\ n > 0
      /\ DOMAIN Links[m.sim] = 1..n /\ DOMAIN m.vectors = 1..n
      /\ \A k \in 1..n : m.vectors[k].link = Links[m.sim][k]
  <2>1. m.sim \in Sims /\ DOMAIN m.vectors = DOMAIN Links[m.sim]
    BY DEF MessageIsOffer
  <2>2. n \in Nat /\ n > 0 /\ DOMAIN Links[m.sim] = 1..n
    BY <2>1, TopologyAssumption
  <2>3. \A k \in DOMAIN Links[m.sim] : m.vectors[k].link = Links[m.sim][k]
    BY DEF MessageIsOffer, IsOffer
  <2> QED BY <2>1, <2>2, <2>3
<1>2. PICK ss : ss = [i \in 1..n |-> part(i)]
  OBVIOUS
<1>3. Appended(m.vectors, c) = FlattenSeq(ss)
  BY <1>1, <1>2 DEF Appended
<1>4. \A i \in 1..n : ss[i] = part(i)
  BY <1>2
<1>5. << >> \in Seq(Payload) /\ ToSet(<< >>) = {} /\ Ordered(<< >>)
  BY DEF ToSet, Ordered
<1> HIDE DEF n
<1>6. ss \in [1..n -> Seq(Payload)]
  BY <1>1, <1>2, <1>5
<1>7. /\ FlattenSeq(ss) \in Seq(Payload)
      /\ ToSet(FlattenSeq(ss)) = UNION {ToSet(ss[i]) : i \in 1..n}
      /\ (/\ \A i \in 1..n : Ordered(ss[i])
          /\ \A i, j \in 1..n : i # j =>
               \A p \in ToSet(ss[i]), r \in ToSet(ss[j]) : p[1] # r[1])
         => Ordered(FlattenSeq(ss))
  BY <1>1, <1>6, FlattenElements
<1>8. UNION {ToSet(ss[i]) : i \in 1..n} =
        UNION {ToSet(m.vectors[k].data) :
                 k \in {j \in 1..n : m.vectors[j].link.channel = c}}
  <2>1. \A i \in 1..n : ToSet(ss[i]) = IF m.vectors[i].link.channel = c
                                       THEN ToSet(m.vectors[i].data) ELSE {}
    BY <1>4, <1>5
  <2> QED BY <2>1
<1>9. ASSUME \A k \in 1..n : IsNew(m.vectors[k].data, m.vectors[k].link)
      PROVE  Ordered(FlattenSeq(ss))
  <2>1. \A i \in 1..n : Ordered(ss[i])
    BY <1>4, <1>5, <1>9 DEF IsNew
  <2>2. ASSUME NEW i \in 1..n, NEW p \in ToSet(ss[i]) PROVE p[1] = Links[m.sim][i]
    <3>1. ss[i] = m.vectors[i].data
      BY <1>4, <1>5, <2>2
    <3> QED BY <1>1, <1>9, <2>2, <3>1 DEF IsNew
  <2>3. ASSUME NEW i \in 1..n, NEW j \in 1..n, i # j PROVE Links[m.sim][i] # Links[m.sim][j]
    BY <1>1, <2>3, LinksAssumption
  <2> QED BY <1>7, <2>1, <2>2, <2>3
<1> QED BY <1>1, <1>3, <1>7, <1>8, <1>9

\* Data stays new while the stream of its channel does not grow.
LEMMA NewFrame ==
  ASSUME NEW q \in Seq(Payload), NEW l, IsNew(q, l),
         count[l] \in Nat, count'[l] \in Nat, count[l] <= count'[l],
         Stream(l.channel)' = Stream(l.channel)
  PROVE  IsNew(q, l)'
<1>1. ASSUME NEW p \in ToSet(q) PROVE p[2] <= count'[l]
  <2>1. p[2] \in Nat
    BY <1>1 DEF ToSet, Payload
  <2>2. p[2] <= count[l]
    BY DEF IsNew
  <2> QED BY <2>1, <2>2
<1> QED BY <1>1 DEF IsNew

-----------------------------------------------------------------------------
\* The data when a model steps.

LEMMA StepModelKeepsData ==
  ASSUME ScalarInv, DataInv, NEW s \in Sims, StepModel(s)
  PROVE  DataInv'
<1> USE DEF DataInv
<1>0. /\ UNCHANGED <<waits, toBus, toSim, busBin, log, got, out>>
      /\ ~waits[s]
  BY DEF StepModel, signalBusVars, transportVars, history
<1>1. \A c : Stream(c)' = Stream(c)
  BY <1>0 DEF Stream
<1>2. GivenStream' /\ StreamOrdered'
  BY <1>0, <1>1 DEF GivenStream, StreamOrdered
<1>3. OutIsKnown'
  BY <1>0, <1>1 DEF OutIsKnown, Queued
<1>4. CASE WriteScalar(s) \/ ResetBinary(s)
  <2>1. count' = count
    BY <1>4 DEF WriteScalar, ResetBinary
  <2>2. /\ binary' \in [AllLinks -> Seq(Payload)]
        /\ \A l \in AllLinks : \/ binary'[l] = binary[l] /\ reset'[l] = reset[l]
                               \/ binary'[l] = << >>
    <3>1. CASE WriteScalar(s)
      BY <3>1 DEF WriteScalar, DataTypes
    <3>2. CASE ResetBinary(s)
      <4>1. PICK k \in LinksOf(s) : /\ binary' = [binary EXCEPT ![k] = << >>]
                                    /\ reset' = [reset EXCEPT ![k] = TRUE]
        BY <3>2 DEF ResetBinary
      <4>2. << >> \in Seq(Payload)
        OBVIOUS
      <4>3. \A l \in AllLinks : l # k => binary'[l] = binary[l] /\ reset'[l] = reset[l]
        BY <4>1 DEF DataTypes, ScalarInv, Shapes
      <4>4. binary' \in [AllLinks -> Seq(Payload)]
        BY <4>1, <4>2 DEF DataTypes
      <4>5. k \in AllLinks => binary'[k] = << >>
        BY <4>1 DEF DataTypes
      <4> QED BY <4>3, <4>4, <4>5
    <3> QED BY <1>4, <3>1, <3>2
  <2>3. DataTypes'
    BY <1>0, <2>1, <2>2 DEF DataTypes
  <2>4. QueuedIsNew'
    BY <1>0, <1>1, <2>1 DEF QueuedIsNew, IsNew
  <2>5. WrittenIsNew'
    <3> SUFFICES ASSUME NEW l \in AllLinks, reset'[l] PROVE IsNew(binary[l], l)'
      BY DEF WrittenIsNew
    <3>1. CASE binary'[l] = binary[l] /\ reset'[l] = reset[l]
      BY <1>1, <2>1, <3>1 DEF WrittenIsNew, IsNew
    <3>2. CASE binary'[l] = << >>
      <4>1. ToSet(<< >>) = {} /\ Ordered(<< >>)
        BY DEF ToSet, Ordered
      <4> QED BY <3>2, <4>1 DEF IsNew
    <3> QED BY <2>2, <3>1, <3>2
  <2>6. SentIsGone'
    BY <1>0, <2>2, LinkFacts DEF SentIsGone
  <2>7. StreamCounted'
    BY <1>1, <2>1 DEF StreamCounted
  <2> QED BY <1>2, <1>3, <2>3, <2>4, <2>5, <2>6, <2>7
<1>5. CASE AppendBinary(s)
  <2>1. PICK k \in LinksOf(s) :
          /\ count' = [count EXCEPT ![k] = @ + 1]
          /\ binary' = [binary EXCEPT ![k] = Append(@, <<k, count'[k]>>)]
    BY <1>5 DEF AppendBinary
  <2>2. k \in AllLinks /\ k.channel \in Channels
    BY LinkFacts
  <2>3. /\ count' \in [AllLinks -> Nat]
        /\ \A l \in AllLinks : l # k => count'[l] = count[l]
        /\ count'[k] = count[k] + 1
        /\ count[k] \in Nat
    BY <2>1, <2>2 DEF DataTypes
  <2>4. PICK p \in Payload : p = <<k, count'[k]>>
    BY <2>2, <2>3 DEF Payload
  <2>5. /\ \A l \in AllLinks : l # k => binary'[l] = binary[l]
        /\ binary[k] \in Seq(Payload)
        /\ binary'[k] = Append(binary[k], p)
    BY <2>1, <2>2, <2>4 DEF DataTypes
  <2>6. binary'[k] \in Seq(Payload)
    BY <2>5, AppendProperties
  <2>7. binary' \in [AllLinks -> Seq(Payload)]
    BY <2>1, <2>2, <2>4, <2>5, <2>6 DEF DataTypes
  <2>8. reset' = reset
    BY <1>5 DEF AppendBinary
  <2>9. \A l \in AllLinks : count[l] \in Nat /\ count'[l] \in Nat /\ count[l] <= count'[l]
    <3> SUFFICES ASSUME NEW l \in AllLinks
                 PROVE  count[l] \in Nat /\ count'[l] \in Nat /\ count[l] <= count'[l]
      OBVIOUS
    <3>1. count[l] \in Nat /\ count'[l] \in Nat
      BY <2>3 DEF DataTypes
    <3>2. count'[l] = count[l] \/ count'[l] = count[l] + 1
      BY <2>3
    <3> QED BY <3>1, <3>2
  <2>10. DataTypes'
    BY <1>0, <2>3, <2>7 DEF DataTypes
  <2>11. QueuedIsNew'
    <3> SUFFICES ASSUME NEW i \in DOMAIN toBus', NEW j \in DOMAIN toBus'[i].vectors
                 PROVE  IsNew(toBus[i].vectors[j].data, toBus[i].vectors[j].link)'
      BY DEF QueuedIsNew
    <3>1. PICK v : v = toBus[i].vectors[j]
      OBVIOUS
    <3>2. v.data \in Seq(Payload) /\ IsNew(v.data, v.link)
      BY <1>0, <3>1 DEF DataTypes, QueuedIsNew
    <3>3. v.link \in AllLinks
      <4>1. PICK m : m = toBus[i]
        OBVIOUS
      <4>2. MessageIsOffer(m)
        BY <1>0, <4>1 DEF ScalarInv, OffersStand
      <4> QED BY <1>0, <3>1, <4>1, <4>2, LinkOfVector
    <3>4. IsNew(v.data, v.link)'
      BY <1>1, <2>9, <3>2, <3>3, NewFrame
    <3> QED BY <1>0, <3>1, <3>4 DEF IsNew
  <2>12. WrittenIsNew'
    <3> SUFFICES ASSUME NEW l \in AllLinks, reset'[l] PROVE IsNew(binary[l], l)'
      BY DEF WrittenIsNew
    <3>1. PICK b : b = binary[l]
      OBVIOUS
    <3>2. b \in Seq(Payload) /\ IsNew(b, l)
      BY <2>8, <3>1 DEF DataTypes, WrittenIsNew
    <3>3. IsNew(b, l)'
      BY <1>1, <2>9, <3>2, NewFrame
    <3>4. CASE l # k
      BY <2>5, <3>1, <3>3, <3>4 DEF IsNew
    <3>5. CASE l = k
      <4>1. PICK q : q = binary'[l]
        OBVIOUS
      <4>2. PICK t : t = <<p>>
        OBVIOUS
      <4>3. t \in Seq(Payload)
        BY <4>2
      <4>4. q = Append(b, p)
        BY <2>5, <3>1, <3>5, <4>1
      <4>5. q = b \o t
        BY <3>2, <4>2, <4>4, AppendIsConcat
      <4>6. ToSet(t) = {p} /\ Ordered(t)
        BY <4>2 DEF ToSet, Ordered
      <4>7. \A r \in ToSet(b) : r[1] = p[1] => r[2] < p[2]
        <5>1. \A r \in ToSet(b) : r[2] \in Nat /\ r[2] <= count[k]
          BY <3>2, <3>5 DEF IsNew, ToSet, Payload
        <5> QED BY <2>3, <2>4, <5>1
      <4>8. Ordered(q)
        BY <3>2, <4>3, <4>5, <4>6, <4>7, ConcatOrdered DEF IsNew
      <4>9. ToSet(q) = ToSet(b) \cup {p}
        BY <3>2, <4>3, <4>5, <4>6, ConcatElements
      <4>10. \A r \in ToSet(Stream(k.channel)) : r[1] = k => r[2] < p[2]
        <5>1. Stream(k.channel) \in Seq(Payload)
          BY <2>2, ConcatProperties DEF DataTypes, Stream
        <5>2. ASSUME NEW r \in ToSet(Stream(k.channel))
              PROVE  r[2] \in Nat /\ r[2] <= count[r[1]]
          <6>1. r \in Payload
            BY <5>1 DEF ToSet
          <6> QED BY <2>2, <6>1 DEF StreamCounted, Payload
        <5> QED BY <2>3, <2>4, <5>2
      <4>11. IsNew(q, l)'
        <5>1. p[1] = l /\ p[2] <= count'[l]
          BY <2>3, <2>4, <3>5
        <5>2. \A r \in ToSet(Stream(l.channel)') : r[1] = l => r[2] < p[2]
          BY <1>1, <3>5, <4>10
        <5> QED BY <3>3, <4>8, <4>9, <5>1, <5>2 DEF IsNew
      <4> QED BY <4>1, <4>11 DEF IsNew
    <3> QED BY <3>4, <3>5
  <2>13. SentIsGone'
    <3> SUFFICES ASSUME NEW t \in Sims, waits[t], NEW l \in LinksOf(t)
                 PROVE  binary'[l] = << >>
      BY <1>0 DEF SentIsGone
    <3>1. l # k /\ l \in AllLinks
      BY <1>0, OneOwner, LinkFacts
    <3> QED BY <2>5, <3>1 DEF SentIsGone
  <2>14. StreamCounted'
    <3> SUFFICES ASSUME NEW c \in Channels, NEW r \in ToSet(Stream(c)) PROVE r[2] <= count'[r[1]]
      BY <1>1 DEF StreamCounted
    <3>1. Stream(c) \in Seq(Payload)
      BY ConcatProperties DEF DataTypes, Stream
    <3>2. r \in Payload
      BY <3>1 DEF ToSet
    <3>3. r[1] \in AllLinks /\ r[2] \in Nat /\ r[2] <= count[r[1]]
      BY <3>2 DEF StreamCounted, Payload
    <3> QED BY <2>9, <3>3
  <2> QED BY <1>2, <1>3, <2>10, <2>11, <2>12, <2>13, <2>14
<1> QED BY <1>4, <1>5 DEF StepModel, StepFunction

-----------------------------------------------------------------------------
\* The data when a process offers its signals.

LEMMA SendModelReadyKeepsData ==
  ASSUME ScalarInv, DataInv, NEW s \in Sims, SendModelReady(s)
  PROVE  DataInv'
<1>1. PICK m : \E n \in Nat :
        /\ m = [sim |-> s,
                vectors |-> [i \in DOMAIN Links[s] |-> Encode(Links[s][i])]]
        /\ DOMAIN toBus = 1..n /\ DOMAIN toBus' = 1..(n + 1)
        /\ \A i \in 1..n : toBus'[i] = toBus[i]
        /\ toBus'[n + 1] = m
  BY SentMessage
<1>2. PICK n \in Nat :
        /\ DOMAIN toBus = 1..n /\ DOMAIN toBus' = 1..(n + 1)
        /\ \A i \in 1..n : toBus'[i] = toBus[i]
        /\ toBus'[n + 1] = m
  BY <1>1
<1>3. /\ UNCHANGED <<toSim, reset, count, busBin, log, got>>
      /\ binary' = [l \in AllLinks |-> IF l \in LinksOf(s) THEN << >> ELSE binary[l]]
      /\ waits' = [waits EXCEPT ![s] = TRUE]
  BY DEF SendModelReady, MarshalOut, signalBusVars
<1>4. /\ DOMAIN m.vectors = DOMAIN Links[s]
      /\ \A k \in DOMAIN Links[s] :
           m.vectors[k].link = Links[s][k] /\ m.vectors[k].data = Marshalled(Links[s][k])
  BY <1>1 DEF Encode
<1>5. m.sim = s /\ \A k \in DOMAIN Links[s] : m.vectors[k] = Encode(Links[s][k])
  BY <1>1
<1>6. MessageIsOffer(m)
  <2> SUFFICES ASSUME NEW k \in DOMAIN Links[s] PROVE IsOffer(m.vectors[k], Links[s][k])
    BY <1>4, <1>5 DEF MessageIsOffer
  <2>1. m.vectors[k] = Encode(Links[s][k])
    BY <1>5
  <2> QED BY <2>1 DEF IsOffer, Encode
<1> USE DEF DataInv
<1>7. \A l \in AllLinks : Marshalled(l) \in Seq(Payload) /\ IsNew(Marshalled(l), l)
  <2> SUFFICES ASSUME NEW l \in AllLinks
               PROVE  Marshalled(l) \in Seq(Payload) /\ IsNew(Marshalled(l), l)
    OBVIOUS
  <2>1. CASE reset[l]
    BY <2>1 DEF Marshalled, DataTypes, WrittenIsNew
  <2>2. CASE ~reset[l]
    <3>1. << >> \in Seq(Payload) /\ ToSet(<< >>) = {} /\ Ordered(<< >>)
      BY DEF ToSet, Ordered
    <3> QED BY <2>2, <3>1 DEF Marshalled, IsNew
  <2> QED BY <2>1, <2>2
<1>8. \A k \in DOMAIN m.vectors :
        m.vectors[k].data \in Seq(Payload) /\ IsNew(m.vectors[k].data, m.vectors[k].link)
  BY <1>4, <1>7, LinkFacts DEF LinksOf
<1>9. \A c : Stream(c)' = Stream(c)
  BY <1>3 DEF Stream
<1>10. DataTypes'
  <2>1. binary' \in [AllLinks -> Seq(Payload)]
    <3>1. << >> \in Seq(Payload)
      OBVIOUS
    <3> QED BY <1>3, <3>1 DEF DataTypes
  <2>2. ASSUME NEW i \in DOMAIN toBus', NEW k \in DOMAIN toBus'[i].vectors
        PROVE  toBus'[i].vectors[k].data \in Seq(Payload)
    <3>1. CASE i = n + 1
      BY <1>2, <1>8, <2>2, <3>1
    <3>2. CASE i # n + 1
      <4>1. i \in DOMAIN toBus /\ toBus'[i] = toBus[i]
        BY <1>2, <3>2
      <4> QED BY <2>2, <4>1 DEF DataTypes
    <3> QED BY <3>1, <3>2
  <2> QED BY <1>3, <2>1, <2>2 DEF DataTypes
<1>11. GivenStream'
  BY <1>3 DEF GivenStream
<1>12. QueuedIsNew'
  <2> SUFFICES ASSUME NEW i \in DOMAIN toBus', NEW k \in DOMAIN toBus'[i].vectors
               PROVE  IsNew(toBus[i].vectors[k].data, toBus[i].vectors[k].link)'
    BY DEF QueuedIsNew
  <2>1. PICK v : v = toBus'[i].vectors[k]
    OBVIOUS
  <2>2. IsNew(v.data, v.link)
    <3>1. CASE i = n + 1
      BY <1>2, <1>8, <2>1, <3>1
    <3>2. CASE i # n + 1
      <4>1. i \in DOMAIN toBus /\ toBus'[i] = toBus[i]
        BY <1>2, <3>2
      <4> QED BY <2>1, <4>1 DEF QueuedIsNew
    <3> QED BY <3>1, <3>2
  <2> QED BY <1>3, <1>9, <2>1, <2>2 DEF IsNew
<1>13. WrittenIsNew'
  <2> SUFFICES ASSUME NEW l \in AllLinks, reset'[l] PROVE IsNew(binary[l], l)'
    BY DEF WrittenIsNew
  <2>1. CASE l \in LinksOf(s)
    <3>1. ToSet(<< >>) = {} /\ Ordered(<< >>) /\ binary'[l] = << >>
      BY <1>3, <2>1 DEF ToSet, Ordered
    <3> QED BY <3>1 DEF IsNew
  <2>2. CASE l \notin LinksOf(s)
    <3>1. binary'[l] = binary[l] /\ reset[l]
      BY <1>3, <2>2
    <3>2. IsNew(binary[l], l)
      BY <3>1 DEF WrittenIsNew
    <3> QED BY <1>3, <1>9, <3>1, <3>2 DEF IsNew
  <2> QED BY <2>1, <2>2
<1>14. SentIsGone'
  <2> SUFFICES ASSUME NEW t \in Sims, waits'[t], NEW l \in LinksOf(t)
               PROVE  binary'[l] = << >>
    BY DEF SentIsGone
  <2>1. l \in AllLinks
    BY LinkFacts
  <2>2. CASE l \in LinksOf(s)
    BY <1>3, <2>1, <2>2
  <2>3. CASE l \notin LinksOf(s)
    <3>1. t # s
      BY <2>3
    <3>2. waits[t]
      BY <1>3, <3>1 DEF ScalarInv, TypeOK
    <3> QED BY <1>3, <2>1, <2>3, <3>2 DEF SentIsGone
  <2> QED BY <2>2, <2>3
<1>15. StreamCounted' /\ StreamOrdered'
  BY <1>3, <1>9 DEF StreamCounted, StreamOrdered
<1>16. OutIsKnown'
  <2> SUFFICES ASSUME NEW c \in Channels
               PROVE  out'[c] = ToSet(Stream(c)') \cup Queued(c)'
    BY DEF OutIsKnown
  <2>1. out'[c] = out[c] \cup UNION {ToSet(Marshalled(l)) :
                                       l \in {k \in LinksOf(s) : k.channel = c}}
    BY DEF SendModelReady
  <2>2. ToSet(Appended(m.vectors, c)) =
          UNION {ToSet(m.vectors[k].data) :
                   k \in {j \in DOMAIN m.vectors : m.vectors[j].link.channel = c}}
    BY <1>6, <1>8, AppendedFacts
  <2>3. ToSet(Appended(m.vectors, c)) =
          UNION {ToSet(Marshalled(l)) : l \in {k \in LinksOf(s) : k.channel = c}}
    BY <1>4, <2>2 DEF LinksOf
  <2>4. Queued(c)' = Queued(c) \cup ToSet(Appended(m.vectors, c))
    <3> DEFINE A(v) == ToSet(Appended(v, c))
    <3>1. A(m.vectors)' = A(m.vectors) /\ \A i \in 1..n : A(toBus[i].vectors)' = A(toBus[i].vectors)
      BY <1>2 DEF Appended
    <3>2. Queued(c)' = UNION {A(toBus'[i].vectors) : i \in 1..(n + 1)}
      BY <1>2 DEF Queued, Appended
    <3>3. Queued(c) = UNION {A(toBus[i].vectors) : i \in 1..n}
      BY <1>2 DEF Queued
    <3> HIDE DEF A
    <3>4. 1..(n + 1) = 1..n \cup {n + 1}
      OBVIOUS
    <3>5. \A i \in 1..n : A(toBus'[i].vectors) = A(toBus[i].vectors)
      BY <1>2
    <3>6. A(toBus'[n + 1].vectors) = A(m.vectors)
      BY <1>2
    <3>7. Queued(c)' = Queued(c) \cup A(m.vectors)
      BY <3>2, <3>3, <3>4, <3>5, <3>6
    <3> QED BY <3>7 DEF A
  <2> QED BY <1>9, <2>1, <2>3, <2>4 DEF OutIsKnown
<1> QED BY <1>10, <1>11, <1>12, <1>13, <1>14, <1>15, <1>16

-----------------------------------------------------------------------------
\* The data when the SimBus handles an offer.

LEMMA Regrouped ==
  ASSUME NEW S, NEW a \in Seq(S), NEW b \in Seq(S), NEW c \in Seq(S)
  PROVE  a \o (b \o c) = (a \o b) \o c
BY ConcatAssociative

\* What the message adds, and where it goes.
LEMMA HandledData ==
  ASSUME ScalarInv, DataInv, HandleModelReady, NEW m, m = Head(toBus)
  PROVE  /\ MessageIsOffer(m)
         /\ \A k \in DOMAIN m.vectors :
              m.vectors[k].data \in Seq(Payload) /\ IsNew(m.vectors[k].data, m.vectors[k].link)
         /\ UNCHANGED <<binary, reset, count, waits, out, got>>
         /\ \A c \in Channels :
              /\ Stream(c) \in Seq(Payload)
              /\ Appended(m.vectors, c) \in Seq(Payload)
              /\ log'[c] \in Seq(Payload) /\ busBin'[c] \in Seq(Payload)
              /\ Stream(c)' = Stream(c) \o Appended(m.vectors, c)
         /\ log' \in [Channels -> Seq(Payload)] /\ busBin' \in [Channels -> Seq(Payload)]
<1>1. MessageIsOffer(m)
  BY HeadIsOffer DEF HandleModelReady
<1>2. m = toBus[1] /\ 1 \in DOMAIN toBus
  BY HandledMessage
<1>3. \A k \in DOMAIN m.vectors :
        m.vectors[k].data \in Seq(Payload) /\ IsNew(m.vectors[k].data, m.vectors[k].link)
  BY <1>2 DEF DataInv, DataTypes, QueuedIsNew
<1>4. UNCHANGED <<binary, reset, count, waits, out, got>>
  BY DEF HandleModelReady, modelVars, functionVars
<1>5. ASSUME NEW c \in Channels
      PROVE  /\ Stream(c) \in Seq(Payload)
             /\ Appended(m.vectors, c) \in Seq(Payload)
             /\ log'[c] \in Seq(Payload) /\ busBin'[c] \in Seq(Payload)
             /\ Stream(c)' = Stream(c) \o Appended(m.vectors, c)
  <2>1. PICK a \in Seq(Payload) : a = Appended(m.vectors, c)
    BY <1>1, <1>3, AppendedFacts
  <2>2. PICK b \in Seq(Payload), g \in Seq(Payload) : b = busBin[c] /\ g = log[c]
    BY DEF DataInv, DataTypes
  <2>3. b \o a \in Seq(Payload) /\ g \o b \in Seq(Payload) /\ g \o (b \o a) \in Seq(Payload)
    BY ConcatProperties
  <2>4. g \o (b \o a) = (g \o b) \o a
    BY Regrouped
  <2>5. Stream(c) = g \o b /\ Stream(c)' = log'[c] \o busBin'[c]
    BY <2>2 DEF Stream
  <2>6. CASE ready \cup {m.sim} = Sims
    <3>1. log'[c] = g \o (b \o a) /\ busBin'[c] = << >>
      BY <2>1, <2>2, <2>6 DEF HandleModelReady
    <3>2. (g \o (b \o a)) \o << >> = g \o (b \o a)
      BY <2>3, ConcatEmptySeq
    <3>3. log'[c] \o busBin'[c] = g \o (b \o a)
      BY <3>1, <3>2
    <3>4. << >> \in Seq(Payload)
      OBVIOUS
    <3> QED BY <2>1, <2>3, <2>4, <2>5, <3>1, <3>3, <3>4
  <2>7. CASE ready \cup {m.sim} # Sims
    <3>1. log'[c] = g /\ busBin'[c] = b \o a
      BY <2>1, <2>2, <2>7 DEF HandleModelReady
    <3>2. Stream(c)' = g \o (b \o a)
      BY <2>5, <3>1
    <3> QED BY <2>1, <2>3, <2>4, <2>5, <3>1, <3>2
  <2> QED BY <2>6, <2>7
<1>6. log' \in [Channels -> Seq(Payload)] /\ busBin' \in [Channels -> Seq(Payload)]
  <2>1. log' = [c \in Channels |-> log'[c]] /\ busBin' = [c \in Channels |-> busBin'[c]]
    BY DEF HandleModelReady, DataInv, DataTypes
  <2> QED BY <1>5, <2>1
<1> QED BY <1>1, <1>3, <1>4, <1>5, <1>6

\* Whose the new data is.
LEMMA WriterOfAppended ==
  ASSUME NEW m, MessageIsOffer(m), NEW c \in Channels,
         \A k \in DOMAIN m.vectors :
           m.vectors[k].data \in Seq(Payload) /\ IsNew(m.vectors[k].data, m.vectors[k].link),
         NEW r \in ToSet(Appended(m.vectors, c))
  PROVE  /\ r[1] \in LinksOf(m.sim) /\ r[2] <= count[r[1]]
         /\ \A p \in ToSet(Stream(c)) : p[1] = r[1] => p[2] < r[2]
<1>1. PICK k \in DOMAIN m.vectors :
        m.vectors[k].link.channel = c /\ r \in ToSet(m.vectors[k].data)
  <2>1. ToSet(Appended(m.vectors, c)) =
          UNION {ToSet(m.vectors[k].data) :
                   k \in {j \in DOMAIN m.vectors : m.vectors[j].link.channel = c}}
    BY AppendedFacts
  <2> QED BY <2>1
<1>2. m.vectors[k].link \in LinksOf(m.sim)
  BY LinkOfVector
<1> QED BY <1>1, <1>2 DEF IsNew

LEMMA HandleModelReadyKeepsData ==
  ASSUME ScalarInv, DataInv, HandleModelReady
  PROVE  DataInv'
<1>1. PICK m : m = Head(toBus)
  OBVIOUS
<1>2. /\ MessageIsOffer(m)
      /\ \A k \in DOMAIN m.vectors :
           m.vectors[k].data \in Seq(Payload) /\ IsNew(m.vectors[k].data, m.vectors[k].link)
      /\ UNCHANGED <<binary, reset, count, waits, out, got>>
      /\ \A c \in Channels :
           /\ Stream(c) \in Seq(Payload)
           /\ Appended(m.vectors, c) \in Seq(Payload)
           /\ log'[c] \in Seq(Payload) /\ busBin'[c] \in Seq(Payload)
           /\ Stream(c)' = Stream(c) \o Appended(m.vectors, c)
      /\ log' \in [Channels -> Seq(Payload)] /\ busBin' \in [Channels -> Seq(Payload)]
  BY <1>1, HandledData
<1>3. /\ m.sim \in Sims
      /\ waits[m.sim]
      /\ OnBus(m.sim) = {1}
  BY <1>1, HeadIsOffer DEF HandleModelReady
<1>4. PICK n \in Nat :
        /\ n > 0 /\ DOMAIN toBus = 1..n /\ DOMAIN toBus' = 1..(n - 1)
        /\ toBus[1] = m
        /\ \A i \in 1..(n - 1) : toBus'[i] = toBus[i + 1]
  BY <1>1, HandledMessage
<1>5. \A c \in Channels : \A r \in ToSet(Appended(m.vectors, c)) :
        /\ r[1] \in LinksOf(m.sim) /\ r[2] <= count[r[1]]
        /\ \A p \in ToSet(Stream(c)) : p[1] = r[1] => p[2] < r[2]
  BY <1>2, WriterOfAppended
<1>6. ASSUME NEW c \in Channels
      PROVE  ToSet(Stream(c)') = ToSet(Stream(c)) \cup ToSet(Appended(m.vectors, c))
  <2>1. PICK q, a, b : q = Stream(c)' /\ a = Stream(c) /\ b = Appended(m.vectors, c)
    OBVIOUS
  <2>2. a \in Seq(Payload) /\ b \in Seq(Payload) /\ q = a \o b
    BY <1>2, <2>1
  <2>3. ToSet(q) = ToSet(a) \cup ToSet(b)
    BY <2>2, ConcatElements
  <2> QED BY <2>1, <2>3
<1> USE DEF DataInv
<1>7. ASSUME NEW q, NEW l, IsNew(q, l), l.channel \in Channels, l \notin LinksOf(m.sim)
      PROVE  IsNew(q, l)'
  <2>1. \A r \in ToSet(Stream(l.channel)') : r[1] = l => r \in ToSet(Stream(l.channel))
    BY <1>5, <1>6, <1>7
  <2> QED BY <1>2, <1>7, <2>1 DEF IsNew
<1>8. ASSUME NEW i \in DOMAIN toBus', NEW k \in DOMAIN toBus'[i].vectors
      PROVE  /\ toBus'[i].vectors[k].data \in Seq(Payload)
             /\ IsNew(toBus[i].vectors[k].data, toBus[i].vectors[k].link)'
  <2>1. PICK a, v : a = toBus'[i] /\ v = a.vectors[k]
    OBVIOUS
  <2>2. a = toBus[i + 1] /\ i + 1 \in DOMAIN toBus /\ i + 1 # 1
    BY <1>4, <2>1
  <2>3. MessageIsOffer(a) /\ a.sim # m.sim
    BY <1>3, <2>2 DEF ScalarInv, OffersStand, OnBus
  <2>4. v.data \in Seq(Payload) /\ IsNew(v.data, v.link)
    BY <1>8, <2>1, <2>2 DEF DataTypes, QueuedIsNew
  <2>5. a.sim \in Sims /\ v.link \in LinksOf(a.sim)
    BY <1>8, <2>1, <2>3, LinkOfVector
  <2>6. v.link.channel \in Channels /\ v.link \notin LinksOf(m.sim)
    BY <1>3, <2>3, <2>5, LinkFacts, OneOwner
  <2>7. IsNew(v.data, v.link)'
    BY <1>7, <2>4, <2>6
  <2> QED BY <2>1, <2>4, <2>7 DEF IsNew
<1>9. QueuedIsNew'
  BY <1>8 DEF QueuedIsNew
<1>10. WrittenIsNew'
  <2> SUFFICES ASSUME NEW l \in AllLinks, reset'[l] PROVE IsNew(binary[l], l)'
    BY DEF WrittenIsNew
  <2>1. PICK q : q = binary[l] /\ q = binary'[l]
    BY <1>2
  <2>2. CASE l \in LinksOf(m.sim)
    <3>1. q = << >>
      BY <1>3, <2>1, <2>2 DEF SentIsGone
    <3>2. ToSet(<< >>) = {} /\ Ordered(<< >>)
      BY DEF ToSet, Ordered
    <3> QED BY <2>1, <3>1, <3>2 DEF IsNew
  <2>3. CASE l \notin LinksOf(m.sim)
    <3>1. IsNew(q, l)
      BY <1>2, <2>1 DEF WrittenIsNew
    <3>2. l.channel \in Channels
      BY HasOwner, LinkFacts
    <3>3. IsNew(q, l)'
      BY <1>7, <2>3, <3>1, <3>2
    <3> QED BY <2>1, <3>3 DEF IsNew
  <2> QED BY <2>2, <2>3
<1>11. SentIsGone'
  BY <1>2 DEF SentIsGone
<1>12. StreamCounted'
  BY <1>2, <1>5, <1>6 DEF StreamCounted
<1>13. StreamOrdered'
  <2> SUFFICES ASSUME NEW c \in Channels PROVE Ordered(Stream(c)')
    BY DEF StreamOrdered, Ordered
  <2>1. Ordered(Stream(c))
    BY DEF StreamOrdered
  <2>2. Ordered(Appended(m.vectors, c))
    BY <1>2, AppendedFacts
  <2>3. Ordered(Stream(c) \o Appended(m.vectors, c))
    BY <1>2, <1>5, <2>1, <2>2, ConcatOrdered
  <2> QED BY <1>2, <2>3
<1>14. OutIsKnown'
  <2> SUFFICES ASSUME NEW c \in Channels
               PROVE  out'[c] = ToSet(Stream(c)') \cup Queued(c)'
    BY DEF OutIsKnown
  <2> DEFINE A(v) == ToSet(Appended(v, c))
  <2>1. Queued(c)' = UNION {A(toBus'[i].vectors) : i \in 1..(n - 1)}
    BY <1>4 DEF Queued, Appended
  <2>2. Queued(c) = UNION {A(toBus[i].vectors) : i \in 1..n}
    BY <1>4 DEF Queued
  <2>3. ToSet(Stream(c)') = ToSet(Stream(c)) \cup A(m.vectors)
    BY <1>6
  <2> HIDE DEF A
  <2>4. Queued(c) = A(m.vectors) \cup Queued(c)'
    <3>1. \A i \in 1..(n - 1) : i + 1 \in 1..n /\ A(toBus'[i].vectors) = A(toBus[i + 1].vectors)
      BY <1>4
    <3>2. \A j \in 1..n : j = 1 \/ (j - 1 \in 1..(n - 1) /\ (j - 1) + 1 = j)
      OBVIOUS
    <3>3. ASSUME NEW j \in 1..n PROVE A(toBus[j].vectors) \subseteq A(m.vectors) \cup Queued(c)'
      <4>1. CASE j = 1
        BY <1>4, <4>1
      <4>2. CASE j - 1 \in 1..(n - 1) /\ (j - 1) + 1 = j
        <5>1. A(toBus'[j - 1].vectors) = A(toBus[j].vectors)
          BY <3>1, <4>2
        <5> QED BY <2>1, <4>2, <5>1
      <4> QED BY <3>2, <4>1, <4>2
    <3>4. A(m.vectors) \subseteq Queued(c)
      <4>1. 1 \in 1..n
        BY <1>4
      <4> QED BY <1>4, <2>2, <4>1
    <3>5. Queued(c)' \subseteq Queued(c)
      BY <2>1, <2>2, <3>1
    <3>6. Queued(c) \subseteq A(m.vectors) \cup Queued(c)'
      BY <2>2, <3>3
    <3> QED BY <3>4, <3>5, <3>6
  <2> QED BY <1>2, <2>3, <2>4 DEF OutIsKnown
<1>15. GivenStream' /\ \A s \in Sims : toSim'[s] # << >> =>
         \A c \in Channels : toSim'[s][1][c].data \in Seq(Payload)
  <2>1. CASE ready \cup {m.sim} # Sims
    <3>1. log' = log /\ toSim' = toSim
      BY <1>1, <2>1 DEF HandleModelReady
    <3> QED BY <1>2, <3>1 DEF GivenStream, DataTypes
  <2>2. CASE ready \cup {m.sim} = Sims
    <3>1. \A s \in Sims : toSim[s] = << >>
      BY <1>1, <2>2, ResolvedValues DEF Offers
    <3>2. \A s \in Sims : \A c \in Channels :
            toSim'[s] # << >> /\ toSim'[s][1][c].data = busBin[c] \o Appended(m.vectors, c)
      <4>1. PICK d : /\ toSim' = [s \in Sims |-> Append(toSim[s], d)]
                     /\ \A c \in Channels : d[c].data = busBin[c] \o Appended(m.vectors, c)
        <5>1. PICK f, b : /\ b = [c \in Channels |-> busBin[c] \o Appended(m.vectors, c)]
                          /\ Notify(Sims, Delta(f, b))
          BY <1>1, <2>2 DEF HandleModelReady
        <5>2. PICK d : d = Delta(f, b)
          OBVIOUS
        <5>3. \A c \in Channels : d[c].data = b[c]
          BY <5>2 DEF Delta
        <5>4. toSim' = [s \in Sims |-> Append(toSim[s], d)]
          BY <5>1, <5>2 DEF Notify
        <5> QED BY <5>1, <5>3, <5>4
      <4>2. Append(<< >>, d) = <<d>> /\ <<d>>[1] = d /\ <<d>> # << >>
        OBVIOUS
      <4>3. \A s \in Sims : toSim'[s] = <<d>>
        BY <3>1, <4>1, <4>2
      <4> QED BY <4>1, <4>2, <4>3
    <3>3. \A c \in Channels : log'[c] = log[c] \o (busBin[c] \o Appended(m.vectors, c))
      BY <1>1, <2>2 DEF HandleModelReady
    <3>4. \A c \in Channels : busBin[c] \o Appended(m.vectors, c) \in Seq(Payload)
      BY <1>2, ConcatProperties DEF DataTypes
    <3>5. GivenStream'
      <4> SUFFICES ASSUME NEW s \in Sims, NEW l \in LinksOf(s)
                   PROVE  log'[l.channel] = got[l] \o toSim'[s][1][l.channel].data
        <5>1. \A s \in Sims : toSim'[s] # << >>
          <6> SUFFICES ASSUME NEW s \in Sims PROVE toSim'[s] # << >>
            OBVIOUS
          <6>1. PICK l \in LinksOf(s) : TRUE
            BY TopologyAssumption DEF LinksOf
          <6>2. l.channel \in Channels
            BY LinkFacts
          <6> QED BY <3>2, <6>2
        <5>2. got' = got
          BY <1>2
        <5> QED BY <5>1, <5>2 DEF GivenStream
      <4>1. l.channel \in Channels
        BY LinkFacts
      <4>2. log[l.channel] = got[l]
        BY <3>1 DEF GivenStream
      <4> QED BY <3>2, <3>3, <4>1, <4>2
    <3> QED BY <3>2, <3>4, <3>5
  <2> QED BY <2>1, <2>2
<1>16. DataTypes'
  BY <1>2, <1>8, <1>15 DEF DataTypes
<1> QED BY <1>9, <1>10, <1>11, <1>12, <1>13, <1>14, <1>15, <1>16

-----------------------------------------------------------------------------
\* The data when a process receives what it was granted.

LEMMA ReceiveModelStartKeepsData ==
  ASSUME ScalarInv, DataInv, NEW s \in Sims, ReceiveModelStart(s)
  PROVE  DataInv'
<1>1. UNCHANGED <<toBus, busBin, log, out, count>>
  BY DEF ReceiveModelStart, MarshalIn, signalBusVars
<1>2. IsGranted(s)
  BY DEF ReceiveModelStart, ScalarInv, Turns, Steps, Offers, IsGranted
<1>3. PICK d : d = toSim[s][1] /\ toSim[s] = <<d>>
  BY <1>2 DEF IsGranted
<1>4. Head(toSim[s]) = d /\ Tail(toSim[s]) = << >> /\ toSim[s] # << >>
  BY <1>3
<1>5. /\ toSim'[s] = << >>
      /\ \A t \in Sims : t # s => toSim'[t] = toSim[t]
  BY <1>4 DEF ReceiveModelStart, PopSim, ScalarInv, Shapes
<1>6. /\ waits'[s] = FALSE
      /\ \A t \in Sims : t # s => waits'[t] = waits[t]
  BY DEF ReceiveModelStart, ScalarInv, TypeOK
<1>7. binary' = [l \in AllLinks |-> IF l \in LinksOf(s)
                                    THEN binary[l] \o d[l.channel].data ELSE binary[l]]
  <2>1. binary' = [l \in AllLinks |->
                     IF l \in LinksOf(s)
                     THEN binary[l] \o [k \in AllLinks |-> d[k.channel].data][l]
                     ELSE binary[l]]
    BY <1>4 DEF ReceiveModelStart, MarshalIn
  <2> QED BY <2>1
<1>8. reset' = [l \in AllLinks |-> IF l \in LinksOf(s) THEN FALSE ELSE reset[l]]
  BY DEF ReceiveModelStart, MarshalIn
<1>9. got' = [l \in AllLinks |-> IF l \in LinksOf(s)
                                 THEN got[l] \o d[l.channel].data ELSE got[l]]
  BY <1>4 DEF ReceiveModelStart
<1> USE DEF DataInv
<1>10. \A l \in LinksOf(s) : d[l.channel].data \in Seq(Payload)
  BY <1>3, <1>4, LinkFacts DEF DataTypes
<1>11. \A c : Stream(c)' = Stream(c)
  BY <1>1 DEF Stream
<1>12. DataTypes'
  <2>1. ASSUME NEW l \in AllLinks
        PROVE  /\ binary[l] \in Seq(Payload) /\ got[l] \in Seq(Payload)
               /\ l \in LinksOf(s) => /\ binary[l] \o d[l.channel].data \in Seq(Payload)
                                      /\ got[l] \o d[l.channel].data \in Seq(Payload)
    <3>1. binary[l] \in Seq(Payload) /\ got[l] \in Seq(Payload)
      BY DEF DataTypes
    <3> QED BY <1>10, <3>1, ConcatProperties
  <2>2. binary' \in [AllLinks -> Seq(Payload)]
    BY <1>7, <2>1
  <2>3. got' \in [AllLinks -> Seq(Payload)]
    BY <1>9, <2>1
  <2> QED BY <1>1, <1>5, <2>2, <2>3 DEF DataTypes
<1>13. GivenStream'
  <2> SUFFICES ASSUME NEW t \in Sims, NEW l \in LinksOf(t)
               PROVE  log'[l.channel] = IF toSim'[t] = << >> THEN got'[l]
                                        ELSE got'[l] \o toSim'[t][1][l.channel].data
    BY DEF GivenStream
  <2>1. l \in AllLinks
    BY LinkFacts
  <2>2. CASE t = s
    <3>1. got'[l] = got[l] \o d[l.channel].data
      BY <1>9, <2>1, <2>2
    <3>2. log[l.channel] = got[l] \o d[l.channel].data
      BY <1>3, <1>4, <2>2 DEF GivenStream
    <3> QED BY <1>1, <1>5, <2>2, <3>1, <3>2
  <2>3. CASE t # s
    <3>1. got'[l] = got[l]
      BY <1>9, <2>1, <2>3, OneOwner
    <3>2. toSim'[t] = toSim[t]
      BY <1>5, <2>3
    <3> QED BY <1>1, <3>1, <3>2 DEF GivenStream
  <2> QED BY <2>2, <2>3
<1>14. QueuedIsNew'
  BY <1>1, <1>11 DEF QueuedIsNew, IsNew
<1>15. WrittenIsNew'
  <2> SUFFICES ASSUME NEW l \in AllLinks, reset'[l] PROVE IsNew(binary[l], l)'
    BY DEF WrittenIsNew
  <2>1. binary'[l] = binary[l] /\ reset[l]
    BY <1>7, <1>8
  <2>2. IsNew(binary[l], l)
    BY <2>1 DEF WrittenIsNew
  <2> QED BY <1>1, <1>11, <2>1, <2>2 DEF IsNew
<1>16. SentIsGone'
  <2> SUFFICES ASSUME NEW t \in Sims, waits'[t], NEW l \in LinksOf(t)
               PROVE  binary'[l] = << >>
    BY DEF SentIsGone
  <2>1. t # s /\ waits[t]
    BY <1>6
  <2>2. l \in AllLinks /\ l \notin LinksOf(s)
    BY <2>1, LinkFacts, OneOwner
  <2> QED BY <1>7, <2>1, <2>2 DEF SentIsGone
<1>17. StreamCounted' /\ StreamOrdered'
  BY <1>1, <1>11 DEF StreamCounted, StreamOrdered
<1>18. OutIsKnown'
  BY <1>1, <1>11 DEF OutIsKnown, Queued
<1> QED BY <1>12, <1>13, <1>14, <1>15, <1>16, <1>17, <1>18

LEMMA InitDataInv ==
  ASSUME Init
  PROVE  DataInv
<1> USE DEF Init, TransportInit, FunctionsInit
<1>1. << >> \in Seq(Payload) /\ ToSet(<< >>) = {} /\ Ordered(<< >>) /\ DOMAIN << >> = {}
  BY DEF ToSet, Ordered
<1>2. DataTypes
  BY <1>1 DEF DataTypes
<1>3. GivenStream
  BY LinkFacts DEF GivenStream
<1>4. \A c \in Channels : Stream(c) = << >>
  <2>1. << >> \o << >> = << >>
    BY <1>1, ConcatEmptySeq
  <2> QED BY <2>1 DEF Stream
<1>5. QueuedIsNew
  BY <1>1 DEF QueuedIsNew
<1>6. WrittenIsNew /\ SentIsGone
  BY DEF WrittenIsNew, SentIsGone
<1>7. StreamCounted /\ StreamOrdered
  BY <1>1, <1>4 DEF StreamCounted, StreamOrdered
<1>8. OutIsKnown
  <2>1. \A c : Queued(c) = {}
    BY <1>1 DEF Queued
  <2> QED BY <1>1, <1>4, <2>1 DEF OutIsKnown
<1> QED BY <1>2, <1>3, <1>5, <1>6, <1>7, <1>8 DEF DataInv

LEMMA NextDataInv ==
  ASSUME ScalarInv, DataInv, [Next]_vars
  PROVE  DataInv'
<1>1. ASSUME NEW s \in Sims, StepModel(s) PROVE DataInv'
  BY <1>1, StepModelKeepsData
<1>2. ASSUME NEW s \in Sims, SendModelReady(s) PROVE DataInv'
  BY <1>2, SendModelReadyKeepsData
<1>3. ASSUME NEW s \in Sims, ReceiveModelStart(s) PROVE DataInv'
  BY <1>3, ReceiveModelStartKeepsData
<1>4. CASE HandleModelReady
  BY <1>4, HandleModelReadyKeepsData
<1>5. CASE UNCHANGED vars
  <2>1. UNCHANGED <<toBus, toSim, waits, binary, reset, count, busBin, out, log, got>>
    BY <1>5 DEF vars, transportVars, modelVars, functionVars, signalBusVars, history
  <2>2. \A c : Stream(c)' = Stream(c)
    BY <2>1 DEF Stream
  <2>3. DataTypes' /\ GivenStream'
    BY <2>1 DEF DataInv, DataTypes, GivenStream
  <2>4. QueuedIsNew' /\ WrittenIsNew'
    BY <2>1, <2>2 DEF DataInv, QueuedIsNew, WrittenIsNew, IsNew
  <2>5. SentIsGone' /\ StreamCounted' /\ StreamOrdered'
    BY <2>1, <2>2 DEF DataInv, SentIsGone, StreamCounted, StreamOrdered
  <2>6. OutIsKnown'
    BY <2>1, <2>2 DEF DataInv, OutIsKnown, Queued
  <2> QED BY <2>3, <2>4, <2>5, <2>6 DEF DataInv
<1> QED BY <1>1, <1>2, <1>3, <1>4, <1>5 DEF Next

\* What is on its way of the binary data is new to the stream, and what has
\* left the models is in the stream or on its way (signal_append, signal_reset,
\* __marshal__model2adapter, process_notify_signalvector, resolve_and_notify).
THEOREM DataInvariant == Spec => []DataInv
<1>1. Init => DataInv
  BY InitDataInv
<1>2. ScalarInv /\ DataInv /\ [Next]_vars => DataInv'
  BY NextDataInv
<1> QED BY <1>1, <1>2, ExchangeInvariant, PTL DEF Spec

\* The models of a channel are given one and the same stream of payloads: each
\* process has been given a beginning of it, and all of it when it steps.
THEOREM OneStream == Spec => []SameStream
<1>1. ScalarInv /\ DataInv => SameStream
  <2> SUFFICES ASSUME ScalarInv, DataInv, NEW s \in Sims, NEW l \in LinksOf(s)
               PROVE  /\ IsPrefix(got[l], log[l.channel])
                      /\ ~waits[s] => got[l] = log[l.channel]
    BY DEF SameStream
  <2>1. l \in AllLinks /\ l.channel \in Channels
    BY LinkFacts
  <2>2. PICK g \in Seq(Payload) : g = got[l]
    BY <2>1 DEF DataInv, DataTypes
  <2>3. PICK r \in Seq(Payload) : log[l.channel] = g \o r
    <3>1. CASE toSim[s] = << >>
      <4>1. g \o << >> = g /\ << >> \in Seq(Payload)
        BY ConcatEmptySeq
      <4> QED BY <2>2, <3>1, <4>1 DEF DataInv, GivenStream
    <3>2. CASE toSim[s] # << >>
      BY <2>1, <2>2, <3>2 DEF DataInv, DataTypes, GivenStream
    <3> QED BY <3>1, <3>2
  <2>4. IsPrefix(g, g \o r)
    <3>1. /\ Len(g) \in Nat /\ Len(r) \in Nat /\ Len(g \o r) = Len(g) + Len(r)
          /\ \A i \in 1..Len(g) : (g \o r)[i] = g[i]
      BY ConcatProperties
    <3>2. SubSeq(g \o r, 1, Len(g)) = SubSeq(g, 1, Len(g))
      BY <3>1
    <3> QED BY <3>1, <3>2 DEF IsPrefix
  <2>5. ~waits[s] => got[l] = log[l.channel]
    <3>1. ~waits[s] => toSim[s] = << >>
      BY DEF ScalarInv, Turns, Steps, Offers, IsGranted
    <3> QED BY <3>1 DEF DataInv, GivenStream
  <2> QED BY <2>2, <2>3, <2>4, <2>5
<1> QED BY <1>1, ExchangeInvariant, DataInvariant, PTL

\* A payload that left its model is resolved by the SimBus once and in the order
\* of its writer, or is on its way; nothing is resolved that no model sent.
THEOREM DataOnceInOrder == Spec => []ExactlyOnceInOrder
<1>1. DataInv => ExactlyOnceInOrder
  BY DEF DataInv, ExactlyOnceInOrder, StreamOrdered, Ordered, OutIsKnown, Stream
<1> QED BY <1>1, DataInvariant, PTL
=============================================================================
