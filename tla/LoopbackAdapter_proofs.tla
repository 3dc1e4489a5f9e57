---------------------- MODULE LoopbackAdapter_proofs ----------------------
(***************************************************************************)
(* Theorems about the loopback adapter, for any stack of models, channels  *)
(* and signals, and any order in which the hash map lists the models:      *)
(* every payload reaches every model of its channel, once and in one       *)
(* order, and the adapter implements SharedSignals.  The condition is      *)
(* SlotsStay: the slots of a channel are given, or the models that share a *)
(* channel have the same signals of it, so that no model moves the slots   *)
(* that another has cached.  LoopbackStaleIndex shows what happens         *)
(* without it.                                                             *)
(*                                                                         *)
(* The argument: the cached slot of a registered signal is the slot of its *)
(* name, on which all models of the channel agree (SlotInv).  Hence a      *)
(* model's value, until it changes it, is the one of the slot (ScalarInv), *)
(* and the data of a channel is in one place, which takes what each model  *)
(* appended and gives it to all (DataInv).                                 *)
(***************************************************************************)
EXTENDS LoopbackAdapter, FiniteSetTheorems, SequenceTheorems, WellFoundedInduction, TLAPS

\* Models that share a channel have the same signals of it.
SharedAlike ==
  \A c \in Channels : \A k, l \in ChannelLinks(c) : SignalsOf[k] = SignalsOf[l]

SlotsStay == SharedAlike \/ \A given \in Modes : given.direct

-----------------------------------------------------------------------------
\* The inductive invariant.

SlotInv ==
  /\ mode \in Modes
  /\ stage \in {"register", "first", "step", "marshalled", "ready"}
  /\ registered \subseteq ModelsOf(Host)
  /\ stage # "register" => registered = ModelsOf(Host)
  /\ \A c \in Channels : \A i, j \in DOMAIN slots[c] :
       slots[c][i] = slots[c][j] => i = j
  /\ \A c \in Channels : ToSet(slots[c]) \subseteq AllNames[c]
  /\ mode.direct => \A c \in Channels : ToSet(slots[c]) = AllNames[c]
  /\ \A l \in AllLinks : l.model \in registered => \A x \in Names(l) :
       index[l][x] \in DOMAIN slots[l.channel] /\ slots[l.channel][index[l][x]] = x

VectorOf(f) ==
  /\ f = [c \in Channels |-> f[c]]
  /\ \A c \in Channels : f[c] = [i \in DOMAIN slots[c] |-> f[c][i]]

\* The value of each signal is in its slot.
InSlots(f) ==
  \A l \in AllLinks : l.model \in registered => \A x \in SignalsOf[l] :
    f[l][x] = slotScalar[l.channel][index[l][x]]

ScalarInv ==
  /\ VectorOf(slotScalar)
  /\ scalar = [l \in AllLinks |-> scalar[l]]
  /\ \A l \in AllLinks : scalar[l] = [x \in SignalsOf[l] |-> scalar[l][x]]
  /\ stage \in {"register", "first"} =>
       /\ val = Zeros
       /\ \A c \in Channels : \A i \in DOMAIN slots[c] : slotScalar[c][i] = 0
       /\ CreateValues = {0} => scalar = Zeros
  /\ stage # "ready" => InSlots(val)
  /\ stage = "marshalled" => final = scalar

Payloads == AllLinks \X Nat

Distinct(q) == \A i, j \in DOMAIN q : q[i] = q[j] => i = j
NoneIn(q, S) == \A p \in ToSet(q) : p \notin S
OwnOf(l, q) == \A p \in ToSet(q) : p[1] = l

\* The data in the slot of the binary signal of a link.
DataOf(l) == slotData[l.channel][index[l][Bin]]

\* What the models of a channel handed to the adapter.
Handed(c) == UNION {ToSet(bin[l]) : l \in ChannelLinks(c)}

DataTypes ==
  /\ VectorOf(slotData)
  /\ \A c \in Channels : \A i \in DOMAIN slots[c] : slotData[c][i] \in Seq(Payloads)
  /\ binary \in [AllLinks -> Seq(Payloads)]
  /\ bin \in [AllLinks -> Seq(Payloads)]
  /\ got \in [AllLinks -> Seq(Payloads)]
  /\ reset \in [AllLinks -> BOOLEAN]
  /\ count \in [AllLinks -> Nat]
  /\ out \in [Channels -> SUBSET Payloads]

\* What a model appended since it reset its signal is its own and is new.
Appended(l) ==
  reset[l] => /\ Distinct(binary[l])
              /\ OwnOf(l, binary[l])
              /\ \A p \in ToSet(binary[l]) : p[2] <= count[l]
              /\ NoneIn(binary[l], out[l.channel])

SameStreams ==
  \A c \in Channels : \A l \in ChannelLinks(c) :
    Distinct(got[l]) /\ \A k \in ChannelLinks(c) : got[l] = got[k]

DataInv ==
  /\ DataTypes
  /\ SameStreams
  /\ \A l \in AllLinks : Appended(l)
  /\ \A c \in Channels : \A p \in out[c] : p[2] <= count[p[1]]
  /\ stage # "marshalled" => \A l \in AllLinks : bin[l] = << >>
  /\ stage \in {"register", "first"} =>
       \A c \in Channels : \A i \in DOMAIN slots[c] : slotData[c][i] = << >>
  /\ stage \in {"register", "first", "step"} =>
       \A c \in Channels : \A l \in ChannelLinks(c) : ToSet(got[l]) = out[c]
  /\ stage = "marshalled" => \A c \in Channels : \A l \in ChannelLinks(c) :
       /\ Distinct(bin[l])
       /\ OwnOf(l, bin[l])
       /\ NoneIn(bin[l], ToSet(got[l]))
       /\ out[c] = ToSet(got[l]) \cup Handed(c)
  /\ stage = "ready" => \A c \in Channels : \A l \in ChannelLinks(c) :
       /\ Distinct(DataOf(l))
       /\ NoneIn(DataOf(l), ToSet(got[l]))
       /\ out[c] = ToSet(got[l]) \cup ToSet(DataOf(l))

LoopbackInv == SlotInv /\ ScalarInv /\ DataInv

-----------------------------------------------------------------------------
\* The process and its links.
LEMMA HostFacts ==
  /\ Host \in Sims /\ Sims = {Host} /\ AllLinks = LinksOf(Host)
  /\ \A l \in AllLinks : l \in Link /\ l.channel \in Channels /\ l.model \in ModelsOf(Host)
  /\ \A c : ChannelLinks(c) = {l \in AllLinks : l.channel = c}
<1>1. Sims = {Host}
  BY LoopbackAssumption DEF Host
<1>2. AllLinks = LinksOf(Host)
  BY <1>1 DEF AllLinks
<1>3. \A l \in AllLinks : l \in Link
  BY <1>1, <1>2, TopologyAssumption DEF LinksOf
<1>4. \A l \in AllLinks : l.channel \in Channels
  BY <1>3 DEF Link
<1>5. \A l \in AllLinks : l.model \in ModelsOf(Host)
  BY <1>2 DEF ModelsOf
<1>6. \A c : ChannelLinks(c) = {l \in AllLinks : l.channel = c}
  BY DEF ChannelLinks, AllLinks
<1> QED BY <1>1, <1>2, <1>3, <1>4, <1>5, <1>6

LEMMA LinksFinite == IsFiniteSet(AllLinks)
<1> DEFINE n == Len(Links[Host])
           pick == [i \in 1..n |-> Links[Host][i]]
<1>1. Links[Host] \in Seq(Link)
  BY HostFacts, TopologyAssumption
<1>2. n \in Nat /\ DOMAIN Links[Host] = 1..n
  BY <1>1
<1>3. IsFiniteSet(1..n)
  BY <1>2, FS_Interval
<1>4. AllLinks = {Links[Host][i] : i \in 1..n}
  BY <1>2, HostFacts DEF LinksOf
<1>5. pick \in Surjection(1..n, AllLinks)
  BY <1>4 DEF Surjection
<1> QED BY <1>3, <1>5, FS_Surjection

LEMMA OrderFacts ==
  ASSUME NEW links \in Orders(LinksOf(Host))
  PROVE  /\ links \in Seq(AllLinks)
         /\ \A l \in AllLinks : \E j \in 1..Len(links) : links[j] = l
         /\ \A i, j \in 1..Len(links) : links[i] = links[j] => i = j
<1>1. Cardinality(AllLinks) \in Nat
  BY LinksFinite, FS_CardinalityType
<1>2. links \in [1..Cardinality(AllLinks) -> AllLinks]
  BY HostFacts DEF Orders
<1>3. links \in Seq(AllLinks) /\ DOMAIN links = 1..Len(links)
  BY <1>1, <1>2
<1>4. \A i, j \in DOMAIN links : links[i] = links[j] => i = j
  BY DEF Orders
<1>5. ToSet(links) = AllLinks
  BY HostFacts DEF Orders
<1>6. \A l \in AllLinks : \E j \in 1..Len(links) : links[j] = l
  BY <1>3, <1>5 DEF ToSet
<1> QED BY <1>3, <1>4, <1>6

\* A model that is registered at the end of the set-up.
LEMMA AllRegistered ==
  ASSUME SlotInv, stage # "register", NEW l \in AllLinks
  PROVE  l.model \in registered
  BY HostFacts DEF SlotInv

\* The cached slot is the one of the name, and no other name has it.
LEMMA SlotOfName ==
  ASSUME SlotInv, NEW l \in AllLinks, l.model \in registered, NEW x \in Names(l)
  PROVE  /\ index[l][x] \in DOMAIN slots[l.channel]
         /\ slots[l.channel][index[l][x]] = x
         /\ x \in ToSet(slots[l.channel])
         /\ Slot(l.channel, x) = index[l][x]
<1>1. index[l][x] \in DOMAIN slots[l.channel] /\ slots[l.channel][index[l][x]] = x
  BY DEF SlotInv
<1>2. \A i \in DOMAIN slots[l.channel] : slots[l.channel][i] = x => i = index[l][x]
  BY <1>1, HostFacts DEF SlotInv
<1>3. Slot(l.channel, x) = index[l][x]
  BY <1>1, <1>2 DEF Slot
<1>4. x \in ToSet(slots[l.channel])
  BY <1>1 DEF ToSet
<1> QED BY <1>1, <1>3, <1>4

\* Models of a channel have the same slot for a signal.
LEMMA OneSlot ==
  ASSUME SlotInv, NEW k \in AllLinks, k.model \in registered,
         NEW l \in AllLinks, l.model \in registered, k.channel = l.channel,
         NEW x \in Names(k), NEW y \in Names(l)
  PROVE  (index[k][x] = index[l][y]) <=> (x = y)
<1>1. slots[k.channel][index[k][x]] = x /\ index[k][x] \in DOMAIN slots[k.channel]
  BY SlotOfName
<1>2. slots[l.channel][index[l][y]] = y /\ index[l][y] \in DOMAIN slots[l.channel]
  BY SlotOfName
<1>3. \A i, j \in DOMAIN slots[l.channel] :
        slots[l.channel][i] = slots[l.channel][j] => i = j
  BY HostFacts DEF SlotInv
<1> QED BY <1>1, <1>2, <1>3

-----------------------------------------------------------------------------
\* Induction on positions.
LEMMA Upward ==
  ASSUME NEW n \in Nat, NEW S, 0 \in S,
         \A k \in 0..n : k \in S /\ k < n => k + 1 \in S
  PROVE  \A k \in 0..n : k \in S
<1> DEFINE U == {k \in 0..n : k \notin S}
           R == { ss \in Nat \X Nat : ss[1] < ss[2] }
<1>1. ASSUME U # {} PROVE FALSE
  <2>1. U \subseteq Nat
    OBVIOUS
  <2>2. IsWellFoundedOn(R, Nat)
    BY NatLessThanWellFounded DEF OpToRel
  <2>3. PICK k \in U : \A y \in U : ~(<<y, k>> \in R)
    <3> HIDE DEF R, U
    <3> QED BY <1>1, <2>1, <2>2, WFMin
  <2>4. k \in 0..n /\ k \notin S /\ k # 0
    BY <2>3
  <2>5. k - 1 \in 0..n /\ k - 1 < n /\ (k - 1) + 1 = k
    BY <2>4
  <2>6. <<k - 1, k>> \in R
    BY <2>4, <2>5
  <2>7. k - 1 \notin U
    BY <2>3, <2>6
  <2> QED BY <2>4, <2>5, <2>7
<1> QED BY <1>1

-----------------------------------------------------------------------------
\* The slots.
LEMMA InitSlots == Init => SlotInv
<1> SUFFICES ASSUME Init PROVE SlotInv
  OBVIOUS
<1>1. mode \in Modes /\ stage = "register" /\ registered = {}
  BY DEF Init
<1>2. ASSUME NEW c \in Channels
      PROVE  /\ \A i, j \in DOMAIN slots[c] : slots[c][i] = slots[c][j] => i = j
             /\ ToSet(slots[c]) \subseteq AllNames[c]
             /\ mode.direct => ToSet(slots[c]) = AllNames[c]
  <2>1. CASE mode.direct
    <3>1. slots[c] \in Orders(AllNames[c])
      BY <2>1 DEF Init
    <3> QED BY <3>1 DEF Orders
  <2>2. CASE ~mode.direct
    <3>1. slots \in [Channels -> {<< >>}]
      BY <2>2 DEF Init
    <3>2. slots[c] = << >>
      BY <3>1
    <3>3. DOMAIN slots[c] = {}
      BY <3>2
    <3> QED BY <2>2, <3>3 DEF ToSet
  <2> QED BY <2>1, <2>2
<1> QED BY <1>1, <1>2 DEF SlotInv

LEMMA Generated ==
  ASSUME NEW names, Generate(names), NEW c \in Channels,
         \A i, j \in DOMAIN slots[c] : slots[c][i] = slots[c][j] => i = j
  PROVE  /\ names[c] = ToSet(slots[c]) => slots'[c] = slots[c]
         /\ ToSet(slots'[c]) = names[c]
         /\ \A i, j \in DOMAIN slots'[c] : slots'[c][i] = slots'[c][j] => i = j
<1>1. IF names[c] = ToSet(slots[c]) THEN slots'[c] = slots[c]
                                    ELSE slots'[c] \in Orders(names[c])
  BY DEF Generate
<1>2. CASE names[c] = ToSet(slots[c])
  BY <1>1, <1>2
<1>3. CASE names[c] # ToSet(slots[c])
  <2>1. slots'[c] \in Orders(names[c])
    BY <1>1, <1>3
  <2> QED BY <1>3, <2>1 DEF Orders
<1> QED BY <1>2, <1>3

\* A channel that a registered model has keeps its slots, and those of the
\* new model are among them.
LEMMA RegisterSlots ==
  ASSUME SlotsStay, SlotInv, NEW m, Register(m), NEW c \in Channels
  PROVE  /\ \A i, j \in DOMAIN slots'[c] : slots'[c][i] = slots'[c][j] => i = j
         /\ ToSet(slots'[c]) \subseteq AllNames[c]
         /\ mode.direct => ToSet(slots'[c]) = AllNames[c]
         /\ \A k \in ChannelLinks(c) : k.model \in registered => slots'[c] = slots[c]
         /\ \A k \in ChannelLinks(c) : k.model = m => Names(k) \subseteq ToSet(slots'[c])
<1> DEFINE names == [d \in Channels |->
             ToSet(slots[d]) \cup
               UNION {Names(l) : l \in LinksOfModel(m) \cap ChannelLinks(d)}]
<1>0. /\ \A i, j \in DOMAIN slots[c] : slots[c][i] = slots[c][j] => i = j
      /\ ToSet(slots[c]) \subseteq AllNames[c]
      /\ mode.direct => ToSet(slots[c]) = AllNames[c]
  BY DEF SlotInv
<1>1. \A k \in ChannelLinks(c) : Names(k) \subseteq AllNames[c]
  BY DEF AllNames
<1>2. CASE mode.direct
  <2>1. slots' = slots
    BY <1>2 DEF Register, vectorVars
  <2> QED BY <1>0, <1>1, <1>2, <2>1
<1>3. CASE ~mode.direct
  <2>1. Generate(names)
    BY <1>3 DEF Register
  <2>2. names[c] = ToSet(slots[c]) \cup
                     UNION {Names(l) : l \in LinksOfModel(m) \cap ChannelLinks(c)}
    OBVIOUS
  <2> HIDE DEF names
  <2>3. /\ names[c] = ToSet(slots[c]) => slots'[c] = slots[c]
        /\ ToSet(slots'[c]) = names[c]
        /\ \A i, j \in DOMAIN slots'[c] : slots'[c][i] = slots'[c][j] => i = j
    BY <1>0, <2>1, Generated
  <2>4. ToSet(slots'[c]) \subseteq AllNames[c]
    BY <1>0, <1>1, <2>2, <2>3
  <2>5. ASSUME NEW k \in ChannelLinks(c), k.model = m
        PROVE  Names(k) \subseteq ToSet(slots'[c])
    <3>1. k \in LinksOfModel(m)
      BY <2>5, HostFacts DEF LinksOfModel
    <3> QED BY <2>2, <2>3, <3>1
  <2>6. ASSUME NEW k \in ChannelLinks(c), k.model \in registered
        PROVE  slots'[c] = slots[c]
    <3>1. ~ \A given \in Modes : given.direct
      BY <1>3 DEF SlotInv
    <3>2. SharedAlike
      BY <3>1 DEF SlotsStay
    <3>3. k \in AllLinks /\ k.channel = c
      BY HostFacts
    <3>4. \A x \in Names(k) : x \in ToSet(slots[c])
      BY <2>6, <3>3, SlotOfName
    <3>5. \A l \in ChannelLinks(c) : Names(l) = Names(k)
      BY <3>2 DEF SharedAlike, Names
    <3>6. names[c] = ToSet(slots[c])
      BY <2>2, <3>4, <3>5
    <3> QED BY <2>3, <3>6
  <2> QED BY <1>3, <2>3, <2>4, <2>5, <2>6
<1> QED BY <1>2, <1>3

\* The look ups of a model that registers.
LEMMA RegisterIndex ==
  ASSUME SlotsStay, SlotInv, NEW m, Register(m), NEW l \in AllLinks, NEW x \in Names(l)
  PROVE  /\ l.model \in registered => index'[l][x] = index[l][x]
         /\ l.model \in registered' => /\ index'[l][x] \in DOMAIN slots'[l.channel]
                                       /\ slots'[l.channel][index'[l][x]] = x
<1>0. l.channel \in Channels /\ l \in ChannelLinks(l.channel)
  BY HostFacts
<1>1. index' = [k \in AllLinks |->
                 IF k.model = m
                 THEN [y \in Names(k) |-> IF y \in ToSet(slots'[k.channel])
                                          THEN Slot(k.channel, y)' ELSE index[k][y]]
                 ELSE index[k]]
  BY DEF Register
<1>2. m \notin registered /\ registered' = registered \cup {m}
  BY DEF Register
<1>3. CASE l.model = m
  <2>1. x \in ToSet(slots'[l.channel])
    BY <1>0, <1>3, RegisterSlots
  <2>2. \E i \in DOMAIN slots'[l.channel] : slots'[l.channel][i] = x
    BY <2>1 DEF ToSet
  <2>3. index'[l][x] = Slot(l.channel, x)'
    BY <1>1, <1>3, <2>1
  <2>4. index'[l][x] = CHOOSE i \in DOMAIN slots'[l.channel] : slots'[l.channel][i] = x
    BY <2>3 DEF Slot
  <2>5. index'[l][x] \in DOMAIN slots'[l.channel] /\ slots'[l.channel][index'[l][x]] = x
    BY <2>2, <2>4
  <2> QED BY <1>2, <1>3, <2>5
<1>4. CASE l.model # m
  <2>1. index'[l] = index[l]
    BY <1>1, <1>4
  <2>2. ASSUME l.model \in registered
        PROVE  /\ index'[l][x] \in DOMAIN slots'[l.channel]
               /\ slots'[l.channel][index'[l][x]] = x
    <3>1. slots'[l.channel] = slots[l.channel]
      BY <1>0, <2>2, RegisterSlots
    <3>2. index[l][x] \in DOMAIN slots[l.channel] /\ slots[l.channel][index[l][x]] = x
      BY <2>2, SlotOfName
    <3> QED BY <2>1, <3>1, <3>2
  <2> QED BY <1>2, <1>4, <2>1, <2>2
<1> QED BY <1>3, <1>4

LEMMA RegisterKeepsSlots ==
  ASSUME SlotsStay, SlotInv, NEW m \in ModelsOf(Host), Register(m)
  PROVE  SlotInv'
<1>1. mode' = mode /\ registered' = registered \cup {m}
  BY DEF Register
<1>2. /\ stage' \in {"register", "first", "step", "marshalled", "ready"}
      /\ stage' # "register" => registered' = ModelsOf(Host)
  BY DEF Register
<1>3. \A c \in Channels :
        /\ \A i, j \in DOMAIN slots'[c] : slots'[c][i] = slots'[c][j] => i = j
        /\ ToSet(slots'[c]) \subseteq AllNames[c]
        /\ mode.direct => ToSet(slots'[c]) = AllNames[c]
  BY RegisterSlots
<1>4. \A l \in AllLinks : l.model \in registered' => \A x \in Names(l) :
        index'[l][x] \in DOMAIN slots'[l.channel] /\ slots'[l.channel][index'[l][x]] = x
  BY RegisterIndex
<1>5. mode' \in Modes /\ registered' \subseteq ModelsOf(Host)
  BY <1>1 DEF SlotInv
<1> QED BY <1>1, <1>2, <1>3, <1>4, <1>5 DEF SlotInv

LEMMA OthersKeepSlots ==
  ASSUME SlotInv, UNCHANGED <<mode, registered, slots, index>>,
         \/ stage' = stage
         \/ stage # "register" /\ stage' \in {"step", "marshalled", "ready"}
  PROVE  SlotInv'
<1>1. /\ stage' \in {"register", "first", "step", "marshalled", "ready"}
      /\ stage' # "register" => registered' = ModelsOf(Host)
  BY DEF SlotInv
<1>2. mode' = mode /\ registered' = registered /\ slots' = slots /\ index' = index
  OBVIOUS
<1> QED BY <1>1, <1>2 DEF SlotInv

-----------------------------------------------------------------------------
\* The recursive functions of Ready have their values.
LEMMA ScalarRecursion ==
  ASSUME NEW links \in Seq(AllLinks)
  PROVE  \E h : /\ PublishedScalar(links) = h[Len(links)]
                /\ h[0] = slotScalar
                /\ \A k \in 1..Len(links) : h[k] = PublishScalar(h[k - 1], links[k])
<1> DEFINE n == Len(links)
           Solution(m, h) ==
             [k \in 0..m |-> IF k = 0 THEN slotScalar ELSE PublishScalar(h[k - 1], links[k])]
           S == {m \in 0..n : \E h : h = Solution(m, h)}
<1>0. n \in Nat
  OBVIOUS
<1>1. 0 \in S
  <2> DEFINE h == [k \in 0..0 |-> slotScalar]
  <2>1. h = Solution(0, h)
    OBVIOUS
  <2>2. \E z : z = Solution(0, z)
    <3> HIDE DEF h, Solution
    <3> QED BY <2>1
  <2> QED BY <1>0, <2>2
<1>2. ASSUME NEW m \in 0..n, m \in S, m < n PROVE m + 1 \in S
  <2>1. PICK h : h = Solution(m, h)
    BY <1>2
  <2> DEFINE g == [k \in 0..m + 1 |->
                    IF k = m + 1 THEN PublishScalar(h[m], links[m + 1]) ELSE h[k]]
  <2>2. ASSUME NEW k \in 0..m + 1
        PROVE  g[k] = IF k = 0 THEN slotScalar ELSE PublishScalar(g[k - 1], links[k])
    <3>1. CASE k = m + 1
      <4>1. g[k - 1] = h[m] /\ g[k] = PublishScalar(h[m], links[m + 1]) /\ k # 0
        BY <3>1
      <4> QED BY <3>1, <4>1
    <3>2. CASE k # m + 1
      <4>1. k \in 0..m /\ g[k] = h[k]
        BY <3>2
      <4>2. h[k] = IF k = 0 THEN slotScalar ELSE PublishScalar(h[k - 1], links[k])
        BY <2>1, <4>1
      <4>3. k # 0 => g[k - 1] = h[k - 1]
        BY <4>1
      <4> QED BY <4>1, <4>2, <4>3
    <3> QED BY <3>1, <3>2
  <2>3. g = Solution(m + 1, g)
    BY <2>2
  <2>4. \E z : z = Solution(m + 1, z)
    <3> HIDE DEF g, Solution
    <3> QED BY <2>3
  <2>5. m + 1 \in 0..n
    BY <1>0, <1>2
  <2> QED BY <2>4, <2>5
<1> DEFINE bus == CHOOSE h : h = Solution(n, h)
<1>3. bus = Solution(n, bus)
  <2>1. n \in S
    <3> HIDE DEF S, n
    <3>1. n \in 0..n
      BY <1>0
    <3> QED BY <1>0, <1>1, <1>2, <3>1, Upward
  <2> HIDE DEF Solution
  <2> QED BY <2>1
<1>4. PublishedScalar(links) = bus[n]
  BY DEF PublishedScalar
<1> HIDE DEF bus
<1>5. bus[0] = slotScalar /\ \A k \in 1..n : bus[k] = PublishScalar(bus[k - 1], links[k])
  <2>1. PICK h : h = bus
    OBVIOUS
  <2>2. h = Solution(n, h)
    BY <1>3, <2>1
  <2>3. \A k \in 0..n : h[k] = IF k = 0 THEN slotScalar ELSE PublishScalar(h[k - 1], links[k])
    BY <2>2
  <2>4. 0 \in 0..n /\ \A k \in 1..n : k \in 0..n /\ k # 0
    BY <1>0
  <2> QED BY <2>1, <2>3, <2>4
<1> QED BY <1>4, <1>5

LEMMA DataRecursion ==
  ASSUME NEW links \in Seq(AllLinks)
  PROVE  \E h : /\ PublishedData(links) = h[Len(links)]
                /\ h[0] = ResolvedData
                /\ \A k \in 1..Len(links) : h[k] = PublishData(h[k - 1], links[k])
<1> DEFINE n == Len(links)
           Solution(m, h) ==
             [k \in 0..m |-> IF k = 0 THEN ResolvedData ELSE PublishData(h[k - 1], links[k])]
           S == {m \in 0..n : \E h : h = Solution(m, h)}
<1>0. n \in Nat
  OBVIOUS
<1>1. 0 \in S
  <2> DEFINE h == [k \in 0..0 |-> ResolvedData]
  <2>1. h = Solution(0, h)
    OBVIOUS
  <2>2. \E z : z = Solution(0, z)
    <3> HIDE DEF h, Solution
    <3> QED BY <2>1
  <2> QED BY <1>0, <2>2
<1>2. ASSUME NEW m \in 0..n, m \in S, m < n PROVE m + 1 \in S
  <2>1. PICK h : h = Solution(m, h)
    BY <1>2
  <2> DEFINE g == [k \in 0..m + 1 |->
                    IF k = m + 1 THEN PublishData(h[m], links[m + 1]) ELSE h[k]]
  <2>2. ASSUME NEW k \in 0..m + 1
        PROVE  g[k] = IF k = 0 THEN ResolvedData ELSE PublishData(g[k - 1], links[k])
    <3>1. CASE k = m + 1
      <4>1. g[k - 1] = h[m] /\ g[k] = PublishData(h[m], links[m + 1]) /\ k # 0
        BY <3>1
      <4> QED BY <3>1, <4>1
    <3>2. CASE k # m + 1
      <4>1. k \in 0..m /\ g[k] = h[k]
        BY <3>2
      <4>2. h[k] = IF k = 0 THEN ResolvedData ELSE PublishData(h[k - 1], links[k])
        BY <2>1, <4>1
      <4>3. k # 0 => g[k - 1] = h[k - 1]
        BY <4>1
      <4> QED BY <4>1, <4>2, <4>3
    <3> QED BY <3>1, <3>2
  <2>3. g = Solution(m + 1, g)
    BY <2>2
  <2>4. \E z : z = Solution(m + 1, z)
    <3> HIDE DEF g, Solution
    <3> QED BY <2>3
  <2>5. m + 1 \in 0..n
    BY <1>0, <1>2
  <2> QED BY <2>4, <2>5
<1> DEFINE bus == CHOOSE h : h = Solution(n, h)
<1>3. bus = Solution(n, bus)
  <2>1. n \in S
    <3> HIDE DEF S, n
    <3>1. n \in 0..n
      BY <1>0
    <3> QED BY <1>0, <1>1, <1>2, <3>1, Upward
  <2> HIDE DEF Solution
  <2> QED BY <2>1
<1>4. PublishedData(links) = bus[n]
  BY DEF PublishedData
<1> HIDE DEF bus
<1>5. bus[0] = ResolvedData /\ \A k \in 1..n : bus[k] = PublishData(bus[k - 1], links[k])
  <2>1. PICK h : h = bus
    OBVIOUS
  <2>2. h = Solution(n, h)
    BY <1>3, <2>1
  <2>3. \A k \in 0..n : h[k] = IF k = 0 THEN ResolvedData ELSE PublishData(h[k - 1], links[k])
    BY <2>2
  <2>4. 0 \in 0..n /\ \A k \in 1..n : k \in 0..n /\ k # 0
    BY <1>0
  <2> QED BY <2>1, <2>3, <2>4
<1> QED BY <1>4, <1>5

-----------------------------------------------------------------------------
\* What the models publish.

LEMMA PublishScalarAt ==
  ASSUME NEW b, VectorOf(b), NEW l \in AllLinks
  PROVE  /\ VectorOf(PublishScalar(b, l))
         /\ \A c \in Channels : \A i \in DOMAIN slots[c] :
              PublishScalar(b, l)[c][i] =
                IF l.channel # c \/ Changed(l, i) = {} THEN b[c][i]
                ELSE final[l][CHOOSE x \in Changed(l, i) : TRUE]
<1> DEFINE d == l.channel
           vector == [i \in DOMAIN b[d] |->
                       IF Changed(l, i) = {} THEN b[d][i]
                       ELSE final[l][CHOOSE x \in Changed(l, i) : TRUE]]
<1>0. d \in Channels
  BY HostFacts
<1>1. PublishScalar(b, l) = [b EXCEPT ![d] = vector]
  BY DEF PublishScalar
<1>2. b = [c \in Channels |-> b[c]] /\ DOMAIN b[d] = DOMAIN slots[d]
  BY <1>0 DEF VectorOf
<1>3. DOMAIN vector = DOMAIN slots[d] /\ vector = [i \in DOMAIN slots[d] |-> vector[i]]
  BY <1>2
<1>4. \A i \in DOMAIN slots[d] :
        vector[i] = IF Changed(l, i) = {} THEN b[d][i]
                    ELSE final[l][CHOOSE x \in Changed(l, i) : TRUE]
  BY <1>2
<1> HIDE DEF vector, d
<1> DEFINE a == [b EXCEPT ![d] = vector]
<1>5. /\ a = [c \in Channels |-> a[c]]
      /\ a[d] = vector
      /\ \A c \in Channels : c # d => a[c] = b[c]
  BY <1>0, <1>2
<1> HIDE DEF a
<1>6. \A c \in Channels : a[c] = [i \in DOMAIN slots[c] |-> a[c][i]]
  <2> TAKE c \in Channels
  <2>1. CASE c = d
    BY <1>3, <1>5, <2>1
  <2>2. CASE c # d
    BY <1>5, <2>2 DEF VectorOf
  <2> QED BY <2>1, <2>2
<1>7. VectorOf(a)
  BY <1>5, <1>6 DEF VectorOf
<1>8. \A c \in Channels : \A i \in DOMAIN slots[c] :
        a[c][i] = IF d # c \/ Changed(l, i) = {} THEN b[c][i]
                  ELSE final[l][CHOOSE x \in Changed(l, i) : TRUE]
  BY <1>4, <1>5
<1>9. PublishScalar(b, l) = a
  BY <1>1 DEF a
<1> QED BY <1>7, <1>8, <1>9 DEF d

\* A value that slot i of channel c may have after the first k links.
Writers(links, k, c, i) == {j \in 1..k : links[j].channel = c /\ Changed(links[j], i) # {}}

Reached(links, k, c, i, v) ==
  IF Writers(links, k, c, i) = {} THEN v = slotScalar[c][i]
  ELSE \E j \in Writers(links, k, c, i) : \E x \in Changed(links[j], i) :
         v = final[links[j]][x]

LEMMA ReachedNext ==
  ASSUME NEW links \in Seq(AllLinks), NEW k \in 0..Len(links), k < Len(links),
         NEW c, NEW i, NEW v, Reached(links, k, c, i, v), NEW w,
         w = IF links[k + 1].channel # c \/ Changed(links[k + 1], i) = {} THEN v
             ELSE final[links[k + 1]][CHOOSE x \in Changed(links[k + 1], i) : TRUE]
  PROVE  Reached(links, k + 1, c, i, w)
<1> DEFINE U == Writers(links, k, c, i)
           W == Writers(links, k + 1, c, i)
<1>0. k \in Nat /\ k + 1 \in 1..k + 1 /\ \A j : j \in 1..k + 1 <=> (j \in 1..k \/ j = k + 1)
  OBVIOUS
<1>1. CASE links[k + 1].channel # c \/ Changed(links[k + 1], i) = {}
  <2>1. W = U
    BY <1>0, <1>1 DEF Writers
  <2>2. w = v
    BY <1>1
  <2> QED BY <2>1, <2>2 DEF Reached
<1>2. CASE links[k + 1].channel = c /\ Changed(links[k + 1], i) # {}
  <2> DEFINE x == CHOOSE x \in Changed(links[k + 1], i) : TRUE
  <2>1. x \in Changed(links[k + 1], i) /\ w = final[links[k + 1]][x]
    BY <1>2
  <2>2. k + 1 \in W
    BY <1>0, <1>2 DEF Writers
  <2> HIDE DEF x
  <2>3. \E j \in W : \E y \in Changed(links[j], i) : w = final[links[j]][y]
    BY <2>1, <2>2
  <2> QED BY <2>2, <2>3 DEF Reached
<1> QED BY <1>1, <1>2

LEMMA PublishedValues ==
  ASSUME VectorOf(slotScalar), NEW links \in Orders(LinksOf(Host))
  PROVE  /\ VectorOf(PublishedScalar(links))
         /\ \A c \in Channels : \A i \in DOMAIN slots[c] :
              Reached(links, Len(links), c, i, PublishedScalar(links)[c][i])
<1> DEFINE n == Len(links)
<1>0. links \in Seq(AllLinks) /\ n \in Nat
  BY OrderFacts
<1>1. PICK h : /\ PublishedScalar(links) = h[n]
               /\ h[0] = slotScalar
               /\ \A k \in 1..n : h[k] = PublishScalar(h[k - 1], links[k])
  BY <1>0, ScalarRecursion
<1> DEFINE S == {k \in 0..n :
                  /\ VectorOf(h[k])
                  /\ \A c \in Channels : \A i \in DOMAIN slots[c] :
                       Reached(links, k, c, i, h[k][c][i])}
<1>2. 0 \in S
  <2>1. \A c, i : Writers(links, 0, c, i) = {}
    BY DEF Writers
  <2> QED BY <1>0, <1>1, <2>1 DEF Reached
<1>3. ASSUME NEW k \in 0..n, k \in S, k < n PROVE k + 1 \in S
  <2>0. k + 1 \in 1..n /\ k + 1 \in 0..n /\ (k + 1) - 1 = k
    BY <1>0, <1>3
  <2>1. h[k + 1] = PublishScalar(h[k], links[k + 1]) /\ links[k + 1] \in AllLinks
    BY <1>0, <1>1, <2>0
  <2>2. VectorOf(h[k])
    BY <1>3
  <2>3. PICK b : b = h[k]
    OBVIOUS
  <2>7. PICK l \in AllLinks : l = links[k + 1]
    BY <2>1
  <2>8. VectorOf(b)
    BY <2>2, <2>3
  <2>9. /\ VectorOf(PublishScalar(b, l))
        /\ \A c \in Channels : \A i \in DOMAIN slots[c] :
              PublishScalar(b, l)[c][i] =
                IF l.channel # c \/ Changed(l, i) = {} THEN b[c][i]
                ELSE final[l][CHOOSE x \in Changed(l, i) : TRUE]
    BY <2>8, PublishScalarAt
  <2>4. /\ VectorOf(PublishScalar(b, links[k + 1]))
        /\ \A c \in Channels : \A i \in DOMAIN slots[c] :
              PublishScalar(b, links[k + 1])[c][i] =
                IF links[k + 1].channel # c \/ Changed(links[k + 1], i) = {} THEN b[c][i]
                ELSE final[links[k + 1]][CHOOSE x \in Changed(links[k + 1], i) : TRUE]
    BY <2>7, <2>9
  <2>5. ASSUME NEW c \in Channels, NEW i \in DOMAIN slots[c]
        PROVE  Reached(links, k + 1, c, i, h[k + 1][c][i])
    <3>1. PICK v : v = h[k][c][i]
      OBVIOUS
    <3>2. PICK w : w = h[k + 1][c][i]
      OBVIOUS
    <3>3. Reached(links, k, c, i, v)
      BY <1>3, <3>1
    <3>4. w = IF links[k + 1].channel # c \/ Changed(links[k + 1], i) = {} THEN v
              ELSE final[links[k + 1]][CHOOSE x \in Changed(links[k + 1], i) : TRUE]
      <4>1. w = PublishScalar(b, links[k + 1])[c][i] /\ v = b[c][i]
        BY <2>1, <2>3, <3>1, <3>2
      <4> QED BY <2>4, <4>1
    <3>5. Reached(links, k + 1, c, i, w)
      BY <1>0, <1>3, <3>3, <3>4, ReachedNext
    <3> QED BY <3>2, <3>5
  <2>6. VectorOf(h[k + 1])
    BY <2>1, <2>3, <2>4
  <2> QED BY <2>0, <2>5, <2>6
<1>4. n \in S
  <2> HIDE DEF S, n
  <2>1. n \in 0..n
    BY <1>0
  <2> QED BY <1>0, <1>2, <1>3, <2>1, Upward
<1> QED BY <1>1, <1>4

-----------------------------------------------------------------------------
\* The scalar signals.

LEMMA InitScalars == Init => ScalarInv
<1> SUFFICES ASSUME Init PROVE ScalarInv
  OBVIOUS
<1>1. VectorOf(slotScalar)
  BY DEF Init, VectorOf
<1>2. /\ scalar \in [AllLinks -> UNION {[SignalsOf[l] -> CreateValues] : l \in AllLinks}]
      /\ \A l \in AllLinks : DOMAIN scalar[l] = SignalsOf[l]
  BY DEF Init
<1>3. ASSUME NEW l \in AllLinks
      PROVE  /\ scalar[l] = [x \in SignalsOf[l] |-> scalar[l][x]]
             /\ \A x \in SignalsOf[l] : scalar[l][x] \in CreateValues
  <2>1. scalar[l] \in UNION {[SignalsOf[k] -> CreateValues] : k \in AllLinks}
    BY <1>2
  <2>2. PICK k \in AllLinks : scalar[l] \in [SignalsOf[k] -> CreateValues]
    BY <2>1
  <2>3. DOMAIN scalar[l] = SignalsOf[l]
    BY <1>2
  <2> QED BY <2>2, <2>3
<1>4. ASSUME CreateValues = {0} PROVE scalar = Zeros
  <2>1. scalar = [l \in AllLinks |-> scalar[l]]
    BY <1>2
  <2>2. \A l \in AllLinks : scalar[l] = [x \in SignalsOf[l] |-> 0]
    BY <1>3, <1>4
  <2> QED BY <2>1, <2>2 DEF Zeros
<1>5. stage = "register" /\ val = Zeros /\ registered = {}
  BY DEF Init
<1>6. \A c \in Channels : \A i \in DOMAIN slots[c] : slotScalar[c][i] = 0
  BY DEF Init
<1>7. scalar = [l \in AllLinks |-> scalar[l]]
  BY <1>2
<1> QED BY <1>1, <1>3, <1>4, <1>5, <1>6, <1>7 DEF ScalarInv, InSlots

\* Until the first step, the slots are empty.
LEMMA RegisterVectors ==
  ASSUME SlotInv, ScalarInv, DataInv, NEW m, Register(m)
  PROVE  /\ VectorOf(slotScalar)'
         /\ VectorOf(slotData)'
         /\ \A c \in Channels : \A i \in DOMAIN slots'[c] :
              slotScalar'[c][i] = 0 /\ slotData'[c][i] = << >>
<1>1. stage = "register"
  BY DEF Register
<1>2. CASE mode.direct
  <2>1. slots' = slots /\ slotScalar' = slotScalar /\ slotData' = slotData
    BY <1>2 DEF Register, vectorVars
  <2>2. \A c \in Channels : \A i \in DOMAIN slots[c] : slotScalar[c][i] = 0
    BY <1>1 DEF ScalarInv
  <2>3. \A c \in Channels : \A i \in DOMAIN slots[c] : slotData[c][i] = << >>
    BY <1>1 DEF DataInv
  <2>4. VectorOf(slotScalar)' /\ VectorOf(slotData)'
    BY <2>1 DEF VectorOf, ScalarInv, DataInv, DataTypes
  <2> QED BY <2>1, <2>2, <2>3, <2>4
<1>3. CASE ~mode.direct
  <2>1. /\ slotScalar' = [c \in Channels |-> [i \in DOMAIN slots'[c] |-> 0]]
        /\ slotData' = [c \in Channels |-> [i \in DOMAIN slots'[c] |-> << >>]]
    BY <1>3 DEF Register, Generate
  <2> QED BY <2>1 DEF VectorOf
<1> QED BY <1>2, <1>3

LEMMA RegisterKeepsScalars ==
  ASSUME SlotsStay, SlotInv, ScalarInv, DataInv, NEW m, Register(m)
  PROVE  ScalarInv'
<1>1. /\ stage = "register" /\ stage' \in {"register", "first", "step"}
      /\ scalar' = scalar /\ val' = val
  BY DEF Register, functionVars
<1>2. /\ VectorOf(slotScalar)'
      /\ \A c \in Channels : \A i \in DOMAIN slots'[c] : slotScalar'[c][i] = 0
  BY RegisterVectors
<1>3. /\ val = Zeros
      /\ CreateValues = {0} => scalar = Zeros
      /\ scalar = [l \in AllLinks |-> scalar[l]]
      /\ \A l \in AllLinks : scalar[l] = [x \in SignalsOf[l] |-> scalar[l][x]]
  BY <1>1 DEF ScalarInv
<1>4. ASSUME NEW l \in AllLinks, l.model \in registered', NEW x \in SignalsOf[l]
      PROVE  val'[l][x] = slotScalar'[l.channel][index'[l][x]]
  <2>1. x \in Names(l)
    BY DEF Names
  <2>2. index'[l][x] \in DOMAIN slots'[l.channel]
    BY <1>4, <2>1, RegisterIndex
  <2>3. slotScalar'[l.channel][index'[l][x]] = 0
    BY <1>2, <2>2, HostFacts
  <2>4. val'[l][x] = 0
    BY <1>1, <1>3 DEF Zeros
  <2> QED BY <2>3, <2>4
<1>5. InSlots(val)'
  BY <1>4 DEF InSlots
<1> QED BY <1>1, <1>2, <1>3, <1>5 DEF ScalarInv, Zeros

\* What a step function leaves alone.
LEMMA StepModelFrame ==
  ASSUME StepModel
  PROVE  /\ stage = "step" /\ stage' = "step"
         /\ UNCHANGED <<mode, registered, slots, slotScalar, slotData, index,
                        val, final, bin, out, got>>
  BY DEF StepModel, vectorVars, adapterVars

LEMMA StepModelKeepsScalars ==
  ASSUME ScalarInv, StepModel
  PROVE  ScalarInv'
<1>1. /\ stage = "step" /\ stage' = "step"
      /\ registered' = registered /\ slots' = slots /\ slotScalar' = slotScalar
      /\ index' = index /\ val' = val
  BY StepModelFrame
<1>2. /\ scalar = [l \in AllLinks |-> scalar[l]]
      /\ \A l \in AllLinks : scalar[l] = [x \in SignalsOf[l] |-> scalar[l][x]]
  BY DEF ScalarInv
<1>3. /\ scalar' = [l \in AllLinks |-> scalar'[l]]
      /\ \A l \in AllLinks : scalar'[l] = [x \in SignalsOf[l] |-> scalar'[l][x]]
  <2>1. CASE scalar' = scalar
    BY <1>2, <2>1
  <2>2. CASE WriteScalar(Host)
    <3>0. PICK k \in LinksOf(Host) : \E y \in SignalsOf[k], v \in Values :
            scalar' = [scalar EXCEPT ![k][y] = v]
      BY <2>2 DEF WriteScalar
    <3>1. PICK y \in SignalsOf[k], v \in Values :
            scalar' = [scalar EXCEPT ![k][y] = v]
      BY <3>0
    <3>2. scalar' = [l \in AllLinks |-> IF l = k THEN [scalar[k] EXCEPT ![y] = v]
                                                ELSE scalar[l]]
      BY <1>2, <3>1
    <3>3. \A l \in AllLinks : scalar'[l] = IF l = k THEN [scalar[k] EXCEPT ![y] = v]
                                                   ELSE scalar[l]
      BY <3>2
    <3>4. k \in AllLinks
      BY HostFacts
    <3>5. scalar'[k] = [x \in SignalsOf[k] |-> scalar'[k][x]]
      BY <1>2, <3>3, <3>4
    <3>6. \A l \in AllLinks : scalar'[l] = [x \in SignalsOf[l] |-> scalar'[l][x]]
      BY <1>2, <3>3, <3>5
    <3>7. scalar' = [l \in AllLinks |-> scalar'[l]]
      BY <3>2
    <3> QED BY <3>6, <3>7
  <2>3. scalar' = scalar \/ WriteScalar(Host)
    BY DEF StepModel, StepFunction, ResetBinary, AppendBinary
  <2> QED BY <2>1, <2>2, <2>3
<1>4. VectorOf(slotScalar) /\ InSlots(val)
  BY <1>1 DEF ScalarInv
<1>5. VectorOf(slotScalar)'
  BY <1>1, <1>4 DEF VectorOf
<1>6. InSlots(val)'
  BY <1>1, <1>4 DEF InSlots
<1> QED BY <1>1, <1>3, <1>5, <1>6 DEF ScalarInv

LEMMA MarshalKeepsScalars ==
  ASSUME ScalarInv, Marshal
  PROVE  ScalarInv'
<1>1. /\ stage = "step" /\ stage' = "marshalled"
      /\ registered' = registered /\ slots' = slots /\ slotScalar' = slotScalar
      /\ index' = index /\ val' = val /\ scalar' = scalar /\ final' = scalar
  BY DEF Marshal, MarshalOut, vectorVars
<1>2. VectorOf(slotScalar) /\ InSlots(val)
  BY <1>1 DEF ScalarInv
<1>3. VectorOf(slotScalar)'
  BY <1>1, <1>2 DEF VectorOf
<1>4. InSlots(val)'
  BY <1>1, <1>2 DEF InSlots
<1> QED BY <1>1, <1>3, <1>4 DEF ScalarInv

LEMMA ReadyKeepsScalars ==
  ASSUME ScalarInv, Ready
  PROVE  ScalarInv'
<1>1. stage' = "ready" /\ slots' = slots /\ scalar' = scalar
  BY DEF Ready, functionVars
<1>2. PICK links \in Orders(LinksOf(Host)) : slotScalar' = PublishedScalar(links)
  BY DEF Ready
<1>3. VectorOf(slotScalar)
  BY DEF ScalarInv
<1>5. VectorOf(PublishedScalar(links))
  BY <1>3, PublishedValues
<1>6. VectorOf(slotScalar)'
  BY <1>1, <1>2, <1>5 DEF VectorOf
<1> QED BY <1>1, <1>6 DEF ScalarInv

LEMMA StartFacts ==
  ASSUME Start
  PROVE  /\ stage \in {"first", "ready"} /\ stage' = "step"
         /\ UNCHANGED <<mode, registered, slots, slotScalar, slotData, index, bin, out, count>>
         /\ val' = [l \in AllLinks |->
                     [x \in SignalsOf[l] |-> slotScalar[l.channel][index[l][x]]]]
         /\ scalar' = [l \in AllLinks |-> val'[l]]
         /\ binary' = [l \in AllLinks |-> binary[l] \o DataOf(l)]
         /\ reset' = [l \in AllLinks |-> FALSE]
         /\ got' = [l \in AllLinks |-> got[l] \o DataOf(l)]
<1> DEFINE data == [l \in AllLinks |-> slotData[l.channel][index[l][Bin]]]
<1>1. /\ stage \in {"first", "ready"} /\ stage' = "step"
      /\ UNCHANGED <<mode, registered, slots, slotScalar, slotData, index, bin, out>>
      /\ val' = [l \in AllLinks |->
                  [x \in SignalsOf[l] |-> slotScalar[l.channel][index[l][x]]]]
      /\ got' = [l \in AllLinks |-> got[l] \o data[l]]
      /\ MarshalIn(Host, val', data)
  BY DEF Start, vectorVars
<1>2. /\ scalar' = [l \in AllLinks |-> IF l \in LinksOf(Host) THEN val'[l] ELSE scalar[l]]
      /\ binary' = [l \in AllLinks |->
                     IF l \in LinksOf(Host) THEN binary[l] \o data[l] ELSE binary[l]]
      /\ reset' = [l \in AllLinks |-> IF l \in LinksOf(Host) THEN FALSE ELSE reset[l]]
      /\ count' = count
  BY <1>1 DEF MarshalIn
<1>3. \A l \in AllLinks : l \in LinksOf(Host) /\ data[l] = DataOf(l)
  BY HostFacts DEF DataOf
<1> HIDE DEF data
<1>4. scalar' = [l \in AllLinks |-> val'[l]]
  BY <1>2, <1>3
<1>5. binary' = [l \in AllLinks |-> binary[l] \o DataOf(l)]
  BY <1>2, <1>3
<1>6. reset' = [l \in AllLinks |-> FALSE]
  BY <1>2, <1>3
<1>7. got' = [l \in AllLinks |-> got[l] \o DataOf(l)]
  BY <1>1, <1>3
<1> QED BY <1>1, <1>2, <1>4, <1>5, <1>6, <1>7

LEMMA StartKeepsScalars ==
  ASSUME ScalarInv, Start
  PROVE  ScalarInv'
<1>1. /\ stage' = "step"
      /\ registered' = registered /\ slots' = slots /\ slotScalar' = slotScalar
      /\ index' = index
      /\ val' = [l \in AllLinks |->
                  [x \in SignalsOf[l] |-> slotScalar[l.channel][index[l][x]]]]
      /\ scalar' = [l \in AllLinks |-> val'[l]]
  BY StartFacts
<1>2. \A l \in AllLinks :
        val'[l] = [x \in SignalsOf[l] |-> slotScalar[l.channel][index[l][x]]]
  BY <1>1
<1>3. \A l \in AllLinks : scalar'[l] = val'[l]
  BY <1>1
<1>4. \A l \in AllLinks : scalar'[l] = [x \in SignalsOf[l] |-> scalar'[l][x]]
  <2> TAKE l \in AllLinks
  <2>1. scalar'[l] = [x \in SignalsOf[l] |-> slotScalar[l.channel][index[l][x]]]
    BY <1>2, <1>3
  <2> QED BY <2>1
<1>5. scalar' = [l \in AllLinks |-> scalar'[l]]
  BY <1>1
<1>6. VectorOf(slotScalar)'
  BY <1>1 DEF ScalarInv, VectorOf
<1>7. InSlots(val)'
  BY <1>1, <1>2 DEF InSlots
<1> QED BY <1>1, <1>4, <1>5, <1>6, <1>7 DEF ScalarInv

-----------------------------------------------------------------------------
\* Sequences of payloads.

LEMMA ConcatElements ==
  ASSUME NEW S, NEW a \in Seq(S), NEW b \in Seq(S)
  PROVE  ToSet(a \o b) = ToSet(a) \cup ToSet(b)
<1> DEFINE q == a \o b
<1>1. /\ Len(a) \in Nat /\ Len(b) \in Nat
      /\ DOMAIN a = 1..Len(a) /\ DOMAIN b = 1..Len(b) /\ DOMAIN q = 1..(Len(a) + Len(b))
      /\ \A i \in 1..(Len(a) + Len(b)) :
           q[i] = IF i <= Len(a) THEN a[i] ELSE b[i - Len(a)]
  BY ConcatProperties, LenProperties
<1> HIDE DEF q
<1>2. ASSUME NEW i \in DOMAIN q PROVE q[i] \in ToSet(a) \cup ToSet(b)
  <2>1. CASE i <= Len(a)
    <3>1. i \in DOMAIN a /\ q[i] = a[i]
      BY <1>1, <2>1
    <3> QED BY <3>1 DEF ToSet
  <2>2. CASE ~(i <= Len(a))
    <3>1. i - Len(a) \in DOMAIN b /\ q[i] = b[i - Len(a)]
      BY <1>1, <2>2
    <3> QED BY <3>1 DEF ToSet
  <2> QED BY <2>1, <2>2
<1>3. ASSUME NEW i \in DOMAIN a PROVE a[i] \in ToSet(q)
  <2>1. i \in DOMAIN q /\ q[i] = a[i]
    BY <1>1
  <2> QED BY <2>1 DEF ToSet
<1>4. ASSUME NEW i \in DOMAIN b PROVE b[i] \in ToSet(q)
  <2>1. i + Len(a) \in DOMAIN q /\ i + Len(a) \in Int /\ ~(i + Len(a) <= Len(a))
        /\ (i + Len(a)) - Len(a) = i
    BY <1>1
  <2>2. q[i + Len(a)] = b[i]
    BY <1>1, <2>1
  <2> QED BY <2>1, <2>2 DEF ToSet
<1>5. ToSet(q) = ToSet(a) \cup ToSet(b)
  <2>1. ToSet(q) \subseteq ToSet(a) \cup ToSet(b)
    <3> SUFFICES ASSUME NEW p \in ToSet(q) PROVE p \in ToSet(a) \cup ToSet(b)
      OBVIOUS
    <3>1. \E i \in DOMAIN q : p = q[i]
      BY DEF ToSet
    <3> QED BY <1>2, <3>1
  <2>2. ToSet(a) \subseteq ToSet(q)
    BY <1>3 DEF ToSet
  <2>3. ToSet(b) \subseteq ToSet(q)
    BY <1>4 DEF ToSet
  <2> QED BY <2>1, <2>2, <2>3
<1> QED BY <1>5 DEF q

LEMMA ConcatDistinct ==
  ASSUME NEW S, NEW a \in Seq(S), NEW b \in Seq(S), Distinct(a), Distinct(b),
         NoneIn(b, ToSet(a))
  PROVE  Distinct(a \o b)
<1> DEFINE q == a \o b
<1>1. /\ Len(a) \in Nat /\ Len(b) \in Nat
      /\ DOMAIN a = 1..Len(a) /\ DOMAIN b = 1..Len(b) /\ DOMAIN q = 1..(Len(a) + Len(b))
      /\ \A i \in 1..(Len(a) + Len(b)) :
           q[i] = IF i <= Len(a) THEN a[i] ELSE b[i - Len(a)]
  BY ConcatProperties, LenProperties
<1> HIDE DEF q
<1>2. \A i \in DOMAIN a, j \in DOMAIN b : a[i] # b[j]
  BY DEF NoneIn, ToSet
<1>3. ASSUME NEW i \in DOMAIN q, NEW j \in DOMAIN q, q[i] = q[j], i <= j
      PROVE  i = j
  <2>0. i \in Int /\ j \in Int
    BY <1>1
  <2>1. CASE j <= Len(a)
    <3>1. i \in DOMAIN a /\ j \in DOMAIN a /\ q[i] = a[i] /\ q[j] = a[j]
      BY <1>1, <1>3, <2>0, <2>1
    <3> QED BY <1>3, <3>1 DEF Distinct
  <2>2. CASE i <= Len(a) /\ ~(j <= Len(a))
    <3>1. i \in DOMAIN a /\ j - Len(a) \in DOMAIN b
      BY <1>1, <2>2
    <3>2. q[i] = a[i] /\ q[j] = b[j - Len(a)]
      BY <1>1, <2>2
    <3> QED BY <1>2, <1>3, <3>1, <3>2
  <2>3. CASE ~(i <= Len(a))
    <3>1. i - Len(a) \in DOMAIN b /\ j - Len(a) \in DOMAIN b
      BY <1>1, <1>3, <2>0, <2>3
    <3>2. q[i] = b[i - Len(a)] /\ q[j] = b[j - Len(a)]
      BY <1>1, <1>3, <2>0, <2>3
    <3>3. i - Len(a) = j - Len(a)
      BY <1>3, <3>1, <3>2 DEF Distinct
    <3> QED BY <1>1, <2>0, <3>3
  <2> QED BY <1>1, <2>0, <2>1, <2>2, <2>3
<1>4. ASSUME NEW i \in DOMAIN q, NEW j \in DOMAIN q, q[i] = q[j]
      PROVE  i = j
  <2>1. i \in Int /\ j \in Int
    BY <1>1
  <2>2. CASE i <= j
    BY <1>3, <1>4, <2>2
  <2>3. CASE j <= i
    BY <1>3, <1>4, <2>3
  <2> QED BY <2>1, <2>2, <2>3
<1>5. Distinct(q)
  BY <1>4 DEF Distinct
<1> QED BY <1>5 DEF q

LEMMA EmptySequence ==
  ASSUME NEW S
  PROVE  /\ << >> \in Seq(S) /\ ToSet(<< >>) = {} /\ Distinct(<< >>)
         /\ \A l : OwnOf(l, << >>)
         /\ \A T : NoneIn(<< >>, T)
<1>1. << >> \in Seq(S) /\ DOMAIN << >> = {}
  OBVIOUS
<1>2. ToSet(<< >>) = {}
  BY <1>1 DEF ToSet
<1> QED BY <1>1, <1>2 DEF Distinct, OwnOf, NoneIn

LEMMA ElementsOfSeq ==
  ASSUME NEW S, NEW q \in Seq(S)
  PROVE  \A p \in ToSet(q) : p \in S
  BY DEF ToSet

-----------------------------------------------------------------------------
\* The data that the models publish.

LEMMA PublishDataAt ==
  ASSUME NEW b, VectorOf(b), NEW l \in AllLinks,
         index[l][Bin] \in DOMAIN slots[l.channel]
  PROVE  /\ VectorOf(PublishData(b, l))
         /\ \A c \in Channels : \A i \in DOMAIN slots[c] :
              PublishData(b, l)[c][i] =
                IF l.channel = c /\ index[l][Bin] = i THEN b[c][i] \o bin[l]
                                                      ELSE b[c][i]
<1> DEFINE d == l.channel
           n == index[l][Bin]
           vector == [b[d] EXCEPT ![n] = b[d][n] \o bin[l]]
<1>0. d \in Channels /\ n \in DOMAIN slots[d]
  BY HostFacts
<1>1. PublishData(b, l) = [b EXCEPT ![d] = vector]
  BY DEF PublishData
<1>2. b = [c \in Channels |-> b[c]] /\ b[d] = [i \in DOMAIN slots[d] |-> b[d][i]]
  BY <1>0 DEF VectorOf
<1>3. vector = [i \in DOMAIN slots[d] |-> vector[i]]
  BY <1>2
<1>4. \A i \in DOMAIN slots[d] :
        vector[i] = IF n = i THEN b[d][i] \o bin[l] ELSE b[d][i]
  BY <1>2
<1> HIDE DEF vector, d, n
<1> DEFINE a == [b EXCEPT ![d] = vector]
<1>5. /\ a = [c \in Channels |-> a[c]]
      /\ a[d] = vector
      /\ \A c \in Channels : c # d => a[c] = b[c]
  BY <1>0, <1>2
<1> HIDE DEF a
<1>6. \A c \in Channels : a[c] = [i \in DOMAIN slots[c] |-> a[c][i]]
  <2> TAKE c \in Channels
  <2>1. CASE c = d
    BY <1>3, <1>5, <2>1
  <2>2. CASE c # d
    BY <1>5, <2>2 DEF VectorOf
  <2> QED BY <2>1, <2>2
<1>7. VectorOf(a)
  BY <1>5, <1>6 DEF VectorOf
<1>8. \A c \in Channels : \A i \in DOMAIN slots[c] :
        a[c][i] = IF d = c /\ n = i THEN b[c][i] \o bin[l] ELSE b[c][i]
  BY <1>4, <1>5
<1>9. PublishData(b, l) = a
  BY <1>1 DEF a
<1> QED BY <1>7, <1>8, <1>9 DEF d, n

\* The first k links that append to slot i of channel c, and what slot has then.
Appenders(links, k, c, i) ==
  {j \in 1..k : links[j].channel = c /\ index[links[j]][Bin] = i}

Collected(links, k, c, i, q) ==
  /\ q \in Seq(Payloads)
  /\ Distinct(q)
  /\ ToSet(q) = UNION {ToSet(bin[links[j]]) : j \in Appenders(links, k, c, i)}

\* Each model hands over its own payloads, each of them once.
BinsAreOwn ==
  \A l \in AllLinks : bin[l] \in Seq(Payloads) /\ Distinct(bin[l]) /\ OwnOf(l, bin[l])

LEMMA CollectedNext ==
  ASSUME BinsAreOwn, NEW links \in Seq(AllLinks),
         \A i, j \in 1..Len(links) : links[i] = links[j] => i = j,
         NEW k \in 0..Len(links), k < Len(links),
         NEW c, NEW i, NEW q, Collected(links, k, c, i, q), NEW r,
         r = IF links[k + 1].channel = c /\ index[links[k + 1]][Bin] = i
             THEN q \o bin[links[k + 1]] ELSE q
  PROVE  Collected(links, k + 1, c, i, r)
<1> DEFINE U == Appenders(links, k, c, i)
           W == Appenders(links, k + 1, c, i)
<1>0. k \in Nat /\ k + 1 \in 1..Len(links)
      /\ \A j : j \in 1..k + 1 <=> (j \in 1..k \/ j = k + 1)
  OBVIOUS
<1>1. CASE ~(links[k + 1].channel = c /\ index[links[k + 1]][Bin] = i)
  <2>1. W = U
    BY <1>0, <1>1 DEF Appenders
  <2>2. r = q
    BY <1>1
  <2> QED BY <2>1, <2>2 DEF Collected
<1>2. CASE links[k + 1].channel = c /\ index[links[k + 1]][Bin] = i
  <2>0. PICK l \in AllLinks : l = links[k + 1]
    BY <1>0
  <2>1. W = U \cup {k + 1}
    BY <1>0, <1>2 DEF Appenders
  <2>2. r = q \o bin[l]
    BY <1>2, <2>0
  <2>3. /\ q \in Seq(Payloads) /\ Distinct(q)
        /\ ToSet(q) = UNION {ToSet(bin[links[j]]) : j \in U}
    BY DEF Collected
  <2>4. bin[l] \in Seq(Payloads) /\ Distinct(bin[l]) /\ OwnOf(l, bin[l])
    BY DEF BinsAreOwn
  <2>5. ASSUME NEW p \in ToSet(bin[l]) PROVE p \notin ToSet(q)
    <3>1. p[1] = l
      BY <2>4 DEF OwnOf
    <3>2. ASSUME NEW j \in U, p \in ToSet(bin[links[j]]) PROVE FALSE
      <4>1. j \in 1..Len(links) /\ j # k + 1
        BY <1>0 DEF Appenders
      <4>2. links[j] \in AllLinks /\ links[j] # l
        BY <1>0, <2>0, <4>1
      <4>3. OwnOf(links[j], bin[links[j]])
        BY <4>2 DEF BinsAreOwn
      <4>4. p[1] = links[j]
        BY <3>2, <4>3 DEF OwnOf
      <4> QED BY <3>1, <4>2, <4>4
    <3> QED BY <2>3, <3>2
  <2>6. NoneIn(bin[l], ToSet(q))
    BY <2>5 DEF NoneIn
  <2>7. PICK t : t = bin[l]
    OBVIOUS
  <2>8. /\ t \in Seq(Payloads) /\ q \in Seq(Payloads)
         /\ Distinct(t) /\ Distinct(q) /\ NoneIn(t, ToSet(q))
    BY <2>3, <2>4, <2>6, <2>7
  <2>9. Distinct(r)
    <3>1. Distinct(q \o t)
      BY <2>8, ConcatDistinct
    <3> QED BY <2>2, <2>7, <3>1
  <2>10. ToSet(r) = ToSet(q) \cup ToSet(bin[l])
    <3>1. ToSet(q \o t) = ToSet(q) \cup ToSet(t)
      BY <2>8, ConcatElements
    <3> QED BY <2>2, <2>7, <3>1
  <2>11. r \in Seq(Payloads)
    <3>1. q \o t \in Seq(Payloads)
      BY <2>8, ConcatProperties
    <3>2. r = q \o t
      BY <2>2, <2>7
    <3> QED BY <3>1, <3>2
  <2>12. ToSet(r) = UNION {ToSet(bin[links[j]]) : j \in W}
    BY <2>0, <2>1, <2>3, <2>10
  <2> QED BY <2>9, <2>11, <2>12 DEF Collected
<1> QED BY <1>1, <1>2

LEMMA PublishedPayloads ==
  ASSUME BinsAreOwn, NEW links \in Orders(LinksOf(Host)),
         \A l \in AllLinks : index[l][Bin] \in DOMAIN slots[l.channel]
  PROVE  /\ VectorOf(PublishedData(links))
         /\ \A c \in Channels : \A i \in DOMAIN slots[c] :
              Collected(links, Len(links), c, i, PublishedData(links)[c][i])
<1> DEFINE n == Len(links)
<1>0. /\ links \in Seq(AllLinks) /\ n \in Nat
      /\ \A i, j \in 1..Len(links) : links[i] = links[j] => i = j
  BY OrderFacts
<1>1. PICK h : /\ PublishedData(links) = h[n]
               /\ h[0] = ResolvedData
               /\ \A k \in 1..n : h[k] = PublishData(h[k - 1], links[k])
  BY <1>0, DataRecursion
<1> DEFINE S == {k \in 0..n :
                  /\ VectorOf(h[k])
                  /\ \A c \in Channels : \A i \in DOMAIN slots[c] :
                       Collected(links, k, c, i, h[k][c][i])}
<1>2. 0 \in S
  <2>1. \A c, i : Appenders(links, 0, c, i) = {}
    BY DEF Appenders
  <2>2. VectorOf(ResolvedData)
    BY DEF VectorOf, ResolvedData
  <2>3. \A c \in Channels : \A i \in DOMAIN slots[c] : ResolvedData[c][i] = << >>
    BY DEF ResolvedData
  <2>4. \A c, i : Collected(links, 0, c, i, << >>)
    BY <2>1, EmptySequence DEF Collected
  <2> QED BY <1>0, <1>1, <2>2, <2>3, <2>4
<1>3. ASSUME NEW k \in 0..n, k \in S, k < n PROVE k + 1 \in S
  <2>0. k + 1 \in 1..n /\ k + 1 \in 0..n /\ (k + 1) - 1 = k
    BY <1>0, <1>3
  <2>1. h[k + 1] = PublishData(h[k], links[k + 1]) /\ links[k + 1] \in AllLinks
    BY <1>0, <1>1, <2>0
  <2>2. VectorOf(h[k])
    BY <1>3
  <2>3. PICK b : b = h[k]
    OBVIOUS
  <2>4. PICK l \in AllLinks : l = links[k + 1]
    BY <2>1
  <2>5. VectorOf(b) /\ index[l][Bin] \in DOMAIN slots[l.channel]
    BY <2>2, <2>3
  <2>6. /\ VectorOf(PublishData(b, l))
        /\ \A c \in Channels : \A i \in DOMAIN slots[c] :
              PublishData(b, l)[c][i] =
                IF l.channel = c /\ index[l][Bin] = i THEN b[c][i] \o bin[l]
                                                      ELSE b[c][i]
    BY <2>5, PublishDataAt
  <2>7. ASSUME NEW c \in Channels, NEW i \in DOMAIN slots[c]
        PROVE  Collected(links, k + 1, c, i, h[k + 1][c][i])
    <3>1. PICK q : q = h[k][c][i]
      OBVIOUS
    <3>2. PICK r : r = h[k + 1][c][i]
      OBVIOUS
    <3>3. Collected(links, k, c, i, q)
      BY <1>3, <3>1
    <3>4. r = PublishData(b, l)[c][i] /\ q = b[c][i]
      BY <2>1, <2>3, <2>4, <3>1, <3>2
    <3>5. r = IF links[k + 1].channel = c /\ index[links[k + 1]][Bin] = i
              THEN q \o bin[links[k + 1]] ELSE q
      BY <2>4, <2>6, <3>4
    <3>6. Collected(links, k + 1, c, i, r)
      BY <1>0, <1>3, <3>3, <3>5, CollectedNext
    <3> QED BY <3>2, <3>6
  <2>8. VectorOf(h[k + 1])
    BY <2>1, <2>3, <2>4, <2>6
  <2> QED BY <2>0, <2>7, <2>8
<1>4. n \in S
  <2> HIDE DEF S, n
  <2>1. n \in 0..n
    BY <1>0
  <2> QED BY <1>0, <1>2, <1>3, <2>1, Upward
<1> QED BY <1>1, <1>4

-----------------------------------------------------------------------------
\* The data of the channels.

LEMMA InitData == Init => DataInv
<1> SUFFICES ASSUME Init PROVE DataInv
  OBVIOUS
<1>1. /\ stage = "register"
      /\ binary = [l \in AllLinks |-> << >>]
      /\ reset = [l \in AllLinks |-> FALSE]
      /\ count = [l \in AllLinks |-> 0]
      /\ bin = [l \in AllLinks |-> << >>]
      /\ out = [c \in Channels |-> {}]
      /\ got = [l \in AllLinks |-> << >>]
      /\ slotData = [c \in Channels |-> [i \in DOMAIN slots[c] |-> << >>]]
  BY DEF Init, FunctionsInit
<1>2. << >> \in Seq(Payloads) /\ ToSet(<< >>) = {} /\ Distinct(<< >>)
  BY EmptySequence
<1>3. /\ \A l \in AllLinks : got[l] = << >> /\ bin[l] = << >> /\ reset[l] = FALSE
      /\ \A c \in Channels : out[c] = {}
      /\ \A c \in Channels : \A i \in DOMAIN slots[c] : slotData[c][i] = << >>
  BY <1>1
<1>4. \A c \in Channels : \A l \in ChannelLinks(c) : l \in AllLinks
  BY HostFacts
<1>5. VectorOf(slotData)
  BY <1>1 DEF VectorOf
<1>6. DataTypes
  BY <1>1, <1>2, <1>3, <1>5 DEF DataTypes
<1>7. SameStreams
  BY <1>2, <1>3, <1>4 DEF SameStreams
<1>8. \A l \in AllLinks : Appended(l)
  BY <1>3 DEF Appended
<1>9. \A c \in Channels : \A l \in ChannelLinks(c) : ToSet(got[l]) = out[c]
  BY <1>2, <1>3, <1>4
<1> QED BY <1>1, <1>3, <1>6, <1>7, <1>8, <1>9 DEF DataInv

LEMMA RegisterKeepsData ==
  ASSUME SlotInv, ScalarInv, DataInv, NEW m, Register(m)
  PROVE  DataInv'
<1>1. /\ stage = "register" /\ stage' \in {"register", "first", "step"}
      /\ binary' = binary /\ reset' = reset /\ count' = count
      /\ bin' = bin /\ out' = out /\ got' = got
  BY DEF Register, functionVars
<1>2. /\ VectorOf(slotData)'
      /\ \A c \in Channels : \A i \in DOMAIN slots'[c] : slotData'[c][i] = << >>
  BY RegisterVectors
<1>3. << >> \in Seq(Payloads)
  BY EmptySequence
<1>4. /\ DataTypes /\ SameStreams
      /\ \A l \in AllLinks : Appended(l)
      /\ \A c \in Channels : \A p \in out[c] : p[2] <= count[p[1]]
      /\ \A l \in AllLinks : bin[l] = << >>
      /\ \A c \in Channels : \A l \in ChannelLinks(c) : ToSet(got[l]) = out[c]
  BY <1>1 DEF DataInv
<1>5. DataTypes'
  BY <1>1, <1>2, <1>3, <1>4 DEF DataTypes
<1>6. SameStreams' /\ \A l \in AllLinks : Appended(l)'
  BY <1>1, <1>4 DEF SameStreams, Appended
<1>7. \A c \in Channels : \A l \in ChannelLinks(c) : ToSet(got'[l]) = out'[c]
  BY <1>1, <1>4
<1> QED BY <1>1, <1>2, <1>4, <1>5, <1>6, <1>7 DEF DataInv

\* A payload with a number that is not yet counted is new.
LEMMA AppendKeeps ==
  ASSUME DataTypes, NEW l \in AllLinks, Appended(l),
         \A c \in Channels : \A p \in out[c] : p[2] <= count[p[1]],
         NEW q, q = Append(binary[l], <<l, count[l] + 1>>)
  PROVE  /\ q \in Seq(Payloads)
         /\ reset[l] => /\ Distinct(q)
                        /\ OwnOf(l, q)
                        /\ \A p \in ToSet(q) : p[2] <= count[l] + 1
                        /\ NoneIn(q, out[l.channel])
<1> DEFINE new == <<l, count[l] + 1>>
<1>0. count[l] \in Nat /\ l.channel \in Channels
  BY HostFacts DEF DataTypes
<1>1. new \in Payloads /\ new[1] = l /\ new[2] = count[l] + 1
  BY <1>0 DEF Payloads
<1> HIDE DEF new
<1>2. PICK b : b = binary[l]
  OBVIOUS
<1>3. b \in Seq(Payloads)
  BY <1>2 DEF DataTypes
<1>4. q = Append(b, new)
  BY <1>2 DEF new
<1>5. /\ q \in Seq(Payloads) /\ Len(b) \in Nat /\ DOMAIN b = 1..Len(b)
      /\ DOMAIN q = 1..Len(b) + 1
      /\ \A i \in 1..Len(b) : q[i] = b[i]
      /\ q[Len(b) + 1] = new
  <2>1. Append(b, new) \in Seq(Payloads) /\ Len(b) \in Nat /\ DOMAIN b = 1..Len(b)
    BY <1>1, <1>3, AppendProperties
  <2>2. /\ DOMAIN Append(b, new) = 1..Len(b) + 1
        /\ \A i \in 1..Len(b) : Append(b, new)[i] = b[i]
        /\ Append(b, new)[Len(b) + 1] = new
    <3>1. /\ Len(Append(b, new)) = Len(b) + 1
          /\ DOMAIN Append(b, new) = 1..Len(Append(b, new))
          /\ \A i \in 1..Len(b) : Append(b, new)[i] = b[i]
          /\ Append(b, new)[Len(b) + 1] = new
      BY <1>1, <1>3, AppendProperties, LenProperties
    <3> QED BY <3>1
  <2> QED BY <1>4, <2>1, <2>2
<1>6. ASSUME NEW p \in ToSet(q) PROVE p = new \/ p \in ToSet(b)
  <2>1. PICK i \in 1..Len(b) + 1 : p = q[i]
    BY <1>5 DEF ToSet
  <2>2. CASE i = Len(b) + 1
    BY <1>5, <2>1, <2>2
  <2>3. CASE i # Len(b) + 1
    <3>1. i \in 1..Len(b)
      BY <1>5, <2>3
    <3>2. p = b[i]
      BY <1>5, <2>1, <3>1
    <3> QED BY <1>5, <3>1, <3>2 DEF ToSet
  <2> QED BY <2>2, <2>3
<1>7. ASSUME reset[l]
      PROVE  /\ Distinct(q)
             /\ OwnOf(l, q)
             /\ \A p \in ToSet(q) : p[2] <= count[l] + 1
             /\ NoneIn(q, out[l.channel])
  <2>1. /\ Distinct(b)
        /\ OwnOf(l, b)
        /\ \A p \in ToSet(b) : p[2] <= count[l]
        /\ NoneIn(b, out[l.channel])
    BY <1>2, <1>7 DEF Appended
  <2>2. new \notin out[l.channel]
    <3>1. SUFFICES ASSUME new \in out[l.channel] PROVE FALSE
      OBVIOUS
    <3>2. new[2] <= count[new[1]]
      BY <1>0, <3>1
    <3> QED BY <1>0, <1>1, <3>2
  <2>3. new \notin ToSet(b)
    <3>1. SUFFICES ASSUME new \in ToSet(b) PROVE FALSE
      OBVIOUS
    <3>2. new[2] <= count[l]
      BY <2>1, <3>1
    <3> QED BY <1>0, <1>1, <3>2
  <2>4. \A i \in 1..Len(b) : b[i] \in ToSet(b)
    BY <1>5 DEF ToSet
  <2>5. ASSUME NEW i \in DOMAIN q, NEW j \in DOMAIN q, q[i] = q[j] PROVE i = j
    <3>1. CASE i \in 1..Len(b) /\ j \in 1..Len(b)
      BY <1>5, <2>1, <2>5, <3>1 DEF Distinct
    <3>2. CASE i = Len(b) + 1 /\ j # Len(b) + 1
      <4>1. j \in 1..Len(b)
        BY <1>5, <3>2
      <4> QED BY <1>5, <2>3, <2>4, <2>5, <3>2, <4>1
    <3>3. CASE i # Len(b) + 1 /\ j = Len(b) + 1
      <4>1. i \in 1..Len(b)
        BY <1>5, <3>3
      <4> QED BY <1>5, <2>3, <2>4, <2>5, <3>3, <4>1
    <3>4. CASE i = Len(b) + 1 /\ j = Len(b) + 1
      BY <3>4
    <3>5. \A k \in DOMAIN q : k \in 1..Len(b) \/ k = Len(b) + 1
      BY <1>5
    <3>6. \A k \in 1..Len(b) : k # Len(b) + 1
      BY <1>5
    <3> QED BY <3>1, <3>2, <3>3, <3>4, <3>5, <3>6
  <2>6. OwnOf(l, q)
    BY <1>1, <1>6, <2>1 DEF OwnOf
  <2>7. ASSUME NEW p \in ToSet(q) PROVE p[2] <= count[l] + 1
    <3>1. CASE p = new
      BY <1>0, <1>1, <3>1
    <3>2. CASE p \in ToSet(b)
      <4>1. p[2] <= count[l] /\ p \in Payloads
        BY <1>3, <2>1, <3>2, ElementsOfSeq
      <4>2. p[2] \in Nat
        BY <4>1 DEF Payloads
      <4> QED BY <1>0, <4>1, <4>2
    <3> QED BY <1>6, <3>1, <3>2
  <2>8. NoneIn(q, out[l.channel])
    BY <1>6, <2>1, <2>2 DEF NoneIn
  <2> QED BY <2>5, <2>6, <2>7, <2>8 DEF Distinct
<1> QED BY <1>5, <1>7

\* The payload signals of a step function.
LEMMA StepModelPayloads ==
  ASSUME DataInv, StepModel
  PROVE  /\ binary' \in [AllLinks -> Seq(Payloads)]
         /\ reset' \in [AllLinks -> BOOLEAN]
         /\ count' \in [AllLinks -> Nat]
         /\ \A l \in AllLinks : Appended(l)' /\ count[l] <= count'[l]
<1>0. /\ DataTypes
      /\ \A l \in AllLinks : Appended(l)
      /\ \A c \in Channels : \A p \in out[c] : p[2] <= count[p[1]]
  BY DEF DataInv
<1>1. /\ binary \in [AllLinks -> Seq(Payloads)]
      /\ reset \in [AllLinks -> BOOLEAN]
      /\ count \in [AllLinks -> Nat]
  BY <1>0 DEF DataTypes
<1>2. out' = out
  BY StepModelFrame
<1>3. \A l \in AllLinks : count[l] \in Nat
  BY <1>1
<1>4. CASE WriteScalar(Host)
  <2>1. binary' = binary /\ reset' = reset /\ count' = count
    BY <1>4 DEF WriteScalar
  <2>2. \A l \in AllLinks : Appended(l)'
    BY <1>0, <1>2, <2>1 DEF Appended
  <2> QED BY <1>1, <1>3, <2>1, <2>2
<1>5. CASE ResetBinary(Host)
  <2>1. PICK k \in LinksOf(Host) : /\ binary' = [binary EXCEPT ![k] = << >>]
                                   /\ reset' = [reset EXCEPT ![k] = TRUE]
    BY <1>5 DEF ResetBinary
  <2>2. count' = count /\ k \in AllLinks
    BY <1>5, HostFacts DEF ResetBinary
  <2>3. << >> \in Seq(Payloads)
    BY EmptySequence
  <2>4. binary' \in [AllLinks -> Seq(Payloads)] /\ reset' \in [AllLinks -> BOOLEAN]
    BY <1>1, <2>1, <2>3
  <2>5. binary'[k] = << >>
    BY <1>1, <2>1, <2>2
  <2>6. \A l \in AllLinks : l # k => binary'[l] = binary[l] /\ reset'[l] = reset[l]
    BY <1>1, <2>1
  <2>7. Appended(k)'
    BY <2>5, EmptySequence DEF Appended
  <2>8. \A l \in AllLinks : l # k => Appended(l)'
    BY <1>0, <1>2, <2>2, <2>6 DEF Appended
  <2> QED BY <1>1, <1>3, <2>2, <2>4, <2>7, <2>8
<1>6. CASE AppendBinary(Host)
  <2>1. PICK k \in LinksOf(Host) :
          /\ count' = [count EXCEPT ![k] = @ + 1]
          /\ binary' = [binary EXCEPT ![k] = Append(@, <<k, count'[k]>>)]
    BY <1>6 DEF AppendBinary
  <2>2. reset' = reset /\ k \in AllLinks
    BY <1>6, HostFacts DEF AppendBinary
  <2>3. /\ count' \in [AllLinks -> Nat]
        /\ count'[k] = count[k] + 1
        /\ \A l \in AllLinks : l # k => count'[l] = count[l]
    BY <1>1, <2>1, <2>2
  <2>4. PICK q : q = Append(binary[k], <<k, count[k] + 1>>)
    OBVIOUS
  <2>5. binary' = [binary EXCEPT ![k] = q]
    BY <2>1, <2>3, <2>4
  <2>6. /\ q \in Seq(Payloads)
        /\ reset[k] => /\ Distinct(q)
                       /\ OwnOf(k, q)
                       /\ \A p \in ToSet(q) : p[2] <= count[k] + 1
                       /\ NoneIn(q, out[k.channel])
    BY <1>0, <2>2, <2>4, AppendKeeps
  <2>7. /\ binary' \in [AllLinks -> Seq(Payloads)]
        /\ binary'[k] = q
        /\ \A l \in AllLinks : l # k => binary'[l] = binary[l]
    BY <1>1, <2>2, <2>5, <2>6
  <2>8. Appended(k)'
    BY <1>2, <2>2, <2>3, <2>6, <2>7 DEF Appended
  <2>9. \A l \in AllLinks : l # k => Appended(l)'
    BY <1>0, <1>2, <2>2, <2>3, <2>7 DEF Appended
  <2>10. \A l \in AllLinks : count[l] <= count'[l]
    BY <1>3, <2>3
  <2> QED BY <1>1, <2>2, <2>3, <2>7, <2>8, <2>9, <2>10
<1> QED BY <1>4, <1>5, <1>6 DEF StepModel, StepFunction

LEMMA StepModelKeepsData ==
  ASSUME DataInv, StepModel
  PROVE  DataInv'
<1>1. /\ stage = "step" /\ stage' = "step"
      /\ slots' = slots /\ slotData' = slotData /\ bin' = bin
      /\ out' = out /\ got' = got
  BY StepModelFrame
<1>2. /\ binary' \in [AllLinks -> Seq(Payloads)]
      /\ reset' \in [AllLinks -> BOOLEAN]
      /\ count' \in [AllLinks -> Nat]
      /\ \A l \in AllLinks : Appended(l)' /\ count[l] <= count'[l]
  BY StepModelPayloads
<1>3. /\ DataTypes /\ SameStreams
      /\ \A c \in Channels : \A p \in out[c] : p[2] <= count[p[1]]
      /\ \A l \in AllLinks : bin[l] = << >>
      /\ \A c \in Channels : \A l \in ChannelLinks(c) : ToSet(got[l]) = out[c]
  BY <1>1 DEF DataInv
<1>4. DataTypes'
  BY <1>1, <1>2, <1>3 DEF DataTypes, VectorOf
<1>5. ASSUME NEW c \in Channels, NEW p \in out[c] PROVE p[2] <= count'[p[1]]
  <2>1. p \in Payloads
    BY <1>3 DEF DataTypes
  <2>2. p[1] \in AllLinks /\ p[2] \in Nat
    BY <2>1 DEF Payloads
  <2>3. count[p[1]] \in Nat /\ count'[p[1]] \in Nat /\ count[p[1]] <= count'[p[1]]
    BY <1>2, <1>3, <2>2 DEF DataTypes
  <2>4. p[2] <= count[p[1]]
    BY <1>3
  <2> QED BY <2>2, <2>3, <2>4
<1>6. SameStreams'
  BY <1>1, <1>3 DEF SameStreams
<1> QED BY <1>1, <1>2, <1>3, <1>4, <1>5, <1>6 DEF DataInv

LEMMA MarshalFacts ==
  ASSUME DataInv, Marshal
  PROVE  /\ stage = "step" /\ stage' = "marshalled"
         /\ UNCHANGED <<slots, index, slotData, reset, count, got>>
         /\ binary' = [l \in AllLinks |-> << >>]
         /\ bin' = [l \in AllLinks |-> Marshalled(l)]
         /\ \A c \in Channels : out'[c] = out[c] \cup Handed(c)'
<1>1. /\ stage = "step" /\ stage' = "marshalled"
      /\ UNCHANGED <<slots, index, slotData, reset, count, got>>
      /\ bin' = [l \in AllLinks |-> bin[l] \o Marshalled(l)]
      /\ binary' = [l \in AllLinks |-> IF l \in LinksOf(Host) THEN << >> ELSE binary[l]]
      /\ out' = [c \in Channels |->
                  out[c] \cup UNION {ToSet(Marshalled(l)) : l \in ChannelLinks(c)}]
  BY DEF Marshal, MarshalOut, vectorVars
<1>2. binary' = [l \in AllLinks |-> << >>]
  BY <1>1, HostFacts
<1>3. \A l \in AllLinks : bin[l] = << >>
  BY <1>1 DEF DataInv
<1>4. ASSUME NEW l \in AllLinks PROVE bin[l] \o Marshalled(l) = Marshalled(l)
  <2>1. PICK q : q = Marshalled(l)
    OBVIOUS
  <2>2. << >> \in Seq(Payloads) /\ binary[l] \in Seq(Payloads)
    BY EmptySequence DEF DataInv, DataTypes
  <2>3. q \in Seq(Payloads)
    BY <2>1, <2>2 DEF Marshalled
  <2>4. << >> \o q = q
    BY <2>3, ConcatEmptySeq
  <2> QED BY <1>3, <2>1, <2>4
<1>5. bin' = [l \in AllLinks |-> Marshalled(l)]
  BY <1>1, <1>4
<1>6. ASSUME NEW c \in Channels PROVE out'[c] = out[c] \cup Handed(c)'
  <2>1. \A l \in ChannelLinks(c) : l \in AllLinks
    BY HostFacts
  <2>2. \A l \in ChannelLinks(c) : bin'[l] = Marshalled(l)
    BY <1>5, <2>1
  <2>3. Handed(c)' = UNION {ToSet(bin'[l]) : l \in ChannelLinks(c)}
    BY DEF Handed
  <2>4. Handed(c)' = UNION {ToSet(Marshalled(l)) : l \in ChannelLinks(c)}
    BY <2>2, <2>3
  <2> QED BY <1>1, <2>4
<1> QED BY <1>1, <1>2, <1>5, <1>6

LEMMA MarshalKeepsData ==
  ASSUME DataInv, Marshal
  PROVE  DataInv'
<1>1. /\ stage = "step" /\ stage' = "marshalled"
      /\ slots' = slots /\ index' = index /\ slotData' = slotData
      /\ reset' = reset /\ count' = count /\ got' = got
      /\ binary' = [l \in AllLinks |-> << >>]
      /\ bin' = [l \in AllLinks |-> Marshalled(l)]
      /\ \A c \in Channels : out'[c] = out[c] \cup Handed(c)'
  BY MarshalFacts
<1>2. /\ DataTypes /\ SameStreams
      /\ \A l \in AllLinks : Appended(l)
      /\ \A c \in Channels : \A p \in out[c] : p[2] <= count[p[1]]
      /\ \A c \in Channels : \A l \in ChannelLinks(c) : ToSet(got[l]) = out[c]
  BY <1>1 DEF DataInv
<1>3. ASSUME NEW l \in AllLinks
      PROVE  /\ bin'[l] \in Seq(Payloads)
             /\ Distinct(bin'[l]) /\ OwnOf(l, bin'[l])
             /\ \A p \in ToSet(bin'[l]) : p[2] <= count[l]
             /\ NoneIn(bin'[l], out[l.channel])
  <2>1. bin'[l] = Marshalled(l)
    BY <1>1
  <2>2. CASE reset[l]
    <3>1. bin'[l] = binary[l] /\ Appended(l) /\ binary[l] \in Seq(Payloads)
      BY <1>2, <2>1, <2>2 DEF Marshalled, DataTypes
    <3> QED BY <2>2, <3>1 DEF Appended
  <2>3. CASE ~reset[l]
    <3>1. bin'[l] = << >>
      BY <2>1, <2>3 DEF Marshalled
    <3> QED BY <3>1, EmptySequence
  <2> QED BY <2>2, <2>3
<1>4. ASSUME NEW c \in Channels, NEW p \in Handed(c)'
      PROVE  p \in Payloads /\ p[2] <= count[p[1]]
  <2>1. PICK l \in ChannelLinks(c) : p \in ToSet(bin'[l])
    BY DEF Handed
  <2>2. l \in AllLinks
    BY HostFacts
  <2>3. p \in Payloads
    BY <1>3, <2>1, <2>2, ElementsOfSeq
  <2>4. p[1] = l
    BY <1>3, <2>1, <2>2 DEF OwnOf
  <2> QED BY <1>3, <2>1, <2>2, <2>3, <2>4
<1>5. << >> \in Seq(Payloads)
  BY EmptySequence
<1>6. out' \in [Channels -> SUBSET Payloads]
  <2>1. \A c \in Channels : out'[c] \subseteq Payloads
    BY <1>1, <1>2, <1>4 DEF DataTypes
  <2>2. out' = [c \in Channels |-> out'[c]]
    BY DEF Marshal
  <2> QED BY <2>1, <2>2
<1>7. bin' \in [AllLinks -> Seq(Payloads)]
  BY <1>1, <1>3
<1>8. binary' \in [AllLinks -> Seq(Payloads)]
  BY <1>1, <1>5
<1>9. DataTypes'
  BY <1>1, <1>2, <1>6, <1>7, <1>8 DEF DataTypes, VectorOf
<1>10. SameStreams'
  BY <1>1, <1>2 DEF SameStreams
<1>11. \A l \in AllLinks : Appended(l)'
  <2> TAKE l \in AllLinks
  <2>1. binary'[l] = << >>
    BY <1>1
  <2> QED BY <2>1, EmptySequence DEF Appended
<1>12. \A c \in Channels : \A p \in out'[c] : p[2] <= count'[p[1]]
  BY <1>1, <1>2, <1>4
<1>13. ASSUME NEW c \in Channels, NEW l \in ChannelLinks(c)
       PROVE  /\ Distinct(bin'[l]) /\ OwnOf(l, bin'[l])
              /\ NoneIn(bin'[l], ToSet(got'[l]))
              /\ out'[c] = ToSet(got'[l]) \cup Handed(c)'
  <2>1. l \in AllLinks /\ l.channel = c
    BY HostFacts
  <2>2. ToSet(got'[l]) = out[c]
    BY <1>1, <1>2
  <2> QED BY <1>1, <1>3, <2>1, <2>2
<1> QED BY <1>1, <1>9, <1>10, <1>11, <1>12, <1>13 DEF DataInv

\* The one slot of the binary signals of a channel.
LEMMA BinSlot ==
  ASSUME SlotInv, stage # "register", NEW c \in Channels,
         NEW k \in ChannelLinks(c), NEW l \in ChannelLinks(c)
  PROVE  /\ index[l][Bin] \in DOMAIN slots[c]
         /\ index[k][Bin] = index[l][Bin]
<1>1. k \in AllLinks /\ l \in AllLinks /\ k.channel = c /\ l.channel = c
  BY HostFacts
<1>2. k.model \in registered /\ l.model \in registered
  BY <1>1, AllRegistered
<1>3. Bin \in Names(k) /\ Bin \in Names(l)
  BY DEF Names
<1>4. index[l][Bin] \in DOMAIN slots[c]
  BY <1>1, <1>2, <1>3, SlotOfName
<1> QED BY <1>1, <1>2, <1>3, <1>4, OneSlot

LEMMA ReadyKeepsData ==
  ASSUME SlotInv, DataInv, Ready
  PROVE  DataInv'
<1>1. /\ stage = "marshalled" /\ stage' = "ready"
      /\ slots' = slots /\ index' = index
      /\ binary' = binary /\ reset' = reset /\ count' = count
      /\ out' = out /\ got' = got
      /\ bin' = [l \in AllLinks |-> << >>]
  BY DEF Ready, functionVars
<1>2. PICK links \in Orders(LinksOf(Host)) : slotData' = PublishedData(links)
  BY DEF Ready
<1>3. /\ DataTypes /\ SameStreams
      /\ \A l \in AllLinks : Appended(l)
      /\ \A c \in Channels : \A p \in out[c] : p[2] <= count[p[1]]
      /\ \A c \in Channels : \A l \in ChannelLinks(c) :
           /\ Distinct(bin[l])
           /\ OwnOf(l, bin[l])
           /\ NoneIn(bin[l], ToSet(got[l]))
           /\ out[c] = ToSet(got[l]) \cup Handed(c)
  BY <1>1 DEF DataInv
<1>4. \A l \in AllLinks : l.channel \in Channels /\ l \in ChannelLinks(l.channel)
  BY HostFacts
<1>5. BinsAreOwn
  BY <1>3, <1>4 DEF BinsAreOwn, DataTypes
<1>6. \A l \in AllLinks : index[l][Bin] \in DOMAIN slots[l.channel]
  BY <1>1, <1>4, BinSlot
<1>7. /\ VectorOf(PublishedData(links))
      /\ \A c \in Channels : \A i \in DOMAIN slots[c] :
           Collected(links, Len(links), c, i, PublishedData(links)[c][i])
  BY <1>5, <1>6, PublishedPayloads
<1>8. VectorOf(slotData)'
  BY <1>1, <1>2, <1>7 DEF VectorOf
<1>9. \A c \in Channels : \A i \in DOMAIN slots'[c] : slotData'[c][i] \in Seq(Payloads)
  BY <1>1, <1>2, <1>7 DEF Collected
<1>10. << >> \in Seq(Payloads)
  BY EmptySequence
<1>11. bin' \in [AllLinks -> Seq(Payloads)]
  BY <1>1, <1>10
<1>12. DataTypes'
  BY <1>1, <1>3, <1>8, <1>9, <1>11 DEF DataTypes
<1>13. SameStreams' /\ \A l \in AllLinks : Appended(l)'
  BY <1>1, <1>3 DEF SameStreams, Appended
<1>14. ASSUME NEW c \in Channels, NEW l \in ChannelLinks(c)
       PROVE  /\ Distinct(DataOf(l)')
              /\ NoneIn(DataOf(l)', ToSet(got'[l]))
              /\ out'[c] = ToSet(got'[l]) \cup ToSet(DataOf(l)')
  <2>0. l \in AllLinks /\ l.channel = c
    BY HostFacts
  <2>1. PICK i \in DOMAIN slots[c] : i = index[l][Bin]
    BY <1>1, BinSlot
  <2>2. PICK q : q = PublishedData(links)[c][i]
    OBVIOUS
  <2>3. DataOf(l)' = q
    BY <1>1, <1>2, <2>0, <2>1, <2>2 DEF DataOf
  <2>4. /\ Distinct(q)
        /\ ToSet(q) = UNION {ToSet(bin[links[j]]) : j \in Appenders(links, Len(links), c, i)}
    BY <1>7, <2>2 DEF Collected
  <2>5. ASSUME NEW j \in Appenders(links, Len(links), c, i)
        PROVE  links[j] \in ChannelLinks(c)
    <3>1. j \in 1..Len(links) /\ links[j].channel = c
      BY DEF Appenders
    <3>2. links[j] \in AllLinks
      BY <3>1, OrderFacts
    <3> QED BY <3>1, <3>2, HostFacts
  <2>6. ASSUME NEW k \in ChannelLinks(c)
        PROVE  \E j \in Appenders(links, Len(links), c, i) : links[j] = k
    <3>1. k \in AllLinks /\ k.channel = c /\ index[k][Bin] = i
      BY <1>1, <2>1, HostFacts, BinSlot
    <3>2. PICK j \in 1..Len(links) : links[j] = k
      BY <3>1, OrderFacts
    <3>3. j \in Appenders(links, Len(links), c, i)
      BY <3>1, <3>2 DEF Appenders
    <3> QED BY <3>2, <3>3
  <2>7. ToSet(q) = Handed(c)
    <3>1. \A p \in ToSet(q) : p \in Handed(c)
      BY <2>4, <2>5 DEF Handed
    <3>2. ASSUME NEW p \in Handed(c) PROVE p \in ToSet(q)
      <4>1. PICK k \in ChannelLinks(c) : p \in ToSet(bin[k])
        BY DEF Handed
      <4>2. PICK j \in Appenders(links, Len(links), c, i) : links[j] = k
        BY <2>6
      <4> QED BY <2>4, <4>1, <4>2
    <3> QED BY <3>1, <3>2
  <2>8. ASSUME NEW p \in ToSet(q) PROVE p \notin ToSet(got[l])
    <3>1. PICK k \in ChannelLinks(c) : p \in ToSet(bin[k])
      BY <2>7 DEF Handed
    <3>2. NoneIn(bin[k], ToSet(got[k])) /\ got[k] = got[l]
      BY <1>3 DEF SameStreams
    <3> QED BY <3>1, <3>2 DEF NoneIn
  <2>9. NoneIn(q, ToSet(got[l]))
    BY <2>8 DEF NoneIn
  <2>10. out[c] = ToSet(got[l]) \cup ToSet(q)
    BY <1>3, <2>7
  <2> QED BY <1>1, <2>3, <2>4, <2>9, <2>10
<1>15. \A l \in AllLinks : bin'[l] = << >>
  BY <1>1
<1>16. \A c \in Channels : \A p \in out'[c] : p[2] <= count'[p[1]]
  BY <1>1, <1>3
<1> QED BY <1>1, <1>12, <1>13, <1>14, <1>15, <1>16 DEF DataInv

LEMMA StartKeepsData ==
  ASSUME SlotInv, DataInv, Start
  PROVE  DataInv'
<1>1. /\ stage \in {"first", "ready"} /\ stage' = "step"
      /\ slots' = slots /\ slotData' = slotData /\ index' = index
      /\ bin' = bin /\ out' = out /\ count' = count
      /\ binary' = [l \in AllLinks |-> binary[l] \o DataOf(l)]
      /\ reset' = [l \in AllLinks |-> FALSE]
      /\ got' = [l \in AllLinks |-> got[l] \o DataOf(l)]
  BY StartFacts
<1>2. /\ DataTypes /\ SameStreams
      /\ \A c \in Channels : \A p \in out[c] : p[2] <= count[p[1]]
      /\ \A l \in AllLinks : bin[l] = << >>
  BY <1>1 DEF DataInv
<1>3. \A l \in AllLinks : l.channel \in Channels /\ l \in ChannelLinks(l.channel)
  BY HostFacts
<1>4. ASSUME NEW c \in Channels, NEW l \in ChannelLinks(c)
      PROVE  /\ DataOf(l) \in Seq(Payloads)
             /\ Distinct(DataOf(l))
             /\ NoneIn(DataOf(l), ToSet(got[l]))
             /\ out[c] = ToSet(got[l]) \cup ToSet(DataOf(l))
             /\ \A k \in ChannelLinks(c) : DataOf(k) = DataOf(l)
  <2>0. l \in AllLinks /\ l.channel = c
    BY HostFacts
  <2>1. PICK i \in DOMAIN slots[c] : i = index[l][Bin]
    BY <1>1, BinSlot
  <2>2. DataOf(l) = slotData[c][i]
    BY <2>0, <2>1 DEF DataOf
  <2>3. DataOf(l) \in Seq(Payloads)
    BY <1>2, <2>2 DEF DataTypes
  <2>4. ASSUME NEW k \in ChannelLinks(c) PROVE DataOf(k) = DataOf(l)
    <3>1. k.channel = c /\ index[k][Bin] = i
      BY <1>1, <2>1, HostFacts, BinSlot
    <3> QED BY <2>2, <3>1 DEF DataOf
  <2>5. CASE stage = "first"
    <3>1. DataOf(l) = << >> /\ ToSet(got[l]) = out[c]
      BY <2>2, <2>5 DEF DataInv
    <3> QED BY <2>3, <2>4, <3>1, EmptySequence
  <2>6. CASE stage = "ready"
    <3>1. /\ Distinct(DataOf(l))
          /\ NoneIn(DataOf(l), ToSet(got[l]))
          /\ out[c] = ToSet(got[l]) \cup ToSet(DataOf(l))
      BY <2>6 DEF DataInv
    <3> QED BY <2>3, <2>4, <3>1
  <2> QED BY <1>1, <2>5, <2>6
<1>5. ASSUME NEW l \in AllLinks
      PROVE  /\ binary[l] \o DataOf(l) \in Seq(Payloads)
             /\ got[l] \o DataOf(l) \in Seq(Payloads)
             /\ Distinct(got[l] \o DataOf(l))
             /\ ToSet(got[l] \o DataOf(l)) = ToSet(got[l]) \cup ToSet(DataOf(l))
  <2>1. PICK q : q = DataOf(l)
    OBVIOUS
  <2>2. PICK g : g = got[l]
    OBVIOUS
  <2>3. PICK b : b = binary[l]
    OBVIOUS
  <2>4. /\ q \in Seq(Payloads) /\ g \in Seq(Payloads) /\ b \in Seq(Payloads)
        /\ Distinct(g) /\ Distinct(q) /\ NoneIn(q, ToSet(g))
    BY <1>2, <1>3, <1>4, <2>1, <2>2, <2>3 DEF DataTypes, SameStreams
  <2>5. /\ b \o q \in Seq(Payloads) /\ g \o q \in Seq(Payloads)
    BY <2>4, ConcatProperties
  <2>6. Distinct(g \o q)
    BY <2>4, ConcatDistinct
  <2>7. ToSet(g \o q) = ToSet(g) \cup ToSet(q)
    BY <2>4, ConcatElements
  <2> QED BY <2>1, <2>2, <2>3, <2>5, <2>6, <2>7
<1>6. /\ binary' \in [AllLinks -> Seq(Payloads)]
      /\ got' \in [AllLinks -> Seq(Payloads)]
      /\ reset' \in [AllLinks -> BOOLEAN]
  BY <1>1, <1>5
<1>7. DataTypes'
  BY <1>1, <1>2, <1>6 DEF DataTypes, VectorOf
<1>8. ASSUME NEW c \in Channels, NEW l \in ChannelLinks(c)
      PROVE  /\ Distinct(got'[l])
             /\ \A k \in ChannelLinks(c) : got'[l] = got'[k]
             /\ ToSet(got'[l]) = out'[c]
  <2>1. \A k \in ChannelLinks(c) : k \in AllLinks
    BY HostFacts
  <2>2. \A k \in ChannelLinks(c) : got'[k] = got[k] \o DataOf(k)
    BY <1>1, <2>1
  <2>3. \A k \in ChannelLinks(c) : got[l] = got[k] /\ DataOf(k) = DataOf(l)
    BY <1>2, <1>4 DEF SameStreams
  <2>4. got'[l] = got[l] \o DataOf(l) /\ \A k \in ChannelLinks(c) : got'[l] = got'[k]
    BY <2>2, <2>3
  <2>5. Distinct(got'[l]) /\ ToSet(got'[l]) = ToSet(got[l]) \cup ToSet(DataOf(l))
    BY <1>5, <2>1, <2>4
  <2> QED BY <1>1, <1>4, <2>4, <2>5
<1>9. SameStreams'
  BY <1>8 DEF SameStreams
<1>10. \A l \in AllLinks : Appended(l)'
  BY <1>1 DEF Appended
<1>11. \A c \in Channels : \A p \in out'[c] : p[2] <= count'[p[1]]
  BY <1>1, <1>2
<1>12. \A l \in AllLinks : bin'[l] = << >>
  BY <1>1, <1>2
<1> QED BY <1>1, <1>7, <1>8, <1>9, <1>10, <1>11, <1>12 DEF DataInv

-----------------------------------------------------------------------------
\* The invariant, and what the models are given.

LEMMA NextKeepsInv ==
  ASSUME SlotsStay, LoopbackInv, [Next]_vars
  PROVE  LoopbackInv'
<1>0. SlotInv /\ ScalarInv /\ DataInv
  BY DEF LoopbackInv
<1>1. ASSUME NEW m \in ModelsOf(Host), Register(m) PROVE LoopbackInv'
  BY <1>0, <1>1, RegisterKeepsSlots, RegisterKeepsScalars, RegisterKeepsData
  DEF LoopbackInv
<1>2. CASE StepModel
  <2>1. SlotInv'
    BY <1>0, <1>2, StepModelFrame, OthersKeepSlots
  <2> QED BY <1>0, <1>2, <2>1, StepModelKeepsScalars, StepModelKeepsData
      DEF LoopbackInv
<1>3. CASE Marshal
  <2>1. SlotInv'
    <3>1. /\ stage = "step" /\ stage' = "marshalled"
          /\ UNCHANGED <<mode, registered, slots, index>>
      BY <1>3 DEF Marshal, vectorVars
    <3> QED BY <1>0, <3>1, OthersKeepSlots
  <2> QED BY <1>0, <1>3, <2>1, MarshalKeepsScalars, MarshalKeepsData DEF LoopbackInv
<1>4. CASE Ready
  <2>1. SlotInv'
    <3>1. /\ stage = "marshalled" /\ stage' = "ready"
          /\ UNCHANGED <<mode, registered, slots, index>>
      BY <1>4 DEF Ready
    <3> QED BY <1>0, <3>1, OthersKeepSlots
  <2> QED BY <1>0, <1>4, <2>1, ReadyKeepsScalars, ReadyKeepsData DEF LoopbackInv
<1>5. CASE Start
  <2>1. SlotInv'
    <3>1. /\ stage \in {"first", "ready"} /\ stage' = "step"
          /\ UNCHANGED <<mode, registered, slots, index>>
      BY <1>5, StartFacts
    <3>2. stage # "register"
      BY <3>1
    <3> QED BY <1>0, <3>1, <3>2, OthersKeepSlots
  <2> QED BY <1>0, <1>5, <2>1, StartKeepsScalars, StartKeepsData DEF LoopbackInv
<1>6. CASE UNCHANGED vars
  <2>1. SlotInv'
    BY <1>0, <1>6, OthersKeepSlots DEF vars, vectorVars, adapterVars
  <2>2. ScalarInv'
    <3>1. /\ UNCHANGED <<scalar, stage, registered, slots, slotScalar, index, val, final>>
      BY <1>6 DEF vars, vectorVars, adapterVars, functionVars
    <3>2. VectorOf(slotScalar)'
      BY <1>0, <3>1 DEF ScalarInv, VectorOf
    <3>3. stage # "ready" => InSlots(val)'
      BY <1>0, <3>1 DEF ScalarInv, InSlots
    <3> QED BY <1>0, <3>1, <3>2, <3>3 DEF ScalarInv, Zeros
  <2>3. DataInv'
    <3>1. /\ UNCHANGED <<binary, reset, count, stage, slots, slotData, index, bin, out, got>>
      BY <1>6 DEF vars, vectorVars, adapterVars, functionVars
    <3>2. DataTypes'
      BY <1>0, <3>1 DEF DataInv, DataTypes, VectorOf
    <3>3. SameStreams' /\ \A l \in AllLinks : Appended(l)'
      BY <1>0, <3>1 DEF DataInv, SameStreams, Appended
    <3>4. \A c : Handed(c)' = Handed(c)
      BY <3>1 DEF Handed
    <3>5. \A l : DataOf(l)' = DataOf(l)
      BY <3>1 DEF DataOf
    <3> QED BY <1>0, <3>1, <3>2, <3>3, <3>4, <3>5 DEF DataInv
  <2> QED BY <2>1, <2>2, <2>3 DEF LoopbackInv
<1> QED BY <1>1, <1>2, <1>3, <1>4, <1>5, <1>6 DEF Next

\* The cached slots, values and data of adapter_loopb.c agree with the vectors
\* of the channels at each call of the controller.
THEOREM LoopbackInvariant == ASSUME SlotsStay PROVE Spec => []LoopbackInv
<1>1. Init => LoopbackInv
  BY InitSlots, InitScalars, InitData DEF LoopbackInv
<1>2. LoopbackInv /\ [Next]_vars => LoopbackInv'
  BY NextKeepsInv
<1> QED BY <1>1, <1>2, PTL DEF Spec

\* The slot that adapter_loopb_register caches for a signal stays the slot of
\* its name.
THEOREM CachedIndexStays == ASSUME SlotsStay PROVE Spec => []CachedIndexIsLookup
<1>1. LoopbackInv => CachedIndexIsLookup
  BY DEF LoopbackInv, SlotInv, CachedIndexIsLookup
<1> QED BY <1>1, LoopbackInvariant, PTL

\* What a model appends and marshals reaches each model of the channel, itself
\* included, once and in the same order, by the next start.
THEOREM StreamsAreComplete == ASSUME SlotsStay PROVE Spec => []StreamsComplete
<1>1. ASSUME LoopbackInv PROVE StreamsComplete
  <2>1. DataInv
    BY <1>1 DEF LoopbackInv
  <2> QED BY <2>1 DEF DataInv, SameStreams, Distinct, StreamsComplete
<1> QED BY <1>1, LoopbackInvariant, PTL

-----------------------------------------------------------------------------
\* The refinement of SharedSignals.

\* Both specifications speak of the same network.
LEMMA SameNetwork ==
  /\ \A s : Shared!LinksOf(s) = LinksOf(s)
  /\ Shared!AllLinks = AllLinks
  /\ \A c : Shared!ChannelLinks(c) = ChannelLinks(c)
  /\ \A c : Shared!Known(c) = Known(c)
<1>1. \A s : Shared!LinksOf(s) = LinksOf(s)
  BY DEF Shared!LinksOf, LinksOf
<1>2. Shared!AllLinks = AllLinks
  BY <1>1 DEF Shared!AllLinks, AllLinks
<1>3. \A c : Shared!ChannelLinks(c) = ChannelLinks(c)
  BY <1>1 DEF Shared!ChannelLinks, ChannelLinks
<1> QED BY <1>1, <1>2, <1>3 DEF Shared!Known, Known

NoValues == [c \in Channels |-> [x \in Known(c) |-> 0]]

\* Until the first step, the shared values are the initial ones.
LEMMA EmptyVectors ==
  /\ (\A c \in Channels : \A i \in DOMAIN slots[c] : slotScalar[c][i] = 0)
       => SharedValues = NoValues
  /\ (\A c \in Channels : \A i \in DOMAIN slots'[c] : slotScalar'[c][i] = 0)
       => SharedValues' = NoValues
<1> DEFINE value(sl, vec, c, x) ==
             IF x \in ToSet(sl[c]) THEN vec[c][CHOOSE i \in DOMAIN sl[c] : sl[c][i] = x]
             ELSE 0
<1>1. SharedValues = [c \in Channels |-> [x \in Known(c) |-> value(slots, slotScalar, c, x)]]
  BY DEF SharedValues, Slot
<1>2. SharedValues' = [c \in Channels |-> [x \in Known(c) |-> value(slots', slotScalar', c, x)]]
  BY DEF SharedValues, Slot, Known, ChannelLinks, LinksOf
<1>3. ASSUME NEW sl, NEW vec, NEW c \in Channels, NEW x,
             \A d \in Channels : \A i \in DOMAIN sl[d] : vec[d][i] = 0
      PROVE  value(sl, vec, c, x) = 0
  <2>1. CASE x \in ToSet(sl[c])
    <3>1. \E i \in DOMAIN sl[c] : sl[c][i] = x
      BY <2>1 DEF ToSet
    <3>2. (CHOOSE i \in DOMAIN sl[c] : sl[c][i] = x) \in DOMAIN sl[c]
      BY <3>1
    <3> QED BY <1>3, <2>1, <3>2
  <2>2. CASE x \notin ToSet(sl[c])
    BY <2>2
  <2> QED BY <2>1, <2>2
<1> HIDE DEF value
<1>4. ASSUME \A c \in Channels : \A i \in DOMAIN slots[c] : slotScalar[c][i] = 0
      PROVE  SharedValues = NoValues
  <2>1. \A c \in Channels : \A x \in Known(c) : value(slots, slotScalar, c, x) = 0
    BY <1>3, <1>4
  <2> QED BY <1>1, <2>1 DEF NoValues
<1>5. ASSUME \A c \in Channels : \A i \in DOMAIN slots'[c] : slotScalar'[c][i] = 0
      PROVE  SharedValues' = NoValues
  <2>1. PICK sl : sl = slots'
    OBVIOUS
  <2>2. PICK vec : vec = slotScalar'
    OBVIOUS
  <2>3. \A c \in Channels : \A i \in DOMAIN sl[c] : vec[c][i] = 0
    BY <1>5, <2>1, <2>2
  <2>4. \A c \in Channels : \A x \in Known(c) : value(sl, vec, c, x) = 0
    BY <1>3, <2>3
  <2> QED BY <1>2, <2>1, <2>2, <2>4 DEF NoValues
<1> QED BY <1>4, <1>5

\* From then on, they are found by the slots that the models have cached.
LEMMA ValuesBySlot ==
  ASSUME SlotInv, stage # "register", NEW c \in Channels, NEW l \in ChannelLinks(c),
         NEW x \in SignalsOf[l]
  PROVE  /\ SharedValues[c][x] = slotScalar[c][index[l][x]]
         /\ slots' = slots => SharedValues'[c][x] = slotScalar'[c][index[l][x]]
<1>1. l \in AllLinks /\ l.channel = c /\ x \in Names(l)
  BY HostFacts DEF Names
<1>2. x \in ToSet(slots[c]) /\ Slot(c, x) = index[l][x]
  BY <1>1, AllRegistered, SlotOfName
<1>3. x \in Known(c)
  BY DEF Known
<1>4. SharedValues[c][x] = slotScalar[c][index[l][x]]
  BY <1>2, <1>3 DEF SharedValues
<1>5. ASSUME slots' = slots PROVE SharedValues'[c][x] = slotScalar'[c][index[l][x]]
  <2>1. Slot(c, x)' = Slot(c, x)
    BY <1>5 DEF Slot
  <2>2. SharedValues'[c][x] = IF x \in ToSet(slots'[c]) THEN slotScalar'[c][Slot(c, x)'] ELSE 0
    BY <1>3 DEF SharedValues
  <2> QED BY <1>2, <1>5, <2>1, <2>2
<1> QED BY <1>4, <1>5

LEMMA TurnOf ==
  /\ Turn[Host] = IF stage = "marshalled" THEN "offered"
                  ELSE IF stage = "ready" THEN "granted" ELSE "step"
  /\ Turn'[Host] = IF stage' = "marshalled" THEN "offered"
                   ELSE IF stage' = "ready" THEN "granted" ELSE "step"
  BY HostFacts DEF Turn

LEMMA TurnChanges ==
  /\ Turn = [s \in Sims |-> Turn[Host]]
  /\ \A t : Turn'[Host] = t => Turn' = [Turn EXCEPT ![Host] = t] /\ Turn' = [s \in Sims |-> t]
  /\ Turn'[Host] = Turn[Host] => Turn' = Turn
  BY HostFacts DEF Turn

LEMMA RegisterStutters ==
  ASSUME LoopbackInv, NEW m, Register(m)
  PROVE  UNCHANGED Shared!sharedVars
<1>1. /\ stage = "register" /\ stage' \in {"register", "first", "step"} /\ scalar' = scalar
  BY DEF Register, functionVars
<1>2. \A c \in Channels : \A i \in DOMAIN slots[c] : slotScalar[c][i] = 0
  BY <1>1 DEF LoopbackInv, ScalarInv
<1>3. \A c \in Channels : \A i \in DOMAIN slots'[c] : slotScalar'[c][i] = 0
  BY RegisterVectors DEF LoopbackInv
<1>4. SharedValues' = SharedValues
  BY <1>2, <1>3, EmptyVectors
<1>5. Turn' = Turn
  BY <1>1, TurnOf, TurnChanges
<1> QED BY <1>1, <1>4, <1>5 DEF Shared!sharedVars

LEMMA StepModelWrites ==
  ASSUME StepModel
  PROVE  [Shared!SharedNext]_(Shared!sharedVars)
<1>1. /\ stage = "step" /\ stage' = "step"
      /\ slots' = slots /\ slotScalar' = slotScalar
  BY StepModelFrame
<1>2. SharedValues' = SharedValues
  BY <1>1 DEF SharedValues, Slot
<1>3. Turn' = Turn /\ Turn[Host] = "step"
  BY <1>1, TurnOf, TurnChanges
<1>4. CASE WriteScalar(Host)
  <2>1. \E l \in LinksOf(Host) : \E x \in SignalsOf[l], v \in Values :
          scalar' = [scalar EXCEPT ![l][x] = v]
    BY <1>4 DEF WriteScalar
  <2>2. Shared!Write(Host)
    BY <1>2, <1>3, <2>1, SameNetwork DEF Shared!Write
  <2> QED BY <2>2, HostFacts DEF Shared!SharedNext
<1>5. CASE ResetBinary(Host) \/ AppendBinary(Host)
  <2>1. scalar' = scalar
    BY <1>5 DEF ResetBinary, AppendBinary
  <2> QED BY <1>2, <1>3, <2>1 DEF Shared!sharedVars
<1> QED BY <1>4, <1>5 DEF StepModel, StepFunction

LEMMA MarshalOffers ==
  ASSUME Marshal
  PROVE  Shared!Offer(Host)
<1>1. /\ stage = "step" /\ stage' = "marshalled"
      /\ slots' = slots /\ slotScalar' = slotScalar /\ scalar' = scalar
  BY DEF Marshal, MarshalOut, vectorVars
<1>2. SharedValues' = SharedValues
  BY <1>1 DEF SharedValues, Slot
<1>3. Turn[Host] = "step" /\ Turn' = [Turn EXCEPT ![Host] = "offered"]
  BY <1>1, TurnOf, TurnChanges
<1> QED BY <1>1, <1>2, <1>3 DEF Shared!Offer

\* Only the value of this signal goes to its slot.
LEMMA ChangedHere ==
  ASSUME LoopbackInv, stage = "marshalled", NEW c \in Channels,
         NEW l \in ChannelLinks(c), NEW x \in SignalsOf[l], NEW k \in ChannelLinks(c)
  PROVE  Changed(k, index[l][x]) =
           IF x \in SignalsOf[k] /\ scalar[k][x] # SharedValues[c][x] THEN {x} ELSE {}
<1>0. SlotInv /\ InSlots(val) /\ final = scalar
  BY DEF LoopbackInv, ScalarInv
<1>1. /\ k \in AllLinks /\ l \in AllLinks /\ k.channel = c /\ l.channel = c
      /\ k.model \in registered /\ l.model \in registered
  <2>1. k \in AllLinks /\ l \in AllLinks /\ k.channel = c /\ l.channel = c
    BY HostFacts
  <2> QED BY <1>0, <2>1, AllRegistered
<1>2. \A y \in SignalsOf[k] : index[k][y] = index[l][x] <=> y = x
  <2> TAKE y \in SignalsOf[k]
  <2>1. y \in Names(k) /\ x \in Names(l)
    BY DEF Names
  <2> QED BY <1>0, <1>1, <2>1, OneSlot
<1>3. \A y \in SignalsOf[k] : val[k][y] = SharedValues[c][y]
  <2> TAKE y \in SignalsOf[k]
  <2>1. SharedValues[c][y] = slotScalar[c][index[k][y]]
    BY <1>0, ValuesBySlot
  <2> QED BY <1>0, <1>1, <2>1 DEF InSlots
<1>4. Changed(k, index[l][x]) =
        {y \in SignalsOf[k] : y = x /\ SharedValues[c][y] # scalar[k][y]}
  BY <1>0, <1>2, <1>3 DEF Changed
<1> QED BY <1>4

LEMMA ReadyExchanges ==
  ASSUME LoopbackInv, Ready
  PROVE  Shared!Exchange
<1>0. SlotInv /\ VectorOf(slotScalar) /\ final = scalar
  BY DEF LoopbackInv, ScalarInv, Ready
<1>1. /\ stage = "marshalled" /\ stage' = "ready"
      /\ slots' = slots /\ scalar' = scalar
  BY DEF Ready, functionVars
<1>2. PICK links \in Orders(LinksOf(Host)) : slotScalar' = PublishedScalar(links)
  BY DEF Ready
<1>3. ASSUME NEW c \in Channels, NEW x \in Known(c)
      PROVE  IF Shared!Changes(c, x) = {} THEN SharedValues'[c][x] = SharedValues[c][x]
             ELSE SharedValues'[c][x] \in Shared!Changes(c, x)
  <2>1. PICK l \in ChannelLinks(c) : x \in SignalsOf[l]
    BY DEF Known
  <2>2. l \in AllLinks /\ l.channel = c /\ x \in Names(l)
    BY <2>1, HostFacts DEF Names
  <2>3. PICK i \in DOMAIN slots[c] : i = index[l][x]
    BY <1>0, <1>1, <2>2, AllRegistered, SlotOfName
  <2>4. SharedValues[c][x] = slotScalar[c][i] /\ SharedValues'[c][x] = slotScalar'[c][i]
    BY <1>0, <1>1, <2>1, <2>3, ValuesBySlot
  <2>5. Reached(links, Len(links), c, i, PublishedScalar(links)[c][i])
    BY <1>0, PublishedValues
  <2>6. PICK v : v = SharedValues'[c][x]
    OBVIOUS
  <2>7. Reached(links, Len(links), c, i, v)
    BY <1>2, <2>4, <2>5, <2>6
  <2>8. \A k \in ChannelLinks(c) : Changed(k, i) =
          IF x \in SignalsOf[k] /\ scalar[k][x] # SharedValues[c][x] THEN {x} ELSE {}
    BY <1>1, <2>1, <2>3, ChangedHere
  <2>9. Shared!Changes(c, x) =
          {scalar[k][x] : k \in {h \in ChannelLinks(c) : x \in SignalsOf[h]}}
            \ {SharedValues[c][x]}
    BY SameNetwork DEF Shared!Changes
  <2>10. CASE Writers(links, Len(links), c, i) = {}
    <3>1. v = SharedValues[c][x]
      BY <2>4, <2>7, <2>10 DEF Reached
    <3>2. ASSUME NEW k \in ChannelLinks(c), x \in SignalsOf[k]
          PROVE  scalar[k][x] = SharedValues[c][x]
      <4>1. k \in AllLinks /\ k.channel = c
        BY HostFacts
      <4>2. PICK j \in 1..Len(links) : links[j] = k
        BY <4>1, OrderFacts
      <4>3. Changed(k, i) = {}
        BY <2>10, <4>1, <4>2 DEF Writers
      <4> QED BY <2>8, <3>2, <4>3
    <3>3. Shared!Changes(c, x) = {}
      BY <2>9, <3>2
    <3> QED BY <2>6, <3>1, <3>3
  <2>11. CASE Writers(links, Len(links), c, i) # {}
    <3>1. PICK j \in Writers(links, Len(links), c, i) : \E y \in Changed(links[j], i) :
            v = final[links[j]][y]
      BY <2>7, <2>11 DEF Reached
    <3>2. PICK y \in Changed(links[j], i) : v = final[links[j]][y]
      BY <3>1
    <3>3. j \in 1..Len(links) /\ links[j].channel = c
      BY DEF Writers
    <3>4. links[j] \in AllLinks
      BY <3>3, OrderFacts
    <3>5. links[j] \in ChannelLinks(c)
      BY <3>3, <3>4, HostFacts
    <3>6. x \in SignalsOf[links[j]] /\ scalar[links[j]][x] # SharedValues[c][x] /\ y = x
      BY <2>8, <3>5
    <3>7. v = scalar[links[j]][x]
      BY <1>0, <3>2, <3>6
    <3>8. v \in Shared!Changes(c, x)
      BY <2>9, <3>5, <3>6, <3>7
    <3> QED BY <2>6, <3>8
  <2> QED BY <2>10, <2>11
<1>4. Turn = [s \in Sims |-> "offered"] /\ Turn' = [s \in Sims |-> "granted"]
  BY <1>1, TurnOf, TurnChanges
<1>5. SharedValues' = [c \in Channels |-> [x \in Known(c) |-> SharedValues'[c][x]]]
  BY DEF SharedValues, Known, ChannelLinks, LinksOf
<1> QED BY <1>1, <1>3, <1>4, <1>5, SameNetwork DEF Shared!Exchange

LEMMA StartTakes ==
  ASSUME LoopbackInv, CreateValues = {0}, Start
  PROVE  [Shared!SharedNext]_(Shared!sharedVars)
<1>0. SlotInv /\ ScalarInv
  BY DEF LoopbackInv
<1>1. /\ stage \in {"first", "ready"} /\ stage' = "step"
      /\ slots' = slots /\ slotScalar' = slotScalar
      /\ val' = [l \in AllLinks |->
                  [x \in SignalsOf[l] |-> slotScalar[l.channel][index[l][x]]]]
      /\ scalar' = [l \in AllLinks |-> val'[l]]
  BY StartFacts
<1>2. SharedValues' = SharedValues
  BY <1>1 DEF SharedValues, Slot
<1>3. ASSUME NEW l \in AllLinks, NEW x \in SignalsOf[l]
      PROVE  slotScalar[l.channel][index[l][x]] = SharedValues[l.channel][x]
  <2>1. l.channel \in Channels /\ l \in ChannelLinks(l.channel)
    BY HostFacts
  <2> QED BY <1>0, <1>1, <2>1, ValuesBySlot
<1>4. scalar' = [l \in AllLinks |-> [x \in SignalsOf[l] |-> SharedValues[l.channel][x]]]
  <2>1. \A l \in AllLinks :
          scalar'[l] = [x \in SignalsOf[l] |-> slotScalar[l.channel][index[l][x]]]
    BY <1>1
  <2>2. \A l \in AllLinks : scalar'[l] = [x \in SignalsOf[l] |-> SharedValues[l.channel][x]]
    BY <1>3, <2>1
  <2>3. scalar' = [l \in AllLinks |-> scalar'[l]]
    BY <1>1
  <2> QED BY <2>2, <2>3
<1>5. CASE stage = "ready"
  <2>1. Turn[Host] = "granted" /\ Turn' = [Turn EXCEPT ![Host] = "step"]
    BY <1>1, <1>5, TurnOf, TurnChanges
  <2>2. scalar' = [l \in AllLinks |-> IF l \in LinksOf(Host)
                                      THEN [x \in SignalsOf[l] |-> SharedValues[l.channel][x]]
                                      ELSE scalar[l]]
    BY <1>4, HostFacts
  <2>3. Shared!Take(Host)
    BY <1>2, <2>1, <2>2, SameNetwork DEF Shared!Take
  <2> QED BY <2>3, HostFacts DEF Shared!SharedNext
<1>6. CASE stage = "first"
  <2>1. scalar = Zeros /\ \A c \in Channels : \A i \in DOMAIN slots[c] : slotScalar[c][i] = 0
    BY <1>0, <1>6 DEF ScalarInv
  <2>2. SharedValues = NoValues
    BY <2>1, EmptyVectors
  <2>3. \A l \in AllLinks : \A x \in SignalsOf[l] : SharedValues[l.channel][x] = 0
    <3> TAKE l \in AllLinks
    <3> TAKE x \in SignalsOf[l]
    <3>1. l.channel \in Channels /\ l \in ChannelLinks(l.channel)
      BY HostFacts
    <3>2. x \in Known(l.channel)
      BY <3>1 DEF Known
    <3> QED BY <2>2, <3>1, <3>2 DEF NoValues
  <2>4. scalar' = scalar
    BY <1>4, <2>1, <2>3 DEF Zeros
  <2>5. Turn' = Turn
    BY <1>1, <1>6, TurnOf, TurnChanges
  <2> QED BY <1>2, <2>4, <2>5 DEF Shared!sharedVars
<1> QED BY <1>1, <1>5, <1>6

\* The models of one process on the loopback see one shared value for each
\* signal of a channel, as on the SimBus, if model_create leaves the signals at 0.
THEOREM LoopbackIsShared ==
  ASSUME SlotsStay, CreateValues = {0} PROVE Spec => ImplementsSharedSignals
<1>1. Init => Shared!SharedInit
  <2> SUFFICES ASSUME Init PROVE Shared!SharedInit
    OBVIOUS
  <2>1. ScalarInv /\ stage = "register"
    BY InitScalars DEF Init
  <2>2. scalar = Zeros /\ \A c \in Channels : \A i \in DOMAIN slots[c] : slotScalar[c][i] = 0
    BY <2>1 DEF ScalarInv
  <2>3. SharedValues = NoValues
    BY <2>2, EmptyVectors
  <2>4. Turn = [s \in Sims |-> "step"]
    BY <2>1 DEF Turn
  <2> QED BY <2>2, <2>3, <2>4, SameNetwork DEF Shared!SharedInit, Zeros, NoValues
<1>2. LoopbackInv /\ [Next]_vars => [Shared!SharedNext]_(Shared!sharedVars)
  <2> SUFFICES ASSUME LoopbackInv, [Next]_vars
               PROVE  [Shared!SharedNext]_(Shared!sharedVars)
    OBVIOUS
  <2>1. ASSUME NEW m \in ModelsOf(Host), Register(m)
        PROVE  [Shared!SharedNext]_(Shared!sharedVars)
    BY <2>1, RegisterStutters
  <2>2. CASE StepModel
    BY <2>2, StepModelWrites
  <2>3. CASE Marshal
    BY <2>3, MarshalOffers, HostFacts DEF Shared!SharedNext
  <2>4. CASE Ready
    BY <2>4, ReadyExchanges DEF Shared!SharedNext
  <2>5. CASE Start
    BY <2>5, StartTakes
  <2>6. CASE UNCHANGED vars
    <3>1. UNCHANGED <<scalar, stage, slots, slotScalar>>
      BY <2>6 DEF vars, functionVars, vectorVars
    <3>2. SharedValues' = SharedValues /\ Turn' = Turn
      BY <3>1 DEF SharedValues, Slot, Turn
    <3> QED BY <3>1, <3>2 DEF Shared!sharedVars
  <2> QED BY <2>1, <2>2, <2>3, <2>4, <2>5, <2>6 DEF Next
<1> QED BY <1>1, <1>2, LoopbackInvariant, PTL
        DEF Spec, ImplementsSharedSignals, Shared!SharedSpec
=============================================================================
