----------------------- MODULE SequentialCosim_proofs -----------------------
(***************************************************************************)
(* Theorems about sequential co-simulation, for any number of stacked      *)
(* models, and any channels and signals, provided that models that share a *)
(* channel have the same signals of it: each model is stepped on what the  *)
(* models before it have left, the merge backward leaves the last update   *)
(* with all models, and the bus gets it.  SequentialLost shows what        *)
(* happens without that condition.                                         *)
(*                                                                         *)
(* With it the look ups of a merge find all signals, so they change        *)
(* nothing, and the merges, which are folds, can be described by the last  *)
(* source that has the channel (Forwarded, Backwarded).                    *)
(***************************************************************************)
EXTENDS SequentialCosim, WellFoundedInduction, TLAPS

\* Models that share a channel have the same signals of it.
SharedAlike ==
  \A i, j \in Instances : \A c \in Channels :
    HasChannel(i, c) /\ HasChannel(j, c) => SignalsOf[i][c] = SignalsOf[j][c]

AllValid == [i \in Instances |-> [c \in Channels |-> TRUE]]

ScalarsOfModel == [Channels -> [Signals -> Values]]
Scalars == [Instances -> ScalarsOfModel]

Rec(v, f, n, w) == [val |-> v, final |-> f, names |-> n, valid |-> w]

\* An adapter that no look up has changed.
Intact(v, f) == Rec(v, f, SignalsOf, AllValid)

-----------------------------------------------------------------------------
\* Induction on positions.
LEMMA Least ==
  ASSUME NEW S, S \subseteq Nat, S # {}
  PROVE  \E n \in S : \A m \in S : n <= m
<1> DEFINE R == { ss \in Nat \X Nat : ss[1] < ss[2] }
<1>0. IsWellFoundedOn(R, Nat)
  BY NatLessThanWellFounded DEF OpToRel
<1>1. \E x \in S : \A y \in S : ~(<<y, x>> \in R)
  <2> HIDE DEF R
  <2> QED BY <1>0, WFMin
<1>2. PICK x \in S : \A y \in S : ~(<<y, x>> \in R)
  BY <1>1
<1>3. ASSUME NEW y \in S PROVE x <= y
  <2>1. ~(y < x)
    BY <1>2 DEF R
  <2> QED BY <2>1
<1> QED BY <1>3

LEMMA Upward ==
  ASSUME NEW n \in Nat, NEW S, 0 \in S,
         \A k \in 0..n : k \in S /\ k < n => k + 1 \in S
  PROVE  \A k \in 0..n : k \in S
<1> DEFINE U == {k \in 0..n : k \notin S}
<1>1. ASSUME U # {} PROVE FALSE
  <2>1. U \subseteq Nat
    OBVIOUS
  <2>2. PICK k \in U : \A m \in U : k <= m
    BY <1>1, <2>1, Least
  <2>3. k \in 0..n /\ k \notin S /\ k # 0
    BY <2>2
  <2>4. k - 1 \in 0..n /\ k - 1 < n /\ (k - 1) + 1 = k
    BY <2>3
  <2>5. k - 1 \notin U
    BY <2>2, <2>3, <2>4
  <2> QED BY <2>3, <2>4, <2>5
<1> QED BY <1>1

LEMMA Greatest ==
  ASSUME NEW n \in Nat, NEW S, S \subseteq 1..n, S # {}
  PROVE  \E k \in S : \A m \in S : m <= k
<1> DEFINE T == {n - k : k \in S}
<1>1. T \subseteq Nat /\ T # {}
  <2>1. \A k \in S : k \in Nat /\ n - k \in Nat
    OBVIOUS
  <2> QED BY <2>1
<1>2. PICK t \in T : \A u \in T : t <= u
  BY <1>1, Least
<1>3. PICK k \in S : t = n - k
  OBVIOUS
<1>4. ASSUME NEW m \in S PROVE m <= k
  <2>1. n - k <= n - m
    BY <1>2, <1>3
  <2> QED BY <2>1
<1> QED BY <1>4

-----------------------------------------------------------------------------
\* One merge, of a channel of all models that look up nothing new.

LEMMA RecFields ==
  ASSUME NEW v, NEW f, NEW n, NEW w
  PROVE  /\ Rec(v, f, n, w).val = v /\ Rec(v, f, n, w).final = f
         /\ Rec(v, f, n, w).names = n /\ Rec(v, f, n, w).valid = w
  BY DEF Rec

LEMMA RecChange ==
  ASSUME NEW v, NEW f, NEW n, NEW w, NEW x
  PROVE  /\ [Rec(v, f, n, w) EXCEPT !.val = x] = Rec(x, f, n, w)
         /\ [Rec(v, f, n, w) EXCEPT !.final = x] = Rec(v, x, n, w)
         /\ [Rec(v, f, n, w) EXCEPT !.names = x] = Rec(v, f, x, w)
         /\ [Rec(v, f, n, w) EXCEPT !.valid = x] = Rec(v, f, n, x)
  BY SMT DEF Rec

LEMMA MergedIsShared ==
  ASSUME NEW v, NEW f, NEW k \in Instances, NEW i \in Instances,
         NEW c \in Channels
  PROVE  Merged(Intact(v, f), k, i, c) = IF HasChannel(k, c) THEN SignalsOf[i][c] ELSE {}
<1>1. Intact(v, f).names = SignalsOf /\ Intact(v, f).valid = AllValid
  BY RecFields DEF Intact
<1>2. AllValid[i][c] = TRUE
  BY DEF AllValid
<1>3. ~HasChannel(i, c) => SignalsOf[i][c] = {}
  BY DEF HasChannel
<1> QED BY <1>1, <1>2, <1>3 DEF Merged, Indexed

LEMMA RecPaths ==
  ASSUME NEW a, NEW k, NEW x, NEW y
  PROVE  /\ [a EXCEPT !.names[k] = x, !.valid[k] = y]
              = [[a EXCEPT !.names = [a.names EXCEPT ![k] = x]]
                   EXCEPT !.valid = [[a EXCEPT !.names = [a.names EXCEPT ![k] = x]].valid
                                       EXCEPT ![k] = y]]
         /\ [a EXCEPT !.val[k] = x] = [a EXCEPT !.val = [a.val EXCEPT ![k] = x]]
         /\ [a EXCEPT !.final[k] = x] = [a EXCEPT !.final = [a.final EXCEPT ![k] = x]]
  BY SMT

LEMMA LookUpChangesNothing ==
  ASSUME SharedAlike, NEW v, NEW f, NEW k \in Instances, NEW i \in Instances
  PROVE  LookUp(Intact(v, f), k, i) = Intact(v, f)
<1>1. PICK a : a = Intact(v, f)
  OBVIOUS
<1>2. a.names = SignalsOf /\ a.valid = AllValid /\ a = Rec(v, f, SignalsOf, AllValid)
  BY <1>1, RecFields DEF Intact
<1>3. PICK x : x = [c \in Channels |-> a.names[k][c] \cup Merged(a, k, i, c)]
  OBVIOUS
<1>4. PICK y : y = [c \in Channels |-> a.valid[k][c]
                                   /\ Merged(a, k, i, c) \subseteq a.names[k][c]]
  OBVIOUS
<1>5. LookUp(a, k, i) = [a EXCEPT !.names[k] = x, !.valid[k] = y]
  BY <1>3, <1>4, SMT DEF LookUp
<1>6. \A c \in Channels : Merged(a, k, i, c) \subseteq SignalsOf[k][c]
  <2> SUFFICES ASSUME NEW c \in Channels
               PROVE  Merged(a, k, i, c) \subseteq SignalsOf[k][c]
    OBVIOUS
  <2>1. Merged(a, k, i, c) = IF HasChannel(k, c) THEN SignalsOf[i][c] ELSE {}
    BY <1>1, MergedIsShared
  <2> QED BY <2>1 DEF SharedAlike, HasChannel
<1>7. x = SignalsOf[k]
  <2>1. SignalsOf[k] = [c \in Channels |-> SignalsOf[k][c]]
    BY SequentialAssumption
  <2>2. \A c \in Channels : a.names[k][c] \cup Merged(a, k, i, c) = SignalsOf[k][c]
    BY <1>2, <1>6
  <2> QED BY <1>3, <2>1, <2>2
<1>8. y = AllValid[k]
  <2>1. AllValid[k] = [c \in Channels |-> TRUE]
    BY DEF AllValid
  <2>2. \A c \in Channels : (a.valid[k][c] /\ Merged(a, k, i, c) \subseteq a.names[k][c]) = TRUE
    BY <1>2, <1>6, <2>1
  <2> QED BY <1>4, <2>1, <2>2
<1>9. [SignalsOf EXCEPT ![k] = x] = SignalsOf /\ [AllValid EXCEPT ![k] = y] = AllValid
  BY <1>7, <1>8, SequentialAssumption DEF AllValid
<1>10. [a EXCEPT !.names = SignalsOf] = a /\ [a EXCEPT !.valid = AllValid] = a
  BY <1>2, RecChange
<1>11. [a EXCEPT !.names = [a.names EXCEPT ![k] = x]] = a
  BY <1>2, <1>9, <1>10
<1>12. [a EXCEPT !.valid = [a.valid EXCEPT ![k] = y]] = a
  BY <1>2, <1>9, <1>10
<1>13. LookUp(a, k, i) = [[a EXCEPT !.names = [a.names EXCEPT ![k] = x]]
                 EXCEPT !.valid = [[a EXCEPT !.names = [a.names EXCEPT ![k] = x]].valid
                                     EXCEPT ![k] = y]]
  BY <1>5, RecPaths
<1> QED BY <1>1, <1>11, <1>12, <1>13

\* The values old, where a merge from model k to model i takes those of k.
Taken(old, f, k, i) ==
  [c \in Channels |->
     [x \in Signals |-> IF HasChannel(k, c) /\ x \in SignalsOf[i][c]
                        THEN f[k][c][x] ELSE old[c][x]]]

LEMMA CopiedIsTaken ==
  ASSUME NEW v, NEW f, NEW k \in Instances, NEW i \in Instances, NEW old
  PROVE  Copied(Intact(v, f), k, i, old) = Taken(old, f, k, i)
<1>1. PICK a : a = Intact(v, f)
  OBVIOUS
<1>2. a.final = f
  BY <1>1, RecFields DEF Intact
<1>3. ASSUME NEW c \in Channels, NEW x \in Signals
      PROVE  x \in Merged(a, k, i, c) <=> HasChannel(k, c) /\ x \in SignalsOf[i][c]
  <2>1. Merged(a, k, i, c) = IF HasChannel(k, c) THEN SignalsOf[i][c] ELSE {}
    BY <1>1, MergedIsShared
  <2> QED BY <2>1
<1>4. ASSUME NEW c \in Channels, NEW x \in Signals
      PROVE  (IF x \in Merged(a, k, i, c) THEN a.final[k][c][x] ELSE old[c][x])
               = (IF HasChannel(k, c) /\ x \in SignalsOf[i][c] THEN f[k][c][x] ELSE old[c][x])
  BY <1>2, <1>3
<1>5. Copied(a, k, i, old) = [c \in Channels |-> [x \in Signals |->
         IF x \in Merged(a, k, i, c) THEN a.final[k][c][x] ELSE old[c][x]]]
  BY DEF Copied
<1> QED BY <1>1, <1>4, <1>5 DEF Taken

LEMMA ForwardTakes ==
  ASSUME SharedAlike, NEW v, NEW f, NEW k \in Instances, NEW i \in Instances
  PROVE  Forward(Intact(v, f), k, i) = Intact([v EXCEPT ![i] = Taken(v[i], f, k, i)], f)
<1>1. PICK a : a = Intact(v, f)
  OBVIOUS
<1>2. a.val = v /\ a = Rec(v, f, SignalsOf, AllValid)
  BY <1>1, RecFields DEF Intact
<1>3. PICK t : t = Taken(v[i], f, k, i)
  OBVIOUS
<1>4. LookUp(a, k, i) = a /\ Copied(a, k, i, a.val[i]) = t
  <2>1. LookUp(a, k, i) = a
    BY <1>1, LookUpChangesNothing
  <2>2. PICK o : o = a.val[i]
    OBVIOUS
  <2>3. Copied(a, k, i, o) = Taken(o, f, k, i)
    BY <1>1, CopiedIsTaken
  <2> QED BY <1>2, <1>3, <2>1, <2>2, <2>3
<1>5. Forward(a, k, i) = [a EXCEPT !.val[i] = t]
  BY <1>4 DEF Forward
<1>6. [a EXCEPT !.val[i] = t] = [a EXCEPT !.val = [a.val EXCEPT ![i] = t]]
  BY RecPaths
<1>7. PICK u : u = [v EXCEPT ![i] = t]
  OBVIOUS
<1>8. [a EXCEPT !.val = u] = Rec(u, f, SignalsOf, AllValid)
  <2>1. [Rec(v, f, SignalsOf, AllValid) EXCEPT !.val = u] = Rec(u, f, SignalsOf, AllValid)
    BY RecChange
  <2> QED BY <1>2, <2>1
<1> QED BY <1>1, <1>2, <1>3, <1>5, <1>6, <1>7, <1>8 DEF Intact

LEMMA BackwardTakes ==
  ASSUME SharedAlike, NEW v, NEW f, NEW k \in Instances, NEW i \in Instances
  PROVE  Backward(Intact(v, f), k, i) = Intact(v, [f EXCEPT ![i] = Taken(f[i], f, k, i)])
<1>1. PICK a : a = Intact(v, f)
  OBVIOUS
<1>2. a.final = f /\ a = Rec(v, f, SignalsOf, AllValid)
  BY <1>1, RecFields DEF Intact
<1>3. PICK t : t = Taken(f[i], f, k, i)
  OBVIOUS
<1>4. LookUp(a, k, i) = a /\ Copied(a, k, i, a.final[i]) = t
  <2>1. LookUp(a, k, i) = a
    BY <1>1, LookUpChangesNothing
  <2>2. PICK o : o = a.final[i]
    OBVIOUS
  <2>3. Copied(a, k, i, o) = Taken(o, f, k, i)
    BY <1>1, CopiedIsTaken
  <2> QED BY <1>2, <1>3, <2>1, <2>2, <2>3
<1>5. Backward(a, k, i) = [a EXCEPT !.final[i] = t]
  BY <1>4 DEF Backward
<1>6. [a EXCEPT !.final[i] = t] = [a EXCEPT !.final = [a.final EXCEPT ![i] = t]]
  BY RecPaths
<1>7. PICK u : u = [f EXCEPT ![i] = t]
  OBVIOUS
<1>8. [a EXCEPT !.final = u] = Rec(v, u, SignalsOf, AllValid)
  BY <1>2, RecChange
<1> QED BY <1>1, <1>2, <1>3, <1>5, <1>6, <1>7, <1>8 DEF Intact

-----------------------------------------------------------------------------
\* The merges are defined by recursion over the models: their values exist.

LEMMA ForwardRecursion ==
  ASSUME NEW i \in Instances
  PROVE  \E h : /\ MergeForward(i) = h[i - 1]
                /\ h[0] = Adapter
                /\ \A k \in 1..i - 1 : h[k] = Forward(h[k - 1], k, i)
<1> DEFINE Solution(n, h) == [k \in 0..n |-> IF k = 0 THEN Adapter ELSE Forward(h[k - 1], k, i)]
           S == {n \in 0..i - 1 : \E h : h = Solution(n, h)}
<1>0. i - 1 \in Nat
  BY DEF Instances
<1>1. 0 \in S
  <2> DEFINE h == [k \in 0..0 |-> Adapter]
  <2>1. h = Solution(0, h)
    OBVIOUS
  <2>2. \E z : z = Solution(0, z)
    <3> HIDE DEF h, Solution
    <3> QED BY <2>1
  <2> QED BY <1>0, <2>2
<1>2. ASSUME NEW n \in 0..i - 1, n \in S, n < i - 1 PROVE n + 1 \in S
  <2>1. PICK h : h = Solution(n, h)
    BY <1>2
  <2> DEFINE g == [k \in 0..n + 1 |-> IF k = n + 1 THEN Forward(h[n], n + 1, i) ELSE h[k]]
  <2>2. ASSUME NEW k \in 0..n + 1
        PROVE  g[k] = IF k = 0 THEN Adapter ELSE Forward(g[k - 1], k, i)
    <3>1. CASE k = n + 1
      <4>1. g[k - 1] = h[n] /\ g[k] = Forward(h[n], n + 1, i) /\ k # 0
        BY <3>1
      <4> QED BY <3>1, <4>1
    <3>2. CASE k # n + 1
      <4>1. k \in 0..n /\ g[k] = h[k]
        BY <3>2
      <4>2. h[k] = IF k = 0 THEN Adapter ELSE Forward(h[k - 1], k, i)
        BY <2>1, <4>1
      <4>3. k # 0 => g[k - 1] = h[k - 1]
        BY <4>1
      <4> QED BY <4>1, <4>2, <4>3
    <3> QED BY <3>1, <3>2
  <2>3. g = Solution(n + 1, g)
    BY <2>2
  <2>4. \E z : z = Solution(n + 1, z)
    <3> HIDE DEF g, Solution
    <3> QED BY <2>3
  <2>5. n + 1 \in 0..i - 1
    BY <1>0, <1>2
  <2> QED BY <2>4, <2>5
<1> DEFINE merged == CHOOSE h : h = Solution(i - 1, h)
<1>3. merged = Solution(i - 1, merged)
  <2>1. i - 1 \in S
    <3> HIDE DEF S
    <3> QED BY <1>0, <1>1, <1>2, Upward
  <2> HIDE DEF Solution
  <2> QED BY <2>1
<1>4. MergeForward(i) = merged[i - 1]
  BY DEF MergeForward
<1> HIDE DEF merged
<1>5. merged[0] = Adapter /\ \A k \in 1..i - 1 : merged[k] = Forward(merged[k - 1], k, i)
  <2>1. PICK h : h = merged
    OBVIOUS
  <2>2. h = Solution(i - 1, h)
    BY <1>3, <2>1
  <2>3. \A k \in 0..i - 1 : h[k] = IF k = 0 THEN Adapter ELSE Forward(h[k - 1], k, i)
    BY <2>2
  <2>4. 0 \in 0..i - 1 /\ \A k \in 1..i - 1 : k \in 0..i - 1 /\ k # 0
    BY <1>0
  <2> QED BY <2>1, <2>3, <2>4
<1> QED BY <1>4, <1>5

OneBackward(a, k, i) == IF k = i THEN a ELSE Backward(a, k, i)

LEMMA BackwardRecursion ==
  ASSUME NEW a, NEW i \in Instances
  PROVE  \E h : /\ MergeBackward(a, i) = h[Count]
                /\ h[0] = a
                /\ \A k \in 1..Count : h[k] = OneBackward(h[k - 1], k, i)
<1> DEFINE Solution(n, h) == [k \in 0..n |-> IF k = 0 THEN a ELSE OneBackward(h[k - 1], k, i)]
           S == {n \in 0..Count : \E h : h = Solution(n, h)}
<1>0. Count \in Nat
  BY SequentialAssumption
<1>1. 0 \in S
  <2> DEFINE h == [k \in 0..0 |-> a]
  <2>1. h = Solution(0, h)
    OBVIOUS
  <2>2. \E z : z = Solution(0, z)
    <3> HIDE DEF h, Solution
    <3> QED BY <2>1
  <2> QED BY <1>0, <2>2
<1>2. ASSUME NEW n \in 0..Count, n \in S, n < Count PROVE n + 1 \in S
  <2>1. PICK h : h = Solution(n, h)
    BY <1>2
  <2> DEFINE g == [k \in 0..n + 1 |-> IF k = n + 1 THEN OneBackward(h[n], n + 1, i) ELSE h[k]]
  <2>2. ASSUME NEW k \in 0..n + 1
        PROVE  g[k] = IF k = 0 THEN a ELSE OneBackward(g[k - 1], k, i)
    <3>1. CASE k = n + 1
      <4>1. g[k - 1] = h[n] /\ g[k] = OneBackward(h[n], n + 1, i) /\ k # 0
        BY <3>1
      <4> QED BY <3>1, <4>1
    <3>2. CASE k # n + 1
      <4>1. k \in 0..n /\ g[k] = h[k]
        BY <3>2
      <4>2. h[k] = IF k = 0 THEN a ELSE OneBackward(h[k - 1], k, i)
        BY <2>1, <4>1
      <4>3. k # 0 => g[k - 1] = h[k - 1]
        BY <4>1
      <4> QED BY <4>1, <4>2, <4>3
    <3> QED BY <3>1, <3>2
  <2>3. g = Solution(n + 1, g)
    BY <2>2
  <2>4. \E z : z = Solution(n + 1, z)
    <3> HIDE DEF g, Solution
    <3> QED BY <2>3
  <2>5. n + 1 \in 0..Count
    BY <1>0, <1>2
  <2> QED BY <2>4, <2>5
<1> DEFINE merged == CHOOSE h : h = Solution(Count, h)
<1>3. merged = Solution(Count, merged)
  <2>1. Count \in S
    <3> HIDE DEF S
    <3> QED BY <1>0, <1>1, <1>2, Upward
  <2> HIDE DEF Solution
  <2> QED BY <2>1
<1>4. MergeBackward(a, i) = merged[Count]
  BY DEF MergeBackward, OneBackward
<1> HIDE DEF merged
<1>5. merged[0] = a /\ \A k \in 1..Count : merged[k] = OneBackward(merged[k - 1], k, i)
  <2>1. PICK h : h = merged
    OBVIOUS
  <2>2. h = Solution(Count, h)
    BY <1>3, <2>1
  <2>3. \A k \in 0..Count : h[k] = IF k = 0 THEN a ELSE OneBackward(h[k - 1], k, i)
    BY <2>2
  <2>4. 0 \in 0..Count /\ \A k \in 1..Count : k \in 0..Count /\ k # 0
    BY <1>0
  <2> QED BY <2>1, <2>3, <2>4
<1> QED BY <1>4, <1>5

LEMMA BackwardsRecursion ==
  \E h : /\ Backwards = h[Count]
         /\ h[0] = Adapter
         /\ \A k \in 1..Count : h[k] = MergeBackward(h[k - 1], k)
<1> DEFINE Solution(n, h) == [k \in 0..n |-> IF k = 0 THEN Adapter ELSE MergeBackward(h[k - 1], k)]
           S == {n \in 0..Count : \E h : h = Solution(n, h)}
<1>0. Count \in Nat
  BY SequentialAssumption
<1>1. 0 \in S
  <2> DEFINE h == [k \in 0..0 |-> Adapter]
  <2>1. h = Solution(0, h)
    OBVIOUS
  <2>2. \E z : z = Solution(0, z)
    <3> HIDE DEF h, Solution
    <3> QED BY <2>1
  <2> QED BY <1>0, <2>2
<1>2. ASSUME NEW n \in 0..Count, n \in S, n < Count PROVE n + 1 \in S
  <2>1. PICK h : h = Solution(n, h)
    BY <1>2
  <2> DEFINE g == [k \in 0..n + 1 |-> IF k = n + 1 THEN MergeBackward(h[n], n + 1) ELSE h[k]]
  <2>2. ASSUME NEW k \in 0..n + 1
        PROVE  g[k] = IF k = 0 THEN Adapter ELSE MergeBackward(g[k - 1], k)
    <3>1. CASE k = n + 1
      <4>1. g[k - 1] = h[n] /\ g[k] = MergeBackward(h[n], n + 1) /\ k # 0
        BY <3>1
      <4> QED BY <3>1, <4>1
    <3>2. CASE k # n + 1
      <4>1. k \in 0..n /\ g[k] = h[k]
        BY <3>2
      <4>2. h[k] = IF k = 0 THEN Adapter ELSE MergeBackward(h[k - 1], k)
        BY <2>1, <4>1
      <4>3. k # 0 => g[k - 1] = h[k - 1]
        BY <4>1
      <4> QED BY <4>1, <4>2, <4>3
    <3> QED BY <3>1, <3>2
  <2>3. g = Solution(n + 1, g)
    BY <2>2
  <2>4. \E z : z = Solution(n + 1, z)
    <3> HIDE DEF g, Solution
    <3> QED BY <2>3
  <2>5. n + 1 \in 0..Count
    BY <1>0, <1>2
  <2> QED BY <2>4, <2>5
<1> DEFINE merged == CHOOSE h : h = Solution(Count, h)
<1>3. merged = Solution(Count, merged)
  <2>1. Count \in S
    <3> HIDE DEF S
    <3> QED BY <1>0, <1>1, <1>2, Upward
  <2> HIDE DEF Solution
  <2> QED BY <2>1
<1>4. Backwards = merged[Count]
  BY DEF Backwards
<1> HIDE DEF merged
<1>5. merged[0] = Adapter /\ \A k \in 1..Count : merged[k] = MergeBackward(merged[k - 1], k)
  <2>1. PICK h : h = merged
    OBVIOUS
  <2>2. h = Solution(Count, h)
    BY <1>3, <2>1
  <2>3. \A k \in 0..Count : h[k] = IF k = 0 THEN Adapter ELSE MergeBackward(h[k - 1], k)
    BY <2>2
  <2>4. 0 \in 0..Count /\ \A k \in 1..Count : k \in 0..Count /\ k # 0
    BY <1>0
  <2> QED BY <2>1, <2>3, <2>4
<1> QED BY <1>4, <1>5

-----------------------------------------------------------------------------
\* What a merge of the models 1..n to model i makes of its values old: those of
\* the last other model that has the channel, if there is one.
LastOf(w, old, f, i, n) ==
  \A c \in Channels : \A x \in SignalsOf[i][c] :
    /\ (\A j \in 1..n : j = i \/ ~HasChannel(j, c)) => w[c][x] = old[c][x]
    /\ \A j \in 1..n :
         /\ j # i /\ HasChannel(j, c)
         /\ \A q \in j + 1..n : q = i \/ ~HasChannel(q, c)
         => w[c][x] = f[j][c][x]

LEMMA SignalsKnown ==
  ASSUME NEW i \in Instances, NEW c \in Channels
  PROVE  SignalsOf[i][c] \subseteq Signals
  BY SequentialAssumption

LEMMA TakenType ==
  ASSUME NEW w \in ScalarsOfModel, NEW f \in Scalars, NEW k \in Instances, NEW i \in Instances
  PROVE  Taken(w, f, k, i) \in ScalarsOfModel
<1>1. ASSUME NEW c \in Channels, NEW x \in Signals
      PROVE  f[k][c][x] \in Values /\ w[c][x] \in Values
  BY DEF Scalars, ScalarsOfModel
<1> QED BY <1>1 DEF Taken, ScalarsOfModel

LEMMA LastOfStart ==
  ASSUME NEW w, NEW f, NEW i
  PROVE  LastOf(w, w, f, i, 0)
  BY DEF LastOf

LEMMA LastOfSame ==
  ASSUME NEW w, NEW old, NEW f, NEW i \in Instances, NEW n \in Nat, n + 1 = i,
         LastOf(w, old, f, i, n)
  PROVE  LastOf(w, old, f, i, n + 1)
<1> SUFFICES ASSUME NEW c \in Channels, NEW x \in SignalsOf[i][c]
             PROVE  /\ (\A j \in 1..n + 1 : j = i \/ ~HasChannel(j, c)) => w[c][x] = old[c][x]
                    /\ \A j \in 1..n + 1 :
                         /\ j # i /\ HasChannel(j, c)
                         /\ \A q \in j + 1..n + 1 : q = i \/ ~HasChannel(q, c)
                         => w[c][x] = f[j][c][x]
  BY DEF LastOf
<1>1. ASSUME \A j \in 1..n + 1 : j = i \/ ~HasChannel(j, c)
      PROVE  w[c][x] = old[c][x]
  <2>1. \A j \in 1..n : j \in 1..n + 1
    OBVIOUS
  <2> QED BY <1>1, <2>1 DEF LastOf
<1>2. ASSUME NEW j \in 1..n + 1, j # i, HasChannel(j, c),
             \A q \in j + 1..n + 1 : q = i \/ ~HasChannel(q, c)
      PROVE  w[c][x] = f[j][c][x]
  <2>1. j \in 1..n /\ \A q \in j + 1..n : q \in j + 1..n + 1
    BY <1>2
  <2> QED BY <1>2, <2>1 DEF LastOf
<1> QED BY <1>1, <1>2

LEMMA LastOfStep ==
  ASSUME NEW w, NEW old, NEW f, NEW i \in Instances, NEW n \in Nat, n + 1 \in Instances,
         n + 1 # i, LastOf(w, old, f, i, n)
  PROVE  LastOf(Taken(w, f, n + 1, i), old, f, i, n + 1)
<1> DEFINE k == n + 1
           t == Taken(w, f, k, i)
<1> SUFFICES ASSUME NEW c \in Channels, NEW x \in SignalsOf[i][c]
             PROVE  /\ (\A j \in 1..k : j = i \/ ~HasChannel(j, c)) => t[c][x] = old[c][x]
                    /\ \A j \in 1..k :
                         /\ j # i /\ HasChannel(j, c)
                         /\ \A q \in j + 1..k : q = i \/ ~HasChannel(q, c)
                         => t[c][x] = f[j][c][x]
  BY DEF LastOf
<1>0. x \in Signals
  BY SignalsKnown
<1>1. t[c][x] = IF HasChannel(k, c) THEN f[k][c][x] ELSE w[c][x]
  BY <1>0 DEF Taken
<1> HIDE DEF t
<1>2. ASSUME \A j \in 1..k : j = i \/ ~HasChannel(j, c)
      PROVE  t[c][x] = old[c][x]
  <2>1. k \in 1..k /\ \A j \in 1..n : j \in 1..k
    OBVIOUS
  <2>2. ~HasChannel(k, c)
    BY <1>2, <2>1
  <2>3. \A j \in 1..n : j = i \/ ~HasChannel(j, c)
    BY <1>2, <2>1
  <2>4. w[c][x] = old[c][x]
    BY <2>3 DEF LastOf
  <2> QED BY <1>1, <2>2, <2>4
<1>3. ASSUME NEW j \in 1..k, j # i, HasChannel(j, c),
             \A q \in j + 1..k : q = i \/ ~HasChannel(q, c)
      PROVE  t[c][x] = f[j][c][x]
  <2>1. CASE j = k
    BY <1>1, <1>3, <2>1
  <2>2. CASE j # k
    <3>1. j \in 1..n /\ k \in j + 1..k /\ \A q \in j + 1..n : q \in j + 1..k
      BY <2>2
    <3>2. ~HasChannel(k, c)
      BY <1>3, <3>1
    <3>3. w[c][x] = f[j][c][x]
      BY <1>3, <3>1 DEF LastOf
    <3> QED BY <1>1, <3>2, <3>3
  <2> QED BY <2>1, <2>2
<1> QED BY <1>2, <1>3

LEMMA Forwarded ==
  ASSUME SharedAlike, val \in Scalars, final \in Scalars, Adapter = Intact(val, final),
         NEW i \in Instances
  PROVE  \E w \in ScalarsOfModel :
           /\ LastOf(w, val[i], final, i, i - 1)
           /\ MergeForward(i) = Intact([val EXCEPT ![i] = w], final)
<1>1. PICK h : /\ MergeForward(i) = h[i - 1]
               /\ h[0] = Adapter
               /\ \A k \in 1..i - 1 : h[k] = Forward(h[k - 1], k, i)
  BY ForwardRecursion
<1>2. PICK v \in Scalars, f \in Scalars, o \in ScalarsOfModel :
        v = val /\ f = final /\ o = v[i]
  BY DEF Scalars
<1> DEFINE S == {n \in 0..i - 1 : \E w \in ScalarsOfModel :
                   LastOf(w, o, f, i, n) /\ h[n] = Intact([v EXCEPT ![i] = w], f)}
<1>3. i - 1 \in Nat /\ \A n \in 1..i - 1 : n \in Instances /\ n # i
  BY SequentialAssumption DEF Instances
<1>4. 0 \in S
  <2>1. [v EXCEPT ![i] = o] = v
    BY <1>2 DEF Scalars
  <2>2. h[0] = Intact([v EXCEPT ![i] = o], f)
    BY <1>1, <1>2, <2>1
  <2>3. LastOf(o, o, f, i, 0)
    BY LastOfStart
  <2> QED BY <1>2, <1>3, <2>2, <2>3
<1>5. ASSUME NEW n \in 0..i - 1, n \in S, n < i - 1 PROVE n + 1 \in S
  <2>1. PICK w \in ScalarsOfModel : /\ LastOf(w, o, f, i, n)
                                    /\ h[n] = Intact([v EXCEPT ![i] = w], f)
    BY <1>5
  <2>2. /\ n \in Nat /\ n + 1 \in 1..i - 1 /\ (n + 1) - 1 = n
        /\ n + 1 \in Instances /\ n + 1 # i
    BY <1>3, <1>5
  <2>3. PICK u : u = [v EXCEPT ![i] = w]
    OBVIOUS
  <2>4. u[i] = w
    BY <2>3, <1>2 DEF Scalars
  <2>5. PICK t : t = Taken(w, f, n + 1, i)
    OBVIOUS
  <2>6. h[n + 1] = Forward(Intact(u, f), n + 1, i)
    BY <1>1, <2>1, <2>2, <2>3
  <2>7. h[n + 1] = Intact([u EXCEPT ![i] = Taken(u[i], f, n + 1, i)], f)
    BY <2>2, <2>6, ForwardTakes
  <2>8. [u EXCEPT ![i] = t] = [v EXCEPT ![i] = t]
    BY <2>3, <1>2 DEF Scalars
  <2>9. h[n + 1] = Intact([v EXCEPT ![i] = t], f)
    BY <2>4, <2>5, <2>7, <2>8
  <2>10. LastOf(t, o, f, i, n + 1)
    BY <2>1, <2>2, <2>5, LastOfStep
  <2>11. t \in ScalarsOfModel
    BY <2>2, <2>5, TakenType
  <2> QED BY <2>2, <2>9, <2>10, <2>11
<1>6. i - 1 \in S
  <2> HIDE DEF S
  <2> QED BY <1>3, <1>4, <1>5, Upward
<1> QED BY <1>1, <1>2, <1>6

LEMMA Backwarded ==
  ASSUME SharedAlike, NEW v, NEW f \in Scalars, NEW i \in Instances
  PROVE  \E w \in ScalarsOfModel :
           /\ LastOf(w, f[i], f, i, Count)
           /\ MergeBackward(Intact(v, f), i) = Intact(v, [f EXCEPT ![i] = w])
<1>1. PICK h : /\ MergeBackward(Intact(v, f), i) = h[Count]
               /\ h[0] = Intact(v, f)
               /\ \A k \in 1..Count : h[k] = OneBackward(h[k - 1], k, i)
  BY BackwardRecursion
<1>2. PICK o \in ScalarsOfModel : o = f[i]
  BY DEF Scalars
<1> DEFINE S == {n \in 0..Count : \E w \in ScalarsOfModel :
                   LastOf(w, o, f, i, n) /\ h[n] = Intact(v, [f EXCEPT ![i] = w])}
<1>3. Count \in Nat /\ \A n \in 1..Count : n \in Instances
  BY SequentialAssumption DEF Instances
<1>4. 0 \in S
  <2>1. [f EXCEPT ![i] = o] = f
    BY <1>2 DEF Scalars
  <2>2. h[0] = Intact(v, [f EXCEPT ![i] = o])
    BY <1>1, <1>2, <2>1
  <2>3. LastOf(o, o, f, i, 0)
    BY LastOfStart
  <2> QED BY <1>2, <1>3, <2>2, <2>3
<1>5. ASSUME NEW n \in 0..Count, n \in S, n < Count PROVE n + 1 \in S
  <2>1. PICK w \in ScalarsOfModel : /\ LastOf(w, o, f, i, n)
                                    /\ h[n] = Intact(v, [f EXCEPT ![i] = w])
    BY <1>5
  <2>2. n \in Nat /\ n + 1 \in 1..Count /\ (n + 1) - 1 = n /\ n + 1 \in Instances
    BY <1>3, <1>5
  <2>3. PICK u : u = [f EXCEPT ![i] = w]
    OBVIOUS
  <2>4. h[n + 1] = OneBackward(Intact(v, u), n + 1, i)
    BY <1>1, <2>1, <2>2, <2>3
  <2>5. CASE n + 1 = i
    <3>1. h[n + 1] = Intact(v, u)
      BY <2>4, <2>5 DEF OneBackward
    <3>2. LastOf(w, o, f, i, n + 1)
      BY <2>1, <2>2, <2>5, LastOfSame
    <3>3. h[n + 1] = Intact(v, [f EXCEPT ![i] = w])
      BY <2>3, <3>1
    <3>4. n + 1 \in 0..Count
      BY <2>2
    <3> QED BY <2>1, <3>2, <3>3, <3>4
  <2>6. CASE n + 1 # i
    <3>1. PICK t : t = Taken(w, f, n + 1, i)
      OBVIOUS
    <3>2. u[i] = w /\ u[n + 1] = f[n + 1]
      BY <2>2, <2>3, <2>6 DEF Scalars
    <3>3. Taken(w, u, n + 1, i) = t
      BY <3>1, <3>2 DEF Taken
    <3>4. h[n + 1] = Backward(Intact(v, u), n + 1, i)
      BY <2>4, <2>6 DEF OneBackward
    <3>5. h[n + 1] = Intact(v, [u EXCEPT ![i] = Taken(u[i], u, n + 1, i)])
      BY <2>2, <3>4, BackwardTakes
    <3>6. [u EXCEPT ![i] = t] = [f EXCEPT ![i] = t]
      BY <2>3 DEF Scalars
    <3>7. h[n + 1] = Intact(v, [f EXCEPT ![i] = t])
      BY <3>2, <3>3, <3>5, <3>6
    <3>8. LastOf(t, o, f, i, n + 1)
      BY <2>1, <2>2, <2>6, <3>1, LastOfStep
    <3>9. t \in ScalarsOfModel
      BY <2>2, <3>1, TakenType
    <3> QED BY <2>2, <3>7, <3>8, <3>9
  <2> QED BY <2>5, <2>6
<1>6. Count \in S
  <2> HIDE DEF S
  <2> QED BY <1>3, <1>4, <1>5, Upward
<1> QED BY <1>1, <1>2, <1>6

-----------------------------------------------------------------------------
\* The merge backward: all models have the values of the last one.
IsLast(l, c) ==
  HasChannel(l, c) /\ \A q \in Instances : q > l => ~HasChannel(q, c)

LEMMA LastExists ==
  ASSUME NEW c \in Channels, NEW i \in Instances, HasChannel(i, c)
  PROVE  \E l \in Instances : IsLast(l, c)
<1> DEFINE S == {l \in Instances : HasChannel(l, c)}
<1>1. S \subseteq 1..Count /\ S # {} /\ Count \in Nat
  BY SequentialAssumption DEF Instances
<1>2. PICK l \in S : \A m \in S : m <= l
  BY <1>1, Greatest
<1>3. ASSUME NEW q \in Instances, q > l PROVE ~HasChannel(q, c)
  <2>1. q \in Int /\ l \in Int
    BY <1>1, <1>2 DEF Instances
  <2> QED BY <1>2, <1>3, <2>1
<1> QED BY <1>2, <1>3 DEF IsLast

AllOfLast(f, g, n) ==
  \A i \in Instances : i <= n =>
    \A c \in Channels : \A x \in SignalsOf[i][c] : \A l \in Instances :
      IsLast(l, c) => f[i][c][x] = g[l][c][x]

LEMMA AllOfLastStep ==
  ASSUME SharedAlike, NEW f \in Scalars, NEW g \in Scalars, NEW w \in ScalarsOfModel,
         NEW n \in Nat, n + 1 \in Instances, AllOfLast(f, g, n),
         \A j \in Instances : j > n => f[j] = g[j],
         LastOf(w, f[n + 1], f, n + 1, Count)
  PROVE  AllOfLast([f EXCEPT ![n + 1] = w], g, n + 1)
<1> DEFINE k == n + 1
<1>0. Count \in Nat /\ Instances = 1..Count
  BY SequentialAssumption DEF Instances
<1> SUFFICES ASSUME NEW i \in Instances, i <= k, NEW c \in Channels, NEW x \in SignalsOf[i][c],
                    NEW l \in Instances, IsLast(l, c)
             PROVE  [f EXCEPT ![k] = w][i][c][x] = g[l][c][x]
  BY DEF AllOfLast
<1>1. CASE i # k
  <2>1. i <= n
    BY <1>0, <1>1
  <2>2. [f EXCEPT ![k] = w][i] = f[i]
    BY <1>1 DEF Scalars
  <2> QED BY <2>1, <2>2 DEF AllOfLast
<1>2. CASE i = k
  <2>1. [f EXCEPT ![k] = w][i] = w
    BY <1>2 DEF Scalars
  <2>2. HasChannel(i, c)
    BY DEF HasChannel
  <2>3. ~(i > l)
    BY <2>2 DEF IsLast
  <2>4. CASE l > i
    <3>1. l \in 1..Count /\ l # k /\ l > n
      BY <1>0, <1>2, <2>4
    <3>2. \A q \in l + 1..Count : ~HasChannel(q, c)
      BY <1>0 DEF IsLast
    <3>3. w[c][x] = f[l][c][x]
      BY <1>2, <3>1, <3>2 DEF LastOf, IsLast
    <3> QED BY <2>1, <3>1, <3>3
  <2>5. CASE l = i
    <3> DEFINE T == {j \in 1..Count : j # k /\ HasChannel(j, c)}
    <3>0. g[k] = f[k]
      BY <1>0
    <3>1. CASE T = {}
      <4>1. \A j \in 1..Count : j = k \/ ~HasChannel(j, c)
        BY <3>1
      <4>2. w[c][x] = f[k][c][x]
        BY <1>2, <4>1 DEF LastOf
      <4> QED BY <1>2, <2>1, <2>5, <3>0, <4>2
    <3>2. CASE T # {}
      <4>1. PICK j \in T : \A m \in T : m <= j
        BY <1>0, <3>2, Greatest
      <4>2. j \in Instances /\ j # k /\ HasChannel(j, c)
        BY <1>0, <4>1
      <4>3. ~(j > l)
        BY <4>2 DEF IsLast
      <4>4. j <= n
        BY <1>0, <1>2, <2>5, <4>2, <4>3
      <4>5. \A q \in j + 1..Count : q = k \/ ~HasChannel(q, c)
        <5> SUFFICES ASSUME NEW q \in j + 1..Count PROVE q = k \/ ~HasChannel(q, c)
          OBVIOUS
        <5>1. q \in 1..Count /\ ~(q <= j)
          BY <1>0, <4>2
        <5> QED BY <4>1, <5>1
      <4>6. w[c][x] = f[j][c][x]
        BY <1>0, <1>2, <4>2, <4>5 DEF LastOf
      <4>7. x \in SignalsOf[j][c]
        BY <2>2, <4>2 DEF SharedAlike
      <4>8. f[j][c][x] = g[l][c][x]
        BY <4>2, <4>4, <4>7 DEF AllOfLast
      <4> QED BY <2>1, <4>6, <4>8
    <3> QED BY <3>1, <3>2
  <2> QED BY <1>0, <2>3, <2>4, <2>5
<1> QED BY <1>1, <1>2

LEMMA BackwardsIsLast ==
  ASSUME SharedAlike, final \in Scalars, Adapter = Intact(val, final)
  PROVE  \E f \in Scalars : Backwards = Intact(val, f) /\ AllOfLast(f, final, Count)
<1>1. PICK h : /\ Backwards = h[Count]
               /\ h[0] = Adapter
               /\ \A k \in 1..Count : h[k] = MergeBackward(h[k - 1], k)
  BY BackwardsRecursion
<1>2. PICK v, g : v = val /\ g = final /\ g \in Scalars
  OBVIOUS
<1> DEFINE S == {n \in 0..Count : \E f \in Scalars :
                   /\ h[n] = Intact(v, f) /\ AllOfLast(f, g, n)
                   /\ \A j \in Instances : j > n => f[j] = g[j]}
<1>3. Count \in Nat /\ \A n \in 1..Count : n \in Instances
  BY SequentialAssumption DEF Instances
<1>4. 0 \in S
  <2>1. AllOfLast(g, g, 0)
    BY DEF AllOfLast, Instances
  <2>2. h[0] = Intact(v, g)
    BY <1>1, <1>2
  <2> QED BY <1>2, <1>3, <2>1, <2>2
<1>5. ASSUME NEW n \in 0..Count, n \in S, n < Count PROVE n + 1 \in S
  <2>1. PICK f \in Scalars : /\ h[n] = Intact(v, f) /\ AllOfLast(f, g, n)
                             /\ \A j \in Instances : j > n => f[j] = g[j]
    BY <1>5
  <2>2. n \in Nat /\ n + 1 \in 1..Count /\ (n + 1) - 1 = n /\ n + 1 \in Instances
    BY <1>3, <1>5
  <2>3. h[n + 1] = MergeBackward(Intact(v, f), n + 1)
    BY <1>1, <2>1, <2>2
  <2>4. PICK w \in ScalarsOfModel :
          /\ LastOf(w, f[n + 1], f, n + 1, Count)
          /\ h[n + 1] = Intact(v, [f EXCEPT ![n + 1] = w])
    BY <2>2, <2>3, Backwarded
  <2>5. PICK u : u = [f EXCEPT ![n + 1] = w]
    OBVIOUS
  <2>6. AllOfLast(u, g, n + 1)
    BY <1>2, <2>1, <2>2, <2>4, <2>5, AllOfLastStep
  <2>7. u \in Scalars
    BY <2>2, <2>5 DEF Scalars
  <2>8. \A j \in Instances : j > n + 1 => u[j] = g[j]
    BY <2>1, <2>2, <2>5 DEF Scalars, Instances
  <2>9. h[n + 1] = Intact(v, u) /\ n + 1 \in 0..Count
    BY <2>2, <2>4, <2>5
  <2> QED BY <2>6, <2>7, <2>8, <2>9
<1>6. Count \in S
  <2> HIDE DEF S
  <2> QED BY <1>3, <1>4, <1>5, Upward
<1> QED BY <1>1, <1>2, <1>6

-----------------------------------------------------------------------------
\* The value of a signal.

\* Current, of a state in which turn, final and bus are t, f and b.
CurrentOf(t, f, b, c, x) ==
  LET Stepped == {i \in Instances : i < t /\ x \in SignalsOf[i][c]}
  IN IF Stepped = {} THEN b[c][x]
     ELSE f[CHOOSE i \in Stepped : \A j \in Stepped : j <= i][c][x]

LEMMA CurrentIs == \A c, x : Current(c, x) = CurrentOf(turn, final, bus, c, x)
  BY DEF Current, CurrentOf

LEMMA CurrentIsThen == \A c, x : Current(c, x)' = CurrentOf(turn', final', bus', c, x)
  BY DEF Current, CurrentOf

LEMMA CurrentOfBus ==
  ASSUME NEW t, NEW f, NEW b, NEW c, NEW x,
         \A q \in Instances : q < t => x \notin SignalsOf[q][c]
  PROVE  CurrentOf(t, f, b, c, x) = b[c][x]
  BY DEF CurrentOf

\* Model l is the last one before t that has signal x.
LastBefore(l, t, c, x) ==
  /\ l < t /\ x \in SignalsOf[l][c]
  /\ \A q \in Instances : l < q /\ q < t => x \notin SignalsOf[q][c]

LEMMA CurrentOfLast ==
  ASSUME NEW t \in Nat, NEW l \in Instances, NEW c, NEW x, LastBefore(l, t, c, x)
  PROVE  \A f, b : CurrentOf(t, f, b, c, x) = f[l][c][x]
<1> TAKE f, b
<1> DEFINE Stepped == {i \in Instances : i < t /\ x \in SignalsOf[i][c]}
           last == CHOOSE i \in Stepped : \A j \in Stepped : j <= i
<1>0. \A q \in Instances : q \in Int
  BY DEF Instances
<1>1. l \in Stepped /\ \A j \in Stepped : j <= l
  BY <1>0 DEF LastBefore
<1>2. last \in Stepped /\ \A j \in Stepped : j <= last
  <2> HIDE DEF Stepped
  <2> QED BY <1>1
<1>3. last = l
  <2>1. last \in Int /\ l \in Int /\ l <= last /\ last <= l
    <3> HIDE DEF last
    <3> QED BY <1>0, <1>1, <1>2
  <2> HIDE DEF last
  <2> QED BY <2>1
<1>4. CurrentOf(t, f, b, c, x) = f[last][c][x]
  BY <1>1 DEF CurrentOf
<1> HIDE DEF last
<1> QED BY <1>3, <1>4

\* The last model before t that has a signal, if there is one.
LEMMA LastStepped ==
  ASSUME NEW t \in Nat, NEW c, NEW x
  PROVE  \/ \A q \in Instances : q < t => x \notin SignalsOf[q][c]
         \/ \E l \in Instances : LastBefore(l, t, c, x)
<1> DEFINE S == {l \in Instances : l < t /\ x \in SignalsOf[l][c]}
<1>1. S \subseteq 1..Count /\ Count \in Nat
  BY SequentialAssumption DEF Instances
<1>2. CASE S # {}
  <2>1. PICK l \in S : \A m \in S : m <= l
    BY <1>1, <1>2, Greatest
  <2>2. ASSUME NEW q \in Instances, l < q, q < t PROVE x \notin SignalsOf[q][c]
    <3>1. q \in Int /\ l \in Int /\ ~(q <= l)
      BY <1>1, <2>1, <2>2 DEF Instances
    <3> QED BY <2>1, <2>2, <3>1
  <2> QED BY <2>1, <2>2 DEF LastBefore
<1>3. CASE S = {}
  BY <1>3
<1> QED BY <1>2, <1>3

LEMMA CurrentOfType ==
  ASSUME NEW t \in Nat, NEW f \in Scalars, NEW b \in ScalarsOfModel
  PROVE  [c \in Channels |-> [x \in Signals |-> CurrentOf(t, f, b, c, x)]] \in ScalarsOfModel
<1> SUFFICES ASSUME NEW c \in Channels, NEW x \in Signals
             PROVE  CurrentOf(t, f, b, c, x) \in Values
  BY DEF ScalarsOfModel
<1>1. b[c][x] \in Values
  BY DEF ScalarsOfModel
<1>2. \A l \in Instances : f[l][c][x] \in Values
  BY DEF Scalars, ScalarsOfModel
<1>3. CASE \A q \in Instances : q < t => x \notin SignalsOf[q][c]
  BY <1>1, <1>3, CurrentOfBus
<1>4. ASSUME NEW l \in Instances, LastBefore(l, t, c, x)
      PROVE  CurrentOf(t, f, b, c, x) \in Values
  <2>1. CurrentOf(t, f, b, c, x) = f[l][c][x]
    BY <1>4, CurrentOfLast
  <2> QED BY <1>2, <2>1
<1> QED BY <1>3, <1>4, LastStepped

-----------------------------------------------------------------------------
\* The invariant.

\* The first model that has a channel gets its values from the bus only.
FirstHasBus ==
  \A i \in Instances : \A c \in Channels :
    (\A j \in Instances : j < i => ~HasChannel(j, c)) =>
      \A x \in SignalsOf[i][c] : val[i][c][x] = bus[c][x]

\* The values of a model that was not stepped in this cycle are those of the bus.
Unstepped ==
  \A i \in Instances : turn <= i =>
    \A c \in Channels : \A x \in SignalsOf[i][c] : final[i][c][x] = bus[c][x]

Types ==
  /\ turn \in 1..Count + 2
  /\ val \in Scalars /\ final \in Scalars /\ bus \in ScalarsOfModel
  /\ names = SignalsOf /\ valid = AllValid

SequentialInv ==
  /\ Types /\ FirstHasBus /\ Unstepped
  /\ turn = Count + 2 => AllOfLast(final, final, Count)

LEMMA InitSequential == Init => SequentialInv
<1> SUFFICES ASSUME Init PROVE SequentialInv
  OBVIOUS
<1>1. /\ turn = 1 /\ names = SignalsOf /\ valid = AllValid /\ final = val
      /\ val = [i \in Instances |-> [c \in Channels |-> [x \in Signals |-> 0]]]
      /\ bus = [c \in Channels |-> [x \in Signals |-> 0]]
  BY DEF Init, AllValid
<1>2. Types
  BY <1>1, SequentialAssumption DEF Types, Scalars, ScalarsOfModel
<1>3. ASSUME NEW i \in Instances, NEW c \in Channels, NEW x \in SignalsOf[i][c]
      PROVE  val[i][c][x] = bus[c][x]
  <2>1. x \in Signals
    BY SignalsKnown
  <2> QED BY <1>1, <2>1
<1>4. turn # Count + 2
  BY <1>1, SequentialAssumption
<1> QED BY <1>1, <1>2, <1>3, <1>4 DEF SequentialInv, FirstHasBus, Unstepped

LEMMA AdapterIntact ==
  ASSUME Types
  PROVE  Adapter = Intact(val, final)
  BY DEF Types, Adapter, Intact, Rec

\* What a turn of the loop does.
Stepped(i, w, written) ==
  /\ turn = i /\ turn' = i + 1
  /\ LastOf(w, val[i], final, i, i - 1)
  /\ val' = [val EXCEPT ![i] = w]
  /\ final' = [final EXCEPT ![i] = written]
  /\ names' = SignalsOf /\ valid' = AllValid /\ bus' = bus
  /\ seen' = [seen EXCEPT ![i] = [c \in Channels |-> [x \in SignalsOf[i][c] |-> w[c][x]]]]

LEMMA StepFacts ==
  ASSUME SharedAlike, Types, NEW i \in Instances, StepInstance(i)
  PROVE  \E w \in ScalarsOfModel, written \in ScalarsOfModel : Stepped(i, w, written)
<1>1. PICK w \in ScalarsOfModel : /\ LastOf(w, val[i], final, i, i - 1)
                                  /\ MergeForward(i) = Intact([val EXCEPT ![i] = w], final)
  BY AdapterIntact, Forwarded DEF Types
<1>2. PICK a : a = MergeForward(i)
  OBVIOUS
<1>3. PICK written \in ScalarsOfModel : SetAdapter([a EXCEPT !.final[i] = written])
  BY <1>2 DEF StepInstance, ScalarsOfModel
<1>4. PICK v, f : v = [val EXCEPT ![i] = w] /\ f = final
  OBVIOUS
<1>5. a = Rec(v, f, SignalsOf, AllValid) /\ a.final = f /\ a.val = v
  BY <1>1, <1>2, <1>4, RecFields DEF Intact
<1>6. PICK g : g = [f EXCEPT ![i] = written]
  OBVIOUS
<1>7. [a EXCEPT !.final[i] = written] = [a EXCEPT !.final = g]
  BY <1>5, <1>6, RecPaths
<1>8. PICK b : b = [a EXCEPT !.final[i] = written]
  OBVIOUS
<1>9. val' = v /\ final' = g /\ names' = SignalsOf /\ valid' = AllValid
  <2>1. PICK n, o : n = SignalsOf /\ o = AllValid
    OBVIOUS
  <2>2. a = Rec(v, f, n, o)
    BY <1>5, <2>1
  <2>3. [Rec(v, f, n, o) EXCEPT !.final = g] = Rec(v, g, n, o)
    BY SMT DEF Rec
  <2>4. b = Rec(v, g, n, o)
    BY <1>7, <1>8, <2>2, <2>3
  <2>5. b.val = v /\ b.final = g /\ b.names = n /\ b.valid = o
    BY <2>4, RecFields
  <2>6. SetAdapter(b)
    BY <1>3, <1>8
  <2> QED BY <2>1, <2>5, <2>6 DEF SetAdapter
<1>10. seen' = [seen EXCEPT ![i] = [c \in Channels |-> [x \in SignalsOf[i][c] |-> w[c][x]]]]
  <2>1. seen' = [seen EXCEPT ![i] = [c \in Channels |-> [x \in SignalsOf[i][c] |-> a.val[i][c][x]]]]
    BY <1>2 DEF StepInstance
  <2>2. a.val[i] = w
    BY <1>4, <1>5 DEF Types, Scalars
  <2> QED BY <2>1, <2>2
<1>11. turn = i /\ turn' = i + 1 /\ bus' = bus
  BY DEF StepInstance
<1> QED BY <1>1, <1>4, <1>6, <1>9, <1>10, <1>11 DEF Stepped

\* What a model is stepped with is the current value.
LEMMA LastIsCurrent ==
  ASSUME SharedAlike, NEW i \in Instances, NEW w, NEW v, NEW f, NEW b,
         LastOf(w, v, f, i, i - 1), NEW c \in Channels, NEW x \in SignalsOf[i][c],
         (\A j \in Instances : j < i => ~HasChannel(j, c)) => v[c][x] = b[c][x]
  PROVE  w[c][x] = CurrentOf(i, f, b, c, x)
<1>0. i \in Nat /\ HasChannel(i, c)
  BY DEF Instances, HasChannel
<1>1. \A q \in Instances : x \in SignalsOf[q][c] <=> HasChannel(q, c)
  BY <1>0 DEF SharedAlike, HasChannel
<1>3. CASE \A q \in Instances : q < i => x \notin SignalsOf[q][c]
  <2>1. \A q \in Instances : q < i => ~HasChannel(q, c)
    BY <1>1, <1>3
  <2>2. v[c][x] = b[c][x]
    BY <2>1
  <2>3. \A j \in 1..i - 1 : j \in Instances /\ j < i
    BY SequentialAssumption DEF Instances
  <2>4. w[c][x] = v[c][x]
    BY <2>1, <2>3 DEF LastOf
  <2>5. CurrentOf(i, f, b, c, x) = b[c][x]
    BY <1>3, CurrentOfBus
  <2> QED BY <2>2, <2>4, <2>5
<1>4. ASSUME NEW l \in Instances, LastBefore(l, i, c, x)
      PROVE  w[c][x] = CurrentOf(i, f, b, c, x)
  <2>1. l < i /\ x \in SignalsOf[l][c]
    BY <1>4 DEF LastBefore
  <2>2. \A q \in Instances : l < q /\ q < i => x \notin SignalsOf[q][c]
    BY <1>4 DEF LastBefore
  <2>3. CurrentOf(i, f, b, c, x) = f[l][c][x]
    <3>1. i \in Nat /\ LastBefore(l, i, c, x)
      BY <1>0, <1>4
    <3>2. \A e, d : CurrentOf(i, e, d, c, x) = e[l][c][x]
      BY <3>1, CurrentOfLast
    <3> QED BY <3>2
  <2>4. l \in 1..i - 1 /\ l # i /\ HasChannel(l, c)
    BY <1>0, <1>1, <2>1 DEF Instances
  <2>5. ASSUME NEW q \in l + 1..i - 1 PROVE ~HasChannel(q, c)
    <3>1. q \in Instances /\ l < q /\ q < i
      BY <2>1, SequentialAssumption DEF Instances
    <3> QED BY <1>1, <2>2, <3>1
  <2>6. w[c][x] = f[l][c][x]
    BY <2>4, <2>5 DEF LastOf
  <2> QED BY <2>3, <2>6
<1> QED BY <1>0, <1>3, <1>4, LastStepped

LEMMA SeenIsCurrent ==
  ASSUME SharedAlike, FirstHasBus, NEW i \in Instances, NEW w, NEW written,
         Stepped(i, w, written), NEW c \in Channels, NEW x \in SignalsOf[i][c]
  PROVE  w[c][x] = Current(c, x)
<1>1. PICK v, f, b : v = val[i] /\ f = final /\ b = bus
  OBVIOUS
<1>2. turn = i /\ LastOf(w, v, f, i, i - 1)
  BY <1>1 DEF Stepped
<1>3. (\A j \in Instances : j < i => ~HasChannel(j, c)) => v[c][x] = b[c][x]
  BY <1>1 DEF FirstHasBus
<1>4. w[c][x] = CurrentOf(i, f, b, c, x)
  BY <1>2, <1>3, LastIsCurrent
<1> QED BY <1>1, <1>2, <1>4, CurrentIs

LEMMA StepKeepsInv ==
  ASSUME SharedAlike, SequentialInv, NEW i \in Instances, StepInstance(i)
  PROVE  SequentialInv'
<1>1. PICK w \in ScalarsOfModel, written \in ScalarsOfModel : Stepped(i, w, written)
  BY StepFacts DEF SequentialInv
<1>2. PICK v \in Scalars, f \in Scalars, b \in ScalarsOfModel :
        v = val /\ f = final /\ b = bus
  BY DEF SequentialInv, Types
<1>3. /\ turn = i /\ turn' = i + 1 /\ bus' = b
      /\ names' = SignalsOf /\ valid' = AllValid
      /\ val' = [v EXCEPT ![i] = w] /\ final' = [f EXCEPT ![i] = written]
      /\ LastOf(w, v[i], f, i, i - 1)
  BY <1>1, <1>2 DEF Stepped
<1>4. Count \in Nat /\ Instances = 1..Count
  BY SequentialAssumption DEF Instances
<1>5. val' \in Scalars /\ final' \in Scalars
  BY <1>3 DEF Scalars
<1>6. Types'
  BY <1>3, <1>4, <1>5 DEF Types
<1>7. ASSUME NEW j \in Instances, NEW c \in Channels, NEW x \in SignalsOf[j][c],
             \A k \in Instances : k < j => ~HasChannel(k, c)
      PROVE  val'[j][c][x] = b[c][x]
  <2>1. v[j][c][x] = b[c][x]
    BY <1>2, <1>7 DEF SequentialInv, FirstHasBus
  <2>2. CASE j # i
    BY <1>3, <2>1, <2>2 DEF Scalars
  <2>3. CASE j = i
    <3>1. \A k \in 1..i - 1 : k \in Instances /\ k < i
      BY <1>4
    <3>2. \A k \in 1..i - 1 : k = i \/ ~HasChannel(k, c)
      BY <1>7, <2>3, <3>1
    <3>3. w[c][x] = v[i][c][x]
      BY <1>3, <2>3, <3>2 DEF LastOf
    <3>4. val'[j] = w
      BY <1>3, <2>3 DEF Scalars
    <3> QED BY <2>1, <2>3, <3>3, <3>4
  <2> QED BY <2>2, <2>3
<1>8. FirstHasBus'
  BY <1>3, <1>7 DEF FirstHasBus
<1>9. Unstepped'
  <2> SUFFICES ASSUME NEW j \in Instances, turn' <= j, NEW c \in Channels, NEW x \in SignalsOf[j][c]
               PROVE  final'[j][c][x] = bus'[c][x]
    BY DEF Unstepped
  <2>1. i <= j /\ j # i
    BY <1>3, <1>4
  <2>2. f[j][c][x] = b[c][x]
    BY <1>2, <1>3, <2>1 DEF SequentialInv, Unstepped
  <2>3. final'[j] = f[j]
    BY <1>3, <2>1 DEF Scalars
  <2> QED BY <1>3, <2>2, <2>3
<1>10. turn' # Count + 2
  BY <1>3, <1>4
<1> QED BY <1>6, <1>8, <1>9, <1>10 DEF SequentialInv

\* What the merge backward does.
LEMMA MergeFacts ==
  ASSUME SharedAlike, Types, MergeAll
  PROVE  \E f \in Scalars :
           /\ AllOfLast(f, final, Count)
           /\ val' = val /\ final' = f /\ names' = SignalsOf /\ valid' = AllValid
<1>1. PICK f \in Scalars : Backwards = Intact(val, f) /\ AllOfLast(f, final, Count)
  BY AdapterIntact, BackwardsIsLast DEF Types
<1>2. PICK a, v : a = Backwards /\ v = val
  OBVIOUS
<1>3. SetAdapter(a)
  BY <1>2 DEF MergeAll
<1>4. a.val = v /\ a.final = f /\ a.names = SignalsOf /\ a.valid = AllValid
  BY <1>1, <1>2, RecFields DEF Intact
<1> QED BY <1>1, <1>2, <1>3, <1>4 DEF SetAdapter

\* All models that have a signal have the same value of it.
LEMMA AllOfLastAgree ==
  ASSUME SharedAlike, NEW f, NEW g, AllOfLast(f, g, Count)
  PROVE  AllOfLast(f, f, Count)
<1> SUFFICES ASSUME NEW i \in Instances, NEW c \in Channels, NEW x \in SignalsOf[i][c],
                    NEW l \in Instances, IsLast(l, c)
             PROVE  f[i][c][x] = f[l][c][x]
  BY DEF AllOfLast
<1>1. i <= Count /\ l <= Count
  BY SequentialAssumption DEF Instances
<1>2. x \in SignalsOf[l][c]
  BY DEF SharedAlike, IsLast, HasChannel
<1>3. f[i][c][x] = g[l][c][x] /\ f[l][c][x] = g[l][c][x]
  BY <1>1, <1>2 DEF AllOfLast
<1> QED BY <1>3

LEMMA MergeKeepsInv ==
  ASSUME SharedAlike, SequentialInv, MergeAll
  PROVE  SequentialInv'
<1>1. PICK f \in Scalars :
        /\ AllOfLast(f, final, Count)
        /\ val' = val /\ final' = f /\ names' = SignalsOf /\ valid' = AllValid
  BY MergeFacts DEF SequentialInv
<1>2. turn' = Count + 2 /\ bus' = bus /\ Count \in Nat
  BY SequentialAssumption DEF MergeAll
<1>3. Types'
  BY <1>1, <1>2 DEF SequentialInv, Types
<1>4. FirstHasBus'
  BY <1>1, <1>2 DEF SequentialInv, FirstHasBus
<1>5. Unstepped'
  BY <1>2 DEF Unstepped, Instances
<1>6. PICK g : g = final
  OBVIOUS
<1>7. AllOfLast(f, f, Count)
  BY <1>1, <1>6, AllOfLastAgree
<1>8. AllOfLast(final, final, Count)'
  BY <1>1, <1>7 DEF AllOfLast
<1> QED BY <1>3, <1>4, <1>5, <1>8 DEF SequentialInv

-----------------------------------------------------------------------------
\* The exchange with the bus.

LEMMA FirstExists ==
  ASSUME NEW c \in Channels, NEW i \in Instances, HasChannel(i, c)
  PROVE  \E p \in Instances : HasChannel(p, c) /\ \A q \in Instances : q < p => ~HasChannel(q, c)
<1> DEFINE S == {p \in Instances : HasChannel(p, c)}
<1>1. S \subseteq Nat /\ S # {}
  BY DEF Instances
<1>2. PICK p \in S : \A m \in S : p <= m
  BY <1>1, Least
<1>3. ASSUME NEW q \in Instances, q < p PROVE ~HasChannel(q, c)
  <2>1. q \in Int /\ p \in Int
    BY <1>1, <1>2 DEF Instances
  <2> QED BY <1>2, <1>3, <2>1
<1> QED BY <1>2, <1>3

\* The bus has the last value.
LEMMA BusTakesLast ==
  ASSUME SharedAlike, SequentialInv, Exchange,
         NEW i \in Instances, NEW c \in Channels, NEW x \in SignalsOf[i][c]
  PROVE  bus'[c][x] = final[i][c][x]
<1>1. PICK f, v, b : f = final /\ v = val /\ b = bus
  OBVIOUS
<1>2. x \in Signals /\ HasChannel(i, c) /\ turn = Count + 2
  BY SignalsKnown DEF HasChannel, Exchange
<1>3. AllOfLast(f, f, Count)
  BY <1>1, <1>2 DEF SequentialInv
<1>4. PICK l \in Instances : IsLast(l, c)
  BY <1>2, LastExists
<1>5. ASSUME NEW j \in Instances, x \in SignalsOf[j][c]
      PROVE  f[j][c][x] = f[l][c][x]
  <2>1. j <= Count
    BY SequentialAssumption DEF Instances
  <2> QED BY <1>3, <1>4, <1>5, <2>1 DEF AllOfLast
<1>6. CASE Senders(c, x) # {}
  <2>1. PICK j \in Senders(c, x) : bus'[c][x] = final[j][c][x]
    BY <1>2, <1>6 DEF Exchange
  <2>2. j \in Instances /\ x \in SignalsOf[j][c]
    BY DEF Senders
  <2> QED BY <1>1, <1>5, <2>1, <2>2
<1>7. CASE Senders(c, x) = {}
  <2>1. bus'[c][x] = b[c][x]
    BY <1>1, <1>2, <1>7 DEF Exchange
  <2>2. PICK p \in Instances : HasChannel(p, c) /\ \A q \in Instances : q < p => ~HasChannel(q, c)
    BY <1>2, FirstExists
  <2>3. x \in SignalsOf[p][c]
    BY <1>2, <2>2 DEF SharedAlike
  <2>4. v[p][c][x] = b[c][x]
    BY <1>1, <2>2, <2>3 DEF SequentialInv, FirstHasBus
  <2>5. v[p][c][x] = f[p][c][x]
    BY <1>1, <1>7, <2>3 DEF Senders
  <2> QED BY <1>1, <1>5, <2>1, <2>3, <2>4, <2>5
<1> QED BY <1>6, <1>7

LEMMA ExchangeKeepsInv ==
  ASSUME SharedAlike, SequentialInv, Exchange
  PROVE  SequentialInv'
<1>1. PICK f \in Scalars, v \in Scalars, b \in ScalarsOfModel, d \in ScalarsOfModel :
        f = final /\ v = val /\ b = bus /\ d = bus'
  BY DEF SequentialInv, Types, Exchange, ScalarsOfModel
<1> DEFINE Told(old) ==
             [i \in Instances |-> [c \in Channels |-> [x \in Signals |->
                IF x \in SignalsOf[i][c] /\ d[c][x] # b[c][x]
                THEN d[c][x] ELSE old[i][c][x]]]]
<1>2. val' = Told(v) /\ final' = Told(f)
  BY <1>1 DEF Exchange
<1>3. turn' = 1 /\ names' = SignalsOf /\ valid' = AllValid /\ Count \in Nat \ {0}
  BY SequentialAssumption DEF Exchange, SequentialInv, Types, AllValid
<1>4. ASSUME NEW old \in Scalars PROVE Told(old) \in Scalars
  <2>1. ASSUME NEW i \in Instances, NEW c \in Channels, NEW x \in Signals
        PROVE  d[c][x] \in Values /\ old[i][c][x] \in Values
    BY DEF Scalars, ScalarsOfModel
  <2> QED BY <2>1 DEF Scalars, ScalarsOfModel
<1>5. Types'
  <2>1. val' \in Scalars /\ final' \in Scalars /\ bus' \in ScalarsOfModel
    <3> HIDE DEF Told
    <3> QED BY <1>1, <1>2, <1>4
  <2>2. turn' \in 1..Count + 2
    BY <1>3
  <2> QED BY <1>3, <2>1, <2>2 DEF Types
<1>6. ASSUME NEW old, NEW i \in Instances, NEW c \in Channels, NEW x \in SignalsOf[i][c]
      PROVE  Told(old)[i][c][x] = IF d[c][x] # b[c][x] THEN d[c][x] ELSE old[i][c][x]
  BY SignalsKnown
<1> HIDE DEF Told
<1>7. Unstepped'
  <2> SUFFICES ASSUME NEW i \in Instances, NEW c \in Channels, NEW x \in SignalsOf[i][c]
               PROVE  final'[i][c][x] = bus'[c][x]
    BY DEF Unstepped
  <2>1. d[c][x] = f[i][c][x]
    BY <1>1, BusTakesLast
  <2>2. Told(f)[i][c][x] = d[c][x]
    BY <1>6, <2>1
  <2> QED BY <1>1, <1>2, <2>2
<1>8. FirstHasBus'
  <2> SUFFICES ASSUME NEW i \in Instances, NEW c \in Channels, NEW x \in SignalsOf[i][c],
                      \A j \in Instances : j < i => ~HasChannel(j, c)
               PROVE  val'[i][c][x] = bus'[c][x]
    BY DEF FirstHasBus
  <2>1. v[i][c][x] = b[c][x]
    BY <1>1 DEF SequentialInv, FirstHasBus
  <2>2. Told(v)[i][c][x] = d[c][x]
    BY <1>6, <2>1
  <2> QED BY <1>1, <1>2, <2>2
<1>9. turn' # Count + 2
  BY <1>3
<1> QED BY <1>5, <1>7, <1>8, <1>9 DEF SequentialInv

LEMMA NextKeepsInv ==
  ASSUME SharedAlike, SequentialInv, [Next]_vars
  PROVE  SequentialInv'
<1>1. CASE MergeAll
  BY <1>1, MergeKeepsInv
<1>2. CASE Exchange
  BY <1>2, ExchangeKeepsInv
<1>3. CASE \E i \in Instances : StepInstance(i)
  BY <1>3, StepKeepsInv
<1>4. CASE UNCHANGED vars
  BY <1>4 DEF vars, adapterVars, SequentialInv, Types, FirstHasBus, Unstepped, AllOfLast
<1> QED BY <1>1, <1>2, <1>3, <1>4 DEF Next

\* The inductive invariant of sim_step_models, whatever the models write.
THEOREM SequentialInvariant == ASSUME SharedAlike PROVE Spec => []SequentialInv
<1>1. SequentialInv /\ [Next]_vars => SequentialInv'
  BY NextKeepsInv
<1> QED BY <1>1, InitSequential, PTL DEF Spec

\* After the exchange of controller_step every model starts from the values of
\* the bus, although the merge forward changes val, on which it depends what is
\* sent, when models that share a channel have the same signals of it.
THEOREM BusGetsLastValue == ASSUME SharedAlike PROVE Spec => []BusHasLastValue
<1>1. SequentialInv => BusHasLastValue
  BY DEF SequentialInv, Unstepped, BusHasLastValue, Instances
<1> QED BY <1>1, SequentialInvariant, PTL

-----------------------------------------------------------------------------
\* The last update, and the refinement.

LEMMA MergeIsLastUpdate ==
  ASSUME SharedAlike, SequentialInv, MergeAll,
         NEW i \in Instances, NEW c \in Channels, NEW x \in SignalsOf[i][c]
  PROVE  final'[i][c][x] = Current(c, x)
<1>1. PICK f, g, b : AllOfLast(f, g, Count) /\ final' = f /\ g = final /\ b = bus
  BY MergeFacts DEF SequentialInv
<1>2. PICK l \in Instances : IsLast(l, c)
  BY LastExists DEF HasChannel
<1>3. turn = Count + 1 /\ Count \in Nat /\ i <= Count /\ l < Count + 1
  BY SequentialAssumption DEF MergeAll, Instances
<1>4. f[i][c][x] = g[l][c][x]
  BY <1>1, <1>2, <1>3 DEF AllOfLast
<1>5. x \in SignalsOf[l][c]
  BY <1>2 DEF SharedAlike, IsLast, HasChannel
<1>6. LastBefore(l, Count + 1, c, x)
  BY <1>2, <1>3, <1>5 DEF LastBefore, IsLast, HasChannel
<1>7. CurrentOf(Count + 1, g, b, c, x) = g[l][c][x]
  BY <1>3, <1>6, CurrentOfLast
<1> QED BY <1>1, <1>3, <1>4, <1>7, CurrentIs

\* _merge_scalar_signals_backward does what its comment says: the last updated
\* value is the final value, in all models.
THEOREM LastUpdateStays == ASSUME SharedAlike PROVE Spec => LastUpdateIsFinal
<1> DEFINE P == turn = Count + 1 =>
                  \A i \in Instances : \A c \in Channels : \A x \in SignalsOf[i][c] :
                    final'[i][c][x] = Current(c, x)
<1>1. ASSUME SequentialInv, Next PROVE P
  <2>1. CASE MergeAll
    BY <1>1, <2>1, MergeIsLastUpdate
  <2>2. CASE Exchange \/ \E i \in Instances : StepInstance(i)
    <3>1. turn # Count + 1
      BY <2>2, SequentialAssumption DEF Exchange, StepInstance, Instances
    <3> QED BY <3>1
  <2> QED BY <1>1, <2>1, <2>2 DEF Next
<1>2. SequentialInv /\ [Next]_vars => [P]_vars
  BY <1>1
<1> QED BY <1>2, SequentialInvariant, PTL DEF Spec, LastUpdateIsFinal

\* The values of the signals, which StepInstance of SequentialSteps changes.
CurrentBar == [c \in Channels |-> [x \in Signals |-> Current(c, x)]]
TurnBar == IF turn > Count THEN Count + 1 ELSE turn

LEMMA BarIs ==
  ASSUME NEW c \in Channels, NEW x \in Signals
  PROVE  /\ CurrentBar[c][x] = CurrentOf(turn, final, bus, c, x)
         /\ CurrentBar'[c][x] = CurrentOf(turn', final', bus', c, x)
  BY CurrentIs, CurrentIsThen DEF CurrentBar

LEMMA InitSteps == Init => Steps!StepsInit
<1> SUFFICES ASSUME Init PROVE Steps!StepsInit
  OBVIOUS
<1>1. turn = 1 /\ TurnBar = 1
  BY SequentialAssumption DEF Init, TurnBar
<1>2. ASSUME NEW c \in Channels, NEW x \in Signals
      PROVE  Current(c, x) = 0
  <2>1. PICK f, b : f = final /\ b = bus
    OBVIOUS
  <2>2. CurrentOf(1, f, b, c, x) = b[c][x]
    BY CurrentOfBus DEF Instances
  <2>3. b[c][x] = 0
    BY <2>1 DEF Init
  <2> QED BY <1>1, <2>1, <2>2, <2>3, CurrentIs
<1>3. CurrentBar = [c \in Channels |-> [x \in Signals |-> 0]]
  BY <1>2 DEF CurrentBar
<1>4. seen = [i \in Instances |-> [c \in Channels |-> [x \in SignalsOf[i][c] |-> 0]]]
  BY DEF Init
<1> QED BY <1>1, <1>3, <1>4 DEF Steps!StepsInit, Steps!Instances, Instances, CurrentBar, TurnBar

\* A step of another model than those that have a signal does not change it.
LEMMA StepLeavesOthers ==
  ASSUME NEW i \in Instances, NEW f \in Scalars, NEW written, NEW b, NEW c, NEW x,
         x \notin SignalsOf[i][c]
  PROVE  CurrentOf(i + 1, [f EXCEPT ![i] = written], b, c, x) = CurrentOf(i, f, b, c, x)
<1>0. i \in Nat /\ i + 1 \in Nat /\ \A q \in Instances : q \in Nat
  BY DEF Instances
<1>1. PICK g : g = [f EXCEPT ![i] = written]
  OBVIOUS
<1>2. CASE \A q \in Instances : q < i => x \notin SignalsOf[q][c]
  <2>1. ASSUME NEW q \in Instances, q < i + 1 PROVE x \notin SignalsOf[q][c]
    <3>1. q < i \/ q = i
      BY <1>0, <2>1
    <3> QED BY <1>2, <3>1
  <2>2. CurrentOf(i + 1, g, b, c, x) = b[c][x]
    BY <1>0, <2>1, CurrentOfBus
  <2>3. CurrentOf(i, f, b, c, x) = b[c][x]
    BY <1>0, <1>2, CurrentOfBus
  <2> QED BY <1>1, <2>2, <2>3
<1>3. ASSUME NEW l \in Instances, LastBefore(l, i, c, x)
      PROVE  CurrentOf(i + 1, g, b, c, x) = CurrentOf(i, f, b, c, x)
  <2>1. l < i /\ l < i + 1 /\ l # i /\ x \in SignalsOf[l][c]
    BY <1>0, <1>3 DEF LastBefore
  <2>2. ASSUME NEW q \in Instances, l < q, q < i + 1 PROVE x \notin SignalsOf[q][c]
    <3>1. q < i \/ q = i
      BY <1>0, <2>2
    <3> QED BY <1>3, <2>2, <3>1 DEF LastBefore
  <2>3. LastBefore(l, i + 1, c, x)
    BY <2>1, <2>2 DEF LastBefore
  <2>4. CurrentOf(i + 1, g, b, c, x) = g[l][c][x]
    BY <1>0, <2>3, CurrentOfLast
  <2>5. CurrentOf(i, f, b, c, x) = f[l][c][x]
    BY <1>0, <1>3, CurrentOfLast
  <2>6. g[l] = f[l]
    BY <1>1, <2>1 DEF Scalars
  <2> QED BY <2>4, <2>5, <2>6
<1> QED BY <1>0, <1>1, <1>2, <1>3, LastStepped

LEMMA StepImplements ==
  ASSUME SharedAlike, SequentialInv, NEW i \in Instances, StepInstance(i)
  PROVE  Steps!StepInstance(i)
<1>1. PICK w \in ScalarsOfModel, written \in ScalarsOfModel : Stepped(i, w, written)
  BY StepFacts DEF SequentialInv
<1>2. PICK f, b, g : /\ f \in Scalars /\ b \in ScalarsOfModel
                      /\ f = final /\ b = bus /\ g = final'
  BY DEF SequentialInv, Types
<1>3. /\ turn = i /\ turn' = i + 1 /\ bus' = b /\ g = [f EXCEPT ![i] = written]
      /\ seen' = [seen EXCEPT ![i] = [c \in Channels |-> [x \in SignalsOf[i][c] |-> w[c][x]]]]
  BY <1>1, <1>2 DEF Stepped
<1>4. TurnBar = i /\ TurnBar' = i + 1
  <2>1. i \in 1..Count /\ Count \in Nat
    BY SequentialAssumption DEF Instances
  <2> QED BY <1>3, <2>1 DEF TurnBar
<1>5. ASSUME NEW c \in Channels, NEW x \in SignalsOf[i][c]
      PROVE  w[c][x] = CurrentBar[c][x]
  <2>1. w[c][x] = Current(c, x)
    BY <1>1, SeenIsCurrent DEF SequentialInv
  <2> QED BY <2>1, SignalsKnown DEF CurrentBar
<1>6. seen' = [seen EXCEPT ![i] =
                 [c \in Channels |-> [x \in SignalsOf[i][c] |-> CurrentBar[c][x]]]]
  BY <1>3, <1>5
<1>7. ASSUME NEW c \in Channels, NEW x \in Signals \ SignalsOf[i][c]
      PROVE  CurrentBar'[c][x] = CurrentBar[c][x]
  <2>1. x \in Signals /\ x \notin SignalsOf[i][c] /\ f \in Scalars
    BY <1>2
  <2>2. CurrentOf(i + 1, [f EXCEPT ![i] = written], b, c, x) = CurrentOf(i, f, b, c, x)
    BY <2>1, StepLeavesOthers
  <2>3. /\ CurrentBar[c][x] = CurrentOf(i, f, b, c, x)
        /\ CurrentBar'[c][x] = CurrentOf(i + 1, g, b, c, x)
    BY <1>2, <1>3, <2>1, BarIs
  <2>4. g = [f EXCEPT ![i] = written]
    BY <1>3
  <2> QED BY <2>2, <2>3, <2>4
<1>8. CurrentBar' \in [Channels -> [Signals -> Values]]
  <2>1. g \in Scalars /\ i + 1 \in Nat /\ b \in ScalarsOfModel
    <3>1. g \in Scalars
      BY <1>2, <1>3 DEF Scalars
    <3>2. i + 1 \in Nat
      BY DEF Instances
    <3> QED BY <1>2, <3>1, <3>2
  <2>2. [c \in Channels |-> [x \in Signals |-> CurrentOf(i + 1, g, b, c, x)]] \in ScalarsOfModel
    BY <2>1, CurrentOfType
  <2>3. CurrentBar' = [c \in Channels |-> [x \in Signals |-> CurrentOf(i + 1, g, b, c, x)]]
    BY <1>2, <1>3, CurrentIsThen DEF CurrentBar
  <2> QED BY <2>2, <2>3 DEF ScalarsOfModel
<1> QED BY <1>4, <1>6, <1>7, <1>8 DEF Steps!StepInstance, CurrentBar, TurnBar

\* The bus, or the last model, has the current value after the steps.
LEMMA BusAtEnd ==
  ASSUME NEW t \in Nat, NEW c \in Channels, NEW x \in Signals,
         \A q \in Instances : x \notin SignalsOf[q][c]
  PROVE  \A f, b : CurrentOf(t, f, b, c, x) = b[c][x]
  BY CurrentOfBus

LEMMA LastAtEnd ==
  ASSUME NEW t \in Nat, t > Count, NEW c \in Channels, NEW x \in Signals,
         NEW l \in Instances, IsLast(l, c), x \in SignalsOf[l][c]
  PROVE  \A f, b : CurrentOf(t, f, b, c, x) = f[l][c][x]
<1>0. \A q \in Instances : q \in Nat /\ q < t
  BY SequentialAssumption DEF Instances
<1>1. \A q \in Instances : l < q => x \notin SignalsOf[q][c]
  BY <1>0 DEF IsLast, HasChannel
<1>2. LastBefore(l, t, c, x)
  BY <1>0, <1>1 DEF LastBefore
<1> QED BY <1>2, CurrentOfLast

\* A signal that no model has, or the last model that has it.
LEMMA NoneOrLast ==
  ASSUME SharedAlike, NEW c \in Channels, NEW x \in Signals
  PROVE  \/ \A q \in Instances : x \notin SignalsOf[q][c]
         \/ \E l \in Instances : IsLast(l, c) /\ x \in SignalsOf[l][c]
<1>1. ASSUME NEW q \in Instances, x \in SignalsOf[q][c]
      PROVE  \E l \in Instances : IsLast(l, c) /\ x \in SignalsOf[l][c]
  <2>1. PICK l \in Instances : IsLast(l, c)
    BY <1>1, LastExists DEF HasChannel
  <2> QED BY <1>1, <2>1 DEF IsLast, SharedAlike, HasChannel
<1> QED BY <1>1

LEMMA MergeImplements ==
  ASSUME SharedAlike, SequentialInv, MergeAll
  PROVE  UNCHANGED <<TurnBar, CurrentBar, seen>>
<1>1. PICK f, g, b : AllOfLast(f, g, Count) /\ final' = f /\ g = final /\ b = bus
  BY MergeFacts DEF SequentialInv
<1>2. turn = Count + 1 /\ turn' = Count + 2 /\ bus' = b /\ seen' = seen /\ Count \in Nat
  BY <1>1, SequentialAssumption DEF MergeAll
<1>3. TurnBar' = TurnBar
  BY <1>2 DEF TurnBar
<1>4. ASSUME NEW c \in Channels, NEW x \in Signals
      PROVE  Current(c, x)' = Current(c, x)
  <2>0. PICK t \in Nat, u \in Nat : t = Count + 1 /\ u = Count + 2 /\ t > Count /\ u > Count
    BY <1>2
  <2>1. CASE \A q \in Instances : x \notin SignalsOf[q][c]
    <3>1. CurrentOf(t, g, b, c, x) = b[c][x] /\ CurrentOf(u, f, b, c, x) = b[c][x]
      BY <2>0, <2>1, BusAtEnd
    <3> QED BY <1>1, <1>2, <2>0, <3>1, CurrentIs, CurrentIsThen
  <2>2. ASSUME NEW l \in Instances, IsLast(l, c), x \in SignalsOf[l][c]
        PROVE  Current(c, x)' = Current(c, x)
    <3>1. CurrentOf(t, g, b, c, x) = g[l][c][x] /\ CurrentOf(u, f, b, c, x) = f[l][c][x]
      BY <2>0, <2>2, LastAtEnd
    <3>2. l <= Count
      BY <1>2 DEF Instances
    <3>3. f[l][c][x] = g[l][c][x]
      BY <1>1, <2>2, <3>2 DEF AllOfLast
    <3> QED BY <1>1, <1>2, <2>0, <3>1, <3>3, CurrentIs, CurrentIsThen
  <2> QED BY <2>1, <2>2, NoneOrLast
<1>5. CurrentBar' = CurrentBar
  BY <1>4 DEF CurrentBar
<1> QED BY <1>2, <1>3, <1>5

LEMMA ExchangeImplements ==
  ASSUME SharedAlike, SequentialInv, Exchange
  PROVE  Steps!BusCycle
<1>1. PICK f, g, b, d : f = final /\ g = final' /\ b = bus /\ d = bus'
  OBVIOUS
<1>2. turn = Count + 2 /\ turn' = 1 /\ seen' = seen /\ Count \in Nat \ {0}
  BY SequentialAssumption DEF Exchange
<1>3. TurnBar = Count + 1 /\ TurnBar' = 1
  BY <1>2 DEF TurnBar
<1>4. ASSUME NEW c \in Channels, NEW x \in Signals
      PROVE  Current(c, x)' = Current(c, x)
  <2>0. PICK t \in Nat : t = Count + 2 /\ t > Count
    BY <1>2
  <2>1. CurrentOf(1, g, d, c, x) = d[c][x]
    BY CurrentOfBus DEF Instances
  <2>2. CASE \A q \in Instances : x \notin SignalsOf[q][c]
    <3>1. CurrentOf(t, f, b, c, x) = b[c][x]
      BY <2>0, <2>2, BusAtEnd
    <3>2. Senders(c, x) = {}
      BY <2>2 DEF Senders
    <3>3. d[c][x] = b[c][x]
      BY <1>1, <3>2 DEF Exchange
    <3> QED BY <1>1, <1>2, <2>0, <2>1, <3>1, <3>3, CurrentIs, CurrentIsThen
  <2>3. ASSUME NEW l \in Instances, IsLast(l, c), x \in SignalsOf[l][c]
        PROVE  Current(c, x)' = Current(c, x)
    <3>1. CurrentOf(t, f, b, c, x) = f[l][c][x]
      BY <2>0, <2>3, LastAtEnd
    <3>2. d[c][x] = f[l][c][x]
      BY <1>1, <2>3, BusTakesLast
    <3> QED BY <1>1, <1>2, <2>0, <2>1, <3>1, <3>2, CurrentIs, CurrentIsThen
  <2> QED BY <2>2, <2>3, NoneOrLast
<1>5. CurrentBar' = CurrentBar
  BY <1>4 DEF CurrentBar
<1> QED BY <1>2, <1>3, <1>5 DEF Steps!BusCycle, CurrentBar, TurnBar

\* sim_step_models with its merges, and the exchange, implement sequential
\* steps on one value per signal: a model is stepped on what the models before
\* it have left, the exchange leaves the last values.
THEOREM StepsAreSequential == ASSUME SharedAlike PROVE Spec => ImplementsSequentialSteps
<1>1. ASSUME SequentialInv, [Next]_vars
      PROVE  [Steps!StepsNext]_(Steps!stepVars)
  <2>1. CASE MergeAll
    BY <1>1, <2>1, MergeImplements DEF Steps!stepVars, CurrentBar, TurnBar
  <2>2. CASE Exchange
    BY <1>1, <2>2, ExchangeImplements DEF Steps!StepsNext
  <2>3. ASSUME NEW i \in Instances, StepInstance(i)
        PROVE  [Steps!StepsNext]_(Steps!stepVars)
    <3>1. Steps!StepInstance(i)
      BY <1>1, <2>3, StepImplements
    <3> QED BY <3>1 DEF Steps!StepsNext, Steps!Instances, Instances
  <2>4. CASE UNCHANGED vars
    BY <2>4 DEF vars, adapterVars, Steps!stepVars, Current
  <2> QED BY <1>1, <2>1, <2>2, <2>3, <2>4 DEF Next
<1>2. Init => Steps!StepsInit
  BY InitSteps
<1> QED BY <1>1, <1>2, SequentialInvariant, PTL DEF Spec, ImplementsSequentialSteps, Steps!StepsSpec
=============================================================================
