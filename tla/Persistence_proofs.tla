------------------------- MODULE Persistence_proofs -------------------------
(***************************************************************************)
(* Proofs for any capacity of the channel, any number of turns, forks,     *)
(* resumes and faults, and any number of lives of the process: the types;  *)
(* a turn that was saved stays saved; a clean shutdown loses nothing; the  *)
(* index lags the rollouts; a rollout tells the conversation in order; a   *)
(* fork is complete.                                                       *)
(***************************************************************************)
EXTENDS Persistence, SequenceTheorems, WellFoundedInduction, TLAPS

-----------------------------------------------------------------------------
(* Choosing elements of a sequence                                          *)

(* A set of numbers that is not empty has a least one. *)
LEMMA LeastNumber ==
    ASSUME NEW T \in SUBSET Nat, T # {}
    PROVE  \E x \in T : \A y \in T : x <= y
<1> DEFINE R == {ss \in Nat \X Nat : ss[1] < ss[2]}
<1>1. IsWellFoundedOn(R, Nat)
  BY NatLessThanWellFounded, Zenon DEF OpToRel
<1>2. \A x, y \in Nat : y < x => <<y, x>> \in R
  OBVIOUS
<1> HIDE DEF R
<1>3. PICK x \in T : \A y \in T : ~(<<y, x>> \in R)
  BY <1>1, WFMin, Zenon
<1>4. \A y \in T : ~(y < x)
  BY <1>2, <1>3
<1>5. \A y \in T : x <= y
  BY <1>4
<1> QED
  BY <1>5

(* The function that starts at v0 and takes the steps, from 1 to n. *)
Recurs(g, V, n, v0, step) ==
    /\ g \in [0 .. n -> V]
    /\ g[0] = v0
    /\ \A i \in 1 .. n : g[i] = step[i][g[i - 1]]

(* A function can be defined by recursion on the numbers up to n. *)
LEMMA Recursion ==
    ASSUME NEW V, NEW n, NEW v0, NEW step,
           n \in Nat, v0 \in V, step \in [1 .. n -> [V -> V]]
    PROVE  \E g : Recurs(g, V, n, v0, step)
<1> DEFINE Good(m, g) == /\ g \in [0 .. m -> V]
                         /\ g[0] = v0
                         /\ \A i \in 1 .. m : g[i] = step[i][g[i - 1]]
           T == {m \in 0 .. n : ~ \E g : Good(m, g)}
<1>1. Good(0, [i \in 0 .. 0 |-> v0])
  OBVIOUS
<1>2. ASSUME NEW m \in 1 .. n, NEW g, Good(m - 1, g)
      PROVE  \E h : Good(m, h)
  <2> DEFINE h == [i \in 0 .. m |-> IF i = m THEN step[m][g[m - 1]] ELSE g[i]]
  <2>1. g[m - 1] \in V /\ \A i \in 0 .. (m - 1) : g[i] \in V
    BY <1>2
  <2>2. h \in [0 .. m -> V]
    BY <2>1
  <2>3. \A i \in 1 .. m : h[i] = step[i][h[i - 1]]
    <3> SUFFICES ASSUME NEW i \in 1 .. m PROVE h[i] = step[i][h[i - 1]]
      OBVIOUS
    <3>1. h[i - 1] = g[i - 1]
      OBVIOUS
    <3>2. CASE i = m
      BY <3>1, <3>2
    <3>3. CASE i # m
      <4>1. i \in 1 .. (m - 1) /\ h[i] = g[i]
        BY <3>3
      <4> QED
        BY <1>2, <3>1, <4>1
    <3> QED
      BY <3>2, <3>3
  <2>4. h[0] = v0
    BY <1>2
  <2>5. Good(m, h)
    BY <2>2, <2>3, <2>4
  <2> QED
    BY <2>5
<1> HIDE DEF Good
<1>3. T = {}
  <2> SUFFICES ASSUME T # {} PROVE FALSE
    OBVIOUS
  <2>1. T \in SUBSET Nat
    OBVIOUS
  <2>2. PICK m \in T : \A k \in T : m <= k
    BY <2>1, LeastNumber
  <2>3. m # 0
    BY <1>1, <2>2
  <2>4. m \in 1 .. n /\ m - 1 \notin T /\ m - 1 \in 0 .. n
    BY <2>2, <2>3
  <2>5. \E g : Good(m - 1, g)
    BY <2>4
  <2> QED
    BY <1>2, <2>2, <2>4, <2>5
<1>4. \E g : Good(n, g)
  BY <1>3
<1> QED
  BY <1>4 DEF Good, Recurs

(* The choices of Pick, one place at a time *)
Unfolds(g, S, f, P) ==
    /\ g \in [0 .. Len(f) -> Seq(S)]
    /\ g[0] = <<>>
    /\ \A i \in 1 .. Len(f) : g[i] = IF i \in P THEN Append(g[i - 1], f[i]) ELSE g[i - 1]

(* What Pick returns, unfolded *)
LEMMA PickUnfold ==
    ASSUME NEW S, NEW f \in Seq(S), NEW P
    PROVE  \E g : Unfolds(g, S, f, P) /\ Pick(f, P) = g[Len(f)]
<1> DEFINE Def(g) == g = [i \in 0 .. Len(f) |-> IF i = 0 THEN <<>>
                           ELSE IF i \in P THEN Append(g[i - 1], f[i]) ELSE g[i - 1]]
           K == CHOOSE g : Def(g)
           step == [i \in 1 .. Len(f) |->
                       [v \in Seq(S) |-> IF i \in P THEN Append(v, f[i]) ELSE v]]
<1>1. Pick(f, P) = K[Len(f)]
  BY DEF Pick
<1>2. step \in [1 .. Len(f) -> [Seq(S) -> Seq(S)]]
  OBVIOUS
<1>3. \A i \in 1 .. Len(f), v \in Seq(S) :
          step[i][v] = IF i \in P THEN Append(v, f[i]) ELSE v
  OBVIOUS
<1> HIDE DEF step
<1>4. PICK g \in [0 .. Len(f) -> Seq(S)] : g[0] = <<>> /\ \A i \in 1 .. Len(f) : g[i] = step[i][g[i - 1]]
  <2> DEFINE V == Seq(S)
             n == Len(f)
             e == <<>>
  <2>1. e \in V /\ n \in Nat
    OBVIOUS
  <2>2. step \in [1 .. n -> [V -> V]]
    BY <1>2
  <2> HIDE DEF K, Def, V, n, e
  <2>3. \E g : Recurs(g, V, n, e, step)
    BY <2>1, <2>2, Recursion
  <2> QED
    BY <2>3 DEF V, n, e, Recurs
<1>5. \A i \in 1 .. Len(f) : g[i] = IF i \in P THEN Append(g[i - 1], f[i]) ELSE g[i - 1]
  <2> SUFFICES ASSUME NEW i \in 1 .. Len(f)
               PROVE  g[i] = IF i \in P THEN Append(g[i - 1], f[i]) ELSE g[i - 1]
    OBVIOUS
  <2>1. i - 1 \in 0 .. Len(f)
    OBVIOUS
  <2>2. g[i - 1] \in Seq(S)
    BY <2>1
  <2> QED
    BY <1>3, <1>4, <2>2
<1>6. Def(g)
  <2> DEFINE h == [i \in 0 .. Len(f) |-> IF i = 0 THEN <<>>
                     ELSE IF i \in P THEN Append(g[i - 1], f[i]) ELSE g[i - 1]]
  <2>1. \A i \in 0 .. Len(f) : g[i] = h[i]
    <3> SUFFICES ASSUME NEW i \in 0 .. Len(f) PROVE g[i] = h[i]
      OBVIOUS
    <3>1. i = 0 \/ i \in 1 .. Len(f)
      OBVIOUS
    <3> QED
      BY <1>4, <1>5, <3>1
  <2>2. g = [i \in 0 .. Len(f) |-> g[i]] /\ h = [i \in 0 .. Len(f) |-> h[i]]
    OBVIOUS
  <2> HIDE DEF h
  <2>3. g = h
    BY <2>1, <2>2
  <2> QED
    BY <2>3 DEF h
<1>7. Def(K)
  <2> HIDE DEF Def
  <2> QED
    BY <1>6
<1>8. \A i \in 0 .. Len(f) : K[i] = g[i]
  <2> DEFINE T == {i \in 0 .. Len(f) : K[i] # g[i]}
  <2> SUFFICES ASSUME T # {} PROVE FALSE
    OBVIOUS
  <2>1. T \in SUBSET Nat
    OBVIOUS
  <2>2. PICK m \in T : \A k \in T : m <= k
    BY <2>1, LeastNumber
  <2>a. \A i \in 0 .. Len(f) : K[i] = IF i = 0 THEN <<>>
                     ELSE IF i \in P THEN Append(K[i - 1], f[i]) ELSE K[i - 1]
    BY <1>7
  <2> HIDE DEF K, Def
  <2>3. m # 0
    BY <1>4, <2>a, <2>2
  <2>4. m \in 1 .. Len(f) /\ m - 1 \in 0 .. Len(f)
    BY <2>2, <2>3
  <2>6. m - 1 \notin T
    <3> HIDE DEF T
    <3> QED
      BY <2>2, <2>4, <2>1
  <2>5. K[m] = IF m \in P THEN Append(K[m - 1], f[m]) ELSE K[m - 1]
    BY <2>a, <2>4
  <2> QED
    BY <1>5, <2>2, <2>4, <2>5, <2>6
<1> HIDE DEF K, Def
<1>9. Pick(f, P) = g[Len(f)]
  <2>1. Len(f) \in 0 .. Len(f)
    OBVIOUS
  <2> QED
    BY <1>1, <1>8, <2>1
<1> QED
  BY <1>4, <1>5, <1>9 DEF Unfolds

(* It returns elements of the sequence. *)
LEMMA PickType ==
    ASSUME NEW S, NEW f \in Seq(S), NEW P
    PROVE  Pick(f, P) \in Seq(S)
<1>1. PICK g \in [0 .. Len(f) -> Seq(S)] : Pick(f, P) = g[Len(f)]
  BY PickUnfold DEF Unfolds
<1>2. Len(f) \in 0 .. Len(f)
  OBVIOUS
<1> QED
  BY <1>1, <1>2

(* The places at which the elements of s stand in the first i of f: in       *)
(* order, and all that are asked for.                                        *)
Embeds(at, s, f, P, i) ==
    /\ at \in [1 .. Len(s) -> 1 .. i]
    /\ \A k \in 1 .. Len(s) : at[k] \in P /\ s[k] = f[at[k]]
    /\ \A k, l \in 1 .. Len(s) : k < l => at[k] < at[l]
    /\ \A p \in P \intersect 1 .. i : \E k \in 1 .. Len(s) : at[k] = p

(* One more element is looked at: chosen, its place is the last; not chosen, the*)
(* places are those there were.                                              *)
LEMMA EmbedsNext ==
    ASSUME NEW S, NEW f \in Seq(S), NEW P, NEW s \in Seq(S), NEW i \in 1 .. Len(f),
           NEW at, Embeds(at, s, f, P, i - 1)
    PROVE  \E b : Embeds(b, IF i \in P THEN Append(s, f[i]) ELSE s, f, P, i)
<1> USE DEF Embeds
<1>1. CASE i \in P
  <2> DEFINE b == [k \in 1 .. Len(s) + 1 |-> IF k = Len(s) + 1 THEN i ELSE at[k]]
             t == Append(s, f[i])
  <2>1. /\ Len(t) = Len(s) + 1 /\ t[Len(s) + 1] = f[i]
        /\ \A k \in 1 .. Len(s) : t[k] = s[k]
        /\ Len(s) \in Nat /\ Len(f) \in Nat
    OBVIOUS
  <2> HIDE DEF t
  <2>2. \A k \in 1 .. Len(s) : at[k] \in 1 .. (i - 1) /\ b[k] = at[k]
    OBVIOUS
  <2>3. b[Len(s) + 1] = i
    BY <2>1
  <2>4. \A k \in 1 .. Len(t) : k \in 1 .. Len(s) \/ k = Len(s) + 1
    BY <2>1
  <2>5. b \in [1 .. Len(t) -> 1 .. i]
    BY <2>1, <2>2
  <2> HIDE DEF b
  <2>6. \A k \in 1 .. Len(t) : b[k] \in P /\ t[k] = f[b[k]]
    BY <1>1, <2>1, <2>2, <2>3, <2>4
  <2>7. \A k, l \in 1 .. Len(t) : k < l => b[k] < b[l]
    BY <2>1, <2>2, <2>3, <2>4
  <2>8. \A p \in P \intersect 1 .. i : \E k \in 1 .. Len(t) : b[k] = p
    <3> SUFFICES ASSUME NEW p \in P, p \in 1 .. i PROVE \E k \in 1 .. Len(t) : b[k] = p
      OBVIOUS
    <3>1. CASE p = i
      BY <2>1, <2>3, <3>1
    <3>2. CASE p # i
      <4>1. p \in 1 .. (i - 1)
        BY <3>2
      <4>2. PICK k \in 1 .. Len(s) : at[k] = p
        BY <4>1
      <4> QED
        BY <2>1, <2>2, <4>2
    <3> QED
      BY <3>1, <3>2
  <2>9. Embeds(b, t, f, P, i)
    BY <2>5, <2>6, <2>7, <2>8
  <2> QED
    BY <1>1, <2>9 DEF t
<1>2. CASE i \notin P
  <2>1. at \in [1 .. Len(s) -> 1 .. i]
    OBVIOUS
  <2>2. \A p \in P \intersect 1 .. i : p \in 1 .. (i - 1)
    BY <1>2
  <2>3. Embeds(at, s, f, P, i)
    BY <2>1, <2>2
  <2> QED
    BY <1>2, <2>3
<1> QED
  BY <1>1, <1>2

(* It returns the elements at the given places, all of them, in order. *)
LEMMA PickEmbeds ==
    ASSUME NEW S, NEW f \in Seq(S), NEW P
    PROVE  \E at : Embeds(at, Pick(f, P), f, P, Len(f))
<1>0. PICK g : Unfolds(g, S, f, P) /\ Pick(f, P) = g[Len(f)]
  BY PickUnfold
<1>1. /\ g \in [0 .. Len(f) -> Seq(S)]
      /\ g[0] = <<>>
      /\ \A i \in 1 .. Len(f) : g[i] = IF i \in P THEN Append(g[i - 1], f[i]) ELSE g[i - 1]
      /\ Pick(f, P) = g[Len(f)]
  BY <1>0 DEF Unfolds
<1> DEFINE T == {i \in 0 .. Len(f) : ~ \E at : Embeds(at, g[i], f, P, i)}
<1>2. T = {}
  <2> SUFFICES ASSUME T # {} PROVE FALSE
    OBVIOUS
  <2>1. T \in SUBSET Nat
    OBVIOUS
  <2>2. PICK m \in T : \A k \in T : m <= k
    BY <2>1, LeastNumber
  <2>3. 0 \notin T
    <3> DEFINE e == [k \in {} |-> 0]
    <3>1. Len(g[0]) = 0
      BY <1>1
    <3>2. Embeds(e, g[0], f, P, 0)
      BY <3>1 DEF Embeds
    <3> HIDE DEF e
    <3> QED
      BY <3>2
  <2>4. m \in 1 .. Len(f) /\ m - 1 \in 0 .. Len(f)
    BY <2>2, <2>3
  <2>5. m - 1 \notin T
    <3> HIDE DEF T
    <3> QED
      BY <2>1, <2>2, <2>4
  <2>6. PICK at : Embeds(at, g[m - 1], f, P, m - 1)
    BY <2>4, <2>5
  <2>7. g[m - 1] \in Seq(S)
    BY <1>1, <2>4
  <2>8. \E b : Embeds(b, IF m \in P THEN Append(g[m - 1], f[m]) ELSE g[m - 1], f, P, m)
    BY <2>4, <2>6, <2>7, EmbedsNext
  <2>9. \E b : Embeds(b, g[m], f, P, m)
    BY <1>1, <2>4, <2>8
  <2> QED
    BY <2>2, <2>9
<1>3. \E at : Embeds(at, g[Len(f)], f, P, Len(f))
  <2>1. Len(f) \in 0 .. Len(f)
    OBVIOUS
  <2> QED
    BY <1>2, <2>1
<1> QED
  BY <1>1, <1>3

-----------------------------------------------------------------------------
(* Reading a rollout                                                        *)

(* The lines with an item *)
ItemLineRecords == [kind : {"item"}, turn : Turns, item : Items]

(* What a rollout tells is what its item lines hold, in their order. *)
Tells(at, f) ==
    /\ at \in [1 .. Len(Replay(f)) -> 1 .. Len(f)]
    /\ \A k \in 1 .. Len(Replay(f)) :
           f[at[k]].kind = "item" /\ Replay(f)[k] = f[at[k]].item
    /\ \A k, l \in 1 .. Len(Replay(f)) : k < l => at[k] < at[l]
    /\ \A p \in 1 .. Len(f) : f[p].kind = "item" => \E k \in 1 .. Len(Replay(f)) : at[k] = p

(* A line with an item in it is an item line. *)
LEMMA LineKinds ==
    ASSUME NEW line \in Lines, line.kind = "item"
    PROVE  line \in ItemLineRecords /\ line.item \in Items /\ line.turn \in Turns
BY DEF Lines, ItemLineRecords, Torn, Bad

(* The item lines of a rollout are item lines, all of them, in their order. *)
LEMMA ItemLinesFacts ==
    ASSUME NEW f \in Seq(Lines)
    PROVE  /\ ItemLines(f) \in Seq(ItemLineRecords)
           /\ \E at : Embeds(at, ItemLines(f), f, {i \in 1 .. Len(f) : f[i].kind = "item"}, Len(f))
<1> DEFINE P == {i \in 1 .. Len(f) : f[i].kind = "item"}
           s == ItemLines(f)
<1>1. s = Pick(f, P)
  BY DEF ItemLines
<1>2. s \in Seq(Lines)
  BY <1>1, PickType
<1>3. PICK at : Embeds(at, s, f, P, Len(f))
  <2> HIDE DEF P
  <2> QED
    BY <1>1, PickEmbeds
<1>4. \A k \in 1 .. Len(s) : s[k] \in ItemLineRecords
  <2> SUFFICES ASSUME NEW k \in 1 .. Len(s) PROVE s[k] \in ItemLineRecords
    OBVIOUS
  <2> HIDE DEF s
  <2>1. at[k] \in P /\ s[k] = f[at[k]] /\ at[k] \in 1 .. Len(f)
    BY <1>3 DEF Embeds
  <2>2. f[at[k]] \in Lines /\ f[at[k]].kind = "item"
    BY <2>1
  <2> QED
    BY <2>1, <2>2, LineKinds
<1> HIDE DEF s
<1>5. s \in Seq(ItemLineRecords)
  BY <1>2, <1>4
<1> QED
  BY <1>3, <1>5 DEF s

(* Replaying a rollout tells what its item lines hold. *)
LEMMA ReplayFacts ==
    ASSUME NEW f \in Seq(Lines)
    PROVE  Replay(f) \in Seq(Items) /\ \E at : Tells(at, f)
<1> DEFINE P == {i \in 1 .. Len(f) : f[i].kind = "item"}
           s == ItemLines(f)
           r == Replay(f)
<1>1. s \in Seq(ItemLineRecords)
  BY ItemLinesFacts
<1>2. PICK at : Embeds(at, s, f, P, Len(f))
  BY ItemLinesFacts
<1>3. r = [i \in DOMAIN s |-> s[i].item]
  BY DEF Replay, Map, ItemOf
<1> HIDE DEF s, r
<1>4. /\ r \in Seq(Items) /\ Len(r) = Len(s)
      /\ \A k \in 1 .. Len(s) : r[k] = s[k].item
  <2>1. DOMAIN s = 1 .. Len(s) /\ Len(s) \in Nat
    BY <1>1
  <2>2. \A k \in 1 .. Len(s) : s[k].item \in Items
    <3>1. \A k \in 1 .. Len(s) : s[k] \in ItemLineRecords
      BY <1>1
    <3> QED
      BY <3>1 DEF ItemLineRecords
  <2> QED
    BY <1>3, <2>1, <2>2
<1>5. Tells(at, f)
  <2>1. Len(Replay(f)) = Len(s) /\ \A k \in 1 .. Len(s) : Replay(f)[k] = s[k].item
    BY <1>4 DEF r
  <2> QED
    BY <1>2, <2>1 DEF Embeds, Tells
<1> QED
  BY <1>4, <1>5 DEF r

(* The items turn by turn are items too. *)
LEMMA GroupedType ==
    ASSUME NEW f \in Seq(Lines)
    PROVE  Grouped(f) \in Seq(Items)
<1> DEFINE s == ItemLines(f)
           firsts == Pick(s, {i \in 1 .. Len(s) : \A j \in 1 .. (i - 1) : s[j].turn # s[i].turn})
           n == Len(firsts)
           Part(i) == Pick(s, {j \in 1 .. Len(s) : s[j].turn = firsts[i].turn})
           Def(g) == g = [i \in 0 .. n |-> IF i = 0 THEN <<>> ELSE g[i - 1] \o Part(i)]
           K == CHOOSE g : Def(g)
           V == Seq(ItemLineRecords)
           step == [i \in 1 .. n |-> [v \in V |-> v \o Part(i)]]
           e == <<>>
<1>1. Grouped(f) = [i \in DOMAIN K[n] |-> K[n][i].item]
  BY DEF Grouped, Map, ItemOf
<1>2. s \in V
  BY ItemLinesFacts
<1>3. firsts \in V /\ \A i : Part(i) \in V
  <2> HIDE DEF s
  <2> QED
    BY <1>2, PickType
<1>4. n \in Nat
  <2> HIDE DEF firsts
  <2> QED
    BY <1>3
<1> HIDE DEF s, firsts, n, Part
<1>5. e \in V
  OBVIOUS
<1>6. step \in [1 .. n -> [V -> V]]
  BY <1>3
<1>7. \A i \in 1 .. n, v \in V : step[i][v] = v \o Part(i)
  OBVIOUS
<1>8. PICK g : Recurs(g, V, n, e, step)
  <2> HIDE DEF step, V, K, e
  <2> QED
    BY <1>4, <1>5, <1>6, Recursion
<1>9. /\ g \in [0 .. n -> V] /\ g[0] = <<>>
      /\ \A i \in 1 .. n : g[i] = g[i - 1] \o Part(i)
  <2>1. g \in [0 .. n -> V] /\ g[0] = <<>> /\ \A i \in 1 .. n : g[i] = step[i][g[i - 1]]
    BY <1>8 DEF Recurs
  <2>2. \A i \in 1 .. n : g[i - 1] \in V
    <3> HIDE DEF V
    <3> QED
      BY <1>4, <2>1
  <2> HIDE DEF step, V
  <2> QED
    BY <1>7, <2>1, <2>2
<1>10. Def(g)
  <2> DEFINE h == [i \in 0 .. n |-> IF i = 0 THEN <<>> ELSE g[i - 1] \o Part(i)]
  <2>1. \A i \in 0 .. n : g[i] = h[i]
    <3> SUFFICES ASSUME NEW i \in 0 .. n PROVE g[i] = h[i]
      OBVIOUS
    <3>1. i = 0 \/ i \in 1 .. n
      BY <1>4
    <3> QED
      BY <1>9, <3>1
  <2>2. g = [i \in 0 .. n |-> g[i]] /\ h = [i \in 0 .. n |-> h[i]]
    BY <1>9
  <2> HIDE DEF h
  <2>3. g = h
    BY <2>1, <2>2
  <2> QED
    BY <2>3 DEF h
<1>11. Def(K)
  <2> HIDE DEF Def
  <2> QED
    BY <1>10
<1>12. \A i \in 0 .. n : K[i] = IF i = 0 THEN <<>> ELSE K[i - 1] \o Part(i)
  BY <1>11
<1> HIDE DEF K, Def
<1>13. \A i \in 0 .. n : K[i] = g[i]
  <2> DEFINE T == {i \in 0 .. n : K[i] # g[i]}
  <2> SUFFICES ASSUME T # {} PROVE FALSE
    OBVIOUS
  <2>1. T \in SUBSET Nat
    BY <1>4
  <2>2. PICK m \in T : \A k \in T : m <= k
    BY <2>1, LeastNumber
  <2>3. m # 0
    BY <1>4, <1>9, <1>12, <2>2
  <2>4. m \in 1 .. n /\ m - 1 \in 0 .. n
    BY <1>4, <2>2, <2>3
  <2>5. m - 1 \notin T
    <3> HIDE DEF T
    <3> QED
      BY <2>1, <2>2, <2>4
  <2>6. K[m] = K[m - 1] \o Part(m) /\ g[m] = g[m - 1] \o Part(m)
    BY <1>9, <1>12, <2>2, <2>3, <2>4
  <2> QED
    BY <2>2, <2>4, <2>5, <2>6
<1>14. K[n] \in V
  BY <1>4, <1>9, <1>13
<1>15. \A i \in DOMAIN K[n] : K[n][i].item \in Items
  <2>1. \A i \in DOMAIN K[n] : K[n][i] \in ItemLineRecords
    BY <1>14
  <2> QED
    BY <2>1 DEF ItemLineRecords
<1> HIDE DEF V
<1>16. DOMAIN K[n] = 1 .. Len(K[n]) /\ Len(K[n]) \in Nat
  BY <1>14 DEF V
<1> QED
  BY <1>1, <1>15, <1>16
-----------------------------------------------------------------------------
(* What holds of the counters, the channel and the writer                   *)

(* The counters are within the bounds of the model, and so are the numbers   *)
(* they hand out; a turn has a number of its own, a fork is not Main.        *)
CountInv ==
    /\ items \in Nat /\ faults \in Nat /\ items + faults <= MaxEvents
    /\ tasks \in 0 .. MaxTasks /\ counter \in 0 .. tasks
    /\ active # None => active.seq <= items /\ active.turn.n >= 0
    /\ \A a \in stray : a.seq <= items /\ a.turn.n >= 0
    /\ \A e \in ending : e.turn.n >= 0
    /\ reused \subseteq Forks
    /\ busy # Free /\ busy.task = "fork" => busy.th \in Forks
    /\ synced \in [ThreadIds -> Nat]

(* An operation goes to the rollout of the thread of its turn. *)
Sound(op) ==
    /\ op \in Ops
    /\ op.op \in {"TurnStarted", "TurnEnded", "ItemAppended"} => op.turn.th = op.th

(* The channel and the writer hold such operations; the writer syncs only    *)
(* what it wrote or was asked to, and indexes only what belongs there; an    *)
(* engine that is gone leaves nothing, and the actor does one thing at a     *)
(* time.                                                                     *)
ChannelInv ==
    /\ \A i \in DOMAIN queue : Sound(queue[i])
    /\ \A i \in DOMAIN todo : Sound(todo[i])
    /\ writer # Idle => Sound(writer.op)
    /\ writer.stage = "sync" => /\ writer.op.op \in {"TurnEnded", "SetLeaf", "Flush"}
                                /\ writer.op.op # "Flush" => writer.op.th \in opened
    /\ writer.stage = "index" => Indexed(writer.op)
    /\ \A th \in header : file[th] # <<>>

LifeInv ==
    /\ life # "up" => /\ todo = <<>> /\ busy = Free /\ active = None
                      /\ ending = {} /\ stray = {}
    /\ life \in {"exited", "crashed"} =>
           queue = <<>> /\ writer = Idle /\ opened = {} /\ header = {}
    /\ busy # Free => todo = <<>> /\ active = None

BaseInv == TypeOK /\ CountInv /\ ChannelInv /\ LifeInv

-----------------------------------------------------------------------------
(* Types                                                                    *)

(* The operations, kind by kind. *)
LEMMA OpKinds ==
    ASSUME NEW op \in Ops
    PROVE  /\ op.th \in ThreadIds
           /\ op.op \in {"ThreadUpserted", "TurnStarted", "TurnEnded", "ItemAppended", "Flush",
                         "ForkHeader", "SetLeaf"}
           /\ op.op \in {"TurnStarted", "TurnEnded", "ItemAppended"} => op.turn \in Turns
           /\ op.op = "ItemAppended" => op.item \in Items
           /\ op.op \in {"ThreadUpserted", "ForkHeader"} => op.parent \in {Main, None}
           /\ op.op = "SetLeaf" => op.target \in ItemIds \union {None}
           /\ op.op = "Flush" => op.ack \in BOOLEAN
           /\ op.op = "Flush" => op \in [op : {"Flush"}, th : ThreadIds, ack : BOOLEAN]
BY DEF Ops, ThreadIds, Forks

(* What the constructors make. *)
LEMMA OpTypes ==
    /\ \A th \in ThreadIds, p \in {Main, None} : Sound(ThreadUpserted(th, p))
    /\ \A u \in Turns : Sound(TurnStarted(u)) /\ Sound(TurnEnded(u))
    /\ \A u \in Turns, it \in Items : Sound(ItemAppended(u, it))
    /\ \A th \in ThreadIds, b \in BOOLEAN : Sound(Flush(th, b))
    /\ \A th \in Forks : Sound(ForkHeader(th))
    /\ \A th \in ThreadIds, x \in ItemIds \union {None} : Sound(SetLeaf(th, x))
<1>1. \A u \in Turns : u.th \in ThreadIds
  BY DEF Turns
<1> QED
  BY <1>1 DEF Sound, Ops, ThreadUpserted, TurnStarted, TurnEnded, ItemAppended, Flush,
              ForkHeader, SetLeaf, ThreadIds

(* What the writer appends is a line. *)
LEMMA LineTypes ==
    ASSUME NEW op \in Ops, op.op # "Flush", op.op # "TurnStarted"
    PROVE  LineOf(op) \in Lines
<1>1. CASE Heads(op)
  BY <1>1, OpKinds DEF LineOf, Lines, Session, Heads
<1>2. CASE op.op = "ItemAppended"
  BY <1>2, OpKinds DEF LineOf, Lines, ItemLine, Heads
<1>3. CASE op.op = "TurnEnded"
  BY <1>3, OpKinds DEF LineOf, Lines, Leaf, Heads
<1>4. CASE op.op = "SetLeaf"
  BY <1>4, OpKinds DEF LineOf, Lines, Leaf, Heads
<1> QED
  BY <1>1, <1>2, <1>3, <1>4, OpKinds DEF Heads

(* What try_send does to the channel *)
LEMMA Sending ==
    ASSUME BaseInv, NEW op, Sound(op), TrySend(op)
    PROVE  /\ queue' \in Seq(Ops) /\ Len(queue') <= ChannelCap
           /\ \A i \in DOMAIN queue' : Sound(queue'[i])
           /\ \/ /\ queue' = Append(queue, op) /\ lost' = lost
                 /\ Len(queue') = Len(queue) + 1
                 /\ \A i \in 1 .. Len(queue) : queue'[i] = queue[i]
                 /\ queue'[Len(queue) + 1] = op
              \/ queue' = queue /\ lost' = lost \union Miss(op) /\ sent' = sent
           /\ sent' \subseteq [turn : Turns, item : Items]
           /\ sent' \in {sent, sent \union {[turn |-> op.turn, item |-> op.item]}}
           /\ sent' # sent => op.op = "ItemAppended" /\ queue' = Append(queue, op)
<1> USE DEF BaseInv
<1>1. op \in Ops /\ queue \in Seq(Ops)
  BY DEF Sound, TypeOK
<1>2. CASE Accepts
  <2>1. queue' = Append(queue, op) /\ lost' = lost
    BY <1>2 DEF TrySend
  <2>2. /\ queue' \in Seq(Ops) /\ Len(queue') = Len(queue) + 1 /\ Len(queue') <= ChannelCap
        /\ \A i \in 1 .. Len(queue) : queue'[i] = queue[i]
        /\ queue'[Len(queue) + 1] = op
    BY <1>1, <1>2, <2>1, PersistenceConstants DEF Accepts
  <2>3. \A i \in DOMAIN queue' : Sound(queue'[i])
    <3> SUFFICES ASSUME NEW i \in DOMAIN queue' PROVE Sound(queue'[i])
      OBVIOUS
    <3>1. i \in 1 .. Len(queue) \/ i = Len(queue) + 1
      BY <1>1, <2>2
    <3> QED
      BY <1>1, <2>2, <3>1 DEF ChannelInv
  <2>4. /\ op.op = "ItemAppended" =>
               sent' = sent \union {[turn |-> op.turn, item |-> op.item]}
        /\ op.op # "ItemAppended" => sent' = sent
    BY <1>2 DEF TrySend
  <2>5. sent' \subseteq [turn : Turns, item : Items]
    <3>1. CASE op.op = "ItemAppended"
      <4>1. [turn |-> op.turn, item |-> op.item] \in [turn : Turns, item : Items]
        BY <1>1, <3>1, OpKinds
      <4> QED
        BY <2>4, <3>1, <4>1 DEF TypeOK
    <3>2. CASE op.op # "ItemAppended"
      BY <2>4, <3>2 DEF TypeOK
    <3> QED
      BY <3>1, <3>2
  <2> QED
    BY <2>1, <2>2, <2>3, <2>4, <2>5
<1>3. CASE ~Accepts
  BY <1>1, <1>3 DEF TrySend, TypeOK, ChannelInv
<1> QED
  BY <1>2, <1>3

(* How the actor sends, without touching the disk or the writer. *)
LEMMA SendNextBase ==
    ASSUME BaseInv, SendNext
    PROVE  BaseInv'
<1> USE DEF BaseInv
<1>1. Sound(Head(todo)) /\ Tail(todo) \in Seq(Ops)
      /\ \A i \in DOMAIN Tail(todo) : Sound(Tail(todo)[i])
  BY DEF SendNext, ChannelInv, TypeOK
<1>2. /\ queue' \in Seq(Ops) /\ Len(queue') <= ChannelCap
      /\ \A i \in DOMAIN queue' : Sound(queue'[i])
      /\ sent' \subseteq [turn : Turns, item : Items]
  BY <1>1, Sending DEF SendNext
<1>3. TypeOK'
  BY <1>1, <1>2 DEF SendNext, TypeOK, process, turnVars, disk, index, memory, counts, saves
<1>4. CountInv'
  BY DEF SendNext, CountInv, process, turnVars, disk, index, memory, counts, saves
<1>5. ChannelInv'
  BY <1>1, <1>2 DEF SendNext, ChannelInv, process, turnVars, disk, index, memory, counts, saves
<1>6. LifeInv'
  BY DEF SendNext, LifeInv, process, turnVars, disk, index, memory, counts, saves
<1> QED
  BY <1>3, <1>4, <1>5, <1>6

(* start_turn takes a number of its own and has two operations to send. *)
LEMMA StartTurnBase ==
    ASSUME BaseInv, NEW th \in ThreadIds, StartTurn(th)
    PROVE  BaseInv'
<1> USE DEF BaseInv
<1> USE DEF StartTurn, ActorFree, process, turnVars, disk, index, memory, counts, saves
<1> DEFINE u == TurnId(th, counter)
<1>1. u \in Turns /\ u.n >= 0 /\ tasks' \in 0 .. MaxTasks /\ counter' \in 0 .. tasks'
      /\ counter \in Nat
  BY PersistenceConstants DEF CountInv, Turns, TurnId
<1>2. Sound(ThreadUpserted(th, None)) /\ Sound(TurnStarted(u))
  BY <1>1, OpTypes
<1>3. /\ todo' \in Seq(Ops) /\ Len(todo') = 2
      /\ \A i \in DOMAIN todo' : Sound(todo'[i])
  BY <1>2 DEF Sound
<1>4. active' \in [turn : Turns, seq : 0 .. MaxEvents] /\ active'.turn = u /\ active'.seq = 0
  BY <1>1, PersistenceConstants
<1>5. TypeOK'
  BY <1>1, <1>3, <1>4, PersistenceConstants DEF TypeOK
<1>6. CountInv'
  BY <1>1, <1>4, PersistenceConstants DEF CountInv
<1>7. ChannelInv'
  BY <1>3 DEF ChannelInv
<1>8. LifeInv'
  BY <1>3 DEF LifeInv
<1> QED
  BY <1>5, <1>6, <1>7, <1>8

(* The turn a says the item it. *)
Says(a, it) ==
    /\ it.at = items'
    /\ TrySend(ItemAppended(a.turn, it)) /\ Sound(ItemAppended(a.turn, it))
    /\ items' = items + 1 /\ items' \in Nat /\ items' + faults <= MaxEvents
    /\ transcript' \in [ThreadIds -> Seq(Items)]
    /\ Spoken(a) \in [turn : Turns, seq : 0 .. MaxEvents]
    /\ Spoken(a).turn = a.turn /\ Spoken(a).seq <= items'

(* What a turn says is an item with a place of its own in the conversation. *)
LEMMA SayFacts ==
    ASSUME BaseInv, NEW a \in [turn : Turns, seq : 0 .. MaxEvents], a.seq <= items, Say(a)
    PROVE  \E it \in Items : Says(a, it)
<1> DEFINE it == [id |-> [turn |-> a.turn, seq |-> a.seq], at |-> items + 1]
<1>1. items \in Nat /\ faults \in Nat /\ items + faults < MaxEvents /\ items' = items + 1
  BY DEF Say, InBound, BaseInv, CountInv
<1>2. it \in Items /\ it.at = items'
  BY <1>1, PersistenceConstants DEF Items, ItemIds
<1>3. TrySend(ItemAppended(a.turn, it))
  BY DEF Say
<1>4. a.turn.th \in ThreadIds
  BY DEF Turns
<1>5. transcript' \in [ThreadIds -> Seq(Items)]
  <2>1. transcript \in [ThreadIds -> Seq(Items)]
    BY DEF BaseInv, TypeOK
  <2>2. transcript' \in {transcript, [transcript EXCEPT ![a.turn.th] = Append(@, it)]}
    BY DEF Say
  <2> HIDE DEF it
  <2>3. Append(transcript[a.turn.th], it) \in Seq(Items)
    BY <1>2, <1>4, <2>1
  <2>4. [transcript EXCEPT ![a.turn.th] = Append(@, it)] \in [ThreadIds -> Seq(Items)]
    BY <2>1, <2>3
  <2> QED
    BY <2>1, <2>2, <2>4
<1>6. /\ Spoken(a) \in [turn : Turns, seq : 0 .. MaxEvents]
      /\ Spoken(a).turn = a.turn /\ Spoken(a).seq <= items'
  BY <1>1, PersistenceConstants DEF Spoken
<1>7. Sound(ItemAppended(a.turn, it))
  BY <1>2, OpTypes
<1> HIDE DEF it
<1>8. Says(a, it)
  BY <1>1, <1>2, <1>3, <1>5, <1>6, <1>7, PersistenceConstants DEF Says
<1> QED
  BY <1>2, <1>8

(* So the running turn says it ... *)
LEMMA AppendItemBase ==
    ASSUME BaseInv, AppendItem
    PROVE  BaseInv'
<1> USE DEF BaseInv
<1>1. active \in [turn : Turns, seq : 0 .. MaxEvents] /\ active.seq <= items /\ active.turn.n >= 0
      /\ Say(active) /\ active # None
  BY DEF AppendItem, TypeOK, CountInv
<1>2. PICK it \in Items : Says(active, it)
  BY <1>1, SayFacts
<1>3. /\ queue' \in Seq(Ops) /\ Len(queue') <= ChannelCap
      /\ \A i \in DOMAIN queue' : Sound(queue'[i])
      /\ sent' \subseteq [turn : Turns, item : Items]
  BY <1>2, Sending DEF Says
<1>4. /\ items \in Nat
      /\ UNCHANGED <<process, counter, ending, stray, actorVars, writer, disk, index,
                     resident, tasks, faults, saves>>
      /\ active' = Spoken(active)
  BY DEF AppendItem, CountInv
<1> USE DEF process, actorVars, disk, index, saves
<1>5. TypeOK'
  BY <1>2, <1>3, <1>4 DEF TypeOK, Says
<1>6. CountInv'
  <2>1. \A b \in stray : b.seq \in Nat
    BY DEF TypeOK
  <2> QED
    BY <1>1, <1>2, <1>4, <2>1 DEF CountInv, Says
<1>7. ChannelInv'
  BY <1>3, <1>4 DEF ChannelInv
<1>8. LifeInv'
  BY <1>1, <1>4 DEF LifeInv
<1> QED
  BY <1>5, <1>6, <1>7, <1>8

(* ... and so does a cancelled one. *)
LEMMA StrayItemBase ==
    ASSUME BaseInv, NEW a \in stray, StrayItem(a)
    PROVE  BaseInv'
<1> USE DEF BaseInv
<1>1. a \in [turn : Turns, seq : 0 .. MaxEvents] /\ a.seq <= items /\ a.turn.n >= 0 /\ Say(a)
  BY DEF StrayItem, TypeOK, CountInv
<1>2. PICK it \in Items : Says(a, it)
  BY <1>1, SayFacts
<1>3. /\ queue' \in Seq(Ops) /\ Len(queue') <= ChannelCap
      /\ \A i \in DOMAIN queue' : Sound(queue'[i])
      /\ sent' \subseteq [turn : Turns, item : Items]
  BY <1>2, Sending DEF Says
<1>4. /\ items \in Nat
      /\ UNCHANGED <<process, counter, active, ending, actorVars, writer, disk, index,
                     resident, tasks, faults, saves>>
      /\ stray' = (stray \ {a}) \union {Spoken(a)}
      /\ life = "up"
  BY DEF StrayItem, CountInv
<1> USE DEF process, actorVars, disk, index, saves
<1>5. TypeOK'
  BY <1>2, <1>3, <1>4 DEF TypeOK, Says
<1>6. CountInv'
  <2>1. active # None => active.seq \in Nat
    BY DEF TypeOK
  <2>2. \A b \in stray : b.seq \in Nat
    BY DEF TypeOK
  <2> QED
    BY <1>1, <1>2, <1>4, <2>1, <2>2 DEF CountInv, Says
<1>7. ChannelInv'
  BY <1>3, <1>4 DEF ChannelInv
<1>8. LifeInv'
  BY <1>4 DEF LifeInv
<1> QED
  BY <1>5, <1>6, <1>7, <1>8

(* finish_turn moves the turn to those that have to say that they ended. *)
LEMMA FinishTurnBase ==
    ASSUME BaseInv, FinishTurn
    PROVE  BaseInv'
<1> USE DEF BaseInv
<1> USE DEF FinishTurn, process, actorVars, disk, index, memory, counts, saves
<1>1. active \in [turn : Turns, seq : 0 .. MaxEvents] /\ active.turn.n >= 0
  BY DEF TypeOK, CountInv
<1>2. TypeOK'
  BY <1>1 DEF TypeOK
<1>3. CountInv'
  BY <1>1 DEF CountInv
<1>4. ChannelInv'
  BY DEF ChannelInv
<1>5. LifeInv'
  BY DEF LifeInv
<1> QED
  BY <1>2, <1>3, <1>4, <1>5

(* cancel_turn has the end of the turn and the idle thread to send. *)
LEMMA CancelTurnBase ==
    ASSUME BaseInv, CancelTurn
    PROVE  BaseInv'
<1> USE DEF BaseInv
<1> USE DEF CancelTurn, ActorFree, process, disk, index, memory, counts, saves
<1>1. /\ active \in [turn : Turns, seq : 0 .. MaxEvents]
      /\ active.turn.n >= 0 /\ active.seq <= items
      /\ active.turn.th \in ThreadIds
  BY DEF TypeOK, CountInv, Turns
<1>2. Sound(TurnEnded(active.turn)) /\ Sound(ThreadUpserted(active.turn.th, None))
  BY <1>1, OpTypes
<1>3. /\ todo' \in Seq(Ops)
      /\ \A i \in DOMAIN todo' : Sound(todo'[i])
  BY <1>2 DEF Sound
<1>4. TypeOK'
  BY <1>1, <1>3 DEF TypeOK
<1>5. CountInv'
  BY <1>1 DEF CountInv
<1>6. ChannelInv'
  BY <1>3 DEF ChannelInv
<1>7. LifeInv'
  BY DEF LifeInv
<1> QED
  BY <1>4, <1>5, <1>6, <1>7

(* What finish_turn sends after it freed the slot *)
LEMMA SendEndedBase ==
    ASSUME BaseInv, NEW e \in ending, SendEnded(e)
    PROVE  BaseInv'
<1> USE DEF BaseInv
<1>1. e \in [turn : Turns, send : {"ended", "idle"}] /\ e.turn.n >= 0 /\ e.turn.th \in ThreadIds
  BY DEF TypeOK, CountInv, Turns
<1>2. Sound(TurnEnded(e.turn)) /\ Sound(ThreadUpserted(e.turn.th, None))
  BY <1>1, OpTypes
<1>3. TrySend(TurnEnded(e.turn)) \/ TrySend(ThreadUpserted(e.turn.th, None))
  BY DEF SendEnded
<1>4. /\ queue' \in Seq(Ops) /\ Len(queue') <= ChannelCap
      /\ \A i \in DOMAIN queue' : Sound(queue'[i])
      /\ sent' \subseteq [turn : Turns, item : Items]
  <2>1. CASE TrySend(TurnEnded(e.turn))
    BY <1>2, <2>1, Sending
  <2>2. CASE TrySend(ThreadUpserted(e.turn.th, None))
    BY <1>2, <2>2, Sending
  <2> QED
    BY <1>3, <2>1, <2>2
<1>5. /\ ending' \subseteq [turn : Turns, send : {"ended", "idle"}]
      /\ \A x \in ending' : x.turn.n >= 0
  <2>1. [e EXCEPT !.send = "idle"] \in [turn : Turns, send : {"ended", "idle"}]
        /\ [e EXCEPT !.send = "idle"].turn = e.turn
    BY <1>1
  <2> QED
    BY <1>1, <2>1 DEF SendEnded, TypeOK, CountInv
<1>6. /\ UNCHANGED <<process, counter, active, stray, actorVars, writer, disk, index,
                     memory, counts, faults, saves>>
      /\ life = "up"
  BY DEF SendEnded
<1> USE DEF process, actorVars, disk, index, memory, counts, saves
<1>7. TypeOK'
  BY <1>4, <1>5, <1>6 DEF TypeOK
<1>8. CountInv'
  BY <1>5, <1>6 DEF CountInv
<1>9. ChannelInv'
  BY <1>4, <1>6 DEF ChannelInv
<1>10. LifeInv'
  BY <1>6 DEF LifeInv
<1> QED
  BY <1>7, <1>8, <1>9, <1>10

(* A fork and a resume begin with a flush of the rollout they will read. *)
LEMMA AskingFacts ==
    ASSUME BaseInv, NEW task \in {"fork", "resume"}, NEW th \in ThreadIds, Asking(task, th)
    PROVE  /\ queue' \in Seq(Ops) /\ Len(queue') <= ChannelCap
           /\ \A i \in DOMAIN queue' : Sound(queue'[i])
           /\ sent' \subseteq [turn : Turns, item : Items]
           /\ busy' # Free /\ busy'.task = task /\ busy'.th = th
           /\ busy' \in [task : {"fork", "resume"}, th : ThreadIds,
                         wait : {"waiting", "acked", "gone"}]
           /\ \E x \in ThreadIds : TrySend(Flush(x, TRUE)) /\ Sound(Flush(x, TRUE))
                                   /\ (task = "fork" => x = Main)
<1>1. \A x \in ThreadIds : Sound(Flush(x, TRUE))
  BY OpTypes
<1>2. \E x \in ThreadIds : TrySend(Flush(x, TRUE)) /\ (task = "fork" => x = Main)
  BY DEF Asking, ThreadIds
<1>3. /\ queue' \in Seq(Ops) /\ Len(queue') <= ChannelCap
      /\ \A i \in DOMAIN queue' : Sound(queue'[i])
      /\ sent' \subseteq [turn : Turns, item : Items]
  BY <1>1, <1>2, Sending
<1>4. /\ busy'.task = task /\ busy'.th = th
      /\ busy' \in [task : {"fork", "resume"}, th : ThreadIds,
                    wait : {"waiting", "acked", "gone"}]
  BY DEF Asking
<1>5. busy' # Free
  BY <1>4 DEF Free
<1> QED
  BY <1>1, <1>2, <1>3, <1>4, <1>5

(* A fork takes the next number for its name. *)
LEMMA ForkBeginBase ==
    ASSUME BaseInv, ForkBegin
    PROVE  BaseInv'
<1> USE DEF BaseInv
<1>1. /\ counter \in Forks /\ tasks' \in 0 .. MaxTasks /\ counter' \in 0 .. tasks'
      /\ counter \in ThreadIds
  BY PersistenceConstants DEF ForkBegin, CountInv, Forks, ThreadIds
<1>2. Asking("fork", counter)
  BY DEF ForkBegin
<1>3. /\ queue' \in Seq(Ops) /\ Len(queue') <= ChannelCap
      /\ \A i \in DOMAIN queue' : Sound(queue'[i])
      /\ sent' \subseteq [turn : Turns, item : Items]
      /\ busy' # Free /\ busy'.task = "fork" /\ busy'.th = counter
      /\ busy' \in [task : {"fork", "resume"}, th : ThreadIds,
                    wait : {"waiting", "acked", "gone"}]
  BY <1>1, <1>2, AskingFacts
<1>4. /\ life = "up" /\ todo = <<>> /\ active = None
      /\ UNCHANGED <<process, active, ending, stray, todo, writer, disk, index, memory, items,
                     faults, saves>>
  BY DEF ForkBegin, ActorFree
<1> USE DEF process, disk, index, memory, saves
<1>5. TypeOK'
  <2>1. counter' \in 0 .. MaxTasks
    BY <1>1, PersistenceConstants
  <2> QED
    BY <1>3, <1>4, <2>1 DEF TypeOK
<1>6. CountInv'
  BY <1>1, <1>3, <1>4 DEF CountInv
<1>7. ChannelInv'
  BY <1>3, <1>4 DEF ChannelInv
<1>8. LifeInv'
  BY <1>4 DEF LifeInv
<1> QED
  BY <1>5, <1>6, <1>7, <1>8

(* A resume asks for the thread it was given. *)
LEMMA ResumeBeginBase ==
    ASSUME BaseInv, NEW th \in ThreadIds, ResumeBegin(th)
    PROVE  BaseInv'
<1> USE DEF BaseInv
<1>1. tasks' \in 0 .. MaxTasks /\ counter \in 0 .. tasks'
  BY PersistenceConstants DEF ResumeBegin, CountInv
<1>2. Asking("resume", th)
  BY DEF ResumeBegin
<1>3. /\ queue' \in Seq(Ops) /\ Len(queue') <= ChannelCap
      /\ \A i \in DOMAIN queue' : Sound(queue'[i])
      /\ sent' \subseteq [turn : Turns, item : Items]
      /\ busy' # Free /\ busy'.task = "resume" /\ busy'.th = th
      /\ busy' \in [task : {"fork", "resume"}, th : ThreadIds,
                    wait : {"waiting", "acked", "gone"}]
  BY <1>2, AskingFacts
<1>4. /\ life = "up" /\ todo = <<>> /\ active = None
      /\ UNCHANGED <<process, turnVars, todo, writer, disk, index, memory, items,
                     faults, saves>>
  BY DEF ResumeBegin, ActorFree
<1> USE DEF process, turnVars, disk, index, memory, saves
<1>5. TypeOK'
  BY <1>3, <1>4 DEF TypeOK
<1>6. CountInv'
  BY <1>1, <1>3, <1>4 DEF CountInv
<1>7. ChannelInv'
  BY <1>3, <1>4 DEF ChannelInv
<1>8. LifeInv'
  BY <1>4 DEF LifeInv
<1> QED
  BY <1>5, <1>6, <1>7, <1>8

(* Nobody waits for an acknowledgement any more: only flushes change, and    *)
(* only in that.                                                             *)
LEMMA UnheardFacts ==
    ASSUME NEW op, Sound(op)
    PROVE  /\ Sound(Unheard(op)) /\ Unheard(op).op = op.op /\ Unheard(op).th = op.th
           /\ op.op # "Flush" => Unheard(op) = op
           /\ op.op = "Flush" => ~Unheard(op).ack
<1>1. CASE op.op = "Flush"
  <2>1. op \in [op : {"Flush"}, th : ThreadIds, ack : BOOLEAN]
    BY <1>1, OpKinds DEF Sound
  <2>2. Unheard(op) \in [op : {"Flush"}, th : ThreadIds, ack : BOOLEAN]
        /\ Unheard(op).op = "Flush" /\ Unheard(op).th = op.th /\ ~Unheard(op).ack
    BY <1>1, <2>1 DEF Unheard
  <2>3. Unheard(op) \in Ops
    BY <2>2 DEF Ops
  <2> QED
    BY <1>1, <2>2, <2>3 DEF Sound
<1>2. CASE op.op # "Flush"
  BY <1>2 DEF Unheard
<1> QED
  BY <1>1, <1>2

(* What is in the channel and in the writer's hands stays there, unheard. *)
LEMMA FlushTimeoutFacts ==
    ASSUME BaseInv, FlushTimeout
    PROVE  /\ queue' \in Seq(Ops) /\ Len(queue') = Len(queue) /\ DOMAIN queue' = DOMAIN queue
           /\ \A i \in DOMAIN queue : queue'[i] = Unheard(queue[i]) /\ Sound(queue'[i])
           /\ writer = Idle => writer' = Idle
           /\ writer # Idle => /\ writer' # Idle
                               /\ writer'.stage = writer.stage
                               /\ writer'.op = Unheard(writer.op) /\ Sound(writer'.op)
                               /\ writer' \in [stage : {"sync", "index"}, op : Ops]
<1> USE DEF BaseInv
<1>1. queue \in Seq(Ops) /\ \A i \in DOMAIN queue : Sound(queue[i])
  BY DEF TypeOK, ChannelInv
<1>2. queue' = [i \in DOMAIN queue |-> Unheard(queue[i])]
  BY DEF FlushTimeout, Map
<1>3. \A i \in DOMAIN queue : Sound(Unheard(queue[i]))
  BY <1>1, UnheardFacts
<1>4. \A i \in DOMAIN queue : queue'[i] = Unheard(queue[i]) /\ Sound(queue'[i]) /\ queue'[i] \in Ops
  BY <1>2, <1>3 DEF Sound
<1>5. queue' \in Seq(Ops) /\ Len(queue') = Len(queue) /\ DOMAIN queue' = DOMAIN queue
  <2>1. DOMAIN queue = 1 .. Len(queue) /\ Len(queue) \in Nat
    BY <1>1
  <2> QED
    BY <1>2, <1>4, <2>1
<1>6. ASSUME writer # Idle
      PROVE  /\ writer' # Idle
             /\ writer'.stage = writer.stage
             /\ writer'.op = Unheard(writer.op) /\ Sound(writer'.op)
             /\ writer' \in [stage : {"sync", "index"}, op : Ops]
  <2>1. writer \in [stage : {"sync", "index"}, op : Ops] /\ Sound(writer.op)
    BY <1>6 DEF TypeOK, ChannelInv
  <2>2. Sound(Unheard(writer.op))
    BY <2>1, UnheardFacts
  <2>3. writer' = [writer EXCEPT !.op = Unheard(@)]
    BY <1>6 DEF FlushTimeout
  <2> QED
    BY <2>1, <2>2, <2>3 DEF Sound, Idle
<1>7. writer = Idle => writer' = Idle
  BY DEF FlushTimeout
<1> QED
  BY <1>4, <1>5, <1>6, <1>7

(* The actor waits no longer. *)
LEMMA FlushTimeoutBase ==
    ASSUME BaseInv, FlushTimeout
    PROVE  BaseInv'
<1> USE DEF BaseInv
<1>1. /\ queue' \in Seq(Ops) /\ Len(queue') = Len(queue) /\ DOMAIN queue' = DOMAIN queue
      /\ \A i \in DOMAIN queue : Sound(queue'[i])
      /\ writer = Idle => writer' = Idle
      /\ writer # Idle => /\ writer' # Idle
                          /\ writer'.stage = writer.stage
                          /\ writer'.op = Unheard(writer.op) /\ Sound(writer'.op)
                          /\ writer' \in [stage : {"sync", "index"}, op : Ops]
  BY FlushTimeoutFacts
<1>2. writer # Idle => writer'.op.op = writer.op.op /\ writer'.op.th = writer.op.th
  <2>1. writer # Idle => Sound(writer.op)
    BY DEF ChannelInv
  <2> QED
    BY <1>1, <2>1, UnheardFacts
<1>3. /\ life = "up" /\ busy # Free
      /\ busy' = [busy EXCEPT !.wait = "gone"]
      /\ UNCHANGED <<process, turnVars, todo, disk, index, memory, counts, faults, sent,
                     saves, lost>>
  BY DEF FlushTimeout
<1>4. /\ busy \in [task : {"fork", "resume"}, th : ThreadIds,
                   wait : {"waiting", "acked", "gone"}]
      /\ busy' \in [task : {"fork", "resume"}, th : ThreadIds,
                    wait : {"waiting", "acked", "gone"}]
  BY <1>3 DEF TypeOK
<1> USE DEF process, turnVars, disk, index, memory, counts, saves
<1>5. TypeOK'
  BY <1>1, <1>3, <1>4 DEF TypeOK
<1>6. CountInv'
  BY <1>3, <1>4 DEF CountInv
<1>7. ChannelInv'
  BY <1>1, <1>2, <1>3 DEF ChannelInv, Idle, Indexed
<1>8. LifeInv'
  BY <1>3 DEF LifeInv
<1> QED
  BY <1>5, <1>6, <1>7, <1>8

(* Two sequences one after the other *)
Joins(r, S, s, t) ==
    /\ r \in Seq(S) /\ Len(r) = Len(s) + Len(t)
    /\ \A i \in 1 .. Len(s) : r[i] = s[i]
    /\ \A i \in 1 .. Len(t) : r[Len(s) + i] = t[i]

(* The concatenation of two sequences is one after the other. *)
LEMMA Joined ==
    ASSUME NEW S, NEW s \in Seq(S), NEW t \in Seq(S)
    PROVE  Joins(s \o t, S, s, t)
BY DEF Joins

(* The plan of a fork is made of sound operations. *)
LEMMA PlanFacts ==
    ASSUME NEW th \in Forks, NEW copy \in Seq(Items)
    PROVE  /\ Plan(th, copy) \in Seq(Ops) /\ Len(Plan(th, copy)) = Len(copy) + 6
           /\ \A i \in 1 .. Len(copy) + 6 : Sound(Plan(th, copy)[i])
           /\ Plan(th, copy)[1] = ForkHeader(th)
           /\ Plan(th, copy)[2] = ThreadUpserted(th, Main)
           /\ Plan(th, copy)[3] = TurnStarted(ForkTurn(th))
           /\ \A i \in 1 .. Len(copy) :
                  Plan(th, copy)[i + 3] = ItemAppended(ForkTurn(th), copy[i])
           /\ Plan(th, copy)[Len(copy) + 4] = TurnEnded(ForkTurn(th))
           /\ Plan(th, copy)[Len(copy) + 5].op = "SetLeaf"
           /\ Plan(th, copy)[Len(copy) + 6] = Flush(th, FALSE)
           /\ \A i \in 1 .. Len(copy) + 6 : Plan(th, copy)[i].th = th
<1> DEFINE u == ForkTurn(th)
           x == IF copy = <<>> THEN None ELSE copy[Len(copy)].id
           a == <<ForkHeader(th), ThreadUpserted(th, Main), TurnStarted(u)>>
           b == [i \in DOMAIN copy |-> ItemAppended(u, copy[i])]
           c == <<TurnEnded(u), SetLeaf(th, x), Flush(th, FALSE)>>
           p == a \o b \o c
<1>1. Plan(th, copy) = p
  BY DEF Plan, Map
<1>2. th \in ThreadIds /\ u \in Turns /\ u.th = th
  BY PersistenceConstants DEF ThreadIds, Turns, ForkTurn, TurnId, Forks
<1>3. x \in ItemIds \union {None}
  <2>1. copy # <<>> => copy[Len(copy)] \in Items
    OBVIOUS
  <2> QED
    BY <2>1 DEF Items
<1>4. /\ Sound(ForkHeader(th)) /\ Sound(ThreadUpserted(th, Main)) /\ Sound(TurnStarted(u))
      /\ Sound(TurnEnded(u)) /\ Sound(SetLeaf(th, x)) /\ Sound(Flush(th, FALSE))
      /\ \A i \in DOMAIN copy : Sound(ItemAppended(u, copy[i]))
  <2>1. \A i \in DOMAIN copy : copy[i] \in Items
    OBVIOUS
  <2> HIDE DEF u, x
  <2> QED
    BY <1>2, <1>3, <2>1, OpTypes
<1>5. /\ ForkHeader(th).th = th /\ ThreadUpserted(th, Main).th = th /\ TurnStarted(u).th = th
      /\ TurnEnded(u).th = th /\ SetLeaf(th, x).th = th /\ Flush(th, FALSE).th = th
      /\ \A i \in DOMAIN copy : ItemAppended(u, copy[i]).th = th
      /\ SetLeaf(th, x).op = "SetLeaf"
  BY <1>2 DEF ForkHeader, ThreadUpserted, TurnStarted, TurnEnded, SetLeaf, Flush, ItemAppended
<1>6. /\ a \in Seq(Ops) /\ Len(a) = 3
      /\ a[1] = ForkHeader(th) /\ a[2] = ThreadUpserted(th, Main) /\ a[3] = TurnStarted(u)
  BY <1>4 DEF Sound
<1>7. /\ c \in Seq(Ops) /\ Len(c) = 3
      /\ c[1] = TurnEnded(u) /\ c[2] = SetLeaf(th, x) /\ c[3] = Flush(th, FALSE)
  <2>1. \A q, r, s \in Ops : <<q, r, s>> \in Seq(Ops)
    OBVIOUS
  <2>2. TurnEnded(u) \in Ops /\ SetLeaf(th, x) \in Ops /\ Flush(th, FALSE) \in Ops
    BY <1>4 DEF Sound
  <2> HIDE DEF x, u
  <2> QED
    BY <2>1, <2>2
<1>8. /\ b \in Seq(Ops) /\ Len(b) = Len(copy)
      /\ \A i \in 1 .. Len(copy) : b[i] = ItemAppended(u, copy[i])
      /\ Len(copy) \in Nat /\ DOMAIN copy = 1 .. Len(copy)
  <2>1. DOMAIN copy = 1 .. Len(copy) /\ Len(copy) \in Nat
    OBVIOUS
  <2>2. \A i \in 1 .. Len(copy) : ItemAppended(u, copy[i]) \in Ops
    BY <1>4, <2>1 DEF Sound
  <2> HIDE DEF u
  <2> QED
    BY <2>1, <2>2
<1> HIDE DEF a, b, c, x, u
<1>9. /\ p \in Seq(Ops) /\ Len(p) = Len(copy) + 6
      /\ p[1] = a[1] /\ p[2] = a[2] /\ p[3] = a[3]
      /\ \A i \in 1 .. Len(copy) : p[i + 3] = b[i]
      /\ p[Len(copy) + 4] = c[1] /\ p[Len(copy) + 5] = c[2] /\ p[Len(copy) + 6] = c[3]
  <2> DEFINE d == a \o b
  <2>1. /\ d \in Seq(Ops) /\ Len(d) = Len(copy) + 3
        /\ d[1] = a[1] /\ d[2] = a[2] /\ d[3] = a[3]
        /\ \A i \in 1 .. Len(copy) : d[i + 3] = b[i]
    <3>1. Joins(d, Ops, a, b)
      BY <1>6, <1>8, Joined
    <3> HIDE DEF d
    <3>2. \A i \in 1 .. Len(copy) : d[i + 3] = d[3 + i]
      BY <1>8
    <3> QED
      BY <1>6, <1>8, <3>1, <3>2 DEF Joins
  <2>2. p = d \o c
    OBVIOUS
  <2> HIDE DEF d, p
  <2>a. Joins(p, Ops, d, c)
    BY <1>7, <2>1, <2>2, Joined
  <2>3. /\ p \in Seq(Ops) /\ Len(p) = Len(copy) + 6
        /\ \A i \in 1 .. Len(copy) + 3 : p[i] = d[i]
    BY <1>7, <1>8, <2>1, <2>a DEF Joins
  <2>4. p[Len(copy) + 4] = c[1] /\ p[Len(copy) + 5] = c[2] /\ p[Len(copy) + 6] = c[3]
    <3>1. p[Len(d) + 1] = c[1] /\ p[Len(d) + 2] = c[2] /\ p[Len(d) + 3] = c[3]
      <4>1. 1 \in 1 .. Len(c) /\ 2 \in 1 .. Len(c) /\ 3 \in 1 .. Len(c)
        BY <1>7
      <4>2. \A i \in 1 .. Len(c) : p[Len(d) + i] = c[i]
        BY <2>a DEF Joins
      <4> QED
        BY <4>1, <4>2
    <3>2. /\ Len(d) + 1 = Len(copy) + 4 /\ Len(d) + 2 = Len(copy) + 5
          /\ Len(d) + 3 = Len(copy) + 6
      BY <1>8, <2>1
    <3> QED
      BY <3>1, <3>2
  <2>5. \A i \in 1 .. Len(copy) : p[i + 3] = b[i]
    BY <1>8, <2>1, <2>3
  <2> QED
    BY <1>8, <2>1, <2>3, <2>4, <2>5
<1> HIDE DEF p
<1>10. \A i \in 1 .. Len(copy) + 6 :
          \/ i \in {1, 2, 3, Len(copy) + 4, Len(copy) + 5, Len(copy) + 6}
          \/ \E k \in 1 .. Len(copy) : i = k + 3
  <2> SUFFICES ASSUME NEW i \in 1 .. Len(copy) + 6,
                      i \notin {1, 2, 3, Len(copy) + 4, Len(copy) + 5, Len(copy) + 6}
               PROVE  \E k \in 1 .. Len(copy) : i = k + 3
    OBVIOUS
  <2>1. i - 3 \in 1 .. Len(copy) /\ i = (i - 3) + 3
    BY <1>8
  <2> QED
    BY <2>1
<1>11. \A i \in 1 .. Len(copy) + 6 : Sound(p[i]) /\ p[i].th = th
  <2> SUFFICES ASSUME NEW i \in 1 .. Len(copy) + 6 PROVE Sound(p[i]) /\ p[i].th = th
    OBVIOUS
  <2>1. CASE i \in {1, 2, 3, Len(copy) + 4, Len(copy) + 5, Len(copy) + 6}
    BY <1>4, <1>5, <1>6, <1>7, <1>9, <2>1
  <2>2. CASE \E k \in 1 .. Len(copy) : i = k + 3
    BY <1>4, <1>5, <1>8, <1>9, <2>2
  <2> QED
    BY <1>10, <2>1, <2>2
<1> QED
  BY <1>1, <1>5, <1>6, <1>7, <1>8, <1>9, <1>11 DEF u

(* A fork has its plan to send. *)
LEMMA ForkCopyBase ==
    ASSUME BaseInv, ForkCopy
    PROVE  BaseInv'
<1> USE DEF BaseInv
<1>1. PICK m \in 0 .. Len(Replay(file[Main])) :
         LET copy == SubSeq(Replay(file[Main]), 1, m)
         IN  /\ transcript' = [transcript EXCEPT ![busy.th] = copy]
             /\ todo' = Plan(busy.th, copy)
  BY DEF ForkCopy
<1> DEFINE copy == SubSeq(Replay(file[Main]), 1, m)
<1>2. file[Main] \in Seq(Lines) /\ busy.th \in Forks /\ busy.th \in ThreadIds
  BY DEF ForkCopy, Ready, CountInv, TypeOK, ThreadIds
<1>3. copy \in Seq(Items)
  <2>1. Replay(file[Main]) \in Seq(Items)
    BY <1>2, ReplayFacts
  <2> QED
    BY <2>1
<1>4. transcript' = [transcript EXCEPT ![busy.th] = copy] /\ todo' = Plan(busy.th, copy)
  BY <1>1
<1> HIDE DEF copy
<1>5. /\ todo' \in Seq(Ops) /\ \A i \in DOMAIN todo' : Sound(todo'[i])
      /\ Len(todo') > 0
  <2>1. Len(copy) \in Nat
    BY <1>3
  <2>2. /\ Plan(busy.th, copy) \in Seq(Ops) /\ Len(Plan(busy.th, copy)) = Len(copy) + 6
        /\ \A i \in 1 .. Len(copy) + 6 : Sound(Plan(busy.th, copy)[i])
    BY <1>2, <1>3, PlanFacts
  <2> QED
    BY <1>4, <2>1, <2>2
<1>6. /\ life = "up" /\ busy # Free
      /\ busy' = Free
      /\ resident' = resident \union {busy.th}
      /\ reused' \in {reused, reused \union {busy.th}}
      /\ UNCHANGED <<process, turnVars, queue, writer, disk, index, counts, faults, sent,
                     owed, ended, lost>>
  BY DEF ForkCopy, Ready
<1> USE DEF process, turnVars, disk, index, counts
<1>7. TypeOK'
  BY <1>2, <1>3, <1>4, <1>5, <1>6 DEF TypeOK
<1>8. CountInv'
  BY <1>2, <1>6 DEF CountInv
<1>9. ChannelInv'
  BY <1>5, <1>6 DEF ChannelInv
<1>10. LifeInv'
  BY <1>6 DEF LifeInv
<1> QED
  BY <1>7, <1>8, <1>9, <1>10

(* A fork that reads nothing is over. *)
LEMMA ForkFailsBase ==
    ASSUME BaseInv, ForkFails
    PROVE  BaseInv'
<1> USE DEF BaseInv
<1>1. /\ life = "up" /\ busy' = Free
      /\ UNCHANGED <<process, turnVars, todo, queue, writer, disk, index, memory, counts,
                     faults, sent, saves, lost>>
  BY DEF ForkFails, Ready
<1> USE DEF process, turnVars, disk, index, memory, counts, saves
<1>2. TypeOK'
  BY <1>1 DEF TypeOK
<1>3. CountInv'
  BY <1>1 DEF CountInv
<1>4. ChannelInv'
  BY <1>1 DEF ChannelInv
<1>5. LifeInv'
  BY <1>1 DEF LifeInv
<1> QED
  BY <1>2, <1>3, <1>4, <1>5

(* A resume adds what it read to the transcript. *)
LEMMA ResumeReadBase ==
    ASSUME BaseInv, ResumeRead
    PROVE  BaseInv'
<1> USE DEF BaseInv
<1>1. /\ life = "up" /\ busy # Free /\ busy' = Free
      /\ UNCHANGED <<process, turnVars, todo, queue, writer, disk, index, counts, faults,
                     sent, saves, lost>>
  BY DEF ResumeRead, Ready
<1>2. busy.th \in ThreadIds /\ file[busy.th] \in Seq(Lines)
  BY <1>1 DEF TypeOK
<1>3. Grouped(file[busy.th]) \in Seq(Items)
  BY <1>2, GroupedType
<1>4. /\ resident' \subseteq ThreadIds
      /\ transcript' \in [ThreadIds -> Seq(Items)]
  <2>1. transcript \in [ThreadIds -> Seq(Items)] /\ resident \subseteq ThreadIds
    BY DEF TypeOK
  <2>2. transcript[busy.th] \o Grouped(file[busy.th]) \in Seq(Items)
    BY <1>2, <1>3, <2>1
  <2> QED
    BY <1>2, <2>1, <2>2 DEF ResumeRead, memory
<1> USE DEF process, turnVars, disk, index, counts, saves
<1>5. TypeOK'
  BY <1>1, <1>4 DEF TypeOK
<1>6. CountInv'
  BY <1>1 DEF CountInv
<1>7. ChannelInv'
  BY <1>1 DEF ChannelInv
<1>8. LifeInv'
  BY <1>1 DEF LifeInv
<1> QED
  BY <1>5, <1>6, <1>7, <1>8

(* What the writer does with the next operation *)
LEMMA TakeFacts ==
    ASSUME BaseInv, queue # <<>>, queue' = Tail(queue)
    PROVE  /\ Sound(Head(queue)) /\ Head(queue) = queue[1]
           /\ queue' \in Seq(Ops) /\ Len(queue') = Len(queue) - 1
           /\ \A i \in DOMAIN queue' : queue'[i] = queue[i + 1] /\ i + 1 \in DOMAIN queue
                                       /\ Sound(queue'[i])
           /\ Len(queue') <= ChannelCap
<1>1. queue \in Seq(Ops) /\ \A i \in DOMAIN queue : Sound(queue[i])
  BY DEF BaseInv, TypeOK, ChannelInv
<1>2. Len(queue) <= ChannelCap
  BY DEF BaseInv, TypeOK
<1> QED
  BY <1>1, <1>2, PersistenceConstants

(* After the file comes the index, for an operation that is indexed. *)
LEMMA ToIndexFacts ==
    ASSUME NEW op, Sound(op)
    PROVE  /\ ToIndex(op) \in [stage : {"sync", "index"}, op : Ops] \union {Idle}
           /\ ToIndex(op) # Idle => ToIndex(op).stage = "index" /\ ToIndex(op).op = op
                                    /\ Indexed(op)
           /\ ToIndex(op).stage # "sync"
           /\ ToIndex(op).stage = "index" => ToIndex(op) # Idle
           /\ Indexed(op) => ToIndex(op) = [stage |-> "index", op |-> op]
BY DEF ToIndex, Idle, Sound

(* After the line comes the sync, at a save point, and else the index. *)
LEMMA AfterAppendFacts ==
    ASSUME NEW op, Sound(op)
    PROVE  /\ AfterAppend(op) \in [stage : {"sync", "index"}, op : Ops] \union {Idle}
           /\ AfterAppend(op) # Idle => AfterAppend(op).op = op
           /\ AfterAppend(op).stage = "sync" => op.op \in {"TurnEnded", "SetLeaf", "Flush"}
           /\ AfterAppend(op).stage = "index" => Indexed(op) /\ op.op # "TurnEnded"
           /\ AfterAppend(op).stage \in {"sync", "index"} => AfterAppend(op) # Idle
<1>1. CASE op.op \in {"TurnEnded", "SetLeaf", "Flush"}
  BY <1>1 DEF AfterAppend, Sound, Idle
<1>2. CASE op.op \notin {"TurnEnded", "SetLeaf", "Flush"}
  BY <1>2, ToIndexFacts DEF AfterAppend, Idle
<1> QED
  BY <1>1, <1>2

(* What happens to the rollouts when the writer takes an operation: the one  *)
(* of its thread gains a line, or its torn end turns bad, or neither.        *)
TakesInto(op) ==
    LET th == op.th
        n == Len(file[th])
    IN  /\ \A x \in ThreadIds : x # th => file'[x] = file[x] /\ synced'[x] = synced[x]
        /\ \/ /\ ~Writes(op)
              /\ file' = file /\ synced' = synced /\ opened' = opened /\ header' = header
              /\ lost' = lost
           \/ /\ Writes(op) /\ EndsTorn(file[th])
              /\ Len(file'[th]) = n /\ file'[th][n] = Bad /\ n > 0 /\ file[th][n] = Torn
              /\ \A i \in 1 .. n : i # n => file'[th][i] = file[th][i]
              /\ synced'[th] = n - 1 /\ lost' = lost \union Miss(op)
              /\ opened' = opened \union {th}
              /\ header' = header \union IF Heads(op) THEN {th} ELSE {}
           \/ /\ Writes(op) /\ ~EndsTorn(file[th])
              /\ file'[th] = Append(file[th], LineOf(op))
              /\ Len(file'[th]) = n + 1 /\ file'[th][n + 1] = LineOf(op)
              /\ \A i \in 1 .. n : file'[th][i] = file[th][i]
              /\ synced'[th] = synced[th] /\ lost' = lost
              /\ opened' = opened \union {th}
              /\ header' = header \union IF Heads(op) THEN {th} ELSE {}

(* That is what the writer does with the next operation. *)
LEMMA TakeDisk ==
    ASSUME BaseInv, WriterTake
    PROVE  /\ TakesInto(Head(queue))
           /\ file' \in [ThreadIds -> Seq(Lines)] /\ synced' \in [ThreadIds -> Nat]
           /\ \A x \in ThreadIds : synced'[x] \in 0 .. Len(file'[x])
<1> DEFINE op == Head(queue)
           th == op.th
           n == Len(file[th])
<1>1. queue # <<>> /\ queue' = Tail(queue)
  BY DEF WriterTake
<1>2. Sound(op) /\ op \in Ops /\ th \in ThreadIds
  BY <1>1, TakeFacts, OpKinds DEF Sound
<1>3. /\ file \in [ThreadIds -> Seq(Lines)] /\ synced \in [ThreadIds -> Nat]
      /\ \A x \in ThreadIds : synced[x] \in 0 .. Len(file[x])
      /\ n \in Nat /\ file[th] \in Seq(Lines)
  BY <1>2 DEF BaseInv, TypeOK, CountInv
<1>4. /\ Writes(op) => /\ opened' = opened \union {th}
                       /\ header' = header \union IF Heads(op) THEN {th} ELSE {}
      /\ Writes(op) /\ EndsTorn(file[th]) =>
             /\ file' = [file EXCEPT ![th][n] = Bad]
             /\ synced' = [synced EXCEPT ![th] = n - 1]
             /\ lost' = lost \union Miss(op)
      /\ Writes(op) /\ ~EndsTorn(file[th]) =>
             /\ file' = [file EXCEPT ![th] = Append(@, LineOf(op))]
             /\ synced' = synced /\ lost' = lost
      /\ ~Writes(op) =>
             file' = file /\ synced' = synced /\ opened' = opened /\ header' = header
             /\ lost' = lost
  BY DEF WriterTake, disk
<1> HIDE DEF op
<1>5. CASE ~Writes(op)
  <2>1. TakesInto(op)
    BY <1>4, <1>5 DEF TakesInto
  <2>2. file' = file /\ synced' = synced
    BY <1>4, <1>5
  <2> QED
    BY <1>3, <2>1, <2>2 DEF op
<1>6. CASE Writes(op) /\ EndsTorn(file[th])
  <2>1. n > 0 /\ file[th][n] = Torn
    BY <1>3, <1>6 DEF EndsTorn
  <2>2. Bad \in Lines
    BY DEF Lines
  <2>3. /\ [file[th] EXCEPT ![n] = Bad] \in Seq(Lines)
        /\ Len([file[th] EXCEPT ![n] = Bad]) = n
    BY <1>3, <2>1, <2>2
  <2>4. /\ file'[th] = [file[th] EXCEPT ![n] = Bad] /\ synced'[th] = n - 1
        /\ \A x \in ThreadIds : x # th => file'[x] = file[x] /\ synced'[x] = synced[x]
        /\ file' = [y \in ThreadIds |-> file'[y]] /\ synced' = [y \in ThreadIds |-> synced'[y]]
    BY <1>2, <1>3, <1>4, <1>6
  <2>5. file'[th][n] = Bad /\ \A i \in 1 .. n : i # n => file'[th][i] = file[th][i]
    BY <1>3, <2>1, <2>4
  <2>6. file' \in [ThreadIds -> Seq(Lines)]
    <3>1. \A x \in ThreadIds : file'[x] \in Seq(Lines)
      BY <1>3, <2>3, <2>4
    <3> QED
      BY <2>4, <3>1
  <2>7. synced' \in [ThreadIds -> Nat]
    <3>1. \A x \in ThreadIds : synced'[x] \in Nat
      BY <1>3, <2>1, <2>4
    <3> QED
      BY <2>4, <3>1
  <2>8. \A x \in ThreadIds : synced'[x] \in 0 .. Len(file'[x])
    <3> SUFFICES ASSUME NEW x \in ThreadIds PROVE synced'[x] \in 0 .. Len(file'[x])
      OBVIOUS
    <3>1. CASE x = th
      BY <1>3, <2>1, <2>3, <2>4, <3>1
    <3>2. CASE x # th
      BY <1>3, <2>4, <3>2
    <3> QED
      BY <3>1, <3>2
  <2>9. TakesInto(op)
    BY <1>4, <1>6, <2>1, <2>3, <2>4, <2>5 DEF TakesInto
  <2> QED
    BY <2>6, <2>7, <2>8, <2>9 DEF op
<1>7. CASE Writes(op) /\ ~EndsTorn(file[th])
  <2>1. LineOf(op) \in Lines
    BY <1>2, <1>7, LineTypes DEF Writes, Heads
  <2>2. /\ Append(file[th], LineOf(op)) \in Seq(Lines)
        /\ Len(Append(file[th], LineOf(op))) = n + 1
        /\ Append(file[th], LineOf(op))[n + 1] = LineOf(op)
        /\ \A i \in 1 .. n : Append(file[th], LineOf(op))[i] = file[th][i]
    BY <1>3, <2>1
  <2>3. /\ file'[th] = Append(file[th], LineOf(op))
        /\ \A x \in ThreadIds : x # th => file'[x] = file[x]
        /\ file' = [y \in ThreadIds |-> file'[y]]
    BY <1>2, <1>3, <1>4, <1>7
  <2>4. file' \in [ThreadIds -> Seq(Lines)]
    <3>1. \A x \in ThreadIds : file'[x] \in Seq(Lines)
      BY <1>3, <2>2, <2>3
    <3> QED
      BY <2>3, <3>1
  <2>5. \A x \in ThreadIds : synced'[x] \in 0 .. Len(file'[x])
    <3>1. \A x \in ThreadIds : Len(file'[x]) >= Len(file[x]) /\ Len(file'[x]) \in Nat
      <4> SUFFICES ASSUME NEW x \in ThreadIds
                   PROVE  Len(file'[x]) >= Len(file[x]) /\ Len(file'[x]) \in Nat
        OBVIOUS
      <4>1. CASE x = th
        BY <1>3, <2>2, <2>3, <4>1
      <4>2. CASE x # th
        <5>1. file[x] \in Seq(Lines) /\ file'[x] = file[x]
          BY <1>3, <2>3, <4>2
        <5> QED
          BY <5>1
      <4> QED
        BY <4>1, <4>2
    <3>2. \A x \in ThreadIds : synced'[x] = synced[x] /\ synced[x] \in Nat /\ synced[x] <= Len(file[x])
      BY <1>3, <1>4, <1>7
    <3>3. \A x \in ThreadIds : Len(file[x]) \in Nat
      BY <1>3
    <3> QED
      BY <3>1, <3>2, <3>3
  <2>6. TakesInto(op)
    BY <1>4, <1>7, <2>2, <2>3 DEF TakesInto
  <2> QED
    BY <1>3, <1>4, <1>7, <2>4, <2>5, <2>6 DEF op
<1> QED
  BY <1>5, <1>6, <1>7

(* The writer takes an operation ... *)
LEMMA WriterTakeBase ==
    ASSUME BaseInv, WriterTake
    PROVE  BaseInv'
<1> USE DEF BaseInv
<1> DEFINE op == Head(queue)
<1>1. queue # <<>> /\ queue' = Tail(queue) /\ writer' = AfterAppend(op) /\ writer = Idle
  BY DEF WriterTake
<1>2. /\ Sound(op) /\ op \in Ops /\ op.th \in ThreadIds
      /\ queue' \in Seq(Ops) /\ Len(queue') <= ChannelCap
      /\ \A i \in DOMAIN queue' : Sound(queue'[i])
  BY <1>1, TakeFacts, OpKinds DEF Sound
<1>3. /\ TakesInto(op)
      /\ file' \in [ThreadIds -> Seq(Lines)] /\ synced' \in [ThreadIds -> Nat]
      /\ \A x \in ThreadIds : synced'[x] \in 0 .. Len(file'[x])
  BY TakeDisk
<1>4. /\ writer' \in [stage : {"sync", "index"}, op : Ops] \union {Idle}
      /\ writer' # Idle => writer'.op = op
      /\ writer'.stage = "sync" => op.op \in {"TurnEnded", "SetLeaf", "Flush"}
      /\ writer'.stage = "index" => Indexed(op)
      /\ writer'.stage \in {"sync", "index"} => writer' # Idle
  BY <1>1, <1>2, AfterAppendFacts
<1> HIDE DEF op
<1>5. /\ opened \subseteq opened' /\ header' \subseteq opened' /\ opened' \subseteq ThreadIds
      /\ op.op \in {"TurnEnded", "SetLeaf"} => op.th \in opened'
  <2>1. opened \subseteq ThreadIds /\ header \subseteq opened
    BY DEF TypeOK
  <2> QED
    BY <1>2, <1>3, <2>1 DEF TakesInto, Writes, Heads
<1>6. \A th \in header' : file'[th] # <<>>
  <2> SUFFICES ASSUME NEW th \in header' PROVE file'[th] # <<>>
    OBVIOUS
  <2>1. th \in ThreadIds /\ file[th] \in Seq(Lines) /\ file'[th] \in Seq(Lines)
    BY <1>3, <1>5 DEF TypeOK
  <2>2. th \in header => Len(file[th]) > 0
    BY <2>1 DEF ChannelInv
  <2>3. Len(file'[th]) > 0
    BY <1>3, <2>1, <2>2 DEF TakesInto
  <2> QED
    BY <2>3
<1>7. /\ UNCHANGED <<process, turnVars, actorVars, index, memory, counts, faults, sent,
                     saves>>
      /\ life \in {"up", "closing"}
  BY DEF WriterTake, WriterRuns
<1> USE DEF process, turnVars, actorVars, index, memory, counts, saves
<1>8. TypeOK'
  BY <1>2, <1>3, <1>4, <1>5, <1>7 DEF TypeOK
<1>9. CountInv'
  BY <1>3, <1>7 DEF CountInv
<1>10. ChannelInv'
  BY <1>2, <1>4, <1>5, <1>6, <1>7 DEF ChannelInv, Indexed
<1>11. LifeInv'
  BY <1>7 DEF LifeInv
<1> QED
  BY <1>8, <1>9, <1>10, <1>11

(* ... or cannot open the file for it. *)
LEMMA OpenFailsBase ==
    ASSUME BaseInv, OpenFails
    PROVE  BaseInv'
<1> USE DEF BaseInv
<1> DEFINE op == Head(queue)
<1>1. queue # <<>> /\ queue' = Tail(queue) /\ writer' = ToIndex(op)
  BY DEF OpenFails
<1>2. /\ Sound(op)
      /\ queue' \in Seq(Ops) /\ Len(queue') <= ChannelCap
      /\ \A i \in DOMAIN queue' : Sound(queue'[i])
  BY <1>1, TakeFacts
<1>3. /\ writer' \in [stage : {"sync", "index"}, op : Ops] \union {Idle}
      /\ writer' # Idle => writer'.op = op /\ Indexed(op)
      /\ writer'.stage # "sync"
      /\ writer'.stage = "index" => writer' # Idle
  BY <1>1, <1>2, ToIndexFacts
<1> HIDE DEF op
<1>4. /\ UNCHANGED <<process, turnVars, actorVars, disk, index, memory, counts, sent, saves>>
      /\ life \in {"up", "closing"} /\ items + faults < MaxEvents /\ faults' = faults + 1
  BY DEF OpenFails, WriterRuns, InBound
<1> USE DEF process, turnVars, actorVars, disk, index, memory, counts, saves
<1>5. TypeOK'
  BY <1>2, <1>3, <1>4 DEF TypeOK
<1>6. CountInv'
  BY <1>4, PersistenceConstants DEF CountInv
<1>7. ChannelInv'
  BY <1>2, <1>3, <1>4 DEF ChannelInv
<1>8. LifeInv'
  BY <1>4 DEF LifeInv
<1> QED
  BY <1>5, <1>6, <1>7, <1>8

(* The acknowledgement *)
LEMMA AfterSyncFacts ==
    ASSUME BaseInv, writer # Idle, AfterSync(writer.op)
    PROVE  /\ writer' \in [stage : {"sync", "index"}, op : Ops] \union {Idle}
           /\ writer' # Idle => writer'.op = writer.op /\ Indexed(writer.op)
           /\ writer'.stage # "sync"
           /\ writer'.stage = "index" => writer' # Idle
           /\ busy' \in {busy, [busy EXCEPT !.wait = "acked"]}
           /\ busy' # busy => writer.op.op = "Flush" /\ writer.op.ack
<1>1. Sound(writer.op)
  BY DEF BaseInv, ChannelInv
<1>2. writer' = ToIndex(writer.op)
  BY DEF AfterSync
<1>3. /\ writer' \in [stage : {"sync", "index"}, op : Ops] \union {Idle}
      /\ writer' # Idle => writer'.op = writer.op /\ Indexed(writer.op)
      /\ writer'.stage # "sync"
      /\ writer'.stage = "index" => writer' # Idle
  BY <1>1, <1>2, ToIndexFacts
<1> QED
  BY <1>3 DEF AfterSync

(* An acknowledgement nobody waits for changes nothing. *)
LEMMA FreeStaysFree == [Free EXCEPT !.wait = "acked"] = Free
BY DEF Free

(* A sync puts the whole rollout on the disk. *)
LEMMA WriterSyncBase ==
    ASSUME BaseInv, WriterSync
    PROVE  BaseInv'
<1> USE DEF BaseInv
<1>1. /\ writer # Idle /\ writer.stage = "sync" /\ AfterSync(writer.op)
      /\ life \in {"up", "closing"}
      /\ synced' = IF writer.op.th \in opened
                   THEN [synced EXCEPT ![writer.op.th] = Len(file[writer.op.th])] ELSE synced
      /\ owed' \in {owed, owed \union Due(writer.op.turn)}
      /\ owed' # owed => writer.op.op = "TurnEnded"
      /\ UNCHANGED <<process, turnVars, todo, queue, opened, header, file, index, memory,
                     counts, faults, sent, lost, reused>>
  BY DEF WriterSync, WriterRuns
<1>2. /\ writer' \in [stage : {"sync", "index"}, op : Ops] \union {Idle}
      /\ writer' # Idle => writer'.op = writer.op /\ Indexed(writer.op)
      /\ writer'.stage # "sync"
      /\ writer'.stage = "index" => writer' # Idle
      /\ busy' \in {busy, [busy EXCEPT !.wait = "acked"]}
  BY <1>1, AfterSyncFacts
<1>3. Sound(writer.op) /\ writer.op \in Ops /\ writer.op.th \in ThreadIds
  BY <1>1, OpKinds DEF ChannelInv, Sound
<1>4. busy = Free => busy' = Free
  BY <1>2, FreeStaysFree
<1>5. busy # Free => /\ busy' # Free
                     /\ busy' \in [task : {"fork", "resume"}, th : ThreadIds,
                                   wait : {"waiting", "acked", "gone"}]
                     /\ busy'.task = busy.task /\ busy'.th = busy.th
  <2>1. busy # Free => busy \in [task : {"fork", "resume"}, th : ThreadIds,
                                 wait : {"waiting", "acked", "gone"}]
    BY DEF TypeOK
  <2> QED
    BY <1>2, <2>1 DEF Free
<1>6. /\ synced' \in [ThreadIds -> Nat]
      /\ \A th \in ThreadIds : synced'[th] \in 0 .. Len(file[th])
  <2>1. \A th \in ThreadIds : file[th] \in Seq(Lines) /\ synced[th] \in 0 .. Len(file[th])
    BY DEF TypeOK
  <2>2. synced \in [ThreadIds -> Nat]
    BY DEF CountInv
  <2>3. \A th \in ThreadIds : Len(file[th]) \in Nat
    BY <2>1
  <2> QED
    BY <1>1, <1>3, <2>1, <2>2, <2>3
<1>7. owed' \subseteq [th : ThreadIds, item : Items]
  <2>1. writer.op.op = "TurnEnded" => writer.op.turn.th \in ThreadIds
    BY <1>3 DEF Sound
  <2>2. \A s \in sent : s.item \in Items
    BY DEF TypeOK
  <2>3. writer.op.op = "TurnEnded" => Due(writer.op.turn) \subseteq [th : ThreadIds, item : Items]
    BY <2>1, <2>2 DEF Due
  <2> QED
    BY <1>1, <2>3 DEF TypeOK
<1> USE DEF process, turnVars, index, memory, counts
<1>8. TypeOK'
  BY <1>1, <1>2, <1>4, <1>5, <1>6, <1>7 DEF TypeOK
<1>9. CountInv'
  BY <1>1, <1>4, <1>5, <1>6 DEF CountInv
<1>10. ChannelInv'
  BY <1>1, <1>2, <1>3 DEF ChannelInv
<1>11. LifeInv'
  BY <1>1, <1>4, <1>5 DEF LifeInv
<1> QED
  BY <1>8, <1>9, <1>10, <1>11

(* A failed one puts nothing there. *)
LEMMA SyncFailsBase ==
    ASSUME BaseInv, SyncFails
    PROVE  BaseInv'
<1> USE DEF BaseInv
<1>1. /\ writer # Idle /\ writer.stage = "sync" /\ AfterSync(writer.op)
      /\ life \in {"up", "closing"}
      /\ items + faults < MaxEvents /\ faults' = faults + 1
      /\ UNCHANGED <<process, turnVars, todo, queue, disk, index, memory, counts, sent,
                     saves, lost>>
  BY DEF SyncFails, WriterRuns, InBound
<1>2. /\ writer' \in [stage : {"sync", "index"}, op : Ops] \union {Idle}
      /\ writer' # Idle => writer'.op = writer.op /\ Indexed(writer.op)
      /\ writer'.stage # "sync"
      /\ writer'.stage = "index" => writer' # Idle
      /\ busy' \in {busy, [busy EXCEPT !.wait = "acked"]}
  BY <1>1, AfterSyncFacts
<1>3. Sound(writer.op)
  BY <1>1 DEF ChannelInv
<1>4. busy = Free => busy' = Free
  BY <1>2, FreeStaysFree
<1>5. busy # Free => /\ busy' # Free
                     /\ busy' \in [task : {"fork", "resume"}, th : ThreadIds,
                                   wait : {"waiting", "acked", "gone"}]
                     /\ busy'.task = busy.task /\ busy'.th = busy.th
  <2>1. busy # Free => busy \in [task : {"fork", "resume"}, th : ThreadIds,
                                 wait : {"waiting", "acked", "gone"}]
    BY DEF TypeOK
  <2> QED
    BY <1>2, <2>1 DEF Free
<1> USE DEF process, turnVars, disk, index, memory, counts, saves
<1>8. TypeOK'
  BY <1>1, <1>2, <1>4, <1>5 DEF TypeOK
<1>9. CountInv'
  BY <1>1, <1>4, <1>5, PersistenceConstants DEF CountInv
<1>10. ChannelInv'
  BY <1>1, <1>2, <1>3 DEF ChannelInv
<1>11. LifeInv'
  BY <1>1, <1>4, <1>5 DEF LifeInv
<1> QED
  BY <1>8, <1>9, <1>10, <1>11

(* Only known threads and turns come into the index. *)
LEMMA WriterIndexBase ==
    ASSUME BaseInv, WriterIndex
    PROVE  BaseInv'
<1> USE DEF BaseInv
<1>1. /\ writer # Idle /\ writer' = Idle
      /\ life \in {"up", "closing"}
      /\ UNCHANGED <<process, turnVars, actorVars, queue, disk, memory, counts, faults,
                     sent, saves, lost>>
  BY DEF WriterIndex, WriterRuns
<1>2. Sound(writer.op) /\ writer.op \in Ops /\ writer.op.th \in ThreadIds
  BY <1>1, OpKinds DEF ChannelInv, Sound
<1>3. DOMAIN rows' \subseteq ThreadIds
  BY <1>2 DEF WriterIndex, Put, TypeOK
<1>4. DOMAIN turns' \subseteq Turns
  <2>1. writer.op.op \in {"TurnStarted", "TurnEnded"} => writer.op.turn \in Turns
    BY <1>2, OpKinds
  <2>2. DOMAIN turns \subseteq Turns
    BY DEF TypeOK
  <2>3. \/ turns' = turns
        \/ writer.op.op = "TurnStarted" /\ turns' = Put(turns, writer.op.turn, "inProgress")
        \/ writer.op.op = "TurnEnded" /\ turns' = Put(turns, writer.op.turn, "completed")
    BY DEF WriterIndex
  <2> QED
    BY <2>1, <2>2, <2>3 DEF Put
<1>5. Idle \in [stage : {"sync", "index"}, op : Ops] \union {Idle} /\ Idle.stage = "idle"
  BY DEF Idle
<1> USE DEF process, turnVars, actorVars, disk, memory, counts, saves
<1>6. TypeOK'
  BY <1>1, <1>3, <1>4, <1>5 DEF TypeOK
<1>7. CountInv'
  BY <1>1 DEF CountInv
<1>8. ChannelInv'
  BY <1>1, <1>5 DEF ChannelInv
<1>9. LifeInv'
  BY <1>1 DEF LifeInv
<1> QED
  BY <1>6, <1>7, <1>8, <1>9

(* The types of nothing *)
LEMMA Nothing ==
    /\ <<>> \in Seq(Ops) /\ Len(<<>>) = 0 /\ DOMAIN <<>> = {}
    /\ Idle.stage = "idle"
    /\ [th \in ThreadIds |-> <<>>] \in [ThreadIds -> Seq(Items)]
BY DEF Idle

(* The engine is gone, the writer goes on. *)
LEMMA CloseBase ==
    ASSUME BaseInv, Close
    PROVE  BaseInv'
<1> USE DEF BaseInv
<1>1. /\ life' = "closing"
      /\ counter' = 0 /\ active' = None /\ ending' = {} /\ stray' = {}
      /\ busy' = Free /\ todo' = <<>>
      /\ resident' = {} /\ transcript' = [th \in ThreadIds |-> <<>>]
      /\ UNCHANGED <<lives, queue, writer, disk, index, counts, faults, sent, saves, lost>>
  BY DEF Close, ForgetEngine
<1>2. 0 \in 0 .. MaxTasks /\ tasks \in Nat
  BY PersistenceConstants DEF CountInv
<1> USE DEF disk, index, counts, saves
<1>3. TypeOK'
  BY <1>1, <1>2, Nothing DEF TypeOK
<1>4. CountInv'
  BY <1>1, <1>2 DEF CountInv
<1>5. ChannelInv'
  BY <1>1, Nothing DEF ChannelInv
<1>6. LifeInv'
  BY <1>1 DEF LifeInv
<1> QED
  BY <1>3, <1>4, <1>5, <1>6

(* The writer has drained the channel and syncs what it opened. *)
LEMMA WriterExitsBase ==
    ASSUME BaseInv, WriterExits
    PROVE  BaseInv'
<1> USE DEF BaseInv
<1>1. /\ life' = "exited" /\ life = "closing"
      /\ queue' = <<>> /\ writer' = Idle
      /\ opened' = {} /\ header' = {}
      /\ faults' \in {faults, faults + 1}
      /\ faults' # faults => items + faults < MaxEvents
      /\ \E failed \in SUBSET opened :
             synced' = [th \in ThreadIds |-> IF th \in opened \ failed
                                             THEN Len(file[th]) ELSE synced[th]]
      /\ UNCHANGED <<lives, turnVars, actorVars, file, index, memory, counts, sent, saves,
                     lost>>
  BY DEF WriterExits, ForgetWriter, InBound
<1>2. /\ synced' \in [ThreadIds -> Nat]
      /\ \A th \in ThreadIds : synced'[th] \in 0 .. Len(file[th])
  <2>1. \A th \in ThreadIds : file[th] \in Seq(Lines) /\ synced[th] \in 0 .. Len(file[th])
    BY DEF TypeOK
  <2>2. \A th \in ThreadIds : Len(file[th]) \in Nat
    BY <2>1
  <2> QED
    BY <1>1, <2>1, <2>2
<1> USE DEF turnVars, actorVars, index, memory, counts, saves
<1>3. TypeOK'
  <2>1. Len(queue') <= ChannelCap
    BY <1>1, Nothing, PersistenceConstants
  <2> QED
    BY <1>1, <1>2, <2>1, Nothing DEF TypeOK
<1>4. CountInv'
  BY <1>1, <1>2, PersistenceConstants DEF CountInv
<1>5. ChannelInv'
  BY <1>1, Nothing DEF ChannelInv
<1>6. LifeInv'
  BY <1>1 DEF LifeInv
<1> QED
  BY <1>3, <1>4, <1>5, <1>6

(* A crash keeps the synced lines of a rollout and at most a prefix of what  *)
(* it had, with a torn line at the end perhaps.                              *)
KeptBy(f, n, g) ==
    /\ g \in Seq(Lines) /\ n <= Len(g)
    /\ \A i \in 1 .. Len(g) : (i <= Len(f) /\ g[i] = f[i]) \/ (i > n /\ g[i] = Torn)
    /\ \A i \in 1 .. n : g[i] = f[i]

(* That is what Survivors leaves. *)
LEMMA SurvivorsKept ==
    ASSUME NEW f \in Seq(Lines), NEW n \in 0 .. Len(f), NEW g \in Survivors(f, n)
    PROVE  KeptBy(f, n, g)
<1>1. CASE \E k \in n .. Len(f) : g = SubSeq(f, 1, k)
  <2>1. PICK k \in n .. Len(f) : g = SubSeq(f, 1, k)
    BY <1>1
  <2>2. g \in Seq(Lines) /\ Len(g) = k /\ \A i \in 1 .. k : g[i] = f[i]
    BY <2>1
  <2> QED
    BY <2>1, <2>2 DEF KeptBy
<1>2. CASE \E k \in n .. (Len(f) - 1) : g = Append(SubSeq(f, 1, k), Torn)
  <2>1. PICK k \in n .. (Len(f) - 1) : g = Append(SubSeq(f, 1, k), Torn)
    BY <1>2
  <2> DEFINE s == SubSeq(f, 1, k)
  <2>2. s \in Seq(Lines) /\ Len(s) = k /\ \A i \in 1 .. k : s[i] = f[i]
    BY <2>1
  <2>3. Torn \in Lines
    BY DEF Lines
  <2> HIDE DEF s
  <2>4. /\ g \in Seq(Lines) /\ Len(g) = k + 1 /\ g[k + 1] = Torn
        /\ \A i \in 1 .. k : g[i] = f[i]
    BY <2>1, <2>2, <2>3 DEF s
  <2> QED
    BY <2>1, <2>4 DEF KeptBy
<1> QED
  BY <1>1, <1>2 DEF Survivors

(* So a crash does with every rollout; what is left is on the disk. *)
LEMMA CrashFacts ==
    ASSUME BaseInv, Crash
    PROVE  /\ \A th \in ThreadIds : KeptBy(file[th], synced[th], file'[th])
           /\ \A th \in ThreadIds : synced'[th] = Len(file'[th])
           /\ file' \in [ThreadIds -> Seq(Lines)] /\ synced' \in [ThreadIds -> Nat]
<1>1. PICK left :
        /\ \A th \in Dirty : left[th] \in Survivors(file[th], synced[th])
        /\ file' = [th \in ThreadIds |-> IF th \in Dirty THEN left[th] ELSE file[th]]
        /\ synced' = [th \in ThreadIds |-> Len(file'[th])]
  BY DEF Crash
<1>2. \A th \in ThreadIds : file[th] \in Seq(Lines) /\ synced[th] \in 0 .. Len(file[th])
  BY DEF BaseInv, TypeOK
<1>3. \A th \in ThreadIds : KeptBy(file[th], synced[th], file'[th])
  <2> SUFFICES ASSUME NEW th \in ThreadIds
               PROVE  KeptBy(file[th], synced[th], file'[th])
    OBVIOUS
  <2>1. CASE th \in Dirty
    <3>1. file'[th] \in Survivors(file[th], synced[th])
      BY <1>1, <2>1
    <3> QED
      BY <1>2, <3>1, SurvivorsKept
  <2>2. CASE th \notin Dirty
    BY <1>1, <1>2, <2>2 DEF KeptBy
  <2> QED
    BY <2>1, <2>2
<1>4. \A th \in ThreadIds : file'[th] \in Seq(Lines)
  BY <1>3 DEF KeptBy
<1>5. file' \in [ThreadIds -> Seq(Lines)]
  BY <1>1, <1>4
<1>6. \A th \in ThreadIds : Len(file'[th]) \in Nat
  BY <1>4
<1> QED
  BY <1>1, <1>3, <1>5, <1>6

(* After a crash there are only the files and the index. *)
LEMMA CrashBase ==
    ASSUME BaseInv, Crash
    PROVE  BaseInv'
<1> USE DEF BaseInv
<1>1. /\ life' = "crashed"
      /\ counter' = 0 /\ active' = None /\ ending' = {} /\ stray' = {}
      /\ busy' = Free /\ todo' = <<>>
      /\ resident' = {} /\ transcript' = [th \in ThreadIds |-> <<>>]
      /\ queue' = <<>> /\ writer' = Idle
      /\ opened' = {} /\ header' = {} /\ sent' = {}
      /\ UNCHANGED <<lives, index, counts, faults, saves, lost>>
  BY DEF Crash, ForgetEngine, ForgetWriter
<1>2. /\ \A th \in ThreadIds : synced'[th] = Len(file'[th])
      /\ file' \in [ThreadIds -> Seq(Lines)] /\ synced' \in [ThreadIds -> Nat]
  BY CrashFacts
<1>3. 0 \in 0 .. MaxTasks /\ tasks \in Nat
  BY PersistenceConstants DEF CountInv
<1> USE DEF index, counts, saves
<1>4. TypeOK'
  <2>1. Len(queue') <= ChannelCap
    BY <1>1, Nothing, PersistenceConstants
  <2>2. \A th \in ThreadIds : synced'[th] \in 0 .. Len(file'[th])
    BY <1>2
  <2> QED
    BY <1>1, <1>2, <1>3, <2>1, <2>2, Nothing DEF TypeOK
<1>5. CountInv'
  BY <1>1, <1>2, <1>3 DEF CountInv
<1>6. ChannelInv'
  BY <1>1, Nothing DEF ChannelInv
<1>7. LifeInv'
  BY <1>1 DEF LifeInv
<1> QED
  BY <1>4, <1>5, <1>6, <1>7

(* The next process begins with nothing else. *)
LEMMA RestartBase ==
    ASSUME BaseInv, Restart
    PROVE  BaseInv'
<1> USE DEF BaseInv
<1>1. /\ life \in {"exited", "crashed"} /\ lives < Lives
      /\ life' = "up" /\ lives' = lives + 1 /\ sent' = {}
      /\ UNCHANGED <<turnVars, actorVars, queue, writer, disk, index, memory,
                     counts, faults, saves, lost>>
  BY DEF Restart
<1>2. lives' \in 1 .. Lives
  BY <1>1, PersistenceConstants DEF TypeOK
<1> USE DEF turnVars, actorVars, disk, index, memory, counts, saves
<1>3. TypeOK'
  BY <1>1, <1>2 DEF TypeOK
<1>4. CountInv'
  BY <1>1 DEF CountInv
<1>5. ChannelInv'
  BY <1>1 DEF ChannelInv
<1>6. LifeInv'
  BY <1>1 DEF LifeInv
<1> QED
  BY <1>3, <1>4, <1>5, <1>6

(* It all holds at the start ... *)
LEMMA BaseInit == Init => BaseInv
<1> SUFFICES ASSUME Init PROVE BaseInv
  OBVIOUS
<1>1. \A th \in ThreadIds : file[th] = <<>> /\ synced[th] = 0
  BY DEF Init
<1>2. /\ file \in [ThreadIds -> Seq(Lines)] /\ synced \in [ThreadIds -> Nat]
      /\ \A th \in ThreadIds : synced[th] \in 0 .. Len(file[th])
  BY <1>1 DEF Init
<1>3. TypeOK
  <2>1. Len(queue) <= ChannelCap /\ DOMAIN rows = {} /\ DOMAIN turns = {}
    BY Nothing, PersistenceConstants DEF Init, Empty
  <2>2. counter \in 0 .. MaxTasks /\ lives \in 1 .. Lives
    BY PersistenceConstants DEF Init
  <2> QED
    BY <1>2, <2>1, <2>2, Nothing DEF Init, TypeOK
<1>4. CountInv
  BY <1>2, PersistenceConstants DEF Init, CountInv
<1>5. ChannelInv
  BY Nothing DEF Init, ChannelInv
<1>6. LifeInv
  BY DEF Init, LifeInv
<1> QED
  BY <1>3, <1>4, <1>5, <1>6 DEF BaseInv

(* ... and every step keeps it. *)
LEMMA BaseNext == BaseInv /\ [Next]_vars => BaseInv'
<1> SUFFICES ASSUME BaseInv, [Next]_vars PROVE BaseInv'
  OBVIOUS
<1>1. CASE UNCHANGED vars
  <2>1. TypeOK'
    BY <1>1 DEF BaseInv, TypeOK, vars
  <2>2. CountInv'
    BY <1>1 DEF BaseInv, CountInv, vars
  <2>3. ChannelInv' /\ LifeInv'
    BY <1>1 DEF BaseInv, ChannelInv, LifeInv, vars
  <2> QED
    BY <2>1, <2>2, <2>3 DEF BaseInv
<1>2. CASE Next
  <2>1. CASE SendNext \/ AppendItem \/ FinishTurn \/ CancelTurn \/ ForkBegin \/ FlushTimeout
             \/ ForkCopy \/ ForkFails \/ ResumeRead
    BY <2>1, SendNextBase, AppendItemBase, FinishTurnBase, CancelTurnBase, ForkBeginBase,
       FlushTimeoutBase, ForkCopyBase, ForkFailsBase, ResumeReadBase
  <2>2. CASE \E th \in ThreadIds : StartTurn(th) \/ ResumeBegin(th)
    BY <2>2, StartTurnBase, ResumeBeginBase
  <2>3. CASE (\E a \in stray : StrayItem(a)) \/ (\E e \in ending : SendEnded(e))
    BY <2>3, StrayItemBase, SendEndedBase
  <2>4. CASE WriterTake \/ OpenFails \/ WriterSync \/ SyncFails \/ WriterIndex \/ Close
             \/ WriterExits \/ Crash \/ Restart
    BY <2>4, WriterTakeBase, OpenFailsBase, WriterSyncBase, SyncFailsBase, WriterIndexBase,
       CloseBase, WriterExitsBase, CrashBase, RestartBase
  <2> QED
    BY <1>2, <2>1, <2>2, <2>3, <2>4 DEF Next
<1> QED
  BY <1>1, <1>2

(* The state has its types, the channel never exceeds its capacity and no    *)
(* more of a rollout is on the disk than it has lines, for any capacity and  *)
(* any number of turns, forks, restarts, crashes and faults.                 *)
THEOREM DiskBehindFile == Spec => []TypeOK
<1>1. BaseInv => TypeOK
  BY DEF BaseInv
<1> QED
  BY <1>1, BaseInit, BaseNext, PTL DEF Spec

-----------------------------------------------------------------------------
(* What is written stays written                                            *)

(* The steps that leave the channel and the writer alone, and those that do  *)
(* no more than send an operation                                           *)
Apart == UNCHANGED <<queue, writer, disk, sent, owed, ended, lost, faults>>
SendsOnly(op) ==
    Sound(op) /\ TrySend(op) /\ UNCHANGED <<writer, disk, owed, ended, faults>>

(* Every step is of one of these kinds. *)
LEMMA StepKinds ==
    ASSUME BaseInv, [Next]_vars
    PROVE  \/ Apart \/ \E op : SendsOnly(op)
           \/ FlushTimeout \/ WriterTake \/ OpenFails \/ WriterSync \/ SyncFails
           \/ WriterIndex \/ WriterExits \/ Crash \/ Restart
<1> USE DEF saves
<1>1. CASE UNCHANGED vars
  BY <1>1 DEF vars, Apart, disk
<1>2. CASE \E th \in ThreadIds : StartTurn(th)
  BY <1>2 DEF StartTurn, Apart
<1>3. CASE FinishTurn
  BY <1>3 DEF FinishTurn, Apart
<1>4. CASE CancelTurn
  BY <1>4 DEF CancelTurn, Apart
<1>5. CASE ForkCopy
  BY <1>5 DEF ForkCopy, Apart
<1>6. CASE ForkFails
  BY <1>6 DEF ForkFails, Apart
<1>7. CASE ResumeRead
  BY <1>7 DEF ResumeRead, Apart
<1>8. CASE Close
  BY <1>8 DEF Close, Apart
<1>9. CASE SendNext
  <2>1. Sound(Head(todo))
    BY <1>9 DEF SendNext, BaseInv, ChannelInv, TypeOK
  <2>2. SendsOnly(Head(todo))
    BY <1>9, <2>1 DEF SendNext, SendsOnly
  <2> QED
    BY <2>2
<1>10. CASE AppendItem
  <2>1. active \in [turn : Turns, seq : 0 .. MaxEvents] /\ active.seq <= items /\ Say(active)
    BY <1>10 DEF AppendItem, BaseInv, TypeOK, CountInv
  <2>2. PICK it \in Items : Says(active, it)
    BY <2>1, SayFacts
  <2>3. SendsOnly(ItemAppended(active.turn, it))
    BY <1>10, <2>2 DEF AppendItem, Says, SendsOnly
  <2> QED
    BY <2>3
<1>11. CASE \E a \in stray : StrayItem(a)
  <2>1. PICK a \in stray : StrayItem(a)
    BY <1>11
  <2>2. a \in [turn : Turns, seq : 0 .. MaxEvents] /\ a.seq <= items /\ Say(a)
    BY <2>1 DEF StrayItem, BaseInv, TypeOK, CountInv
  <2>3. PICK it \in Items : Says(a, it)
    BY <2>2, SayFacts
  <2>4. SendsOnly(ItemAppended(a.turn, it))
    BY <2>1, <2>3 DEF StrayItem, Says, SendsOnly
  <2> QED
    BY <2>4
<1>12. CASE \E e \in ending : SendEnded(e)
  <2>1. PICK e \in ending : SendEnded(e)
    BY <1>12
  <2>2. e.turn \in Turns /\ e.turn.th \in ThreadIds
    BY DEF BaseInv, TypeOK, Turns
  <2>3. Sound(TurnEnded(e.turn)) /\ Sound(ThreadUpserted(e.turn.th, None))
    BY <2>2, OpTypes
  <2>4. SendsOnly(TurnEnded(e.turn)) \/ SendsOnly(ThreadUpserted(e.turn.th, None))
    BY <2>1, <2>3 DEF SendEnded, SendsOnly
  <2> QED
    BY <2>4
<1>13. CASE ForkBegin \/ \E th \in ThreadIds : ResumeBegin(th)
  <2>1. \A x \in ThreadIds : Sound(Flush(x, TRUE))
    BY OpTypes
  <2>2. UNCHANGED <<writer, disk, owed, ended, faults>>
    BY <1>13 DEF ForkBegin, ResumeBegin
  <2>3. \E x \in ThreadIds : TrySend(Flush(x, TRUE))
    BY <1>13 DEF ForkBegin, ResumeBegin, Asking, ThreadIds
  <2>4. \E x \in ThreadIds : SendsOnly(Flush(x, TRUE))
    BY <2>1, <2>2, <2>3 DEF SendsOnly
  <2> QED
    BY <2>4
<1> QED
  BY <1>1, <1>2, <1>3, <1>4, <1>5, <1>6, <1>7, <1>8, <1>9, <1>10, <1>11, <1>12, <1>13
     DEF Next

(* A line that is on the disk stays there, unless it is a torn one ...       *)
SyncedStay ==
    \A th \in ThreadIds : \A i \in 1 .. synced[th] : file[th][i] # Torn =>
        i \in 1 .. synced'[th] /\ file'[th][i] = file[th][i]

(* ... and only a crash loses other lines.                                   *)
LinesStay ==
    \A th \in ThreadIds : \A i \in 1 .. Len(file[th]) : file[th][i] # Torn =>
        i \in 1 .. Len(file'[th]) /\ file'[th][i] = file[th][i]

(* Appending keeps the lines; merging loses a torn one. *)
LEMMA TakeKeepsLines ==
    ASSUME BaseInv, WriterTake
    PROVE  SyncedStay /\ LinesStay
<1>1. TakesInto(Head(queue)) /\ \A x \in ThreadIds : synced'[x] \in 0 .. Len(file'[x])
  BY TakeDisk
<1>2. \A th \in ThreadIds : /\ file[th] \in Seq(Lines) /\ Len(file[th]) \in Nat
                            /\ synced[th] \in 0 .. Len(file[th])
  BY DEF BaseInv, TypeOK
<1>3. ASSUME NEW th \in ThreadIds, NEW i \in 1 .. Len(file[th]), file[th][i] # Torn
      PROVE  /\ i \in 1 .. Len(file'[th]) /\ file'[th][i] = file[th][i]
             /\ i <= synced[th] => i <= synced'[th]
  <2>1. Sound(Head(queue)) => Head(queue).th \in ThreadIds
    BY OpKinds DEF Sound
  <2>2. CASE th # Head(queue).th
    BY <1>1, <1>2, <1>3, <2>2 DEF TakesInto
  <2>3. CASE th = Head(queue).th
    BY <1>1, <1>2, <1>3, <2>3 DEF TakesInto
  <2> QED
    BY <2>2, <2>3
<1> QED
  BY <1>2, <1>3 DEF SyncedStay, LinesStay

(* Every step keeps what is on the disk, and all but a crash every line. *)
LEMMA StepKeepsLines ==
    ASSUME BaseInv, [Next]_vars
    PROVE  SyncedStay /\ (~Crash => LinesStay)
<1>1. \A th \in ThreadIds : /\ file[th] \in Seq(Lines) /\ Len(file[th]) \in Nat
                            /\ synced[th] \in 0 .. Len(file[th])
  BY DEF BaseInv, TypeOK
<1>2. synced \in [ThreadIds -> Nat]
  BY DEF BaseInv, CountInv
<1>3. ASSUME file' = file, \A th \in ThreadIds : synced'[th] \in Nat /\ synced'[th] >= synced[th]
      PROVE  SyncedStay /\ LinesStay
  BY <1>1, <1>3 DEF SyncedStay, LinesStay
<1>4. CASE Apart \/ (\E op : SendsOnly(op)) \/ FlushTimeout \/ OpenFails \/ SyncFails
           \/ WriterIndex \/ Restart
  <2>1. file' = file /\ synced' = synced
    BY <1>4 DEF Apart, SendsOnly, FlushTimeout, OpenFails, SyncFails, WriterIndex, Restart, disk
  <2> QED
    BY <1>1, <1>3, <2>1
<1>5. CASE WriterSync
  <2>1. file' = file /\ \A th \in ThreadIds : synced'[th] \in {synced[th], Len(file[th])}
    BY <1>2, <1>5 DEF WriterSync
  <2> QED
    BY <1>1, <1>3, <2>1
<1>6. CASE WriterExits
  <2>1. file' = file /\ \A th \in ThreadIds : synced'[th] \in {synced[th], Len(file[th])}
    BY <1>6 DEF WriterExits
  <2> QED
    BY <1>1, <1>3, <2>1
<1>7. CASE WriterTake
  BY <1>7, TakeKeepsLines
<1>8. CASE Crash
  <2>1. \A th \in ThreadIds : /\ KeptBy(file[th], synced[th], file'[th])
                              /\ synced'[th] = Len(file'[th])
    BY <1>8, CrashFacts
  <2>2. SyncedStay
    BY <1>1, <2>1 DEF KeptBy, SyncedStay
  <2> QED
    BY <1>8, <2>2
<1> QED
  BY <1>4, <1>5, <1>6, <1>7, <1>8, StepKinds

(* An item the channel took is in the queue or in the rollout, or one of     *)
(* those known to be lost.                                                   *)
SentAt(s) ==
    \/ ItemAppended(s.turn, s.item) \in lost
    \/ \E i \in DOMAIN queue : queue[i] = ItemAppended(s.turn, s.item)
    \/ \E i \in 1 .. Len(file[s.turn.th]) :
           file[s.turn.th][i] = ItemLine(s.turn, s.item)
SentInv == \A s \in sent : SentAt(s)

(* What a turn was owed when its end was synced is on the disk. *)
OwedInv ==
    \A o \in owed : \E i \in 1 .. synced[o.th] :
        file[o.th][i].kind = "item" /\ file[o.th][i].item = o.item

(* Without a fault, all of a rollout that was not opened in this life is on  *)
(* the disk, and all of one whose turn is about to be recorded as ended.     *)
SyncInv ==
    faults = 0 =>
        /\ \A th \in ThreadIds \ opened : synced[th] = Len(file[th])
        /\ writer.stage = "index" /\ writer.op.op = "TurnEnded" =>
               synced[writer.op.th] = Len(file[writer.op.th])

(* At the start nothing was sent, owed or opened. *)
LEMMA SentInvInit == Init => SentInv /\ OwedInv /\ SyncInv
BY Nothing DEF Init, SentInv, OwedInv, SyncInv, Idle

(* A line that says what an operation said *)
LEMMA ItemLineFacts ==
    ASSUME NEW u, NEW it
    PROVE  /\ ItemLine(u, it).kind = "item" /\ ItemLine(u, it).item = it
           /\ ItemLine(u, it) # Torn
           /\ ItemAppended(u, it).op = "ItemAppended" /\ ItemAppended(u, it).th = u.th
           /\ ItemAppended(u, it).turn = u /\ ItemAppended(u, it).item = it
           /\ LineOf(ItemAppended(u, it)) = ItemLine(u, it)
           /\ Miss(ItemAppended(u, it)) = {ItemAppended(u, it)}
           /\ Writes(ItemAppended(u, it)) /\ ~Heads(ItemAppended(u, it))
BY DEF ItemLine, ItemAppended, Torn, LineOf, Heads, Miss, Writes

(* What is lost stays lost. *)
LEMMA LostStays == Next => lost \subseteq lost'
BY DEF Next, SendNext, StartTurn, AppendItem, StrayItem, Say, TrySend, FinishTurn,
       CancelTurn, SendEnded, ForkBegin, ResumeBegin, Asking, FlushTimeout, ForkCopy, ForkFails,
       ResumeRead, WriterTake, OpenFails, WriterSync, SyncFails, WriterIndex, Close, WriterExits,
       Crash, Restart

(* An accepted item moves from the channel to the rollout, or gets lost. *)
LEMMA SentStep ==
    ASSUME BaseInv, SentInv, [Next]_vars
    PROVE  SentInv'
<1> USE DEF SentInv
<1>0. lost \subseteq lost'
  BY LostStays DEF vars
<1>q. queue \in Seq(Ops)
  BY DEF BaseInv, TypeOK
<1>s. \A s \in sent : s.turn \in Turns /\ s.item \in Items /\ s.turn.th \in ThreadIds
  BY DEF BaseInv, TypeOK, Turns
<1>1. ASSUME NEW s \in sent, ~Crash,
             \A i \in DOMAIN queue : queue[i] = ItemAppended(s.turn, s.item) =>
                 \/ \E j \in DOMAIN queue' : queue'[j] = queue[i]
                 \/ queue[i] \in lost'
                 \/ \E j \in 1 .. Len(file'[s.turn.th]) :
                        file'[s.turn.th][j] = ItemLine(s.turn, s.item)
      PROVE  SentAt(s)'
  <2>1. CASE ItemAppended(s.turn, s.item) \in lost
    BY <1>0, <2>1 DEF SentAt
  <2>2. CASE \E i \in DOMAIN queue : queue[i] = ItemAppended(s.turn, s.item)
    BY <1>1, <2>2 DEF SentAt
  <2>3. CASE \E i \in 1 .. Len(file[s.turn.th]) :
                 file[s.turn.th][i] = ItemLine(s.turn, s.item)
    <3>1. LinesStay
      BY <1>1, StepKeepsLines
    <3> QED
      BY <1>s, <2>3, <3>1, ItemLineFacts DEF SentAt, LinesStay
  <2> QED
    BY <2>1, <2>2, <2>3 DEF SentAt
<1>2. CASE Crash \/ Restart
  BY <1>2 DEF Crash, Restart
<1>3. CASE Apart \/ WriterSync \/ SyncFails \/ WriterIndex
  <2>1. queue' = queue /\ sent' = sent /\ (Crash => sent' = {})
    BY <1>3 DEF Apart, WriterSync, SyncFails, WriterIndex, Crash
  <2> QED
    BY <1>1, <2>1
<1>4. CASE WriterExits
  <2>1. sent' = sent /\ queue = <<>> /\ (Crash => sent' = {})
    BY <1>4 DEF WriterExits, Crash
  <2> QED
    BY <1>1, <2>1, Nothing
<1>5. CASE FlushTimeout
  <2>1. sent' = sent /\ (Crash => sent' = {})
    BY <1>5 DEF FlushTimeout, Crash
  <2>2. \A i \in DOMAIN queue : queue[i].op = "ItemAppended" =>
            i \in DOMAIN queue' /\ queue'[i] = queue[i]
    <3>1. /\ DOMAIN queue' = DOMAIN queue
          /\ \A i \in DOMAIN queue : queue'[i] = Unheard(queue[i])
      BY <1>5, FlushTimeoutFacts
    <3>2. \A i \in DOMAIN queue : Sound(queue[i])
      BY DEF BaseInv, ChannelInv
    <3> QED
      BY <3>1, <3>2, UnheardFacts
  <2> QED
    BY <1>1, <2>1, <2>2, ItemLineFacts
<1>6. CASE \E op : SendsOnly(op)
  <2>1. PICK op : SendsOnly(op)
    BY <1>6
  <2>2. Sound(op) /\ TrySend(op) /\ file' = file
    BY <2>1 DEF SendsOnly, disk
  <2>3. /\ \/ /\ queue' = Append(queue, op)
              /\ Len(queue') = Len(queue) + 1
              /\ \A i \in 1 .. Len(queue) : queue'[i] = queue[i]
              /\ queue'[Len(queue) + 1] = op
           \/ queue' = queue
        /\ queue' \in Seq(Ops)
        /\ sent' \in {sent, sent \union {[turn |-> op.turn, item |-> op.item]}}
        /\ sent' # sent => op.op = "ItemAppended" /\ queue' = Append(queue, op)
    BY <2>2, Sending
  <2>4. \A i \in DOMAIN queue : \E j \in DOMAIN queue' : queue'[j] = queue[i]
    <3>1. \A i \in DOMAIN queue : i \in DOMAIN queue' /\ queue'[i] = queue[i]
      BY <1>q, <2>3
    <3> QED
      BY <3>1
  <2>5. Crash => sent' = {}
    BY DEF Crash
  <2>6. ASSUME NEW s \in sent', s \notin sent PROVE SentAt(s)'
    <3>1. op.op = "ItemAppended" /\ queue' = Append(queue, op) /\ s.turn = op.turn /\ s.item = op.item
      BY <2>3, <2>6
    <3>2. op = ItemAppended(s.turn, s.item)
      <4>1. op \in [op : {"ItemAppended"}, th : ThreadIds, turn : Turns, item : Items]
        BY <2>2, <3>1 DEF Sound, Ops
      <4>2. op.th = op.turn.th
        BY <2>2, <3>1 DEF Sound
      <4> QED
        BY <3>1, <4>1, <4>2 DEF ItemAppended
    <3>3. Len(queue) + 1 \in DOMAIN queue' /\ queue'[Len(queue) + 1] = op
      BY <1>q, <2>2, <3>1, OpKinds DEF Sound
    <3> QED
      BY <3>2, <3>3 DEF SentAt
  <2>7. ASSUME NEW s \in sent', s \in sent PROVE SentAt(s)'
    BY <1>1, <2>4, <2>5, <2>7
  <2> QED
    BY <2>6, <2>7
<1>7. CASE WriterTake \/ OpenFails
  <2> DEFINE op == Head(queue)
  <2>1. queue # <<>> /\ queue' = Tail(queue) /\ sent' = sent /\ (Crash => sent' = {})
    BY <1>7 DEF WriterTake, OpenFails, Crash
  <2>2. \A i \in DOMAIN queue : i = 1 \/ (i - 1 \in DOMAIN queue' /\ queue'[i - 1] = queue[i])
    BY <1>q, <2>1
  <2>3. op = queue[1] /\ Sound(op)
    BY <2>1, TakeFacts
  <2>4. ASSUME NEW s \in sent, op = ItemAppended(s.turn, s.item)
        PROVE  \/ op \in lost'
               \/ \E j \in 1 .. Len(file'[s.turn.th]) :
                        file'[s.turn.th][j] = ItemLine(s.turn, s.item)
    <3>1. op.th = s.turn.th /\ Miss(op) = {op} /\ Writes(op) /\ LineOf(op) = ItemLine(s.turn, s.item)
      BY <2>4, ItemLineFacts
    <3>2. CASE OpenFails
      BY <3>1, <3>2 DEF OpenFails
    <3>3. CASE WriterTake
      <4>1. TakesInto(op) /\ file[op.th] \in Seq(Lines)
        <5>1. file[op.th] \in Seq(Lines)
          BY <1>s, <3>1 DEF BaseInv, TypeOK
        <5> QED
          BY <3>3, <5>1, TakeDisk
      <4> HIDE DEF op
      <4>2. \/ op \in lost'
            \/ Len(file'[op.th]) = Len(file[op.th]) + 1
               /\ file'[op.th][Len(file[op.th]) + 1] = LineOf(op)
        BY <3>1, <4>1 DEF TakesInto
      <4>3. Len(file[op.th]) \in Nat
        BY <4>1
      <4>4. CASE op \in lost'
        BY <4>4
      <4>5. CASE /\ Len(file'[op.th]) = Len(file[op.th]) + 1
                 /\ file'[op.th][Len(file[op.th]) + 1] = LineOf(op)
        <5> DEFINE j == Len(file[op.th]) + 1
        <5>1. j \in 1 .. Len(file'[op.th])
          BY <4>3, <4>5
        <5>2. file'[op.th][j] = ItemLine(s.turn, s.item)
          BY <3>1, <4>5
        <5> HIDE DEF j
        <5> QED
          BY <3>1, <5>1, <5>2
      <4> QED
        BY <4>2, <4>4, <4>5
    <3> QED
      BY <1>7, <3>2, <3>3
  <2> HIDE DEF op
  <2> QED
    BY <1>1, <2>1, <2>2, <2>3, <2>4
<1> QED
  BY <1>2, <1>3, <1>4, <1>5, <1>6, <1>7, StepKinds

(* The end of a turn is synced: its lines are in the rollout by then, and    *)
(* the sync takes them all to the disk.                                      *)
LEMMA OwedAtSync ==
    ASSUME BaseInv, SentInv, WriterSync, NEW o \in owed', o \notin owed
    PROVE  \E i \in 1 .. synced'[o.th] :
               file[o.th][i].kind = "item" /\ file[o.th][i].item = o.item
<1> DEFINE op == writer.op
<1>1. /\ writer # Idle /\ writer.stage = "sync"
      /\ op.op = "TurnEnded" /\ o \in Due(op.turn)
      /\ synced' = IF op.th \in opened
                   THEN [synced EXCEPT ![op.th] = Len(file[op.th])] ELSE synced
  BY DEF WriterSync
<1>2. Sound(op) /\ op.th \in opened /\ op.turn.th = op.th
  BY <1>1 DEF BaseInv, ChannelInv, Sound
<1>3. op.th \in ThreadIds /\ synced \in [ThreadIds -> Nat]
  BY <1>2 DEF BaseInv, TypeOK, CountInv
<1> HIDE DEF op
<1>4. synced'[op.th] = Len(file[op.th])
  BY <1>1, <1>2, <1>3
<1>5. PICK s \in sent : s.turn = op.turn /\ Written(s) /\ o = [th |-> op.turn.th, item |-> s.item]
  BY <1>1 DEF Due
<1>6. o.th = op.th /\ o.item = s.item /\ s.turn.th = op.th
  BY <1>2, <1>5
<1>7. /\ ItemAppended(s.turn, s.item) \notin lost
      /\ \A i \in DOMAIN queue : queue[i] # ItemAppended(s.turn, s.item)
  <2>1. queue \in Seq(Ops)
    BY DEF BaseInv, TypeOK
  <2> QED
    BY <1>5, <2>1 DEF Written
<1>8. \E i \in 1 .. Len(file[op.th]) : file[op.th][i] = ItemLine(s.turn, s.item)
  BY <1>6, <1>7 DEF SentInv, SentAt
<1> QED
  BY <1>4, <1>6, <1>8, ItemLineFacts

(* Only the sync of the end of a turn adds to what is owed. *)
LEMMA OwedGrows ==
    ASSUME [Next]_vars, ~WriterSync
    PROVE  owed' = owed
BY DEF Next, vars, saves, SendNext, StartTurn, AppendItem, StrayItem, FinishTurn, CancelTurn,
       SendEnded, ForkBegin, ResumeBegin, FlushTimeout, ForkCopy, ForkFails, ResumeRead,
       WriterTake, OpenFails, SyncFails, WriterIndex, Close, WriterExits, Crash, Restart

(* What is owed is on the disk when it becomes so, and stays there. *)
LEMMA OwedStep ==
    ASSUME BaseInv, SentInv, OwedInv, [Next]_vars
    PROVE  OwedInv'
<1> SUFFICES ASSUME NEW o \in owed'
             PROVE  \E i \in 1 .. synced'[o.th] :
                        file'[o.th][i].kind = "item" /\ file'[o.th][i].item = o.item
  BY DEF OwedInv
<1>1. CASE o \in owed
  <2>1. PICK i \in 1 .. synced[o.th] : file[o.th][i].kind = "item" /\ file[o.th][i].item = o.item
    BY <1>1 DEF OwedInv
  <2>2. o.th \in ThreadIds
    BY <1>1 DEF BaseInv, TypeOK
  <2>3. SyncedStay
    BY StepKeepsLines
  <2>4. file[o.th][i] # Torn
    BY <2>1 DEF Torn
  <2>5. i \in 1 .. synced'[o.th] /\ file'[o.th][i] = file[o.th][i]
    BY <2>1, <2>2, <2>3, <2>4 DEF SyncedStay
  <2> QED
    BY <2>1, <2>5
<1>2. CASE o \notin owed
  <2>1. WriterSync
    BY <1>2, OwedGrows
  <2>2. file' = file
    BY <2>1 DEF WriterSync
  <2> QED
    BY <1>2, <2>1, <2>2, OwedAtSync
<1> QED
  BY <1>1, <1>2

(* A rollout that was opened is synced before its turn is recorded as ended. *)
LEMMA SyncStep ==
    ASSUME BaseInv, SyncInv, [Next]_vars
    PROVE  SyncInv'
<1> USE DEF SyncInv
<1>1. ASSUME UNCHANGED <<opened, synced, file, faults, writer>>
      PROVE  SyncInv'
  BY <1>1
<1>2. CASE Apart \/ \E op : SendsOnly(op)
  BY <1>1, <1>2 DEF Apart, SendsOnly, disk
<1>3. CASE FlushTimeout
  <2>1. writer.stage = writer'.stage
        /\ (writer'.stage = "index" => writer'.op.op = writer.op.op /\ writer'.op.th = writer.op.th)
    <3>1. CASE writer = Idle
      BY <1>3, <3>1, FlushTimeoutFacts, Nothing
    <3>2. CASE writer # Idle
      <4>1. writer'.stage = writer.stage /\ writer'.op = Unheard(writer.op)
        BY <1>3, <3>2, FlushTimeoutFacts
      <4>2. Sound(writer.op)
        BY <3>2 DEF BaseInv, ChannelInv
      <4> QED
        BY <4>1, <4>2, UnheardFacts
    <3> QED
      BY <3>1, <3>2
  <2>2. UNCHANGED <<opened, synced, file, faults>>
    BY <1>3 DEF FlushTimeout, disk
  <2> QED
    BY <2>1, <2>2
<1>4. CASE WriterTake
  <2> DEFINE op == Head(queue)
  <2>1. queue # <<>> /\ queue' = Tail(queue) /\ faults' = faults /\ writer' = AfterAppend(op)
    BY <1>4 DEF WriterTake
  <2>2. Sound(op)
    BY <2>1, TakeFacts
  <2>3. TakesInto(op)
    BY <1>4, TakeDisk
  <2>4. writer'.stage = "index" => writer'.op.op # "TurnEnded"
    BY <2>1, <2>2, AfterAppendFacts
  <2> HIDE DEF op
  <2>5. ASSUME faults = 0, NEW th \in ThreadIds, th \notin opened'
        PROVE  synced'[th] = Len(file'[th])
    <3>1. synced'[th] = synced[th] /\ file'[th] = file[th] /\ th \notin opened
      BY <2>3, <2>5 DEF TakesInto
    <3> QED
      BY <2>5, <3>1
  <2> QED
    BY <2>1, <2>4, <2>5
<1>5. CASE OpenFails \/ SyncFails
  <2>1. faults \in Nat /\ faults' = faults + 1
    BY <1>5 DEF OpenFails, SyncFails, BaseInv, CountInv
  <2> QED
    BY <2>1
<1>6. CASE WriterSync
  <2> DEFINE op == writer.op
  <2>1. /\ writer # Idle /\ writer.stage = "sync" /\ AfterSync(op)
        /\ UNCHANGED <<opened, file, faults>>
        /\ synced' = IF op.th \in opened
                     THEN [synced EXCEPT ![op.th] = Len(file[op.th])] ELSE synced
    BY <1>6 DEF WriterSync
  <2>2. synced \in [ThreadIds -> Nat] /\ opened \subseteq ThreadIds /\ Sound(op)
        /\ (op.op # "Flush" => op.th \in opened)
    BY <2>1 DEF BaseInv, CountInv, TypeOK, ChannelInv
  <2>3. writer'.stage = "index" => writer'.op = op
    <3>1. writer' # Idle => writer'.op = op
      BY <2>1, AfterSyncFacts
    <3> QED
      BY <3>1, Nothing
  <2> HIDE DEF op
  <2> QED
    BY <2>1, <2>2, <2>3
<1>7. CASE WriterIndex
  <2>1. writer' = Idle /\ UNCHANGED <<opened, file, synced, faults>>
    BY <1>7 DEF WriterIndex, disk
  <2> QED
    BY <2>1, Nothing
<1>8. CASE WriterExits
  <2>1. PICK failed \in SUBSET opened :
            /\ faults' = IF failed = {} THEN faults ELSE faults + 1
            /\ synced' = [th \in ThreadIds |-> IF th \in opened \ failed
                                               THEN Len(file[th]) ELSE synced[th]]
    BY <1>8 DEF WriterExits
  <2>2. writer' = Idle /\ file' = file /\ faults \in Nat
    BY <1>8 DEF WriterExits, ForgetWriter, BaseInv, CountInv
  <2>3. faults' = 0 => failed = {} /\ faults = 0
    BY <2>1, <2>2
  <2> QED
    BY <2>1, <2>2, <2>3, Nothing
<1>9. CASE Crash
  <2>1. \A th \in ThreadIds : synced'[th] = Len(file'[th])
    BY <1>9, CrashFacts
  <2>2. writer' = Idle
    BY <1>9 DEF Crash, ForgetWriter
  <2> QED
    BY <2>1, <2>2, Nothing
<1>10. CASE Restart
  BY <1>1, <1>10 DEF Restart, disk
<1> QED
  BY <1>2, <1>3, <1>4, <1>5, <1>6, <1>7, <1>8, <1>9, <1>10, StepKinds

SavedInv == BaseInv /\ SentInv /\ OwedInv /\ SyncInv

(* The invariant holds at the start ... *)
LEMMA SavedInvInit == Init => SavedInv
BY BaseInit, SentInvInit DEF SavedInv

(* ... and every step keeps it. *)
LEMMA SavedInvNext == SavedInv /\ [Next]_vars => SavedInv'
<1> SUFFICES ASSUME SavedInv, [Next]_vars PROVE SavedInv'
  OBVIOUS
<1>1. BaseInv /\ SentInv /\ OwedInv /\ SyncInv
  BY DEF SavedInv
<1>2. BaseInv'
  BY <1>1, BaseNext
<1>3. SentInv'
  BY <1>1, SentStep
<1>4. OwedInv'
  BY <1>1, OwedStep
<1>5. SyncInv'
  BY <1>1, SyncStep
<1> QED
  BY <1>2, <1>3, <1>4, <1>5 DEF SavedInv

(* What is on the disk is replayed. *)
LEMMA SavedInvSaves == SavedInv => SavedTurnsSurvive
<1> SUFFICES ASSUME SavedInv, NEW o \in owed
             PROVE  o.item \in {Replay(file[o.th])[i] : i \in 1 .. Len(Replay(file[o.th]))}
  BY DEF SavedTurnsSurvive
<1>1. /\ o.th \in ThreadIds /\ file[o.th] \in Seq(Lines)
      /\ synced[o.th] \in 0 .. Len(file[o.th]) /\ Len(file[o.th]) \in Nat
  BY DEF SavedInv, BaseInv, TypeOK
<1>2. PICK p \in 1 .. synced[o.th] : file[o.th][p].kind = "item" /\ file[o.th][p].item = o.item
  BY DEF SavedInv, OwedInv
<1>3. PICK at : Tells(at, file[o.th])
  BY <1>1, ReplayFacts
<1>4. p \in 1 .. Len(file[o.th])
  BY <1>1, <1>2
<1>5. PICK k \in 1 .. Len(Replay(file[o.th])) : at[k] = p
  BY <1>2, <1>3, <1>4 DEF Tells
<1>6. Replay(file[o.th])[k] = o.item
  BY <1>2, <1>3, <1>5 DEF Tells
<1> QED
  BY <1>6

(* At the exit the channel is empty and everything is synced. *)
LEMMA SavedInvExits == SavedInv => CleanExitIsDurable
<1> SUFFICES ASSUME SavedInv, life = "exited", faults = 0
             PROVE  /\ \A th \in ThreadIds : synced[th] = Len(file[th])
                    /\ \A s \in sent : ItemAppended(s.turn, s.item) \notin lost =>
                           \E i \in 1 .. Len(file[s.turn.th]) :
                               file[s.turn.th][i] = ItemLine(s.turn, s.item)
  BY DEF CleanExitIsDurable
<1>1. queue = <<>> /\ opened = {}
  BY DEF SavedInv, BaseInv, LifeInv
<1>2. \A th \in ThreadIds : synced[th] = Len(file[th])
  BY <1>1 DEF SavedInv, SyncInv
<1>3. \A s \in sent : SentAt(s)
  BY DEF SavedInv, SentInv
<1> QED
  BY <1>1, <1>2, <1>3, Nothing DEF SentAt

(* "data survives a crash as long as the most recent turn completed": what a *)
(* turn was owed when its end was synced is in its rollout for ever.         *)
THEOREM SavedTurnsStay == Spec => []SavedTurnsSurvive
<1> QED
  BY SavedInvInit, SavedInvNext, SavedInvSaves, PTL DEF Spec

(* A clean shutdown loses nothing: when the writer has left, and no open and no*)
(* sync failed, every line is on the disk, and every item the channel took in*)
(* this life has its line.                                                   *)
THEOREM CleanExitLosesNothing == Spec => []CleanExitIsDurable
<1> QED
  BY SavedInvInit, SavedInvNext, SavedInvExits, PTL DEF Spec

(* Only the writer, with a turn's end in hand, completes it in the index. *)
LEMMA Completing ==
    ASSUME [Next]_vars, NEW u \in DOMAIN turns', turns'[u] = "completed",
           u \in DOMAIN turns => turns[u] # "completed"
    PROVE  /\ WriterIndex /\ writer # Idle /\ writer.stage = "index"
           /\ writer.op.op = "TurnEnded" /\ writer.op.turn = u
<1>1. turns' # turns
  OBVIOUS
<1>2. WriterIndex
  BY <1>1 DEF Next, vars, index, SendNext, StartTurn, AppendItem, StrayItem, FinishTurn, CancelTurn,
       SendEnded, ForkBegin, ResumeBegin, FlushTimeout, ForkCopy, ForkFails, ResumeRead,
       WriterTake, OpenFails, WriterSync, SyncFails, Close, WriterExits, Crash, Restart
<1>3. writer # Idle /\ writer.stage = "index"
  BY <1>2 DEF WriterIndex
<1>4. \/ /\ writer.op.op = "TurnEnded"
         /\ turns' = Put(turns, writer.op.turn, "completed")
      \/ turns' = Put(turns, writer.op.turn, "inProgress") /\ writer.op.turn \notin DOMAIN turns
      \/ turns' = turns
  BY <1>2 DEF WriterIndex
<1>5. writer.op.op = "TurnEnded" /\ writer.op.turn = u
  BY <1>1, <1>4 DEF Put
<1> QED
  BY <1>2, <1>3, <1>5

(* The index lags the rollout, and never leads.                              *)
THEOREM IndexLagsRollout == Spec => IndexEndsAfterSave
<1> DEFINE Save ==
        \A u \in DOMAIN turns' :
           /\ turns'[u] = "completed"
           /\ u \in DOMAIN turns => turns[u] # "completed"
           /\ faults = 0
           => \A s \in sent : s.turn = u /\ Written(s) =>
                  \E i \in 1 .. synced[u.th] : file[u.th][i] = ItemLine(u, s.item)
<1>1. SavedInv /\ [Next]_vars => Save
  <2> SUFFICES ASSUME SavedInv, [Next]_vars, NEW u \in DOMAIN turns',
                      turns'[u] = "completed", u \in DOMAIN turns => turns[u] # "completed",
                      faults = 0, NEW s \in sent, s.turn = u, Written(s)
               PROVE  \E i \in 1 .. synced[u.th] : file[u.th][i] = ItemLine(u, s.item)
    OBVIOUS
  <2>1. writer # Idle /\ writer.stage = "index" /\ writer.op.op = "TurnEnded" /\ writer.op.turn = u
    BY Completing
  <2>2. writer.op.th = u.th
    BY <2>1 DEF SavedInv, BaseInv, ChannelInv, Sound
  <2>3. synced[u.th] = Len(file[u.th])
    BY <2>1, <2>2 DEF SavedInv, SyncInv
  <2>4. /\ ItemAppended(s.turn, s.item) \notin lost
        /\ \A i \in DOMAIN queue : queue[i] # ItemAppended(s.turn, s.item)
    <3>1. queue \in Seq(Ops)
      BY DEF SavedInv, BaseInv, TypeOK
    <3> QED
      BY <3>1 DEF Written
  <2>5. SentAt(s)
    BY DEF SavedInv, SentInv
  <2> QED
    BY <2>3, <2>4, <2>5 DEF SentAt
<1> HIDE DEF Save
<1>2. Spec => [][Save]_vars
  BY <1>1, SavedInvInit, SavedInvNext, PTL DEF Spec
<1> QED
  BY <1>2 DEF IndexEndsAfterSave, Save

-----------------------------------------------------------------------------
(* The order of a rollout                                                   *)

(* While the engine runs, whatever is said or about to be said is about a    *)
(* thread it has in memory.                                                  *)
ResidentInv ==
    life = "up" =>
        /\ \A i \in DOMAIN queue : queue[i].op # "Flush" => queue[i].th \in resident
        /\ \A i \in DOMAIN todo : todo[i].op # "Flush" => todo[i].th \in resident
        /\ active # None => active.turn.th \in resident
        /\ \A a \in stray : a.turn.th \in resident
        /\ \A e \in ending : e.turn.th \in resident

(* Every operation in the channel was there or is new, in that case about a  *)
(* thread in memory.                                                         *)
LEMMA SendKnown ==
    ASSUME BaseInv, NEW op, Sound(op), TrySend(op), op.op # "Flush" => op.th \in resident',
           \A i \in DOMAIN queue : queue[i].op # "Flush" => queue[i].th \in resident'
    PROVE  \A i \in DOMAIN queue' : queue'[i].op # "Flush" => queue'[i].th \in resident'
<1>1. queue \in Seq(Ops)
  BY DEF BaseInv, TypeOK
<1>2. \/ /\ Len(queue') = Len(queue) + 1
         /\ \A i \in 1 .. Len(queue) : queue'[i] = queue[i]
         /\ queue'[Len(queue) + 1] = op
         /\ queue' \in Seq(Ops)
      \/ queue' = queue
  BY Sending
<1> QED
  BY <1>1, <1>2

(* At the start nothing is sent. *)
LEMMA ResidentInit == Init => ResidentInv
BY Nothing DEF Init, ResidentInv

(* Whoever speaks of a thread has it in memory. *)
LEMMA ResidentStep ==
    ASSUME BaseInv, ResidentInv, [Next]_vars
    PROVE  ResidentInv'
<1> USE DEF ResidentInv
<1>t. /\ queue \in Seq(Ops) /\ todo \in Seq(Ops)
      /\ \A i \in DOMAIN queue : Sound(queue[i])
      /\ \A i \in DOMAIN todo : Sound(todo[i])
  BY DEF BaseInv, TypeOK, ChannelInv
<1>1. ASSUME UNCHANGED <<queue, todo, active, stray, ending>>, life' = "up" => life = "up",
             resident \subseteq resident'
      PROVE  ResidentInv'
  BY <1>1
<1>2. CASE UNCHANGED vars \/ ForkFails \/ ResumeRead \/ WriterSync \/ SyncFails \/ WriterIndex
  <2>1. UNCHANGED <<queue, todo, active, stray, ending>>
    BY <1>2 DEF vars, turnVars, actorVars, ForkFails, ResumeRead, WriterSync, SyncFails, WriterIndex
  <2>2. UNCHANGED life /\ resident \subseteq resident'
    BY <1>2 DEF vars, process, memory, ForkFails, ResumeRead, WriterSync, SyncFails, WriterIndex
  <2> QED
    BY <1>1, <2>1, <2>2
<1>3. CASE Close \/ WriterExits \/ Crash
  <2>1. life' # "up"
    BY <1>3 DEF Close, WriterExits, Crash
  <2> QED
    BY <2>1
<1>4. CASE Restart
  <2>1. /\ queue = <<>> /\ todo = <<>> /\ active = None /\ stray = {} /\ ending = {}
        /\ UNCHANGED <<queue, todo, active, stray, ending>>
    BY <1>4 DEF Restart, turnVars, actorVars, BaseInv, LifeInv
  <2> QED
    BY <2>1, Nothing
<1>5. CASE SendNext
  <2>1. /\ life = "up" /\ todo # <<>> /\ TrySend(Head(todo)) /\ todo' = Tail(todo)
        /\ UNCHANGED <<life, active, stray, ending, resident>>
    BY <1>5 DEF SendNext, process, turnVars, memory
  <2>2. Head(todo) = todo[1] /\ 1 \in DOMAIN todo
    BY <1>t, <2>1
  <2>3. Sound(Head(todo)) /\ (Head(todo).op # "Flush" => Head(todo).th \in resident')
    BY <1>t, <2>1, <2>2
  <2>4. \A i \in DOMAIN queue : queue[i].op # "Flush" => queue[i].th \in resident'
    BY <2>1
  <2>5. \A i \in DOMAIN queue' : queue'[i].op # "Flush" => queue'[i].th \in resident'
    BY <2>1, <2>3, <2>4, SendKnown
  <2>6. \A i \in DOMAIN todo' : i + 1 \in DOMAIN todo /\ todo'[i] = todo[i + 1]
    BY <1>t, <2>1
  <2>7. \A i \in DOMAIN todo' : todo'[i].op # "Flush" => todo'[i].th \in resident'
    BY <2>1, <2>6
  <2> QED
    BY <2>1, <2>5, <2>7
<1>6. CASE \E th \in ThreadIds : StartTurn(th)
  <2>1. PICK th \in ThreadIds : StartTurn(th)
    BY <1>6
  <2> DEFINE u == TurnId(th, counter)
  <2>2. /\ life = "up" /\ active' = [turn |-> u, seq |-> 0] /\ resident' = resident \union {th}
        /\ todo' = <<ThreadUpserted(th, None), TurnStarted(u)>>
        /\ UNCHANGED <<queue, stray, ending>>
    BY <2>1 DEF StartTurn, ActorFree
  <2>3. ThreadUpserted(th, None).th = th /\ TurnStarted(u).th = th /\ u.th = th
    BY DEF ThreadUpserted, TurnStarted, TurnId
  <2> HIDE DEF u
  <2>4. \A i \in DOMAIN todo' : todo'[i].th = th
    BY <2>2, <2>3
  <2> QED
    BY <2>2, <2>3, <2>4
<1>7. CASE AppendItem
  <2>1. /\ active \in [turn : Turns, seq : 0 .. MaxEvents] /\ active.seq <= items /\ Say(active)
        /\ life = "up" /\ active # None /\ active' = Spoken(active)
        /\ UNCHANGED <<resident, todo, stray, ending>>
    BY <1>7 DEF AppendItem, BaseInv, TypeOK, CountInv, actorVars
  <2>2. PICK it \in Items : Says(active, it)
    BY <2>1, SayFacts
  <2>3. /\ TrySend(ItemAppended(active.turn, it)) /\ Sound(ItemAppended(active.turn, it))
        /\ Spoken(active).turn = active.turn
    BY <2>2 DEF Says
  <2>4. ItemAppended(active.turn, it).th = active.turn.th
    BY ItemLineFacts
  <2>5. \A i \in DOMAIN queue' : queue'[i].op # "Flush" => queue'[i].th \in resident'
    <3>1. active.turn.th \in resident' /\ \A i \in DOMAIN queue : queue[i].op # "Flush" => queue[i].th \in resident'
      BY <2>1
    <3> QED
      BY <2>3, <2>4, <3>1, SendKnown
  <2> QED
    BY <2>1, <2>3, <2>5
<1>8. CASE \E a \in stray : StrayItem(a)
  <2>1. PICK a \in stray : StrayItem(a)
    BY <1>8
  <2>2. /\ a \in [turn : Turns, seq : 0 .. MaxEvents] /\ a.seq <= items /\ Say(a)
        /\ life = "up" /\ stray' = (stray \ {a}) \union {Spoken(a)}
        /\ UNCHANGED <<resident, todo, active, ending>>
    BY <2>1 DEF StrayItem, BaseInv, TypeOK, CountInv, actorVars
  <2>3. PICK it \in Items : Says(a, it)
    BY <2>2, SayFacts
  <2>4. /\ TrySend(ItemAppended(a.turn, it)) /\ Sound(ItemAppended(a.turn, it))
        /\ Spoken(a).turn = a.turn
    BY <2>3 DEF Says
  <2>5. ItemAppended(a.turn, it).th = a.turn.th
    BY ItemLineFacts
  <2>6. \A i \in DOMAIN queue' : queue'[i].op # "Flush" => queue'[i].th \in resident'
    <3>1. a.turn.th \in resident' /\ \A i \in DOMAIN queue : queue[i].op # "Flush" => queue[i].th \in resident'
      BY <2>1, <2>2
    <3> QED
      BY <2>4, <2>5, <3>1, SendKnown
  <2> QED
    BY <2>1, <2>2, <2>4, <2>6
<1>9. CASE FinishTurn
  BY <1>9 DEF FinishTurn, memory, actorVars, process
<1>10. CASE CancelTurn
  <2>1. /\ life = "up" /\ active # None /\ active' = None /\ stray' = stray \union {active}
        /\ todo' = <<TurnEnded(active.turn), ThreadUpserted(active.turn.th, None)>>
        /\ UNCHANGED <<ending, queue, resident>>
    BY <1>10 DEF CancelTurn, ActorFree, memory
  <2>2. ThreadUpserted(active.turn.th, None).th = active.turn.th
        /\ TurnEnded(active.turn).th = active.turn.th
    BY DEF ThreadUpserted, TurnEnded
  <2>3. \A i \in DOMAIN todo' : todo'[i].th = active.turn.th
    BY <2>1, <2>2
  <2> QED
    BY <2>1, <2>3
<1>11. CASE \E e \in ending : SendEnded(e)
  <2>1. PICK e \in ending : SendEnded(e)
    BY <1>11
  <2>2. e.turn \in Turns /\ e.turn.th \in ThreadIds
    BY DEF BaseInv, TypeOK, Turns
  <2>3. /\ life = "up" /\ UNCHANGED <<active, stray, todo, resident>>
        /\ ending' \in {(ending \ {e}) \union {[e EXCEPT !.send = "idle"]}, ending \ {e}}
        /\ TrySend(TurnEnded(e.turn)) \/ TrySend(ThreadUpserted(e.turn.th, None))
    BY <2>1 DEF SendEnded, actorVars, memory
  <2>4. Sound(TurnEnded(e.turn)) /\ Sound(ThreadUpserted(e.turn.th, None))
    BY <2>2, OpTypes
  <2>5. TurnEnded(e.turn).th = e.turn.th /\ ThreadUpserted(e.turn.th, None).th = e.turn.th
    BY DEF ThreadUpserted, TurnEnded
  <2>6. e.turn.th \in resident' /\ \A i \in DOMAIN queue : queue[i].op # "Flush" => queue[i].th \in resident'
    BY <2>1, <2>3
  <2>7. \A i \in DOMAIN queue' : queue'[i].op # "Flush" => queue'[i].th \in resident'
    <3>1. CASE TrySend(TurnEnded(e.turn))
      BY <2>4, <2>5, <2>6, <3>1, SendKnown
    <3>2. CASE TrySend(ThreadUpserted(e.turn.th, None))
      BY <2>4, <2>5, <2>6, <3>2, SendKnown
    <3> QED
      BY <2>3, <3>1, <3>2
  <2>8. \A x \in ending' : \E y \in ending : x.turn = y.turn
    <3>1. e \in [turn : Turns, send : {"ended", "idle"}]
      BY <2>1 DEF BaseInv, TypeOK
    <3>2. [e EXCEPT !.send = "idle"].turn = e.turn
      BY <3>1
    <3> QED
      BY <2>1, <2>3, <3>2
  <2> QED
    BY <2>3, <2>7, <2>8
<1>12. CASE ForkBegin \/ \E th \in ThreadIds : ResumeBegin(th)
  <2>1. /\ life = "up" /\ UNCHANGED <<active, stray, ending, todo, resident>>
        /\ \E x \in ThreadIds : TrySend(Flush(x, TRUE))
    BY <1>12 DEF ForkBegin, ResumeBegin, ActorFree, memory, turnVars, Asking, ThreadIds
  <2>2. PICK x \in ThreadIds : TrySend(Flush(x, TRUE))
    BY <2>1
  <2>3. Sound(Flush(x, TRUE)) /\ Flush(x, TRUE).op = "Flush"
    BY OpTypes DEF Flush
  <2>4. \A i \in DOMAIN queue : queue[i].op # "Flush" => queue[i].th \in resident'
    BY <2>1
  <2>5. \A i \in DOMAIN queue' : queue'[i].op # "Flush" => queue'[i].th \in resident'
    BY <2>2, <2>3, <2>4, SendKnown
  <2> QED
    BY <2>1, <2>5
<1>13. CASE FlushTimeout
  <2>1. life = "up" /\ UNCHANGED <<active, stray, ending, todo, resident>>
    BY <1>13 DEF FlushTimeout, turnVars, memory
  <2>2. DOMAIN queue' = DOMAIN queue /\ \A i \in DOMAIN queue : queue'[i] = Unheard(queue[i])
    BY <1>13, FlushTimeoutFacts
  <2>3. \A i \in DOMAIN queue : Unheard(queue[i]).op = queue[i].op /\ Unheard(queue[i]).th = queue[i].th
    BY <1>t, UnheardFacts
  <2> QED
    BY <2>1, <2>2, <2>3
<1>14. CASE ForkCopy
  <2>1. PICK m \in 0 .. Len(Replay(file[Main])) :
            todo' = Plan(busy.th, SubSeq(Replay(file[Main]), 1, m))
    BY <1>14 DEF ForkCopy
  <2> DEFINE copy == SubSeq(Replay(file[Main]), 1, m)
  <2>2. /\ life = "up" /\ busy.th \in Forks /\ resident' = resident \union {busy.th}
        /\ UNCHANGED <<queue, active, stray, ending>> /\ file[Main] \in Seq(Lines)
    BY <1>14 DEF ForkCopy, Ready, BaseInv, CountInv, TypeOK, turnVars, ThreadIds
  <2>3. copy \in Seq(Items)
    <3>1. Replay(file[Main]) \in Seq(Items)
      BY <2>2, ReplayFacts
    <3> QED
      BY <3>1
  <2> HIDE DEF copy
  <2>4. /\ Len(Plan(busy.th, copy)) = Len(copy) + 6 /\ Plan(busy.th, copy) \in Seq(Ops)
        /\ \A i \in 1 .. Len(copy) + 6 : Plan(busy.th, copy)[i].th = busy.th
    BY <2>2, <2>3, PlanFacts
  <2>5. \A i \in DOMAIN todo' : todo'[i].th = busy.th
    BY <2>1, <2>4 DEF copy
  <2> QED
    BY <2>2, <2>5
<1>15. CASE WriterTake \/ OpenFails
  <2>1. /\ queue # <<>> /\ queue' = Tail(queue)
        /\ UNCHANGED <<life, active, stray, ending, todo, resident>>
    BY <1>15 DEF WriterTake, OpenFails, process, turnVars, actorVars, memory
  <2>2. \A i \in DOMAIN queue' : queue'[i] = queue[i + 1] /\ i + 1 \in DOMAIN queue
    BY <2>1, TakeFacts
  <2> QED
    BY <2>1, <2>2
<1> QED
  BY <1>2, <1>3, <1>4, <1>5, <1>6, <1>7, <1>8, <1>9, <1>10, <1>11, <1>12, <1>13, <1>14, <1>15
     DEF Next

(* What a fork copies to its own rollout: it names the parent, repeats its   *)
(* items, and ends its first turn.                                           *)
PlanOps(th) == {ForkHeader(th), ThreadUpserted(th, Main), TurnEnded(ForkTurn(th))}
Copies(op, th) == op \in PlanOps(th) \/ (op.op = "ItemAppended" /\ op.th = th)

(* Nobody else talks to the rollout of th. *)
Alone(th) ==
    /\ \A a \in stray : a.turn.th # th
    /\ \A e \in ending : e.turn.th # th
    /\ \A i \in DOMAIN queue : queue[i] # ThreadUpserted(th, None)
    /\ \A i \in DOMAIN todo : todo[i] # ThreadUpserted(th, None)

(* Nobody else talks to the rollout of a new fork while the copy is sent. *)
Copying(th) == \E i \in DOMAIN todo : Copies(todo[i], th)
TodoInv == \A th \in ThreadIds \ reused : Copying(th) => Alone(th)

(* What belongs to a copy, and what does not *)
LEMMA CopiesFacts ==
    /\ \A op, th : Copies(op, th) => op.th = th
    /\ \A x, th : ~Copies(ThreadUpserted(x, None), th)
    /\ \A u, th : ~Copies(TurnStarted(u), th)
    /\ \A u, th : u.n >= 0 => ~Copies(TurnEnded(u), th)
<1> USE DEF Copies, PlanOps, ForkHeader, ThreadUpserted, TurnEnded, TurnStarted, ForkTurn, TurnId
<1>1. \A op, th : Copies(op, th) => op.th = th
  OBVIOUS
<1>2. \A x, th : ~Copies(ThreadUpserted(x, None), th)
  BY PersistenceConstants
<1>3. \A u, th : ~Copies(TurnStarted(u), th)
  OBVIOUS
<1>4. \A u, th : u.n >= 0 => ~Copies(TurnEnded(u), th)
  <2> SUFFICES ASSUME NEW u, NEW th, u.n >= 0, TurnEnded(u) = TurnEnded(ForkTurn(th))
               PROVE  FALSE
    OBVIOUS
  <2>1. u = ForkTurn(th)
    OBVIOUS
  <2>2. u.n = -1
    BY <2>1
  <2> QED
    BY <2>2
<1> QED
  BY <1>1, <1>2, <1>3, <1>4

(* The copy that a fork makes of the rollout of Main *)
Copied(copy) ==
    /\ copy \in Seq(Items) /\ Len(copy) <= Len(Replay(file[Main]))
    /\ \A k \in 1 .. Len(copy) : copy[k] = Replay(file[Main])[k]
    /\ todo' = Plan(busy.th, copy)

(* What a fork does when it has read the rollout of Main *)
LEMMA ForkCopyFacts ==
    ASSUME BaseInv, ForkCopy
    PROVE  /\ \E copy : Copied(copy)
           /\ life = "up" /\ busy # Free /\ busy.task = "fork" /\ busy.th \in Forks
           /\ todo = <<>> /\ busy' = Free
           /\ resident' = resident \union {busy.th}
           /\ reused' = IF Taken(busy.th) THEN reused \union {busy.th} ELSE reused
           /\ UNCHANGED <<life, queue, writer, file, synced, opened, header, active, stray, ending,
                          items, sent, lost, ended, owed>>
<1>1. PICK m \in 0 .. Len(Replay(file[Main])) :
          todo' = Plan(busy.th, SubSeq(Replay(file[Main]), 1, m))
  BY DEF ForkCopy
<1> DEFINE copy == SubSeq(Replay(file[Main]), 1, m)
<1>2. file[Main] \in Seq(Lines)
  BY DEF BaseInv, TypeOK, ThreadIds
<1>3. Replay(file[Main]) \in Seq(Items)
  BY <1>2, ReplayFacts
<1>4. /\ copy \in Seq(Items) /\ Len(copy) <= Len(Replay(file[Main]))
      /\ \A k \in 1 .. Len(copy) : copy[k] = Replay(file[Main])[k]
  BY <1>3
<1> HIDE DEF copy
<1>5. Copied(copy)
  BY <1>1, <1>4 DEF Copied, copy
<1>6. /\ life = "up" /\ busy # Free /\ busy.task = "fork" /\ busy.th \in Forks
      /\ todo = <<>> /\ busy' = Free
      /\ resident' = resident \union {busy.th}
      /\ reused' = IF Taken(busy.th) THEN reused \union {busy.th} ELSE reused
  BY DEF ForkCopy, Ready, BaseInv, CountInv, LifeInv
<1>7. UNCHANGED <<life, queue, writer, file, synced, opened, header, active, stray, ending,
                  items, sent, lost, ended, owed>>
  BY DEF ForkCopy, turnVars, disk, process, counts
<1> QED
  BY <1>5, <1>6, <1>7

(* What a fork sends *)
LEMMA PlanSent ==
    ASSUME BaseInv, ForkCopy, NEW copy, Copied(copy)
    PROVE  /\ todo' \in Seq(Ops) /\ Len(todo') = Len(copy) + 6 /\ Len(copy) \in Nat
           /\ todo'[1] = ForkHeader(busy.th)
           /\ todo'[2] = ThreadUpserted(busy.th, Main)
           /\ todo'[3] = TurnStarted(ForkTurn(busy.th))
           /\ \A i \in 1 .. Len(copy) : todo'[i + 3] = ItemAppended(ForkTurn(busy.th), copy[i])
           /\ todo'[Len(copy) + 4] = TurnEnded(ForkTurn(busy.th))
           /\ todo'[Len(copy) + 5].op = "SetLeaf"
           /\ todo'[Len(copy) + 6] = Flush(busy.th, FALSE)
           /\ \A i \in 1 .. Len(copy) + 6 : todo'[i].th = busy.th
           /\ \A i \in 1 .. Len(copy) + 6 :
                  \/ i \in {1, 2, 3, Len(copy) + 4, Len(copy) + 5, Len(copy) + 6}
                  \/ i - 3 \in 1 .. Len(copy) /\ i = (i - 3) + 3
<1> DEFINE p == Plan(busy.th, copy)
<1>1. copy \in Seq(Items) /\ Len(copy) \in Nat /\ todo' = p
  BY DEF Copied
<1>2. busy.th \in Forks
  BY ForkCopyFacts
<1>3. /\ p \in Seq(Ops) /\ Len(p) = Len(copy) + 6
      /\ p[1] = ForkHeader(busy.th)
      /\ p[2] = ThreadUpserted(busy.th, Main)
      /\ p[3] = TurnStarted(ForkTurn(busy.th))
      /\ \A i \in 1 .. Len(copy) : p[i + 3] = ItemAppended(ForkTurn(busy.th), copy[i])
      /\ p[Len(copy) + 4] = TurnEnded(ForkTurn(busy.th))
      /\ p[Len(copy) + 5].op = "SetLeaf"
      /\ p[Len(copy) + 6] = Flush(busy.th, FALSE)
      /\ \A i \in 1 .. Len(copy) + 6 : p[i].th = busy.th
  BY <1>1, <1>2, PlanFacts
<1> HIDE DEF p
<1>4. \A i \in 1 .. Len(copy) + 6 :
          \/ i \in {1, 2, 3, Len(copy) + 4, Len(copy) + 5, Len(copy) + 6}
          \/ i - 3 \in 1 .. Len(copy) /\ i = (i - 3) + 3
  BY <1>1
<1> QED
  BY <1>1, <1>3, <1>4

(* A new fork has the name to itself: nothing of that name is on its way.    *)
LEMMA NewNameAlone ==
    ASSUME BaseInv, ResidentInv, ForkCopy, busy.th \notin reused'
    PROVE  /\ file[busy.th] = <<>>
           /\ \A a \in stray : a.turn.th # busy.th
           /\ \A e \in ending : e.turn.th # busy.th
           /\ \A i \in DOMAIN queue : queue[i].op # "Flush" => queue[i].th # busy.th
           /\ \A i \in DOMAIN queue : queue[i] # ThreadUpserted(busy.th, None)
<1>1. ~Taken(busy.th) /\ life = "up"
  BY ForkCopyFacts
<1>2. busy.th \notin resident /\ file[busy.th] = <<>>
  BY <1>1 DEF Taken
<1>3. ThreadUpserted(busy.th, None).op # "Flush" /\ ThreadUpserted(busy.th, None).th = busy.th
  BY DEF ThreadUpserted
<1> QED
  BY <1>1, <1>2, <1>3 DEF ResidentInv

(* The copy goes on while others go on: it stays alone if what is added is   *)
(* of a thread somebody already talked to.                                   *)
LEMMA StaysAlone ==
    ASSUME TodoInv, reused \subseteq reused',
           \A i \in DOMAIN todo' : \E j \in DOMAIN todo : todo'[i] = todo[j],
           \A a \in stray' : \E b \in stray : a.turn = b.turn,
           \A e \in ending' : \E d \in ending : e.turn = d.turn,
           \A i \in DOMAIN queue', th \in ThreadIds : queue'[i] = ThreadUpserted(th, None) =>
               \/ \E j \in DOMAIN queue : queue[j] = ThreadUpserted(th, None)
               \/ \E j \in DOMAIN todo : todo[j] = ThreadUpserted(th, None)
               \/ \E e \in ending : e.turn.th = th
    PROVE  TodoInv'
<1> SUFFICES ASSUME NEW th \in ThreadIds \ reused', Copying(th)' PROVE Alone(th)'
  BY DEF TodoInv
<1>1. Copying(th)
  BY DEF Copying
<1>2. Alone(th)
  BY <1>1 DEF TodoInv
<1> QED
  BY <1>2 DEF Alone

(* Where no copy is to be sent there is nothing to show. *)
LEMMA CopiesNothing ==
    ASSUME \A i \in DOMAIN todo' : \A th : ~Copies(todo'[i], th)
    PROVE  TodoInv'
BY DEF TodoInv, Copying

(* At the start there is no fork. *)
LEMMA TodoInit == Init => TodoInv
BY Nothing DEF Init, TodoInv, Copying

(* A new fork is alone with its rollout, and stays so while its copy is sent. *)
LEMMA TodoStep ==
    ASSUME BaseInv, ResidentInv, TodoInv, [Next]_vars
    PROVE  TodoInv'
<1>t. /\ queue \in Seq(Ops) /\ todo \in Seq(Ops)
      /\ \A i \in DOMAIN queue : Sound(queue[i])
      /\ \A i \in DOMAIN todo : Sound(todo[i])
  BY DEF BaseInv, TypeOK, ChannelInv
<1>1. CASE UNCHANGED vars \/ ForkFails \/ ResumeRead \/ WriterSync \/ SyncFails \/ WriterIndex
           \/ Restart
  <2>1. UNCHANGED <<queue, todo, stray, ending, reused>>
    BY <1>1 DEF vars, turnVars, actorVars, saves, ForkFails, ResumeRead, WriterSync, SyncFails,
                WriterIndex, Restart
  <2> QED
    BY <2>1 DEF TodoInv, Copying, Alone
<1>2. CASE Close \/ WriterExits \/ Crash \/ AppendItem \/ FinishTurn
  <2>1. todo' = <<>>
    BY <1>2 DEF Close, WriterExits, Crash, AppendItem, FinishTurn, ForgetEngine, actorVars,
                BaseInv, LifeInv
  <2> QED
    BY <2>1, CopiesNothing, Nothing
<1>3. CASE \E th \in ThreadIds : StartTurn(th)
  <2>1. PICK th \in ThreadIds : StartTurn(th)
    BY <1>3
  <2> DEFINE u == TurnId(th, counter)
  <2>2. todo' = <<ThreadUpserted(th, None), TurnStarted(u)>>
    BY <2>1 DEF StartTurn
  <2> HIDE DEF u
  <2>3. \A i \in DOMAIN todo' : todo'[i] \in {ThreadUpserted(th, None), TurnStarted(u)}
    BY <2>2
  <2> QED
    BY <2>3, CopiesFacts, CopiesNothing
<1>4. CASE CancelTurn
  <2>1. /\ active # None
        /\ todo' = <<TurnEnded(active.turn), ThreadUpserted(active.turn.th, None)>>
    BY <1>4 DEF CancelTurn
  <2>2. active.turn.n >= 0
    BY <2>1 DEF BaseInv, CountInv
  <2>3. \A i \in DOMAIN todo' :
            todo'[i] \in {TurnEnded(active.turn), ThreadUpserted(active.turn.th, None)}
    BY <2>1
  <2> QED
    BY <2>2, <2>3, CopiesFacts, CopiesNothing
<1>5. CASE SendNext
  <2>1. /\ todo # <<>> /\ TrySend(Head(todo)) /\ todo' = Tail(todo)
        /\ UNCHANGED <<stray, ending, reused>>
    BY <1>5 DEF SendNext, turnVars, saves
  <2>2. Head(todo) = todo[1] /\ 1 \in DOMAIN todo /\ Sound(Head(todo))
    BY <1>t, <2>1
  <2>3. \A i \in DOMAIN todo' : i + 1 \in DOMAIN todo /\ todo'[i] = todo[i + 1]
    BY <1>t, <2>1
  <2>4. \/ /\ Len(queue') = Len(queue) + 1
           /\ \A i \in 1 .. Len(queue) : queue'[i] = queue[i]
           /\ queue'[Len(queue) + 1] = todo[1]
           /\ queue' \in Seq(Ops)
        \/ queue' = queue
    BY <2>1, <2>2, Sending
  <2>5. \A i \in DOMAIN queue' : (\E j \in DOMAIN queue : queue'[i] = queue[j]) \/ queue'[i] = todo[1]
    BY <1>t, <2>4
  <2> QED
    BY <2>1, <2>2, <2>3, <2>5, StaysAlone
<1>6. CASE \E a \in stray : StrayItem(a)
  <2>1. PICK a \in stray : StrayItem(a)
    BY <1>6
  <2>2. /\ a \in [turn : Turns, seq : 0 .. MaxEvents] /\ a.seq <= items /\ Say(a)
        /\ stray' = (stray \ {a}) \union {Spoken(a)}
        /\ UNCHANGED <<todo, ending, reused>>
    BY <2>1 DEF StrayItem, BaseInv, TypeOK, CountInv, actorVars, saves
  <2>3. PICK it \in Items : Says(a, it)
    BY <2>2, SayFacts
  <2> DEFINE op == ItemAppended(a.turn, it)
  <2>4. TrySend(op) /\ Sound(op) /\ Spoken(a).turn = a.turn /\ op.op = "ItemAppended"
    BY <2>3, ItemLineFacts DEF Says
  <2> HIDE DEF op
  <2>5. \A i \in DOMAIN queue' : (\E j \in DOMAIN queue : queue'[i] = queue[j]) \/ queue'[i] = op
    <3>1. \/ /\ Len(queue') = Len(queue) + 1
             /\ \A i \in 1 .. Len(queue) : queue'[i] = queue[i]
             /\ queue'[Len(queue) + 1] = op
             /\ queue' \in Seq(Ops)
          \/ queue' = queue
      BY <2>4, Sending
    <3> QED
      BY <1>t, <3>1
  <2>6. \A th : op # ThreadUpserted(th, None)
    BY <2>4 DEF ThreadUpserted
  <2>7. \A b \in stray' : \E c \in stray : b.turn = c.turn
    BY <2>2, <2>4
  <2> QED
    BY <2>2, <2>5, <2>6, <2>7, StaysAlone
<1>7. CASE \E e \in ending : SendEnded(e)
  <2>1. PICK e \in ending : SendEnded(e)
    BY <1>7
  <2>2. e.turn \in Turns /\ e.turn.th \in ThreadIds
        /\ e \in [turn : Turns, send : {"ended", "idle"}]
    BY DEF BaseInv, TypeOK, Turns
  <2>3. /\ UNCHANGED <<stray, todo, reused>>
        /\ ending' \in {(ending \ {e}) \union {[e EXCEPT !.send = "idle"]}, ending \ {e}}
        /\ TrySend(TurnEnded(e.turn)) \/ TrySend(ThreadUpserted(e.turn.th, None))
    BY <2>1 DEF SendEnded, actorVars, saves
  <2>4. PICK op \in {TurnEnded(e.turn), ThreadUpserted(e.turn.th, None)} : TrySend(op)
    BY <2>3
  <2>5. Sound(op) /\ \A th : op = ThreadUpserted(th, None) => e.turn.th = th
    <3>1. Sound(TurnEnded(e.turn)) /\ Sound(ThreadUpserted(e.turn.th, None))
      BY <2>2, OpTypes
    <3>2. \A th : TurnEnded(e.turn) # ThreadUpserted(th, None)
      BY DEF ThreadUpserted, TurnEnded
    <3>3. \A th : ThreadUpserted(e.turn.th, None) = ThreadUpserted(th, None) => e.turn.th = th
      BY DEF ThreadUpserted
    <3> QED
      BY <2>4, <3>1, <3>2, <3>3
  <2>6. \A i \in DOMAIN queue' : (\E j \in DOMAIN queue : queue'[i] = queue[j]) \/ queue'[i] = op
    <3>1. \/ /\ Len(queue') = Len(queue) + 1
             /\ \A i \in 1 .. Len(queue) : queue'[i] = queue[i]
             /\ queue'[Len(queue) + 1] = op
             /\ queue' \in Seq(Ops)
          \/ queue' = queue
      BY <2>4, <2>5, Sending
    <3> QED
      BY <1>t, <3>1
  <2>7. \A x \in ending' : \E y \in ending : x.turn = y.turn
    <3>1. [e EXCEPT !.send = "idle"].turn = e.turn
      BY <2>2
    <3> QED
      BY <2>1, <2>3, <3>1
  <2> QED
    BY <2>1, <2>3, <2>5, <2>6, <2>7, StaysAlone
<1>8. CASE ForkBegin \/ \E th \in ThreadIds : ResumeBegin(th)
  <2>1. UNCHANGED <<stray, ending, todo, reused>> /\ todo = <<>>
    BY <1>8 DEF ForkBegin, ResumeBegin, ActorFree, turnVars, saves
  <2> QED
    BY <2>1, CopiesNothing, Nothing
<1>9. CASE FlushTimeout
  <2>1. UNCHANGED <<stray, ending, todo, reused>> /\ todo = <<>>
    BY <1>9 DEF FlushTimeout, turnVars, saves, BaseInv, LifeInv
  <2> QED
    BY <2>1, CopiesNothing, Nothing
<1>10. CASE ForkCopy
  <2>1. PICK copy : Copied(copy)
    BY <1>10, ForkCopyFacts
  <2>2. /\ busy.th \in Forks /\ reused \subseteq reused'
        /\ UNCHANGED <<queue, stray, ending>>
    BY <1>10, ForkCopyFacts
  <2>4. /\ todo' \in Seq(Ops) /\ Len(todo') = Len(copy) + 6 /\ Len(copy) \in Nat
        /\ todo'[1] = ForkHeader(busy.th)
        /\ todo'[2] = ThreadUpserted(busy.th, Main)
        /\ todo'[3] = TurnStarted(ForkTurn(busy.th))
        /\ \A i \in 1 .. Len(copy) : todo'[i + 3] = ItemAppended(ForkTurn(busy.th), copy[i])
        /\ todo'[Len(copy) + 4] = TurnEnded(ForkTurn(busy.th))
        /\ todo'[Len(copy) + 5].op = "SetLeaf"
        /\ todo'[Len(copy) + 6] = Flush(busy.th, FALSE)
        /\ \A i \in 1 .. Len(copy) + 6 : todo'[i].th = busy.th
        /\ \A i \in 1 .. Len(copy) + 6 :
               \/ i \in {1, 2, 3, Len(copy) + 4, Len(copy) + 5, Len(copy) + 6}
               \/ i - 3 \in 1 .. Len(copy) /\ i = (i - 3) + 3
    BY <1>10, <2>1, PlanSent
  <2> SUFFICES ASSUME NEW th \in ThreadIds \ reused', Copying(th)' PROVE Alone(th)'
    BY DEF TodoInv
  <2>5. th = busy.th
    BY <2>4, CopiesFacts DEF Copying
  <2>6. \A i \in DOMAIN todo' : todo'[i] # ThreadUpserted(busy.th, None)
    <3> SUFFICES ASSUME NEW i \in 1 .. Len(copy) + 6 PROVE todo'[i] # ThreadUpserted(busy.th, None)
      BY <2>4
    <3>2. CASE i \in {1, 2, 3, Len(copy) + 4, Len(copy) + 5, Len(copy) + 6}
      <4> DEFINE x == ThreadUpserted(busy.th, None)
      <4>1. /\ ForkHeader(busy.th) # x /\ TurnStarted(ForkTurn(busy.th)) # x
            /\ TurnEnded(ForkTurn(busy.th)) # x /\ Flush(busy.th, FALSE) # x
            /\ x.op # "SetLeaf"
        BY DEF ThreadUpserted, ForkHeader, TurnStarted, TurnEnded, Flush
      <4>2. ThreadUpserted(busy.th, Main) # x
        BY PersistenceConstants DEF ThreadUpserted
      <4> HIDE DEF x
      <4>3. todo'[i] # x
        BY <2>4, <3>2, <4>1, <4>2
      <4> QED
        BY <4>3 DEF x
    <3>3. CASE i - 3 \in 1 .. Len(copy) /\ i = (i - 3) + 3
      <4>1. todo'[i] = ItemAppended(ForkTurn(busy.th), copy[i - 3])
        BY <2>4, <3>3
      <4> QED
        BY <4>1 DEF ThreadUpserted, ItemAppended
    <3> QED
      BY <2>4, <3>2, <3>3
  <2>7. /\ \A a \in stray : a.turn.th # busy.th
        /\ \A e \in ending : e.turn.th # busy.th
        /\ \A i \in DOMAIN queue : queue[i] # ThreadUpserted(busy.th, None)
    BY <1>10, <2>5, NewNameAlone
  <2> QED
    BY <2>2, <2>5, <2>6, <2>7 DEF Alone
<1>11. CASE WriterTake \/ OpenFails
  <2>1. /\ queue # <<>> /\ queue' = Tail(queue)
        /\ UNCHANGED <<stray, ending, todo, reused>>
    BY <1>11 DEF WriterTake, OpenFails, saves, turnVars, actorVars
  <2>2. \A i \in DOMAIN queue' : queue'[i] = queue[i + 1] /\ i + 1 \in DOMAIN queue
    BY <2>1, TakeFacts
  <2> QED
    BY <2>1, <2>2, StaysAlone
<1> QED
  BY <1>1, <1>2, <1>3, <1>4, <1>5, <1>6, <1>7, <1>8, <1>9, <1>10, <1>11 DEF Next

(* Where the items of a rollout are: in the file, in the channel, or with    *)
(* the actor, which has still to send them.                                  *)
FileSays(th, i, a) ==
    i \in 1 .. Len(file[th]) /\ file[th][i].kind = "item" /\ file[th][i].item.at = a
QueueSays(th, i, a) ==
    /\ i \in DOMAIN queue /\ queue[i].op = "ItemAppended" /\ queue[i].th = th
    /\ queue[i].item.at = a
TodoSays(th, i, a) ==
    /\ i \in DOMAIN todo /\ todo[i].op = "ItemAppended" /\ todo[i].th = th
    /\ todo[i].item.at = a

(* None is younger than the last one said ... *)
AtInv ==
    \A th \in ThreadIds : \A i, a :
        FileSays(th, i, a) \/ QueueSays(th, i, a) \/ TodoSays(th, i, a) =>
            i \in Nat \ {0} /\ a \in Nat /\ a <= items

(* ... and they are in the order in which they were said, the file before    *)
(* the channel, and that before what the actor has still to send.            *)
OrderAt(th) ==
    \A i, j, a, b :
        /\ FileSays(th, i, a) /\ FileSays(th, j, b) /\ i < j => a < b
        /\ FileSays(th, i, a) /\ QueueSays(th, j, b) => a < b
        /\ FileSays(th, i, a) /\ TodoSays(th, j, b) => a < b
        /\ QueueSays(th, i, a) /\ QueueSays(th, j, b) /\ i < j => a < b
        /\ QueueSays(th, i, a) /\ TodoSays(th, j, b) => a < b
        /\ TodoSays(th, i, a) /\ TodoSays(th, j, b) /\ i < j => a < b
OrderInv == \A th \in ThreadIds \ reused : OrderAt(th)

(* At the start nothing was said. *)
LEMMA OrderInit == Init => AtInv /\ OrderInv
<1> SUFFICES ASSUME Init PROVE AtInv /\ OrderInv
  OBVIOUS
<1>1. \A th \in ThreadIds : \A i, a :
          ~FileSays(th, i, a) /\ ~QueueSays(th, i, a) /\ ~TodoSays(th, i, a)
  <2>1. queue = <<>> /\ todo = <<>> /\ \A th \in ThreadIds : file[th] = <<>>
    BY DEF Init
  <2>2. 1 .. Len(<<>>) = {}
    OBVIOUS
  <2> QED
    BY <2>1, <2>2, Nothing DEF FileSays, QueueSays, TodoSays
<1> QED
  BY <1>1 DEF AtInv, OrderInv, OrderAt

(* Most steps add no item anywhere. *)
LEMMA NothingSaid ==
    ASSUME AtInv, OrderInv, reused \subseteq reused', items \in Nat, items' \in Nat, items <= items',
           \A th \in ThreadIds : \A i, a :
               /\ FileSays(th, i, a)' => FileSays(th, i, a)
               /\ QueueSays(th, i, a)' => QueueSays(th, i, a)
               /\ TodoSays(th, i, a)' => TodoSays(th, i, a)
    PROVE  AtInv' /\ OrderInv'
<1>1. AtInv'
  BY DEF AtInv
<1>2. ASSUME NEW th \in ThreadIds \ reused' PROVE OrderAt(th)'
  <2>1. OrderAt(th) /\ th \in ThreadIds
    BY <1>2 DEF OrderInv
  <2> QED
    BY <2>1 DEF OrderAt
<1> QED
  BY <1>1, <1>2 DEF OrderInv

(* An operation that carries no item adds none to the channel. *)
LEMMA SendsNoItem ==
    ASSUME BaseInv, NEW op, Sound(op), TrySend(op), op.op # "ItemAppended"
    PROVE  \A th \in ThreadIds : \A i, a : QueueSays(th, i, a)' => QueueSays(th, i, a)
<1>1. queue \in Seq(Ops)
  BY DEF BaseInv, TypeOK
<1>2. \/ /\ Len(queue') = Len(queue) + 1
         /\ \A i \in 1 .. Len(queue) : queue'[i] = queue[i]
         /\ queue'[Len(queue) + 1] = op
         /\ queue' \in Seq(Ops)
      \/ queue' = queue
  BY Sending
<1>3. \A i \in DOMAIN queue' : (i \in DOMAIN queue /\ queue'[i] = queue[i]) \/ queue'[i] = op
  BY <1>1, <1>2
<1> QED
  BY <1>3 DEF QueueSays

(* The next operation goes behind those in the channel. *)
LEMMA SendNextOrder ==
    ASSUME BaseInv, AtInv, OrderInv, SendNext
    PROVE  AtInv' /\ OrderInv'
<1>1. /\ todo # <<>> /\ TrySend(Head(todo)) /\ todo' = Tail(todo)
      /\ UNCHANGED <<file, items, reused>>
  BY DEF SendNext, disk, counts, saves
<1>2. queue \in Seq(Ops) /\ todo \in Seq(Ops) /\ items \in Nat
  BY DEF BaseInv, TypeOK, CountInv
<1>3. Head(todo) = todo[1] /\ 1 \in DOMAIN todo /\ Sound(Head(todo))
  BY <1>1, <1>2 DEF BaseInv, ChannelInv
<1>4. \/ /\ Len(queue') = Len(queue) + 1
         /\ \A i \in 1 .. Len(queue) : queue'[i] = queue[i]
         /\ queue'[Len(queue) + 1] = todo[1]
         /\ queue' \in Seq(Ops)
      \/ queue' = queue
  BY <1>1, <1>3, Sending
<1>5. \A th : \A i, a : QueueSays(th, i, a)' =>
          QueueSays(th, i, a) \/ (i = Len(queue) + 1 /\ TodoSays(th, 1, a))
  <2>1. \A i \in DOMAIN queue' : \/ i \in DOMAIN queue /\ queue'[i] = queue[i]
                                 \/ i = Len(queue) + 1 /\ queue'[i] = todo[1]
    BY <1>2, <1>4
  <2> QED
    BY <1>3, <2>1 DEF QueueSays, TodoSays
<1>6. \A th : \A i, a : TodoSays(th, i, a)' => TodoSays(th, i + 1, a)
  <2>1. \A i \in DOMAIN todo' : todo'[i] = todo[i + 1] /\ i + 1 \in DOMAIN todo
    BY <1>1, <1>2
  <2> QED
    BY <2>1 DEF TodoSays
<1>7. \A th : \A i, a : FileSays(th, i, a)' => FileSays(th, i, a)
  BY <1>1 DEF FileSays
<1>8. \A th : \A i, a : /\ QueueSays(th, i, a) => i \in Nat /\ i <= Len(queue)
                        /\ TodoSays(th, i, a)' => i \in Nat \ {0}
  <2>1. todo' \in Seq(Ops)
    BY <1>1, <1>2
  <2> QED
    BY <1>2, <2>1 DEF QueueSays, TodoSays
<1>9. Len(queue) \in Nat
  BY <1>2
<1>10. AtInv'
  BY <1>1, <1>5, <1>6, <1>7, <1>8, <1>9 DEF AtInv
<1>11. ASSUME NEW th \in ThreadIds \ reused' PROVE OrderAt(th)'
  <2>1. OrderAt(th)
    BY <1>1, <1>11 DEF OrderInv
  <2>2. ASSUME NEW i, NEW j, NEW a, NEW b
        PROVE /\ (FileSays(th, i, a) /\ FileSays(th, j, b))' /\ i < j => a < b
              /\ (FileSays(th, i, a) /\ QueueSays(th, j, b))' => a < b
              /\ (FileSays(th, i, a) /\ TodoSays(th, j, b))' => a < b
              /\ (QueueSays(th, i, a) /\ QueueSays(th, j, b))' /\ i < j => a < b
              /\ (QueueSays(th, i, a) /\ TodoSays(th, j, b))' => a < b
              /\ (TodoSays(th, i, a) /\ TodoSays(th, j, b))' /\ i < j => a < b
    <3>1. (FileSays(th, i, a) /\ FileSays(th, j, b))' /\ i < j => a < b
      BY <1>7, <2>1 DEF OrderAt
    <3>2. (FileSays(th, i, a) /\ QueueSays(th, j, b))' => a < b
      BY <1>5, <1>7, <2>1 DEF OrderAt
    <3>3. (FileSays(th, i, a) /\ TodoSays(th, j, b))' => a < b
      BY <1>6, <1>7, <2>1 DEF OrderAt
    <3>4. (QueueSays(th, i, a) /\ QueueSays(th, j, b))' /\ i < j => a < b
      BY <1>5, <1>8, <1>9, <2>1 DEF OrderAt
    <3>5. (QueueSays(th, i, a) /\ TodoSays(th, j, b))' => a < b
      <4> SUFFICES ASSUME QueueSays(th, i, a)', TodoSays(th, j, b)' PROVE a < b
        OBVIOUS
      <4>1. j + 1 > 1 /\ TodoSays(th, j + 1, b)
        BY <1>6, <1>8
      <4>2. QueueSays(th, i, a) \/ TodoSays(th, 1, a)
        BY <1>5
      <4> QED
        BY <2>1, <4>1, <4>2 DEF OrderAt
    <3>6. (TodoSays(th, i, a) /\ TodoSays(th, j, b))' /\ i < j => a < b
      BY <1>6, <1>8, <2>1 DEF OrderAt
    <3> QED
      BY <3>1, <3>2, <3>3, <3>4, <3>5, <3>6
  <2> QED
    BY <2>2 DEF OrderAt
<1> QED
  BY <1>10, <1>11 DEF OrderInv

(* An item is said: it is younger than all, and nobody has older ones of its *)
(* thread still to send, but for a fork that shares its name.                *)
LEMMA SayOrder ==
    ASSUME BaseInv, AtInv, OrderInv, NEW u \in Turns, NEW it \in Items,
           it.at = items', items' = items + 1, TrySend(ItemAppended(u, it)),
           UNCHANGED <<file, todo, reused>>,
           u.th \notin reused => \A i, a : ~TodoSays(u.th, i, a)
    PROVE  AtInv' /\ OrderInv'
<1> DEFINE op == ItemAppended(u, it)
<1>1. Sound(op) /\ op.th = u.th /\ op.item = it
  BY OpTypes, ItemLineFacts
<1>2. queue \in Seq(Ops) /\ Len(queue) \in Nat /\ items \in Nat
  BY DEF BaseInv, TypeOK, CountInv
<1> HIDE DEF op
<1>3. \/ /\ Len(queue') = Len(queue) + 1
         /\ \A i \in 1 .. Len(queue) : queue'[i] = queue[i]
         /\ queue'[Len(queue) + 1] = op
         /\ queue' \in Seq(Ops)
      \/ queue' = queue
  <2>1. TrySend(op)
    BY DEF op
  <2> QED
    BY <1>1, <2>1, Sending
<1>4. \A th : \A i, a : QueueSays(th, i, a)' =>
          QueueSays(th, i, a) \/ (i = Len(queue) + 1 /\ a = items' /\ th = u.th)
  <2>1. \A i \in DOMAIN queue' : \/ i \in DOMAIN queue /\ queue'[i] = queue[i]
                                 \/ i = Len(queue) + 1 /\ queue'[i] = op
    BY <1>2, <1>3
  <2> QED
    BY <1>1, <2>1 DEF QueueSays
<1>5. \A th : \A i, a : /\ FileSays(th, i, a)' => FileSays(th, i, a)
                        /\ TodoSays(th, i, a)' => TodoSays(th, i, a)
                        /\ QueueSays(th, i, a) => i \in Nat /\ i <= Len(queue)
  BY <1>2 DEF FileSays, TodoSays, QueueSays
<1>6. AtInv'
  BY <1>2, <1>4, <1>5 DEF AtInv
<1>7. ASSUME NEW th \in ThreadIds \ reused' PROVE OrderAt(th)'
  <2>1. OrderAt(th) /\ th \in ThreadIds /\ th \notin reused
    BY <1>7 DEF OrderInv
  <2>2. \A i, a : FileSays(th, i, a) \/ QueueSays(th, i, a) => a \in Nat /\ a < items'
    BY <1>2, <2>1 DEF AtInv
  <2>3. th = u.th => \A i, a : ~TodoSays(th, i, a)
    BY <2>1
  <2>4. ASSUME NEW i, NEW j, NEW a, NEW b
        PROVE /\ (FileSays(th, i, a) /\ FileSays(th, j, b))' /\ i < j => a < b
              /\ (FileSays(th, i, a) /\ QueueSays(th, j, b))' => a < b
              /\ (FileSays(th, i, a) /\ TodoSays(th, j, b))' => a < b
              /\ (QueueSays(th, i, a) /\ QueueSays(th, j, b))' /\ i < j => a < b
              /\ (QueueSays(th, i, a) /\ TodoSays(th, j, b))' => a < b
              /\ (TodoSays(th, i, a) /\ TodoSays(th, j, b))' /\ i < j => a < b
    <3>1. (FileSays(th, i, a) /\ FileSays(th, j, b))' /\ i < j => a < b
      BY <1>5, <2>1 DEF OrderAt
    <3>2. (FileSays(th, i, a) /\ QueueSays(th, j, b))' => a < b
      BY <1>4, <1>5, <2>1, <2>2 DEF OrderAt
    <3>3. (FileSays(th, i, a) /\ TodoSays(th, j, b))' => a < b
      BY <1>5, <2>1 DEF OrderAt
    <3>4. (QueueSays(th, i, a) /\ QueueSays(th, j, b))' /\ i < j => a < b
      BY <1>2, <1>4, <1>5, <2>1, <2>2 DEF OrderAt
    <3>5. (QueueSays(th, i, a) /\ TodoSays(th, j, b))' => a < b
      BY <1>4, <1>5, <2>1, <2>3 DEF OrderAt
    <3>6. (TodoSays(th, i, a) /\ TodoSays(th, j, b))' /\ i < j => a < b
      BY <1>5, <2>1 DEF OrderAt
    <3> QED
      BY <3>1, <3>2, <3>3, <3>4, <3>5, <3>6
  <2> QED
    BY <2>4 DEF OrderAt
<1> QED
  BY <1>6, <1>7 DEF OrderInv

(* The writer takes the oldest of the channel to the end of the file. *)
LEMMA TakeOrder ==
    ASSUME BaseInv, AtInv, OrderInv, WriterTake \/ OpenFails
    PROVE  AtInv' /\ OrderInv'
<1>1. /\ queue # <<>> /\ queue' = Tail(queue)
      /\ UNCHANGED <<todo, items, reused>>
  BY DEF WriterTake, OpenFails, actorVars, counts, saves
<1>2. queue \in Seq(Ops) /\ Head(queue) = queue[1] /\ 1 \in DOMAIN queue /\ Sound(Head(queue))
  BY <1>1, TakeFacts DEF BaseInv, TypeOK
<1>3. \A th \in ThreadIds : file[th] \in Seq(Lines) /\ Len(file[th]) \in Nat
  BY DEF BaseInv, TypeOK
<1>4. \A th \in ThreadIds : \A i, a : FileSays(th, i, a)' =>
          FileSays(th, i, a) \/ (i = Len(file[th]) + 1 /\ QueueSays(th, 1, a))
  <2> DEFINE op == Head(queue)
  <2>1. CASE OpenFails
    <3>1. file' = file
      BY <2>1 DEF OpenFails, disk
    <3> QED
      BY <3>1 DEF FileSays
  <2>2. CASE WriterTake
    <3>1. TakesInto(op)
      BY <2>2, TakeDisk
    <3>2. op = queue[1] /\ Sound(op) /\ op \in Ops
      BY <1>2 DEF Sound
    <3>3. Bad.kind # "item" /\ op.th \in ThreadIds
      BY <3>2, OpKinds DEF Bad
    <3>4. Writes(op) /\ LineOf(op).kind = "item" => op.op = "ItemAppended" /\ LineOf(op).item = op.item
      <4>1. CASE op.op = "ItemAppended"
        BY <4>1 DEF LineOf, ItemLine, Heads
      <4>2. CASE op.op = "ThreadUpserted" \/ op.op = "ForkHeader"
        BY <4>2 DEF LineOf, Session, Heads
      <4>3. CASE op.op = "TurnEnded" \/ op.op = "SetLeaf"
        BY <4>3 DEF LineOf, Leaf, Heads
      <4> QED
        BY <4>1, <4>2, <4>3 DEF Writes, Heads
    <3> HIDE DEF op
    <3> SUFFICES ASSUME NEW th \in ThreadIds, NEW i, NEW a, FileSays(th, i, a)'
                 PROVE  FileSays(th, i, a) \/ (i = Len(file[th]) + 1 /\ QueueSays(th, 1, a))
      OBVIOUS
    <3>5. i \in 1 .. Len(file'[th]) /\ file'[th][i].kind = "item" /\ file'[th][i].item.at = a
      BY DEF FileSays
    <3>6. CASE th # op.th
      BY <3>1, <3>5, <3>6 DEF TakesInto, FileSays
    <3>7. CASE th = op.th
      <4>1. CASE ~Writes(op)
        BY <3>1, <3>5, <4>1 DEF TakesInto, FileSays
      <4>2. CASE Writes(op) /\ EndsTorn(file[op.th])
        <5>1. /\ Len(file'[th]) = Len(file[th]) /\ file'[th][Len(file[th])] = Bad
              /\ \A k \in 1 .. Len(file[th]) : k # Len(file[th]) => file'[th][k] = file[th][k]
          BY <3>1, <3>7, <4>2 DEF TakesInto
        <5> QED
          BY <3>3, <3>5, <5>1 DEF FileSays
      <4>3. CASE Writes(op) /\ ~EndsTorn(file[op.th])
        <5>1. /\ Len(file'[th]) = Len(file[th]) + 1 /\ file'[th][Len(file[th]) + 1] = LineOf(op)
              /\ \A k \in 1 .. Len(file[th]) : file'[th][k] = file[th][k]
          BY <3>1, <3>7, <4>3 DEF TakesInto
        <5>2. i \in 1 .. Len(file[th]) \/ i = Len(file[th]) + 1
          BY <1>3, <3>5, <5>1
        <5>3. CASE i \in 1 .. Len(file[th])
          BY <3>5, <5>1, <5>3 DEF FileSays
        <5>4. CASE i = Len(file[th]) + 1
          <6>1. op.op = "ItemAppended" /\ op.item.at = a
            BY <3>4, <3>5, <4>3, <5>1, <5>4
          <6>2. QueueSays(th, 1, a)
            BY <1>2, <3>2, <3>7, <6>1 DEF QueueSays
          <6> QED
            BY <5>4, <6>2
        <5> QED
          BY <5>2, <5>3, <5>4
      <4> QED
        BY <4>1, <4>2, <4>3
    <3> QED
      BY <3>6, <3>7
  <2> QED
    BY <2>1, <2>2
<1>5. \A th : \A i, a : QueueSays(th, i, a)' => i \in Nat \ {0} /\ QueueSays(th, i + 1, a)
  <2>1. queue' \in Seq(Ops) /\ \A i \in DOMAIN queue' : queue'[i] = queue[i + 1] /\ i + 1 \in DOMAIN queue
    BY <1>1, TakeFacts
  <2> QED
    BY <2>1 DEF QueueSays
<1>6. \A th : \A i, a : TodoSays(th, i, a)' => TodoSays(th, i, a)
  BY <1>1 DEF TodoSays
<1>7. \A th \in ThreadIds : \A i, a : FileSays(th, i, a) => i \in Nat /\ i <= Len(file[th])
  BY <1>3 DEF FileSays
<1>8. AtInv'
  <2>1. \A th \in ThreadIds : \A i, a : FileSays(th, i, a)' => i \in Nat \ {0}
    BY DEF FileSays
  <2> QED
    BY <1>1, <1>4, <1>5, <1>6, <2>1 DEF AtInv
<1>9. ASSUME NEW th \in ThreadIds \ reused' PROVE OrderAt(th)'
  <2>1. OrderAt(th) /\ th \in ThreadIds
    BY <1>1, <1>9 DEF OrderInv
  <2>2. ASSUME NEW i, NEW j, NEW a, NEW b
        PROVE /\ (FileSays(th, i, a) /\ FileSays(th, j, b))' /\ i < j => a < b
              /\ (FileSays(th, i, a) /\ QueueSays(th, j, b))' => a < b
              /\ (FileSays(th, i, a) /\ TodoSays(th, j, b))' => a < b
              /\ (QueueSays(th, i, a) /\ QueueSays(th, j, b))' /\ i < j => a < b
              /\ (QueueSays(th, i, a) /\ TodoSays(th, j, b))' => a < b
              /\ (TodoSays(th, i, a) /\ TodoSays(th, j, b))' /\ i < j => a < b
    <3>1. (FileSays(th, i, a) /\ FileSays(th, j, b))' /\ i < j => a < b
      BY <1>3, <1>4, <1>7, <2>1 DEF OrderAt
    <3>2. (FileSays(th, i, a) /\ QueueSays(th, j, b))' => a < b
      <4> SUFFICES ASSUME FileSays(th, i, a)', QueueSays(th, j, b)' PROVE a < b
        OBVIOUS
      <4>1. j + 1 > 1 /\ QueueSays(th, j + 1, b)
        BY <1>5
      <4>2. FileSays(th, i, a) \/ QueueSays(th, 1, a)
        BY <1>4, <2>1
      <4> QED
        BY <2>1, <4>1, <4>2 DEF OrderAt
    <3>3. (FileSays(th, i, a) /\ TodoSays(th, j, b))' => a < b
      BY <1>4, <1>6, <2>1 DEF OrderAt
    <3>4. (QueueSays(th, i, a) /\ QueueSays(th, j, b))' /\ i < j => a < b
      BY <1>5, <2>1 DEF OrderAt
    <3>5. (QueueSays(th, i, a) /\ TodoSays(th, j, b))' => a < b
      BY <1>5, <1>6, <2>1 DEF OrderAt
    <3>6. (TodoSays(th, i, a) /\ TodoSays(th, j, b))' /\ i < j => a < b
      BY <1>6, <2>1 DEF OrderAt
    <3> QED
      BY <3>1, <3>2, <3>3, <3>4, <3>5, <3>6
  <2> QED
    BY <2>2 DEF OrderAt
<1> QED
  BY <1>8, <1>9 DEF OrderInv

(* A crash loses lines and leaves the rest in order. *)
LEMMA CrashOrder ==
    ASSUME BaseInv, AtInv, OrderInv, Crash
    PROVE  AtInv' /\ OrderInv'
<1>1. \A th \in ThreadIds : KeptBy(file[th], synced[th], file'[th])
  BY CrashFacts
<1>2. queue' = <<>> /\ todo' = <<>> /\ items' = items /\ reused' = reused /\ items \in Nat
  BY DEF Crash, ForgetWriter, ForgetEngine, counts, saves, BaseInv, CountInv
<1>3. \A th \in ThreadIds : \A i, a : FileSays(th, i, a)' => FileSays(th, i, a)
  <2> SUFFICES ASSUME NEW th \in ThreadIds, NEW i, NEW a, FileSays(th, i, a)'
               PROVE  FileSays(th, i, a)
    OBVIOUS
  <2>1. i \in 1 .. Len(file'[th]) /\ file'[th][i].kind = "item" /\ file'[th][i].item.at = a
    BY DEF FileSays
  <2>2. Torn.kind # "item"
    BY DEF Torn
  <2>3. i <= Len(file[th]) /\ file'[th][i] = file[th][i]
    BY <1>1, <2>1, <2>2 DEF KeptBy
  <2>4. Len(file[th]) \in Nat
    <3>1. file[th] \in Seq(Lines)
      BY DEF BaseInv, TypeOK
    <3> QED
      BY <3>1
  <2> QED
    BY <2>1, <2>3, <2>4 DEF FileSays
<1>4. \A th : \A i, a : ~QueueSays(th, i, a)' /\ ~TodoSays(th, i, a)'
  BY <1>2, Nothing DEF QueueSays, TodoSays
<1> QED
  BY <1>2, <1>3, <1>4, NothingSaid

(* A fork repeats what Main's rollout tells, in its order, to a rollout      *)
(* that is empty, unless another one shares it.                              *)
LEMMA ForkCopyOrder ==
    ASSUME BaseInv, ResidentInv, AtInv, OrderInv, ForkCopy
    PROVE  AtInv' /\ OrderInv'
<1>1. PICK copy : Copied(copy)
  BY ForkCopyFacts
<1>2. /\ UNCHANGED <<file, queue, items>> /\ busy.th \in Forks /\ reused \subseteq reused'
      /\ items \in Nat /\ reused' \ {busy.th} = reused \ {busy.th}
  BY ForkCopyFacts DEF BaseInv, CountInv
<1>3. Main \in ThreadIds \ reused /\ file[Main] \in Seq(Lines)
  <2>1. Main \notin Forks /\ reused \subseteq Forks
    BY PersistenceConstants DEF BaseInv, CountInv, Forks
  <2> QED
    BY <2>1 DEF ThreadIds, BaseInv, TypeOK
<1>4. PICK at : Tells(at, file[Main])
  BY <1>3, ReplayFacts
<1>5. /\ Len(copy) \in Nat /\ Len(Replay(file[Main])) \in Nat
      /\ Len(copy) <= Len(Replay(file[Main]))
      /\ \A k \in 1 .. Len(copy) : copy[k] = Replay(file[Main])[k]
  <2>1. Replay(file[Main]) \in Seq(Items)
    BY <1>3, ReplayFacts
  <2> QED
    BY <1>1, <2>1 DEF Copied
<1>6. \A k \in 1 .. Len(copy) : FileSays(Main, at[k], copy[k].at)
  <2> SUFFICES ASSUME NEW k \in 1 .. Len(copy) PROVE FileSays(Main, at[k], copy[k].at)
    OBVIOUS
  <2>1. k \in 1 .. Len(Replay(file[Main]))
    BY <1>5
  <2>2. at[k] \in 1 .. Len(file[Main]) /\ file[Main][at[k]].kind = "item"
        /\ Replay(file[Main])[k] = file[Main][at[k]].item
    BY <1>4, <2>1 DEF Tells
  <2> QED
    BY <1>5, <2>2 DEF FileSays
<1>7. \A k, l \in 1 .. Len(copy) : k < l => at[k] < at[l]
  BY <1>4, <1>5 DEF Tells
<1>8. \A th, i, a : TodoSays(th, i, a)' =>
          th = busy.th /\ i \in Nat /\ i - 3 \in 1 .. Len(copy) /\ a = copy[i - 3].at
  <2> SUFFICES ASSUME NEW th, NEW i, NEW a, TodoSays(th, i, a)'
               PROVE  th = busy.th /\ i \in Nat /\ i - 3 \in 1 .. Len(copy) /\ a = copy[i - 3].at
    OBVIOUS
  <2>1. /\ todo' \in Seq(Ops) /\ Len(todo') = Len(copy) + 6
        /\ todo'[1] = ForkHeader(busy.th)
        /\ todo'[2] = ThreadUpserted(busy.th, Main)
        /\ todo'[3] = TurnStarted(ForkTurn(busy.th))
        /\ \A k \in 1 .. Len(copy) : todo'[k + 3] = ItemAppended(ForkTurn(busy.th), copy[k])
        /\ todo'[Len(copy) + 4] = TurnEnded(ForkTurn(busy.th))
        /\ todo'[Len(copy) + 5].op = "SetLeaf"
        /\ todo'[Len(copy) + 6] = Flush(busy.th, FALSE)
        /\ \A k \in 1 .. Len(copy) + 6 : todo'[k].th = busy.th
        /\ \A k \in 1 .. Len(copy) + 6 :
               \/ k \in {1, 2, 3, Len(copy) + 4, Len(copy) + 5, Len(copy) + 6}
               \/ k - 3 \in 1 .. Len(copy) /\ k = (k - 3) + 3
    BY <1>1, PlanSent
  <2>2. /\ i \in 1 .. Len(copy) + 6 /\ todo'[i].op = "ItemAppended" /\ todo'[i].th = th
        /\ todo'[i].item.at = a
    BY <2>1 DEF TodoSays
  <2>3. th = busy.th
    BY <2>1, <2>2
  <2>4. i \notin {1, 2, 3, Len(copy) + 4, Len(copy) + 5, Len(copy) + 6}
    <3>1. /\ ForkHeader(busy.th).op # "ItemAppended" /\ ThreadUpserted(busy.th, Main).op # "ItemAppended"
          /\ TurnStarted(ForkTurn(busy.th)).op # "ItemAppended"
          /\ TurnEnded(ForkTurn(busy.th)).op # "ItemAppended"
          /\ Flush(busy.th, FALSE).op # "ItemAppended"
      BY DEF ForkHeader, ThreadUpserted, TurnStarted, TurnEnded, Flush
    <3> QED
      BY <2>1, <2>2, <3>1
  <2>5. i - 3 \in 1 .. Len(copy) /\ i = (i - 3) + 3
    BY <2>1, <2>2, <2>4
  <2>6. todo'[i].item = copy[i - 3]
    BY <2>1, <2>5, ItemLineFacts
  <2> QED
    BY <2>2, <2>3, <2>5, <2>6
<1>9. \A th : \A i, a : /\ FileSays(th, i, a)' => FileSays(th, i, a)
                        /\ QueueSays(th, i, a)' => QueueSays(th, i, a)
  BY <1>2 DEF FileSays, QueueSays
<1>10. AtInv'
  <2> SUFFICES ASSUME NEW th \in ThreadIds, NEW i, NEW a,
                      FileSays(th, i, a)' \/ QueueSays(th, i, a)' \/ TodoSays(th, i, a)'
               PROVE  i \in Nat \ {0} /\ a \in Nat /\ a <= items'
    BY DEF AtInv
  <2>1. CASE FileSays(th, i, a)' \/ QueueSays(th, i, a)'
    BY <1>2, <1>9, <2>1 DEF AtInv
  <2>2. CASE TodoSays(th, i, a)'
    <3>1. i \in Nat /\ i - 3 \in 1 .. Len(copy) /\ a = copy[i - 3].at
      BY <1>8, <2>2
    <3>2. FileSays(Main, at[i - 3], a)
      BY <1>6, <3>1
    <3> QED
      BY <1>2, <1>3, <1>5, <3>1, <3>2 DEF AtInv
  <2> QED
    BY <2>1, <2>2
<1>11. ASSUME NEW th \in ThreadIds \ reused' PROVE OrderAt(th)'
  <2>1. CASE th # busy.th
    <3>1. OrderAt(th) /\ \A i, a : ~TodoSays(th, i, a)'
      BY <1>2, <1>8, <1>11, <2>1 DEF OrderInv
    <3> QED
      BY <1>9, <3>1 DEF OrderAt
  <2>2. CASE th = busy.th
    <3>1. /\ file[busy.th] = <<>>
          /\ \A i \in DOMAIN queue : queue[i].op # "Flush" => queue[i].th # busy.th
      BY <1>11, <2>2, NewNameAlone
    <3>2. \A i, a : ~FileSays(th, i, a)' /\ ~QueueSays(th, i, a)'
      BY <1>2, <1>9, <2>2, <3>1, Nothing DEF FileSays, QueueSays
    <3>3. ASSUME NEW i, NEW j, NEW a, NEW b, TodoSays(th, i, a)', TodoSays(th, j, b)', i < j
          PROVE  a < b
      <4>1. /\ i \in Nat /\ i - 3 \in 1 .. Len(copy) /\ a = copy[i - 3].at
            /\ j \in Nat /\ j - 3 \in 1 .. Len(copy) /\ b = copy[j - 3].at
        BY <1>8, <3>3
      <4>2. i - 3 < j - 3
        BY <3>3, <4>1
      <4>3. FileSays(Main, at[i - 3], a) /\ FileSays(Main, at[j - 3], b) /\ at[i - 3] < at[j - 3]
        BY <1>6, <1>7, <4>1, <4>2
      <4>4. OrderAt(Main)
        BY <1>3 DEF OrderInv
      <4> QED
        BY <4>3, <4>4 DEF OrderAt
    <3> QED
      BY <3>2, <3>3 DEF OrderAt
  <2> QED
    BY <2>1, <2>2
<1> QED
  BY <1>10, <1>11 DEF OrderInv

(* Every step keeps the order. *)
LEMMA OrderStep ==
    ASSUME BaseInv, ResidentInv, TodoInv, AtInv, OrderInv, [Next]_vars
    PROVE  AtInv' /\ OrderInv'
<1>t. /\ queue \in Seq(Ops) /\ todo \in Seq(Ops) /\ items \in Nat
      /\ \A i \in DOMAIN queue : Sound(queue[i])
      /\ \A i \in DOMAIN todo : Sound(todo[i])
  BY DEF BaseInv, TypeOK, ChannelInv, CountInv
<1>0. ASSUME UNCHANGED <<file, items, reused>>,
             \A th \in ThreadIds : \A i, a :
                 /\ QueueSays(th, i, a)' => QueueSays(th, i, a)
                 /\ TodoSays(th, i, a)' => TodoSays(th, i, a)
      PROVE  AtInv' /\ OrderInv'
  <2>1. \A th \in ThreadIds : \A i, a : FileSays(th, i, a)' => FileSays(th, i, a)
    BY <1>0 DEF FileSays
  <2> QED
    BY <1>t, <1>0, <2>1, NothingSaid
<1>1. CASE UNCHANGED vars \/ FinishTurn \/ ForkFails \/ ResumeRead \/ WriterSync \/ SyncFails
           \/ WriterIndex \/ Restart
  <2>1. UNCHANGED <<file, items, reused, queue, todo>>
    BY <1>1 DEF vars, actorVars, disk, counts, saves, FinishTurn, ForkFails, ResumeRead, WriterSync,
                SyncFails, WriterIndex, Restart
  <2> QED
    BY <1>0, <2>1 DEF QueueSays, TodoSays
<1>2. CASE Close \/ WriterExits
  <2>1. UNCHANGED <<file, items, reused>> /\ queue' = queue /\ todo' \in {todo, <<>>}
    BY <1>2 DEF Close, WriterExits, ForgetEngine, ForgetWriter, actorVars, disk, counts, saves
  <2> QED
    BY <1>0, <2>1, Nothing DEF QueueSays, TodoSays
<1>3. CASE Crash
  BY <1>3, CrashOrder
<1>4. CASE SendNext
  BY <1>4, SendNextOrder
<1>5. CASE WriterTake \/ OpenFails
  BY <1>5, TakeOrder
<1>6. CASE ForkCopy
  BY <1>6, ForkCopyOrder
<1>7. CASE CancelTurn \/ \E th \in ThreadIds : StartTurn(th)
  <2>1. UNCHANGED <<file, items, reused, queue>>
    BY <1>7 DEF CancelTurn, StartTurn, disk, counts, saves
  <2>2. \A i \in DOMAIN todo' : todo'[i].op # "ItemAppended"
    <3>1. CASE CancelTurn
      <4>1. todo' = <<TurnEnded(active.turn), ThreadUpserted(active.turn.th, None)>>
        BY <3>1 DEF CancelTurn
      <4> QED
        BY <4>1 DEF TurnEnded, ThreadUpserted
    <3>2. CASE \E th \in ThreadIds : StartTurn(th)
      <4>1. PICK th \in ThreadIds : StartTurn(th)
        BY <3>2
      <4>2. todo' = <<ThreadUpserted(th, None), TurnStarted(TurnId(th, counter))>>
        BY <4>1 DEF StartTurn
      <4> QED
        BY <4>2 DEF TurnStarted, ThreadUpserted
    <3> QED
      BY <1>7, <3>1, <3>2
  <2> QED
    BY <1>0, <2>1, <2>2 DEF QueueSays, TodoSays
<1>8. CASE AppendItem
  <2>1. /\ active \in [turn : Turns, seq : 0 .. MaxEvents] /\ active.seq <= items /\ Say(active)
        /\ todo = <<>> /\ UNCHANGED <<file, todo, reused>>
    BY <1>8 DEF AppendItem, BaseInv, TypeOK, CountInv, actorVars, disk, saves
  <2>2. PICK it \in Items : Says(active, it)
    BY <2>1, SayFacts
  <2>3. /\ it.at = items' /\ items' = items + 1 /\ TrySend(ItemAppended(active.turn, it))
        /\ active.turn \in Turns
    BY <2>1, <2>2 DEF Says
  <2>4. \A i, a : ~TodoSays(active.turn.th, i, a)
    BY <2>1, Nothing DEF TodoSays
  <2> QED
    BY <2>1, <2>3, <2>4, SayOrder
<1>9. CASE \E a \in stray : StrayItem(a)
  <2>1. PICK a \in stray : StrayItem(a)
    BY <1>9
  <2>2. /\ a \in [turn : Turns, seq : 0 .. MaxEvents] /\ a.seq <= items /\ Say(a)
        /\ UNCHANGED <<file, todo, reused>>
    BY <2>1 DEF StrayItem, BaseInv, TypeOK, CountInv, actorVars, disk, saves
  <2>3. PICK it \in Items : Says(a, it)
    BY <2>2, SayFacts
  <2>4. /\ it.at = items' /\ items' = items + 1 /\ TrySend(ItemAppended(a.turn, it))
        /\ a.turn \in Turns /\ a.turn.th \in ThreadIds
    BY <2>2, <2>3 DEF Says, Turns
  <2>5. a.turn.th \notin reused => \A i, b : ~TodoSays(a.turn.th, i, b)
    <3> SUFFICES ASSUME a.turn.th \notin reused, NEW i, NEW b, TodoSays(a.turn.th, i, b)
                 PROVE  FALSE
      OBVIOUS
    <3>1. Copying(a.turn.th)
      BY DEF TodoSays, Copying, Copies
    <3> QED
      BY <2>1, <2>4, <3>1 DEF TodoInv, Alone
  <2> QED
    BY <2>2, <2>4, <2>5, SayOrder
<1>10. CASE \E e \in ending : SendEnded(e)
  <2>1. PICK e \in ending : SendEnded(e)
    BY <1>10
  <2>2. e.turn \in Turns /\ e.turn.th \in ThreadIds
    BY DEF BaseInv, TypeOK, Turns
  <2>3. UNCHANGED <<file, items, reused, todo>>
    BY <2>1 DEF SendEnded, actorVars, disk, counts, saves
  <2>4. PICK op \in {TurnEnded(e.turn), ThreadUpserted(e.turn.th, None)} : TrySend(op)
    BY <2>1 DEF SendEnded
  <2>5. Sound(op) /\ op.op # "ItemAppended"
    <3>1. Sound(TurnEnded(e.turn)) /\ Sound(ThreadUpserted(e.turn.th, None))
      BY <2>2, OpTypes
    <3> QED
      BY <2>4, <3>1 DEF TurnEnded, ThreadUpserted
  <2>6. \A th \in ThreadIds : \A i, a : QueueSays(th, i, a)' => QueueSays(th, i, a)
    BY <2>4, <2>5, SendsNoItem
  <2> QED
    BY <1>0, <2>3, <2>6 DEF TodoSays
<1>11. CASE ForkBegin \/ \E th \in ThreadIds : ResumeBegin(th)
  <2>1. /\ UNCHANGED <<file, items, reused, todo>>
        /\ \E x \in ThreadIds : TrySend(Flush(x, TRUE))
    BY <1>11 DEF ForkBegin, ResumeBegin, disk, saves, Asking, ThreadIds
  <2>2. PICK x \in ThreadIds : TrySend(Flush(x, TRUE))
    BY <2>1
  <2>3. Sound(Flush(x, TRUE)) /\ Flush(x, TRUE).op # "ItemAppended"
    BY OpTypes DEF Flush
  <2>4. \A th \in ThreadIds : \A i, a : QueueSays(th, i, a)' => QueueSays(th, i, a)
    BY <2>2, <2>3, SendsNoItem
  <2> QED
    BY <1>0, <2>1, <2>4 DEF TodoSays
<1>12. CASE FlushTimeout
  <2>1. UNCHANGED <<file, items, reused, todo>>
    BY <1>12 DEF FlushTimeout, disk, counts, saves
  <2>2. DOMAIN queue' = DOMAIN queue /\ \A i \in DOMAIN queue : queue'[i] = Unheard(queue[i])
    BY <1>12, FlushTimeoutFacts
  <2>3. \A i \in DOMAIN queue : /\ Unheard(queue[i]).op = queue[i].op
                                /\ queue[i].op # "Flush" => Unheard(queue[i]) = queue[i]
    BY <1>t, UnheardFacts
  <2>4. \A th \in ThreadIds : \A i, a : QueueSays(th, i, a)' => QueueSays(th, i, a)
    BY <2>2, <2>3 DEF QueueSays
  <2> QED
    BY <1>0, <2>1, <2>4 DEF TodoSays
<1> QED
  BY <1>1, <1>2, <1>3, <1>4, <1>5, <1>6, <1>7, <1>8, <1>9, <1>10, <1>11, <1>12 DEF Next

OrderedInv == BaseInv /\ ResidentInv /\ TodoInv /\ AtInv /\ OrderInv

(* The invariant holds at the start ... *)
LEMMA OrderedInvInit == Init => OrderedInv
BY BaseInit, ResidentInit, TodoInit, OrderInit DEF OrderedInv

(* ... and every step keeps it. *)
LEMMA OrderedInvNext == OrderedInv /\ [Next]_vars => OrderedInv'
<1> SUFFICES ASSUME OrderedInv, [Next]_vars PROVE OrderedInv'
  OBVIOUS
<1>1. BaseInv /\ ResidentInv /\ TodoInv /\ AtInv /\ OrderInv
  BY DEF OrderedInv
<1>2. BaseInv'
  BY <1>1, BaseNext
<1>3. ResidentInv'
  BY <1>1, ResidentStep
<1>4. TodoInv'
  BY <1>1, TodoStep
<1>5. AtInv' /\ OrderInv'
  BY <1>1, OrderStep
<1> QED
  BY <1>2, <1>3, <1>4, <1>5 DEF OrderedInv

(* What stands in order in the file is told in order. *)
LEMMA OrderedInvTells == OrderedInv => RolloutInOrder
<1> SUFFICES ASSUME OrderedInv, NEW th \in ThreadIds \ reused,
                    NEW i \in 1 .. Len(Replay(file[th])), NEW j \in 1 .. Len(Replay(file[th])), i < j
             PROVE  Replay(file[th])[i].at < Replay(file[th])[j].at
  BY DEF RolloutInOrder
<1>1. file[th] \in Seq(Lines)
  BY DEF OrderedInv, BaseInv, TypeOK
<1>2. PICK at : Tells(at, file[th])
  BY <1>1, ReplayFacts
<1>3. /\ FileSays(th, at[i], Replay(file[th])[i].at)
      /\ FileSays(th, at[j], Replay(file[th])[j].at)
      /\ at[i] < at[j]
  BY <1>2 DEF Tells, FileSays
<1>4. OrderAt(th)
  BY DEF OrderedInv, OrderInv
<1> QED
  BY <1>3, <1>4 DEF OrderAt

(* A rollout tells the conversation in order and tells nothing twice, across *)
(* crashes, dropped operations and the copying of a fork.                    *)
THEOREM RolloutsInOrder == Spec => []RolloutInOrder
<1> QED
  BY OrderedInvInit, OrderedInvNext, OrderedInvTells, PTL DEF Spec

-----------------------------------------------------------------------------
(* What a fork hears and sees                                               *)

(* A flush somebody waits for, and what a turn says that is not a stray one  *)
Expecting(op) == op.op = "Flush" /\ op.ack
Talkers == {a.turn : a \in stray}
Spoke(op, talkers) == op.op = "ItemAppended" /\ op.turn \notin talkers
Waiting == busy # Free /\ busy.wait = "waiting"

(* There is one such flush at a time, somebody waits for it, and what stands *)
(* behind it in the channel, or is still there when it was acknowledged, is  *)
(* nothing a turn said.                                                      *)
AckInv ==
    /\ \A p \in DOMAIN queue : Expecting(queue[p]) =>
           /\ Waiting
           /\ \A j \in DOMAIN queue : j > p => ~Spoke(queue[j], Talkers) /\ ~Expecting(queue[j])
    /\ writer # Idle /\ Expecting(writer.op) =>
           /\ Waiting
           /\ \A j \in DOMAIN queue : ~Spoke(queue[j], Talkers) /\ ~Expecting(queue[j])
    /\ busy # Free /\ busy.wait = "acked" => \A j \in DOMAIN queue : ~Spoke(queue[j], Talkers)
    /\ \A i \in DOMAIN todo : ~Expecting(todo[i])

(* At the start nobody waits. *)
LEMMA AckInit == Init => AckInv
BY Nothing DEF Init, AckInv, Idle

(* Where nobody waits there is nothing to show. *)
LEMMA NobodyWaits ==
    ASSUME busy' = Free,
           \A p \in DOMAIN queue' : ~Expecting(queue'[p]),
           writer' # Idle => ~Expecting(writer'.op),
           \A i \in DOMAIN todo' : ~Expecting(todo'[i])
    PROVE  AckInv'
BY DEF AckInv

(* And nothing is expected where nobody waits. *)
LEMMA NothingExpected ==
    ASSUME AckInv, ~Waiting
    PROVE  /\ \A p \in DOMAIN queue : ~Expecting(queue[p])
           /\ writer # Idle => ~Expecting(writer.op)
BY DEF AckInv

(* Sending adds the operation at the end, or nothing. *)
LEMMA SentLast ==
    ASSUME BaseInv, NEW op, Sound(op), TrySend(op)
    PROVE  \A i \in DOMAIN queue' : \/ i \in DOMAIN queue /\ queue'[i] = queue[i]
                                    \/ i = Len(queue) + 1 /\ queue'[i] = op
<1>1. queue \in Seq(Ops)
  BY DEF BaseInv, TypeOK
<1>2. \/ /\ Len(queue') = Len(queue) + 1
         /\ \A i \in 1 .. Len(queue) : queue'[i] = queue[i]
         /\ queue'[Len(queue) + 1] = op
         /\ queue' \in Seq(Ops)
      \/ queue' = queue
  BY Sending
<1> QED
  BY <1>1, <1>2

(* No turn speaks while the actor waits, but for the stray ones. *)
LEMMA AckStep ==
    ASSUME BaseInv, AckInv, [Next]_vars
    PROVE  AckInv'
<1>t. /\ queue \in Seq(Ops) /\ todo \in Seq(Ops) /\ queue' \in Seq(Ops)
      /\ \A i \in DOMAIN queue : Sound(queue[i])
      /\ \A i \in DOMAIN todo : Sound(todo[i])
  <2>1. BaseInv'
    BY BaseNext
  <2> QED
    BY <2>1 DEF BaseInv, TypeOK, ChannelInv
<1>l. (busy # Free => todo = <<>> /\ active = None) /\ (life # "up" => todo = <<>> /\ busy = Free)
  BY DEF BaseInv, LifeInv
<1>f. ~Waiting => /\ \A p \in DOMAIN queue : ~Expecting(queue[p])
                  /\ writer # Idle => ~Expecting(writer.op)
  BY NothingExpected
<1>d. \A i \in DOMAIN todo : ~Expecting(todo[i])
  BY DEF AckInv
<1>0. ASSUME busy = Free, busy' = Free, queue' = queue \/ queue' = <<>>,
             writer' = writer \/ writer' = Idle,
             \A i \in DOMAIN todo' : ~Expecting(todo'[i])
      PROVE  AckInv'
  <2>1. ~Waiting
    BY <1>0 DEF Waiting
  <2> QED
    BY <1>0, <1>f, <2>1, NobodyWaits, Nothing
<1>s. ASSUME busy = Free, busy' = Free, NEW op, Sound(op), TrySend(op), ~Expecting(op),
             writer' = writer, \A i \in DOMAIN todo' : ~Expecting(todo'[i])
      PROVE  AckInv'
  <2>1. ~Waiting
    BY <1>s DEF Waiting
  <2>2. \A i \in DOMAIN queue' : ~Expecting(queue'[i])
    BY <1>f, <1>s, <2>1, SentLast
  <2> QED
    BY <1>f, <1>s, <2>1, <2>2, NobodyWaits
<1>1. CASE UNCHANGED vars \/ WriterIndex \/ Restart
  <2>1. UNCHANGED <<queue, todo, busy, stray>> /\ writer' \in {writer, Idle}
    BY <1>1 DEF vars, actorVars, turnVars, WriterIndex, Restart
  <2> QED
    BY <2>1 DEF AckInv, Talkers, Waiting, Idle
<1>2. CASE Close \/ WriterExits \/ Crash
  <2>1. /\ todo' \in {todo, <<>>} /\ queue' \in {queue, <<>>} /\ writer' \in {writer, Idle}
        /\ (Close \/ WriterExits => busy = Free /\ busy' = Free)
    BY <1>2, <1>l DEF Close, WriterExits, Crash, ActorFree, ForgetEngine, ForgetWriter, actorVars
  <2>2. Crash => busy' = Free /\ queue' = <<>> /\ writer' = Idle /\ todo' = <<>>
    BY DEF Crash, ForgetEngine, ForgetWriter
  <2>3. CASE Crash
    BY <2>2, <2>3, NobodyWaits, Nothing
  <2> QED
    BY <1>0, <1>2, <1>d, <2>1, <2>3, Nothing
<1>3. CASE FinishTurn
  BY <1>0, <1>3, <1>d, <1>l DEF FinishTurn, actorVars
<1>4. CASE CancelTurn
  <2>1. /\ busy = Free /\ busy' = Free /\ queue' = queue /\ writer' = writer
        /\ todo' = <<TurnEnded(active.turn), ThreadUpserted(active.turn.th, None)>>
    BY <1>4 DEF CancelTurn, ActorFree
  <2>2. \A i \in DOMAIN todo' : ~Expecting(todo'[i])
    BY <2>1 DEF Expecting, TurnEnded, ThreadUpserted
  <2> QED
    BY <1>0, <2>1, <2>2
<1>5. CASE \E th \in ThreadIds : StartTurn(th)
  <2>1. PICK th \in ThreadIds : StartTurn(th)
    BY <1>5
  <2>2. /\ busy = Free /\ busy' = Free /\ queue' = queue /\ writer' = writer
        /\ todo' = <<ThreadUpserted(th, None), TurnStarted(TurnId(th, counter))>>
    BY <2>1 DEF StartTurn, ActorFree
  <2>3. \A i \in DOMAIN todo' : ~Expecting(todo'[i])
    BY <2>2 DEF Expecting, TurnStarted, ThreadUpserted
  <2> QED
    BY <1>0, <2>2, <2>3
<1>6. CASE SendNext
  <2>1. /\ busy = Free /\ busy' = Free /\ writer' = writer
        /\ todo # <<>> /\ TrySend(Head(todo)) /\ todo' = Tail(todo)
    BY <1>6, <1>l DEF SendNext
  <2>2. Head(todo) = todo[1] /\ 1 \in DOMAIN todo /\ Sound(Head(todo))
    BY <1>t, <2>1
  <2>3. \A i \in DOMAIN todo' : todo'[i] = todo[i + 1] /\ i + 1 \in DOMAIN todo
    BY <1>t, <2>1
  <2> QED
    BY <1>d, <1>s, <2>1, <2>2, <2>3
<1>7. CASE AppendItem
  <2>1. /\ active \in [turn : Turns, seq : 0 .. MaxEvents] /\ active.seq <= items /\ Say(active)
        /\ busy = Free /\ busy' = Free /\ writer' = writer /\ todo' = todo
    BY <1>7, <1>l DEF AppendItem, BaseInv, TypeOK, CountInv, actorVars
  <2>2. PICK it \in Items : Says(active, it)
    BY <2>1, SayFacts
  <2>3. TrySend(ItemAppended(active.turn, it)) /\ Sound(ItemAppended(active.turn, it))
    BY <2>2 DEF Says
  <2>4. ~Expecting(ItemAppended(active.turn, it))
    BY ItemLineFacts DEF Expecting
  <2> QED
    BY <1>d, <1>s, <2>1, <2>3, <2>4
<1>8. ASSUME NEW op, Sound(op), TrySend(op), ~Expecting(op), ~Spoke(op, Talkers'),
             Talkers' = Talkers,
             UNCHANGED <<busy, todo, writer>>
      PROVE  AckInv'
  <2>1. \A i \in DOMAIN queue' : \/ i \in DOMAIN queue /\ queue'[i] = queue[i]
                                 \/ i = Len(queue) + 1 /\ queue'[i] = op
    BY <1>8, SentLast
  <2>2. Talkers' = Talkers
    BY <1>8
  <2>3. Waiting' <=> Waiting
    BY <1>8 DEF Waiting
  <2>4. \A i \in DOMAIN queue' : \/ i \in DOMAIN queue /\ queue'[i] = queue[i]
                                 \/ ~Spoke(queue'[i], Talkers') /\ ~Expecting(queue'[i])
    BY <1>8, <2>1, <2>2
  <2>5. \A i \in DOMAIN queue' : Expecting(queue'[i]) =>
            /\ Waiting'
            /\ \A j \in DOMAIN queue' : j > i => ~Spoke(queue'[j], Talkers') /\ ~Expecting(queue'[j])
    BY <2>2, <2>3, <2>4 DEF AckInv
  <2>6. writer' # Idle /\ Expecting(writer'.op) =>
            /\ Waiting'
            /\ \A j \in DOMAIN queue' : ~Spoke(queue'[j], Talkers') /\ ~Expecting(queue'[j])
    BY <1>8, <2>2, <2>3, <2>4 DEF AckInv
  <2>7. busy' # Free /\ busy'.wait = "acked" => \A j \in DOMAIN queue' : ~Spoke(queue'[j], Talkers')
    BY <1>8, <2>2, <2>4 DEF AckInv
  <2> QED
    BY <1>8, <1>d, <2>5, <2>6, <2>7 DEF AckInv
<1>9. CASE \E a \in stray : StrayItem(a)
  <2>1. PICK a \in stray : StrayItem(a)
    BY <1>9
  <2>2. /\ a \in [turn : Turns, seq : 0 .. MaxEvents] /\ a.seq <= items /\ Say(a)
        /\ UNCHANGED <<busy, todo, writer>> /\ stray' = (stray \ {a}) \union {Spoken(a)}
    BY <2>1 DEF StrayItem, BaseInv, TypeOK, CountInv, actorVars
  <2>3. PICK it \in Items : Says(a, it)
    BY <2>2, SayFacts
  <2>4. /\ TrySend(ItemAppended(a.turn, it)) /\ Sound(ItemAppended(a.turn, it))
        /\ Spoken(a).turn = a.turn
    BY <2>3 DEF Says
  <2>5. Talkers' = Talkers
    BY <2>1, <2>2, <2>4 DEF Talkers
  <2>6. ~Expecting(ItemAppended(a.turn, it)) /\ ~Spoke(ItemAppended(a.turn, it), Talkers')
    BY <2>1, <2>5, ItemLineFacts DEF Expecting, Spoke, Talkers
  <2> QED
    BY <1>8, <2>2, <2>4, <2>5, <2>6
<1>10. CASE \E e \in ending : SendEnded(e)
  <2>1. PICK e \in ending : SendEnded(e)
    BY <1>10
  <2>2. e.turn \in Turns /\ e.turn.th \in ThreadIds
    BY DEF BaseInv, TypeOK, Turns
  <2>3. UNCHANGED <<busy, todo, writer, stray>>
    BY <2>1 DEF SendEnded, actorVars
  <2>4. PICK op \in {TurnEnded(e.turn), ThreadUpserted(e.turn.th, None)} : TrySend(op)
    BY <2>1 DEF SendEnded
  <2>5. Sound(op) /\ ~Expecting(op) /\ ~Spoke(op, Talkers')
    <3>1. Sound(TurnEnded(e.turn)) /\ Sound(ThreadUpserted(e.turn.th, None))
      BY <2>2, OpTypes
    <3> QED
      BY <2>4, <3>1 DEF TurnEnded, ThreadUpserted, Expecting, Spoke
  <2>6. Talkers' = Talkers
    BY <2>3 DEF Talkers
  <2> QED
    BY <1>8, <2>3, <2>4, <2>5, <2>6
<1>11. CASE ForkBegin \/ \E th \in ThreadIds : ResumeBegin(th)
  <2>1. /\ busy = Free /\ UNCHANGED <<todo, writer, stray>>
        /\ \E task \in {"fork", "resume"} : \E th : Asking(task, th)
    BY <1>11 DEF ForkBegin, ResumeBegin, ActorFree, turnVars
  <2>2. PICK task \in {"fork", "resume"} : \E th : Asking(task, th)
    BY <2>1
  <2>x. PICK th : Asking(task, th)
    BY <2>2
  <2> DEFINE op == Flush(IF task = "fork" THEN Main ELSE th, TRUE)
  <2>3. /\ TrySend(op)
        /\ busy' = [task |-> task, th |-> th, wait |-> IF Accepts THEN "waiting" ELSE "gone"]
    BY <2>x DEF Asking
  <2>4. ~Waiting
    BY <2>1 DEF Waiting
  <2>5. \A p \in DOMAIN queue : ~Expecting(queue[p])
    BY <1>f, <2>4
  <2>6. writer' # Idle => ~Expecting(writer'.op)
    BY <1>f, <2>1, <2>4
  <2>7. CASE ~Accepts
    <3>1. queue' = queue /\ busy'.wait = "gone"
      BY <2>3, <2>7 DEF TrySend
    <3> QED
      BY <1>d, <2>1, <2>5, <2>6, <3>1 DEF AckInv
  <2>8. CASE Accepts
    <3>1. queue' = Append(queue, op) /\ busy'.wait = "waiting" /\ busy' # Free
      BY <2>3, <2>8 DEF TrySend, Free
    <3> HIDE DEF op
    <3>2. \A i \in DOMAIN queue' : i <= Len(queue) => ~Expecting(queue'[i])
      BY <1>t, <2>5, <3>1
    <3>3. \A i, j \in DOMAIN queue' : j > i => i <= Len(queue)
      BY <1>t, <3>1
    <3>4. \A p \in DOMAIN queue' : Expecting(queue'[p]) =>
              Waiting' /\ \A j \in DOMAIN queue' : ~(j > p)
      BY <3>1, <3>2, <3>3 DEF Waiting
    <3> QED
      BY <1>d, <2>1, <2>6, <3>1, <3>4 DEF AckInv
  <2> QED
    BY <2>7, <2>8
<1>12. CASE FlushTimeout
  <2>1. /\ UNCHANGED <<todo, stray>> /\ busy # Free /\ busy' = [busy EXCEPT !.wait = "gone"]
    BY <1>12 DEF FlushTimeout, turnVars
  <2>2. /\ DOMAIN queue' = DOMAIN queue /\ \A i \in DOMAIN queue : queue'[i] = Unheard(queue[i])
        /\ writer = Idle => writer' = Idle
        /\ writer # Idle => writer' # Idle /\ writer'.op = Unheard(writer.op)
    BY <1>12, FlushTimeoutFacts
  <2>3. \A x : Sound(x) => ~Expecting(Unheard(x))
    BY UnheardFacts DEF Expecting
  <2>4. writer # Idle => Sound(writer.op)
    BY DEF BaseInv, ChannelInv
  <2>5. busy'.wait # "acked"
    <3>1. busy \in [task : {"fork", "resume"}, th : ThreadIds, wait : {"waiting", "acked", "gone"}]
      BY <2>1 DEF BaseInv, TypeOK
    <3> QED
      BY <2>1, <3>1
  <2> QED
    BY <1>d, <1>t, <2>1, <2>2, <2>3, <2>4, <2>5 DEF AckInv
<1>13. CASE ForkCopy \/ ForkFails \/ ResumeRead
  <2>1. ~Waiting /\ busy' = Free /\ queue' = queue /\ writer' = writer
    BY <1>13 DEF ForkCopy, ForkFails, ResumeRead, Ready, Waiting
  <2>2. \A i \in DOMAIN todo' : ~Expecting(todo'[i])
    <3>1. CASE ForkCopy
      <4>1. PICK copy : Copied(copy)
        BY <3>1, ForkCopyFacts
      <4>2. /\ todo' \in Seq(Ops) /\ Len(todo') = Len(copy) + 6 /\ Len(copy) \in Nat
            /\ todo'[1] = ForkHeader(busy.th)
            /\ todo'[2] = ThreadUpserted(busy.th, Main)
            /\ todo'[3] = TurnStarted(ForkTurn(busy.th))
            /\ \A k \in 1 .. Len(copy) : todo'[k + 3] = ItemAppended(ForkTurn(busy.th), copy[k])
            /\ todo'[Len(copy) + 4] = TurnEnded(ForkTurn(busy.th))
            /\ todo'[Len(copy) + 5].op = "SetLeaf"
            /\ todo'[Len(copy) + 6] = Flush(busy.th, FALSE)
            /\ \A k \in 1 .. Len(copy) + 6 :
                   \/ k \in {1, 2, 3, Len(copy) + 4, Len(copy) + 5, Len(copy) + 6}
                   \/ k - 3 \in 1 .. Len(copy) /\ k = (k - 3) + 3
        BY <3>1, <4>1, PlanSent
      <4>3. /\ ~Expecting(ForkHeader(busy.th)) /\ ~Expecting(ThreadUpserted(busy.th, Main))
            /\ ~Expecting(TurnStarted(ForkTurn(busy.th))) /\ ~Expecting(TurnEnded(ForkTurn(busy.th)))
            /\ ~Expecting(Flush(busy.th, FALSE)) /\ ~Expecting(todo'[Len(copy) + 5])
        BY <4>2 DEF Expecting, ForkHeader, ThreadUpserted, TurnStarted, TurnEnded, Flush
      <4>4. \A it : ~Expecting(ItemAppended(ForkTurn(busy.th), it))
        BY ItemLineFacts DEF Expecting
      <4> SUFFICES ASSUME NEW i \in 1 .. Len(copy) + 6 PROVE ~Expecting(todo'[i])
        BY <4>2
      <4>5. CASE i \in {1, 2, 3, Len(copy) + 4, Len(copy) + 5, Len(copy) + 6}
        BY <4>2, <4>3, <4>5
      <4>6. CASE i - 3 \in 1 .. Len(copy) /\ i = (i - 3) + 3
        <5>1. todo'[i] = ItemAppended(ForkTurn(busy.th), copy[i - 3])
          BY <4>2, <4>6
        <5> QED
          BY <4>4, <5>1
      <4> QED
        BY <4>2, <4>5, <4>6
    <3>2. CASE ForkFails \/ ResumeRead
      <4>1. todo' = todo
        BY <3>2 DEF ForkFails, ResumeRead
      <4> QED
        BY <1>d, <4>1
    <3> QED
      BY <1>13, <3>1, <3>2
  <2> QED
    BY <1>f, <2>1, <2>2, NobodyWaits
<1>14. CASE WriterTake \/ OpenFails
  <2> DEFINE op == Head(queue)
  <2>1. /\ queue # <<>> /\ queue' = Tail(queue) /\ writer' \in {AfterAppend(op), ToIndex(op)}
        /\ UNCHANGED <<todo, busy, stray>>
    BY <1>14 DEF WriterTake, OpenFails, actorVars, turnVars
  <2>2. op = queue[1] /\ Sound(op) /\ 1 \in DOMAIN queue
    BY <1>t, <2>1, TakeFacts
  <2>3. writer' # Idle => writer'.op = op
    BY <2>1, <2>2, AfterAppendFacts, ToIndexFacts
  <2>4. \A i \in DOMAIN queue' : queue'[i] = queue[i + 1] /\ i + 1 \in DOMAIN queue /\ i \in Nat \ {0}
    BY <1>t, <2>1
  <2>5. Talkers' = Talkers /\ (Waiting' <=> Waiting)
    BY <2>1 DEF Talkers, Waiting
  <2> HIDE DEF op
  <2>6. \A p \in DOMAIN queue' : Expecting(queue'[p]) =>
            /\ Waiting'
            /\ \A j \in DOMAIN queue' : j > p => ~Spoke(queue'[j], Talkers') /\ ~Expecting(queue'[j])
    BY <2>4, <2>5 DEF AckInv
  <2>7. writer' # Idle /\ Expecting(writer'.op) =>
            /\ Waiting'
            /\ \A j \in DOMAIN queue' : ~Spoke(queue'[j], Talkers') /\ ~Expecting(queue'[j])
    <3> SUFFICES ASSUME writer' # Idle, Expecting(writer'.op)
                 PROVE  /\ Waiting'
                        /\ \A j \in DOMAIN queue' : ~Spoke(queue'[j], Talkers') /\ ~Expecting(queue'[j])
      OBVIOUS
    <3>1. /\ Waiting
          /\ \A j \in DOMAIN queue : j > 1 => ~Spoke(queue[j], Talkers) /\ ~Expecting(queue[j])
      BY <2>2, <2>3 DEF AckInv
    <3>2. \A j \in DOMAIN queue' : j + 1 > 1
      BY <2>4
    <3> QED
      BY <2>4, <2>5, <3>1, <3>2
  <2>8. busy' # Free /\ busy'.wait = "acked" => \A j \in DOMAIN queue' : ~Spoke(queue'[j], Talkers')
    BY <2>1, <2>4, <2>5 DEF AckInv
  <2> QED
    BY <1>d, <2>1, <2>6, <2>7, <2>8 DEF AckInv
<1>15. CASE WriterSync \/ SyncFails
  <2>1. /\ writer # Idle /\ AfterSync(writer.op) /\ UNCHANGED <<queue, todo, stray>>
    BY <1>15 DEF WriterSync, SyncFails, turnVars
  <2>2. Sound(writer.op) /\ writer' = ToIndex(writer.op)
    BY <2>1 DEF BaseInv, ChannelInv, AfterSync
  <2>3. writer' # Idle => ~Expecting(writer'.op)
    <3>1. writer' # Idle => writer'.op = writer.op /\ Indexed(writer.op)
      BY <2>2, ToIndexFacts
    <3> QED
      BY <3>1 DEF Indexed, Expecting
  <2>4. Talkers' = Talkers
    BY <2>1 DEF Talkers
  <2>5. CASE Expecting(writer.op)
    <3>1. \A j \in DOMAIN queue : ~Spoke(queue[j], Talkers) /\ ~Expecting(queue[j])
      BY <2>1, <2>5 DEF AckInv
    <3> QED
      BY <1>d, <2>1, <2>3, <2>4, <3>1 DEF AckInv
  <2>6. CASE ~Expecting(writer.op)
    <3>1. busy' = busy
      BY <2>1, <2>6 DEF AfterSync, Expecting
    <3>2. Waiting' <=> Waiting
      BY <3>1 DEF Waiting
    <3> QED
      BY <1>d, <2>1, <2>3, <2>4, <3>1, <3>2 DEF AckInv
  <2> QED
    BY <2>5, <2>6
<1> QED
  BY <1>1, <1>2, <1>3, <1>4, <1>5, <1>6, <1>7, <1>9, <1>10, <1>11, <1>12, <1>13, <1>14, <1>15
     DEF Next

(* So what a turn said before is in the file when the flush was heard. *)
LEMMA AckShows == BaseInv /\ SentInv /\ AckInv => ForkSeesEverything
<1> SUFFICES ASSUME BaseInv, SentInv, AckInv, busy # Free, busy.wait = "acked",
                    NEW s \in sent, s.turn.th = Main, s.turn \notin {a.turn : a \in stray},
                    ItemAppended(s.turn, s.item) \notin lost
             PROVE  ItemLine(s.turn, s.item) \in {file[Main][i] : i \in 1 .. Len(file[Main])}
  BY DEF ForkSeesEverything
<1>1. \A i \in DOMAIN queue : ~Spoke(queue[i], Talkers)
  BY DEF AckInv
<1>2. Spoke(ItemAppended(s.turn, s.item), Talkers)
  BY ItemLineFacts DEF Spoke, Talkers
<1> QED
  BY <1>1, <1>2 DEF SentInv, SentAt

-----------------------------------------------------------------------------
(* The name of the parent                                                   *)

(* The first header of a rollout, among its first n lines, names Main. *)
FirstIsMain(f, n) ==
    \E i \in 1 .. n : f[i] = Session(Main) /\ \A j \in 1 .. (i - 1) : f[j].kind # "session"

Naming(th) == {ForkHeader(th), ThreadUpserted(th, Main)}
LastOf(th) == TurnEnded(ForkTurn(th))

(* Something that belongs to the copy of a fork is still on its way. *)
UnderWay(th) ==
    \/ \E i \in DOMAIN queue : queue[i] \in PlanOps(th)
    \/ \E i \in DOMAIN todo : todo[i] \in PlanOps(th)

(* The rollout of such a fork is whole, and if it has a header it names the  *)
(* parent.                                                                   *)
Fine(th) ==
    /\ \A i \in 1 .. Len(file[th]) : Parses(file[th][i])
    /\ th \in header => FirstIsMain(file[th], Len(file[th]))
    /\ th \notin header => \A i \in 1 .. Len(file[th]) : file[th][i].kind # "session"

(* Nothing that belongs to the copy has a header without a parent before it. *)
NoOrphan(th) ==
    \A i, j \in DOMAIN queue :
        i < j /\ queue[j] \in PlanOps(th) => queue[i] # ThreadUpserted(th, None)

(* What names the parent is lost, or in the file, or goes before the end of  *)
(* the first turn.                                                           *)
Out(op, th) == op \in lost \/ th \in header
NamedInQueue(th) ==
    \A op \in Naming(th) : \A q \in DOMAIN queue : queue[q] = LastOf(th) =>
        Out(op, th) \/ \E i \in DOMAIN queue : i < q /\ queue[i] = op
NamedInTodo(th) ==
    \A op \in Naming(th) : \A q \in DOMAIN todo : todo[q] = LastOf(th) =>
        \/ Out(op, th)
        \/ \E i \in DOMAIN queue : queue[i] = op
        \/ \E i \in DOMAIN todo : i < q /\ todo[i] = op

BothLost(th) == Naming(th) \subseteq lost

CopyInv ==
    \A th \in Forks \ reused :
        (UnderWay(th) => Fine(th)) /\ NoOrphan(th) /\ NamedInQueue(th) /\ NamedInTodo(th)

(* When the end of the first turn is synced, the parent is named ...         *)
SyncedInv ==
    \A th \in Forks \ reused :
        writer # Idle /\ writer.stage = "sync" /\ writer.op = LastOf(th) =>
            BothLost(th) \/ FirstIsMain(file[th], Len(file[th]))

(* ... and that stays on the disk.                                           *)
ParentInv ==
    \A th \in Forks \ reused :
        ForkTurn(th) \in ended => BothLost(th) \/ FirstIsMain(file[th], synced[th])

(* At the start there is no fork. *)
LEMMA ParentInit == Init => CopyInv /\ SyncedInv /\ ParentInv
<1> SUFFICES ASSUME Init PROVE CopyInv /\ SyncedInv /\ ParentInv
  OBVIOUS
<1>1. queue = <<>> /\ todo = <<>> /\ writer = Idle /\ ended = {}
  BY DEF Init
<1> QED
  BY <1>1, Nothing DEF CopyInv, SyncedInv, ParentInv, UnderWay, NoOrphan, NamedInQueue, NamedInTodo

(* What the three operations of a copy that matter here look like *)
LEMMA PlanOpsFacts ==
    /\ \A th, op : op \in PlanOps(th) => Copies(op, th) /\ op.th = th
    /\ \A th, x : ThreadUpserted(x, None) \notin PlanOps(th)
    /\ \A th, u : TurnStarted(u) \notin PlanOps(th)
    /\ \A th, u : u.n >= 0 => TurnEnded(u) \notin PlanOps(th)
    /\ \A th, op : op \in PlanOps(th) => op.op \in {"ForkHeader", "ThreadUpserted", "TurnEnded"}
    /\ \A th : Naming(th) \subseteq PlanOps(th) /\ LastOf(th) \in PlanOps(th)
    /\ \A th : LastOf(th) \notin Naming(th)
    /\ \A th, op : op \in Naming(th) => Heads(op) /\ Miss(op) = {op} /\ op.th = th /\ op.parent = Main
    /\ \A th : LastOf(th).op = "TurnEnded" /\ LastOf(th).th = th
<1>1. \A th, op : op \in PlanOps(th) => Copies(op, th)
  BY DEF Copies
<1>2. /\ \A th, x : ThreadUpserted(x, None) \notin PlanOps(th)
      /\ \A th, u : TurnStarted(u) \notin PlanOps(th)
      /\ \A th, u : u.n >= 0 => TurnEnded(u) \notin PlanOps(th)
  BY CopiesFacts DEF Copies
<1>3. \A th, op : op \in PlanOps(th) => op.op \in {"ForkHeader", "ThreadUpserted", "TurnEnded"}
  BY DEF PlanOps, ForkHeader, ThreadUpserted, TurnEnded
<1>4. /\ \A th : Naming(th) \subseteq PlanOps(th) /\ LastOf(th) \in PlanOps(th)
      /\ \A th : LastOf(th) \notin Naming(th)
  BY DEF PlanOps, Naming, LastOf, ForkHeader, ThreadUpserted, TurnEnded
<1>5. \A th, op : op \in Naming(th) => Heads(op) /\ Miss(op) = {op} /\ op.th = th /\ op.parent = Main
  BY DEF Naming, ForkHeader, ThreadUpserted, Heads, Miss
<1>6. \A th : LastOf(th).op = "TurnEnded" /\ LastOf(th).th = th
  BY DEF LastOf, TurnEnded, ForkTurn, TurnId
<1>7. \A th, op : op \in PlanOps(th) => op.th = th
  BY <1>1, CopiesFacts
<1> QED
  BY <1>1, <1>2, <1>3, <1>4, <1>5, <1>6, <1>7

(* How the steps change the channel and what the actor has to send           *)
Still == UNCHANGED <<queue, todo, file, header>>
NewTodo ==
    /\ UNCHANGED <<queue, file, header>>
    /\ \A th : \A i \in DOMAIN todo' : todo'[i] \notin PlanOps(th)
SendsOther(op) ==
    /\ Sound(op) /\ TrySend(op) /\ UNCHANGED <<todo, file, header>>
    /\ \A th : op \notin PlanOps(th)
Emptied == queue' = <<>> /\ todo' = <<>>

(* Every step is of one of these kinds. *)
LEMMA ChannelKinds ==
    ASSUME BaseInv, [Next]_vars
    PROVE  /\ reused \subseteq reused' /\ lost \subseteq lost'
           /\ \/ Still \/ NewTodo \/ (\E op : SendsOther(op)) \/ Emptied
              \/ SendNext \/ FlushTimeout \/ ForkCopy \/ WriterTake \/ OpenFails
<1>0. reused \subseteq reused' /\ lost \subseteq lost'
  <2>1. lost \subseteq lost'
    BY LostStays DEF vars
  <2>2. reused \subseteq reused'
    BY DEF Next, vars, saves, SendNext, StartTurn, AppendItem, StrayItem, FinishTurn, CancelTurn,
       SendEnded, ForkBegin, ResumeBegin, FlushTimeout, ForkCopy, ForkFails, ResumeRead, WriterTake,
       OpenFails, WriterSync, SyncFails, WriterIndex, Close, WriterExits, Crash, Restart
  <2> QED
    BY <2>1, <2>2
<1>1. CASE UNCHANGED vars \/ FinishTurn \/ ForkFails \/ ResumeRead \/ WriterSync \/ SyncFails
           \/ WriterIndex \/ Restart
  BY <1>0, <1>1 DEF vars, actorVars, disk, FinishTurn, ForkFails, ResumeRead, WriterSync,
                SyncFails, WriterIndex, Restart, Still
<1>2. CASE Close
  BY <1>0, <1>2 DEF Close, ActorFree, ForgetEngine, disk, Still
<1>3. CASE WriterExits \/ Crash
  <2>1. Emptied
    BY <1>3 DEF WriterExits, Crash, ForgetEngine, ForgetWriter, Emptied, actorVars, BaseInv, LifeInv
  <2> QED
    BY <1>0, <2>1
<1>4. CASE CancelTurn
  <2>1. /\ UNCHANGED <<queue, file, header>> /\ active # None
        /\ todo' = <<TurnEnded(active.turn), ThreadUpserted(active.turn.th, None)>>
    BY <1>4 DEF CancelTurn, disk
  <2>2. active.turn.n >= 0
    BY <2>1 DEF BaseInv, CountInv
  <2>3. \A i \in DOMAIN todo' :
            todo'[i] \in {TurnEnded(active.turn), ThreadUpserted(active.turn.th, None)}
    BY <2>1
  <2>4. NewTodo
    BY <2>1, <2>2, <2>3, PlanOpsFacts DEF NewTodo
  <2> QED
    BY <1>0, <2>4
<1>5. CASE \E th \in ThreadIds : StartTurn(th)
  <2>1. PICK th \in ThreadIds : StartTurn(th)
    BY <1>5
  <2> DEFINE u == TurnId(th, counter)
  <2>2. UNCHANGED <<queue, file, header>> /\ todo' = <<ThreadUpserted(th, None), TurnStarted(u)>>
    BY <2>1 DEF StartTurn, disk
  <2> HIDE DEF u
  <2>3. \A i \in DOMAIN todo' : todo'[i] \in {ThreadUpserted(th, None), TurnStarted(u)}
    BY <2>2
  <2>4. NewTodo
    BY <2>2, <2>3, PlanOpsFacts DEF NewTodo
  <2> QED
    BY <1>0, <2>4
<1>6. CASE AppendItem
  <2>1. /\ active \in [turn : Turns, seq : 0 .. MaxEvents] /\ active.seq <= items /\ Say(active)
        /\ UNCHANGED <<todo, file, header>>
    BY <1>6 DEF AppendItem, BaseInv, TypeOK, CountInv, actorVars, disk
  <2>2. PICK it \in Items : Says(active, it)
    BY <2>1, SayFacts
  <2>3. SendsOther(ItemAppended(active.turn, it))
    BY <2>1, <2>2, ItemLineFacts, PlanOpsFacts DEF Says, SendsOther
  <2> QED
    BY <1>0, <2>3
<1>7. CASE \E a \in stray : StrayItem(a)
  <2>1. PICK a \in stray : StrayItem(a)
    BY <1>7
  <2>2. /\ a \in [turn : Turns, seq : 0 .. MaxEvents] /\ a.seq <= items /\ Say(a)
        /\ UNCHANGED <<todo, file, header>>
    BY <2>1 DEF StrayItem, BaseInv, TypeOK, CountInv, actorVars, disk
  <2>3. PICK it \in Items : Says(a, it)
    BY <2>2, SayFacts
  <2>4. SendsOther(ItemAppended(a.turn, it))
    BY <2>2, <2>3, ItemLineFacts, PlanOpsFacts DEF Says, SendsOther
  <2> QED
    BY <1>0, <2>4
<1>8. CASE \E e \in ending : SendEnded(e)
  <2>1. PICK e \in ending : SendEnded(e)
    BY <1>8
  <2>2. e.turn \in Turns /\ e.turn.th \in ThreadIds /\ e.turn.n >= 0
    BY DEF BaseInv, TypeOK, CountInv, Turns
  <2>3. UNCHANGED <<todo, file, header>>
    BY <2>1 DEF SendEnded, actorVars, disk
  <2>4. PICK op \in {TurnEnded(e.turn), ThreadUpserted(e.turn.th, None)} : TrySend(op)
    BY <2>1 DEF SendEnded
  <2>5. Sound(TurnEnded(e.turn)) /\ Sound(ThreadUpserted(e.turn.th, None))
    BY <2>2, OpTypes
  <2>6. SendsOther(op)
    BY <2>2, <2>3, <2>4, <2>5, PlanOpsFacts DEF SendsOther
  <2> QED
    BY <1>0, <2>6
<1>9. CASE ForkBegin \/ \E th \in ThreadIds : ResumeBegin(th)
  <2>1. /\ UNCHANGED <<todo, file, header>>
        /\ \E x \in ThreadIds : TrySend(Flush(x, TRUE))
    BY <1>9 DEF ForkBegin, ResumeBegin, disk, Asking, ThreadIds
  <2>2. PICK x \in ThreadIds : TrySend(Flush(x, TRUE))
    BY <2>1
  <2>3. Sound(Flush(x, TRUE)) /\ Flush(x, TRUE).op = "Flush"
    BY OpTypes DEF Flush
  <2>4. \A th : Flush(x, TRUE) \notin PlanOps(th)
    BY <2>3, PlanOpsFacts
  <2>5. SendsOther(Flush(x, TRUE))
    BY <2>1, <2>2, <2>3, <2>4 DEF SendsOther
  <2> QED
    BY <1>0, <2>5
<1> QED
  BY <1>0, <1>1, <1>2, <1>3, <1>4, <1>5, <1>6, <1>7, <1>8, <1>9 DEF Next

CopyAt(th) == (UnderWay(th) => Fine(th)) /\ NoOrphan(th) /\ NamedInQueue(th) /\ NamedInTodo(th)

(* Most steps add nothing of a copy to the channel. *)
LEMMA OtherSent ==
    ASSUME BaseInv, NEW th, CopyAt(th), NEW op, SendsOther(op), lost \subseteq lost'
    PROVE  CopyAt(th)'
<1>1. /\ Sound(op) /\ TrySend(op) /\ UNCHANGED <<todo, file, header>> /\ op \notin PlanOps(th)
  BY DEF SendsOther
<1>2. \A i \in DOMAIN queue' : \/ i \in DOMAIN queue /\ queue'[i] = queue[i]
                               \/ i = Len(queue) + 1 /\ queue'[i] = op
  BY <1>1, SentLast
<1>3. queue \in Seq(Ops) /\ queue' \in Seq(Ops)
      /\ \A i \in DOMAIN queue : i \in DOMAIN queue' /\ queue'[i] = queue[i]
  <2>1. queue \in Seq(Ops)
    BY DEF BaseInv, TypeOK
  <2>2. \/ /\ Len(queue') = Len(queue) + 1
           /\ \A i \in 1 .. Len(queue) : queue'[i] = queue[i]
           /\ queue' \in Seq(Ops)
        \/ queue' = queue
    BY <1>1, Sending
  <2> QED
    BY <2>1, <2>2
<1>4. \A i \in DOMAIN queue' : queue'[i] \in PlanOps(th) => i \in DOMAIN queue /\ queue'[i] = queue[i]
  BY <1>1, <1>2
<1>5. (UnderWay(th) => Fine(th))'
  BY <1>1, <1>4 DEF CopyAt, UnderWay, Fine
<1>6. NoOrphan(th)'
  <2> SUFFICES ASSUME NEW i \in DOMAIN queue', NEW j \in DOMAIN queue', i < j, queue'[j] \in PlanOps(th)
               PROVE  queue'[i] # ThreadUpserted(th, None)
    BY DEF NoOrphan
  <2>1. j \in DOMAIN queue /\ queue'[j] = queue[j]
    BY <1>4
  <2>2. i \in DOMAIN queue /\ queue'[i] = queue[i]
    BY <1>3, <2>1
  <2> QED
    BY <2>1, <2>2 DEF CopyAt, NoOrphan
<1>7. NamedInQueue(th)'
  <2> SUFFICES ASSUME NEW x \in Naming(th), NEW q \in DOMAIN queue', queue'[q] = LastOf(th)
               PROVE  Out(x, th)' \/ \E i \in DOMAIN queue' : i < q /\ queue'[i] = x
    BY DEF NamedInQueue
  <2>1. q \in DOMAIN queue /\ queue[q] = LastOf(th)
    BY <1>4, PlanOpsFacts
  <2>2. Out(x, th) \/ \E i \in DOMAIN queue : i < q /\ queue[i] = x
    BY <2>1 DEF CopyAt, NamedInQueue
  <2> QED
    BY <1>1, <1>3, <2>2 DEF Out
<1>8. NamedInTodo(th)'
  <2> SUFFICES ASSUME NEW x \in Naming(th), NEW q \in DOMAIN todo, todo[q] = LastOf(th)
               PROVE  \/ Out(x, th)'
                      \/ \E i \in DOMAIN queue' : queue'[i] = x
                      \/ \E i \in DOMAIN todo : i < q /\ todo[i] = x
    BY <1>1 DEF NamedInTodo
  <2>1. \/ Out(x, th) \/ (\E i \in DOMAIN queue : queue[i] = x)
        \/ \E i \in DOMAIN todo : i < q /\ todo[i] = x
    BY DEF CopyAt, NamedInTodo
  <2> QED
    BY <1>1, <1>3, <2>1 DEF Out
<1> QED
  BY <1>5, <1>6, <1>7, <1>8 DEF CopyAt

(* The actor sends the next operation of a copy. *)
LEMMA CopySent ==
    ASSUME BaseInv, TodoInv, NEW th \in ThreadIds \ reused, CopyAt(th), SendNext, lost \subseteq lost'
    PROVE  CopyAt(th)'
<1>1. /\ todo # <<>> /\ TrySend(Head(todo)) /\ todo' = Tail(todo)
      /\ UNCHANGED <<file, header>>
  BY DEF SendNext, disk
<1>2. queue \in Seq(Ops) /\ todo \in Seq(Ops) /\ Len(queue) \in Nat
  BY DEF BaseInv, TypeOK
<1>3. Head(todo) = todo[1] /\ 1 \in DOMAIN todo /\ Sound(Head(todo))
  BY <1>1, <1>2 DEF BaseInv, ChannelInv
<1>4. \A i \in DOMAIN queue' : \/ i \in DOMAIN queue /\ queue'[i] = queue[i]
                               \/ i = Len(queue) + 1 /\ queue'[i] = todo[1]
  BY <1>1, <1>3, SentLast
<1>5. /\ queue' \in Seq(Ops)
      /\ \A i \in DOMAIN queue : i \in DOMAIN queue' /\ queue'[i] = queue[i] /\ i < Len(queue) + 1
      /\ \/ Len(queue) + 1 \in DOMAIN queue' /\ queue'[Len(queue) + 1] = todo[1]
         \/ lost' = lost \union Miss(todo[1])
  <2>1. \/ /\ Len(queue') = Len(queue) + 1
           /\ \A i \in 1 .. Len(queue) : queue'[i] = queue[i]
           /\ queue'[Len(queue) + 1] = todo[1]
           /\ queue' \in Seq(Ops)
        \/ queue' = queue /\ lost' = lost \union Miss(todo[1])
    BY <1>1, <1>3, Sending
  <2> QED
    BY <1>2, <2>1
<1>6. \A i \in DOMAIN todo' : todo'[i] = todo[i + 1] /\ i + 1 \in DOMAIN todo /\ i \in Nat \ {0}
  BY <1>1, <1>2
<1>7. \A i \in DOMAIN todo : i = 1 \/ (i - 1 \in DOMAIN todo' /\ todo'[i - 1] = todo[i])
  BY <1>1, <1>2
<1>8. \A i \in DOMAIN todo : i \in Nat
  BY <1>2
<1>9. (UnderWay(th) => Fine(th))'
  <2>1. UnderWay(th)' => UnderWay(th)
    BY <1>3, <1>4, <1>6 DEF UnderWay
  <2> QED
    BY <1>1, <2>1 DEF CopyAt, Fine
<1>10. NoOrphan(th)'
  <2> SUFFICES ASSUME NEW i \in DOMAIN queue', NEW j \in DOMAIN queue', i < j, queue'[j] \in PlanOps(th)
               PROVE  queue'[i] # ThreadUpserted(th, None)
    BY DEF NoOrphan
  <2>1. i \in DOMAIN queue /\ queue'[i] = queue[i]
    BY <1>2, <1>4, <1>5
  <2>2. CASE j \in DOMAIN queue /\ queue'[j] = queue[j]
    BY <2>1, <2>2 DEF CopyAt, NoOrphan
  <2>3. CASE queue'[j] = todo[1]
    <3>1. Copying(th)
      BY <1>3, <2>3, PlanOpsFacts DEF Copying
    <3>2. Alone(th)
      BY <3>1 DEF TodoInv
    <3> QED
      BY <2>1, <3>2 DEF Alone
  <2> QED
    BY <1>4, <2>2, <2>3
<1>11. NamedInQueue(th)'
  <2> SUFFICES ASSUME NEW x \in Naming(th), NEW q \in DOMAIN queue', queue'[q] = LastOf(th)
               PROVE  Out(x, th)' \/ \E i \in DOMAIN queue' : i < q /\ queue'[i] = x
    BY DEF NamedInQueue
  <2>1. CASE q \in DOMAIN queue /\ queue'[q] = queue[q]
    <3>1. Out(x, th) \/ \E i \in DOMAIN queue : i < q /\ queue[i] = x
      BY <2>1 DEF CopyAt, NamedInQueue
    <3> QED
      BY <1>1, <1>5, <3>1 DEF Out
  <2>2. CASE q = Len(queue) + 1 /\ queue'[q] = todo[1]
    <3>1. \/ Out(x, th) \/ (\E i \in DOMAIN queue : queue[i] = x)
          \/ \E i \in DOMAIN todo : i < 1 /\ todo[i] = x
      BY <1>3, <2>2 DEF CopyAt, NamedInTodo
    <3>2. ~\E i \in DOMAIN todo : i < 1
      BY <1>2
    <3> QED
      BY <1>1, <1>5, <2>2, <3>1, <3>2 DEF Out
  <2> QED
    BY <1>4, <2>1, <2>2
<1>12. NamedInTodo(th)'
  <2> SUFFICES ASSUME NEW x \in Naming(th), NEW q \in DOMAIN todo', todo'[q] = LastOf(th)
               PROVE  \/ Out(x, th)'
                      \/ \E i \in DOMAIN queue' : queue'[i] = x
                      \/ \E i \in DOMAIN todo' : i < q /\ todo'[i] = x
    BY DEF NamedInTodo
  <2>1. todo[q + 1] = LastOf(th) /\ q + 1 \in DOMAIN todo /\ q \in Nat
    BY <1>6
  <2>2. \/ Out(x, th) \/ (\E i \in DOMAIN queue : queue[i] = x)
        \/ \E i \in DOMAIN todo : i < q + 1 /\ todo[i] = x
    BY <2>1 DEF CopyAt, NamedInTodo
  <2>3. CASE Out(x, th) \/ (\E i \in DOMAIN queue : queue[i] = x)
    BY <1>1, <1>5, <2>3 DEF Out
  <2>4. CASE \E i \in DOMAIN todo : i < q + 1 /\ todo[i] = x
    <3>1. PICK i \in DOMAIN todo : i < q + 1 /\ todo[i] = x
      BY <2>4
    <3>2. CASE i = 1
      <4>1. Miss(todo[1]) = {x}
        BY <3>1, <3>2, PlanOpsFacts
      <4> QED
        BY <1>5, <3>1, <3>2, <4>1 DEF Out
    <3>3. CASE i # 1
      <4>1. i - 1 \in DOMAIN todo' /\ todo'[i - 1] = x /\ i - 1 < q
        BY <1>7, <1>8, <2>1, <3>1, <3>3
      <4> QED
        BY <4>1
    <3> QED
      BY <3>2, <3>3
  <2> QED
    BY <2>2, <2>3, <2>4
<1> QED
  BY <1>9, <1>10, <1>11, <1>12 DEF CopyAt

(* A fork begins to send its copy. *)
LEMMA CopyBegun ==
    ASSUME BaseInv, ResidentInv, NEW th \in Forks \ reused', CopyAt(th), ForkCopy
    PROVE  CopyAt(th)'
<1>1. PICK copy : Copied(copy)
  BY ForkCopyFacts
<1>2. UNCHANGED <<queue, file, header, lost>> /\ busy.th \in Forks
  BY ForkCopyFacts
<1>3. /\ todo' \in Seq(Ops) /\ Len(todo') = Len(copy) + 6 /\ Len(copy) \in Nat
      /\ todo'[1] = ForkHeader(busy.th) /\ todo'[2] = ThreadUpserted(busy.th, Main)
      /\ \A i \in 1 .. Len(copy) + 6 : todo'[i].th = busy.th
  BY <1>1, PlanSent
<1>4. DOMAIN todo' = 1 .. Len(copy) + 6 /\ 1 \in DOMAIN todo' /\ 2 \in DOMAIN todo'
  BY <1>3
<1>5. CASE th # busy.th
  <2>1. \A i \in DOMAIN todo' : todo'[i] \notin PlanOps(th)
    BY <1>3, <1>4, <1>5, PlanOpsFacts
  <2>2. (UnderWay(th) => Fine(th))'
    BY <1>2, <2>1 DEF CopyAt, UnderWay, Fine
  <2>3. NoOrphan(th)' /\ NamedInQueue(th)'
    BY <1>2 DEF CopyAt, NoOrphan, NamedInQueue, Out
  <2>4. NamedInTodo(th)'
    BY <2>1, PlanOpsFacts DEF NamedInTodo
  <2> QED
    BY <2>2, <2>3, <2>4 DEF CopyAt
<1>6. CASE th = busy.th
  <2>1. /\ file[th] = <<>>
        /\ \A i \in DOMAIN queue : queue[i].op # "Flush" => queue[i].th # th
    BY <1>6, NewNameAlone
  <2>2. th \notin header
    BY <2>1 DEF BaseInv, ChannelInv
  <2>3. \A i \in DOMAIN queue : queue[i] \notin PlanOps(th)
    BY <2>1, PlanOpsFacts
  <2>4. Fine(th)'
    <3>1. 1 .. Len(file[th]) = {}
      BY <2>1
    <3> QED
      BY <1>2, <2>2, <3>1 DEF Fine
  <2>5. NoOrphan(th)' /\ NamedInQueue(th)'
    BY <1>2, <2>3, PlanOpsFacts DEF NoOrphan, NamedInQueue
  <2>6. NamedInTodo(th)'
    <3> SUFFICES ASSUME NEW x \in Naming(th), NEW q \in DOMAIN todo', todo'[q] = LastOf(th)
                 PROVE  \E i \in DOMAIN todo' : i < q /\ todo'[i] = x
      BY DEF NamedInTodo
    <3>1. todo'[1] = ForkHeader(th) /\ todo'[2] = ThreadUpserted(th, Main)
      BY <1>3, <1>6
    <3>2. {todo'[1], todo'[2]} = Naming(th)
      BY <3>1 DEF Naming
    <3>3. q # 1 /\ q # 2
      BY <3>2, PlanOpsFacts
    <3>4. 1 < q /\ 2 < q
      BY <1>3, <1>4, <3>3
    <3> QED
      BY <1>4, <3>2, <3>4
  <2> QED
    BY <2>4, <2>5, <2>6 DEF CopyAt
<1> QED
  BY <1>5, <1>6

(* A line is added behind the others. *)
LEMMA FirstStays ==
    ASSUME NEW f, NEW g, NEW n \in Nat, NEW m \in Nat, n <= m, FirstIsMain(f, n),
           \A i \in 1 .. n : g[i] = f[i]
    PROVE  FirstIsMain(g, m)
<1>1. PICK i \in 1 .. n : f[i] = Session(Main) /\ \A j \in 1 .. (i - 1) : f[j].kind # "session"
  BY DEF FirstIsMain
<1>2. i \in 1 .. m /\ g[i] = Session(Main)
  BY <1>1
<1>3. \A j \in 1 .. (i - 1) : g[j].kind # "session"
  BY <1>1
<1> QED
  BY <1>2, <1>3 DEF FirstIsMain

(* The writer takes an operation while a copy is under way. *)
LEMMA FineTaken ==
    ASSUME BaseInv, TodoInv, NEW th \in ThreadIds \ reused, UnderWay(th), Fine(th), NoOrphan(th),
           UnderWay(th)' \/ Head(queue) # ThreadUpserted(th, None), WriterTake
    PROVE  Fine(th)'
<1> DEFINE op == Head(queue)
           n == Len(file[th])
<1>1. queue # <<>> /\ queue' = Tail(queue) /\ todo' = todo
  BY DEF WriterTake, actorVars
<1>2. Sound(op) /\ op = queue[1] /\ 1 \in DOMAIN queue /\ queue \in Seq(Ops) /\ op \in Ops
  BY <1>1, TakeFacts DEF BaseInv, TypeOK, Sound
<1>3. TakesInto(op)
  BY TakeDisk
<1>4. file[th] \in Seq(Lines) /\ n \in Nat
  BY DEF BaseInv, TypeOK
<1>5. op # ThreadUpserted(th, None)
  <2> SUFFICES ASSUME UnderWay(th)', op = ThreadUpserted(th, None) PROVE FALSE
    OBVIOUS
  <2>1. \A i \in DOMAIN queue' : queue'[i] = queue[i + 1] /\ i + 1 \in DOMAIN queue /\ 1 < i + 1
    BY <1>1, <1>2
  <2>2. CASE \E i \in DOMAIN queue' : queue'[i] \in PlanOps(th)
    BY <1>2, <2>1, <2>2 DEF NoOrphan
  <2>3. CASE \E i \in DOMAIN todo' : todo'[i] \in PlanOps(th)
    <3>1. Copying(th)
      BY <1>1, <2>3, PlanOpsFacts DEF Copying
    <3> QED
      BY <1>2, <3>1 DEF TodoInv, Alone
  <2> QED
    BY <2>2, <2>3 DEF UnderWay
<1> HIDE DEF op
<1>6. CASE op.th # th
  <2>1. file'[th] = file[th] /\ (th \in header' <=> th \in header)
    BY <1>3, <1>6 DEF TakesInto
  <2> QED
    BY <2>1 DEF Fine
<1>7. CASE op.th = th /\ ~Writes(op)
  <2>1. file' = file /\ header' = header
    BY <1>3, <1>7 DEF TakesInto
  <2> QED
    BY <2>1 DEF Fine
<1>8. CASE op.th = th /\ Writes(op)
  <2>1. ~EndsTorn(file[th])
    <3> SUFFICES ASSUME file[th] # <<>>, file[th][n] = Torn PROVE FALSE
      BY DEF EndsTorn
    <3>1. n \in 1 .. n
      BY <1>4
    <3>2. Parses(Torn)
      BY <3>1 DEF Fine
    <3> QED
      BY <3>2 DEF Parses, Torn
  <2>2. /\ Len(file'[th]) = n + 1 /\ file'[th][n + 1] = LineOf(op)
        /\ \A i \in 1 .. n : file'[th][i] = file[th][i]
        /\ header' = header \union IF Heads(op) THEN {th} ELSE {}
    BY <1>3, <1>8, <2>1 DEF TakesInto
  <2>3. \A i \in 1 .. n + 1 : i \in 1 .. n \/ i = n + 1
    BY <1>4
  <2>4. Parses(LineOf(op)) /\ (~Heads(op) => LineOf(op).kind # "session")
        /\ (Heads(op) => LineOf(op) = Session(op.parent))
    <3>1. CASE Heads(op)
      BY <3>1 DEF Heads, LineOf, Session, Parses
    <3>2. CASE ~Heads(op) /\ op.op = "ItemAppended"
      BY <3>2 DEF LineOf, ItemLine, Parses
    <3>3. CASE ~Heads(op) /\ op.op = "TurnEnded"
      BY <3>3 DEF LineOf, Leaf, Parses
    <3>4. CASE ~Heads(op) /\ op.op = "SetLeaf"
      BY <3>4 DEF LineOf, Leaf, Parses
    <3> QED
      BY <1>8, <3>1, <3>2, <3>3, <3>4 DEF Writes
  <2>5. \A i \in 1 .. Len(file'[th]) : Parses(file'[th][i])
    BY <2>2, <2>3, <2>4 DEF Fine
  <2>6. CASE th \in header
    <3>1. FirstIsMain(file'[th], Len(file'[th]))
      <4>1. FirstIsMain(file[th], n) /\ n + 1 \in Nat /\ n <= n + 1
        BY <1>4, <2>6 DEF Fine
      <4> QED
        BY <1>4, <2>2, <4>1, FirstStays
    <3> QED
      BY <2>2, <2>5, <2>6, <3>1 DEF Fine
  <2>7. CASE th \notin header /\ Heads(op)
    <3>1. op.parent = Main
      <4>1. op \in [op : {"ThreadUpserted"}, th : ThreadIds, parent : {Main, None}]
               \union [op : {"ForkHeader"}, th : Forks, parent : {Main}]
        BY <1>2, <2>7 DEF Ops, Heads
      <4>2. op.parent = None => op = ThreadUpserted(th, None)
        BY <1>8, <4>1, PersistenceConstants DEF ThreadUpserted
      <4> QED
        BY <1>5, <4>1, <4>2 DEF op
    <3>2. n + 1 \in 1 .. n + 1 /\ \A j \in 1 .. ((n + 1) - 1) : j \in 1 .. n
      BY <1>4
    <3>3. \A j \in 1 .. n : file'[th][j].kind # "session"
      BY <2>2, <2>7 DEF Fine
    <3>4. FirstIsMain(file'[th], n + 1)
      BY <2>2, <2>4, <2>7, <3>1, <3>2, <3>3 DEF FirstIsMain
    <3> QED
      BY <2>2, <2>5, <2>7, <3>4 DEF Fine
  <2>8. CASE th \notin header /\ ~Heads(op)
    <3>1. \A i \in 1 .. Len(file'[th]) : file'[th][i].kind # "session"
      BY <2>2, <2>3, <2>4, <2>8 DEF Fine
    <3> QED
      BY <2>2, <2>5, <2>8, <3>1 DEF Fine
  <2> QED
    BY <2>6, <2>7, <2>8
<1> QED
  BY <1>6, <1>7, <1>8

(* The writer takes what comes next: a name of the parent does not vanish. *)
LEMMA QueueShifts ==
    ASSUME BaseInv, NEW th, CopyAt(th), queue # <<>>, queue' = Tail(queue), todo' = todo,
           lost \subseteq lost', header \subseteq header',
           Head(queue) \in Naming(th) => Head(queue) \in lost' \/ th \in header',
           UnderWay(th) /\ UnderWay(th)' => Fine(th)'
    PROVE  CopyAt(th)'
<1>1. /\ Head(queue) = queue[1] /\ queue \in Seq(Ops)
      /\ \A i \in DOMAIN queue' : queue'[i] = queue[i + 1] /\ i + 1 \in DOMAIN queue
  BY TakeFacts DEF BaseInv, TypeOK
<1>2. /\ \A i \in DOMAIN queue : i \in Nat
      /\ \A i \in DOMAIN queue' : i \in Nat
      /\ \A i \in DOMAIN queue : i = 1 \/ (i - 1 \in DOMAIN queue' /\ queue'[i - 1] = queue[i])
  BY <1>1
<1>3. \A x \in Naming(th) : Out(x, th) \/ x = queue[1] => Out(x, th)'
  BY <1>1 DEF Out
<1>4. (UnderWay(th) => Fine(th))'
  <2>1. UnderWay(th)' => UnderWay(th)
    BY <1>1 DEF UnderWay
  <2> QED
    BY <2>1
<1>5. NoOrphan(th)'
  <2> SUFFICES ASSUME NEW i \in DOMAIN queue', NEW j \in DOMAIN queue', i < j, queue'[j] \in PlanOps(th)
               PROVE  queue'[i] # ThreadUpserted(th, None)
    BY DEF NoOrphan
  <2>1. /\ queue'[i] = queue[i + 1] /\ i + 1 \in DOMAIN queue
        /\ queue'[j] = queue[j + 1] /\ j + 1 \in DOMAIN queue /\ i + 1 < j + 1
    BY <1>1, <1>2
  <2> QED
    BY <2>1 DEF CopyAt, NoOrphan
<1>6. NamedInQueue(th)'
  <2> SUFFICES ASSUME NEW x \in Naming(th), NEW q \in DOMAIN queue', queue'[q] = LastOf(th)
               PROVE  Out(x, th)' \/ \E i \in DOMAIN queue' : i < q /\ queue'[i] = x
    BY DEF NamedInQueue
  <2>1. queue[q + 1] = LastOf(th) /\ q + 1 \in DOMAIN queue
    BY <1>1
  <2>2. CASE Out(x, th)
    BY <1>3, <2>2
  <2>3. CASE \E i \in DOMAIN queue : i < q + 1 /\ queue[i] = x
    <3>1. PICK i \in DOMAIN queue : i < q + 1 /\ queue[i] = x
      BY <2>3
    <3>2. CASE i = 1
      BY <1>3, <3>1, <3>2
    <3>3. CASE i # 1
      <4>1. i - 1 \in DOMAIN queue' /\ queue'[i - 1] = x /\ i - 1 < q
        BY <1>2, <3>1, <3>3
      <4> QED
        BY <4>1
    <3> QED
      BY <3>2, <3>3
  <2> QED
    BY <2>1, <2>2, <2>3 DEF CopyAt, NamedInQueue
<1>7. NamedInTodo(th)'
  <2> SUFFICES ASSUME NEW x \in Naming(th), NEW q \in DOMAIN todo, todo[q] = LastOf(th)
               PROVE  \/ Out(x, th)'
                      \/ \E i \in DOMAIN queue' : queue'[i] = x
                      \/ \E i \in DOMAIN todo : i < q /\ todo[i] = x
    BY DEF NamedInTodo
  <2>1. \/ Out(x, th) \/ (\E i \in DOMAIN queue : queue[i] = x)
        \/ \E i \in DOMAIN todo : i < q /\ todo[i] = x
    BY DEF CopyAt, NamedInTodo
  <2>2. CASE \E i \in DOMAIN queue : queue[i] = x
    BY <1>2, <1>3, <2>2
  <2> QED
    BY <1>3, <2>1, <2>2
<1> QED
  BY <1>4, <1>5, <1>6, <1>7 DEF CopyAt

(* An operation that names the parent makes the header, unless there is one. *)
LEMMA NameWritten ==
    ASSUME BaseInv, WriterTake, NEW th, Head(queue) \in Naming(th)
    PROVE  th \in header'
<1>1. TakesInto(Head(queue))
  BY TakeDisk
<1>2. Heads(Head(queue)) /\ Head(queue).th = th
  BY PlanOpsFacts
<1>3. th \notin header => Writes(Head(queue))
  BY <1>2 DEF Writes
<1> QED
  BY <1>1, <1>2, <1>3 DEF TakesInto

(* Nobody waits any more for a flush, which belongs to no copy. *)
LEMMA CopyUnheard ==
    ASSUME BaseInv, NEW th, CopyAt(th), FlushTimeout
    PROVE  CopyAt(th)'
<1>1. UNCHANGED <<todo, file, header, lost>>
  BY DEF FlushTimeout, disk
<1>2. /\ DOMAIN queue' = DOMAIN queue
      /\ \A i \in DOMAIN queue : queue'[i] = Unheard(queue[i])
  BY FlushTimeoutFacts
<1>3. \A i \in DOMAIN queue : Sound(queue[i])
  BY DEF BaseInv, ChannelInv
<1>4. \A i \in DOMAIN queue : \/ queue'[i] = queue[i]
                              \/ queue[i].op = "Flush" /\ queue'[i].op = "Flush"
  BY <1>2, <1>3, UnheardFacts
<1>5. \A op : op.op = "Flush" => op \notin PlanOps(th) /\ op # ThreadUpserted(th, None)
  BY PlanOpsFacts DEF ThreadUpserted
<1>6. \A i \in DOMAIN queue : \/ queue'[i] = queue[i]
                              \/ /\ queue[i] \notin PlanOps(th) /\ queue'[i] \notin PlanOps(th)
                                 /\ queue'[i] # ThreadUpserted(th, None)
  BY <1>4, <1>5
<1>7. (UnderWay(th) => Fine(th))'
  BY <1>1, <1>2, <1>6 DEF CopyAt, UnderWay, Fine
<1>8. NoOrphan(th)'
  <2> SUFFICES ASSUME NEW i \in DOMAIN queue, NEW j \in DOMAIN queue, i < j, queue'[j] \in PlanOps(th)
               PROVE  queue'[i] # ThreadUpserted(th, None)
    BY <1>2 DEF NoOrphan
  <2>1. queue[j] \in PlanOps(th)
    BY <1>6
  <2>2. queue[i] # ThreadUpserted(th, None)
    BY <2>1 DEF CopyAt, NoOrphan
  <2> QED
    BY <1>6, <2>2
<1>9. \A x \in PlanOps(th) : \A i \in DOMAIN queue : queue'[i] = x <=> queue[i] = x
  BY <1>6
<1>10. NamedInQueue(th)' /\ NamedInTodo(th)'
  BY <1>1, <1>2, <1>9, PlanOpsFacts DEF CopyAt, NamedInQueue, NamedInTodo, Out
<1> QED
  BY <1>7, <1>8, <1>10 DEF CopyAt

(* Every step keeps it. *)
LEMMA CopyStep ==
    ASSUME BaseInv, ResidentInv, TodoInv, CopyInv, [Next]_vars
    PROVE  CopyInv'
<1> SUFFICES ASSUME NEW th \in Forks \ reused' PROVE CopyAt(th)'
  BY DEF CopyInv, CopyAt
<1>1. reused \subseteq reused' /\ lost \subseteq lost'
  BY ChannelKinds
<1>2. th \in ThreadIds \ reused /\ CopyAt(th)
  BY <1>1 DEF CopyInv, CopyAt, ThreadIds
<1>3. CASE Still
  BY <1>1, <1>2, <1>3 DEF Still, CopyAt, UnderWay, Fine, NoOrphan, NamedInQueue, NamedInTodo, Out
<1>4. CASE NewTodo
  <2>1. UNCHANGED <<queue, file, header>> /\ \A i \in DOMAIN todo' : todo'[i] \notin PlanOps(th)
    BY <1>4 DEF NewTodo
  <2>2. (UnderWay(th) => Fine(th))'
    BY <1>2, <2>1 DEF CopyAt, UnderWay, Fine
  <2>3. NoOrphan(th)' /\ NamedInQueue(th)'
    BY <1>1, <1>2, <2>1 DEF CopyAt, NoOrphan, NamedInQueue, Out
  <2>4. NamedInTodo(th)'
    BY <2>1, PlanOpsFacts DEF NamedInTodo
  <2> QED
    BY <2>2, <2>3, <2>4 DEF CopyAt
<1>5. CASE \E op : SendsOther(op)
  BY <1>1, <1>2, <1>5, OtherSent
<1>6. CASE Emptied
  <2>1. DOMAIN queue' = {} /\ DOMAIN todo' = {}
    BY <1>6 DEF Emptied
  <2> QED
    BY <2>1 DEF CopyAt, UnderWay, NoOrphan, NamedInQueue, NamedInTodo
<1>7. CASE SendNext
  BY <1>1, <1>2, <1>7, CopySent
<1>8. CASE FlushTimeout
  BY <1>2, <1>8, CopyUnheard
<1>9. CASE ForkCopy
  BY <1>2, <1>9, CopyBegun
<1>10. CASE WriterTake
  <2>1. queue # <<>> /\ queue' = Tail(queue) /\ todo' = todo
    BY <1>10 DEF WriterTake, actorVars
  <2>2. header \subseteq header'
    <3>1. TakesInto(Head(queue))
      BY <1>10, TakeDisk
    <3> QED
      BY <3>1 DEF TakesInto
  <2>3. Head(queue) \in Naming(th) => Head(queue) \in lost' \/ th \in header'
    BY <1>10, NameWritten
  <2>4. UnderWay(th) /\ UnderWay(th)' => Fine(th)'
    BY <1>2, <1>10, FineTaken DEF CopyAt
  <2> QED
    BY <1>1, <1>2, <2>1, <2>2, <2>3, <2>4, QueueShifts
<1>11. CASE OpenFails
  <2>1. /\ queue # <<>> /\ queue' = Tail(queue) /\ todo' = todo
        /\ file' = file /\ header' = header /\ lost' = lost \union Miss(Head(queue))
    BY <1>11 DEF OpenFails, actorVars, disk
  <2>2. Head(queue) \in Naming(th) => Head(queue) \in lost' \/ th \in header'
    BY <2>1, PlanOpsFacts
  <2>3. UnderWay(th) /\ UnderWay(th)' => Fine(th)'
    BY <1>2, <2>1 DEF CopyAt, Fine
  <2> QED
    BY <1>1, <1>2, <2>1, <2>2, <2>3, QueueShifts
<1> QED
  BY <1>3, <1>4, <1>5, <1>6, <1>7, <1>8, <1>9, <1>10, <1>11, ChannelKinds

(* When the writer comes to the end of the first turn, the names have gone before. *)
LEMMA SyncedStep ==
    ASSUME BaseInv, TodoInv, CopyInv, SyncedInv, [Next]_vars
    PROVE  SyncedInv'
<1> SUFFICES ASSUME NEW th \in Forks \ reused',
                    writer' # Idle, writer'.stage = "sync", writer'.op = LastOf(th)
             PROVE  BothLost(th)' \/ FirstIsMain(file'[th], Len(file'[th]))
  BY DEF SyncedInv
<1>1. reused \subseteq reused' /\ lost \subseteq lost'
  BY ChannelKinds
<1>2. th \in ThreadIds \ reused /\ th \in Forks \ reused
  BY <1>1 DEF ThreadIds
<1>3. BothLost(th) => BothLost(th)'
  BY <1>1 DEF BothLost
<1>4. ASSUME file' = file, writer' = writer
      PROVE  BothLost(th)' \/ FirstIsMain(file'[th], Len(file'[th]))
  BY <1>2, <1>3, <1>4 DEF SyncedInv
<1>5. CASE Apart \/ (\E op : SendsOnly(op)) \/ Restart
  <2>1. file' = file /\ writer' = writer
    BY <1>5 DEF Apart, SendsOnly, Restart, disk
  <2> QED
    BY <1>4, <2>1
<1>6. CASE FlushTimeout
  <2>1. /\ writer # Idle /\ writer'.stage = writer.stage /\ writer'.op = Unheard(writer.op)
        /\ writer' \in [stage : {"sync", "index"}, op : Ops]
    BY <1>6, FlushTimeoutFacts
  <2>2. /\ Sound(writer.op) /\ file' = file
        /\ writer \in [stage : {"sync", "index"}, op : Ops]
    BY <1>6, <2>1 DEF BaseInv, TypeOK, ChannelInv, FlushTimeout, disk
  <2>3. Unheard(writer.op).op = writer.op.op /\ (writer.op.op # "Flush" => Unheard(writer.op) = writer.op)
    BY <2>2, UnheardFacts
  <2>4. writer.op = LastOf(th)
    <3>1. LastOf(th).op = "TurnEnded"
      BY PlanOpsFacts
    <3> QED
      BY <2>1, <2>3, <3>1
  <2> QED
    BY <1>2, <1>3, <2>1, <2>2, <2>4 DEF SyncedInv
<1>7. CASE WriterTake
  <2> DEFINE op == Head(queue)
  <2>1. queue # <<>> /\ queue' = Tail(queue) /\ writer' = AfterAppend(op)
    BY <1>7 DEF WriterTake
  <2>2. Sound(op) /\ op = queue[1] /\ 1 \in DOMAIN queue /\ ~\E i \in DOMAIN queue : i < 1
    BY <2>1, TakeFacts DEF BaseInv, TypeOK
  <2> HIDE DEF op
  <2>3. op = LastOf(th)
    BY <2>1, <2>2, AfterAppendFacts
  <2>4. CopyAt(th) /\ UnderWay(th)
    <3>1. LastOf(th) \in PlanOps(th)
      BY PlanOpsFacts
    <3>2. UnderWay(th)
      BY <2>2, <2>3, <3>1 DEF UnderWay
    <3> QED
      BY <1>2, <3>2 DEF CopyInv, CopyAt
  <2>5. op # ThreadUpserted(th, None)
    BY <2>3, PlanOpsFacts DEF ThreadUpserted
  <2>6. Fine(th)'
    BY <1>2, <1>7, <2>4, <2>5, FineTaken DEF CopyAt, op
  <2>7. header \subseteq header'
    <3>1. TakesInto(op)
      BY <1>7, TakeDisk DEF op
    <3> QED
      BY <3>1 DEF TakesInto
  <2>8. \A x \in Naming(th) : x \in lost \/ th \in header
    BY <2>2, <2>3, <2>4 DEF CopyAt, NamedInQueue, Out
  <2> QED
    BY <1>3, <2>6, <2>7, <2>8 DEF Fine, BothLost
<1>8. CASE OpenFails \/ WriterSync \/ SyncFails
  <2>1. PICK op : Sound(op) /\ writer' = ToIndex(op)
    <3>1. CASE OpenFails
      <4>1. Sound(Head(queue)) /\ writer' = ToIndex(Head(queue))
        BY <3>1, TakeFacts DEF OpenFails
      <4> QED
        BY <4>1
    <3>2. CASE WriterSync \/ SyncFails
      <4>1. Sound(writer.op) /\ writer' = ToIndex(writer.op)
        BY <3>2 DEF WriterSync, SyncFails, AfterSync, BaseInv, ChannelInv
      <4> QED
        BY <4>1
    <3> QED
      BY <1>8, <3>1, <3>2
  <2> QED
    BY <2>1, ToIndexFacts
<1>9. CASE WriterIndex \/ WriterExits \/ Crash
  BY <1>9 DEF WriterIndex, WriterExits, Crash, ForgetWriter
<1> QED
  BY <1>5, <1>6, <1>7, <1>8, <1>9, StepKinds

(* Nothing changes below the last synced line of a rollout. *)
LEMMA SyncedPrefix ==
    ASSUME BaseInv, [Next]_vars, NEW th \in ThreadIds, NEW i \in 1 .. synced[th], i < synced[th]
    PROVE  file'[th][i] = file[th][i]
<1>1. /\ file[th] \in Seq(Lines) /\ Len(file[th]) \in Nat
      /\ synced[th] \in 0 .. Len(file[th]) /\ i < Len(file[th])
  BY DEF BaseInv, TypeOK
<1>2. CASE Apart \/ (\E op : SendsOnly(op)) \/ FlushTimeout \/ OpenFails \/ SyncFails
           \/ WriterIndex \/ Restart \/ WriterSync \/ WriterExits
  BY <1>2 DEF Apart, SendsOnly, FlushTimeout, OpenFails, SyncFails, WriterIndex, Restart,
              WriterSync, WriterExits, disk
<1>3. CASE WriterTake
  <2>1. TakesInto(Head(queue))
    BY <1>3, TakeDisk
  <2>2. CASE th # Head(queue).th
    BY <2>1, <2>2 DEF TakesInto
  <2>3. CASE th = Head(queue).th
    BY <1>1, <2>1, <2>3 DEF TakesInto
  <2> QED
    BY <2>2, <2>3
<1>4. CASE Crash
  <2>1. KeptBy(file[th], synced[th], file'[th])
    BY <1>4, CrashFacts
  <2> QED
    BY <2>1 DEF KeptBy
<1> QED
  BY <1>2, <1>3, <1>4, StepKinds

(* Only the sync of the end of a turn makes one more turn saved. *)
LEMMA EndedGrows ==
    ASSUME [Next]_vars, ~WriterSync
    PROVE  ended' = ended
BY DEF Next, vars, saves, SendNext, StartTurn, AppendItem, StrayItem, FinishTurn, CancelTurn,
       SendEnded, ForkBegin, ResumeBegin, FlushTimeout, ForkCopy, ForkFails, ResumeRead,
       WriterTake, OpenFails, SyncFails, WriterIndex, Close, WriterExits, Crash, Restart

(* The first header of a rollout stays the first. *)
LEMMA ParentStep ==
    ASSUME BaseInv, SyncedInv, ParentInv, [Next]_vars
    PROVE  ParentInv'
<1> SUFFICES ASSUME NEW th \in Forks \ reused', ForkTurn(th) \in ended'
             PROVE  BothLost(th)' \/ FirstIsMain(file'[th], synced'[th])
  BY DEF ParentInv
<1>1. reused \subseteq reused' /\ lost \subseteq lost'
  BY ChannelKinds
<1>2. th \in ThreadIds /\ th \in Forks \ reused
  BY <1>1 DEF ThreadIds
<1>3. BothLost(th) => BothLost(th)'
  BY <1>1 DEF BothLost
<1>4. CASE ForkTurn(th) \in ended
  <2>1. CASE BothLost(th)
    BY <1>3, <2>1
  <2>2. CASE FirstIsMain(file[th], synced[th])
    <3>1. synced[th] \in Nat /\ SyncedStay
      BY <1>2, StepKeepsLines DEF BaseInv, CountInv
    <3>2. PICK i \in 1 .. synced[th] :
              file[th][i] = Session(Main) /\ \A j \in 1 .. (i - 1) : file[th][j].kind # "session"
      BY <2>2 DEF FirstIsMain
    <3>3. file[th][i] # Torn
      BY <3>2 DEF Session, Torn
    <3>4. i \in 1 .. synced'[th] /\ file'[th][i] = Session(Main)
      BY <1>2, <3>1, <3>2, <3>3 DEF SyncedStay
    <3>5. \A j \in 1 .. (i - 1) : j \in 1 .. synced[th] /\ j < synced[th]
      BY <3>1, <3>2
    <3>6. \A j \in 1 .. (i - 1) : file'[th][j] = file[th][j]
      BY <1>2, <3>5, SyncedPrefix
    <3> QED
      BY <3>2, <3>4, <3>6 DEF FirstIsMain
  <2> QED
    BY <1>2, <1>4, <2>1, <2>2 DEF ParentInv
<1>5. CASE ForkTurn(th) \notin ended
  <2>1. WriterSync
    BY <1>5, EndedGrows
  <2>2. /\ writer # Idle /\ writer.stage = "sync" /\ writer.op.op = "TurnEnded"
        /\ writer.op.turn = ForkTurn(th) /\ file' = file /\ Sound(writer.op)
        /\ writer.op.th \in opened
        /\ synced' = [synced EXCEPT ![writer.op.th] = Len(file[writer.op.th])]
    BY <1>5, <2>1 DEF WriterSync, BaseInv, ChannelInv
  <2>3. writer.op = LastOf(th)
    <3>1. writer.op \in [op : {"TurnStarted", "TurnEnded"}, th : ThreadIds, turn : Turns]
          /\ writer.op.th = th
      BY <2>2 DEF Sound, Ops, ForkTurn, TurnId
    <3> QED
      BY <2>2, <3>1 DEF LastOf, TurnEnded, ForkTurn, TurnId
  <2>4. writer.op.th = th /\ synced \in [ThreadIds -> Nat]
    BY <2>3, PlanOpsFacts DEF BaseInv, CountInv
  <2>5. synced'[th] = Len(file'[th])
    BY <1>2, <2>2, <2>4
  <2>6. BothLost(th) \/ FirstIsMain(file[th], Len(file[th]))
    BY <1>2, <2>2, <2>3 DEF SyncedInv
  <2> QED
    BY <1>3, <2>2, <2>5, <2>6
<1> QED
  BY <1>4, <1>5

(* All that makes a fork complete *)
ForkInv ==
    BaseInv /\ SentInv /\ ResidentInv /\ TodoInv /\ AckInv /\ CopyInv /\ SyncedInv /\ ParentInv

(* The invariant holds at the start ... *)
LEMMA ForkInvInit == Init => ForkInv
BY BaseInit, SentInvInit, ResidentInit, TodoInit, AckInit, ParentInit DEF ForkInv

(* ... and every step keeps it. *)
LEMMA ForkInvNext == ForkInv /\ [Next]_vars => ForkInv'
<1> SUFFICES ASSUME ForkInv, [Next]_vars PROVE ForkInv'
  OBVIOUS
<1> USE DEF ForkInv
<1>1. BaseInv' /\ SentInv'
  BY BaseNext, SentStep
<1>2. ResidentInv' /\ TodoInv'
  BY ResidentStep, TodoStep
<1>3. AckInv'
  BY AckStep
<1>4. CopyInv'
  BY CopyStep
<1>5. SyncedInv' /\ ParentInv'
  BY SyncedStep, ParentStep
<1> QED
  BY <1>1, <1>2, <1>3, <1>4, <1>5

(* It says what the header of a saved fork names, and what a fork has seen. *)
LEMMA ForkInvShows == ForkInv => ForkIsComplete
<1> SUFFICES ASSUME ForkInv PROVE ForkIsComplete
  OBVIOUS
<1>1. ForkSeesEverything
  BY AckShows DEF ForkInv
<1>2. ASSUME NEW th \in Forks \ reused, ForkTurn(th) \in ended,
             ~({ForkHeader(th), ThreadUpserted(th, Main)} \subseteq lost)
      PROVE  \E i \in 1 .. Len(file[th]) :
                 /\ file[th][i] = Session(Main)
                 /\ \A j \in 1 .. (i - 1) : file[th][j].kind # "session"
  <2>1. FirstIsMain(file[th], synced[th])
    BY <1>2 DEF ForkInv, ParentInv, BothLost, Naming
  <2>2. synced[th] \in 0 .. Len(file[th]) /\ Len(file[th]) \in Nat
    BY <1>2 DEF ForkInv, BaseInv, TypeOK, ThreadIds
  <2> QED
    BY <2>1, <2>2 DEF FirstIsMain
<1>3. SavedForkKeepsParent
  BY <1>2 DEF SavedForkKeepsParent
<1> QED
  BY <1>1, <1>3 DEF ForkIsComplete

(* A fork is complete: once its first turn was saved, the first header of its*)
(* rollout names the parent, also after crashes, unless both operations with *)
(* the name were lost or the name was in use; and a fork that heard its flush*)
(* acknowledged finds every accepted item of the source in the file.         *)
THEOREM ForksAreComplete == Spec => []ForkIsComplete
BY ForkInvInit, ForkInvNext, ForkInvShows, PTL DEF Spec
=============================================================================
