----------------------------- MODULE FoldLemmas -----------------------------
(***************************************************************************)
(* Induction and folds, for the proofs about models that add up amounts,   *)
(* number records or run a loop: least elements, which stand in for        *)
(* induction, and that a fold over a finite set exists and is what its     *)
(* rule says.                                                              *)
(***************************************************************************)
EXTENDS Integers, FiniteSetsExt, FiniteSetTheorems, TLAPS

-----------------------------------------------------------------------------
\* Induction.

(* A set of naturals that is not empty has a least element. *)
LEMMA LeastNatural ==
    ASSUME NEW S, S \subseteq Nat, S # {}
    PROVE  \E n \in S : \A m \in S : n <= m
<1> DEFINE R == OpToRel(<, Nat)
<1>1. PICK n \in S : \A m \in S : <<m, n>> \notin R
  BY Zenon, NatLessThanWellFounded, WFMin
<1>2. \A m \in S : ~(m < n)
  BY Zenon, <1>1 DEF OpToRel
<1> QED BY <1>2

(* A family of subsets of a finite set that is not empty has a member of which *)
(* no other is a subset. *)
LEMMA LeastSubset ==
    ASSUME NEW S, IsFiniteSet(S), NEW F, F \subseteq SUBSET S, F # {}
    PROVE  \E s \in F : \A t \in F : t \subseteq s => t = s
<1> DEFINE R == StrictSubsetOrdering(S)
<1>1. IsWellFoundedOn(R, SUBSET S)
  BY Zenon, FS_StrictSubsetOrderingWellFounded, FS_FiniteSubsetsOfFinite
<1>2. PICK s \in F : \A t \in F : <<t, s>> \notin R
  BY <1>1, WFMin
<1>3. ASSUME NEW t \in F, t \subseteq s PROVE t = s
  BY Zenon, <1>2, <1>3 DEF StrictSubsetOrdering
<1> QED BY <1>3

-----------------------------------------------------------------------------
\* Folds.  A fold over a finite set S takes one element, c[s], out of what is left
\* of it, s, and puts it together with the fold of the rest.

FoldRule(g, S, V, base, c, step) ==
    \A s \in SUBSET S :
        g[s] = IF s = {} THEN base ELSE step[<<s, g[s \ {c[s]}]>>]

FoldArgs(S, V, base, c, step) ==
    /\ IsFiniteSet(S)
    /\ base \in V
    /\ \A s \in SUBSET S : s # {} => c[s] \in s
    /\ step \in [(SUBSET S) \X V -> V]

(* The rule, for as long as the values are in V. *)
FoldsWithin(h, S, V, base, c, step) ==
    /\ h[{}] = base
    /\ \A s \in SUBSET S : s # {} /\ h[s \ {c[s]}] \in V =>
           h[s] = step[<<s, h[s \ {c[s]}]>>]

(* There is such a fold. *)
LEMMA FoldExists ==
    ASSUME NEW S, NEW V, NEW base, NEW c, NEW step, FoldArgs(S, V, base, c, step)
    PROVE  \E g \in [SUBSET S -> V] : FoldRule(g, S, V, base, c, step)
<1> DEFINE Small(n) == {s \in SUBSET S : Cardinality(s) <= n}
           Rule(g, n) == \A s \in Small(n) :
                            g[s] = IF s = {} THEN base ELSE step[<<s, g[s \ {c[s]}]>>]
           Good(n) == \E g \in [Small(n) -> V] : Rule(g, n)
           Bad == {n \in Nat : ~Good(n)}
<1>1. \A s \in SUBSET S : IsFiniteSet(s) /\ Cardinality(s) \in Nat
  BY FS_Subset, FS_CardinalityType DEF FoldArgs
<1>2. Good(0)
  <2> DEFINE g == [s \in Small(0) |-> base]
  <2>1. \A s \in Small(0) : s = {}
    BY <1>1, FS_EmptySet
  <2>2. g \in [Small(0) -> V]
    BY DEF FoldArgs
  <2>3. Rule(g, 0)
    BY <2>1
  <2> QED BY Zenon, <2>2, <2>3
<1>3. ASSUME NEW n \in Nat, Good(n) PROVE Good(n + 1)
  <2>1. PICK h \in [Small(n) -> V] : Rule(h, n)
    BY Zenon, <1>3
  <2> DEFINE val(s) == IF s = {} THEN base ELSE step[<<s, h[s \ {c[s]}]>>]
             g == [s \in Small(n + 1) |-> val(s)]
  <2>2. ASSUME NEW s \in Small(n + 1), s # {}
        PROVE  /\ s \ {c[s]} \in Small(n) /\ s \ {c[s]} \in Small(n + 1)
               /\ s \in SUBSET S
    <3>1. c[s] \in s /\ s \in SUBSET S
      BY <2>2 DEF FoldArgs
    <3>2. Cardinality(s \ {c[s]}) = Cardinality(s) - 1
      BY <1>1, <3>1, FS_RemoveElement
    <3>3. s \ {c[s]} \in SUBSET S
      BY <3>1
    <3> QED BY <1>1, <3>1, <3>2, <3>3
  <2>3. \A s \in Small(n + 1) : val(s) \in V
    <3> SUFFICES ASSUME NEW s \in Small(n + 1), s # {} PROVE val(s) \in V
      BY DEF FoldArgs
    <3>1. h[s \ {c[s]}] \in V /\ s \in SUBSET S
      BY <2>1, <2>2
    <3>2. <<s, h[s \ {c[s]}]>> \in (SUBSET S) \X V
      BY <3>1
    <3> QED BY <3>2 DEF FoldArgs
  <2>4. \A s \in Small(n) : h[s] = val(s)
    BY <2>1
  <2>5. \A s \in Small(n) : s \in Small(n + 1)
    BY <1>1
  <2> HIDE DEF Small
  <2>6. g \in [Small(n + 1) -> V] /\ \A s \in Small(n + 1) : g[s] = val(s)
    BY <2>3
  <2>7. Rule(g, n + 1)
    <3> SUFFICES ASSUME NEW s \in Small(n + 1), s # {}
                 PROVE  g[s] = step[<<s, g[s \ {c[s]}]>>]
      BY Zenon, <2>6
    <3>1. g[s \ {c[s]}] = h[s \ {c[s]}]
      BY Zenon, <2>2, <2>4, <2>6
    <3>2. g[s] = step[<<s, h[s \ {c[s]}]>>]
      BY <2>6
    <3> QED BY Zenon, <3>1, <3>2
  <2> QED BY Zenon, <2>6, <2>7
<1> HIDE DEF Good
<1>4. \A n \in Nat : Good(n)
  <2> SUFFICES ASSUME Bad # {} PROVE FALSE
    OBVIOUS
  <2>1. PICK n \in Bad : \A m \in Bad : n <= m
    BY Zenon, LeastNatural
  <2>2. n # 0 /\ n - 1 \in Nat
    BY <1>2
  <2>3. Good(n - 1)
    <3>1. n - 1 \notin Bad
      BY <2>1, <2>2
    <3> QED BY <2>2, <3>1
  <2>4. Good((n - 1) + 1)
    BY <1>3, <2>2, <2>3
  <2> QED BY <2>4
<1>5. Cardinality(S) \in Nat /\ Small(Cardinality(S)) = SUBSET S
  BY <1>1, FS_Subset DEF FoldArgs
<1>6. PICK g \in [Small(Cardinality(S)) -> V] : Rule(g, Cardinality(S))
  BY Zenon, <1>4, <1>5 DEF Good
<1>7. g \in [SUBSET S -> V] /\ FoldRule(g, S, V, base, c, step)
  <2> HIDE DEF Small
  <2> QED BY <1>5, <1>6 DEF FoldRule
<1> QED BY <1>7

(* A fold, and all that makes it one. *)
IsFold(g, S, V, base, c, step) ==
    /\ FoldArgs(S, V, base, c, step)
    /\ g \in [SUBSET S -> V]
    /\ FoldRule(g, S, V, base, c, step)

(* Whatever follows the rule as long as its values are in V is that fold, and its *)
(* values are in V. *)
LEMMA FoldIs ==
    ASSUME NEW S, NEW V, NEW base, NEW c, NEW step, NEW g, NEW h,
           IsFold(g, S, V, base, c, step), FoldsWithin(h, S, V, base, c, step)
    PROVE  \A s \in SUBSET S : h[s] = g[s]
<1>0. /\ FoldArgs(S, V, base, c, step) /\ FoldRule(g, S, V, base, c, step)
      /\ g \in [SUBSET S -> V]
  BY Zenon DEF IsFold
<1> DEFINE Bad == {s \in SUBSET S : h[s] # g[s]}
<1> SUFFICES ASSUME Bad # {} PROVE FALSE
  OBVIOUS
<1>1. PICK s \in Bad : \A t \in Bad : t \subseteq s => t = s
  <2>1. IsFiniteSet(S) /\ Bad \subseteq SUBSET S
    BY <1>0 DEF FoldArgs
  <2> HIDE DEF Bad
  <2> QED BY <2>1, LeastSubset
<1>2. s # {}
  BY Zenon, <1>0 DEF FoldRule, FoldsWithin
<1>3. c[s] \in s /\ s \ {c[s]} \in SUBSET S
  BY <1>0, <1>2 DEF FoldArgs
<1>4. s \ {c[s]} \notin Bad
  BY <1>1, <1>3
<1>5. h[s \ {c[s]}] = g[s \ {c[s]}] /\ g[s \ {c[s]}] \in V
  BY <1>0, <1>3, <1>4
<1>6. h[s] = step[<<s, h[s \ {c[s]}]>>]
  BY Zenon, <1>2, <1>5 DEF FoldsWithin
<1> QED BY <1>0, <1>2, <1>5, <1>6 DEF FoldRule

-----------------------------------------------------------------------------
\* Bounded sets of naturals.

(* A set of indices below some bound. *)
Bounded(S) == \E b \in Nat : S \subseteq 0..b

(* A bounded set of naturals that is not empty has a greatest element, which *)
(* Max picks. *)
LEMMA MaxOfBounded ==
    ASSUME NEW S, Bounded(S), S # {}
    PROVE  Max(S) \in S /\ \A y \in S : Max(S) >= y
<1>1. PICK b \in Nat : S \subseteq 0..b
  BY DEF Bounded
<1> DEFINE R == OpToRel(<, Nat)
           T == {b - x : x \in S}
<1>2. T \subseteq Nat /\ T # {}
  <2>1. \A x \in S : b - x \in Nat
    BY <1>1
  <2>2. T \subseteq Nat
    BY <2>1
  <2>3. PICK x \in S : TRUE
    OBVIOUS
  <2>4. b - x \in T
    OBVIOUS
  <2> QED BY <2>2, <2>4
<1>3. PICK t \in T : \A y \in T : <<y, t>> \notin R
  BY Zenon, <1>2, NatLessThanWellFounded, WFMin
<1>4. \A y \in T : ~(y < t)
  BY Zenon, <1>2, <1>3 DEF OpToRel
<1>5. PICK m \in S : t = b - m
  OBVIOUS
<1>6. ASSUME NEW y \in S PROVE m >= y
  <2>1. ~(b - y < b - m)
    BY <1>4, <1>5
  <2> QED BY <1>1, <2>1
<1> QED BY <1>6 DEF Max

(* A bounded set is finite. *)
LEMMA BoundedFinite ==
    ASSUME NEW S, Bounded(S)
    PROVE  IsFiniteSet(S) /\ Cardinality(S) \in Nat
BY FS_BoundedSetOfNaturals, FS_CardinalityType DEF Bounded

(* Subsets of bounded sets are bounded. *)
LEMMA BoundedSubset ==
    ASSUME NEW S, NEW T, Bounded(S), T \subseteq S
    PROVE  Bounded(T)
BY Zenon DEF Bounded

(* The union of two bounded sets is bounded. *)
LEMMA BoundedUnion ==
    ASSUME NEW S, NEW T, Bounded(S), Bounded(T)
    PROVE  Bounded(S \cup T)
<1>1. PICK a \in Nat : S \subseteq 0..a
  BY DEF Bounded
<1>2. PICK b \in Nat : T \subseteq 0..b
  BY Zenon DEF Bounded
<1>3. a + b \in Nat /\ S \cup T \subseteq 0..(a + b)
  BY <1>1, <1>2
<1> QED BY <1>3 DEF Bounded

(* One index is a bounded set. *)
LEMMA BoundedSingle == \A i \in Nat : Bounded({i})
BY DEF Bounded

-----------------------------------------------------------------------------
\* Loops: n rounds, the k-th of which turns v into step[<<k, v>>].

LoopRule(f, n, base, step) ==
    /\ f[0] = base
    /\ \A k \in 1..n : f[k] = step[<<k, f[k - 1]>>]

(* There is a function of the number of rounds done. *)
LEMMA LoopExists ==
    ASSUME NEW n \in Nat, NEW V, NEW base \in V, NEW step \in [(1..n) \X V -> V]
    PROVE  \E f \in [0..n -> V] : LoopRule(f, n, base, step)
<1> DEFINE Bad == {m \in 0..n : ~ \E f \in [0..m -> V] : LoopRule(f, m, base, step)}
<1> SUFFICES ASSUME Bad # {} PROVE FALSE
  OBVIOUS
<1>1. Bad \subseteq Nat
  OBVIOUS
<1>2. PICK m \in Bad : \A l \in Bad : m <= l
  BY Zenon, <1>1, LeastNatural
<1>3. m # 0
  <2> SUFFICES ASSUME m = 0 PROVE FALSE
    OBVIOUS
  <2> DEFINE f == [k \in 0..0 |-> base]
  <2>1. f \in [0..0 -> V] /\ LoopRule(f, 0, base, step)
    BY DEF LoopRule
  <2> QED BY <2>1
<1>4. m - 1 \in 0..n /\ m - 1 \notin Bad /\ m \in 1..n
  BY <1>2, <1>3
<1>5. PICK f \in [0..(m - 1) -> V] : LoopRule(f, m - 1, base, step)
  BY <1>4
<1> DEFINE h == [k \in 0..m |-> IF k = m THEN step[<<m, f[m - 1]>>] ELSE f[k]]
<1>6. step[<<m, f[m - 1]>>] \in V
  <2>1. m - 1 \in 0..(m - 1)
    BY <1>4
  <2>2. f[m - 1] \in V
    BY <2>1
  <2> QED BY <1>4, <2>2
<1>7. h \in [0..m -> V]
  <2> SUFFICES ASSUME NEW k \in 0..m, k # m PROVE f[k] \in V
    BY <1>6
  <2>1. k \in 0..(m - 1)
    BY <1>4
  <2> QED BY <2>1
<1>8. LoopRule(h, m, base, step)
  <2>1. h[0] = base
    BY <1>3, <1>4, <1>5 DEF LoopRule
  <2>2. ASSUME NEW k \in 1..m PROVE h[k] = step[<<k, h[k - 1]>>]
    <3>1. h[k - 1] = f[k - 1]
      BY <1>4
    <3>2. CASE k = m
      <4>1. h[m] = step[<<m, f[m - 1]>>]
        BY <1>4
      <4> HIDE DEF h
      <4> QED BY <3>1, <3>2, <4>1
    <3>3. CASE k # m
      <4>1. k \in 1..(m - 1)
        BY <1>4, <3>3
      <4>2. f[k] = step[<<k, f[k - 1]>>]
        BY <1>5, <4>1 DEF LoopRule
      <4>3. h[k] = f[k]
        BY <3>3
      <4> QED BY Zenon, <3>1, <4>2, <4>3
    <3> QED BY <3>2, <3>3
  <2> HIDE DEF h
  <2> QED BY <2>1, <2>2 DEF LoopRule
<1> QED BY <1>7, <1>8
=============================================================================
