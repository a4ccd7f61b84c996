--------------------------- MODULE AmountsProofs ---------------------------
(***************************************************************************)
(* The money of a joint transaction, for any amounts, any number of        *)
(* cloakers and any random choices: no coin is lost or made, no output is  *)
(* dust, and every cloaker gets back at least what it put in.              *)
(***************************************************************************)
EXTENDS FoldLemmas, EnigmaAmounts

-----------------------------------------------------------------------------
\* Sums.

(* P[k] is the sum of the first k of the n elements of s. *)
Sums(P, s, n) ==
    /\ P \in [0..n -> Int]
    /\ P[0] = 0
    /\ \A k \in 1..n : P[k] = P[k - 1] + s[k]

(* The function that Total computes on the sets of positions in s. *)
TotalOf(s) ==
    CHOOSE g : g = [T \in SUBSET DOMAIN s |->
        IF T = {} THEN 0 ELSE g[T \ {Max(T)}] + s[Max(T)]]

(* Total is the last of the sums. *)
LEMMA TotalSums ==
    ASSUME NEW n \in Nat, NEW s \in [1..n -> Int]
    PROVE  \E P : Sums(P, s, n) /\ Total(s) = P[n]
<1> DEFINE S == 1..n
           pick == [T \in SUBSET S |-> Max(T)]
           step == [p \in (SUBSET S) \X Int |->
                       IF p[1] = {} THEN 0 ELSE p[2] + s[pick[p[1]]]]
           H == TotalOf(s)
<1>1. Total(s) = H[S]
  <2>1. DOMAIN s = S
    OBVIOUS
  <2>2. Total(s) = H[DOMAIN s]
    BY DEF Total, FoldLeft, MapThenFoldSet, TotalOf
  <2> QED BY <2>1, <2>2
<1>2. \A T \in SUBSET S : T # {} => pick[T] = Max(T) /\ pick[T] \in T
                                    /\ (\A y \in T : pick[T] >= y) /\ s[pick[T]] \in Int
  <2> SUFFICES ASSUME NEW T \in SUBSET S, T # {}
               PROVE  pick[T] = Max(T) /\ pick[T] \in T
                      /\ (\A y \in T : pick[T] >= y) /\ s[pick[T]] \in Int
    BY Zenon
  <2>1. Bounded(T)
    <3>1. T \subseteq 0..n
      OBVIOUS
    <3> QED BY Zenon, <3>1 DEF Bounded
  <2>2. Max(T) \in T /\ \A y \in T : Max(T) >= y
    BY <2>1, MaxOfBounded
  <2> QED BY Zenon, <2>2
<1>3. \A T \in SUBSET S : \A i \in Int :
         step[<<T, i>>] = IF T = {} THEN 0 ELSE i + s[pick[T]]
  <2> HIDE DEF pick
  <2> QED BY Zenon
<1>4. FoldArgs(S, Int, 0, pick, step)
  <2>1. step \in [(SUBSET S) \X Int -> Int]
    <3> HIDE DEF pick
    <3>1. \A p \in (SUBSET S) \X Int :
             (IF p[1] = {} THEN 0 ELSE p[2] + s[pick[p[1]]]) \in Int
      BY <1>2
    <3> QED BY <3>1
  <2>2. IsFiniteSet(S)
    BY FS_Interval
  <2> HIDE DEF step, pick
  <2> QED BY <1>2, <2>1, <2>2 DEF FoldArgs
<1>5. \A T \in SUBSET S : pick[T] = Max(T)
  OBVIOUS
<1> HIDE DEF step, pick
<1>6. PICK g \in [SUBSET S -> Int] : FoldRule(g, S, Int, 0, pick, step)
  BY Zenon, <1>4, FoldExists
<1>7. \A T \in SUBSET S : g[T] = IF T = {} THEN 0 ELSE g[T \ {pick[T]}] + s[pick[T]]
  <2> SUFFICES ASSUME NEW T \in SUBSET S, T # {}
               PROVE  g[T] = g[T \ {pick[T]}] + s[pick[T]]
    BY Zenon, <1>6 DEF FoldRule
  <2>1. g[T \ {pick[T]}] \in Int
    BY Zenon
  <2> QED BY Zenon, <1>3, <1>6, <2>1 DEF FoldRule
<1>8. g = [T \in SUBSET DOMAIN s |->
              IF T = {} THEN 0 ELSE g[T \ {Max(T)}] + s[Max(T)]]
  <2>1. DOMAIN s = S
    OBVIOUS
  <2> QED BY Zenon, <1>5, <1>7, <2>1
<1>9. H = [T \in SUBSET DOMAIN s |->
              IF T = {} THEN 0 ELSE H[T \ {Max(T)}] + s[Max(T)]]
  BY Zenon, <1>8 DEF TotalOf
<1> HIDE DEF H
<1>10. \A T \in SUBSET S : H[T] = IF T = {} THEN 0 ELSE H[T \ {pick[T]}] + s[pick[T]]
  <2>1. DOMAIN s = S
    OBVIOUS
  <2> QED BY Zenon, <1>5, <1>9, <2>1
<1>11. \A T \in SUBSET S : H[T] = g[T]
  <2>1. H[{}] = 0
    BY Zenon, <1>10
  <2>2. \A T \in SUBSET S : T # {} /\ H[T \ {pick[T]}] \in Int =>
            H[T] = step[<<T, H[T \ {pick[T]}]>>]
    BY Zenon, <1>3, <1>10
  <2>3. FoldsWithin(H, S, Int, 0, pick, step)
    BY SMTT(60), <2>1, <2>2 DEF FoldsWithin
  <2>4. IsFold(g, S, Int, 0, pick, step)
    BY <1>4, <1>6 DEF IsFold
  <2> HIDE DEF S
  <2> QED BY <2>3, <2>4, FoldIs
<1> DEFINE P == [k \in 0..n |-> g[1..k]]
<1>12. P \in [0..n -> Int] /\ P[n] = g[S]
  <2>1. \A k \in 0..n : g[1..k] \in Int
    <3> SUFFICES ASSUME NEW k \in 0..n PROVE g[1..k] \in Int
      OBVIOUS
    <3>1. 1..k \subseteq S
      OBVIOUS
    <3> QED BY <3>1
  <2> QED BY <2>1
<1>13. P[0] = 0
  <2>1. 1..0 = {} /\ P[0] = g[1..0]
    OBVIOUS
  <2>2. g[{}] = 0
    BY Zenon, <1>7
  <2> QED BY <2>1, <2>2
<1>14. ASSUME NEW k \in 1..n PROVE P[k] = P[k - 1] + s[k]
  <2>0. k \in 1..k /\ 1..k \subseteq S
    OBVIOUS
  <2>1. 1..k \in SUBSET S /\ 1..k # {} /\ k \in 1..k
    BY Zenon, <2>0
  <2>2. pick[1..k] \in 1..k /\ pick[1..k] >= k
    BY Zenon, <1>2, <2>1
  <2>3. pick[1..k] = k
    BY <2>2
  <2>4. (1..k) \ {k} = 1..(k - 1)
    OBVIOUS
  <2>5. g[1..k] = g[1..(k - 1)] + s[k]
    BY Zenon, <1>7, <2>1, <2>3, <2>4
  <2> QED BY <2>5
<1>15. Sums(P, s, n)
  <2> HIDE DEF P
  <2> QED BY <1>12, <1>13, <1>14 DEF Sums
<1>16. Total(s) = P[n]
  BY <1>1, <1>11, <1>12
<1> QED BY <1>15, <1>16

(* There is only one way to add up. *)
LEMMA SumsUnique ==
    ASSUME NEW n \in Nat, NEW s \in [1..n -> Int], NEW P, NEW Q, Sums(P, s, n), Sums(Q, s, n)
    PROVE  P[n] = Q[n]
<1> DEFINE Bad == {k \in 0..n : P[k] # Q[k]}
<1> SUFFICES ASSUME Bad # {} PROVE FALSE
  OBVIOUS
<1>1. Bad \subseteq Nat
  OBVIOUS
<1>2. PICK k \in Bad : \A m \in Bad : k <= m
  BY Zenon, <1>1, LeastNatural
<1>3. k \in 1..n
  BY DEF Sums
<1>4. k - 1 \in 0..n /\ k - 1 \notin Bad
  BY <1>2, <1>3
<1> QED BY <1>3, <1>4 DEF Sums

(* Total is the last of any sums. *)
LEMMA TotalIs ==
    ASSUME NEW n \in Nat, NEW s \in [1..n -> Int], NEW P, Sums(P, s, n)
    PROVE  Total(s) = P[n]
BY TotalSums, SumsUnique

(* A sequence is a function on an initial segment. *)
LEMMA SeqFcn ==
    ASSUME NEW s \in Seq(Int)
    PROVE  Len(s) \in Nat /\ s \in [1..Len(s) -> Int] /\ DOMAIN s = 1..Len(s)
OBVIOUS

(* The sum of numbers is a number, nothing for none. *)
LEMMA TotalType ==
    ASSUME NEW n \in Nat, NEW s \in [1..n -> Int]
    PROVE  Total(s) \in Int /\ (n = 0 => Total(s) = 0)
BY TotalSums DEF Sums

(* The sums of a sequence that is longer by one. *)
LEMMA TotalLonger ==
    ASSUME NEW n \in Nat, NEW s \in [1..(n + 1) -> Int], NEW t \in [1..n -> Int],
           \A k \in 1..n : s[k] = t[k]
    PROVE  Total(s) = Total(t) + s[n + 1]
<1>1. PICK P : Sums(P, t, n) /\ Total(t) = P[n]
  BY TotalSums
<1> DEFINE Q == [k \in 0..(n + 1) |-> IF k = n + 1 THEN P[n] + s[n + 1] ELSE P[k]]
<1>2. s[n + 1] \in Int /\ P[n] \in Int /\ \A k \in 0..n : P[k] \in Int
  BY <1>1 DEF Sums
<1>3. Q \in [0..(n + 1) -> Int] /\ Q[0] = 0 /\ Q[n + 1] = P[n] + s[n + 1]
  BY <1>1, <1>2 DEF Sums
<1>4. ASSUME NEW k \in 1..(n + 1) PROVE Q[k] = Q[k - 1] + s[k]
  <2>1. CASE k = n + 1
    BY <2>1
  <2>2. CASE k \in 1..n
    <3>1. P[k] = P[k - 1] + t[k]
      BY <1>1, <2>2 DEF Sums
    <3>2. Q[k] = P[k] /\ Q[k - 1] = P[k - 1]
      BY <2>2
    <3> QED BY SMTT(60), <2>2, <3>1, <3>2
  <2> QED BY <2>1, <2>2
<1>5. Sums(Q, s, n + 1)
  <2> HIDE DEF Q
  <2> QED BY <1>3, <1>4 DEF Sums
<1> HIDE DEF Q
<1>6. n + 1 \in Nat /\ Total(s) = Q[n + 1]
  BY <1>5, TotalIs
<1> QED BY <1>1, <1>3, <1>6

(* The sum after Append. *)
LEMMA TotalAppend ==
    ASSUME NEW s \in Seq(Int), NEW x \in Int
    PROVE  Total(Append(s, x)) = Total(s) + x
<1>1. PICK n \in Nat : n = Len(s)
  OBVIOUS
<1>2. PICK t : t = Append(s, x)
  BY Zenon
<1>3. s \in [1..n -> Int] /\ t \in [1..(n + 1) -> Int]
  <2>1. t \in Seq(Int) /\ Len(t) = n + 1
    BY <1>1, <1>2
  <2> QED BY <1>1, <2>1, SeqFcn
<1>4. t[n + 1] = x /\ \A k \in 1..n : t[k] = s[k]
  BY <1>1, <1>2
<1>5. Total(t) = Total(s) + t[n + 1]
  BY SMTT(60), <1>3, <1>4, TotalLonger
<1> QED BY SMTT(60), <1>2, <1>4, <1>5

(* One element. *)
LEMMA TotalSingle == \A x \in Int : Total(<<x>>) = x
<1> SUFFICES ASSUME NEW x \in Int PROVE Total(<<x>>) = x
  BY Zenon
<1>1. PICK e : e = <<>>
  OBVIOUS
<1>0. e \in Seq(Int)
  BY <1>1
<1>2. Total(Append(e, x)) = Total(e) + x
  BY <1>0, TotalAppend
<1>3. Total(e) = 0
  <2>1. e \in [1..0 -> Int]
    BY <1>1
  <2> QED BY Zenon, <2>1, TotalType
<1>4. Append(e, x) = <<x>>
  BY <1>1
<1> QED BY <1>2, <1>3, <1>4

(* The sum of a concatenation. *)
LEMMA TotalConcat ==
    ASSUME NEW s \in Seq(Int), NEW t \in Seq(Int)
    PROVE  Total(s \o t) = Total(s) + Total(t)
<1>1. PICK m \in Nat, n \in Nat : m = Len(s) /\ n = Len(t)
  OBVIOUS
<1>2. s \in [1..m -> Int] /\ t \in [1..n -> Int]
  BY <1>1
<1>3. PICK P : Sums(P, s, m) /\ Total(s) = P[m]
  BY <1>2, TotalSums
<1>4. PICK R : Sums(R, t, n) /\ Total(t) = R[n]
  BY <1>2, TotalSums
<1> DEFINE Q == [k \in 0..(m + n) |-> IF k <= m THEN P[k] ELSE P[m] + R[k - m]]
<1>5. PICK c : /\ c = s \o t
               /\ c \in [1..(m + n) -> Int]
               /\ \A k \in 1..m : c[k] = s[k]
               /\ \A k \in (m + 1)..(m + n) : c[k] = t[k - m]
  <2>1. PICK c : c = s \o t
    BY Zenon
  <2>2. c \in Seq(Int) /\ Len(c) = m + n
    BY <1>1, <2>1
  <2>3. \A k \in 1..(m + n) : c[k] = IF k <= m THEN s[k] ELSE t[k - m]
    BY <1>1, <2>1
  <2>4. c \in [1..(m + n) -> Int]
    BY <2>2, SeqFcn
  <2>5. \A k \in 1..m : c[k] = s[k]
    BY <2>3
  <2>6. \A k \in (m + 1)..(m + n) : c[k] = t[k - m]
    BY <2>3
  <2> QED BY Zenon, <2>1, <2>4, <2>5, <2>6
<1>6. (\A k \in 0..m : P[k] \in Int) /\ (\A k \in 0..n : R[k] \in Int) /\ P[0] = 0 /\ R[0] = 0
  BY <1>3, <1>4 DEF Sums
<1>7. Q \in [0..(m + n) -> Int]
  <2> SUFFICES ASSUME NEW k \in 0..(m + n)
               PROVE  (IF k <= m THEN P[k] ELSE P[m] + R[k - m]) \in Int
    BY ZenonT(60)
  <2>1. CASE k <= m
    BY <1>6, <2>1
  <2>2. CASE ~(k <= m)
    <3>1. k - m \in 0..n /\ m \in 0..m
      BY <2>2
    <3>2. R[k - m] \in Int /\ P[m] \in Int
      BY <1>6, <3>1
    <3> QED BY <2>2, <3>2
  <2> QED BY SMTT(60), <2>1, <2>2
<1>8. Q[0] = 0 /\ Q[m + n] = P[m] + R[n]
  <2>1. m \in 0..m /\ P[m] \in Int /\ m + n - m = n /\ m + n \in 0..(m + n)
    BY <1>6
  <2>2. CASE n = 0
    BY SMTT(60), <1>6, <2>1, <2>2
  <2>3. CASE n # 0
    BY SMTT(60), <1>6, <2>1, <2>3
  <2> QED BY <2>2, <2>3
<1>9. ASSUME NEW k \in 1..(m + n) PROVE Q[k] = Q[k - 1] + c[k]
  <2>1. CASE k <= m
    <3>1. P[k] = P[k - 1] + s[k]
      BY <1>3, <2>1 DEF Sums
    <3>2. Q[k] = P[k] /\ Q[k - 1] = P[k - 1]
      BY <2>1
    <3> QED BY SMTT(60), <1>5, <2>1, <3>1, <3>2
  <2>2. CASE ~(k <= m)
    <3>1. k - m \in 1..n /\ k \in (m + 1)..(m + n) /\ k - m - 1 \in 0..n /\ k - 1 - m = k - m - 1
      BY <2>2
    <3>2. R[k - m] = R[k - m - 1] + t[k - m]
      BY <1>4, <3>1 DEF Sums
    <3>3. Q[k] = P[m] + R[k - m]
      BY <2>2
    <3>4. Q[k - 1] = P[m] + R[k - m - 1]
      <4>1. CASE k - 1 = m
        <5>1. k - m - 1 = 0 /\ m \in 0..m /\ P[m] \in Int
          BY SMTT(60), <1>6, <4>1
        <5>2. Q[k - 1] = P[m]
          BY <4>1
        <5> QED BY SMTT(60), <1>6, <5>1, <5>2
      <4>2. CASE ~(k - 1 <= m)
        BY SMTT(60), <3>1, <4>2
      <4> QED BY SMTT(60), <2>2, <4>1, <4>2
    <3>5. P[m] \in Int /\ R[k - m - 1] \in Int /\ t[k - m] \in Int
      <4>1. m \in 0..m
        OBVIOUS
      <4> QED BY SMTT(60), <1>2, <1>6, <3>1, <4>1
    <3>6. c[k] = t[k - m]
      BY <1>5, <3>1
    <3> HIDE DEF Q
    <3> QED BY SMTT(60), <3>2, <3>3, <3>4, <3>5, <3>6
  <2> QED BY SMTT(60), <2>1, <2>2
<1>10. Sums(Q, c, m + n)
  <2> HIDE DEF Q
  <2> QED BY SMTT(60), <1>7, <1>8, <1>9 DEF Sums
<1> HIDE DEF Q
<1>11. m + n \in Nat /\ Total(c) = Q[m + n]
  <2>1. PICK l \in Nat : l = m + n
    OBVIOUS
  <2>2. Total(c) = Q[l]
    BY Zenon, <1>5, <1>10, <2>1, TotalIs
  <2> QED BY <2>1, <2>2
<1> QED BY <1>3, <1>4, <1>5, <1>8, <1>11

(* The sum after one element was changed. *)
LEMMA TotalUpdate ==
    ASSUME NEW s \in Seq(Int), NEW i \in 1..Len(s), NEW d \in Int
    PROVE  Total([s EXCEPT ![i] = @ + d]) = Total(s) + d
<1>1. PICK n \in Nat : n = Len(s) /\ s \in [1..n -> Int]
  OBVIOUS
<1>2. PICK t : t = [s EXCEPT ![i] = @ + d]
  BY Zenon
<1>3. t \in [1..n -> Int] /\ \A k \in 1..n : t[k] = IF k = i THEN s[k] + d ELSE s[k]
  BY <1>1, <1>2
<1>4. PICK P : Sums(P, s, n) /\ Total(s) = P[n]
  BY <1>1, TotalSums
<1> DEFINE Q == [k \in 0..n |-> IF k < i THEN P[k] ELSE P[k] + d]
<1>5. \A k \in 0..n : P[k] \in Int
  BY <1>4 DEF Sums
<1>6. Q \in [0..n -> Int]
  BY <1>1, <1>5
<1>7. Q[0] = 0 /\ Q[n] = P[n] + d
  BY <1>1, <1>4 DEF Sums
<1>8. ASSUME NEW k \in 1..n PROVE Q[k] = Q[k - 1] + t[k]
  <2>1. P[k] = P[k - 1] + s[k] /\ k - 1 \in 0..n /\ k \in 0..n
    BY <1>4 DEF Sums
  <2>2. P[k - 1] \in Int /\ s[k] \in Int /\ i \in Nat
    BY SMTT(60), <1>1, <1>5, <2>1
  <2>3. Q[k] = (IF k < i THEN P[k] ELSE P[k] + d)
        /\ Q[k - 1] = (IF k - 1 < i THEN P[k - 1] ELSE P[k - 1] + d)
    BY <2>1
  <2>4. t[k] = IF k = i THEN s[k] + d ELSE s[k]
    BY <1>3
  <2> HIDE DEF Q
  <2> QED BY SMTT(60), <2>1, <2>2, <2>3, <2>4
<1>9. Sums(Q, t, n)
  <2> HIDE DEF Q
  <2> QED BY SMTT(60), <1>6, <1>7, <1>8 DEF Sums
<1> HIDE DEF Q
<1>10. Total(t) = Q[n]
  BY SMTT(60), <1>3, <1>9, TotalIs
<1> QED BY <1>2, <1>4, <1>7, <1>10

-----------------------------------------------------------------------------
\* Flattening.

(* The sums of each of some sequences. *)
Totals(ss) == [k \in 1..Len(ss) |-> Total(ss[k])]

(* The recursion of FlattenSeq. *)
FlattenOf(ss) ==
    CHOOSE g : g = [i \in 1..Len(ss) |-> IF i = 1 THEN ss[i] ELSE g[i - 1] \o ss[i]]

(* A sequence of no elements is the empty one. *)
LEMMA NoElements ==
    ASSUME NEW S, NEW s \in Seq(S), Len(s) = 0
    PROVE  s = <<>>
<1>1. DOMAIN s = {} /\ DOMAIN <<>> = {}
  OBVIOUS
<1>2. s = [i \in DOMAIN s |-> s[i]] /\ <<>> = [i \in {} |-> s[i]]
  OBVIOUS
<1> QED BY <1>1, <1>2

(* FlattenSeq appends one sequence after the other. *)
LEMMA FlattenRule ==
    ASSUME NEW ss \in Seq(Seq(Int)), Len(ss) # 0
    PROVE  /\ FlattenSeq(ss) = FlattenOf(ss)[Len(ss)]
           /\ FlattenOf(ss)[1] = ss[1]
           /\ \A i \in 2..Len(ss) : FlattenOf(ss)[i] = FlattenOf(ss)[i - 1] \o ss[i]
<1>1. FlattenSeq(ss) = FlattenOf(ss)[Len(ss)]
  BY DEF FlattenSeq, FlattenOf
<1>2. PICK n \in Nat : n = Len(ss) /\ n # 0
  OBVIOUS
<1>3. PICK V : V = Seq(Int)
  OBVIOUS
<1> DEFINE step == [p \in (1..n) \X V |-> p[2] \o ss[p[1]]]
<1>4. \A k \in 1..n : ss[k] \in Seq(Int)
  BY <1>2
<1>5. \A k \in 1..n : \A v \in V : step[<<k, v>>] = v \o ss[k]
  BY Zenon
<1>6. step \in [(1..n) \X V -> V]
  <2> SUFFICES ASSUME NEW p \in (1..n) \X V PROVE p[2] \o ss[p[1]] \in V
    OBVIOUS
  <2>1. p[2] \in Seq(Int) /\ ss[p[1]] \in Seq(Int)
    BY <1>3, <1>4
  <2> QED BY <1>3, <2>1
<1>7. <<>> \in V
  BY <1>3
<1> HIDE DEF step
<1>8. PICK f \in [0..n -> V] : LoopRule(f, n, <<>>, step)
  BY Zenon, <1>6, <1>7, LoopExists
<1>9. \A i \in 1..n : f[i] = IF i = 1 THEN ss[i] ELSE f[i - 1] \o ss[i]
  <2> SUFFICES ASSUME NEW i \in 1..n
               PROVE  f[i] = IF i = 1 THEN ss[i] ELSE f[i - 1] \o ss[i]
    OBVIOUS
  <2>1. i - 1 \in 0..n
    OBVIOUS
  <2>2. f[i - 1] \in V /\ f[i] = step[<<i, f[i - 1]>>]
    BY <1>8, <2>1 DEF LoopRule
  <2>3. f[i] = f[i - 1] \o ss[i]
    BY Zenon, <1>5, <2>2
  <2>4. i = 1 => f[i - 1] = <<>>
    BY <1>8 DEF LoopRule
  <2>5. <<>> \o ss[i] = ss[i]
    BY <1>4
  <2> QED BY Zenon, <2>3, <2>4, <2>5
<1> DEFINE g == [i \in 1..n |-> f[i]]
<1>10. g = [i \in 1..Len(ss) |-> IF i = 1 THEN ss[i] ELSE g[i - 1] \o ss[i]]
  <2>1. ASSUME NEW i \in 1..n PROVE f[i] = IF i = 1 THEN ss[i] ELSE g[i - 1] \o ss[i]
    <3>1. CASE i = 1
      BY <1>9, <3>1
    <3>2. CASE i # 1
      <4>1. i - 1 \in 1..n
        BY <3>2
      <4>2. g[i - 1] = f[i - 1]
        BY <4>1
      <4> QED BY Zenon, <1>9, <3>2, <4>2
    <3> QED BY <3>1, <3>2
  <2> QED BY <1>2, <2>1
<1>11. FlattenOf(ss) = [i \in 1..Len(ss) |->
                           IF i = 1 THEN ss[i] ELSE FlattenOf(ss)[i - 1] \o ss[i]]
  <2> HIDE DEF g
  <2> QED BY Zenon, <1>10 DEF FlattenOf
<1>12. PICK H : H = FlattenOf(ss)
  OBVIOUS
<1>13. H = [i \in 1..n |-> IF i = 1 THEN ss[i] ELSE H[i - 1] \o ss[i]]
  BY Zenon, <1>2, <1>11, <1>12
<1>14. H[1] = ss[1] /\ \A i \in 2..n : H[i] = H[i - 1] \o ss[i]
  <2>1. \A i \in 1..n : H[i] = IF i = 1 THEN ss[i] ELSE H[i - 1] \o ss[i]
    BY Zenon, <1>13
  <2>2. 1 \in 1..n
    BY <1>2
  <2>3. H[1] = ss[1]
    BY <2>1, <2>2
  <2>4. ASSUME NEW i \in 2..n PROVE H[i] = H[i - 1] \o ss[i]
    <3>1. i \in 1..n /\ i # 1
      OBVIOUS
    <3> QED BY ZenonT(60), <2>1, <3>1
  <2> QED BY Zenon, <2>3, <2>4
<1> QED BY Zenon, <1>1, <1>2, <1>12, <1>14

(* Flattening loses and makes nothing: the sum is the sum of the sums, and *)
(* what holds of every element of the parts holds of every element. *)
LEMMA FlattenSum ==
    ASSUME NEW ss \in Seq(Seq(Int)), NEW low \in Int,
           \A k \in 1..Len(ss) : \A j \in 1..Len(ss[k]) : ss[k][j] > low
    PROVE  /\ FlattenSeq(ss) \in Seq(Int)
           /\ Total(FlattenSeq(ss)) = Total(Totals(ss))
           /\ \A j \in 1..Len(FlattenSeq(ss)) : FlattenSeq(ss)[j] > low
<1>1. PICK n \in Nat : n = Len(ss)
  OBVIOUS
<1>2. PICK t : t = Totals(ss)
  OBVIOUS
<1>3. \A k \in 1..n : ss[k] \in Seq(Int) /\ Total(ss[k]) \in Int
  BY <1>1, SeqFcn, TotalType
<1>4. t \in [1..n -> Int] /\ \A k \in 1..n : t[k] = Total(ss[k])
  BY SMTT(60), <1>1, <1>2, <1>3 DEF Totals
<1>5. CASE n = 0
  <2>1. PICK e : e = <<>>
    OBVIOUS
  <2>2. ss = e /\ e \in Seq(Int) /\ Len(e) = 0 /\ e \in [1..0 -> Int] /\ FlattenSeq(ss) = e
    <3>1. ss = e
      BY Zenon, <1>1, <1>5, <2>1, NoElements
    <3>2. e \in Seq(Int) /\ Len(e) = 0
      BY <2>1
    <3>3. FlattenSeq(ss) = ss
      BY <1>1, <1>5 DEF FlattenSeq
    <3> QED BY SMTT(60), <3>1, <3>2, <3>3, SeqFcn
  <2>3. Total(e) = 0 /\ Total(t) = 0
    BY ZenonT(60), <1>4, <1>5, <2>2, TotalType
  <2> QED BY SMTT(60), <1>2, <2>2, <2>3
<1>6. CASE n # 0
  <2>1. PICK P : Sums(P, t, n) /\ Total(t) = P[n]
    BY <1>4, TotalSums
  <2>2. PICK H : H = FlattenOf(ss)
    OBVIOUS
  <2>3. FlattenSeq(ss) = H[n] /\ H[1] = ss[1] /\ \A i \in 2..n : H[i] = H[i - 1] \o ss[i]
    BY Zenon, <1>1, <1>6, <2>2, FlattenRule
  <2> DEFINE Good(i) == /\ H[i] \in Seq(Int)
                        /\ Total(H[i]) = P[i]
                        /\ \A j \in 1..Len(H[i]) : H[i][j] > low
             Bad == {i \in 1..n : ~ Good(i)}
  <2>4. Bad = {}
    <3> SUFFICES ASSUME Bad # {} PROVE FALSE
      OBVIOUS
    <3>1. Bad \subseteq Nat
      OBVIOUS
    <3>2. PICK i \in Bad : \A m \in Bad : i <= m
      <4> HIDE DEF Bad
      <4> QED BY ZenonT(60), <3>1, LeastNatural
    <3>3. i \in 1..n /\ ~ Good(i)
      OBVIOUS
    <3>4. P[i] = P[i - 1] + Total(ss[i]) /\ P[0] = 0
      BY <1>4, <2>1, <3>3 DEF Sums
    <3>5. CASE i = 1
      <4>1. H[i] = ss[i] /\ ss[i] \in Seq(Int) /\ Total(ss[i]) \in Int
        BY SMTT(60), <1>3, <2>3, <3>3, <3>5
      <4>2. Total(H[i]) = P[i]
        BY SMTT(60), <3>4, <3>5, <4>1
      <4>3. \A j \in 1..Len(H[i]) : H[i][j] > low
        BY SMTT(60), <1>1, <3>3, <4>1
      <4> QED BY <3>3, <4>1, <4>2, <4>3
    <3>6. CASE i # 1
      <4>1. i - 1 \in 1..n /\ i - 1 \notin Bad /\ i \in 2..n
        <5>1. i - 1 \in 1..n /\ i \in 2..n /\ ~(i <= i - 1)
          BY SMTT(60), <3>3, <3>6
        <5> HIDE DEF Bad
        <5> QED BY SMTT(60), <3>2, <5>1
      <4>2. Good(i - 1)
        BY SMTT(60), <4>1
      <4>3. H[i] = H[i - 1] \o ss[i] /\ ss[i] \in Seq(Int)
        BY ZenonT(60), <1>3, <2>3, <3>3, <4>1
      <4>10. PICK a : a = H[i - 1]
        OBVIOUS
      <4>11. PICK b : b = ss[i]
        OBVIOUS
      <4>12. PICK c : c = H[i]
        OBVIOUS
      <4>13. a \in Seq(Int) /\ b \in Seq(Int) /\ c = a \o b
        BY SMTT(60), <4>2, <4>3, <4>10, <4>11, <4>12
      <4>4. /\ a \in Seq(Int) /\ b \in Seq(Int) /\ c \in Seq(Int)
            /\ a = H[i - 1] /\ b = ss[i] /\ c = H[i] /\ c = a \o b
        BY SMTT(60), <4>10, <4>11, <4>12, <4>13
      <4>5. Total(c) = Total(a) + Total(b)
        BY SMTT(60), <4>4, TotalConcat
      <4>6. Total(H[i]) = P[i]
        BY SMTT(60), <3>4, <4>2, <4>4, <4>5
      <4>7. (\A j \in 1..Len(a) : a[j] > low) /\ (\A j \in 1..Len(b) : b[j] > low)
        BY SMTT(60), <1>1, <3>3, <4>2, <4>4
      <4>8. \A j \in 1..Len(c) : c[j] > low
        <5> SUFFICES ASSUME NEW j \in 1..Len(c) PROVE c[j] > low
          BY SMTT(60)
        <5>1. CASE j <= Len(a)
          BY <4>4, <4>7, <5>1
        <5>2. CASE ~(j <= Len(a))
          <6>0. Len(c) = Len(a) + Len(b) /\ Len(a) \in Nat /\ Len(b) \in Nat
            BY SMTT(60), <4>4
          <6>1. j - Len(a) \in 1..Len(b)
            BY <5>2, <6>0
          <6>2. c[j] = b[j - Len(a)]
            BY SMTT(60), <4>4, <5>2, <6>0
          <6> QED BY SMTT(60), <4>7, <6>1, <6>2
        <5> QED BY SMTT(60), <5>1, <5>2
      <4>9. Good(i)
        BY Zenon, <4>4, <4>6, <4>8
      <4> QED BY SMTT(60), <3>3, <4>9
    <3> QED BY <3>5, <3>6
  <2>5. n \in 1..n
    BY <1>6
  <2>6. Good(n)
    BY <2>4, <2>5
  <2> QED BY <1>2, <2>1, <2>3, <2>6
<1> QED BY <1>5, <1>6

-----------------------------------------------------------------------------
\* SplitAmount.

(* A round of its loop, on every list of parts it may have so far. *)
Collecting(amount, maxparts, i, X) ==
    UNION {{WithPart(amount, parts, amt) :
                amt \in RandRange(MinOut, (amount - Total(parts)) \div (maxparts - (i - 1)))}
           : parts \in X}

(* The recursion of Collected. *)
RoundOf(amount, maxparts) ==
    CHOOSE g : g = [i \in 0..maxparts |->
        IF i = 0 THEN {<<>>} ELSE Collecting(amount, maxparts, i, g[i - 1])]

(* What GetRandRange returns is a number. *)
LEMMA RandRangeType == \A lo, hi : RandRange(lo, hi) \subseteq Int
BY DEF RandRange

(* A round makes lists of numbers out of lists of numbers. *)
LEMMA CollectingType ==
    ASSUME NEW amount, NEW maxparts, NEW i, NEW X, X \subseteq Seq(Int)
    PROVE  Collecting(amount, maxparts, i, X) \subseteq Seq(Int)
<1> SUFFICES ASSUME NEW p \in Collecting(amount, maxparts, i, X) PROVE p \in Seq(Int)
  OBVIOUS
<1>1. PICK parts \in X :
         \E amt \in RandRange(MinOut, (amount - Total(parts)) \div (maxparts - (i - 1))) :
             p = WithPart(amount, parts, amt)
  BY DEF Collecting
<1>2. PICK amt \in Int : p = WithPart(amount, parts, amt)
  BY <1>1, RandRangeType
<1>3. parts \in Seq(Int)
  OBVIOUS
<1> QED BY SMTT(60), <1>2, <1>3 DEF WithPart

(* Collected runs the loop. *)
LEMMA CollectedRule ==
    ASSUME NEW amount \in Int, NEW maxparts \in Nat
    PROVE  LET R == RoundOf(amount, maxparts)
           IN  /\ Collected(amount, maxparts) = R[maxparts]
               /\ R[0] = {<<>>}
               /\ \A i \in 1..maxparts : R[i] = Collecting(amount, maxparts, i, R[i - 1])
<1>1. Collected(amount, maxparts) = RoundOf(amount, maxparts)[maxparts]
  BY DEF Collected, RoundOf, Collecting
<1>2. PICK V : V = SUBSET Seq(Int)
  BY Zenon
<1> DEFINE n == maxparts
           step == [p \in (1..n) \X V |-> Collecting(amount, maxparts, p[1], p[2])]
<1>3. \A k \in 1..n : \A v \in V : step[<<k, v>>] = Collecting(amount, maxparts, k, v)
  OBVIOUS
<1>4. step \in [(1..n) \X V -> V]
  <2> SUFFICES ASSUME NEW p \in (1..n) \X V
               PROVE  Collecting(amount, maxparts, p[1], p[2]) \in V
    OBVIOUS
  <2>1. p[2] \subseteq Seq(Int)
    BY <1>2
  <2>2. Collecting(amount, maxparts, p[1], p[2]) \subseteq Seq(Int)
    BY <2>1, CollectingType
  <2> QED BY <1>2, <2>2
<1>5. {<<>>} \in V
  <2>1. <<>> \in Seq(Int)
    OBVIOUS
  <2> QED BY <1>2, <2>1
<1> HIDE DEF step
<1>6. PICK f \in [0..n -> V] : LoopRule(f, n, {<<>>}, step)
  BY Zenon, <1>4, <1>5, LoopExists
<1>7. \A i \in 0..n : f[i] = IF i = 0 THEN {<<>>} ELSE Collecting(amount, maxparts, i, f[i - 1])
  <2> SUFFICES ASSUME NEW i \in 1..n
               PROVE  f[i] = Collecting(amount, maxparts, i, f[i - 1])
    BY <1>6 DEF LoopRule
  <2>1. i - 1 \in 0..n
    OBVIOUS
  <2>2. f[i - 1] \in V /\ f[i] = step[<<i, f[i - 1]>>]
    BY <1>6, <2>1 DEF LoopRule
  <2> QED BY <1>3, <2>2
<1>8. f = [i \in 0..maxparts |->
              IF i = 0 THEN {<<>>} ELSE Collecting(amount, maxparts, i, f[i - 1])]
  BY <1>7
<1>9. PICK R : R = RoundOf(amount, maxparts)
  OBVIOUS
<1>10. R = [i \in 0..maxparts |->
               IF i = 0 THEN {<<>>} ELSE Collecting(amount, maxparts, i, R[i - 1])]
  BY Zenon, <1>8, <1>9 DEF RoundOf
<1>11. R[0] = {<<>>}
  BY <1>10
<1>12. ASSUME NEW i \in 1..maxparts PROVE R[i] = Collecting(amount, maxparts, i, R[i - 1])
  <2>1. i \in 0..maxparts /\ i # 0
    OBVIOUS
  <2> QED BY Zenon, <1>10, <2>1
<1> QED BY SMTT(60), <1>1, <1>9, <1>11, <1>12

(* A list of parts of amount: something is left, and no part is dust. *)
PartsOf(amount, parts) ==
    /\ parts \in Seq(Int)
    /\ Total(parts) < amount
    /\ \A j \in 1..Len(parts) : parts[j] > MinOut

(* The empty list has no elements and no sum. *)
LEMMA EmptySum == <<>> \in Seq(Int) /\ Len(<<>>) = 0 /\ Total(<<>>) = 0
<1>1. PICK e : e = <<>>
  OBVIOUS
<1>2. e \in Seq(Int) /\ Len(e) = 0
  BY <1>1
<1>3. e \in [1..0 -> Int]
  BY <1>2, SeqFcn
<1> QED BY Zenon, <1>1, <1>2, <1>3, TotalType

(* One more number above a bound at the end. *)
LEMMA AppendAbove ==
    ASSUME NEW s \in Seq(Int), NEW x \in Int, NEW low \in Int, x > low,
           \A j \in 1..Len(s) : s[j] > low
    PROVE  /\ Append(s, x) \in Seq(Int)
           /\ \A j \in 1..Len(Append(s, x)) : Append(s, x)[j] > low
           /\ Total(Append(s, x)) = Total(s) + x
           /\ Total(s) \in Int
<1>1. Append(s, x) \in Seq(Int) /\ Len(Append(s, x)) = Len(s) + 1
  OBVIOUS
<1>2. ASSUME NEW j \in 1..Len(Append(s, x)) PROVE Append(s, x)[j] > low
  <2>1. Append(s, x)[j] = IF j = Len(s) + 1 THEN x ELSE s[j]
    BY <1>1
  <2>2. j = Len(s) + 1 \/ j \in 1..Len(s)
    BY <1>1
  <2> QED BY <2>1, <2>2
<1>3. Total(s) \in Int
  BY SMTT(60), SeqFcn, TotalType
<1> QED BY Zenon, <1>1, <1>2, <1>3, TotalAppend

(* A round keeps lists of parts. *)
LEMMA WithPartSound ==
    ASSUME NEW amount \in Int, NEW parts, PartsOf(amount, parts), NEW amt \in Int
    PROVE  PartsOf(amount, WithPart(amount, parts, amt))
<1>1. CASE Total(parts) + amt < amount /\ amt > MinOut
  <2>1. MinOut \in Int
    BY AmountsAssumption
  <2>2. /\ Append(parts, amt) \in Seq(Int)
        /\ \A j \in 1..Len(Append(parts, amt)) : Append(parts, amt)[j] > MinOut
        /\ Total(Append(parts, amt)) = Total(parts) + amt
    BY SMTT(60), <1>1, <2>1, AppendAbove DEF PartsOf
  <2>3. PartsOf(amount, Append(parts, amt))
    BY <1>1, <2>2 DEF PartsOf
  <2> QED BY SMTT(60), <1>1, <2>3 DEF WithPart
<1>2. CASE ~(Total(parts) + amt < amount /\ amt > MinOut)
  BY <1>2 DEF WithPart
<1> QED BY <1>1, <1>2

(* So the loop ends with one. *)
LEMMA CollectedSound ==
    ASSUME NEW amount \in Int, amount > 0, NEW maxparts \in Nat,
           NEW parts \in Collected(amount, maxparts)
    PROVE  PartsOf(amount, parts)
<1>1. PICK R : R = RoundOf(amount, maxparts)
  OBVIOUS
<1>2. /\ Collected(amount, maxparts) = R[maxparts]
      /\ R[0] = {<<>>}
      /\ \A i \in 1..maxparts : R[i] = Collecting(amount, maxparts, i, R[i - 1])
  BY SMTT(60), <1>1, CollectedRule
<1> DEFINE Bad == {i \in 0..maxparts : ~ \A p \in R[i] : PartsOf(amount, p)}
<1>3. Bad = {}
  <2> SUFFICES ASSUME Bad # {} PROVE FALSE
    OBVIOUS
  <2>1. Bad \subseteq Nat
    OBVIOUS
  <2>2. PICK i \in Bad : \A m \in Bad : i <= m
    <3> HIDE DEF Bad
    <3> QED BY Zenon, <2>1, LeastNatural
  <2>3. PICK p \in R[i] : i \in 0..maxparts /\ ~ PartsOf(amount, p)
    OBVIOUS
  <2>4. i # 0
    <3>1. PICK e : e = <<>>
      OBVIOUS
    <3>2. e \in Seq(Int) /\ Len(e) = 0 /\ Total(e) = 0
      BY SMTT(60), <3>1, EmptySum
    <3>3. PartsOf(amount, e)
      BY <3>2 DEF PartsOf
    <3> QED BY <1>2, <2>3, <3>1, <3>3
  <2>5. i \in 1..maxparts /\ i - 1 \in 0..maxparts /\ ~(i <= i - 1)
    BY SMTT(60), <2>3, <2>4
  <2>6. i - 1 \notin Bad
    <3> HIDE DEF Bad
    <3> QED BY SMTT(60), <2>2, <2>5
  <2>7. \A q \in R[i - 1] : PartsOf(amount, q)
    BY SMTT(60), <2>5, <2>6
  <2>8. PICK q \in R[i - 1] :
           \E amt \in RandRange(MinOut, (amount - Total(q)) \div (maxparts - (i - 1))) :
               p = WithPart(amount, q, amt)
    <3>1. p \in Collecting(amount, maxparts, i, R[i - 1])
      BY SMTT(60), <1>2, <2>3, <2>5
    <3> QED BY <3>1 DEF Collecting
  <2>9. PICK amt \in Int : p = WithPart(amount, q, amt)
    BY SMTT(60), <2>8, RandRangeType
  <2>10. PartsOf(amount, p)
    BY SMTT(60), <2>7, <2>9, WithPartSound
  <2> QED BY SMTT(60), <2>3, <2>10
<1>4. maxparts \in 0..maxparts
  OBVIOUS
<1> QED BY SMTT(60), <1>2, <1>3, <1>4

(* A split adds up to the amount, and has no dust unless it is the whole. *)
SplitOf(amount, r) ==
    /\ r \in Seq(Int) /\ Total(r) = amount
    /\ r = <<amount>> \/ \A j \in 1..Len(r) : r[j] > MinOut

(* Handling what is left completes the split. *)
LEMMA WithDustSound ==
    ASSUME NEW amount \in Int, amount > MinOut, NEW maxparts \in Nat \ {0},
           NEW parts, PartsOf(amount, parts)
    PROVE  SplitOf(amount, WithDust(amount, maxparts, parts))
<1>1. parts \in Seq(Int) /\ Total(parts) \in Int /\ MinOut \in Nat /\ Len(parts) \in Nat
  BY SMTT(60), AmountsAssumption, SeqFcn, TotalType DEF PartsOf
<1>2. PICK remain \in Int : remain = amount - Total(parts) /\ remain > 0
  BY <1>1 DEF PartsOf
<1>3. CASE Len(parts) = maxparts \/ remain <= MinOut
  <2>1. Len(parts) # 0
    <3> SUFFICES ASSUME Len(parts) = 0 PROVE FALSE
      OBVIOUS
    <3>1. Total(parts) = 0
      BY SMTT(60), <1>1, NoElements, EmptySum
    <3> QED BY SMTT(60), <1>1, <1>2, <1>3, <3>1
  <2>2. 1 \in 1..Len(parts)
    BY <1>1, <2>1
  <2>3. PICK r : r = [parts EXCEPT ![1] = @ + remain]
    BY Zenon
  <2>4. r \in Seq(Int) /\ Len(r) = Len(parts)
    BY <1>1, <2>2, <2>3
  <2>5. Total(r) = amount
    <3>1. Total(r) = Total(parts) + remain
      BY ZenonT(60), <1>1, <2>2, <2>3, TotalUpdate
    <3> QED BY <1>1, <1>2, <3>1
  <2>6. ASSUME NEW j \in 1..Len(r) PROVE r[j] > MinOut
    <3>1. parts[j] > MinOut /\ parts[j] \in Int
      BY SMTT(60), <1>1, <2>4 DEF PartsOf
    <3>2. r[j] = IF j = 1 THEN parts[j] + remain ELSE parts[j]
      BY SMTT(60), <1>1, <2>3, <2>4
    <3> QED BY <1>1, <1>2, <3>1, <3>2
  <2>7. WithDust(amount, maxparts, parts) = r
    BY SMTT(60), <1>2, <1>3, <2>3 DEF WithDust
  <2> QED BY SMTT(60), <2>4, <2>5, <2>6, <2>7 DEF SplitOf
<1>4. CASE ~(Len(parts) = maxparts \/ remain <= MinOut)
  <2>1. PICK r : r = Append(parts, remain)
    BY ZenonT(60)
  <2>2. remain > MinOut
    BY <1>1, <1>2, <1>4
  <2>3. r \in Seq(Int) /\ Total(r) = Total(parts) + remain /\ \A j \in 1..Len(r) : r[j] > MinOut
    BY <1>1, <1>2, <2>1, <2>2, AppendAbove DEF PartsOf
  <2>4. WithDust(amount, maxparts, parts) = r
    BY SMTT(60), <1>2, <1>4, <2>1 DEF WithDust
  <2> QED BY SMTT(60), <1>1, <1>2, <2>3, <2>4 DEF SplitOf
<1> QED BY SMTT(60), <1>3, <1>4

(* SplitAmount splits, and into no dust when there is more than dust to split. *)
LEMMA SplitSound ==
    ASSUME NEW amount \in Int, NEW maxparts \in 2..4, NEW r \in SplitAmount(amount, maxparts)
    PROVE  SplitOf(amount, r)
<1>1. CASE amount \div maxparts <= MinOut
  <2>1. r = <<amount>>
    BY <1>1 DEF SplitAmount
  <2> QED BY SMTT(60), <2>1, TotalSingle DEF SplitOf
<1>2. CASE ~(amount \div maxparts <= MinOut)
  <2>1. MinOut \in Nat
    BY AmountsAssumption
  <2>2. amount > MinOut /\ amount > 0
    <3>1. CASE maxparts = 2
      BY SMTT(60), <1>2, <2>1, <3>1
    <3>2. CASE maxparts = 3
      BY SMTT(60), <1>2, <2>1, <3>2
    <3>3. CASE maxparts = 4
      BY SMTT(60), <1>2, <2>1, <3>3
    <3> QED BY SMTT(60), <3>1, <3>2, <3>3
  <2>3. PICK parts \in Collected(amount, maxparts) : r = WithDust(amount, maxparts, parts)
    BY <1>2 DEF SplitAmount
  <2>4. maxparts \in Nat \ {0}
    OBVIOUS
  <2>5. PartsOf(amount, parts)
    BY SMTT(60), <2>2, <2>4, CollectedSound
  <2> QED BY SMTT(60), <2>2, <2>3, <2>4, <2>5, WithDustSound
<1> QED BY SMTT(60), <1>1, <1>2

-----------------------------------------------------------------------------
\* The shares of the reward.

(* Sums of numbers that are not negative grow. *)
LEMMA SumsGrow ==
    ASSUME NEW n \in Nat, NEW s \in [1..n -> Nat], NEW P, Sums(P, s, n)
    PROVE  \A k \in 0..n : P[k] >= 0
<1> DEFINE Bad == {k \in 0..n : ~(P[k] >= 0)}
<1> SUFFICES ASSUME Bad # {} PROVE FALSE
  OBVIOUS
<1>1. PICK k \in Bad : \A m \in Bad : k <= m
  <2>1. Bad \subseteq Nat
    OBVIOUS
  <2> HIDE DEF Bad
  <2> QED BY Zenon, <2>1, LeastNatural
<1>2. k \in 1..n
  BY DEF Sums
<1>3. k - 1 \in 0..n /\ k - 1 \notin Bad
  <2>1. k - 1 \in 0..n /\ ~(k <= k - 1)
    BY <1>2
  <2> HIDE DEF Bad
  <2> QED BY <1>1, <2>1
<1>4. P[k - 1] >= 0 /\ P[k - 1] \in Int /\ P[k] = P[k - 1] + s[k] /\ s[k] \in Nat
  BY SMTT(60), <1>2, <1>3 DEF Sums
<1>5. ~(P[k] >= 0)
  OBVIOUS
<1> QED BY SMTT(60), <1>4, <1>5

(* Arithmetic of products and quotients. *)
LEMMA Products ==
    /\ \A a, b, c \in Int : (a + b) * c = a * c + b * c
    /\ \A a, b, c \in Int : c * (a + b) = c * a + c * b
    /\ \A a, b \in Nat : a * b \in Nat
OBVIOUS

(* Rounding down gives no more than the quotient. *)
LEMMA Quotient ==
    ASSUME NEW x \in Nat, NEW d \in Nat \ {0}
    PROVE  x \div d \in Nat /\ (x \div d) * d <= x
OBVIOUS

(* A common factor. *)
LEMMA Cancel ==
    ASSUME NEW a \in Nat, NEW b \in Nat, NEW d \in Nat \ {0}, a * d <= b * d
    PROVE  a <= b
OBVIOUS

(* The shares are amounts and add up to the reward, whatever the rounding. *)
LEMMA SharesSound ==
    ASSUME NEW reward \in Nat, NEW w \in [1..Cloakers -> Weights]
    PROVE  /\ Shares(reward, w) \in [1..Cloakers -> Nat]
           /\ Total(Shares(reward, w)) = reward
<1>1. PICK n \in Nat : Cloakers = n + 1
  BY AmountsAssumption
<1>2. w \in [1..(n + 1) -> Nat] /\ (\A k \in 1..(n + 1) : w[k] > 0) /\ w \in [1..(n + 1) -> Int]
  BY SMTT(60), <1>1, AmountsAssumption
<1>3. PICK W : Sums(W, w, n + 1) /\ Total(w) = W[n + 1]
  BY SMTT(60), <1>2, TotalSums
<1>4. \A k \in 0..(n + 1) : W[k] \in Nat
  <2>0. PICK m \in Nat : m = n + 1
    OBVIOUS
  <2>1. \A k \in 0..m : W[k] >= 0 /\ W[k] \in Int
    <3>1. w \in [1..m -> Nat] /\ Sums(W, w, m)
      BY SMTT(60), <1>2, <1>3, <2>0
    <3>2. \A k \in 0..m : W[k] >= 0
      BY SMTT(60), <3>1, SumsGrow
    <3> QED BY SMTT(60), <3>1, <3>2 DEF Sums
  <2> QED BY SMTT(60), <2>0, <2>1
<1>5. PICK d : d = Total(w)
  OBVIOUS
<1>6. d \in Nat \ {0} /\ W[n] \in Nat /\ W[n] <= d
  <2>1. n + 1 \in 1..(n + 1) /\ n + 1 - 1 = n /\ n \in 0..(n + 1)
    OBVIOUS
  <2>2. W[n + 1] = W[n] + w[n + 1]
    BY SMTT(60), <1>3, <2>1 DEF Sums
  <2>3. W[n] \in Nat /\ w[n + 1] \in Nat /\ w[n + 1] > 0
    BY Zenon, <1>2, <1>4, <2>1
  <2> QED BY SMTT(60), <1>3, <1>5, <2>2, <2>3
<1> DEFINE share == [k \in 1..n |-> (reward * w[k]) \div d]
<1>7. \A k \in 1..n : share[k] \in Nat /\ share[k] * d <= reward * w[k] /\ reward * w[k] \in Nat
  <2> SUFFICES ASSUME NEW k \in 1..n
               PROVE  share[k] \in Nat /\ share[k] * d <= reward * w[k] /\ reward * w[k] \in Nat
    OBVIOUS
  <2>1. w[k] \in Nat
    <3>1. k \in 1..(n + 1)
      OBVIOUS
    <3> QED BY ZenonT(60), <1>2, <3>1
  <2>2. PICK x \in Nat : x = reward * w[k]
    BY <2>1, Products
  <2>3. x \div d \in Nat /\ (x \div d) * d <= x
    BY <1>6, Quotient
  <2>4. share[k] = x \div d
    BY SMTT(60), <2>2
  <2> HIDE DEF share
  <2> QED BY <2>2, <2>3, <2>4
<1>8. share \in [1..n -> Nat] /\ share \in [1..n -> Int]
  <2>1. share \in [1..n -> Nat]
    BY SMTT(60), <1>7
  <2> QED BY SMTT(60), <2>1
<1>9. Shares(reward, w) = [k \in 1..(n + 1) |-> IF k = n + 1 THEN reward - Total(share)
                                                ELSE (reward * w[k]) \div d]
  <2>1. n + 1 - 1 = n
    OBVIOUS
  <2> QED BY SMTT(60), <1>1, <1>5, <2>1 DEF Shares
<1>10. \A k \in 1..n : share[k] = (reward * w[k]) \div d
  OBVIOUS
<1> HIDE DEF share
<1>11. PICK B : Sums(B, share, n) /\ Total(share) = B[n]
  BY SMTT(60), <1>8, TotalSums
<1>12. \A k \in 0..n : B[k] \in Nat
  <2>1. \A k \in 0..n : B[k] >= 0 /\ B[k] \in Int
    BY Zenon, <1>8, <1>11, SumsGrow DEF Sums
  <2> QED BY SMTT(60), <2>1
<1> DEFINE Bad == {k \in 0..n : ~(B[k] * d <= reward * W[k])}
<1>13. Bad = {}
  <2> SUFFICES ASSUME Bad # {} PROVE FALSE
    OBVIOUS
  <2>1. PICK k \in Bad : \A m \in Bad : k <= m
    <3>1. Bad \subseteq Nat
      OBVIOUS
    <3> HIDE DEF Bad
    <3> QED BY ZenonT(60), <3>1, LeastNatural
  <2>2. k \in 0..n /\ ~(B[k] * d <= reward * W[k])
    OBVIOUS
  <2>3. k # 0
    <3>1. B[0] = 0 /\ W[0] = 0
      BY SMTT(60), <1>3, <1>11 DEF Sums
    <3>2. 0 * d = 0 /\ reward * 0 = 0
      BY <1>6
    <3> QED BY <2>2, <3>1, <3>2
  <2>4. k \in 1..n /\ k \in 1..(n + 1) /\ k - 1 \in 0..n /\ k - 1 \in 0..(n + 1) /\ ~(k <= k - 1)
    BY SMTT(60), <2>2, <2>3
  <2>5. k - 1 \notin Bad
    <3> HIDE DEF Bad
    <3> QED BY SMTT(60), <2>1, <2>4
  <2>6. B[k - 1] * d <= reward * W[k - 1]
    BY SMTT(60), <2>4, <2>5
  <2>7. B[k] = B[k - 1] + share[k] /\ W[k] = W[k - 1] + w[k]
    BY SMTT(60), <1>3, <1>11, <2>4 DEF Sums
  <2>8. B[k - 1] \in Nat /\ share[k] \in Nat /\ W[k - 1] \in Nat /\ w[k] \in Nat
    BY ZenonT(60), <1>2, <1>4, <1>8, <1>12, <2>4
  <2>9. B[k] * d = B[k - 1] * d + share[k] * d
        /\ reward * W[k] = reward * W[k - 1] + reward * w[k]
    <3>1. /\ B[k - 1] \in Int /\ share[k] \in Int /\ W[k - 1] \in Int /\ w[k] \in Int
          /\ d \in Int /\ reward \in Int
      BY SMTT(60), <1>6, <2>8
    <3>2. (B[k - 1] + share[k]) * d = B[k - 1] * d + share[k] * d
      BY SMTT(60), <3>1, Products
    <3>3. reward * (W[k - 1] + w[k]) = reward * W[k - 1] + reward * w[k]
      BY SMTT(60), <3>1, Products
    <3> QED BY <2>7, <3>2, <3>3
  <2>10. share[k] * d <= reward * w[k]
    BY SMTT(60), <1>7, <2>4
  <2>11. PICK a \in Nat, b \in Nat, e \in Nat, f \in Nat :
            /\ a = B[k - 1] * d /\ b = share[k] * d
            /\ e = reward * W[k - 1] /\ f = reward * w[k]
    BY ZenonT(60), <1>6, <2>8, Products
  <2>12. a + b <= e + f
    <3>1. a <= e /\ b <= f
      BY <2>6, <2>10, <2>11
    <3> QED BY <3>1
  <2> QED BY <2>2, <2>9, <2>11, <2>12
<1>14. Total(share) \in Nat /\ Total(share) <= reward
  <2>1. n \in 0..n /\ B[n] \in Nat
    BY SMTT(60), <1>12
  <2>2. B[n] * d <= reward * W[n]
    BY SMTT(60), <1>13, <2>1
  <2>3. reward * W[n] <= reward * d
    <3>0. d - W[n] \in Nat /\ d = W[n] + (d - W[n])
      BY <1>6
    <3>1. PICK m \in Nat : d = W[n] + m
      BY <3>0
    <3>2. reward * d = reward * W[n] + reward * m
      BY SMTT(60), <1>6, <3>1, Products
    <3>3. PICK a \in Nat, b \in Nat : a = reward * W[n] /\ b = reward * m
      BY SMTT(60), <1>6, Products
    <3> QED BY SMTT(60), <3>2, <3>3
  <2>4. PICK a \in Nat, b \in Nat, e \in Nat : a = B[n] * d /\ b = reward * W[n] /\ e = reward * d
    BY SMTT(60), <1>6, <2>1, Products
  <2>5. B[n] * d <= reward * d
    BY SMTT(60), <2>2, <2>3, <2>4
  <2>6. B[n] <= reward
    BY SMTT(60), <1>6, <2>1, <2>5, Cancel
  <2> QED BY SMTT(60), <1>11, <2>1, <2>6
<1>15. PICK s : s = Shares(reward, w)
  OBVIOUS
<1>16. s[n + 1] = reward - Total(share) /\ \A k \in 1..n : s[k] = share[k]
  <2>1. n + 1 \in 1..(n + 1) /\ \A k \in 1..n : k \in 1..(n + 1) /\ k # n + 1
    OBVIOUS
  <2> QED BY SMTT(60), <1>9, <1>10, <1>15, <2>1
<1>17. s \in [1..(n + 1) -> Nat]
  <2>1. \A k \in 1..(n + 1) : s[k] \in Nat
    <3> SUFFICES ASSUME NEW k \in 1..(n + 1) PROVE s[k] \in Nat
      OBVIOUS
    <3>1. k = n + 1 \/ k \in 1..n
      OBVIOUS
    <3>2. reward - Total(share) \in Nat
      BY <1>14
    <3> QED BY SMTT(60), <1>8, <1>16, <3>1, <3>2
  <2>2. s = [k \in 1..(n + 1) |-> s[k]]
    BY SMTT(60), <1>9, <1>15
  <2> QED BY SMTT(60), <2>1, <2>2
<1>18. s \in [1..(n + 1) -> Int]
  BY <1>17
<1>19. Total(s) = Total(share) + s[n + 1]
  BY ZenonT(60), <1>8, <1>16, <1>18, TotalLonger
<1> QED BY SMTT(60), <1>1, <1>14, <1>15, <1>16, <1>17, <1>19

-----------------------------------------------------------------------------
\* The steps.

(* What the sender and the cloakers put in. *)
InputsSound ==
    /\ send \in Sends /\ mine \in Nat /\ fee \in Nat
    /\ inputs \in [1..Cloakers -> Nat]
    /\ \A k \in 1..Cloakers : inputs[k] >= send + MinOut

(* The outputs of the cloakers made so far. *)
PaidSound ==
    /\ paid \in Seq(Seq(Int)) /\ Len(paid) <= Cloakers
    /\ \A k \in 1..Len(paid) :
           /\ Total(paid[k]) = inputs[k] + rewards[k]
           /\ \A j \in 1..Len(paid[k]) : paid[k][j] > MinOut

(* The inductive invariant: the shares make up the reward, what is paid out *)
(* makes up the inputs and the shares, and the change makes up the rest. *)
AmountsInv ==
    /\ InputsSound
    /\ phase \in {"asked", "cloakers", "change", "signing", "failed"}
    /\ phase = "asked" => paid = <<>>
    /\ phase # "asked" =>
           /\ rewards \in [1..Cloakers -> Nat] /\ Total(rewards) = RewardOf[send]
           /\ PaidSound
    /\ phase \in {"change", "signing"} => Len(paid) = Cloakers
    /\ phase = "change" => SplitOf(AmountRemain, change)
    /\ phase = "signing" =>
           /\ change \in Seq(Int) /\ Total(change) = AmountRemain - fee
           /\ \A j \in 1..Len(change) : change[j] > MinOut

(* The rest is a number: it may be negative when the inputs do not suffice. *)
LEMMA RemainType ==
    ASSUME InputsSound, PaidSound, Len(paid) = Cloakers
    PROVE  /\ AmountRemain \in Int
           /\ AmountRemain = (mine + Total(inputs)) - (send + Total(Totals(paid))) - MinOut
           /\ Total(inputs) \in Int /\ Total(Totals(paid)) \in Int
           /\ send \in Nat /\ MinOut \in Nat
<1>1. Cloakers \in Nat /\ MinOut \in Nat /\ send \in Nat
  BY AmountsAssumption DEF InputsSound
<1>2. inputs \in [1..Cloakers -> Int]
  BY DEF InputsSound
<1>3. Total(inputs) \in Int
  BY SMTT(60), <1>1, <1>2, TotalType
<1>4. \A k \in 1..Cloakers : Total(paid[k]) \in Int
  <2> SUFFICES ASSUME NEW k \in 1..Cloakers PROVE Total(paid[k]) \in Int
    OBVIOUS
  <2>1. paid[k] \in Seq(Int)
    BY DEF PaidSound
  <2> QED BY SMTT(60), <2>1, SeqFcn, TotalType
<1>5. PICK t : t = Totals(paid)
  OBVIOUS
<1>6. t \in [1..Cloakers -> Int]
  BY <1>4, <1>5 DEF Totals
<1>7. Total(t) \in Int
  BY SMTT(60), <1>1, <1>6, TotalType
<1>8. t = [k \in 1..Cloakers |-> Total(paid[k])]
  BY <1>5 DEF Totals
<1>9. AmountRemain = (mine + Total(inputs)) - (send + Total(t)) - MinOut
  BY <1>8 DEF AmountRemain
<1>10. mine \in Nat
  BY DEF InputsSound
<1> QED BY <1>1, <1>3, <1>5, <1>7, <1>9, <1>10

(* Sharing out the reward. *)
LEMMA ShareStep ==
    ASSUME AmountsInv, CreateCloakerTxOutputs
    PROVE  AmountsInv'
<1>1. /\ phase = "asked" /\ phase' = "cloakers" /\ paid' = paid /\ paid = <<>>
      /\ send' = send /\ mine' = mine /\ inputs' = inputs /\ fee' = fee
  BY DEF CreateCloakerTxOutputs, AmountsInv
<1>2. InputsSound'
  BY <1>1 DEF AmountsInv, InputsSound
<1>3. RewardOf[send] \in Nat
  BY AmountsAssumption DEF AmountsInv, InputsSound
<1>4. rewards' \in [1..Cloakers -> Nat] /\ Total(rewards') = RewardOf[send]
  <2>1. PICK w \in [1..Cloakers -> Weights] : rewards' = Shares(RewardOf[send], w)
    BY DEF CreateCloakerTxOutputs
  <2> QED BY SMTT(60), <1>3, <2>1, SharesSound
<1>5. PaidSound'
  <2>1. <<>> \in Seq(Seq(Int)) /\ Len(<<>>) = 0 /\ Cloakers \in Nat
    BY AmountsAssumption
  <2>2. paid' \in Seq(Seq(Int)) /\ Len(paid') = 0
    BY SMTT(60), <1>1, <2>1
  <2> QED BY SMTT(60), <2>1, <2>2 DEF PaidSound
<1> QED BY SMTT(60), <1>1, <1>2, <1>4, <1>5 DEF AmountsInv

(* Paying a cloaker. *)
LEMMA PayStep ==
    ASSUME AmountsInv, PayCloaker
    PROVE  AmountsInv'
<1>1. /\ phase = "cloakers" /\ phase' = phase /\ rewards' = rewards /\ Len(paid) < Cloakers
      /\ send' = send /\ mine' = mine /\ inputs' = inputs /\ fee' = fee
  BY DEF PayCloaker
<1>2. InputsSound /\ InputsSound' /\ PaidSound /\ rewards \in [1..Cloakers -> Nat]
      /\ Total(rewards) = RewardOf[send]
  BY SMTT(60), <1>1 DEF AmountsInv, InputsSound
<1>3. PICK n \in Nat : n = Len(paid)
  BY SMTT(60), <1>2 DEF PaidSound
<1>4. n + 1 \in 1..Cloakers /\ Cloakers \in Nat /\ MinOut \in Nat /\ send \in Nat \ {0}
  BY SMTT(60), <1>1, <1>2, <1>3, AmountsAssumption DEF InputsSound
<1>5. PICK amount \in Nat : amount = inputs[n + 1] + rewards[n + 1]
  BY SMTT(60), <1>2, <1>4 DEF InputsSound
<1>6. amount > MinOut
  <2>1. inputs[n + 1] \in Nat /\ rewards[n + 1] \in Nat /\ inputs[n + 1] >= send + MinOut
    BY SMTT(60), <1>2, <1>4 DEF InputsSound
  <2> QED BY SMTT(60), <1>4, <1>5, <2>1
<1>7. PICK r \in Splits(amount, 2..4) : paid' = Append(paid, r)
  BY SMTT(60), <1>3, <1>5 DEF PayCloaker
<1>8. SplitOf(amount, r)
  <2>1. PICK m \in 2..4 : r \in SplitAmount(amount, m)
    BY SMTT(60), <1>7 DEF Splits
  <2> QED BY SMTT(60), <2>1, SplitSound
<1>9. r \in Seq(Int) /\ Total(r) = amount /\ \A j \in 1..Len(r) : r[j] > MinOut
  <2>1. ASSUME r = <<amount>>, NEW j \in 1..Len(r) PROVE r[j] > MinOut
    <3>1. j = 1 /\ r[1] = amount
      BY SMTT(60), <2>1
    <3> QED BY SMTT(60), <1>6, <3>1
  <2> QED BY SMTT(60), <1>8, <2>1 DEF SplitOf
<1>10. /\ paid' \in Seq(Seq(Int)) /\ Len(paid') = n + 1
       /\ paid'[n + 1] = r /\ \A k \in 1..n : paid'[k] = paid[k]
  <2>1. PICK p : p = paid
    BY SMTT(60)
  <2>2. p \in Seq(Seq(Int)) /\ Len(p) = n
    BY SMTT(60), <1>2, <1>3, <2>1 DEF PaidSound
  <2>3. PICK q : q = Append(p, r)
    BY ZenonT(60)
  <2>4. q \in Seq(Seq(Int)) /\ Len(q) = n + 1
    BY <1>9, <2>2, <2>3
  <2>5. q[n + 1] = r /\ \A k \in 1..n : q[k] = p[k]
    BY <1>9, <2>2, <2>3
  <2> QED BY SMTT(60), <1>7, <2>1, <2>3, <2>4, <2>5
<1>11. PaidSound'
  <2>1. ASSUME NEW k \in 1..Len(paid')
        PROVE  /\ Total(paid'[k]) = inputs'[k] + rewards'[k]
               /\ \A j \in 1..Len(paid'[k]) : paid'[k][j] > MinOut
    <3>1. CASE k = n + 1
      BY SMTT(60), <1>1, <1>5, <1>9, <1>10, <3>1
    <3>2. CASE k \in 1..n
      BY SMTT(60), <1>1, <1>2, <1>3, <1>10, <3>2 DEF PaidSound
    <3> QED BY SMTT(60), <1>10, <3>1, <3>2
  <2>2. Len(paid') <= Cloakers
    BY SMTT(60), <1>4, <1>10
  <2> QED BY SMTT(60), <1>10, <2>1, <2>2 DEF PaidSound
<1> QED BY SMTT(60), <1>1, <1>2, <1>11 DEF AmountsInv

(* Making the change. *)
LEMMA ChangeStep ==
    ASSUME AmountsInv, CreateEnigmaOutputs
    PROVE  AmountsInv'
<1>1. /\ phase = "cloakers" /\ phase' = "change" /\ rewards' = rewards /\ paid' = paid
      /\ send' = send /\ mine' = mine /\ inputs' = inputs /\ fee' = fee /\ Len(paid) = Cloakers
      /\ change' \in Splits(AmountRemain, 2..3)
  BY DEF CreateEnigmaOutputs
<1>2. InputsSound /\ InputsSound' /\ PaidSound /\ PaidSound'
  BY SMTT(60), <1>1 DEF AmountsInv, InputsSound, PaidSound
<1>3. AmountRemain' = AmountRemain
  BY <1>1 DEF AmountRemain
<1>4. AmountRemain \in Int
  BY SMTT(60), <1>1, <1>2, RemainType
<1>5. SplitOf(AmountRemain, change')
  <2>1. PICK m \in 2..4 : change' \in SplitAmount(AmountRemain, m)
    BY <1>1 DEF Splits
  <2> QED BY SMTT(60), <1>4, <2>1, SplitSound
<1>6. SplitOf(AmountRemain', change')
  BY SMTT(60), <1>3, <1>5
<1>7. SplitOf(AmountRemain, change)'
  BY SMTT(60), <1>6 DEF SplitOf
<1> QED BY SMTT(60), <1>1, <1>2, <1>7 DEF AmountsInv

(* Taking the fee from the change. *)
LEMMA FeeStep ==
    ASSUME AmountsInv, AddCorrectFee
    PROVE  AmountsInv'
<1>1. /\ phase = "change" /\ rewards' = rewards /\ paid' = paid
      /\ send' = send /\ mine' = mine /\ inputs' = inputs
  BY DEF AddCorrectFee
<1>2. /\ InputsSound /\ PaidSound /\ PaidSound' /\ Len(paid) = Cloakers
      /\ SplitOf(AmountRemain, change)
      /\ rewards \in [1..Cloakers -> Nat] /\ Total(rewards) = RewardOf[send]
  BY SMTT(60), <1>1 DEF AmountsInv, PaidSound
<1>3. AmountRemain' = AmountRemain /\ AmountRemain \in Int /\ MinOut \in Nat
  BY SMTT(60), <1>1, <1>2, RemainType DEF AmountRemain
<1>4. PICK f \in Fees :
         LET able == {i \in DOMAIN change : PaysFee(change[i], f)} IN
         /\ fee' = f
         /\ IF able = {} THEN phase' = "failed" /\ UNCHANGED change
            ELSE /\ phase' = "signing"
                 /\ change' = [change EXCEPT ![Min(able)] = @ - f]
  BY Zenon DEF AddCorrectFee
<1>5. f \in Nat /\ fee' = f
  BY <1>4, AmountsAssumption
<1>6. InputsSound'
  BY <1>1, <1>2, <1>5 DEF InputsSound
<1> DEFINE able == {i \in DOMAIN change : PaysFee(change[i], f)}
<1>7. CASE able = {}
  <2>1. phase' = "failed"
    BY SMTT(60), <1>4, <1>7
  <2> QED BY SMTT(60), <1>1, <1>2, <1>6, <2>1 DEF AmountsInv
<1>8. CASE able # {}
  <2>1. phase' = "signing" /\ change' = [change EXCEPT ![Min(able)] = @ - f]
    BY SMTT(60), <1>4, <1>8
  <2>2. change \in Seq(Int) /\ Total(change) = AmountRemain
    BY <1>2 DEF SplitOf
  <2>3. Min(able) \in able
    <3>1. able \subseteq Nat
      BY <2>2
    <3>2. PICK m \in able : \A l \in able : m <= l
      <4> HIDE DEF able
      <4> QED BY Zenon, <1>8, <3>1, LeastNatural
    <3> QED BY <3>2 DEF Min
  <2>4. PICK i : i = Min(able)
    OBVIOUS
  <2>5. i \in 1..Len(change) /\ change[i] - MinOut > f /\ change[i] \in Int
    BY <2>2, <2>3, <2>4 DEF PaysFee
  <2> HIDE DEF able
  <2>6. PICK c : c = change
    OBVIOUS
  <2>7. PICK r : r = [c EXCEPT ![i] = @ + (0 - f)]
    BY Zenon
  <2>8. change' = r
    <3>1. c[i] - f = c[i] + (0 - f)
      BY SMTT(60), <1>5, <2>5, <2>6
    <3> QED BY ZenonT(60), <2>1, <2>4, <2>6, <2>7, <3>1
  <2>9. c \in Seq(Int) /\ i \in 1..Len(c) /\ 0 - f \in Int
    BY SMTT(60), <1>5, <2>2, <2>5, <2>6
  <2>10. Total(r) = Total(c) + (0 - f)
    BY ZenonT(60), <2>7, <2>9, TotalUpdate
  <2>11. r \in Seq(Int) /\ Len(r) = Len(c)
    BY <2>7, <2>9
  <2>12. ASSUME NEW j \in 1..Len(r) PROVE r[j] > MinOut
    <3>1. r[j] = IF j = i THEN c[j] + (0 - f) ELSE c[j]
      BY SMTT(60), <2>7, <2>9, <2>11
    <3>2. CASE j = i
      BY SMTT(60), <1>3, <1>5, <2>5, <2>6, <3>1, <3>2
    <3>3. CASE j # i
      <4>1. c # <<AmountRemain>>
        <5> SUFFICES ASSUME c = <<AmountRemain>> PROVE FALSE
          OBVIOUS
        <5>1. Len(c) = 1
          OBVIOUS
        <5>2. j = 1 /\ i = 1
          BY SMTT(60), <2>9, <2>11, <5>1
        <5> QED BY SMTT(60), <3>3, <5>2
      <4>2. c[j] > MinOut
        BY SMTT(60), <1>2, <2>6, <2>11, <4>1 DEF SplitOf
      <4> QED BY SMTT(60), <3>1, <3>3, <4>2
    <3> QED BY <3>2, <3>3
  <2>13. Total(change') = AmountRemain' - fee'
    <3>1. Total(r) = AmountRemain - f
      BY SMTT(60), <1>3, <1>5, <2>2, <2>6, <2>10
    <3> QED BY SMTT(60), <1>3, <1>5, <2>8, <3>1
  <2>14. change' \in Seq(Int) /\ \A j \in 1..Len(change') : change'[j] > MinOut
    BY SMTT(60), <2>8, <2>11, <2>12
  <2> QED BY SMTT(60), <1>1, <1>2, <1>6, <2>1, <2>13, <2>14 DEF AmountsInv
<1> QED BY SMTT(60), <1>7, <1>8

(* The invariant holds in every state. *)
LEMMA AmountsInvariant == AmountsSpec => []AmountsInv
<1>1. AmountsInit => AmountsInv
  <2> SUFFICES ASSUME AmountsInit PROVE AmountsInv
    OBVIOUS
  <2>1. send \in Nat /\ RewardOf[send] \in Nat /\ MinOut \in Nat /\ Reserve \in Nat
        /\ Excess \subseteq Nat
    BY SMTT(60), AmountsAssumption DEF AmountsInit
  <2>2. mine \in Nat
    BY SMTT(60), <2>1 DEF AmountsInit
  <2>3. PICK e \in [1..Cloakers -> Excess] : inputs = [k \in 1..Cloakers |-> send + MinOut + e[k]]
    BY Zenon DEF AmountsInit
  <2>4. \A k \in 1..Cloakers : e[k] \in Nat
    BY Zenon, <2>1
  <2>5. inputs \in [1..Cloakers -> Nat] /\ \A k \in 1..Cloakers : inputs[k] >= send + MinOut
    BY SMTT(60), <2>1, <2>3, <2>4
  <2> QED BY SMTT(60), <2>2, <2>5 DEF AmountsInit, AmountsInv, InputsSound
<1>2. AmountsInv /\ [AmountsNext]_amountVars => AmountsInv'
  <2> SUFFICES ASSUME AmountsInv, [AmountsNext]_amountVars PROVE AmountsInv'
    BY SMTT(60)
  <2>1. CASE UNCHANGED amountVars
    BY <2>1 DEF amountVars, AmountsInv, InputsSound, PaidSound, SplitOf, AmountRemain
  <2> QED BY SMTT(60), <2>1, ShareStep, PayStep, ChangeStep, FeeStep DEF AmountsNext
<1> QED BY <1>1, <1>2, PTL DEF AmountsSpec

(* No coin is lost or made between the inputs and the outputs of a joint *)
(* transaction, and none of its outputs is dust: for any amounts, number of *)
(* cloakers, weights, splits and fee. *)
THEOREM AlwaysBalanced == AmountsSpec => []Balanced
<1>1. AmountsInv => Balanced
  <2> SUFFICES ASSUME AmountsInv, phase = "signing"
               PROVE  /\ mine + Total(inputs) = send + Total(TxOutputs) + MinOut + fee
                      /\ \A i \in DOMAIN TxOutputs : TxOutputs[i] > MinOut
    BY DEF Balanced
  <2>1. /\ InputsSound /\ PaidSound /\ Len(paid) = Cloakers
        /\ change \in Seq(Int) /\ Total(change) = AmountRemain - fee
        /\ \A j \in 1..Len(change) : change[j] > MinOut
    BY DEF AmountsInv
  <2>2. /\ AmountRemain \in Int
        /\ AmountRemain = (mine + Total(inputs)) - (send + Total(Totals(paid))) - MinOut
        /\ Total(inputs) \in Int /\ Total(Totals(paid)) \in Int
        /\ send \in Nat /\ MinOut \in Nat
    BY SMTT(60), <2>1, RemainType
  <2>3. /\ FlattenSeq(paid) \in Seq(Int)
        /\ Total(FlattenSeq(paid)) = Total(Totals(paid))
        /\ \A j \in 1..Len(FlattenSeq(paid)) : FlattenSeq(paid)[j] > MinOut
    <3>1. paid \in Seq(Seq(Int)) /\ MinOut \in Int
          /\ \A k \in 1..Len(paid) : \A j \in 1..Len(paid[k]) : paid[k][j] > MinOut
      BY <2>1, <2>2 DEF PaidSound
    <3> QED BY Zenon, <3>1, FlattenSum
  <2>4. PICK a : a = FlattenSeq(paid)
    OBVIOUS
  <2>5. PICK b : b = change
    OBVIOUS
  <2>6. PICK c : c = a \o b
    BY ZenonT(60)
  <2>7. a \in Seq(Int) /\ b \in Seq(Int)
    BY <2>1, <2>3, <2>4, <2>5
  <2>8. TxOutputs = c
    BY <2>4, <2>5, <2>6 DEF TxOutputs
  <2>9. Total(c) = Total(Totals(paid)) + (AmountRemain - fee)
    BY SMTT(60), <2>1, <2>3, <2>4, <2>5, <2>6, <2>7, TotalConcat
  <2>10. mine + Total(inputs) = send + Total(TxOutputs) + MinOut + fee
    <3>1. PICK x \in Int, y \in Int : x = Total(inputs) /\ y = Total(Totals(paid))
      BY <2>2
    <3>2. mine \in Nat /\ fee \in Nat
      BY SMTT(60), <2>1 DEF InputsSound
    <3>3. Total(c) = y + ((mine + x) - (send + y) - MinOut - fee)
      BY SMTT(60), <2>2, <2>9, <3>1
    <3>4. mine + x = send + Total(c) + MinOut + fee
      BY SMTT(60), <2>2, <3>2, <3>3
    <3> QED BY SMTT(60), <2>8, <3>1, <3>4
  <2>11. ASSUME NEW i \in DOMAIN c PROVE c[i] > MinOut
    <3>1. Len(c) = Len(a) + Len(b) /\ Len(a) \in Nat /\ Len(b) \in Nat /\ i \in 1..Len(c)
      BY SMTT(60), <2>6, <2>7
    <3>2. CASE i <= Len(a)
      <4>1. c[i] = a[i] /\ i \in 1..Len(a)
        BY SMTT(60), <2>6, <2>7, <3>1, <3>2
      <4> QED BY SMTT(60), <2>3, <2>4, <4>1
    <3>3. CASE ~(i <= Len(a))
      <4>1. i - Len(a) \in 1..Len(b)
        BY SMTT(60), <3>1, <3>3
      <4>2. c[i] = b[i - Len(a)]
        BY SMTT(60), <2>6, <2>7, <3>1, <3>3
      <4> QED BY SMTT(60), <2>1, <2>5, <4>1, <4>2
    <3> QED BY SMTT(60), <3>2, <3>3
  <2> QED BY SMTT(60), <2>8, <2>10, <2>11
<1> QED BY <1>1, AmountsInvariant, PTL

(* The whole reward is shared out, and no cloaker is asked to sign for less *)
(* than it put in: for any reward, weights, rounding and splits. *)
THEOREM CloakersAlwaysSign == AmountsSpec => []CloakersWillSign
<1>1. AmountsInv => CloakersWillSign
  <2> SUFFICES ASSUME AmountsInv, phase = "signing", NEW k \in 1..Cloakers
               PROVE  Total(rewards) = RewardOf[send] /\ Total(paid[k]) >= inputs[k]
    <3>1. phase # "signing" => CloakersWillSign
      BY DEF CloakersWillSign
    <3>2. AmountsInv /\ phase = "signing" => Total(rewards) = RewardOf[send]
      BY DEF AmountsInv
    <3> QED BY SMTT(60), <3>1, <3>2 DEF CloakersWillSign
  <2>1. PaidSound /\ Len(paid) = Cloakers /\ rewards \in [1..Cloakers -> Nat] /\ InputsSound
        /\ Total(rewards) = RewardOf[send]
    BY DEF AmountsInv
  <2>2. Total(paid[k]) = inputs[k] + rewards[k] /\ inputs[k] \in Nat /\ rewards[k] \in Nat
    BY Zenon, <2>1 DEF PaidSound, InputsSound
  <2> QED BY SMTT(60), <2>1, <2>2
<1> QED BY <1>1, AmountsInvariant, PTL

=============================================================================
