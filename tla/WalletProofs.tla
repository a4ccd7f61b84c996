---------------------------- MODULE WalletProofs ----------------------------
(***************************************************************************)
(* The transaction that CreateTransaction finishes or refuses, for any     *)
(* wallet, and the key pool, for any size, number of miners and number of  *)
(* restarts.                                                               *)
(***************************************************************************)
EXTENDS CreateTransaction, KeyPool, FoldLemmas

-----------------------------------------------------------------------------
\* CreateTransaction.

(* The recursion of MapThenSumSet for the values of coins. *)
WorthOf(w, S) ==
    CHOOSE g : g = [s \in SUBSET S |->
        IF s = {} THEN 0
        ELSE w[CHOOSE x \in s : TRUE].value + g[s \ {CHOOSE x \in s : TRUE}]]

(* Worth is a sum: a natural number, nothing for no coins and the value of the *)
(* coin for one. *)
LEMMA WorthSum ==
    ASSUME NEW S, IsFiniteSet(S), \A c \in S : wallet[c].value \in Nat
    PROVE  /\ Worth(S) \in Nat
           /\ S = {} => Worth(S) = 0
           /\ \A c : S = {c} => Worth(S) = wallet[c].value
<1> DEFINE pick == [s \in SUBSET S |-> CHOOSE x \in s : TRUE]
           step == [p \in (SUBSET S) \X Nat |->
                       IF p[1] = {} THEN 0 ELSE wallet[pick[p[1]]].value + p[2]]
           H == WorthOf(wallet, S)
<1>1. Worth(S) = H[S]
  BY DEF Worth, MapThenSumSet, MapThenFoldSet, WorthOf
<1>2. \A s \in SUBSET S : s # {} => pick[s] \in s /\ wallet[pick[s]].value \in Nat
  OBVIOUS
<1>3. \A s \in SUBSET S : \A n \in Nat :
         step[<<s, n>>] = IF s = {} THEN 0 ELSE wallet[pick[s]].value + n
  <2> HIDE DEF pick
  <2> QED OBVIOUS
<1>4. FoldArgs(S, Nat, 0, pick, step)
  <2>1. step \in [(SUBSET S) \X Nat -> Nat]
    <3> HIDE DEF pick
    <3>1. \A p \in (SUBSET S) \X Nat :
             (IF p[1] = {} THEN 0 ELSE wallet[pick[p[1]]].value + p[2]) \in Nat
      BY <1>2
    <3> QED BY <3>1
  <2> HIDE DEF step
  <2> QED BY <1>2, <2>1 DEF FoldArgs
<1>5. \A s \in SUBSET S : pick[s] = CHOOSE x \in s : TRUE
  OBVIOUS
<1> HIDE DEF step, pick
<1>6. PICK g \in [SUBSET S -> Nat] : FoldRule(g, S, Nat, 0, pick, step)
  BY Zenon, <1>4, FoldExists
<1>7. \A s \in SUBSET S :
         g[s] = IF s = {} THEN 0 ELSE wallet[pick[s]].value + g[s \ {pick[s]}]
  <2> SUFFICES ASSUME NEW s \in SUBSET S, s # {}
               PROVE  g[s] = wallet[pick[s]].value + g[s \ {pick[s]}]
    BY Zenon, <1>6 DEF FoldRule
  <2>1. g[s \ {pick[s]}] \in Nat
    OBVIOUS
  <2> QED BY Zenon, <1>3, <1>6, <2>1 DEF FoldRule
<1>8. g = [s \in SUBSET S |->
              IF s = {} THEN 0
              ELSE wallet[CHOOSE x \in s : TRUE].value + g[s \ {CHOOSE x \in s : TRUE}]]
  BY Zenon, <1>5, <1>7
<1>9. H = [s \in SUBSET S |->
              IF s = {} THEN 0
              ELSE wallet[CHOOSE x \in s : TRUE].value + H[s \ {CHOOSE x \in s : TRUE}]]
  BY ZenonT(60), <1>8 DEF WorthOf
<1> HIDE DEF H
<1>10. \A s \in SUBSET S :
          H[s] = IF s = {} THEN 0 ELSE wallet[pick[s]].value + H[s \ {pick[s]}]
  BY Zenon, <1>5, <1>9
<1>11. \A s \in SUBSET S : H[s] = g[s]
  <2>1. H[{}] = 0
    BY Zenon, <1>10
  <2>2. \A s \in SUBSET S : s # {} /\ H[s \ {pick[s]}] \in Nat =>
            H[s] = step[<<s, H[s \ {pick[s]}]>>]
    BY Zenon, <1>3, <1>10
  <2>3. FoldsWithin(H, S, Nat, 0, pick, step)
    BY <2>1, <2>2 DEF FoldsWithin
  <2>4. IsFold(g, S, Nat, 0, pick, step)
    BY <1>4, <1>6 DEF IsFold
  <2> QED BY <2>3, <2>4, FoldIs
<1>12. H[S] \in Nat /\ H[{}] = 0
  BY Zenon, <1>10, <1>11
<1>13. ASSUME NEW c, S = {c} PROVE H[S] = wallet[c].value
  <2>1. pick[S] = c /\ S \ {pick[S]} = {} /\ wallet[c].value \in Nat
    BY <1>2, <1>13
  <2>2. H[S] = wallet[pick[S]].value + H[S \ {pick[S]}]
    BY Zenon, <1>10, <1>13
  <2>3. H[S \ {pick[S]}] = 0
    BY Zenon, <1>12, <2>1
  <2>4. H[S] = wallet[c].value + 0
    BY <2>1, <2>2, <2>3
  <2> QED BY <2>1, <2>4
<1> QED BY Zenon, <1>1, <1>12, <1>13

(* What CreateTransaction was asked for, and what it keeps of the fee and of the *)
(* key for the change, from round to round. *)
CreateTypes ==
    /\ DOMAIN wallet \subseteq Coin
    /\ \A c \in DOMAIN wallet : wallet[c] \in Outputs
    /\ control \in [selected : SUBSET DOMAIN wallet, dest : BOOLEAN]
    /\ nValue \in Nat \ {0} /\ nTransactionFee \in Nat /\ nFeeRet \in Nat

(* Any coins of the wallet have a worth. *)
LEMMA CoinsWorth ==
    ASSUME CreateTypes, NEW S, S \subseteq DOMAIN wallet
    PROVE  /\ IsFiniteSet(S) /\ Worth(S) \in Nat
           /\ S = {} => Worth(S) = 0
           /\ \A c : S = {c} => Worth(S) = wallet[c].value
           /\ \A c \in S : wallet[c].value \in Nat
<1>1. IsFiniteSet(S)
  BY CreateAssumption, FS_Subset DEF CreateTypes
<1>2. \A c \in S : wallet[c].value \in Nat
  BY CreateAssumption DEF CreateTypes
<1> QED BY <1>1, <1>2, WorthSum

(* What SelectCoinsMinConf selects is enough. *)
LEMMA MinConfEnough ==
    ASSUME CreateTypes, NEW target \in Nat, NEW a, NEW b,
           NEW S \in SelectCoinsMinConf(target, a, b)
    PROVE  S \subseteq DOMAIN wallet /\ Worth(S) >= target
<1> DEFINE coins == Eligible(a, b)
           exact == {c \in coins : wallet[c].value = target}
           vValue == {c \in coins : wallet[c].value < target + Cent}
           larger == coins \ vValue
           lowest == {c \in larger : \A d \in larger : wallet[c].value <= wallet[d].value}
           found == ApproximateBestSubset(vValue, target)
           retried(T) == Worth(T) # target /\ Worth(vValue) >= target + Cent
           best == {T \in found : ~ retried(T)}
                   \cup (IF \E T \in found : retried(T)
                         THEN ApproximateBestSubset(vValue, target + Cent) ELSE {})
           bigger(T) ==
              /\ larger # {}
              /\ \/ Worth(T) # target /\ Worth(T) < target + Cent
                 \/ \E c \in lowest : wallet[c].value <= Worth(T)
           kept == {T \in best : ~ bigger(T)}
<1>0. SelectCoinsMinConf(target, a, b) =
         IF exact # {} THEN {{c} : c \in exact}
         ELSE IF Worth(vValue) = target THEN {vValue}
         ELSE IF Worth(vValue) < target THEN {{c} : c \in lowest}
         ELSE kept \cup (IF \E T \in best : bigger(T) THEN {{c} : c \in lowest} ELSE {})
  BY Zenon DEF SelectCoinsMinConf
<1>1. coins = Eligible(a, b)
  OBVIOUS
<1>2. vValue = {c \in coins : wallet[c].value < target + Cent}
  OBVIOUS
<1>3. larger = coins \ vValue
  OBVIOUS
<1>4. lowest = {c \in larger : \A d \in larger : wallet[c].value <= wallet[d].value}
  OBVIOUS
<1>5. found = ApproximateBestSubset(vValue, target)
  OBVIOUS
<1>6. best = {T \in found : ~(Worth(T) # target /\ Worth(vValue) >= target + Cent)}
               \cup (IF \E T \in found : Worth(T) # target /\ Worth(vValue) >= target + Cent
                     THEN ApproximateBestSubset(vValue, target + Cent) ELSE {})
  OBVIOUS
<1> HIDE DEF coins, vValue, larger, lowest, found, retried, best
<1>7. coins \subseteq DOMAIN wallet /\ vValue \subseteq coins /\ larger \subseteq coins
      /\ lowest \subseteq larger
  BY <1>1, <1>2, <1>3, <1>4 DEF Eligible
<1>8. \/ \E c \in coins : S = {c} /\ wallet[c].value = target
      \/ S = vValue /\ Worth(vValue) = target
      \/ \E c \in lowest : S = {c}
      \/ S \in best
  <2>2. kept \subseteq best /\ \A c \in exact : c \in coins /\ wallet[c].value = target
    OBVIOUS
  <2> HIDE DEF exact, bigger, kept
  <2> QED BY <1>0, <2>2
<1>9. target + Cent \in Nat /\ target + Cent >= target
  BY CreateAssumption
<1>10. CASE \E c \in coins : S = {c} /\ wallet[c].value = target
  <2>1. PICK c \in coins : S = {c} /\ wallet[c].value = target
    BY <1>10
  <2>2. S \subseteq DOMAIN wallet
    BY <1>7, <2>1
  <2>3. Worth(S) = target
    BY <2>1, <2>2, CoinsWorth
  <2> QED BY <2>2, <2>3
<1>11. CASE S = vValue /\ Worth(vValue) = target
  BY <1>7, <1>11
<1>12. CASE \E c \in lowest : S = {c}
  <2>1. PICK c \in lowest : S = {c}
    BY <1>12
  <2>2. S \subseteq DOMAIN wallet /\ c \in DOMAIN wallet
    BY <1>7, <2>1
  <2>3. Worth(S) = wallet[c].value /\ wallet[c].value \in Nat
    BY <2>1, <2>2, CoinsWorth
  <2>4. ~(wallet[c].value < target + Cent)
    BY <1>2, <1>3, <1>7, <2>1
  <2> QED BY <1>9, <2>2, <2>3, <2>4
<1>13. CASE S \in best
  <2>1. \/ S \in ApproximateBestSubset(vValue, target)
        \/ S \in ApproximateBestSubset(vValue, target + Cent)
    BY <1>5, <1>6, <1>13
  <2>2. S \subseteq vValue /\ (Worth(S) >= target \/ Worth(S) >= target + Cent)
    BY <2>1 DEF ApproximateBestSubset
  <2>3. Worth(S) \in Nat /\ S \subseteq DOMAIN wallet
    BY <1>7, <2>2, CoinsWorth
  <2> QED BY <1>9, <2>2, <2>3
<1> QED BY <1>8, <1>10, <1>11, <1>12, <1>13

(* SelectCoins selects enough. *)
LEMMA SelectedEnough ==
    ASSUME CreateTypes, NEW target \in Nat, NEW S \in SelectCoins(target)
    PROVE  S \subseteq DOMAIN wallet /\ Worth(S) >= target
<1>1. CASE control.selected # {}
  BY <1>1 DEF SelectCoins, CreateTypes
<1>2. CASE control.selected = {}
  <2> DEFINE tried == [k \in DOMAIN Tries |->
                          SelectCoinsMinConf(target, Tries[k][1], Tries[k][2])]
             successes == {k \in DOMAIN Tries : tried[k] # {}}
  <2>1. SelectCoins(target) = IF successes = {} THEN {} ELSE tried[Min(successes)]
    BY <1>2 DEF SelectCoins
  <2>2. DOMAIN Tries = 1..3
    BY SMTT(60) DEF Tries
  <2>3. successes # {} /\ S \in tried[Min(successes)] /\ successes \subseteq Nat
    BY <2>1, <2>2
  <2>4. Min(successes) \in successes
    <3>1. PICK n \in successes : \A m \in successes : n <= m
      BY Zenon, <2>3, LeastNatural
    <3> QED BY Zenon, <3>1 DEF Min
  <2>5. S \in SelectCoinsMinConf(target, Tries[Min(successes)][1], Tries[Min(successes)][2])
    BY <2>3, <2>4
  <2> QED BY <2>5, MinConfEnough
<1> QED BY <1>1, <1>2

(* A search among coins that are worth enough finds a set that is. *)
LEMMA SearchFinds ==
    ASSUME CreateTypes, NEW target \in Nat \ {0},
           NEW V, V \subseteq DOMAIN wallet, Worth(V) >= target
    PROVE  ApproximateBestSubset(V, target) # {}
<1> DEFINE F == {S \in SUBSET V : Worth(S) >= target}
<1>1. IsFiniteSet(V) /\ V \in F
  BY CoinsWorth
<1>2. PICK S \in F : \A T \in F : T \subseteq S => T = S
  <2> HIDE DEF F
  <2>1. F \subseteq SUBSET V
    BY DEF F
  <2> QED BY <1>1, <2>1, LeastSubset
<1>3. S \subseteq V /\ Worth(S) >= target /\ Worth(S) \in Nat /\ (S = {} => Worth(S) = 0)
  BY CoinsWorth
<1>4. PICK c \in S : TRUE
  BY <1>3
<1>5. S \ {c} \subseteq V /\ Worth(S \ {c}) \in Nat /\ S \ {c} \notin F
  BY <1>2, <1>3, <1>4, CoinsWorth
<1>6. Worth(S \ {c}) < target
  BY <1>5
<1> QED BY Zenon, <1>3, <1>4, <1>6 DEF ApproximateBestSubset

(* Among some coins of the wallet one is worth least. *)
LEMMA LowestExists ==
    ASSUME CreateTypes, NEW C, C \subseteq DOMAIN wallet, C # {}
    PROVE  \E c \in C : \A d \in C : wallet[c].value <= wallet[d].value
<1> DEFINE values == {wallet[c].value : c \in C}
<1>1. values \subseteq Nat /\ values # {}
  BY CoinsWorth
<1>2. PICK n \in values : \A m \in values : n <= m
  BY Zenon, <1>1, LeastNatural
<1> QED BY <1>2

(* SelectCoinsMinConf fails only when the coins it may use are not enough. *)
LEMMA MinConfFinds ==
    ASSUME CreateTypes, NEW target \in Nat \ {0}, NEW a, NEW b,
           Worth(Eligible(a, b)) >= target
    PROVE  SelectCoinsMinConf(target, a, b) # {}
<1> DEFINE coins == Eligible(a, b)
           exact == {c \in coins : wallet[c].value = target}
           vValue == {c \in coins : wallet[c].value < target + Cent}
           larger == coins \ vValue
           lowest == {c \in larger : \A d \in larger : wallet[c].value <= wallet[d].value}
           found == ApproximateBestSubset(vValue, target)
           retried(T) == Worth(T) # target /\ Worth(vValue) >= target + Cent
           best == {T \in found : ~ retried(T)}
                   \cup (IF \E T \in found : retried(T)
                         THEN ApproximateBestSubset(vValue, target + Cent) ELSE {})
           bigger(T) ==
              /\ larger # {}
              /\ \/ Worth(T) # target /\ Worth(T) < target + Cent
                 \/ \E c \in lowest : wallet[c].value <= Worth(T)
           kept == {T \in best : ~ bigger(T)}
<1>0. SelectCoinsMinConf(target, a, b) =
         IF exact # {} THEN {{c} : c \in exact}
         ELSE IF Worth(vValue) = target THEN {vValue}
         ELSE IF Worth(vValue) < target THEN {{c} : c \in lowest}
         ELSE kept \cup (IF \E T \in best : bigger(T) THEN {{c} : c \in lowest} ELSE {})
  BY Zenon DEF SelectCoinsMinConf
<1>1. coins = Eligible(a, b)
  OBVIOUS
<1>2. vValue = {c \in coins : wallet[c].value < target + Cent}
  OBVIOUS
<1>3. larger = coins \ vValue
  OBVIOUS
<1>4. lowest = {c \in larger : \A d \in larger : wallet[c].value <= wallet[d].value}
  OBVIOUS
<1>5. found = ApproximateBestSubset(vValue, target)
  OBVIOUS
<1>6. best = {T \in found : ~(Worth(T) # target /\ Worth(vValue) >= target + Cent)}
               \cup (IF \E T \in found : Worth(T) # target /\ Worth(vValue) >= target + Cent
                     THEN ApproximateBestSubset(vValue, target + Cent) ELSE {})
  OBVIOUS
<1> HIDE DEF coins, vValue, larger, lowest, found, retried, best
<1>8. coins \subseteq DOMAIN wallet /\ vValue \subseteq DOMAIN wallet /\ larger \subseteq DOMAIN wallet
  BY <1>1, <1>2, <1>3 DEF Eligible
<1>9. Worth(vValue) \in Nat /\ target + Cent \in Nat \ {0}
  BY <1>8, CoinsWorth, CreateAssumption
<1>10. larger # {} => lowest # {}
  BY <1>4, <1>8, LowestExists
<1>11. Worth(vValue) < target => larger # {}
  <2>1. larger = {} => vValue = coins
    BY <1>2, <1>3
  <2> QED BY <1>1, <1>9, <2>1
<1>12. Worth(vValue) >= target => best # {}
  <2> SUFFICES ASSUME Worth(vValue) >= target
               PROVE  best # {}
    OBVIOUS
  <2>1. PICK T : T \in found
    BY <1>5, <1>8, SearchFinds
  <2>2. Worth(vValue) >= target + Cent => ApproximateBestSubset(vValue, target + Cent) # {}
    BY <1>8, <1>9, SearchFinds
  <2> QED BY <1>6, <2>1, <2>2
<1>13. best # {} => kept # {} \/ \E T \in best : bigger(T) /\ larger # {}
  OBVIOUS
<1>14. lowest # {} => {{c} : c \in lowest} # {}
  BY Zenon
<1>15. exact # {} => {{c} : c \in exact} # {}
  BY Zenon
<1> HIDE DEF exact, bigger, kept
<1>16. CASE exact # {}
  BY Zenon, <1>0, <1>15, <1>16
<1>17. CASE exact = {} /\ Worth(vValue) = target
  BY <1>0, <1>17
<1>18. CASE exact = {} /\ Worth(vValue) # target /\ Worth(vValue) < target
  BY <1>0, <1>10, <1>11, <1>14, <1>18
<1>19. CASE exact = {} /\ Worth(vValue) # target /\ ~(Worth(vValue) < target)
  <2>1. SelectCoinsMinConf(target, a, b) =
           kept \cup (IF \E T \in best : bigger(T) THEN {{c} : c \in lowest} ELSE {})
    BY <1>0, <1>19
  <2>2. best # {}
    BY <1>9, <1>12, <1>19
  <2> QED BY Zenon, <1>10, <1>13, <1>14, <2>1, <2>2
<1> QED BY <1>16, <1>17, <1>18, <1>19

(* SelectCoins fails only when the coins it may use, down to the last try, are *)
(* not enough. *)
LEMMA SelectFinds ==
    ASSUME CreateTypes, NEW target \in Nat \ {0}, SelectCoins(target) = {}
    PROVE  Worth(IF control.selected # {} THEN control.selected ELSE Eligible(0, 1)) < target
<1>1. CASE control.selected # {}
  <2>1. ~(Worth(control.selected) >= target)
    BY <1>1 DEF SelectCoins
  <2>2. Worth(control.selected) \in Nat
    BY CoinsWorth DEF CreateTypes
  <2> QED BY <1>1, <2>1, <2>2
<1>2. CASE control.selected = {}
  <2> DEFINE tried == [k \in DOMAIN Tries |->
                          SelectCoinsMinConf(target, Tries[k][1], Tries[k][2])]
             successes == {k \in DOMAIN Tries : tried[k] # {}}
  <2>1. SelectCoins(target) = IF successes = {} THEN {} ELSE tried[Min(successes)]
    BY <1>2 DEF SelectCoins
  <2>2. DOMAIN Tries = 1..3 /\ Tries[3] = <<0, 1>>
    BY SMTT(60) DEF Tries
  <2>3. successes = {}
    <3> SUFFICES ASSUME successes # {} PROVE FALSE
      OBVIOUS
    <3>1. successes \subseteq Nat
      BY <2>2
    <3>2. PICK n \in successes : \A m \in successes : n <= m
      BY Zenon, <3>1, LeastNatural
    <3>3. Min(successes) \in successes
      BY Zenon, <3>2 DEF Min
    <3> QED BY Zenon, <2>1, <3>3
  <2>4. SelectCoinsMinConf(target, 0, 1) = {}
    BY <2>2, <2>3
  <2>5. ~(Worth(Eligible(0, 1)) >= target)
    BY <2>4, MinConfFinds
  <2>6. Worth(Eligible(0, 1)) \in Nat
    <3>1. Eligible(0, 1) \subseteq DOMAIN wallet
      BY DEF Eligible
    <3> QED BY <3>1, CoinsWorth
  <2> QED BY SMTT(60), <1>2, <2>5, <2>6
<1> QED BY <1>1, <1>2

(* Settling moves amounts between the fee and the change and loses nothing. *)
LEMMA SettledSound ==
    ASSUME NEW fee \in Nat, NEW change \in Nat
    PROVE  LET s == Settled(fee, change)
           IN /\ s.fee \in Nat /\ s.change \in Nat
              /\ s.fee + s.change = fee + change
              /\ s.change = 0 \/ s.change >= MIN_TXOUT_AMOUNT
<1> DEFINE moved == MoveToFee(fee, change)
           left == change - moved
<1>1. Cent \in Nat \ {0}
  BY CreateAssumption
<1>2. moved \in Nat /\ moved <= change
  <2>1. CASE fee < MIN_TX_FEE /\ change > 0 /\ change < Cent
    <3>1. moved = Min({change, MIN_TX_FEE - fee})
      BY <2>1 DEF MoveToFee
    <3>2. MIN_TX_FEE - fee \in Nat
      BY <1>1, <2>1 DEF MIN_TX_FEE
    <3>3. \A x, y \in Nat : Min({x, y}) \in Nat /\ Min({x, y}) <= x
      <4> SUFFICES ASSUME NEW x \in Nat, NEW y \in Nat
                   PROVE  Min({x, y}) \in Nat /\ Min({x, y}) <= x
        OBVIOUS
      <4>1. \E n \in {x, y} : \A m \in {x, y} : n <= m
        OBVIOUS
      <4> QED BY <4>1 DEF Min
    <3> QED BY <3>1, <3>2, <3>3
  <2>2. CASE ~(fee < MIN_TX_FEE /\ change > 0 /\ change < Cent)
    BY <2>2 DEF MoveToFee
  <2> QED BY <2>1, <2>2
<1>3. left \in Nat /\ moved + left = change
  BY <1>2
<1>4. Settled(fee, change) = IF left > 0 /\ left < MIN_TXOUT_AMOUNT
                             THEN [fee |-> fee + moved + left, change |-> 0]
                             ELSE [fee |-> fee + moved, change |-> left]
  BY DEF Settled
<1> HIDE DEF moved, left
<1> QED BY <1>1, <1>2, <1>3, <1>4 DEF MIN_TXOUT_AMOUNT

(* The fee a transaction is asked for is an amount. *)
LEMMA FeeType ==
    ASSUME CreateTypes, NEW S, S \subseteq DOMAIN wallet, NEW change \in Nat
    PROVE  RequiredFee(Size(S, change)) \in Nat
<1>1. Cardinality(S) \in Nat
  BY CoinsWorth, FS_CardinalityType
<1>2. Size(S, change) \in Nat
  BY <1>1 DEF Size
<1>3. Kilobytes(Size(S, change)) \in Nat
  BY <1>2, CreateAssumption DEF Kilobytes
<1>4. Max({nTransactionFee, MIN_TX_FEE}) \in Nat
  <2>1. nTransactionFee \in Nat /\ MIN_TX_FEE \in Nat
    BY CreateAssumption DEF CreateTypes, MIN_TX_FEE
  <2>2. \E n \in {nTransactionFee, MIN_TX_FEE} : \A m \in {nTransactionFee, MIN_TX_FEE} : n >= m
    BY <2>1
  <2> QED BY <2>1, <2>2 DEF Max
<1> QED BY <1>3, <1>4 DEF RequiredFee

(* The inductive invariant of CreateTransaction's loop: a key is reserved only *)
(* for change to a new address, whatever the rounds before this one did. *)
CreateInv ==
    /\ CreateTypes
    /\ reserved \in BOOLEAN /\ (reserved => ~ control.dest)
    /\ FinishedSound
    /\ RefusedOnlyWhenShort

(* The coins CreateTransaction may use. *)
Usable == IF control.selected # {} THEN control.selected ELSE Eligible(0, 1)

(* What an unchanged wallet holds has an unchanged worth. *)
LEMMA SameWorth ==
    ASSUME wallet' = wallet, control' = control
    PROVE  /\ Worth(Usable)' = Worth(Usable)
           /\ setCoins' = setCoins => Worth(setCoins)' = Worth(setCoins)
<1>1. Usable' = Usable
  BY DEF Usable, Eligible
<1>2. Worth(Usable) = WorthOf(wallet, Usable)[Usable]
  BY DEF Worth, MapThenSumSet, MapThenFoldSet, WorthOf
<1>3. Worth(Usable)' = WorthOf(wallet', Usable')[Usable']
  BY DEF Worth, MapThenSumSet, MapThenFoldSet, WorthOf
<1>4. Worth(setCoins) = WorthOf(wallet, setCoins)[setCoins]
  BY DEF Worth, MapThenSumSet, MapThenFoldSet, WorthOf
<1>5. Worth(setCoins)' = WorthOf(wallet', setCoins')[setCoins']
  BY DEF Worth, MapThenSumSet, MapThenFoldSet, WorthOf
<1>6. setCoins' = setCoins => Worth(setCoins)' = Worth(setCoins)
  BY <1>4, <1>5
<1> QED BY <1>1, <1>2, <1>3, <1>6

(* A round keeps the invariant. *)
LEMMA RoundKeeps ==
    ASSUME CreateInv, Round
    PROVE  CreateInv'
<1>1. CreateTypes /\ reserved \in BOOLEAN /\ (reserved => ~ control.dest) /\ pc = "loop"
      /\ control.dest \in BOOLEAN
  BY DEF CreateInv, Round, CreateTypes
<1>2. PICK S \in SelectCoins(nValue + nFeeRet) :
         LET settled == Settled(nFeeRet, Worth(S) - nValue - nFeeRet)
         IN Oversized(S, settled) \/ RaiseFee(S, settled) \/ Finish(S, settled)
  BY DEF Round
<1>3. PICK t : t = Settled(nFeeRet, Worth(S) - nValue - nFeeRet)
  OBVIOUS
<1>4. Oversized(S, t) \/ RaiseFee(S, t) \/ Finish(S, t)
  BY <1>2, <1>3
<1>5. nValue \in Nat /\ nFeeRet \in Nat /\ nValue + nFeeRet \in Nat
  BY <1>1 DEF CreateTypes
<1>6. S \subseteq DOMAIN wallet /\ Worth(S) >= nValue + nFeeRet
  BY <1>1, <1>5, SelectedEnough
<1>7. Worth(S) \in Nat
  BY <1>1, <1>6, CoinsWorth
<1>8. Worth(S) - nValue - nFeeRet \in Nat
  BY <1>5, <1>6, <1>7
<1>9. /\ t.fee \in Nat /\ t.change \in Nat
      /\ t.fee + t.change = nFeeRet + (Worth(S) - nValue - nFeeRet)
      /\ t.change = 0 \/ t.change >= MIN_TXOUT_AMOUNT
  BY Zenon, <1>3, <1>5, <1>8, SettledSound
<1>10. Worth(S) = nValue + t.change + t.fee
  <2>1. PICK w \in Nat, x \in Nat, y \in Nat : w = Worth(S) /\ x = t.fee /\ y = t.change
    BY <1>7, <1>9
  <2>2. x + y = nFeeRet + (w - nValue - nFeeRet)
    BY <1>9, <2>1
  <2>3. w = nValue + y + x
    BY <1>5, <2>2
  <2> QED BY <2>1, <2>3
<1>11. RequiredFee(Size(S, t.change)) \in Nat
  BY <1>1, <1>6, <1>9, FeeType
<1>12. Build(S, t)
  BY <1>4 DEF Oversized, RaiseFee, Finish
<1>13. wallet' = wallet /\ control' = control /\ nValue' = nValue
       /\ nTransactionFee' = nTransactionFee
  BY <1>12 DEF Build, asked
<1>14. setCoins' = S /\ nChange' = t.change
       /\ reserved' = (IF t.change = 0 THEN FALSE ELSE reserved \/ ~ control.dest)
  BY <1>12 DEF Build, ReserveChangeKey
<1>15. nFeeRet' \in Nat
  BY <1>4, <1>9, <1>11 DEF Oversized, RaiseFee, Finish
<1>16. CreateTypes'
  BY <1>1, <1>13, <1>15 DEF CreateTypes
<1>17. reserved' \in BOOLEAN /\ (reserved' => ~ control'.dest)
  BY Zenon, <1>1, <1>13, <1>14
<1>18. FinishedSound'
  <2> SUFFICES ASSUME pc' = "done" PROVE FinishedSound'
    BY DEF FinishedSound
  <2>1. Finish(S, t)
    BY <1>1, <1>4 DEF Oversized, RaiseFee
  <2>2. nFeeRet' = t.fee /\ t.fee >= RequiredFee(Size(S, t.change))
    BY <2>1 DEF Finish
  <2>3. Worth(setCoins)' = Worth(S)
    <3>1. Worth(setCoins)' = WorthOf(wallet', setCoins')[setCoins']
      BY DEF Worth, MapThenSumSet, MapThenFoldSet, WorthOf
    <3>2. Worth(S) = WorthOf(wallet, S)[S]
      BY DEF Worth, MapThenSumSet, MapThenFoldSet, WorthOf
    <3> QED BY <1>13, <1>14, <3>1, <3>2
  <2>4. RequiredFee(Size(setCoins, nChange))' = RequiredFee(Size(S, t.change))
    BY <1>13, <1>14 DEF RequiredFee, Size
  <2>5. (Worth(setCoins) = nValue + nChange + nFeeRet)'
    BY <1>10, <1>13, <1>14, <2>2, <2>3
  <2>6. (nFeeRet >= RequiredFee(Size(setCoins, nChange)))'
    BY <2>2, <2>4
  <2>7. (nChange = 0 \/ nChange >= MIN_TXOUT_AMOUNT)'
    BY <1>9, <1>14 DEF MIN_TXOUT_AMOUNT
  <2>8. t.change = 0 \/ t.change > 0
    BY <1>9
  <2>9. ~(0 > 0)
    OBVIOUS
  <2>10. (reserved <=> nChange > 0 /\ ~ control.dest)'
    <3>1. CASE t.change = 0
      BY <1>14, <2>9, <3>1
    <3>2. CASE t.change > 0
      BY Zenon, <1>1, <1>13, <1>14, <2>9, <3>2
    <3> QED BY <2>8, <3>1, <3>2
  <2> QED BY <2>5, <2>6, <2>7, <2>10 DEF FinishedSound
<1>19. RefusedOnlyWhenShort'
  <2>1. pc' # "unfunded"
    BY <1>1, <1>4 DEF Oversized, RaiseFee, Finish
  <2> QED BY <2>1 DEF RefusedOnlyWhenShort
<1> QED BY <1>16, <1>17, <1>18, <1>19 DEF CreateInv

(* So does giving up for want of coins. *)
LEMMA UnfundedKeeps ==
    ASSUME CreateInv, Unfunded
    PROVE  CreateInv'
<1>1. /\ wallet' = wallet /\ control' = control /\ nValue' = nValue /\ nFeeRet' = nFeeRet
      /\ nTransactionFee' = nTransactionFee /\ reserved' = reserved /\ pc' = "unfunded"
  BY DEF Unfunded, asked
<1>2. CreateTypes'
  BY <1>1 DEF CreateInv, CreateTypes
<1>3. nValue + nFeeRet \in Nat \ {0}
  BY DEF CreateInv, CreateTypes
<1>4. Worth(IF control.selected # {} THEN control.selected ELSE Eligible(0, 1)) < nValue + nFeeRet
  BY <1>3, SelectFinds DEF CreateInv, Unfunded
<1>5. RefusedOnlyWhenShort'
  <2>1. Worth(Usable)' < nValue' + nFeeRet'
    BY <1>1, <1>4, SameWorth DEF Usable
  <2> QED BY <2>1 DEF RefusedOnlyWhenShort, Usable
<1>6. FinishedSound'
  BY <1>1 DEF FinishedSound
<1> QED BY <1>1, <1>2, <1>5, <1>6 DEF CreateInv

(* The invariant holds in every state of the loop. *)
LEMMA CreateInvariant == CreateSpec => []CreateInv
<1>1. CreateInit => CreateInv
  <2> SUFFICES ASSUME CreateInit PROVE CreateInv
    OBVIOUS
  <2>1. CreateTypes
    <3>1. PICK S \in SUBSET Coin : wallet \in [S -> Outputs]
      BY DEF CreateInit
    <3> QED BY <3>1, CreateAssumption DEF CreateInit, CreateTypes
  <2> QED BY Zenon, <2>1 DEF CreateInit, CreateInv, FinishedSound, RefusedOnlyWhenShort
<1>2. CreateInv /\ [CreateNext]_createVars => CreateInv'
  <2> SUFFICES ASSUME CreateInv, [CreateNext]_createVars PROVE CreateInv'
    OBVIOUS
  <2>1. CASE UNCHANGED createVars
    <3>1. /\ wallet' = wallet /\ control' = control /\ nValue' = nValue
          /\ nTransactionFee' = nTransactionFee /\ nFeeRet' = nFeeRet
          /\ setCoins' = setCoins /\ nChange' = nChange /\ reserved' = reserved /\ pc' = pc
      BY <2>1 DEF createVars, asked
    <3>2. CreateTypes' /\ (reserved \in BOOLEAN /\ (reserved => ~ control.dest))'
      BY <3>1 DEF CreateInv, CreateTypes
    <3>3. RequiredFee(Size(setCoins, nChange))' = RequiredFee(Size(setCoins, nChange))
      BY <3>1 DEF RequiredFee, Size
    <3>4. FinishedSound'
      <4>1. Worth(setCoins)' = Worth(setCoins)
        BY <3>1, SameWorth
      <4> QED BY <3>1, <3>3, <4>1 DEF CreateInv, FinishedSound, MIN_TXOUT_AMOUNT
    <3>5. RefusedOnlyWhenShort'
      <4>1. Worth(Usable)' = Worth(Usable)
        BY <3>1, SameWorth
      <4>2. pc = "unfunded" => Worth(Usable) < nValue + nFeeRet
        BY DEF CreateInv, RefusedOnlyWhenShort, Usable
      <4>3. pc' = "unfunded" => Worth(Usable)' < nValue' + nFeeRet'
        BY <3>1, <4>1, <4>2
      <4> QED BY <4>3 DEF RefusedOnlyWhenShort, Usable
    <3> QED BY <3>2, <3>4, <3>5 DEF CreateInv
  <2> QED BY <2>1, RoundKeeps, UnfundedKeeps DEF CreateNext
<1> QED BY <1>1, <1>2, PTL DEF CreateSpec

(* A finished transaction is worth its payment, change and fee, pays the fee *)
(* its size requires, and holds a reserve key exactly for change to a new *)
(* address: for any wallet, any selection and any number of rounds. *)
THEOREM FinishedAlwaysSound == CreateSpec => []FinishedSound
<1>1. CreateInv => FinishedSound
  BY DEF CreateInv
<1> QED BY <1>1, CreateInvariant, PTL

(* CreateTransaction refuses for want of coins only when the coins it may use *)
(* cannot pay: for any wallet, and whatever the random search finds. *)
THEOREM RefusedWhenShort == CreateSpec => []RefusedOnlyWhenShort
<1>1. CreateInv => RefusedOnlyWhenShort
  BY DEF CreateInv
<1> QED BY <1>1, CreateInvariant, PTL

-----------------------------------------------------------------------------
\* The key pool.

(* A pool, in memory and in wallet.dat, whose records hold different keys, none *)
(* of which is given out (g counts how often a key was). *)
PoolSound(p, g) ==
    /\ p = [set |-> p.set, db |-> p.db, keys |-> p.keys]
    /\ Bounded(p.set) /\ Bounded(DOMAIN p.db)
    /\ p.keys \in Nat
    /\ p.db \in [DOMAIN p.db -> 1..p.keys]
    /\ \A i, j \in DOMAIN p.db : p.db[i] = p.db[j] => i = j
    /\ \A i \in DOMAIN p.db : p.db[i] \in Key => g[p.db[i]] = 0

(* The inductive form of GivenOnce: a key that is in wallet.dat, or is yet to *)
(* be generated, was never given out. *)
KeysInv ==
    /\ PoolSound(Pool, given) /\ nKeys <= MaxKeys
    /\ given \in [Key -> 0..2]
    /\ \A k \in Key : k > nKeys => given[k] = 0
    /\ miner \in [Miner -> [pc : {"rest", "build", "search"}, index : Nat \cup {NoIndex}]]
    /\ GivenOnce

-----------------------------------------------------------------------------
\* What the operations on the pool keep.

(* Writing records changes those with their numbers and no others. *)
LEMMA WrittenRecords ==
    ASSUME NEW new, NEW db
    PROVE  LET w == WritePoolRecords(new, db)
           IN  /\ DOMAIN w = DOMAIN new \cup DOMAIN db
               /\ \A i \in DOMAIN new : w[i] = new[i]
               /\ \A i \in DOMAIN db \ DOMAIN new : w[i] = db[i]
               /\ w = [i \in DOMAIN w |-> w[i]]
BY DEF WritePoolRecords

(* TopUpKeyPool adds records of keys that are generated for them. *)
LEMMA TopUpSound ==
    ASSUME KeysInv
    PROVE  /\ PoolSound(TopUpKeyPool(Pool), given)
           /\ TopUpKeyPool(Pool).keys >= nKeys
<1> DEFINE p == Pool
           missing == Max({0, KeypoolSize + 1 - Cardinality(p.set)})
           end == Max(p.set \cup {0})
           new == (end + 1)..(end + missing)
           q == TopUpKeyPool(Pool)
<1>1. PoolSound(p, given) /\ p.keys = nKeys
  BY DEF KeysInv, Pool
<1>2. missing \in Nat
  <2>1. Cardinality(p.set) \in Nat
    BY <1>1, BoundedFinite DEF PoolSound
  <2>2. PICK x \in Int : x = KeypoolSize + 1 - Cardinality(p.set)
    BY <2>1, KeyPoolAssumption
  <2>3. Max({0, x}) \in Nat
    <3>1. CASE x >= 0
      <4>1. x \in {0, x} /\ \A y \in {0, x} : x >= y
        BY <3>1
      <4> QED BY <4>1, <3>1 DEF Max
    <3>2. CASE x < 0
      <4>1. 0 \in {0, x} /\ \A y \in {0, x} : 0 >= y
        BY <3>2
      <4>2. \A y \in {0, x} : (\A z \in {0, x} : y >= z) => y = 0
        BY <3>2
      <4> QED BY <4>1, <4>2 DEF Max
    <3> QED BY <3>1, <3>2
  <2> QED BY <2>2, <2>3
<1>3. end \in Nat
  <2>1. Bounded(p.set \cup {0})
    BY Zenon, <1>1, BoundedSingle, BoundedUnion DEF PoolSound
  <2>2. end \in p.set \cup {0}
    BY <2>1, MaxOfBounded
  <2> QED BY <2>1, <2>2 DEF Bounded
<1> HIDE DEF missing, end
<1> DEFINE fresh == [i \in new |-> p.keys + (i - end)]
<1> DEFINE db == WritePoolRecords(fresh, p.db)
<1>4. /\ q = [set |-> p.set \cup new, db |-> db, keys |-> p.keys + missing]
      /\ q.set = p.set \cup new /\ q.db = db /\ q.keys = p.keys + missing
  BY DEF TopUpKeyPool, missing, end
<1>5. /\ DOMAIN q.db = new \cup DOMAIN p.db
      /\ \A i \in new : q.db[i] = p.keys + (i - end)
      /\ \A i \in DOMAIN p.db \ new : q.db[i] = p.db[i]
      /\ q.db = [i \in DOMAIN q.db |-> q.db[i]]
  <2>1. DOMAIN fresh = new /\ \A i \in new : fresh[i] = p.keys + (i - end)
    OBVIOUS
  <2> HIDE DEF fresh, q, p, new
  <2>2. /\ DOMAIN db = DOMAIN fresh \cup DOMAIN p.db
        /\ \A i \in DOMAIN fresh : db[i] = fresh[i]
        /\ \A i \in DOMAIN p.db \ DOMAIN fresh : db[i] = p.db[i]
        /\ db = [i \in DOMAIN db |-> db[i]]
    BY ZenonT(60), WrittenRecords
  <2> HIDE DEF db
  <2> QED BY <1>4, <2>1, <2>2
<1>6. Bounded(new)
  <2>1. end + missing \in Nat /\ new \subseteq 0..(end + missing)
    BY <1>2, <1>3
  <2> QED BY <2>1 DEF Bounded
<1>7. p.keys \in Nat /\ q.keys \in Nat /\ q.keys >= p.keys
  BY <1>1, <1>2, <1>4 DEF PoolSound
<1>8. \A i \in new : q.db[i] \in (p.keys + 1)..q.keys
  <2> SUFFICES ASSUME NEW i \in new PROVE p.keys + (i - end) \in (p.keys + 1)..q.keys
    BY <1>5
  <2>1. i \in Int /\ 1 <= i - end /\ i - end <= missing
    BY <1>2, <1>3
  <2> QED BY SMTT(60), <1>2, <1>3, <1>4, <1>7, <2>1
<1>9. \A i \in DOMAIN p.db : p.db[i] \in 1..p.keys
  BY <1>1 DEF PoolSound
<1> HIDE DEF q, new, p
<1>10. q.db \in [DOMAIN q.db -> 1..q.keys]
  <2>1. \A i \in DOMAIN q.db : q.db[i] \in 1..q.keys
    BY <1>5, <1>7, <1>8, <1>9
  <2> QED BY ZenonT(60), <1>5, <2>1
<1>11. ASSUME NEW i \in DOMAIN q.db, NEW j \in DOMAIN q.db, q.db[i] = q.db[j]
       PROVE  i = j
  <2>1. CASE i \in new /\ j \in new
    BY <1>3, <1>5, <1>7, <1>11, <2>1 DEF new
  <2>2. CASE i \notin new /\ j \notin new
    BY SMTT(60), <1>1, <1>5, <1>11, <2>2 DEF PoolSound
  <2>3. CASE (i \in new) # (j \in new)
    BY SMTT(60), <1>5, <1>7, <1>8, <1>9, <1>11, <2>3
  <2> QED BY <2>1, <2>2, <2>3
<1>12. ASSUME NEW i \in DOMAIN q.db, q.db[i] \in Key
       PROVE  given[q.db[i]] = 0
  <2>1. CASE i \in new
    <3>1. q.db[i] > nKeys
      BY SMTT(60), <1>1, <1>7, <1>8, <2>1
    <3> QED BY <1>12, <3>1 DEF KeysInv
  <2>2. CASE i \notin new
    BY SMTT(60), <1>1, <1>5, <1>12, <2>2 DEF PoolSound
  <2> QED BY <2>1, <2>2
<1>13. Bounded(q.set) /\ Bounded(DOMAIN q.db)
  BY SMTT(60), <1>1, <1>4, <1>5, <1>6, BoundedUnion DEF PoolSound
<1>14. q = [set |-> q.set, db |-> q.db, keys |-> q.keys]
  BY <1>4
<1>15. PoolSound(q, given)
  BY <1>7, <1>10, <1>11, <1>12, <1>13, <1>14 DEF PoolSound
<1> QED BY <1>1, <1>7, <1>15 DEF q

(* The pool a reservation draws from is sound. *)
LEMMA StockedSound ==
    ASSUME KeysInv
    PROVE  PoolSound(Stocked, given) /\ Stocked.keys >= nKeys
<1>1. PoolSound(Pool, given) /\ Pool.keys = nKeys /\ nKeys \in Nat
  BY DEF KeysInv, Pool, PoolSound
<1> QED BY SMTT(60), <1>1, TopUpSound DEF Stocked

(* Taking an index out of the set leaves the pool sound. *)
LEMMA SetSound ==
    ASSUME NEW p, NEW g, PoolSound(p, g), NEW S, Bounded(S)
    PROVE  /\ PoolSound([p EXCEPT !.set = S], g)
           /\ [p EXCEPT !.set = S].set = S
           /\ [p EXCEPT !.set = S].db = p.db
           /\ [p EXCEPT !.set = S].keys = p.keys
<1>1. /\ [p EXCEPT !.set = S] = [set |-> S, db |-> p.db, keys |-> p.keys]
      /\ [p EXCEPT !.set = S].set = S
      /\ [p EXCEPT !.set = S].db = p.db
      /\ [p EXCEPT !.set = S].keys = p.keys
  BY DEF PoolSound
<1> QED BY <1>1 DEF PoolSound

(* Erasing a record leaves the pool sound, and its key out of it. *)
LEMMA KeptSound ==
    ASSUME NEW p, NEW g, PoolSound(p, g), NEW i
    PROVE  /\ PoolSound(Kept(p, i), g)
           /\ Kept(p, i).set = p.set /\ Kept(p, i).keys = p.keys
           /\ DOMAIN Kept(p, i).db = DOMAIN p.db \ {i}
           /\ \A j \in DOMAIN Kept(p, i).db : Kept(p, i).db[j] = p.db[j]
<1> DEFINE f == [j \in DOMAIN p.db \ {i} |-> p.db[j]]
           q == Kept(p, i)
<1>1. p = [set |-> p.set, db |-> p.db, keys |-> p.keys]
  BY DEF PoolSound
<1>2. /\ q = [set |-> p.set, db |-> f, keys |-> p.keys]
      /\ q.set = p.set /\ q.keys = p.keys /\ q.db = f
  BY <1>1 DEF Kept, Restrict
<1>3. DOMAIN f = DOMAIN p.db \ {i} /\ \A j \in DOMAIN f : f[j] = p.db[j]
  OBVIOUS
<1>4. f \in [DOMAIN f -> 1..p.keys]
  BY <1>3 DEF PoolSound
<1> HIDE DEF f, q
<1>5. Bounded(DOMAIN f)
  BY SMTT(60), <1>3, BoundedSubset DEF PoolSound
<1>6. PoolSound(q, g)
  BY SMTT(60), <1>2, <1>3, <1>4, <1>5 DEF PoolSound
<1> QED BY <1>2, <1>3, <1>6 DEF q

-----------------------------------------------------------------------------
\* The steps.

(* A pool that is sound takes the place of the present one. *)
LEMMA BecomeKeeps ==
    ASSUME KeysInv, NEW p, PoolSound(p, given), p.keys >= nKeys, Become(p),
           UNCHANGED given,
           miner' \in [Miner -> [pc : {"rest", "build", "search"},
                                 index : Nat \cup {NoIndex}]]
    PROVE  KeysInv'
<1>1. /\ setKeyPool' = p.set /\ poolDb' = p.db /\ nKeys' = p.keys
      /\ nKeys' <= MaxKeys
  BY DEF Become
<1>2. PoolSound(Pool, given)'
  <2>1. Pool' = p
    BY <1>1 DEF Pool, PoolSound
  <2> QED BY <2>1
<1>3. ASSUME NEW k \in Key, k > nKeys' PROVE given'[k] = 0
  <2>1. k > nKeys
    BY <1>1, <1>3, KeyPoolAssumption DEF Key, KeysInv, PoolSound, Pool
  <2> QED BY SMTT(60), <2>1 DEF KeysInv
<1> QED BY <1>1, <1>2, <1>3 DEF KeysInv, GivenOnce

(* The default key apart, a key that leaves the pool is given for the first *)
(* time, and its record is gone from wallet.dat. *)
LEMMA GetKeyKeeps ==
    ASSUME KeysInv, GetKeyFromPool
    PROVE  KeysInv'
<1> DEFINE p == Stocked
           i == First(p)
           k == p.db[i]
           q == Kept(Reserved(p), i)
<1>1. /\ i \in DOMAIN p.db /\ Become(q) /\ Give(k)
      /\ UNCHANGED <<crypted, locked, task, miner, restarts>>
  BY DEF GetKeyFromPool, Readable
<1>2. PoolSound(p, given) /\ p.keys >= nKeys
  BY StockedSound
<1>3. /\ PoolSound(Reserved(p), given) /\ Reserved(p).db = p.db
      /\ Reserved(p).keys = p.keys
  <2>1. Bounded(p.set \ {i})
    BY SMTT(60), <1>2, BoundedSubset DEF PoolSound
  <2> QED BY <1>2, <2>1, SetSound DEF Reserved
<1> HIDE DEF p, i
<1>4. /\ PoolSound(q, given) /\ q.keys = p.keys
      /\ DOMAIN q.db = DOMAIN p.db \ {i}
      /\ \A j \in DOMAIN q.db : q.db[j] = p.db[j]
  BY SMTT(60), <1>3, KeptSound
<1> HIDE DEF q
<1>5. q.keys <= MaxKeys /\ q.keys \in Nat /\ Pool' = q /\ nKeys' = q.keys
  BY SMTT(60), <1>1, <1>4 DEF Become, Pool, PoolSound
<1>6. k \in Key /\ k <= q.keys
  BY SMTT(60), <1>1, <1>2, <1>4, <1>5, KeyPoolAssumption DEF Key, PoolSound
<1>7. given[k] = 0
  BY <1>1, <1>2, <1>6 DEF PoolSound
<1> HIDE DEF k
<1>8. /\ given' \in [Key -> 0..2] /\ given'[k] = 1
      /\ \A x \in Key \ {k} : given'[x] = given[x]
  <2>1. Min({2, 0 + 1}) = 1
    <3>1. 1 \in {2, 0 + 1} /\ \A y \in {2, 0 + 1} : 1 <= y
      OBVIOUS
    <3>2. \A x \in {2, 0 + 1} : (\A y \in {2, 0 + 1} : x <= y) => x = 1
      OBVIOUS
    <3> QED BY <3>1, <3>2 DEF Min
  <2>2. given' = [given EXCEPT ![k] = 1]
    BY Zenon, <1>1, <1>7, <2>1 DEF Give
  <2> QED BY <1>6, <2>2 DEF KeysInv
<1>9. PoolSound(Pool, given)'
  <2>1. ASSUME NEW j \in DOMAIN q.db, q.db[j] \in Key
        PROVE  given'[q.db[j]] = 0
    <3>1. q.db[j] # k
      BY <1>1, <1>2, <1>4 DEF PoolSound, k
    <3>2. given[q.db[j]] = 0
      BY <1>4, <2>1 DEF PoolSound
    <3> QED BY <1>8, <2>1, <3>1, <3>2
  <2>2. PoolSound(q, given')
    BY <1>4, <2>1 DEF PoolSound
  <2> QED BY <1>5, <2>2
<1>10. \A x \in Key : x > nKeys' => given'[x] = 0
  <2> SUFFICES ASSUME NEW x \in Key, x > nKeys' PROVE given'[x] = 0
    BY SMTT(60)
  <2>1. x # k /\ x > nKeys
    BY <1>2, <1>4, <1>5, <1>6, KeyPoolAssumption DEF Key, KeysInv, PoolSound, Pool
  <2> QED BY <1>8, <2>1 DEF KeysInv
<1>11. GivenOnce'
  BY <1>6, <1>8 DEF GivenOnce, KeysInv
<1>12. miner' = miner
  BY <1>1
<1> QED BY <1>5, <1>8, <1>9, <1>10, <1>11, <1>12 DEF KeysInv

(* A miner takes an index out of memory and puts it back; it keeps none. *)
LEMMA MinerKeeps ==
    ASSUME KeysInv, NEW m \in Miner,
           StartBlock(m) \/ EndBlock(m) \/ CheckWork(m) \/ DropBlock(m)
    PROVE  KeysInv'
<1> DEFINE States == [pc : {"rest", "build", "search"}, index : Nat \cup {NoIndex}]
<1>1. /\ miner \in [Miner -> States] /\ PoolSound(Pool, given)
      /\ Pool.keys = nKeys /\ nKeys \in Nat
  BY DEF KeysInv, Pool, PoolSound
<1>2. Rest \in States
  BY DEF Rest
<1>3. CASE StartBlock(m)
  <2> DEFINE p == Stocked
             i == First(p)
  <2>1. PoolSound(p, given) /\ p.keys >= nKeys
    BY StockedSound
  <2>2. i \in Nat \cup {NoIndex}
    <3>1. i # NoIndex => i \in DOMAIN p.db
      BY <1>3 DEF StartBlock, Readable
    <3> QED BY <2>1, <3>1 DEF PoolSound, Bounded
  <2>3. miner' \in [Miner -> States]
    BY <1>1, <1>3, <2>2 DEF StartBlock
  <2>4. PoolSound(Reserved(p), given) /\ Reserved(p).keys = p.keys
    <3>1. Bounded(p.set \ {i})
      BY <2>1, BoundedSubset DEF PoolSound
    <3> QED BY <2>1, <3>1, SetSound DEF Reserved
  <2>5. Become(Reserved(p)) /\ given' = given
    BY <1>3 DEF StartBlock
  <2> HIDE DEF p
  <2> QED BY <2>1, <2>3, <2>4, <2>5, BecomeKeeps
<1>4. CASE EndBlock(m)
  <2> DEFINE i == miner[m].index
  <2>1. i \in Nat \cup {NoIndex}
    BY <1>1
  <2>2. Bounded({i} \ {NoIndex})
    <3>1. CASE i = NoIndex
      <4>1. {i} \ {NoIndex} \subseteq 0..0
        BY <3>1
      <4> QED BY <4>1 DEF Bounded
    <3>2. CASE i \in Nat
      <4>1. Bounded({i}) /\ {i} \ {NoIndex} \subseteq {i}
        BY <3>2, BoundedSingle
      <4> HIDE DEF i
      <4> QED BY <4>1, BoundedSubset
    <3> QED BY <2>1, <3>1, <3>2
  <2>3. PoolSound(Returned(Pool, i), given) /\ Returned(Pool, i).keys = nKeys
    <3>1. Bounded(Pool.set \cup ({i} \ {NoIndex}))
      BY <1>1, <2>2, BoundedUnion DEF PoolSound
    <3> QED BY Zenon, <1>1, <3>1, SetSound DEF Returned
  <2>4. Become(Returned(Pool, i)) /\ given' = given
    BY <1>4 DEF EndBlock
  <2>5. miner' \in [Miner -> States]
    BY ZenonT(60), <1>1, <1>4 DEF EndBlock
  <2> QED BY <1>1, <2>3, <2>4, <2>5, BecomeKeeps
<1>5. CASE CheckWork(m)
  <2> DEFINE i == miner[m].index
  <2>1. PoolSound(Kept(Pool, i), given) /\ Kept(Pool, i).keys = nKeys
    BY <1>1, KeptSound
  <2>2. Become(Kept(Pool, i)) /\ given' = given
    BY <1>5 DEF CheckWork
  <2>3. miner' \in [Miner -> States]
    BY SMTT(60), <1>1, <1>2, <1>5 DEF CheckWork
  <2> QED BY <1>1, <2>1, <2>2, <2>3, BecomeKeeps
<1>6. CASE DropBlock(m)
  <2>1. miner' \in [Miner -> States]
    BY <1>1, <1>2, <1>6 DEF DropBlock
  <2> QED BY <1>6, <2>1 DEF DropBlock, KeysInv, GivenOnce, Pool
<1> QED BY SMTT(60), <1>3, <1>4, <1>5, <1>6

(* A record of a key that was just generated goes in place of any record with *)
(* its number. *)
LEMMA WritePoolKeeps ==
    ASSUME KeysInv, WritePool
    PROVE  KeysInv'
<1> DEFINE i == Cardinality(setKeyPool) + 1
           new == [j \in {i} |-> nKeys + 1]
           db == WritePoolRecords(new, poolDb)
           q == [set |-> setKeyPool \cup {i}, db |-> db, keys |-> nKeys + 1]
<1>1. /\ PoolSound(Pool, given) /\ nKeys \in Nat /\ Bounded(setKeyPool)
      /\ Bounded(DOMAIN poolDb) /\ poolDb \in [DOMAIN poolDb -> 1..nKeys]
      /\ \A j, l \in DOMAIN poolDb : poolDb[j] = poolDb[l] => j = l
      /\ \A j \in DOMAIN poolDb : poolDb[j] \in Key => given[poolDb[j]] = 0
  BY DEF KeysInv, Pool, PoolSound
<1>2. i \in Nat
  BY <1>1, BoundedFinite, FS_CardinalityType
<1>3. miner' = miner /\ given' = given
  BY DEF WritePool
<1>4. CASE i <= KeypoolSize
  <2>1. Become(q)
    BY <1>4 DEF WritePool
  <2>2. DOMAIN new = {i} /\ new[i] = nKeys + 1
    OBVIOUS
  <2>3. /\ DOMAIN db = {i} \cup DOMAIN poolDb /\ db[i] = nKeys + 1
        /\ \A j \in DOMAIN poolDb \ {i} : db[j] = poolDb[j]
        /\ db = [j \in DOMAIN db |-> db[j]]
    <3> HIDE DEF new, i
    <3>1. /\ DOMAIN db = DOMAIN new \cup DOMAIN poolDb
          /\ \A j \in DOMAIN new : db[j] = new[j]
          /\ \A j \in DOMAIN poolDb \ DOMAIN new : db[j] = poolDb[j]
          /\ db = [j \in DOMAIN db |-> db[j]]
      BY Zenon, WrittenRecords
    <3> HIDE DEF db
    <3> QED BY <2>2, <3>1
  <2> HIDE DEF db, i
  <2>4. Bounded(setKeyPool \cup {i}) /\ Bounded(DOMAIN db)
    <3>1. Bounded({i})
      BY <1>2, BoundedSingle
    <3>2. Bounded(setKeyPool \cup {i}) /\ Bounded({i} \cup DOMAIN poolDb)
      BY <1>1, <3>1, BoundedUnion
    <3> QED BY <2>3, <3>2
  <2>5. db \in [DOMAIN db -> 1..(nKeys + 1)]
    <3>1. \A j \in DOMAIN db : db[j] \in 1..(nKeys + 1)
      BY <1>1, <2>3
    <3> QED BY <2>3, <3>1
  <2>6. \A j, l \in DOMAIN db : db[j] = db[l] => j = l
    <3>1. \A j \in DOMAIN poolDb : poolDb[j] # nKeys + 1
      BY <1>1
    <3> QED BY <1>1, <2>3, <3>1
  <2>7. \A j \in DOMAIN db : db[j] \in Key => given[db[j]] = 0
    <3>1. nKeys + 1 \in Key => given[nKeys + 1] = 0
      BY SMTT(60), <1>1 DEF KeysInv
    <3> QED BY <1>1, <2>3, <3>1
  <2>8. PoolSound(q, given)
    BY SMTT(60), <1>1, <2>4, <2>5, <2>6, <2>7 DEF PoolSound
  <2>9. q.keys >= nKeys
    BY <1>1
  <2>10. miner' \in [Miner -> [pc : {"rest", "build", "search"},
                               index : Nat \cup {NoIndex}]]
    BY SMTT(60), <1>3 DEF KeysInv
  <2> HIDE DEF q
  <2> QED BY SMTT(60), <1>3, <2>1, <2>8, <2>9, <2>10, BecomeKeeps
<1>5. CASE ~(i <= KeypoolSize)
  <2>1. UNCHANGED <<poolDb, setKeyPool, nKeys>>
    BY <1>5 DEF WritePool
  <2> QED BY <1>3, <2>1 DEF KeysInv, GivenOnce, Pool
<1> QED BY SMTT(60), <1>4, <1>5

(* Every step keeps the inductive form. *)
LEMMA StepKeepsKeys ==
    ASSUME KeysInv, [KeyPoolNext]_keyVars
    PROVE  KeysInv'
<1> DEFINE States == [pc : {"rest", "build", "search"}, index : Nat \cup {NoIndex}]
<1>1. /\ miner \in [Miner -> States] /\ PoolSound(Pool, given)
      /\ Pool.keys = nKeys /\ nKeys \in Nat
  BY DEF KeysInv, Pool, PoolSound
<1>2. CASE GetKeyFromPool
  BY <1>2, GetKeyKeeps
<1>3. CASE ReadFails
  <2> DEFINE p == Stocked
  <2>1. PoolSound(p, given) /\ p.keys >= nKeys
    BY StockedSound
  <2>2. PoolSound(Reserved(p), given) /\ Reserved(p).keys = p.keys
    <3>1. Bounded(p.set \ {First(p)})
      BY <2>1, BoundedSubset DEF PoolSound
    <3> QED BY SMTT(60), <2>1, <3>1, SetSound DEF Reserved
  <2>3. Become(Reserved(p)) /\ given' = given /\ miner' = miner
    BY <1>3 DEF ReadFails
  <2> HIDE DEF p
  <2> QED BY <1>1, <2>1, <2>2, <2>3, BecomeKeeps
<1>4. CASE Refill
  <2>1. Become(Stocked) /\ given' = given /\ miner' = miner
    BY <1>4 DEF Refill
  <2> QED BY <1>1, <2>1, StockedSound, BecomeKeeps
<1>5. CASE \E m \in Miner : StartBlock(m) \/ EndBlock(m) \/ CheckWork(m) \/ DropBlock(m)
  BY SMTT(60), <1>5, MinerKeeps
<1>6. CASE EncryptWallet \/ SetLocked
  BY <1>6 DEF EncryptWallet, SetLocked, KeysInv, GivenOnce, Pool
<1>7. CASE ErasePool
  <2> DEFINE left == setKeyPool \cap DOMAIN poolDb
             q == [Pool EXCEPT !.set = {}]
  <2>1. given' = given /\ miner' = miner
    BY <1>7 DEF ErasePool
  <2>2. CASE left # {}
    <3>1. Become(Kept(Pool, Min(left)))
      BY <1>7, <2>2 DEF ErasePool
    <3>2. /\ PoolSound(Kept(Pool, Min(left)), given)
          /\ Kept(Pool, Min(left)).keys = nKeys
      BY <1>1, KeptSound
    <3> HIDE DEF left
    <3> QED BY <1>1, <2>1, <3>1, <3>2, BecomeKeeps
  <2>3. CASE left = {}
    <3>1. Become(q)
      BY <1>7, <2>3 DEF ErasePool
    <3>2. Bounded({})
      BY DEF Bounded
    <3>3. PoolSound(q, given) /\ q.keys = nKeys
      BY Zenon, <1>1, <3>2, SetSound
    <3> HIDE DEF q
    <3> QED BY <1>1, <2>1, <3>1, <3>3, BecomeKeeps
  <2> QED BY <2>2, <2>3
<1>8. CASE WritePool
  BY <1>8, WritePoolKeeps
<1>9. CASE Restart
  <2> DEFINE q == [Pool EXCEPT !.set = DOMAIN poolDb]
  <2>1. /\ setKeyPool' = DOMAIN poolDb
        /\ miner' = [m \in Miner |-> Rest]
        /\ UNCHANGED <<poolDb, nKeys, given>>
    BY <1>9 DEF Restart
  <2>2. Bounded(DOMAIN poolDb)
    BY <1>1 DEF Pool, PoolSound
  <2>3. PoolSound(q, given) /\ q.keys = nKeys
    BY <1>1, <2>2, SetSound
  <2>4. Become(q)
    BY <2>1 DEF Become, Pool, KeysInv
  <2>5. miner' \in [Miner -> States]
    BY SMTT(60), <2>1 DEF Rest
  <2> HIDE DEF q
  <2> QED BY <1>1, <2>1, <2>3, <2>4, <2>5, BecomeKeeps
<1>10. CASE UNCHANGED keyVars
  BY <1>10 DEF keyVars, KeysInv, GivenOnce, Pool
<1> QED BY SMTT(60), <1>2, <1>3, <1>4, <1>5, <1>6, <1>7, <1>8, <1>9, <1>10 DEF KeyPoolNext

(* The pool of the first start is sound: the default key is not in it. *)
LEMMA InitKeepsKeys ==
    ASSUME KeyPoolInit
    PROVE  KeysInv
<1>1. KeypoolSize \in Nat /\ MaxKeys \in Nat /\ KeypoolSize + 1 <= MaxKeys
  BY SMTT(60), KeyPoolAssumption
<1>2. PoolSound(Pool, given)
  <2>1. KeypoolSize + 1 \in Nat /\ 2..(KeypoolSize + 1) \subseteq 0..(KeypoolSize + 1)
    BY <1>1
  <2>2. Bounded(2..(KeypoolSize + 1))
    BY <2>1 DEF Bounded
  <2>3. \A i \in 2..(KeypoolSize + 1) : i \in 1..(KeypoolSize + 1) /\ i # 1
    BY <1>1
  <2>4. /\ DOMAIN poolDb = 2..(KeypoolSize + 1)
        /\ \A i \in DOMAIN poolDb : poolDb[i] = i
        /\ poolDb \in [DOMAIN poolDb -> 1..nKeys]
    BY <2>3 DEF KeyPoolInit
  <2>5. \A i \in DOMAIN poolDb : poolDb[i] \in Key => given[poolDb[i]] = 0
    BY <2>3, <2>4 DEF KeyPoolInit, DefaultKey
  <2>6. setKeyPool = 2..(KeypoolSize + 1) /\ nKeys \in Nat
    BY <1>1 DEF KeyPoolInit
  <2> QED BY <2>2, <2>4, <2>5, <2>6 DEF PoolSound, Pool
<1>3. given \in [Key -> 0..2]
  BY DEF KeyPoolInit
<1>4. \A k \in Key : k > nKeys => given[k] = 0
  BY <1>1 DEF KeyPoolInit, Key, DefaultKey
<1>5. miner \in [Miner -> [pc : {"rest", "build", "search"},
                           index : Nat \cup {NoIndex}]]
  BY DEF KeyPoolInit, Rest
<1>6. GivenOnce
  BY DEF KeyPoolInit, GivenOnce, DefaultKey
<1> QED BY <1>1, <1>2, <1>3, <1>4, <1>5, <1>6 DEF KeysInv, KeyPoolInit

(* GetKeyFromPool, and CreateTransaction with CommitTransaction, never hand out *)
(* a key that was handed out before, however CreateNewBlock reserves and       *)
(* returns indices, EncryptWallet replaces the records, and the program stops. *)
THEOREM KeysGivenOnce == KeyPoolSpec => []GivenOnce
<1>1. KeyPoolInit => KeysInv
  BY InitKeepsKeys
<1>2. KeysInv /\ [KeyPoolNext]_keyVars => KeysInv'
  BY StepKeepsKeys
<1>3. KeysInv => GivenOnce
  BY DEF KeysInv
<1> QED BY <1>1, <1>2, <1>3, PTL DEF KeyPoolSpec
=============================================================================
