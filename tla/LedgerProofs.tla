---------------------------- MODULE LedgerProofs ----------------------------
(***************************************************************************)
(* What the operators of Uint128, Accounts and Transfers compute, for every *)
(* word size and all accounts, holds and transfers: the two-word arithmetic, *)
(* sums over holds and accounts, the effect of a transfer, and that the    *)
(* validator and the account manager agree on it.  EventLoopProofs builds on *)
(* these facts.  Facts about sums and loops are proved by taking a least   *)
(* counterexample: LeastNat stands in for induction.                       *)
(***************************************************************************)
EXTENDS Transfers, FiniteSetTheorems, TLAPS

\* Leaves with arithmetic, or too many functions and records for Zenon, name SMT.
USE Zenon

(* Two-word integers (uint128.go) *)

\* One high word more is worth more than any low word (uint128.go: Hi contains
\* the most significant 64 bits).
LEMMA HighWordDecides ==
  ASSUME NEW a \in Words, NEW b \in Words, a.hi < b.hi
  PROVE  number(a) < number(b)
<1>1. a.hi + 1 <= b.hi /\ a.hi \in Nat /\ b.hi \in Nat /\ a.lo \in Nat /\ b.lo \in Nat /\ a.lo < Base
  BY SMTT(30), BaseAssumption DEF Words, Word
<1>2. (a.hi + 1) * Base <= b.hi * Base
  BY SMTT(30), <1>1, BaseAssumption
<1>3. (a.hi + 1) * Base = a.hi * Base + Base
  BY SMTT(30), <1>1, BaseAssumption
<1>4. a.hi * Base \in Nat /\ b.hi * Base \in Nat
  BY SMTT(30), <1>1, BaseAssumption
<1> QED
  BY SMTT(30), <1>1, <1>2, <1>3, <1>4, BaseAssumption DEF number

\* Cmp of uint128.go orders two-word integers as the numbers they stand for.
THEOREM CmpExact ==
  ASSUME NEW a \in Words, NEW b \in Words
  PROVE  /\ Cmp(a, b) < 0 <=> number(a) < number(b)
         /\ Cmp(a, b) = 0 <=> number(a) = number(b)
<1>1. a.hi \in Nat /\ b.hi \in Nat /\ a.lo \in Nat /\ b.lo \in Nat /\ number(a) \in Nat /\ number(b) \in Nat
  BY SMTT(30), BaseAssumption DEF Words, Word, number
<1>2. CASE a.hi < b.hi
  BY SMTT(30), <1>1, <1>2, HighWordDecides DEF Cmp
<1>3. CASE b.hi < a.hi
  BY SMTT(30), <1>1, <1>3, HighWordDecides DEF Cmp
<1>4. CASE a.hi = b.hi
  BY SMTT(30), <1>1, <1>4, BaseAssumption DEF Cmp, number
<1> QED
  BY SMTT(30), <1>1, <1>2, <1>3, <1>4

\* Add returns the sum, and ErrUint128Overflow exactly when the sum needs more
\* than two words.
THEOREM AddExact ==
  ASSUME NEW a \in Words, NEW b \in Words
  PROVE  /\ Add(a, b).ok <=> number(a) + number(b) < Base * Base
         /\ Add(a, b).ok => Add(a, b).v \in Words /\ number(Add(a, b).v) = number(a) + number(b)
  BY SMTT(30), BaseAssumption DEF Add, carryOut, Add64, ok, failed, number, Words, Word, Zero

\* Sub returns the difference, and ErrUint128Underflow exactly when it would be
\* negative.
THEOREM SubExact ==
  ASSUME NEW a \in Words, NEW b \in Words
  PROVE  /\ Sub(a, b).ok <=> number(b) <= number(a)
         /\ Sub(a, b).ok => Sub(a, b).v \in Words /\ number(Sub(a, b).v) = number(a) - number(b)
  BY SMTT(30), BaseAssumption DEF Sub, Cmp, borrowOut, Sub64, ok, failed, number, Words, Word, Zero

\* bits.Mul64 splits the product of two words into two words.
LEMMA ProductWords ==
  ASSUME NEW x \in Word, NEW y \in Word
  PROVE  /\ Mul64Hi(x, y) \in Word /\ Mul64Lo(x, y) \in Word
         /\ x * y = Mul64Hi(x, y) * Base + Mul64Lo(x, y)
  BY SMTT(30), BaseAssumption DEF Word, Mul64Hi, Mul64Lo

\* The product of a two-word integer and a word, put together from the words of
\* the two partial products, as mul64 does it.
LEMMA PartialProducts ==
  ASSUME NEW a \in Words, NEW w \in Word
  PROVE  number(a) * w = Mul64Hi(a.hi, w) * (Base * Base)
                         + (Mul64Lo(a.hi, w) + Mul64Hi(a.lo, w)) * Base + Mul64Lo(a.lo, w)
<1> DEFINE hh == Mul64Hi(a.hi, w)
           hl == Mul64Lo(a.hi, w)
           lh == Mul64Hi(a.lo, w)
           ll == Mul64Lo(a.lo, w)
<1>1. a.hi \in Word /\ a.lo \in Word
  BY DEF Words
<1>2. hh \in Word /\ hl \in Word /\ a.hi * w = hh * Base + hl
  BY <1>1, ProductWords
<1>3. lh \in Word /\ ll \in Word /\ a.lo * w = lh * Base + ll
  BY <1>1, ProductWords
<1> HIDE DEF hh, hl, lh, ll
<1>4. number(a) * w = (a.hi * w) * Base + a.lo * w
  BY SMTT(30), <1>1, BaseAssumption DEF number, Word
<1>5. (hh * Base + hl) * Base = hh * (Base * Base) + hl * Base
  BY SMTT(30), <1>2, BaseAssumption DEF Word
<1>6. (hl + lh) * Base = hl * Base + lh * Base
  BY SMTT(30), <1>2, <1>3, BaseAssumption DEF Word
<1>7. number(a) * w = hh * (Base * Base) + hl * Base + (lh * Base + ll)
  BY <1>2, <1>3, <1>4, <1>5
<1>8. number(a) * w = hh * (Base * Base) + (hl + lh) * Base + ll
  <2>1. /\ hh * (Base * Base) \in Nat /\ hl * Base \in Nat /\ lh * Base \in Nat /\ ll \in Nat
    BY SMTT(30), <1>2, <1>3, BaseAssumption DEF Word
  <2> QED
    BY SMTT(30), <2>1, <1>6, <1>7
<1> QED
  BY <1>8 DEF hh, hl, lh, ll

\* mul64 returns the product, and ErrUint128Overflow exactly when the product
\* needs more than two words.
THEOREM MulExact ==
  ASSUME NEW a \in Words, NEW w \in Word
  PROVE  /\ mul64(a, w).ok <=> number(a) * w < Base * Base
         /\ mul64(a, w).ok => mul64(a, w).v \in Words /\ number(mul64(a, w).v) = number(a) * w
<1> DEFINE hh == Mul64Hi(a.hi, w)
           hl == Mul64Lo(a.hi, w)
           lh == Mul64Hi(a.lo, w)
           ll == Mul64Lo(a.lo, w)
<1>1. hh \in Word /\ hl \in Word /\ lh \in Word /\ ll \in Word
  BY ProductWords DEF Words
<1>2. number(a) * w = hh * (Base * Base) + (hl + lh) * Base + ll
  BY PartialProducts
<1>3. CASE hh = 0 /\ hl + lh < Base
  <2>1. mul64(a, w) = ok([hi |-> hl + lh, lo |-> ll])
    BY SMTT(30), <1>1, <1>3, BaseAssumption DEF mul64, carryOut, Add64, Word
  <2> HIDE DEF hh, hl, lh, ll
  <2>2. number(a) * w = (hl + lh) * Base + ll
    BY SMTT(30), <1>1, <1>2, <1>3, BaseAssumption DEF Word
  <2>3. [hi |-> hl + lh, lo |-> ll] \in Words
    BY SMTT(30), <1>1, <1>3, BaseAssumption DEF Words, Word
  <2>4. (hl + lh) * Base + ll < Base * Base
    BY SMTT(30), <1>1, <1>3, BaseAssumption DEF Word
  <2> QED
    BY SMTT(30), <2>1, <2>2, <2>3, <2>4 DEF ok, number
<1>4. CASE hh # 0 \/ hl + lh >= Base
  <2>1. mul64(a, w) = failed
    BY SMTT(30), <1>1, <1>4, BaseAssumption DEF mul64, carryOut, Word
  <2> HIDE DEF hh, hl, lh, ll
  <2>2. hh * (Base * Base) + (hl + lh) * Base + ll >= Base * Base
    BY SMTT(30), <1>1, <1>4, BaseAssumption DEF Word
  <2>3. ~(number(a) * w < Base * Base)
    <3>1. hh * (Base * Base) + (hl + lh) * Base + ll \in Nat /\ Base * Base \in Nat
      BY SMTT(30), <1>1, BaseAssumption DEF Word
    <3> QED
      BY SMTT(30), <3>1, <2>2, <1>2
  <2> QED
    BY SMTT(30), <2>1, <2>3 DEF failed
<1> QED
  BY SMTT(30), <1>1, <1>3, <1>4, BaseAssumption DEF Word

\* One digit of FromString: the value read so far is multiplied by the radix
\* and the digit is added, and it fails exactly when the longer number does not
\* fit.
THEOREM DigitExact ==
  ASSUME NEW a \in Words, NEW d \in 0 .. Radix - 1
  PROVE  /\ appendDigit(a, d).ok <=> number(a) * Radix + d < Base * Base
         /\ appendDigit(a, d).ok => /\ appendDigit(a, d).v \in Words
                                    /\ number(appendDigit(a, d).v) = number(a) * Radix + d
<1> DEFINE m == mul64(a, Radix)
<1>1. Radix \in Word /\ d \in Nat /\ FromUint64(d) \in Words /\ number(FromUint64(d)) = d
  BY SMTT(30), BaseAssumption DEF Word, Words, FromUint64, number
<1>2. /\ m.ok <=> number(a) * Radix < Base * Base
      /\ m.ok => m.v \in Words /\ number(m.v) = number(a) * Radix
  BY <1>1, MulExact
<1>3. number(a) * Radix \in Nat /\ Base * Base \in Nat
  BY SMTT(30), BaseAssumption DEF number, Words, Word
<1>4. CASE m.ok
  <2>1. appendDigit(a, d) = Add(m.v, FromUint64(d))
    BY <1>4 DEF appendDigit
  <2> HIDE DEF m
  <2> QED
    BY SMTT(30), <1>1, <1>2, <1>4, <2>1, AddExact
<1>5. CASE ~m.ok
  <2>1. appendDigit(a, d) = failed
    BY <1>5 DEF appendDigit
  <2>2. ~(number(a) * Radix + d < Base * Base)
    BY SMTT(30), <1>1, <1>2, <1>3, <1>5
  <2> QED
    BY SMTT(30), <2>1, <2>2 DEF failed
<1> QED
  BY <1>4, <1>5

-----------------------------------------------------------------------------
(* Sums over finite sets *)

\* A set of naturals that is not empty has a least member.
LEMMA LeastNat ==
  ASSUME NEW T, T \subseteq Nat, T # {}
  PROVE  \E n \in T : \A k \in T : n <= k
<1>1. PICK n \in T : \A y \in T : ~ (<<y, n>> \in OpToRel(<, Nat))
  BY WFMin, NatLessThanWellFounded
<1>2. OpToRel(<, Nat) = {p \in Nat \X Nat : p[1] < p[2]}
  BY DEF OpToRel
<1>3. ASSUME NEW k \in T PROVE n <= k
  <2>1. <<k, n>> \in Nat \X Nat OBVIOUS
  <2>2. ~ (k < n) BY <1>1, <1>2, <2>1
  <2> QED BY SMTT(30), <2>2
<1> QED BY <1>3

\* The member a fold takes out of a set.
oneOf(s) == CHOOSE x \in s : TRUE

\* f sums w over every subset of S, in whatever order the members are taken.
Adds(w, S, f) ==
  /\ f \in [SUBSET S -> Int]
  /\ f[{}] = 0
  /\ \A s \in SUBSET S : \A x \in s : f[s] = w[x] + f[s \ {x}]

\* g is the recursion a fold over the subsets of S unrolls to.
Folds(w, S, g) ==
  g = [s \in SUBSET S |-> IF s = {} THEN 0 ELSE w[oneOf(s)] + g[s \ {oneOf(s)}]]

\* A sum over all of S but one member extends to S.
LEMMA AddsMore ==
  ASSUME NEW S, NEW y \in S, NEW w \in [S -> Int], NEW f, Adds(w, S \ {y}, f)
  PROVE  \E g : Adds(w, S, g)
<1> DEFINE g == [s \in SUBSET S |-> IF y \in s THEN w[y] + f[s \ {y}] ELSE f[s]]
<1>0. w[y] \in Int OBVIOUS
<1>1. \A s \in SUBSET S : f[s \ {y}] \in Int /\ (y \notin s => f[s] \in Int)
  <2> TAKE s \in SUBSET S
  <2>1. s \ {y} \in SUBSET (S \ {y}) /\ (y \notin s => s \in SUBSET (S \ {y})) OBVIOUS
  <2> QED BY <2>1 DEF Adds
<1>2. g \in [SUBSET S -> Int]
  <2>1. ASSUME NEW s \in SUBSET S PROVE g[s] \in Int
    <3>1. CASE y \in s BY SMTT(30), <1>0, <1>1, <3>1
    <3>2. CASE y \notin s BY <1>1, <3>2
    <3> QED BY <3>1, <3>2
  <2> QED BY <2>1
<1>3. g[{}] = 0 BY DEF Adds
<1>4. ASSUME NEW s \in SUBSET S, NEW x \in s PROVE g[s] = w[x] + g[s \ {x}]
  <2>1. CASE y \notin s
    <3>1. s \in SUBSET (S \ {y}) /\ s \ {x} \in SUBSET S /\ y \notin s \ {x} BY <2>1
    <3> QED BY <2>1, <3>1 DEF Adds
  <2>2. CASE y \in s /\ x = y
    <3>1. s \ {x} \in SUBSET S /\ y \notin s \ {x} BY <2>2
    <3> QED BY <2>2, <3>1
  <2>3. CASE y \in s /\ x # y
    <3>1. s \ {y} \in SUBSET (S \ {y}) /\ x \in s \ {y} BY <2>3
    <3>2. f[s \ {y}] = w[x] + f[(s \ {y}) \ {x}] BY <3>1 DEF Adds
    <3>3. (s \ {y}) \ {x} = (s \ {x}) \ {y} /\ s \ {x} \in SUBSET S /\ y \in s \ {x} BY <2>3
    <3>4. f[(s \ {x}) \ {y}] \in Int /\ w[x] \in Int /\ w[y] \in Int BY <1>1, <3>3
    <3>5. g[s] = w[y] + f[s \ {y}] /\ g[s \ {x}] = w[y] + f[(s \ {x}) \ {y}] BY <2>3, <3>3
    <3> HIDE DEF g
    <3>6. f[s \ {y}] = w[x] + f[(s \ {x}) \ {y}] BY <3>2, <3>3
    <3>. QED BY SMTT(30), <3>4, <3>5, <3>6
  <2> QED BY <2>1, <2>2, <2>3
<1> HIDE DEF g
<1> QED BY <1>2, <1>3, <1>4 DEF Adds

\* Every finite set has such a sum, by induction on its size.
LEMMA AddsExists ==
  ASSUME NEW S, IsFiniteSet(S), NEW w \in [S -> Int]
  PROVE  \E f : Adds(w, S, f)
<1> DEFINE W(s) == [x \in s |-> w[x]]
<1> DEFINE bad == {n \in Nat : \E s \in SUBSET S : Cardinality(s) = n /\ ~ \E f : Adds(W(s), s, f)}
<1>1. SUFFICES ASSUME bad # {} PROVE FALSE
  <2>1. Cardinality(S) \in Nat BY FS_CardinalityType
  <2>2. W(S) = w OBVIOUS
  <2> QED BY <2>1, <2>2
<1>2. PICK n \in bad : \A k \in bad : n <= k
  <2> HIDE DEF bad
  <2>1. bad \subseteq Nat BY DEF bad
  <2> QED BY <1>1, <2>1, LeastNat
<1>3. PICK s \in SUBSET S : Cardinality(s) = n /\ ~ \E f : Adds(W(s), s, f) OBVIOUS
<1>4. IsFiniteSet(s) BY FS_Subset
<1>5. s # {}
  <2>1. Adds(W({}), {}, [t \in SUBSET {} |-> 0]) BY SMTT(30) DEF Adds
  <2> QED BY <1>3, <2>1
<1>6. PICK y \in s : TRUE BY <1>5
<1>7. Cardinality(s \ {y}) = n - 1 /\ n - 1 \in Nat /\ n \in Nat
  <2>1. Cardinality(s \ {y}) \in Nat /\ n \in Nat BY <1>4, FS_RemoveElement, FS_CardinalityType
  <2> QED BY <1>3, <1>4, <1>6, <2>1, FS_RemoveElement
<1>8. n - 1 \notin bad BY SMTT(30), <1>2, <1>7
<1>9. \E f : Adds(W(s \ {y}), s \ {y}, f)
  <2>1. s \ {y} \in SUBSET S OBVIOUS
  <2> QED BY <1>7, <1>8, <2>1
<1>10. PICK f : Adds(W(s \ {y}), s \ {y}, f) BY <1>9
<1>11. Adds(W(s), s \ {y}, f)
  <2>1. \A t \in SUBSET (s \ {y}) : \A x \in t : W(s)[x] = W(s \ {y})[x] OBVIOUS
  <2> QED BY <1>10, <2>1 DEF Adds
<1>12. W(s) \in [s -> Int] OBVIOUS
<1> QED BY <1>3, <1>6, <1>11, <1>12, AddsMore

\* A sum that takes its members in any order is a fold.
LEMMA FoldsAdds ==
  ASSUME NEW S, NEW w, NEW f, Adds(w, S, f)
  PROVE  Folds(w, S, f)
<1>1. \A s \in SUBSET S : s # {} => oneOf(s) \in s BY DEF oneOf
<1>2. \A s \in SUBSET S : f[s] = IF s = {} THEN 0 ELSE w[oneOf(s)] + f[s \ {oneOf(s)}]
  BY <1>1 DEF Adds
<1> QED BY <1>2 DEF Adds, Folds

\* A fold computes that sum: two different folds would differ on a least
\* subset.
LEMMA FoldsOnce ==
  ASSUME NEW S, IsFiniteSet(S), NEW w, NEW f, Adds(w, S, f), NEW g, Folds(w, S, g)
  PROVE  g[S] = f[S]
<1> DEFINE bad == {n \in Nat : \E s \in SUBSET S : Cardinality(s) = n /\ g[s] # f[s]}
<1>1. SUFFICES ASSUME bad # {} PROVE FALSE
  <2>1. Cardinality(S) \in Nat BY FS_CardinalityType
  <2> QED BY <2>1
<1>2. PICK n \in bad : \A k \in bad : n <= k
  <2> HIDE DEF bad
  <2>1. bad \subseteq Nat BY DEF bad
  <2> QED BY <1>1, <2>1, LeastNat
<1>3. PICK s \in SUBSET S : Cardinality(s) = n /\ g[s] # f[s] OBVIOUS
<1>4. IsFiniteSet(s) BY FS_Subset
<1>5. s # {} BY <1>3 DEF Adds, Folds
<1>6. oneOf(s) \in s BY <1>5 DEF oneOf
<1>7. Cardinality(s \ {oneOf(s)}) = n - 1 /\ n - 1 \in Nat /\ n \in Nat
  <2>1. Cardinality(s \ {oneOf(s)}) \in Nat /\ n \in Nat BY <1>4, FS_RemoveElement, FS_CardinalityType
  <2> QED BY <1>3, <1>4, <1>6, <2>1, FS_RemoveElement
<1>8. n - 1 \notin bad BY SMTT(30), <1>2, <1>7
<1>9. s \ {oneOf(s)} \in SUBSET S OBVIOUS
<1>10. g[s \ {oneOf(s)}] = f[s \ {oneOf(s)}] BY <1>7, <1>8, <1>9
<1>11. g[s] = w[oneOf(s)] + g[s \ {oneOf(s)}] BY <1>5 DEF Folds
<1>12. f[s] = w[oneOf(s)] + f[s \ {oneOf(s)}] BY <1>6 DEF Adds
<1> QED BY <1>3, <1>10, <1>11, <1>12

\* sum, which adds the amounts of holds up, is such a sum.
LEMMA SumAmount ==
  ASSUME NEW S, IsFiniteSet(S), \A x \in S : x.amount \in Int,
         NEW f, Adds([x \in S |-> x.amount], S, f)
  PROVE  sum(amountOf, S) = f[S]
<1> DEFINE w == [x \in S |-> x.amount]
<1> DEFINE g == CHOOSE iter : iter = [s \in SUBSET S |-> IF s = {} THEN 0 ELSE (CHOOSE x \in s : TRUE).amount + iter[s \ {CHOOSE x \in s : TRUE}]]
<1>1. sum(amountOf, S) = g[S]
  BY DEF sum, amountOf, MapThenSumSet, MapThenFoldSet
<1>2. f = [s \in SUBSET S |-> IF s = {} THEN 0 ELSE (CHOOSE x \in s : TRUE).amount + f[s \ {CHOOSE x \in s : TRUE}]]
  <2>1. Folds(w, S, f) BY FoldsAdds
  <2>2. \A s \in SUBSET S : s # {} => oneOf(s) \in s BY DEF oneOf
  <2>3. \A s \in SUBSET S : f[s] = IF s = {} THEN 0 ELSE oneOf(s).amount + f[s \ {oneOf(s)}]
    BY <2>1, <2>2 DEF Folds
  <2>4. f = [s \in SUBSET S |-> f[s]] BY DEF Adds
  <2> QED BY <2>3, <2>4 DEF oneOf
<1>3. g = [s \in SUBSET S |-> IF s = {} THEN 0 ELSE (CHOOSE x \in s : TRUE).amount + g[s \ {CHOOSE x \in s : TRUE}]]
  BY <1>2
<1> HIDE DEF g
<1>4. Folds(w, S, g)
  <2>2. \A s \in SUBSET S : s # {} => oneOf(s) \in s BY DEF oneOf
  <2>3. \A s \in SUBSET S : g[s] = IF s = {} THEN 0 ELSE w[oneOf(s)] + g[s \ {oneOf(s)}]
    BY <1>3, <2>2 DEF oneOf
  <2>4. g = [s \in SUBSET S |-> g[s]] BY <1>3
  <2> QED BY <2>3, <2>4 DEF Folds
<1> QED BY <1>1, <1>4, FoldsOnce

-----------------------------------------------------------------------------
(* What a transfer does to accounts and holds (accounts.go, transfers.go) *)

\* acc2 is acc with dp and dh added to the debits of account d, and cp and ch
\* to the credits of account c.
Shifts(acc, acc2, d, c, dp, dh, cp, ch) ==
  /\ DOMAIN acc2 = DOMAIN acc /\ acc2 \in [DOMAIN acc -> Account]
  /\ \A a \in DOMAIN acc :
       /\ acc2[a].postedDebits = acc[a].postedDebits + IF a = d THEN dp ELSE 0
       /\ acc2[a].pendingDebits = acc[a].pendingDebits + IF a = d THEN dh ELSE 0
       /\ acc2[a].postedCredits = acc[a].postedCredits + IF a = c THEN cp ELSE 0
       /\ acc2[a].pendingCredits = acc[a].pendingCredits + IF a = c THEN ch ELSE 0

\* Amounts are numbers of two words.
LEMMA Amounts ==
  /\ MaxUint \in Nat
  /\ \A x \in Amount : x \in Nat /\ x <= MaxUint
  /\ \A x \in Int : 0 <= x /\ x <= MaxUint => x \in Amount
<1>1. Base * Base \in Nat /\ Base * Base >= 1
  BY SMTT(30), BaseAssumption
<1> QED
  BY SMTT(30), <1>1 DEF MaxUint, Amount

\* An account after its debits have changed.
LEMMA DebitsChange ==
  ASSUME NEW acc, acc \in [DOMAIN acc -> Account], NEW d \in DOMAIN acc, NEW x \in Int, NEW y \in Int,
         acc[d].pendingDebits + x \in Amount, acc[d].postedDebits + y \in Amount,
         NEW acc2, acc2 = [acc EXCEPT ![d].pendingDebits = @ + x, ![d].postedDebits = @ + y]
  PROVE  \A c : Shifts(acc, acc2, d, c, y, x, 0, 0)
<1>1. \A a \in DOMAIN acc : acc[a] \in Account
  OBVIOUS
<1>2. PICK b : b = [acc[d] EXCEPT !.pendingDebits = @ + x, !.postedDebits = @ + y]
  OBVIOUS
<1>3. b \in Account
  BY <1>1, <1>2 DEF Account
<1>4. acc2 = [acc EXCEPT ![d] = b]
  BY <1>1, <1>2 DEF Account
<1> QED
  BY SMTT(30), <1>1, <1>2, <1>3, <1>4, Amounts DEF Shifts, Account

\* An account after its credits have changed.
LEMMA CreditsChange ==
  ASSUME NEW acc, acc \in [DOMAIN acc -> Account], NEW c \in DOMAIN acc, NEW x \in Int, NEW y \in Int,
         acc[c].pendingCredits + x \in Amount, acc[c].postedCredits + y \in Amount,
         NEW acc2, acc2 = [acc EXCEPT ![c].pendingCredits = @ + x, ![c].postedCredits = @ + y]
  PROVE  \A d : Shifts(acc, acc2, d, c, 0, 0, y, x)
<1>1. \A a \in DOMAIN acc : acc[a] \in Account
  OBVIOUS
<1>2. PICK b : b = [acc[c] EXCEPT !.pendingCredits = @ + x, !.postedCredits = @ + y]
  OBVIOUS
<1>3. b \in Account
  BY <1>1, <1>2 DEF Account
<1>4. acc2 = [acc EXCEPT ![c] = b]
  BY <1>1, <1>2 DEF Account
<1> QED
  BY SMTT(30), <1>1, <1>2, <1>3, <1>4, Amounts DEF Shifts, Account

\* Only the pending debits change.
LEMMA PendingDebitsChange ==
  ASSUME NEW acc, acc \in [DOMAIN acc -> Account], NEW d \in DOMAIN acc, NEW x \in Int,
         acc[d].pendingDebits + x \in Amount, NEW acc2, acc2 = [acc EXCEPT ![d].pendingDebits = @ + x]
  PROVE  \A c : Shifts(acc, acc2, d, c, 0, x, 0, 0)
<1>1. \A a \in DOMAIN acc : acc[a] \in Account
  OBVIOUS
<1>2. PICK b : b = [acc[d] EXCEPT !.pendingDebits = @ + x]
  OBVIOUS
<1>3. b \in Account
  BY <1>1, <1>2 DEF Account
<1>4. acc2 = [acc EXCEPT ![d] = b]
  BY <1>1, <1>2 DEF Account
<1> QED
  BY SMTT(30), <1>1, <1>2, <1>3, <1>4, Amounts DEF Shifts, Account

\* Only the posted debits change.
LEMMA PostedDebitsChange ==
  ASSUME NEW acc, acc \in [DOMAIN acc -> Account], NEW d \in DOMAIN acc, NEW x \in Int,
         acc[d].postedDebits + x \in Amount, NEW acc2, acc2 = [acc EXCEPT ![d].postedDebits = @ + x]
  PROVE  \A c : Shifts(acc, acc2, d, c, x, 0, 0, 0)
<1>1. \A a \in DOMAIN acc : acc[a] \in Account
  OBVIOUS
<1>2. PICK b : b = [acc[d] EXCEPT !.postedDebits = @ + x]
  OBVIOUS
<1>3. b \in Account
  BY <1>1, <1>2 DEF Account
<1>4. acc2 = [acc EXCEPT ![d] = b]
  BY <1>1, <1>2 DEF Account
<1> QED
  BY SMTT(30), <1>1, <1>2, <1>3, <1>4, Amounts DEF Shifts, Account

\* Only the pending credits change.
LEMMA PendingCreditsChange ==
  ASSUME NEW acc, acc \in [DOMAIN acc -> Account], NEW c \in DOMAIN acc, NEW x \in Int,
         acc[c].pendingCredits + x \in Amount, NEW acc2, acc2 = [acc EXCEPT ![c].pendingCredits = @ + x]
  PROVE  \A d : Shifts(acc, acc2, d, c, 0, 0, 0, x)
<1>1. \A a \in DOMAIN acc : acc[a] \in Account
  OBVIOUS
<1>2. PICK b : b = [acc[c] EXCEPT !.pendingCredits = @ + x]
  OBVIOUS
<1>3. b \in Account
  BY <1>1, <1>2 DEF Account
<1>4. acc2 = [acc EXCEPT ![c] = b]
  BY <1>1, <1>2 DEF Account
<1> QED
  BY SMTT(30), <1>1, <1>2, <1>3, <1>4, Amounts DEF Shifts, Account

\* Only the posted credits change.
LEMMA PostedCreditsChange ==
  ASSUME NEW acc, acc \in [DOMAIN acc -> Account], NEW c \in DOMAIN acc, NEW x \in Int,
         acc[c].postedCredits + x \in Amount, NEW acc2, acc2 = [acc EXCEPT ![c].postedCredits = @ + x]
  PROVE  \A d : Shifts(acc, acc2, d, c, 0, 0, x, 0)
<1>1. \A a \in DOMAIN acc : acc[a] \in Account
  OBVIOUS
<1>2. PICK b : b = [acc[c] EXCEPT !.postedCredits = @ + x]
  OBVIOUS
<1>3. b \in Account
  BY <1>1, <1>2 DEF Account
<1>4. acc2 = [acc EXCEPT ![c] = b]
  BY <1>1, <1>2 DEF Account
<1> QED
  BY SMTT(30), <1>1, <1>2, <1>3, <1>4, Amounts DEF Shifts, Account

\* A change of the debit side and one of the credit side.
LEMMA BothChange ==
  ASSUME NEW acc, acc \in [DOMAIN acc -> Account], NEW acc1, NEW acc2, NEW d, NEW c,
         NEW dp \in Int, NEW dh \in Int, NEW cp \in Int, NEW ch \in Int,
         Shifts(acc, acc1, d, c, dp, dh, 0, 0), Shifts(acc1, acc2, d, c, 0, 0, cp, ch)
  PROVE  Shifts(acc, acc2, d, c, dp, dh, cp, ch)
<1>1. \A a \in DOMAIN acc : acc[a] \in Account
  OBVIOUS
<1>2. \A a \in DOMAIN acc : /\ acc[a].postedDebits \in Int /\ acc[a].pendingDebits \in Int
                            /\ acc[a].postedCredits \in Int /\ acc[a].pendingCredits \in Int
  BY SMTT(30), <1>1, Amounts DEF Account
<1> QED
  BY SMTT(30), <1>2 DEF Shifts

\* movePending posts x of a hold.
LEMMA MovePending ==
  ASSUME NEW acc, acc \in [DOMAIN acc -> Account], NEW h \in Transfer, NEW x \in Amount,
         NEW r, r = movePending(acc, h, x), r.err = OK
  PROVE  /\ h.debit \in DOMAIN acc /\ h.credit \in DOMAIN acc
         /\ Shifts(acc, r.acc, h.debit, h.credit, x, -x, x, -x)
<1>1. PICK d, c : d = h.debit /\ c = h.credit
  OBVIOUS
<1>2. PICK acc1 : acc1 = [acc EXCEPT ![d].pendingDebits = @ - x, ![d].postedDebits = @ + x]
  OBVIOUS
<1>3. PICK acc2 : acc2 = [acc1 EXCEPT ![c].pendingCredits = @ - x, ![c].postedCredits = @ + x]
  OBVIOUS
<1>4. /\ r.acc = acc2
      /\ d \in DOMAIN acc /\ ~(acc[d].pendingDebits < x) /\ ~(acc[d].postedDebits + x > MaxUint)
      /\ c \in DOMAIN acc /\ ~(acc1[c].pendingCredits < x) /\ ~(acc1[c].postedCredits + x > MaxUint)
  BY <1>1, <1>2, <1>3 DEF movePending, OK
<1>5. \A a \in DOMAIN acc : acc[a] \in Account
  OBVIOUS
<1>9. x \in Int /\ -x \in Int
  BY SMTT(30), Amounts
<1>6. \A y : Shifts(acc, acc1, d, y, x, -x, 0, 0)
  <2>1. /\ acc[d].pendingDebits \in Nat /\ acc[d].pendingDebits <= MaxUint /\ acc[d].postedDebits \in Nat
        /\ x \in Nat /\ MaxUint \in Nat
    BY <1>4, <1>5, Amounts DEF Account
  <2>2. acc[d].pendingDebits - x = acc[d].pendingDebits + (-x) /\ -x \in Int
    BY SMTT(30), <2>1
  <2>3. acc[d].pendingDebits + (-x) \in Amount /\ acc[d].postedDebits + x \in Amount
    BY SMTT(30), <1>4, <2>1, Amounts
  <2>4. acc1 = [acc EXCEPT ![d].pendingDebits = @ + (-x), ![d].postedDebits = @ + x]
    BY <1>2, <2>2
  <2> QED
    BY <1>4, <1>9, <2>3, <2>4, DebitsChange, ZenonT(20)
<1>7. DOMAIN acc1 = DOMAIN acc /\ acc1 \in [DOMAIN acc1 -> Account]
  BY <1>6 DEF Shifts
<1>8. Shifts(acc1, acc2, d, c, 0, 0, x, -x)
  <2>1. /\ acc1[c].pendingCredits \in Nat /\ acc1[c].pendingCredits <= MaxUint /\ acc1[c].postedCredits \in Nat
        /\ x \in Nat /\ MaxUint \in Nat
    BY <1>4, <1>7, Amounts DEF Account
  <2>2. acc1[c].pendingCredits - x = acc1[c].pendingCredits + (-x) /\ -x \in Int
    BY SMTT(30), <2>1
  <2>3. acc1[c].pendingCredits + (-x) \in Amount /\ acc1[c].postedCredits + x \in Amount
    BY SMTT(30), <1>4, <2>1, Amounts
  <2>4. acc2 = [acc1 EXCEPT ![c].pendingCredits = @ + (-x), ![c].postedCredits = @ + x]
    BY <1>3, <2>2
  <2> QED
    BY <1>4, <1>7, <1>9, <2>3, <2>4, CreditsChange, ZenonT(20)
<1> QED
  BY <1>1, <1>4, <1>6, <1>8, <1>9, BothChange

\* releasePending gives a hold back.  When it fails the credit side keeps its
\* amounts, and the debit side may.
LEMMA ReleasePending ==
  ASSUME NEW acc, acc \in [DOMAIN acc -> Account], NEW h \in Transfer, NEW r, r = releasePending(acc, h)
  PROVE  /\ r.err = OK => /\ h.debit \in DOMAIN acc /\ h.credit \in DOMAIN acc
                          /\ Shifts(acc, r.acc, h.debit, h.credit, 0, -h.amount, 0, -h.amount)
         /\ r.err # OK => \/ r.acc = acc
                          \/ Shifts(acc, r.acc, h.debit, h.credit, 0, -h.amount, 0, 0)
         /\ /\ h.debit \in DOMAIN acc /\ h.credit \in DOMAIN acc
            /\ acc[h.debit].pendingDebits >= h.amount /\ acc[h.credit].pendingCredits >= h.amount
            => r.err = OK
<1>1. PICK d, c, x : d = h.debit /\ c = h.credit /\ x = h.amount
  OBVIOUS
<1>2. x \in Amount /\ x \in Int /\ -x \in Int
  BY SMTT(30), <1>1, Amounts DEF Transfer
<1>3. PICK acc1 : acc1 = [acc EXCEPT ![d].pendingDebits = @ - x]
  OBVIOUS
<1>4. PICK acc2 : acc2 = [acc1 EXCEPT ![c].pendingCredits = @ - x]
  OBVIOUS
<1>5. r = IF d \notin DOMAIN acc THEN [acc |-> acc, err |-> "ErrAccountNotFound"]
          ELSE IF acc[d].pendingDebits < x THEN [acc |-> acc, err |-> "ErrInvariantViolation"]
          ELSE IF c \notin DOMAIN acc THEN [acc |-> acc1, err |-> "ErrAccountNotFound"]
          ELSE IF acc1[c].pendingCredits < x THEN [acc |-> acc1, err |-> "ErrInvariantViolation"]
          ELSE [acc |-> acc2, err |-> OK]
  BY <1>1, <1>3, <1>4 DEF releasePending
<1>6. ASSUME d \in DOMAIN acc, ~(acc[d].pendingDebits < x)
      PROVE  \A y : Shifts(acc, acc1, d, y, 0, -x, 0, 0)
  <2>1. acc[d].pendingDebits \in Nat /\ acc[d].pendingDebits <= MaxUint /\ x \in Nat /\ MaxUint \in Nat
    BY <1>2, <1>6, Amounts DEF Account
  <2>2. acc[d].pendingDebits - x = acc[d].pendingDebits + (-x) /\ acc[d].pendingDebits + (-x) \in Amount
    BY SMTT(30), <1>6, <2>1, Amounts
  <2>3. acc1 = [acc EXCEPT ![d].pendingDebits = @ + (-x)]
    BY <1>3, <2>2
  <2> QED
    BY <1>2, <1>6, <2>2, <2>3, PendingDebitsChange
<1>7. ASSUME d \in DOMAIN acc, ~(acc[d].pendingDebits < x), c \in DOMAIN acc, ~(acc1[c].pendingCredits < x)
      PROVE  Shifts(acc, acc2, d, c, 0, -x, 0, -x)
  <2>1. DOMAIN acc1 = DOMAIN acc /\ acc1 \in [DOMAIN acc1 -> Account]
    BY <1>6, <1>7 DEF Shifts
  <2>2. acc1[c].pendingCredits \in Nat /\ acc1[c].pendingCredits <= MaxUint /\ x \in Nat /\ MaxUint \in Nat
    BY <1>2, <1>7, <2>1, Amounts DEF Account
  <2>3. acc1[c].pendingCredits - x = acc1[c].pendingCredits + (-x) /\ acc1[c].pendingCredits + (-x) \in Amount
    BY SMTT(30), <1>7, <2>2, Amounts
  <2>4. acc2 = [acc1 EXCEPT ![c].pendingCredits = @ + (-x)]
    BY <1>4, <2>3
  <2>5. Shifts(acc1, acc2, d, c, 0, 0, 0, -x)
    BY <1>2, <1>7, <2>1, <2>3, <2>4, PendingCreditsChange
  <2> QED
    BY SMTT(30), <1>2, <1>6, <1>7, <2>5, BothChange
<1>8. r.err = OK => Shifts(acc, r.acc, d, c, 0, -x, 0, -x) /\ d \in DOMAIN acc /\ c \in DOMAIN acc
  BY SMTT(30), <1>5, <1>7 DEF OK
<1>9. r.err # OK => r.acc = acc \/ Shifts(acc, r.acc, d, c, 0, -x, 0, 0)
  BY SMTT(30), <1>5, <1>6
<1>10. ASSUME d \in DOMAIN acc, c \in DOMAIN acc, acc[d].pendingDebits >= x, acc[c].pendingCredits >= x
       PROVE  r.err = OK
  <2>1. acc[d].pendingDebits \in Nat /\ acc[c].pendingCredits \in Nat /\ x \in Nat
    BY <1>2, <1>10, Amounts DEF Account
  <2>2. ~(acc[d].pendingDebits < x)
    BY SMTT(30), <1>10, <2>1
  <2>3. acc1[c].pendingCredits = acc[c].pendingCredits
    BY SMTT(30), <1>6, <1>10, <2>1, <2>2 DEF Shifts
  <2>4. ~(acc1[c].pendingCredits < x)
    BY SMTT(30), <1>10, <2>1, <2>3
  <2> QED
    BY SMTT(30), <1>5, <1>10, <2>2, <2>4
<1> QED
  BY <1>1, <1>8, <1>9, <1>10

\* reserveAmounts opens a hold.
LEMMA ReserveAmounts ==
  ASSUME NEW acc, acc \in [DOMAIN acc -> Account], NEW h \in Transfer, NEW r, r = reserveAmounts(acc, h), r.err = OK,
         h.debit \in DOMAIN acc, h.credit \in DOMAIN acc
  PROVE  Shifts(acc, r.acc, h.debit, h.credit, 0, h.amount, 0, h.amount)
<1>1. PICK d, c, x : d = h.debit /\ c = h.credit /\ x = h.amount
  OBVIOUS
<1>2. x \in Amount /\ x \in Int
  BY SMTT(30), <1>1, Amounts DEF Transfer
<1>3. PICK acc1 : acc1 = [acc EXCEPT ![d].pendingDebits = @ + x]
  OBVIOUS
<1>4. PICK acc2 : acc2 = [acc1 EXCEPT ![c].pendingCredits = @ + x]
  OBVIOUS
<1>5. /\ r.acc = acc2 /\ ~(acc[d].pendingDebits + x > MaxUint) /\ ~(acc1[c].pendingCredits + x > MaxUint)
      /\ d \in DOMAIN acc /\ c \in DOMAIN acc
  BY <1>1, <1>3, <1>4 DEF reserveAmounts, OK
<1>6. \A y : Shifts(acc, acc1, d, y, 0, x, 0, 0)
  <2>1. acc[d].pendingDebits \in Nat /\ x \in Nat /\ MaxUint \in Nat
    BY <1>2, <1>5, Amounts DEF Account
  <2>2. acc[d].pendingDebits + x \in Amount
    BY SMTT(30), <1>5, <2>1, Amounts
  <2> QED
    BY <1>2, <1>3, <1>5, <2>2, PendingDebitsChange
<1>7. Shifts(acc1, acc2, d, c, 0, 0, 0, x)
  <2>1. DOMAIN acc1 = DOMAIN acc /\ acc1 \in [DOMAIN acc1 -> Account]
    BY <1>6 DEF Shifts
  <2>2. acc1[c].pendingCredits \in Nat /\ x \in Nat /\ MaxUint \in Nat
    BY <1>2, <1>5, <2>1, Amounts DEF Account
  <2>3. acc1[c].pendingCredits + x \in Amount
    BY SMTT(30), <1>5, <2>2, Amounts
  <2> QED
    BY <1>2, <1>4, <1>5, <2>1, <2>3, PendingCreditsChange
<1> QED
  BY SMTT(30), <1>1, <1>2, <1>5, <1>6, <1>7, BothChange

\* postImmediate moves the amount of a plain transfer.
LEMMA PostImmediate ==
  ASSUME NEW acc, acc \in [DOMAIN acc -> Account], NEW h \in Transfer, NEW r, r = postImmediate(acc, h), r.err = OK,
         h.debit \in DOMAIN acc, h.credit \in DOMAIN acc
  PROVE  Shifts(acc, r.acc, h.debit, h.credit, h.amount, 0, h.amount, 0)
<1>1. PICK d, c, x : d = h.debit /\ c = h.credit /\ x = h.amount
  OBVIOUS
<1>2. x \in Amount /\ x \in Int
  BY SMTT(30), <1>1, Amounts DEF Transfer
<1>3. PICK acc1 : acc1 = [acc EXCEPT ![d].postedDebits = @ + x]
  OBVIOUS
<1>4. PICK acc2 : acc2 = [acc1 EXCEPT ![c].postedCredits = @ + x]
  OBVIOUS
<1>5. /\ r.acc = acc2 /\ ~(acc[d].postedDebits + x > MaxUint) /\ ~(acc1[c].postedCredits + x > MaxUint)
      /\ d \in DOMAIN acc /\ c \in DOMAIN acc
  BY <1>1, <1>3, <1>4 DEF postImmediate, OK
<1>6. \A y : Shifts(acc, acc1, d, y, x, 0, 0, 0)
  <2>1. acc[d].postedDebits \in Nat /\ x \in Nat /\ MaxUint \in Nat
    BY <1>2, <1>5, Amounts DEF Account
  <2>2. acc[d].postedDebits + x \in Amount
    BY SMTT(30), <1>5, <2>1, Amounts
  <2> QED
    BY <1>2, <1>3, <1>5, <2>2, PostedDebitsChange
<1>7. Shifts(acc1, acc2, d, c, 0, 0, x, 0)
  <2>1. DOMAIN acc1 = DOMAIN acc /\ acc1 \in [DOMAIN acc1 -> Account]
    BY <1>6 DEF Shifts
  <2>2. acc1[c].postedCredits \in Nat /\ x \in Nat /\ MaxUint \in Nat
    BY <1>2, <1>5, <2>1, Amounts DEF Account
  <2>3. acc1[c].postedCredits + x \in Amount
    BY SMTT(30), <1>5, <2>2, Amounts
  <2> QED
    BY <1>2, <1>4, <1>5, <2>1, <2>3, PostedCreditsChange
<1> QED
  BY SMTT(30), <1>1, <1>2, <1>5, <1>6, <1>7, BothChange

(* ApplyTransferState *)

\* A plain or pending transfer: neither a post nor a void of an earlier one.
isNew(t) == ~isPost(t) /\ ~isVoid(t)

\* What a post or a void does: x of its hold goes back, and p of it is posted.
Settles(acc, pending, t, acc2, pending2) ==
  /\ ~isNew(t) /\ t.id \in DOMAIN pending
  /\ pending[t.id].debit \in DOMAIN acc /\ pending[t.id].credit \in DOMAIN acc
  /\ LET x == settled(pending[t.id], t) IN
     /\ x \in Amount /\ x <= pending[t.id].amount
     /\ \E p \in {0, x} : Shifts(acc, acc2, pending[t.id].debit, pending[t.id].credit, p, -x, p, -x)
  /\ pending2 = settle(pending, t)

\* What a pending transfer does, and what a plain one does.
Opens(acc, pending, t, acc2, pending2) ==
  /\ isNew(t) /\ isPending(t) /\ t.debit \in DOMAIN acc /\ t.credit \in DOMAIN acc
  /\ Shifts(acc, acc2, t.debit, t.credit, 0, t.amount, 0, t.amount)
  /\ pending2 = with(pending, t.id, t)
Pays(acc, pending, t, acc2, pending2) ==
  /\ isNew(t) /\ ~isPending(t) /\ t.debit \in DOMAIN acc /\ t.credit \in DOMAIN acc
  /\ Shifts(acc, acc2, t.debit, t.credit, t.amount, 0, t.amount, 0)
  /\ pending2 = pending

\* What an accepted transfer does to accounts and holds: it settles, opens or
\* pays.
Effect(acc, pending, t, acc2, pending2) ==
  \/ Settles(acc, pending, t, acc2, pending2)
  \/ Opens(acc, pending, t, acc2, pending2)
  \/ Pays(acc, pending, t, acc2, pending2)

\* The parts of ApplyTransferState: the change of the accounts, and of the
\* holds.
amountsMoved(s, t) ==
  IF isPost(t) THEN movePending(s.acc, s.pending[t.id], settled(s.pending[t.id], t))
  ELSE IF isVoid(t) THEN releasePending(s.acc, s.pending[t.id])
  ELSE IF isPending(t) THEN reserveAmounts(s.acc, t)
  ELSE postImmediate(s.acc, t)
holdsAfter(s, t) ==
  IF isPost(t) \/ isVoid(t) THEN settle(s.pending, t)
  ELSE IF isPending(t) THEN with(s.pending, t.id, t)
  ELSE s.pending

\* An accepted transfer changes accounts and holds as above, and its ID is kept
\* as seen.
LEMMA ApplyParts ==
  ASSUME NEW s, NEW t, NEW r, r = ApplyTransferState(s, t)
  PROVE  r.err = OK => r.m = [acc |-> amountsMoved(s, t).acc, pending |-> holdsAfter(s, t),
                              orphans |-> s.orphans \cup (IF isPending(t) THEN replaced(s, t) ELSE {}),
                              transfers |-> s.transfers \cup {t.id}]
<1>1. PICK q, p : q = amountsMoved(s, t) /\ p = holdsAfter(s, t)
  OBVIOUS
<1>2. PICK e, k, o, n : /\ e = [s EXCEPT !.acc = q.acc] /\ k = checkTransfer(s, t)
                        /\ o = s.orphans \cup (IF isPending(t) THEN replaced(s, t) ELSE {})
                        /\ n = s.transfers \cup {t.id}
  OBVIOUS
<1>3. PICK z : z = [acc |-> q.acc, pending |-> p, orphans |-> o, transfers |-> n]
  OBVIOUS
<1>4. r = IF k # OK THEN [m |-> s, err |-> k]
          ELSE IF q.err # OK THEN [m |-> e, err |-> q.err]
          ELSE [m |-> z, err |-> OK]
  BY <1>1, <1>2, <1>3 DEF ApplyTransferState, amountsMoved, holdsAfter
<1>5. (r.err = OK <=> k = OK /\ q.err = OK) /\ (r.err = OK => r.m = z)
  BY SMTT(30), <1>4
<1> QED
  BY <1>1, <1>2, <1>3, <1>5

\* ApplyTransferState fails exactly when its checks or the arithmetic fail.
LEMMA ApplyAccepts ==
  ASSUME NEW s, NEW t, NEW r, r = ApplyTransferState(s, t)
  PROVE  /\ r.err = OK <=> checkTransfer(s, t) = OK /\ amountsMoved(s, t).err = OK
         /\ r.err = OK => r.m.acc = amountsMoved(s, t).acc /\ r.m.pending = holdsAfter(s, t)
<1>1. PICK q, p : q = amountsMoved(s, t) /\ p = holdsAfter(s, t)
  OBVIOUS
<1>2. PICK e, k, o, n : /\ e = [s EXCEPT !.acc = q.acc] /\ k = checkTransfer(s, t)
                        /\ o = s.orphans \cup (IF isPending(t) THEN replaced(s, t) ELSE {})
                        /\ n = s.transfers \cup {t.id}
  OBVIOUS
<1>3. PICK z : z = [acc |-> q.acc, pending |-> p, orphans |-> o, transfers |-> n]
  OBVIOUS
<1>4. r = IF k # OK THEN [m |-> s, err |-> k]
          ELSE IF q.err # OK THEN [m |-> e, err |-> q.err]
          ELSE [m |-> z, err |-> OK]
  BY <1>1, <1>2, <1>3 DEF ApplyTransferState, amountsMoved, holdsAfter
<1>6. z.acc = q.acc /\ z.pending = p
  BY <1>3
<1>5. (r.err = OK <=> k = OK /\ q.err = OK) /\ (r.err = OK => r.m = z)
  BY SMTT(30), <1>4
<1> QED
  BY <1>1, <1>2, <1>5, <1>6

\* A transfer that ApplyTransferState accepts settles, opens or pays.
LEMMA ApplyEffect ==
  ASSUME NEW s, s.acc \in [DOMAIN s.acc -> Account], s.pending \in [DOMAIN s.pending -> Transfer],
         NEW t \in Transfer, NEW r, r = ApplyTransferState(s, t), r.err = OK
  PROVE  Effect(s.acc, s.pending, t, r.m.acc, r.m.pending)
<1>1. PICK q, p : q = amountsMoved(s, t) /\ p = holdsAfter(s, t)
  OBVIOUS
<1>4. checkTransfer(s, t) = OK /\ q.err = OK
  BY <1>1, ApplyAccepts
<1>6. r.m.acc = q.acc /\ r.m.pending = p
  BY <1>1, ApplyAccepts
<1>7. ~badFlags(t)
  BY <1>4 DEF checkTransfer, OK
<1>8. CASE ~isNew(t)
  <2>8. p = settle(s.pending, t)
    BY <1>1, <1>8 DEF isNew, holdsAfter
  <2>1. PICK h : h = s.pending[t.id]
    OBVIOUS
  <2>2. t.id \in DOMAIN s.pending /\ (isPost(t) => ~(t.amount > h.amount))
    BY <1>4, <1>7, <1>8, <2>1 DEF checkTransfer, isNew, OK
  <2>3. h \in Transfer /\ h.amount \in Amount /\ t.amount \in Amount
    BY <2>1, <2>2 DEF Transfer
  <2>4. PICK x : x = settled(h, t)
    OBVIOUS
  <2>5. x \in Amount /\ x <= h.amount /\ (~isPost(t) => x = h.amount)
    BY SMTT(30), <2>2, <2>3, <2>4, Amounts DEF settled
  <2>6. CASE isPost(t)
    <3>1. q = movePending(s.acc, h, x)
      BY <1>1, <2>1, <2>4, <2>6 DEF amountsMoved
    <3> QED
      BY SMTT(30), <1>4, <1>6, <1>8, <2>8, <2>1, <2>2, <2>3, <2>4, <2>5, <2>6, <3>1, MovePending DEF Effect, Settles
  <2>7. CASE ~isPost(t)
    <3>1. q = releasePending(s.acc, h) /\ isVoid(t)
      BY <1>1, <1>8, <2>1, <2>7 DEF isNew, amountsMoved
    <3> QED
      BY SMTT(30), <1>4, <1>6, <1>8, <2>8, <2>1, <2>2, <2>3, <2>4, <2>5, <2>7, <3>1, ReleasePending DEF Effect, Settles
  <2> QED
    BY <2>6, <2>7
<1>9. CASE isNew(t)
  <2>1. checkStructure(s.acc, t) = OK
    BY <1>4, <1>7, <1>9 DEF checkTransfer, isNew
  <2>2. t.debit \in DOMAIN s.acc /\ t.credit \in DOMAIN s.acc
    BY <2>1 DEF checkStructure, OK
  <2>3. CASE isPending(t)
    <3>1. q = reserveAmounts(s.acc, t) /\ p = with(s.pending, t.id, t)
      BY <1>1, <1>9, <2>3 DEF isNew, amountsMoved, holdsAfter
    <3> QED
      BY <1>4, <1>6, <1>9, <2>2, <2>3, <3>1, ReserveAmounts DEF Effect, Opens
  <2>4. CASE ~isPending(t)
    <3>1. q = postImmediate(s.acc, t) /\ p = s.pending
      BY <1>1, <1>9, <2>4 DEF isNew, amountsMoved, holdsAfter
    <3> QED
      BY <1>4, <1>6, <1>9, <2>2, <2>4, <3>1, PostImmediate DEF Effect, Pays
  <2> QED
    BY <2>3, <2>4
<1> QED
  BY <1>8, <1>9

(* The validator *)

\* What validateAndApply accepts, ApplyTransferState applies, with the same
\* accounts and holds in the end: the two implementations agree.
THEOREM Agree ==
  ASSUME NEW w, w = [acc |-> w.acc, pending |-> w.pending, seen |-> w.seen],
         w.acc \in [DOMAIN w.acc -> Account], w.pending \in [DOMAIN w.pending -> Transfer],
         NEW t \in Transfer, NEW recorded, NEW g, g = validateAndApply(w, t, recorded), g.err = OK,
         NEW s, s.acc = w.acc, s.pending = w.pending, NEW r, r = ApplyTransferState(s, t)
  PROVE  /\ r.err = OK /\ r.m.acc = g.v.acc /\ r.m.pending = g.v.pending
<1>1. ~badFlags(t)
  BY DEF validateAndApply, OK
<1>2. CASE ~isNew(t)
  <2>1. g = validateSettlement(w, t)
    BY <1>1, <1>2 DEF validateAndApply, isNew
  <2>2. PICK h : h = w.pending[t.id]
    OBVIOUS
  <2>3. /\ t.id \in DOMAIN w.pending
        /\ ~(t.ledger # 0 /\ t.ledger # h.ledger)
        /\ ~(isPost(t) /\ t.amount > h.amount)
        /\ ~({h.debit, h.credit} \ DOMAIN w.acc # {})
        /\ g = IF isPost(t) THEN validatePost(w, t) ELSE validateVoid(w, t)
    BY SMTT(30), <2>1, <2>2 DEF validateSettlement, OK
  <2>4. checkTransfer(s, t) = OK
    BY <1>1, <1>2, <2>2, <2>3 DEF checkTransfer, isNew
  <2>5. PICK d, c, x : d = h.debit /\ c = h.credit /\ x = settled(h, t)
    OBVIOUS
  <2>6. d \in DOMAIN w.acc /\ c \in DOMAIN w.acc
    BY <2>3, <2>5
  <2>7. holdsAfter(s, t) = settle(w.pending, t)
    BY <1>2 DEF holdsAfter, isNew
  <2>8. CASE isPost(t)
    <3>1. PICK acc1 : acc1 = [w.acc EXCEPT ![d].pendingDebits = @ - x, ![d].postedDebits = @ + x]
      OBVIOUS
    <3>2. PICK acc2 : acc2 = [acc1 EXCEPT ![c].pendingCredits = @ - x, ![c].postedCredits = @ + x]
      OBVIOUS
    <3>3. PICK z : z = [w EXCEPT !.acc = acc2, !.pending = settle(w.pending, t)]
      OBVIOUS
    <3>4. g = IF w.acc[d].pendingDebits < x THEN [v |-> w, err |-> "ErrInvariantViolation"]
              ELSE IF w.acc[d].postedDebits + x > MaxUint THEN [v |-> w, err |-> "ErrBalanceOverflow"]
              ELSE IF acc1[c].pendingCredits < x THEN [v |-> w, err |-> "ErrInvariantViolation"]
              ELSE IF acc1[c].postedCredits + x > MaxUint THEN [v |-> w, err |-> "ErrBalanceOverflow"]
              ELSE [v |-> z, err |-> OK]
      BY ZenonT(60), <2>2, <2>3, <2>5, <2>8, <3>1, <3>2, <3>3 DEF validatePost
    <3>5. /\ g.v = z /\ ~(w.acc[d].pendingDebits < x) /\ ~(w.acc[d].postedDebits + x > MaxUint)
          /\ ~(acc1[c].pendingCredits < x) /\ ~(acc1[c].postedCredits + x > MaxUint)
      BY SMTT(30), <3>4 DEF OK
    <3>6. movePending(w.acc, h, x) = [acc |-> acc2, err |-> OK]
      BY <2>5, <2>6, <3>1, <3>2, <3>5 DEF movePending
    <3>7. amountsMoved(s, t) = [acc |-> acc2, err |-> OK]
      BY <2>2, <2>5, <2>8, <3>6 DEF amountsMoved
    <3>8. z.acc = acc2 /\ z.pending = settle(w.pending, t)
      BY <3>3
    <3>10. amountsMoved(s, t).err = OK /\ amountsMoved(s, t).acc = acc2
      BY SMTT(30), <3>7
    <3> QED
      BY ZenonT(30), <2>4, <2>7, <3>5, <3>8, <3>10, ApplyAccepts
  <2>9. CASE ~isPost(t)
    <3>1. PICK acc1 : acc1 = [w.acc EXCEPT ![d].pendingDebits = @ - h.amount]
      OBVIOUS
    <3>2. PICK acc2 : acc2 = [acc1 EXCEPT ![c].pendingCredits = @ - h.amount]
      OBVIOUS
    <3>3. PICK z : z = [w EXCEPT !.acc = acc2, !.pending = without(w.pending, t.id)]
      OBVIOUS
    <3>4. g = IF w.acc[d].pendingDebits < h.amount THEN [v |-> w, err |-> "ErrInvariantViolation"]
              ELSE IF acc1[c].pendingCredits < h.amount THEN [v |-> w, err |-> "ErrInvariantViolation"]
              ELSE [v |-> z, err |-> OK]
      BY <2>2, <2>3, <2>5, <2>9, <3>1, <3>2, <3>3 DEF validateVoid
    <3>5. g.v = z /\ ~(w.acc[d].pendingDebits < h.amount) /\ ~(acc1[c].pendingCredits < h.amount)
      BY SMTT(30), <3>4 DEF OK
    <3>6. releasePending(w.acc, h) = [acc |-> acc2, err |-> OK]
      BY <2>5, <2>6, <3>1, <3>2, <3>5 DEF releasePending
    <3>7. amountsMoved(s, t) = [acc |-> acc2, err |-> OK]
      BY <1>2, <2>2, <2>9, <3>6 DEF amountsMoved, isNew
    <3>8. z.acc = acc2 /\ z.pending = without(w.pending, t.id)
      BY <3>3
    <3>9. settle(w.pending, t) = without(w.pending, t.id)
      BY <2>9 DEF settle
    <3>10. amountsMoved(s, t).err = OK /\ amountsMoved(s, t).acc = acc2
      BY SMTT(30), <3>7
    <3> QED
      BY ZenonT(30), <2>4, <2>7, <3>5, <3>8, <3>9, <3>10, ApplyAccepts
  <2> QED
    BY <2>8, <2>9
<1>3. CASE isNew(t)
  <2>1. PICK u : u = [w EXCEPT !.seen = @ \cup {t.id}]
    OBVIOUS
  <2>2. u = [acc |-> w.acc, pending |-> w.pending, seen |-> u.seen]
    BY <2>1
  <2>3. g = IF t.id \in w.seen \cup recorded THEN [v |-> w, err |-> "ErrDuplicateTransferID"]
            ELSE IF validateStructure(w.acc, t) # OK THEN [v |-> u, err |-> validateStructure(w.acc, t)]
            ELSE IF isPending(t) THEN validateHold(u, t) ELSE validatePlain(u, t)
    BY <1>1, <1>3, <2>1 DEF validateAndApply, isNew
  <2>4. validateStructure(w.acc, t) = OK /\ g = IF isPending(t) THEN validateHold(u, t) ELSE validatePlain(u, t)
    BY SMTT(30), <2>3 DEF OK
  <2>5. checkStructure(w.acc, t) = OK
    BY <2>4 DEF checkStructure, validateStructure
  <2>6. PICK d, c : d = t.debit /\ c = t.credit
    OBVIOUS
  <2>7. d \in DOMAIN w.acc /\ c \in DOMAIN w.acc /\ d # c
    BY <2>5, <2>6 DEF checkStructure, OK
  <2>8. w.acc[d] \in Account /\ w.acc[c] \in Account /\ t.amount \in Amount
    BY <2>7 DEF Transfer
  <2>11. ~isPost(t) /\ ~isVoid(t)
    BY <1>3 DEF isNew
  <2>9. CASE isPending(t)
    <3>1. PICK a : a = [w.acc EXCEPT ![d].pendingDebits = @ + t.amount, ![c].pendingCredits = @ + t.amount]
      OBVIOUS
    <3>2. PICK z : z = [u EXCEPT !.acc = a, !.pending = with(u.pending, t.id, t)]
      OBVIOUS
    <3>3. u.acc = w.acc /\ u.pending = w.pending
      BY SMTT(30), <2>2
    <3>4. g = IF availableErr(w.acc[d]) # OK THEN [v |-> u, err |-> availableErr(w.acc[d])]
              ELSE IF AvailableBalance(w.acc[d]) < t.amount THEN [v |-> u, err |-> "ErrInsufficientFunds"]
              ELSE IF w.acc[d].pendingDebits + t.amount > MaxUint \/ w.acc[c].pendingCredits + t.amount > MaxUint
              THEN [v |-> u, err |-> "ErrBalanceOverflow"]
              ELSE [v |-> z, err |-> OK]
      BY <2>4, <2>6, <2>9, <3>1, <3>2, <3>3 DEF validateHold
    <3>5. /\ g.v = z /\ availableErr(w.acc[d]) = OK /\ ~(AvailableBalance(w.acc[d]) < t.amount)
          /\ ~(w.acc[d].pendingDebits + t.amount > MaxUint) /\ ~(w.acc[c].pendingCredits + t.amount > MaxUint)
      BY SMTT(30), <3>4 DEF OK
    <3>6. checkTransfer(s, t) = OK
      BY <2>5, <2>6, <2>9, <2>11, <3>5, <1>1 DEF checkTransfer, checkFunds
    <3>7. PICK acc1 : acc1 = [w.acc EXCEPT ![d].pendingDebits = @ + t.amount]
      OBVIOUS
    <3>8. PICK acc2 : acc2 = [acc1 EXCEPT ![c].pendingCredits = @ + t.amount]
      OBVIOUS
    <3>9. acc1[c] = w.acc[c] /\ acc2 = a
      BY <2>7, <2>8, <3>1, <3>7, <3>8
    <3>10. reserveAmounts(w.acc, t) = [acc |-> acc2, err |-> OK]
      BY <2>6, <3>5, <3>7, <3>8, <3>9 DEF reserveAmounts
    <3>11. amountsMoved(s, t) = [acc |-> acc2, err |-> OK]
      BY <2>9, <2>11, <3>10 DEF amountsMoved
    <3>12. amountsMoved(s, t).err = OK /\ amountsMoved(s, t).acc = a
      BY SMTT(30), <3>9, <3>11
    <3>13. holdsAfter(s, t) = with(w.pending, t.id, t)
      BY <2>9, <2>11 DEF holdsAfter
    <3>14. z.acc = a /\ z.pending = with(w.pending, t.id, t)
      BY <2>2, <3>2, <3>3
    <3> QED
      BY ZenonT(30), <3>5, <3>6, <3>12, <3>13, <3>14, ApplyAccepts
  <2>10. CASE ~isPending(t)
    <3>1. PICK a : a = [w.acc EXCEPT ![d].postedDebits = @ + t.amount, ![c].postedCredits = @ + t.amount]
      OBVIOUS
    <3>2. PICK z : z = [u EXCEPT !.acc = a]
      OBVIOUS
    <3>3. u.acc = w.acc /\ u.pending = w.pending
      BY SMTT(30), <2>2
    <3>4. g = IF balanceErr(w.acc[d]) # OK THEN [v |-> u, err |-> balanceErr(w.acc[d])]
              ELSE IF Balance(w.acc[d]) < t.amount THEN [v |-> u, err |-> "ErrInsufficientFunds"]
              ELSE IF w.acc[d].postedDebits + t.amount > MaxUint \/ w.acc[c].postedCredits + t.amount > MaxUint
              THEN [v |-> u, err |-> "ErrBalanceOverflow"]
              ELSE [v |-> z, err |-> OK]
      BY <2>4, <2>6, <2>10, <3>1, <3>2, <3>3 DEF validatePlain
    <3>5. /\ g.v = z /\ balanceErr(w.acc[d]) = OK /\ ~(Balance(w.acc[d]) < t.amount)
          /\ ~(w.acc[d].postedDebits + t.amount > MaxUint) /\ ~(w.acc[c].postedCredits + t.amount > MaxUint)
      BY SMTT(30), <3>4 DEF OK
    <3>6. checkTransfer(s, t) = OK
      BY <2>5, <2>6, <2>10, <2>11, <3>5, <1>1 DEF checkTransfer, checkFunds
    <3>7. PICK acc1 : acc1 = [w.acc EXCEPT ![d].postedDebits = @ + t.amount]
      OBVIOUS
    <3>8. PICK acc2 : acc2 = [acc1 EXCEPT ![c].postedCredits = @ + t.amount]
      OBVIOUS
    <3>9. acc1[c] = w.acc[c] /\ acc2 = a
      BY <2>7, <2>8, <3>1, <3>7, <3>8
    <3>15. acc1[d] = [w.acc[d] EXCEPT !.postedDebits = @ + t.amount]
      BY <2>7, <3>7
    <3>16. acc1[d].postedCredits = w.acc[d].postedCredits /\ acc1[d].postedDebits = w.acc[d].postedDebits + t.amount
      BY <2>8, <3>15 DEF Account
    <3>17. balanceErr(acc1[d]) = OK
      BY SMTT(30), <2>8, <3>5, <3>16, Amounts DEF balanceErr, Balance, Account
    <3>10. postImmediate(w.acc, t) = [acc |-> acc2, err |-> OK]
      BY <2>6, <3>5, <3>7, <3>8, <3>9, <3>17 DEF postImmediate
    <3>11. amountsMoved(s, t) = [acc |-> acc2, err |-> OK]
      BY <2>10, <2>11, <3>10 DEF amountsMoved
    <3>12. amountsMoved(s, t).err = OK /\ amountsMoved(s, t).acc = a
      BY SMTT(30), <3>9, <3>11
    <3>13. holdsAfter(s, t) = w.pending
      BY <2>10, <2>11 DEF holdsAfter
    <3>14. z.acc = a /\ z.pending = w.pending
      BY <2>2, <3>2, <3>3
    <3> QED
      BY ZenonT(30), <3>5, <3>6, <3>12, <3>13, <3>14, ApplyAccepts
  <2> QED
    BY <2>9, <2>10
<1> QED
  BY <1>2, <1>3

-----------------------------------------------------------------------------
(* Sums of holds, and the net of all accounts *)

\* Two functions agree on a set.
Same(u, w, s) == \A x \in s : u[x] = w[x]

\* The sum over a part of a set is that of any function that agrees there.
LEMMA AddsPart ==
  ASSUME NEW S, NEW s \in SUBSET S, NEW w, NEW f, Adds(w, S, f),
         NEW u, Same(u, w, s)
  PROVE  \E g : Adds(u, s, g) /\ g[s] = f[s]
<1>0. PICK g : g = [r \in SUBSET s |-> f[r]]
  OBVIOUS
<1>1. \A r \in SUBSET s : g[r] = f[r] /\ r \in SUBSET S /\ f[r] \in Int
  BY <1>0 DEF Adds
<1>2. g \in [SUBSET s -> Int]
  BY <1>0, <1>1
<1>3. ASSUME NEW r \in SUBSET s, NEW x \in r
      PROVE  g[r] = u[x] + g[r \ {x}]
  <2>1. r \ {x} \in SUBSET s /\ r \in SUBSET S /\ x \in s /\ u[x] = w[x]
    BY DEF Same
  <2>2. f[r] = w[x] + f[r \ {x}]
    BY <2>1 DEF Adds
  <2> QED
    BY <1>1, <2>1, <2>2
<1>4. g[{}] = 0
  BY <1>1 DEF Adds
<1> QED
  BY <1>1, <1>2, <1>3, <1>4 DEF Adds

\* Taking a hold out of a finite set takes its amount out of the sum.
LEMMA SumRemove ==
  ASSUME NEW S, IsFiniteSet(S), \A x \in S : x.amount \in Int, NEW h \in S
  PROVE  /\ sum(amountOf, S) \in Int /\ sum(amountOf, S \ {h}) \in Int
         /\ sum(amountOf, S) = h.amount + sum(amountOf, S \ {h})
<1>1. PICK w : w = [x \in S |-> x.amount]
  OBVIOUS
<1>2. w \in [S -> Int]
  BY <1>1
<1>3. PICK f : Adds(w, S, f)
  BY <1>2, AddsExists
<1>4. PICK s : s = S \ {h}
  OBVIOUS
<1>5. PICK u : u = [x \in s |-> x.amount]
  OBVIOUS
<1>12. s \in SUBSET S /\ Same(u, w, s)
  BY <1>1, <1>4, <1>5 DEF Same
<1>7. PICK g : Adds(u, s, g) /\ g[s] = f[s]
  BY SMTT(30), <1>3, <1>12, AddsPart
<1>8. sum(amountOf, S) = f[S]
  BY <1>1, <1>3, SumAmount
<1>9. IsFiniteSet(s)
  BY <1>4, FS_Subset
<1>10. sum(amountOf, s) = g[s]
  BY <1>4, <1>5, <1>7, <1>9, SumAmount
<1>11. f[S] \in Int /\ f[s] \in Int /\ f[S] = w[h] + f[S \ {h}]
  BY <1>3, <1>4 DEF Adds
<1> QED
  BY <1>1, <1>4, <1>7, <1>8, <1>10, <1>11

\* No holds sum up to nothing.
LEMMA SumEmpty ==
  sum(amountOf, {}) = 0
<1>1. PICK w : w = [x \in {} |-> x.amount]
  OBVIOUS
<1>2. w \in [{} -> Int]
  BY <1>1
<1>3. IsFiniteSet({})
  BY FS_EmptySet
<1>4. PICK f : Adds(w, {}, f)
  BY <1>2, <1>3, AddsExists
<1>5. sum(amountOf, {}) = f[{}]
  BY <1>1, <1>3, <1>4, SumAmount
<1> QED
  BY <1>4, <1>5 DEF Adds

\* Sums of amounts that are not negative are not negative.
LEMMA SumNat ==
  ASSUME NEW S, IsFiniteSet(S), \A x \in S : x.amount \in Nat
  PROVE  sum(amountOf, S) \in Nat
<1>1. PICK w : w = [x \in S |-> x.amount]
  OBVIOUS
<1>2. w \in [S -> Int]
  BY SMTT(30), <1>1
<1>3. PICK f : Adds(w, S, f)
  BY <1>2, AddsExists
<1>4. sum(amountOf, S) = f[S]
  BY SMTT(30), <1>1, <1>3, SumAmount
<1> DEFINE bad == {n \in Nat : \E s \in SUBSET S : Cardinality(s) = n /\ f[s] \notin Nat}
<1>5. SUFFICES ASSUME bad # {} PROVE FALSE
  <2>1. Cardinality(S) \in Nat
    BY FS_CardinalityType
  <2> QED
    BY <1>4, <2>1
<1>6. PICK n \in bad : \A k \in bad : n <= k
  <2> HIDE DEF bad
  <2>1. bad \subseteq Nat
    BY DEF bad
  <2> QED
    BY <1>5, <2>1, LeastNat
<1>7. PICK s \in SUBSET S : Cardinality(s) = n /\ f[s] \notin Nat
  OBVIOUS
<1>16. f[{}] = 0
  BY <1>3 DEF Adds
<1>8. s # {}
  BY SMTT(30), <1>7, <1>16
<1>9. PICK x \in s : TRUE
  BY <1>8
<1>10. IsFiniteSet(s)
  BY FS_Subset
<1>11. Cardinality(s \ {x}) = n - 1 /\ n - 1 \in Nat /\ n \in Nat
  <2>1. Cardinality(s \ {x}) \in Nat /\ n \in Nat
    BY <1>10, FS_RemoveElement, FS_CardinalityType
  <2> QED
    BY <1>7, <1>9, <1>10, <2>1, FS_RemoveElement
<1>12. n - 1 \notin bad
  BY SMTT(30), <1>6, <1>11
<1>13. s \ {x} \in SUBSET S
  OBVIOUS
<1>14. f[s \ {x}] \in Nat
  BY <1>11, <1>12, <1>13
<1>15. f[s] = w[x] + f[s \ {x}] /\ w[x] \in Nat
  BY <1>1, <1>3, <1>9 DEF Adds
<1> QED
  BY SMTT(30), <1>7, <1>14, <1>15

\* A hold more adds its amount to the sum.
LEMMA SumAdd ==
  ASSUME NEW S, IsFiniteSet(S), \A x \in S : x.amount \in Int, NEW h, h \notin S, h.amount \in Int
  PROVE  sum(amountOf, S \cup {h}) = h.amount + sum(amountOf, S)
<1>1. PICK T : T = S \cup {h}
  OBVIOUS
<1>2. IsFiniteSet(T) /\ h \in T /\ T \ {h} = S /\ \A x \in T : x.amount \in Int
  BY <1>1, FS_AddElement
<1> QED
  BY SMTT(30), <1>1, <1>2, SumRemove

\* The net of an account's posted credits and debits.
nets(acc) == [a \in DOMAIN acc |-> acc[a].postedCredits - acc[a].postedDebits]

\* netPosted adds the nets of the accounts up.
LEMMA NetSum ==
  ASSUME NEW acc, acc \in [DOMAIN acc -> Account], IsFiniteSet(DOMAIN acc), NEW f, Adds(nets(acc), DOMAIN acc, f)
  PROVE  netPosted(acc) = f[DOMAIN acc]
<1>1. PICK S, w : S = DOMAIN acc /\ w = nets(acc)
  OBVIOUS
<1> DEFINE net(a) == acc[a].postedCredits - acc[a].postedDebits
<1> DEFINE g == CHOOSE iter : iter = [s \in SUBSET S |-> IF s = {} THEN 0 ELSE net(CHOOSE x \in s : TRUE) + iter[s \ {CHOOSE x \in s : TRUE}]]
<1>2. netPosted(acc) = g[S]
  BY <1>1 DEF netPosted, sum, MapThenSumSet, MapThenFoldSet
<1>3. \A a \in S : w[a] = net(a)
  BY <1>1 DEF nets
<1>4. \A s \in SUBSET S : s # {} => oneOf(s) \in s
  BY DEF oneOf
<1>5. f = [s \in SUBSET S |-> IF s = {} THEN 0 ELSE net(CHOOSE x \in s : TRUE) + f[s \ {CHOOSE x \in s : TRUE}]]
  <2>1. Folds(w, S, f)
    BY <1>1, FoldsAdds
  <2>2. \A s \in SUBSET S : f[s] = IF s = {} THEN 0 ELSE net(oneOf(s)) + f[s \ {oneOf(s)}]
    BY <1>3, <1>4, <2>1 DEF Folds
  <2>3. f = [s \in SUBSET S |-> f[s]]
    BY <1>1 DEF Adds
  <2> QED
    BY <2>2, <2>3 DEF oneOf
<1>6. g = [s \in SUBSET S |-> IF s = {} THEN 0 ELSE net(CHOOSE x \in s : TRUE) + g[s \ {CHOOSE x \in s : TRUE}]]
  BY <1>5
<1> HIDE DEF g
<1>7. Folds(w, S, g)
  <2>1. \A s \in SUBSET S : g[s] = IF s = {} THEN 0 ELSE w[oneOf(s)] + g[s \ {oneOf(s)}]
    BY SMTT(30), <1>3, <1>4, <1>6 DEF oneOf
  <2>2. g = [s \in SUBSET S |-> g[s]]
    BY <1>6
  <2> QED
    BY <2>1, <2>2 DEF Folds
<1> QED
  BY <1>1, <1>2, <1>7, FoldsOnce

\* Moving an amount from one account to another leaves the net of all accounts
\* alone.
LEMMA NetSame ==
  ASSUME NEW acc, acc \in [DOMAIN acc -> Account], IsFiniteSet(DOMAIN acc), NEW acc2,
         NEW d \in DOMAIN acc, NEW c \in DOMAIN acc, NEW p \in Int, NEW dh, NEW ch,
         Shifts(acc, acc2, d, c, p, dh, p, ch)
  PROVE  netPosted(acc2) = netPosted(acc)
<1>1. PICK S, w, u : S = DOMAIN acc /\ w = nets(acc) /\ u = nets(acc2)
  OBVIOUS
<1>2. S = DOMAIN acc2 /\ acc2 \in [S -> Account]
  BY <1>1 DEF Shifts
<1>3. w \in [S -> Int]
  <2>1. \A a \in S : acc[a] \in Account
    BY <1>1
  <2>2. \A a \in S : acc[a].postedCredits \in Int /\ acc[a].postedDebits \in Int
    BY SMTT(30), <2>1, Amounts DEF Account
  <2> QED
    BY SMTT(30), <1>1, <2>2 DEF nets
<1>4. \A a \in S : u[a] = w[a] + (IF a = c THEN p ELSE 0) - (IF a = d THEN p ELSE 0)
  <2>1. \A a \in S : acc[a] \in Account
    BY <1>1
  <2>2. \A a \in S : acc[a].postedCredits \in Int /\ acc[a].postedDebits \in Int
    BY SMTT(30), <2>1, Amounts DEF Account
  <2>3. \A a \in S : /\ w[a] = acc[a].postedCredits - acc[a].postedDebits
                     /\ u[a] = acc2[a].postedCredits - acc2[a].postedDebits
    BY <1>1, <1>2 DEF nets
  <2>4. \A a \in S : /\ acc2[a].postedCredits = acc[a].postedCredits + IF a = c THEN p ELSE 0
                     /\ acc2[a].postedDebits = acc[a].postedDebits + IF a = d THEN p ELSE 0
    BY <1>1 DEF Shifts
  <2> QED
    BY SMTT(30), <2>2, <2>3, <2>4
<1>5. PICK f : Adds(w, S, f)
  BY <1>1, <1>3, AddsExists
<1>6. PICK g : g = [s \in SUBSET S |-> f[s] + (IF c \in s THEN p ELSE 0) - (IF d \in s THEN p ELSE 0)]
  OBVIOUS
<1>7. Adds(u, S, g)
  <2>1. \A s \in SUBSET S : f[s] \in Int
    BY <1>5 DEF Adds
  <2>2. g \in [SUBSET S -> Int]
    BY SMTT(30), <1>6, <2>1
  <2>3. g[{}] = 0
    BY SMTT(30), <1>5, <1>6 DEF Adds
  <2>4. ASSUME NEW s \in SUBSET S, NEW x \in s
        PROVE  g[s] = u[x] + g[s \ {x}]
    <3>1. s \ {x} \in SUBSET S /\ f[s] = w[x] + f[s \ {x}]
      BY <1>5 DEF Adds
    <3>2. w[x] \in Int /\ f[s \ {x}] \in Int
      BY <1>3, <2>1, <3>1
    <3>3. /\ g[s] = f[s] + (IF c \in s THEN p ELSE 0) - (IF d \in s THEN p ELSE 0)
          /\ g[s \ {x}] = f[s \ {x}] + (IF c \in s \ {x} THEN p ELSE 0) - (IF d \in s \ {x} THEN p ELSE 0)
      BY <1>6, <3>1
    <3>4. u[x] = w[x] + (IF x = c THEN p ELSE 0) - (IF x = d THEN p ELSE 0)
      BY <1>4
    <3> QED
      BY SMTT(30), <3>1, <3>2, <3>3, <3>4
  <2> QED
    BY <2>2, <2>3, <2>4 DEF Adds
<1>8. g[S] = f[S]
  BY SMTT(30), <1>1, <1>5, <1>6 DEF Adds
<1>9. netPosted(acc) = f[S]
  BY <1>1, <1>5, NetSum
<1>10. netPosted(acc2) = g[S]
  BY <1>1, <1>2, <1>7, NetSum
<1> QED
  BY <1>8, <1>9, <1>10

-----------------------------------------------------------------------------
(* What the validator answers *)

\* The errors ValidateBatch answers a single transfer with.
Rejections ==
  {"ErrInvalidTransferFlags", "ErrPendingNotFound", "ErrLedgerMismatch", "ErrOverTransfer", "ErrAccountNotFound",
   "ErrInvariantViolation", "ErrBalanceOverflow", "ErrDuplicateTransferID", "ErrZeroAmount", "ErrSelfTransfer",
   "ErrCurrencyMismatch", "ErrAccountFrozen", "ErrAccountClosed", "ErrInsufficientFunds"}

\* A validator's view.
View(w) == w = [acc |-> w.acc, pending |-> w.pending, seen |-> w.seen]

\* Validating a post keeps the IDs seen, and answers OK or one of the errors.
LEMMA PostView ==
  ASSUME NEW w, View(w), NEW t, NEW g, g = validatePost(w, t)
  PROVE  g.v.seen = w.seen /\ g.err \in Rejections \cup {OK} /\ View(g.v)
<1>1. PICK h : h = w.pending[t.id]
  OBVIOUS
<1>2. PICK x, d, c : x = settled(h, t) /\ d = h.debit /\ c = h.credit
  OBVIOUS
<1>3. PICK acc1 : acc1 = [w.acc EXCEPT ![d].pendingDebits = @ - x, ![d].postedDebits = @ + x]
  OBVIOUS
<1>4. PICK acc2 : acc2 = [acc1 EXCEPT ![c].pendingCredits = @ - x, ![c].postedCredits = @ + x]
  OBVIOUS
<1>5. PICK p : p = settle(w.pending, t)
  OBVIOUS
<1>6. PICK z : z = [w EXCEPT !.acc = acc2, !.pending = p]
  OBVIOUS
<1>7. g = IF w.acc[d].pendingDebits < x THEN [v |-> w, err |-> "ErrInvariantViolation"]
          ELSE IF w.acc[d].postedDebits + x > MaxUint THEN [v |-> w, err |-> "ErrBalanceOverflow"]
          ELSE IF acc1[c].pendingCredits < x THEN [v |-> w, err |-> "ErrInvariantViolation"]
          ELSE IF acc1[c].postedCredits + x > MaxUint THEN [v |-> w, err |-> "ErrBalanceOverflow"]
          ELSE [v |-> z, err |-> OK]
  BY <1>1, <1>2, <1>3, <1>4, <1>5, <1>6 DEF validatePost
<1>8. z = [acc |-> acc2, pending |-> p, seen |-> w.seen]
  BY <1>6 DEF View
<1>9. z.seen = w.seen /\ View(z)
  BY <1>8 DEF View
<1> QED
  BY SMTT(30), <1>7, <1>9 DEF Rejections, OK

\* So does validating a void,
LEMMA VoidView ==
  ASSUME NEW w, View(w), NEW t, NEW g, g = validateVoid(w, t)
  PROVE  g.v.seen = w.seen /\ g.err \in Rejections \cup {OK} /\ View(g.v)
<1>1. PICK h : h = w.pending[t.id]
  OBVIOUS
<1>2. PICK x, d, c : x = h.amount /\ d = h.debit /\ c = h.credit
  OBVIOUS
<1>3. PICK acc1 : acc1 = [w.acc EXCEPT ![d].pendingDebits = @ - x]
  OBVIOUS
<1>4. PICK acc2 : acc2 = [acc1 EXCEPT ![c].pendingCredits = @ - x]
  OBVIOUS
<1>5. PICK p : p = without(w.pending, t.id)
  OBVIOUS
<1>6. PICK z : z = [w EXCEPT !.acc = acc2, !.pending = p]
  OBVIOUS
<1>7. g = IF w.acc[d].pendingDebits < x THEN [v |-> w, err |-> "ErrInvariantViolation"]
          ELSE IF acc1[c].pendingCredits < x THEN [v |-> w, err |-> "ErrInvariantViolation"]
          ELSE [v |-> z, err |-> OK]
  BY <1>1, <1>2, <1>3, <1>4, <1>5, <1>6 DEF validateVoid
<1>8. z = [acc |-> acc2, pending |-> p, seen |-> w.seen]
  BY <1>6 DEF View
<1>9. z.seen = w.seen /\ View(z)
  BY <1>8 DEF View
<1> QED
  BY SMTT(30), <1>7, <1>9 DEF Rejections, OK

\* any settlement,
LEMMA SettlementView ==
  ASSUME NEW w, View(w), NEW t, NEW g, g = validateSettlement(w, t)
  PROVE  g.v.seen = w.seen /\ g.err \in Rejections \cup {OK} /\ View(g.v)
<1>1. PICK h, p, q : h = w.pending[t.id] /\ p = validatePost(w, t) /\ q = validateVoid(w, t)
  OBVIOUS
<1>2. PICK b : b = ({h.debit, h.credit} \ DOMAIN w.acc # {})
  OBVIOUS
<1>3. g = IF t.id \notin DOMAIN w.pending THEN [v |-> w, err |-> "ErrPendingNotFound"]
          ELSE IF t.ledger # 0 /\ t.ledger # h.ledger THEN [v |-> w, err |-> "ErrLedgerMismatch"]
          ELSE IF isPost(t) /\ t.amount > h.amount THEN [v |-> w, err |-> "ErrOverTransfer"]
          ELSE IF b THEN [v |-> w, err |-> "ErrAccountNotFound"]
          ELSE IF isPost(t) THEN p ELSE q
  BY <1>1, <1>2 DEF validateSettlement
<1>4. p.v.seen = w.seen /\ p.err \in Rejections \cup {OK} /\ View(p.v)
  BY <1>1, PostView
<1>5. q.v.seen = w.seen /\ q.err \in Rejections \cup {OK} /\ View(q.v)
  BY <1>1, VoidView
<1> QED
  BY SMTT(30), <1>3, <1>4, <1>5 DEF Rejections

\* The invariants of an account are reported by known errors.
LEMMA AccountErrors ==
  ASSUME NEW a
  PROVE  balanceErr(a) \in Rejections \cup {OK} /\ availableErr(a) \in Rejections \cup {OK}
<1>1. balanceErr(a) \in {"ErrInvariantViolation", OK}
  BY DEF balanceErr
<1>2. availableErr(a) \in {"ErrInvariantViolation", "ErrBalanceOverflow", OK}
  <2>1. PICK e, b, c : e = balanceErr(a) /\ b = (Balance(a) < a.pendingDebits)
                       /\ c = (Balance(a) - a.pendingDebits + a.pendingCredits > MaxUint)
    OBVIOUS
  <2>2. availableErr(a) = IF e # OK THEN e ELSE IF b THEN "ErrInvariantViolation" ELSE IF c THEN "ErrBalanceOverflow" ELSE OK
    BY <2>1 DEF availableErr
  <2> QED
    BY <1>1, <2>1, <2>2
<1> QED
  BY <1>1, <1>2 DEF Rejections

\* So are the flaws of a transfer itself.
LEMMA StructureErrors ==
  ASSUME NEW acc, NEW t
  PROVE  validateStructure(acc, t) \in Rejections \cup {OK}
<1>1. PICK d, c, b : d = acc[t.debit] /\ c = acc[t.credit] /\ b = ({t.debit, t.credit} \ DOMAIN acc # {})
  OBVIOUS
<1>2. validateStructure(acc, t) =
        IF t.amount = 0 THEN "ErrZeroAmount"
        ELSE IF t.debit = t.credit THEN "ErrSelfTransfer"
        ELSE IF b THEN "ErrAccountNotFound"
        ELSE IF d.currency # c.currency THEN "ErrCurrencyMismatch"
        ELSE IF d.ledger # t.ledger \/ c.ledger # t.ledger THEN "ErrLedgerMismatch"
        ELSE IF "frozen" \in d.flags THEN "ErrAccountFrozen"
        ELSE IF "closed" \in d.flags THEN "ErrAccountClosed"
        ELSE IF "frozen" \in c.flags THEN "ErrAccountFrozen"
        ELSE IF "closed" \in c.flags THEN "ErrAccountClosed"
        ELSE OK
  BY <1>1 DEF validateStructure
<1> QED
  BY <1>2 DEF Rejections

\* a pending transfer,
LEMMA HoldView ==
  ASSUME NEW w, View(w), NEW t, NEW g, g = validateHold(w, t)
  PROVE  g.v.seen = w.seen /\ g.err \in Rejections \cup {OK} /\ View(g.v)
<1>1. PICK d, c, e : d = w.acc[t.debit] /\ c = w.acc[t.credit] /\ e = availableErr(d)
  OBVIOUS
<1>2. PICK a, p : /\ a = [w.acc EXCEPT ![t.debit].pendingDebits = @ + t.amount, ![t.credit].pendingCredits = @ + t.amount]
                  /\ p = with(w.pending, t.id, t)
  OBVIOUS
<1>3. PICK z : z = [w EXCEPT !.acc = a, !.pending = p]
  OBVIOUS
<1>4. g = IF e # OK THEN [v |-> w, err |-> e]
          ELSE IF AvailableBalance(d) < t.amount THEN [v |-> w, err |-> "ErrInsufficientFunds"]
          ELSE IF d.pendingDebits + t.amount > MaxUint \/ c.pendingCredits + t.amount > MaxUint
          THEN [v |-> w, err |-> "ErrBalanceOverflow"]
          ELSE [v |-> z, err |-> OK]
  BY <1>1, <1>2, <1>3 DEF validateHold
<1>5. z = [acc |-> a, pending |-> p, seen |-> w.seen]
  BY <1>3 DEF View
<1>6. z.seen = w.seen /\ View(z)
  BY <1>5 DEF View
<1>7. e \in Rejections \cup {OK}
  BY <1>1, AccountErrors
<1> QED
  BY SMTT(30), <1>4, <1>6, <1>7 DEF Rejections, OK

\* and a plain one.
LEMMA PlainView ==
  ASSUME NEW w, View(w), NEW t, NEW g, g = validatePlain(w, t)
  PROVE  g.v.seen = w.seen /\ g.err \in Rejections \cup {OK} /\ View(g.v)
<1>1. PICK d, c, e : d = w.acc[t.debit] /\ c = w.acc[t.credit] /\ e = balanceErr(d)
  OBVIOUS
<1>2. PICK a : a = [w.acc EXCEPT ![t.debit].postedDebits = @ + t.amount, ![t.credit].postedCredits = @ + t.amount]
  OBVIOUS
<1>3. PICK z : z = [w EXCEPT !.acc = a]
  OBVIOUS
<1>4. g = IF e # OK THEN [v |-> w, err |-> e]
          ELSE IF Balance(d) < t.amount THEN [v |-> w, err |-> "ErrInsufficientFunds"]
          ELSE IF d.postedDebits + t.amount > MaxUint \/ c.postedCredits + t.amount > MaxUint
          THEN [v |-> w, err |-> "ErrBalanceOverflow"]
          ELSE [v |-> z, err |-> OK]
  BY <1>1, <1>2, <1>3 DEF validatePlain
<1>5. z = [acc |-> a, pending |-> w.pending, seen |-> w.seen]
  BY <1>3 DEF View
<1>6. z.seen = w.seen /\ View(z)
  BY <1>5 DEF View
<1>7. e \in Rejections \cup {OK}
  BY <1>1, AccountErrors
<1> QED
  BY SMTT(30), <1>4, <1>6, <1>7 DEF Rejections, OK

\* One step of the validator: it forgets no transfer ID, answers OK or one of
\* the errors, and passes a plain or pending transfer only if its ID is new.
LEMMA ValidatorView ==
  ASSUME NEW w, View(w), NEW t, NEW recorded, NEW g, g = validateAndApply(w, t, recorded)
  PROVE  /\ View(g.v) /\ w.seen \subseteq g.v.seen /\ g.err \in Rejections \cup {OK}
         /\ isNew(t) /\ g.err = OK => t.id \notin w.seen \cup recorded /\ t.id \in g.v.seen
<1>1. PICK u, e, q : u = [w EXCEPT !.seen = @ \cup {t.id}] /\ e = validateStructure(w.acc, t) /\ q = validateSettlement(w, t)
  OBVIOUS
<1>2. PICK h, p : h = validateHold(u, t) /\ p = validatePlain(u, t)
  OBVIOUS
<1>3. g = IF badFlags(t) THEN [v |-> w, err |-> "ErrInvalidTransferFlags"]
          ELSE IF isPost(t) \/ isVoid(t) THEN q
          ELSE IF t.id \in w.seen \cup recorded THEN [v |-> w, err |-> "ErrDuplicateTransferID"]
          ELSE IF e # OK THEN [v |-> u, err |-> e]
          ELSE IF isPending(t) THEN h ELSE p
  BY <1>1, <1>2 DEF validateAndApply
<1>4. u = [acc |-> w.acc, pending |-> w.pending, seen |-> w.seen \cup {t.id}]
  BY <1>1 DEF View
<1>5. u.seen = w.seen \cup {t.id} /\ View(u)
  BY <1>4 DEF View
<1>6. e \in Rejections \cup {OK}
  BY <1>1, StructureErrors
<1>7. q.v.seen = w.seen /\ q.err \in Rejections \cup {OK} /\ View(q.v)
  BY <1>1, SettlementView
<1>8. h.v.seen = u.seen /\ h.err \in Rejections \cup {OK} /\ View(h.v)
  BY <1>2, <1>5, HoldView
<1>9. p.v.seen = u.seen /\ p.err \in Rejections \cup {OK} /\ View(p.v)
  BY <1>2, <1>5, PlainView
<1>10. CASE badFlags(t) \/ isPost(t) \/ isVoid(t)
  BY SMTT(30), <1>3, <1>7, <1>10 DEF Rejections, OK, isNew
<1>11. CASE ~(badFlags(t) \/ isPost(t) \/ isVoid(t)) /\ t.id \in w.seen \cup recorded
  BY SMTT(30), <1>3, <1>11 DEF Rejections, OK
<1>12. CASE ~(badFlags(t) \/ isPost(t) \/ isVoid(t)) /\ t.id \notin w.seen \cup recorded
  <2>1. g = IF e # OK THEN [v |-> u, err |-> e] ELSE IF isPending(t) THEN h ELSE p
    BY <1>3, <1>12
  <2> QED
    BY SMTT(30), <1>5, <1>6, <1>8, <1>9, <1>12, <2>1
<1> QED
  BY <1>10, <1>11, <1>12

-----------------------------------------------------------------------------
(* Types, money and solvency *)

\* The holds as the ledger keeps them: a finite map to transfers.
Pending(pending) == pending \in [DOMAIN pending -> Transfer] /\ IsFiniteSet(DOMAIN pending)

\* Closing a hold takes it out of the map.
LEMMA WithoutHold ==
  ASSUME NEW pending, Pending(pending), NEW k
  PROVE  Pending(without(pending, k)) /\ DOMAIN without(pending, k) = DOMAIN pending \ {k}
<1>1. IsFiniteSet(DOMAIN pending \ {k})
  BY FS_Subset DEF Pending
<1> QED
  BY <1>1 DEF Pending, without

\* Opening one, or keeping its rest, puts it there.
LEMMA WithHold ==
  ASSUME NEW pending, Pending(pending), NEW k, NEW t \in Transfer
  PROVE  Pending(with(pending, k, t)) /\ DOMAIN with(pending, k, t) = DOMAIN pending \cup {k}
<1>1. IsFiniteSet(DOMAIN pending \cup {k})
  BY FS_AddElement DEF Pending
<1> QED
  BY <1>1 DEF Pending, with

\* The hold a partial post leaves behind.
rest(h, x) == [h EXCEPT !.amount = @ - x]

\* The rest is a transfer with the hold's ID and accounts, and what was not
\* posted.
LEMMA Rest ==
  ASSUME NEW h \in Transfer, NEW x \in Amount, x <= h.amount, NEW e, e = rest(h, x)
  PROVE  e \in Transfer /\ e.id = h.id /\ e.debit = h.debit /\ e.credit = h.credit /\ e.amount = h.amount - x
<1>1. h.amount \in Nat /\ x \in Nat /\ h.amount <= MaxUint /\ MaxUint \in Nat
  BY Amounts DEF Transfer
<1>2. h.amount - x \in Amount
  BY SMTT(30), <1>1, Amounts
<1>3. h = [id |-> h.id, debit |-> h.debit, credit |-> h.credit, amount |-> h.amount, ledger |-> h.ledger,
           timeout |-> h.timeout, flags |-> h.flags, timestamp |-> h.timestamp]
  BY DEF Transfer
<1>4. e = [id |-> h.id, debit |-> h.debit, credit |-> h.credit, amount |-> h.amount - x, ledger |-> h.ledger,
           timeout |-> h.timeout, flags |-> h.flags, timestamp |-> h.timestamp]
  BY <1>3 DEF rest
<1> QED
  BY SMTT(30), <1>2, <1>4 DEF Transfer

\* What a settlement makes of the holds: its hold goes, or its rest stays.
LEMMA SettledHolds ==
  ASSUME NEW pending, Pending(pending), NEW t, t.id \in DOMAIN pending, NEW p, p = settle(pending, t),
         settled(pending[t.id], t) \in Amount, settled(pending[t.id], t) <= pending[t.id].amount
  PROVE  /\ Pending(p)
         /\ \/ p = without(pending, t.id) /\ settled(pending[t.id], t) = pending[t.id].amount
            \/ p = with(pending, t.id, rest(pending[t.id], settled(pending[t.id], t)))
<1>1. PICK h, x : h = pending[t.id] /\ x = settled(pending[t.id], t)
  OBVIOUS
<1>2. h \in Transfer /\ x \in Amount /\ x <= h.amount
  BY <1>1 DEF Pending
<1>3. CASE isPost(t) /\ x # h.amount
  <2>1. PICK e : e = rest(h, x)
    OBVIOUS
  <2>2. e \in Transfer
    BY <1>2, <2>1, Rest
  <2>3. p = [pending EXCEPT ![t.id].amount = @ - x]
    BY <1>1, <1>3 DEF settle
  <2>4. p = [y \in DOMAIN pending |-> IF y = t.id THEN e ELSE pending[y]]
    BY <1>1, <2>1, <2>3 DEF rest, Pending
  <2>5. DOMAIN pending \cup {t.id} = DOMAIN pending
    OBVIOUS
  <2>6. p = with(pending, t.id, e)
    BY <2>4, <2>5 DEF with
  <2>8. Pending(with(pending, t.id, e))
    BY <2>2, WithHold
  <2>7. Pending(p)
    BY <2>6, <2>8
  <2> QED
    BY <1>1, <2>1, <2>6, <2>7
<1>4. CASE ~(isPost(t) /\ x # h.amount)
  <2>1. p = without(pending, t.id)
    BY <1>1, <1>4 DEF settle
  <2>2. x = h.amount
    BY <1>1, <1>4 DEF settled
  <2> QED
    BY <1>1, <2>1, <2>2, WithoutHold
<1> QED
  BY <1>3, <1>4

\* An accepted transfer keeps every amount within a Uint128 and every account
\* where it is.
LEMMA EffectTypes ==
  ASSUME NEW acc, NEW pending, Pending(pending), NEW t \in Transfer, NEW acc2, NEW pending2,
         Effect(acc, pending, t, acc2, pending2)
  PROVE  DOMAIN acc2 = DOMAIN acc /\ acc2 \in [DOMAIN acc2 -> Account] /\ Pending(pending2)
<1>1. CASE Settles(acc, pending, t, acc2, pending2)
  <2>1. DOMAIN acc2 = DOMAIN acc /\ acc2 \in [DOMAIN acc2 -> Account]
    BY <1>1 DEF Settles, Shifts
  <2>2. Pending(pending2)
    BY <1>1, SettledHolds DEF Settles
  <2> QED
    BY <2>1, <2>2
<1>2. CASE Opens(acc, pending, t, acc2, pending2)
  BY <1>2, WithHold DEF Opens, Shifts
<1>3. CASE Pays(acc, pending, t, acc2, pending2)
  BY <1>3 DEF Pays, Shifts
<1> QED
  BY <1>1, <1>2, <1>3 DEF Effect

\* An accepted transfer moves posted amounts from one account to another.
LEMMA EffectNet ==
  ASSUME NEW acc, acc \in [DOMAIN acc -> Account], IsFiniteSet(DOMAIN acc), NEW pending, NEW t \in Transfer,
         NEW acc2, NEW pending2, Effect(acc, pending, t, acc2, pending2)
  PROVE  netPosted(acc2) = netPosted(acc)
<1>1. t.amount \in Int
  BY SMTT(30), Amounts DEF Transfer
<1>2. CASE Settles(acc, pending, t, acc2, pending2)
  <2>1. PICK d, c, x : d = pending[t.id].debit /\ c = pending[t.id].credit /\ x = settled(pending[t.id], t)
    OBVIOUS
  <2>2. x \in Int /\ d \in DOMAIN acc /\ c \in DOMAIN acc
    BY SMTT(30), <1>2, <2>1, Amounts DEF Settles
  <2>3. PICK p \in {0, x} : Shifts(acc, acc2, d, c, p, -x, p, -x)
    BY <1>2, <2>1 DEF Settles
  <2>4. p \in Int
    BY SMTT(30), <2>2
  <2> QED
    BY <2>2, <2>3, <2>4, NetSame
<1>3. CASE Opens(acc, pending, t, acc2, pending2)
  <2>1. /\ Shifts(acc, acc2, t.debit, t.credit, 0, t.amount, 0, t.amount) /\ 0 \in Int
        /\ t.debit \in DOMAIN acc /\ t.credit \in DOMAIN acc
    BY SMTT(30), <1>3 DEF Opens
  <2> QED
    BY <2>1, NetSame
<1>4. CASE Pays(acc, pending, t, acc2, pending2)
  <2>1. /\ Shifts(acc, acc2, t.debit, t.credit, t.amount, 0, t.amount, 0)
        /\ t.debit \in DOMAIN acc /\ t.credit \in DOMAIN acc
    BY <1>4 DEF Pays
  <2> QED
    BY <1>1, <2>1, NetSame
<1> QED
  BY <1>2, <1>3, <1>4 DEF Effect

\* Posted and reserved debits stay within the posted credits, but for the
\* accounts X.
SolventBut(acc, X) ==
  \A a \in DOMAIN acc \ X : acc[a].postedDebits + acc[a].pendingDebits <= acc[a].postedCredits

\* Solvency survives a change that debits an account no more than its credits
\* cover.
LEMMA SolventShift ==
  ASSUME NEW acc, acc \in [DOMAIN acc -> Account], NEW X, NEW Z, X \subseteq Z, SolventBut(acc, X),
         NEW acc2, NEW d, NEW c, NEW dp \in Int, NEW dh \in Int, NEW cp \in Int, NEW ch,
         Shifts(acc, acc2, d, c, dp, dh, cp, ch), cp >= 0,
         \/ dp + dh <= 0
         \/ d \in DOMAIN acc \ Z => acc[d].postedDebits + acc[d].pendingDebits + dp + dh <= acc[d].postedCredits
  PROVE  SolventBut(acc2, Z)
<1> SUFFICES ASSUME NEW a \in DOMAIN acc2 \ Z
             PROVE  acc2[a].postedDebits + acc2[a].pendingDebits <= acc2[a].postedCredits
  BY DEF SolventBut
<1>1. a \in DOMAIN acc /\ a \notin X /\ a \notin Z
  BY DEF Shifts
<1>2. acc[a] \in Account
  BY <1>1
<1>3. acc[a].postedDebits \in Int /\ acc[a].pendingDebits \in Int /\ acc[a].postedCredits \in Int
  BY SMTT(30), <1>2, Amounts DEF Account
<1>4. /\ acc2[a].postedDebits = acc[a].postedDebits + IF a = d THEN dp ELSE 0
      /\ acc2[a].pendingDebits = acc[a].pendingDebits + IF a = d THEN dh ELSE 0
      /\ acc2[a].postedCredits = acc[a].postedCredits + IF a = c THEN cp ELSE 0
  BY <1>1 DEF Shifts
<1>5. acc[a].postedDebits + acc[a].pendingDebits <= acc[a].postedCredits
  BY <1>1 DEF SolventBut
<1>6. a = d => dp + dh <= 0 \/ acc[a].postedDebits + acc[a].pendingDebits + dp + dh <= acc[a].postedCredits
  BY <1>1
<1> QED
  BY SMTT(30), <1>3, <1>4, <1>5, <1>6

\* An accepted transfer leaves solvent every account it does not overdraw;
\* settlements never do.
LEMMA EffectSolvent ==
  ASSUME NEW acc, acc \in [DOMAIN acc -> Account], NEW pending, NEW t \in Transfer, NEW acc2, NEW pending2,
         Effect(acc, pending, t, acc2, pending2), NEW X, NEW Z, X \subseteq Z, SolventBut(acc, X),
         /\ isNew(t) /\ t.debit \in DOMAIN acc
         /\ acc[t.debit].postedCredits < acc[t.debit].postedDebits + acc[t.debit].pendingDebits + t.amount
         => t.debit \in Z
  PROVE  SolventBut(acc2, Z)
<1>1. t.amount \in Int /\ t.amount >= 0
  BY SMTT(30), Amounts DEF Transfer
<1>2. CASE Settles(acc, pending, t, acc2, pending2)
  <2>1. PICK d, c, x : d = pending[t.id].debit /\ c = pending[t.id].credit /\ x = settled(pending[t.id], t)
    OBVIOUS
  <2>2. x \in Int /\ x >= 0 /\ -x \in Int
    BY SMTT(30), <1>2, <2>1, Amounts DEF Settles
  <2>3. PICK p \in {0, x} : Shifts(acc, acc2, d, c, p, -x, p, -x)
    BY <1>2, <2>1 DEF Settles
  <2>4. p + (-x) <= 0 /\ p >= 0 /\ p \in Int
    BY SMTT(30), <2>2
  <2> QED
    BY <2>2, <2>3, <2>4, SolventShift
<1>3. ASSUME isNew(t), t.debit \in DOMAIN acc, NEW dp \in {0, t.amount}, NEW dh \in {0, t.amount}, dp + dh = t.amount,
             NEW ch, Shifts(acc, acc2, t.debit, t.credit, dp, dh, dp, ch)
      PROVE  SolventBut(acc2, Z)
  <2>1. acc[t.debit] \in Account
    BY <1>3
  <2>2. acc[t.debit].postedDebits \in Int /\ acc[t.debit].pendingDebits \in Int /\ acc[t.debit].postedCredits \in Int
    BY SMTT(30), <2>1, Amounts DEF Account
  <2>3. t.debit \in DOMAIN acc \ Z =>
          acc[t.debit].postedDebits + acc[t.debit].pendingDebits + dp + dh <= acc[t.debit].postedCredits
    BY SMTT(30), <1>1, <1>3, <2>2
  <2>4. dp \in Int /\ dh \in Int /\ dp >= 0
    BY SMTT(30), <1>1
  <2> QED
    BY <1>3, <2>3, <2>4, SolventShift
<1>4. CASE Opens(acc, pending, t, acc2, pending2)
  BY SMTT(30), <1>1, <1>3, <1>4 DEF Opens
<1>5. CASE Pays(acc, pending, t, acc2, pending2)
  BY SMTT(30), <1>1, <1>3, <1>5 DEF Pays
<1> QED
  BY <1>2, <1>4, <1>5 DEF Effect

\* The open holds, and those on one side of an account.
openHolds(pending) == {pending[x] : x \in DOMAIN pending}
heldFrom(H, a) == {e \in H : e.debit = a}
heldFor(H, a) == {e \in H : e.credit = a}

\* Pending amounts are the sums of the holds.
Backed(acc, H) ==
  \A a \in DOMAIN acc : /\ acc[a].pendingDebits = sum(amountOf, heldFrom(H, a))
                        /\ acc[a].pendingCredits = sum(amountOf, heldFor(H, a))

\* A hold more adds its amount to the sums of its two accounts.
LEMMA HeldAdd ==
  ASSUME NEW H, IsFiniteSet(H), H \subseteq Transfer, NEW h \in Transfer, h \notin H, NEW a
  PROVE  /\ sum(amountOf, heldFrom(H \cup {h}, a)) = sum(amountOf, heldFrom(H, a)) + IF a = h.debit THEN h.amount ELSE 0
         /\ sum(amountOf, heldFor(H \cup {h}, a)) = sum(amountOf, heldFor(H, a)) + IF a = h.credit THEN h.amount ELSE 0
         /\ sum(amountOf, heldFrom(H, a)) \in Nat /\ sum(amountOf, heldFor(H, a)) \in Nat
<1>1. \A e \in H \cup {h} : e.amount \in Nat
  BY Amounts DEF Transfer
<1>2. PICK S, T : S = heldFrom(H, a) /\ T = heldFor(H, a)
  OBVIOUS
<1>3. IsFiniteSet(S) /\ IsFiniteSet(T)
  BY <1>2, FS_Subset DEF heldFrom, heldFor
<1>4. h \notin S /\ h \notin T /\ h.amount \in Int
  BY SMTT(30), <1>1, <1>2 DEF heldFrom, heldFor
<1>5. (\A e \in S : e.amount \in Nat) /\ (\A e \in T : e.amount \in Nat)
  BY <1>1, <1>2 DEF heldFrom, heldFor
<1>6. (\A e \in S : e.amount \in Int) /\ (\A e \in T : e.amount \in Int)
  BY SMTT(30), <1>5
<1>7. sum(amountOf, S) \in Nat /\ sum(amountOf, T) \in Nat
  BY <1>3, <1>5, SumNat
<1>8. sum(amountOf, S \cup {h}) = h.amount + sum(amountOf, S)
  BY <1>3, <1>4, <1>6, SumAdd
<1>9. sum(amountOf, T \cup {h}) = h.amount + sum(amountOf, T)
  BY <1>3, <1>4, <1>6, SumAdd
<1>10. heldFrom(H \cup {h}, a) = IF a = h.debit THEN S \cup {h} ELSE S
  BY <1>2 DEF heldFrom
<1>11. heldFor(H \cup {h}, a) = IF a = h.credit THEN T \cup {h} ELSE T
  BY <1>2 DEF heldFor
<1>12. sum(amountOf, heldFrom(H \cup {h}, a)) = sum(amountOf, S) + IF a = h.debit THEN h.amount ELSE 0
  <2>1. CASE a = h.debit
    <3>1. heldFrom(H \cup {h}, a) = S \cup {h}
      BY <1>10, <2>1
    <3>2. sum(amountOf, heldFrom(H \cup {h}, a)) = h.amount + sum(amountOf, S)
      BY <1>8, <3>1
    <3> QED
      BY SMTT(30), <1>4, <1>7, <2>1, <3>2
  <2>2. CASE a # h.debit
    <3>1. heldFrom(H \cup {h}, a) = S
      BY <1>10, <2>2
    <3>2. sum(amountOf, heldFrom(H \cup {h}, a)) = sum(amountOf, S)
      BY <3>1
    <3> QED
      BY SMTT(30), <1>7, <2>2, <3>2
  <2> QED
    BY <2>1, <2>2
<1>13. sum(amountOf, heldFor(H \cup {h}, a)) = sum(amountOf, T) + IF a = h.credit THEN h.amount ELSE 0
  <2>1. CASE a = h.credit
    <3>1. heldFor(H \cup {h}, a) = T \cup {h}
      BY <1>11, <2>1
    <3>2. sum(amountOf, heldFor(H \cup {h}, a)) = h.amount + sum(amountOf, T)
      BY <1>9, <3>1
    <3> QED
      BY SMTT(30), <1>4, <1>7, <2>1, <3>2
  <2>2. CASE a # h.credit
    <3>1. heldFor(H \cup {h}, a) = T
      BY <1>11, <2>2
    <3>2. sum(amountOf, heldFor(H \cup {h}, a)) = sum(amountOf, T)
      BY <3>1
    <3> QED
      BY SMTT(30), <1>7, <2>2, <3>2
  <2> QED
    BY <2>1, <2>2
<1> QED
  BY <1>2, <1>7, <1>12, <1>13

-----------------------------------------------------------------------------
(* Reservations and holds *)

\* A hold more adds its amount to the sums of its two accounts.
HeldSums(H, h) ==
  \A a : /\ sum(amountOf, heldFrom(H \cup {h}, a)) = sum(amountOf, heldFrom(H, a)) + IF a = h.debit THEN h.amount ELSE 0
         /\ sum(amountOf, heldFor(H \cup {h}, a)) = sum(amountOf, heldFor(H, a)) + IF a = h.credit THEN h.amount ELSE 0
         /\ sum(amountOf, heldFrom(H, a)) \in Nat /\ sum(amountOf, heldFor(H, a)) \in Nat

\* A hold more adds its amount for every account.
LEMMA HeldSumsAdd ==
  ASSUME NEW H, IsFiniteSet(H), H \subseteq Transfer, NEW h \in Transfer, h \notin H
  PROVE  HeldSums(H, h)
BY HeldAdd DEF HeldSums

\* Opening a hold and reserving its amount keeps reservations backed.
LEMMA BackedAdd ==
  ASSUME NEW acc, NEW H, IsFiniteSet(H), H \subseteq Transfer, Backed(acc, H), NEW h \in Transfer, h \notin H,
         NEW acc2, NEW dp, NEW cp, Shifts(acc, acc2, h.debit, h.credit, dp, h.amount, cp, h.amount)
  PROVE  Backed(acc2, H \cup {h})
<1> SUFFICES ASSUME NEW a \in DOMAIN acc2
             PROVE  /\ acc2[a].pendingDebits = sum(amountOf, heldFrom(H \cup {h}, a))
                    /\ acc2[a].pendingCredits = sum(amountOf, heldFor(H \cup {h}, a))
  BY DEF Backed
<1>1. a \in DOMAIN acc
  BY DEF Shifts
<1>2. /\ acc2[a].pendingDebits = acc[a].pendingDebits + IF a = h.debit THEN h.amount ELSE 0
      /\ acc2[a].pendingCredits = acc[a].pendingCredits + IF a = h.credit THEN h.amount ELSE 0
  BY <1>1 DEF Shifts
<1>3. /\ acc[a].pendingDebits = sum(amountOf, heldFrom(H, a))
      /\ acc[a].pendingCredits = sum(amountOf, heldFor(H, a))
  BY <1>1 DEF Backed
<1>4. /\ sum(amountOf, heldFrom(H \cup {h}, a)) = sum(amountOf, heldFrom(H, a)) + IF a = h.debit THEN h.amount ELSE 0
      /\ sum(amountOf, heldFor(H \cup {h}, a)) = sum(amountOf, heldFor(H, a)) + IF a = h.credit THEN h.amount ELSE 0
  BY SMTT(30), HeldAdd
<1> QED
  BY <1>2, <1>3, <1>4

\* Closing one and releasing its amount does too,
LEMMA BackedRemove ==
  ASSUME NEW acc, NEW G, IsFiniteSet(G), G \subseteq Transfer, NEW h \in Transfer, h \notin G, Backed(acc, G \cup {h}),
         NEW acc2, NEW dp, NEW cp, Shifts(acc, acc2, h.debit, h.credit, dp, -h.amount, cp, -h.amount)
  PROVE  Backed(acc2, G)
<1> SUFFICES ASSUME NEW a \in DOMAIN acc2
             PROVE  /\ acc2[a].pendingDebits = sum(amountOf, heldFrom(G, a))
                    /\ acc2[a].pendingCredits = sum(amountOf, heldFor(G, a))
  BY DEF Backed
<1>1. a \in DOMAIN acc /\ h.amount \in Int
  BY SMTT(30), Amounts DEF Shifts, Transfer
<1>2. /\ acc2[a].pendingDebits = acc[a].pendingDebits + IF a = h.debit THEN -h.amount ELSE 0
      /\ acc2[a].pendingCredits = acc[a].pendingCredits + IF a = h.credit THEN -h.amount ELSE 0
  BY <1>1 DEF Shifts
<1>3. /\ acc[a].pendingDebits = sum(amountOf, heldFrom(G \cup {h}, a))
      /\ acc[a].pendingCredits = sum(amountOf, heldFor(G \cup {h}, a))
  BY <1>1 DEF Backed
<1>4. /\ sum(amountOf, heldFrom(G \cup {h}, a)) = sum(amountOf, heldFrom(G, a)) + IF a = h.debit THEN h.amount ELSE 0
      /\ sum(amountOf, heldFor(G \cup {h}, a)) = sum(amountOf, heldFor(G, a)) + IF a = h.credit THEN h.amount ELSE 0
      /\ sum(amountOf, heldFrom(G, a)) \in Nat /\ sum(amountOf, heldFor(G, a)) \in Nat
  BY HeldAdd
<1>5. PICK s, r, y, z : /\ s = sum(amountOf, heldFrom(G, a)) /\ y = sum(amountOf, heldFrom(G \cup {h}, a))
                        /\ r = sum(amountOf, heldFor(G, a)) /\ z = sum(amountOf, heldFor(G \cup {h}, a))
  OBVIOUS
<1>6. acc2[a].pendingDebits = s
  BY SMTT(30), <1>1, <1>2, <1>3, <1>4, <1>5
<1>7. acc2[a].pendingCredits = r
  BY SMTT(30), <1>1, <1>2, <1>3, <1>4, <1>5
<1> QED
  BY <1>5, <1>6, <1>7

\* so does leaving its rest behind after a partial post,
LEMMA BackedReplace ==
  ASSUME NEW acc, NEW G, IsFiniteSet(G), G \subseteq Transfer, NEW h \in Transfer, h \notin G, Backed(acc, G \cup {h}),
         NEW e \in Transfer, e \notin G, e.debit = h.debit, e.credit = h.credit,
         NEW x \in Int, e.amount = h.amount - x,
         NEW acc2, NEW dp, NEW cp, Shifts(acc, acc2, h.debit, h.credit, dp, -x, cp, -x)
  PROVE  Backed(acc2, G \cup {e})
<1> SUFFICES ASSUME NEW a \in DOMAIN acc2
             PROVE  /\ acc2[a].pendingDebits = sum(amountOf, heldFrom(G \cup {e}, a))
                    /\ acc2[a].pendingCredits = sum(amountOf, heldFor(G \cup {e}, a))
  BY DEF Backed
<1>9. HeldSums(G, h) /\ HeldSums(G, e)
  BY HeldSumsAdd
<1>1. a \in DOMAIN acc /\ h.amount \in Int
  BY SMTT(30), Amounts DEF Shifts, Transfer
<1>2. /\ acc2[a].pendingDebits = acc[a].pendingDebits + IF a = h.debit THEN -x ELSE 0
      /\ acc2[a].pendingCredits = acc[a].pendingCredits + IF a = h.credit THEN -x ELSE 0
  BY <1>1 DEF Shifts
<1>3. /\ acc[a].pendingDebits = sum(amountOf, heldFrom(G \cup {h}, a))
      /\ acc[a].pendingCredits = sum(amountOf, heldFor(G \cup {h}, a))
  BY <1>1 DEF Backed
<1>4. /\ sum(amountOf, heldFrom(G \cup {h}, a)) = sum(amountOf, heldFrom(G, a)) + IF a = h.debit THEN h.amount ELSE 0
      /\ sum(amountOf, heldFor(G \cup {h}, a)) = sum(amountOf, heldFor(G, a)) + IF a = h.credit THEN h.amount ELSE 0
      /\ sum(amountOf, heldFrom(G, a)) \in Nat /\ sum(amountOf, heldFor(G, a)) \in Nat
  BY <1>9 DEF HeldSums
<1>5. /\ sum(amountOf, heldFrom(G \cup {e}, a)) = sum(amountOf, heldFrom(G, a)) + IF a = e.debit THEN e.amount ELSE 0
      /\ sum(amountOf, heldFor(G \cup {e}, a)) = sum(amountOf, heldFor(G, a)) + IF a = e.credit THEN e.amount ELSE 0
  BY <1>9 DEF HeldSums
<1>6. PICK s, r, y, z, u, w : /\ s = sum(amountOf, heldFrom(G, a)) /\ y = sum(amountOf, heldFrom(G \cup {h}, a))
                              /\ r = sum(amountOf, heldFor(G, a)) /\ z = sum(amountOf, heldFor(G \cup {h}, a))
                              /\ u = sum(amountOf, heldFrom(G \cup {e}, a)) /\ w = sum(amountOf, heldFor(G \cup {e}, a))
  OBVIOUS
<1>7. acc2[a].pendingDebits = u
  BY SMTT(30), <1>1, <1>2, <1>3, <1>4, <1>5, <1>6
<1>8. acc2[a].pendingCredits = w
  BY SMTT(30), <1>1, <1>2, <1>3, <1>4, <1>5, <1>6
<1> QED
  BY <1>6, <1>7, <1>8

\* and so does a change of posted amounts alone.
LEMMA BackedKeep ==
  ASSUME NEW acc, acc \in [DOMAIN acc -> Account], NEW H, Backed(acc, H), NEW d, NEW c, NEW acc2, NEW dp, NEW cp,
         Shifts(acc, acc2, d, c, dp, 0, cp, 0)
  PROVE  Backed(acc2, H)
<1> SUFFICES ASSUME NEW a \in DOMAIN acc2
             PROVE  acc2[a].pendingDebits = acc[a].pendingDebits /\ acc2[a].pendingCredits = acc[a].pendingCredits
  BY DEF Backed, Shifts
<1>1. a \in DOMAIN acc
  BY DEF Shifts
<1>2. acc[a] \in Account
  BY <1>1
<1>3. acc[a].pendingDebits \in Int /\ acc[a].pendingCredits \in Int
  BY SMTT(30), <1>2, Amounts DEF Account
<1>4. /\ acc2[a].pendingDebits = acc[a].pendingDebits + IF a = d THEN 0 ELSE 0
      /\ acc2[a].pendingCredits = acc[a].pendingCredits + IF a = c THEN 0 ELSE 0
  BY <1>1 DEF Shifts
<1> QED
  BY SMTT(30), <1>3, <1>4

\* An account's pending amounts cover each of its holds.
LEMMA BackedCovers ==
  ASSUME NEW acc, NEW G, IsFiniteSet(G), G \subseteq Transfer, NEW h \in Transfer, h \notin G, Backed(acc, G \cup {h}),
         h.debit \in DOMAIN acc, h.credit \in DOMAIN acc
  PROVE  acc[h.debit].pendingDebits >= h.amount /\ acc[h.credit].pendingCredits >= h.amount
<1>1. PICK d, c : d = h.debit /\ c = h.credit
  OBVIOUS
<1>2. acc[d].pendingDebits = sum(amountOf, heldFrom(G \cup {h}, d))
  BY <1>1 DEF Backed
<1>3. acc[c].pendingCredits = sum(amountOf, heldFor(G \cup {h}, c))
  BY <1>1 DEF Backed
<1>4. /\ sum(amountOf, heldFrom(G \cup {h}, d)) = sum(amountOf, heldFrom(G, d)) + IF d = h.debit THEN h.amount ELSE 0
      /\ sum(amountOf, heldFrom(G, d)) \in Nat
  BY SMTT(30), HeldAdd
<1>5. /\ sum(amountOf, heldFor(G \cup {h}, c)) = sum(amountOf, heldFor(G, c)) + IF c = h.credit THEN h.amount ELSE 0
      /\ sum(amountOf, heldFor(G, c)) \in Nat
  BY HeldAdd
<1>6. h.amount \in Int
  BY SMTT(30), Amounts DEF Transfer
<1>7. PICK s, r : s = sum(amountOf, heldFrom(G, d)) /\ r = sum(amountOf, heldFor(G, c))
  OBVIOUS
<1>8. acc[d].pendingDebits = s + h.amount /\ s \in Nat
  BY <1>1, <1>2, <1>4, <1>7
<1>9. acc[c].pendingCredits = r + h.amount /\ r \in Nat
  BY <1>1, <1>3, <1>5, <1>7
<1> QED
  BY SMTT(30), <1>1, <1>6, <1>8, <1>9

\* Holds are kept under their transfer IDs and are on existing accounts.
Keyed(acc, pending) ==
  \A x \in DOMAIN pending : /\ pending[x].id = x
                            /\ pending[x].debit \in DOMAIN acc /\ pending[x].credit \in DOMAIN acc

\* The open holds are finitely many transfers.
LEMMA OpenHolds ==
  ASSUME NEW pending, Pending(pending)
  PROVE  IsFiniteSet(openHolds(pending)) /\ openHolds(pending) \subseteq Transfer
<1>1. PICK S, T : S = DOMAIN pending /\ T = openHolds(pending)
  OBVIOUS
<1>2. T \subseteq Transfer /\ pending \in [S -> T] /\ \A e \in T : \E x \in S : pending[x] = e
  BY <1>1 DEF Pending, openHolds
<1>3. pending \in Surjection(S, T)
  BY <1>2 DEF Surjection
<1>4. IsFiniteSet(S)
  BY <1>1 DEF Pending
<1>5. IsFiniteSet(T)
  BY <1>3, <1>4, FS_Surjection
<1> QED
  BY <1>1, <1>2, <1>5

\* A hold of the map, and the others.
LEMMA HoldsSplit ==
  ASSUME NEW acc, NEW pending, Pending(pending), Keyed(acc, pending), NEW k \in DOMAIN pending,
         NEW h, h = pending[k], NEW G, G = openHolds(without(pending, k))
  PROVE  /\ openHolds(pending) = G \cup {h} /\ h \notin G /\ h \in Transfer
         /\ IsFiniteSet(G) /\ G \subseteq Transfer
         /\ \A e : e.id = k => e \notin G
<1>1. DOMAIN without(pending, k) = DOMAIN pending \ {k}
  BY DEF without
<1>2. \A x \in DOMAIN pending \ {k} : without(pending, k)[x] = pending[x]
  BY DEF without
<1>3. G = {pending[x] : x \in DOMAIN pending \ {k}}
  BY <1>1, <1>2 DEF openHolds
<1>4. openHolds(pending) = G \cup {h}
  BY <1>3 DEF openHolds
<1>5. \A e : e.id = k => e \notin G
  BY <1>3 DEF Keyed
<1>6. h.id = k /\ h \in Transfer
  BY DEF Keyed, Pending
<1>7. Pending(without(pending, k))
  BY WithoutHold
<1>8. IsFiniteSet(G) /\ G \subseteq Transfer
  BY <1>7, OpenHolds
<1> QED
  BY <1>4, <1>5, <1>6, <1>8

\* An accepted transfer keeps reservations backed, if it does not replace an
\* open hold.
LEMMA EffectBacked ==
  ASSUME NEW acc, acc \in [DOMAIN acc -> Account], NEW pending, Pending(pending), Keyed(acc, pending),
         Backed(acc, openHolds(pending)), NEW t \in Transfer, NEW acc2, NEW pending2,
         Effect(acc, pending, t, acc2, pending2), isNew(t) => t.id \notin DOMAIN pending
  PROVE  Keyed(acc2, pending2) /\ Backed(acc2, openHolds(pending2))
<1>1. IsFiniteSet(openHolds(pending)) /\ openHolds(pending) \subseteq Transfer
  BY OpenHolds
<1>2. CASE Settles(acc, pending, t, acc2, pending2)
  <2>1. PICK k : k = t.id
    OBVIOUS
  <2>2. k \in DOMAIN pending
    BY <1>2, <2>1 DEF Settles
  <2>3. PICK h, x, G : h = pending[k] /\ x = settled(h, t) /\ G = openHolds(without(pending, k))
    OBVIOUS
  <2>4. /\ openHolds(pending) = G \cup {h} /\ h \notin G /\ h \in Transfer
        /\ IsFiniteSet(G) /\ G \subseteq Transfer
        /\ \A e : e.id = k => e \notin G
    BY SMTT(30), <2>2, <2>3, HoldsSplit
  <2>5. x \in Amount /\ x <= h.amount /\ pending2 = settle(pending, t)
    BY <1>2, <2>1, <2>3 DEF Settles
  <2>6. PICK p : Shifts(acc, acc2, h.debit, h.credit, p, -x, p, -x)
    BY <1>2, <2>1, <2>3 DEF Settles
  <2>7. \/ pending2 = without(pending, k) /\ x = h.amount
        \/ pending2 = with(pending, k, rest(h, x))
    BY <2>1, <2>2, <2>3, <2>5, SettledHolds
  <2>8. DOMAIN acc2 = DOMAIN acc
    BY <2>6 DEF Shifts
  <2>9. CASE pending2 = without(pending, k) /\ x = h.amount
    <3>1. Keyed(acc2, pending2)
      BY <2>8, <2>9 DEF Keyed, without
    <3>2. Shifts(acc, acc2, h.debit, h.credit, p, -h.amount, p, -h.amount)
      BY <2>6, <2>9
    <3>3. Backed(acc, G \cup {h})
      BY <2>4
    <3>4. Backed(acc2, G)
      BY <2>4, <3>2, <3>3, BackedRemove
    <3> QED
      BY <2>3, <2>9, <3>1, <3>4
  <2>10. CASE pending2 = with(pending, k, rest(h, x))
    <3>1. PICK e : e = rest(h, x)
      OBVIOUS
    <3>2. e \in Transfer /\ e.id = h.id /\ e.debit = h.debit /\ e.credit = h.credit /\ e.amount = h.amount - x
      BY SMTT(30), <2>4, <2>5, <3>1, Rest
    <3>3. h.id = k /\ h.debit \in DOMAIN acc /\ h.credit \in DOMAIN acc
      BY <2>2, <2>3 DEF Keyed
    <3>4. Keyed(acc2, pending2)
      BY <2>8, <2>10, <3>1, <3>2, <3>3 DEF Keyed, with
    <3>5. openHolds(pending2) = G \cup {e}
      <4>1. DOMAIN pending2 = DOMAIN pending \cup {k} /\ \A y \in DOMAIN pending2 : pending2[y] = IF y = k THEN e ELSE pending[y]
        BY <2>10, <3>1 DEF with
      <4>2. G = {pending[y] : y \in DOMAIN pending \ {k}}
        BY <2>3 DEF openHolds, without
      <4> QED
        BY <4>1, <4>2 DEF openHolds
    <3>6. e \notin G
      BY <2>4, <3>2, <3>3
    <3>7. Backed(acc, G \cup {h}) /\ x \in Int
      BY SMTT(30), <2>4, <2>5, Amounts
    <3>8. Backed(acc2, G \cup {e})
      BY <2>4, <2>6, <3>2, <3>6, <3>7, BackedReplace
    <3> QED
      BY <3>4, <3>5, <3>8
  <2> QED
    BY <2>7, <2>9, <2>10
<1>3. CASE Opens(acc, pending, t, acc2, pending2)
  <2>1. /\ Shifts(acc, acc2, t.debit, t.credit, 0, t.amount, 0, t.amount) /\ t.id \notin DOMAIN pending
        /\ t.debit \in DOMAIN acc /\ t.credit \in DOMAIN acc /\ pending2 = with(pending, t.id, t)
    BY <1>3 DEF Opens
  <2>2. DOMAIN acc2 = DOMAIN acc
    BY <2>1 DEF Shifts
  <2>3. Keyed(acc2, pending2)
    BY <2>1, <2>2 DEF Keyed, with
  <2>4. t \notin openHolds(pending)
    BY <2>1 DEF openHolds, Keyed
  <2>5. openHolds(pending2) = openHolds(pending) \cup {t}
    BY <2>1 DEF openHolds, with
  <2>6. Backed(acc2, openHolds(pending) \cup {t})
    BY <1>1, <2>1, <2>4, BackedAdd
  <2> QED
    BY <2>3, <2>5, <2>6
<1>4. CASE Pays(acc, pending, t, acc2, pending2)
  <2>1. Shifts(acc, acc2, t.debit, t.credit, t.amount, 0, t.amount, 0) /\ pending2 = pending
    BY <1>4 DEF Pays
  <2>2. DOMAIN acc2 = DOMAIN acc
    BY <2>1 DEF Shifts
  <2>3. Backed(acc2, openHolds(pending))
    BY <2>1, BackedKeep
  <2> QED
    BY <2>1, <2>2, <2>3 DEF Keyed
<1> QED
  BY <1>2, <1>3, <1>4 DEF Effect

\* Closing an expired hold that is in the map gives its amounts back.
LEMMA ExpireBacked ==
  ASSUME NEW acc, acc \in [DOMAIN acc -> Account], NEW pending, Pending(pending), Keyed(acc, pending),
         Backed(acc, openHolds(pending)), NEW k \in DOMAIN pending, NEW e, e = pending[k],
         NEW r, r = releasePending(acc, e)
  PROVE  r.err = OK /\ Keyed(r.acc, without(pending, k)) /\ Backed(r.acc, openHolds(without(pending, k)))
<1>1. PICK G : G = openHolds(without(pending, k))
  OBVIOUS
<1>2. /\ openHolds(pending) = G \cup {e} /\ e \notin G /\ e \in Transfer
      /\ IsFiniteSet(G) /\ G \subseteq Transfer
  BY SMTT(30), <1>1, HoldsSplit
<1>3. e.debit \in DOMAIN acc /\ e.credit \in DOMAIN acc
  BY DEF Keyed
<1>4. Backed(acc, G \cup {e})
  BY <1>2
<1>5. acc[e.debit].pendingDebits >= e.amount /\ acc[e.credit].pendingCredits >= e.amount
  BY <1>2, <1>3, <1>4, BackedCovers
<1>6. r.err = OK
  BY <1>2, <1>3, <1>5, ReleasePending
<1>7. Shifts(acc, r.acc, e.debit, e.credit, 0, -e.amount, 0, -e.amount)
  BY <1>2, <1>6, ReleasePending
<1>8. Backed(r.acc, G)
  BY <1>2, <1>4, <1>7, BackedRemove
<1>9. DOMAIN r.acc = DOMAIN acc
  BY <1>7 DEF Shifts
<1>10. Keyed(r.acc, without(pending, k))
  BY <1>9 DEF Keyed, without
<1> QED
  BY <1>1, <1>6, <1>8, <1>10

-----------------------------------------------------------------------------
(* Loops over a batch *)

\* The recursion of selected, up to position n.
Selects(s, K, n, f) ==
  f = [k \in 0 .. n |-> IF k = 0 THEN <<>> ELSE IF k \in K THEN Append(f[k - 1], s[k]) ELSE f[k - 1]]

\* The recursion has a solution: the one at n extends to n + 1.
LEMMA SelectsExists ==
  ASSUME NEW s, NEW K, NEW N \in Nat
  PROVE  \E f : Selects(s, K, N, f)
<1> DEFINE bad == {n \in Nat : ~ \E f : Selects(s, K, n, f)}
<1>1. SUFFICES ASSUME bad # {} PROVE FALSE
  OBVIOUS
<1>2. PICK n \in bad : \A k \in bad : n <= k
  <2> HIDE DEF bad
  <2>1. bad \subseteq Nat
    BY DEF bad
  <2> QED
    BY <1>1, <2>1, LeastNat
<1>3. n \in Nat /\ ~ \E f : Selects(s, K, n, f)
  OBVIOUS
<1>4. n # 0
  <2>1. PICK f : f = [k \in 0 .. 0 |-> <<>>]
    OBVIOUS
  <2>2. f = [k \in 0 .. 0 |-> IF k = 0 THEN <<>> ELSE IF k \in K THEN Append(f[k - 1], s[k]) ELSE f[k - 1]]
    BY SMTT(30), <2>1
  <2>3. Selects(s, K, 0, f)
    BY <2>2 DEF Selects
  <2> QED
    BY <1>3, <2>3
<1>5. n - 1 \in Nat /\ n - 1 \notin bad
  BY SMTT(30), <1>2, <1>3, <1>4
<1>6. PICK f : Selects(s, K, n - 1, f)
  BY <1>5
<1>7. PICK x : x = IF n \in K THEN Append(f[n - 1], s[n]) ELSE f[n - 1]
  OBVIOUS
<1>8. PICK g : g = [k \in 0 .. n |-> IF k = n THEN x ELSE f[k]]
  OBVIOUS
<1>9. ASSUME NEW k \in 0 .. n
      PROVE  g[k] = IF k = 0 THEN <<>> ELSE IF k \in K THEN Append(g[k - 1], s[k]) ELSE g[k - 1]
  <2>1. CASE k = n
    <3>1. g[k] = x /\ n - 1 \in 0 .. n /\ n - 1 # n /\ g[n - 1] = f[n - 1]
      BY SMTT(30), <1>3, <1>4, <1>8, <2>1
    <3> QED
      BY <1>4, <1>7, <2>1, <3>1
  <2>2. CASE k # n /\ k = 0
    <3>1. f[0] = <<>>
      BY SMTT(30), <1>5, <1>6 DEF Selects
    <3> QED
      BY <1>3, <1>8, <2>2, <3>1
  <2>3. CASE k # n /\ k # 0
    <3>1. k \in 0 .. (n - 1) /\ k - 1 \in 0 .. n /\ k - 1 # n
      BY SMTT(30), <1>3, <2>3
    <3>2. g[k] = f[k] /\ g[k - 1] = f[k - 1]
      BY <1>8, <2>3, <3>1
    <3>3. f[k] = IF k = 0 THEN <<>> ELSE IF k \in K THEN Append(f[k - 1], s[k]) ELSE f[k - 1]
      BY <1>6, <3>1 DEF Selects
    <3> QED
      BY <3>2, <3>3
  <2> QED
    BY <2>1, <2>2, <2>3
<1>10. g = [k \in 0 .. n |-> g[k]]
  BY <1>8
<1>11. Selects(s, K, n, g)
  BY <1>9, <1>10 DEF Selects
<1> QED
  BY <1>3, <1>11

\* r is s at the increasing positions pos up to n, all those of K.
PicksAt(s, K, n, r, len, pos) ==
  /\ len \in Nat /\ pos \in [1 .. len -> 1 .. n]
  /\ r = [j \in 1 .. len |-> s[pos[j]]]
  /\ \A j \in 1 .. len : pos[j] \in K
  /\ \A j, l \in 1 .. len : j < l => pos[j] < pos[l]
  /\ \A k \in 1 .. n : k \in K => \E j \in 1 .. len : pos[j] = k
\* r is s at its positions in K.
Picks(s, K, n, r) == \E len, pos : PicksAt(s, K, n, r, len, pos)

\* One position more.
LEMMA PicksMore ==
  ASSUME NEW X, NEW s \in Seq(X), NEW K, NEW n \in 1 .. Len(s), n \in K, NEW r, Picks(s, K, n - 1, r)
  PROVE  Picks(s, K, n, Append(r, s[n]))
<1>0. PICK len, pos : PicksAt(s, K, n - 1, r, len, pos)
  BY DEF Picks
<1>1. /\ len \in Nat /\ pos \in [1 .. len -> 1 .. (n - 1)]
      /\ r = [j \in 1 .. len |-> s[pos[j]]]
      /\ \A j \in 1 .. len : pos[j] \in K
      /\ \A j, l \in 1 .. len : j < l => pos[j] < pos[l]
      /\ \A k \in 1 .. (n - 1) : k \in K => \E j \in 1 .. len : pos[j] = k
  BY <1>0 DEF PicksAt
<1>2. PICK q : q = [j \in 1 .. (len + 1) |-> IF j = len + 1 THEN n ELSE pos[j]]
  OBVIOUS
<1>3. \A j \in 1 .. len : pos[j] \in 1 .. (n - 1)
  BY <1>1
<1>4. q \in [1 .. (len + 1) -> 1 .. n]
  BY SMTT(30), <1>1, <1>2, <1>3
<1>5. r \in Seq(X) /\ Len(r) = len
  <2>1. \A j \in 1 .. len : s[pos[j]] \in X
    BY SMTT(30), <1>3
  <2> QED
    BY SMTT(30), <1>1, <2>1
<1>6. Append(r, s[n]) = [j \in 1 .. (len + 1) |-> s[q[j]]]
  <2>1. s[n] \in X
    BY SMTT(30)
  <2>2. Append(r, s[n]) \in Seq(X) /\ Len(Append(r, s[n])) = len + 1
    BY SMTT(30), <1>5, <2>1
  <2>3. \A j \in 1 .. (len + 1) : Append(r, s[n])[j] = s[q[j]]
    BY SMTT(30), <1>1, <1>2, <1>5, <2>1
  <2> QED
    BY SMTT(30), <2>2, <2>3
<1>7. \A j \in 1 .. (len + 1) : q[j] \in K
  BY SMTT(30), <1>1, <1>2
<1>8. \A j, l \in 1 .. (len + 1) : j < l => q[j] < q[l]
  <2> TAKE j, l \in 1 .. (len + 1)
  <2> HAVE j < l
  <2>1. j \in 1 .. len /\ q[j] = pos[j]
    BY SMTT(30), <1>1, <1>2
  <2>2. CASE l = len + 1
    BY SMTT(30), <1>1, <1>2, <1>3, <2>1, <2>2
  <2>3. CASE l # len + 1
    BY SMTT(30), <1>1, <1>2, <2>1, <2>3
  <2> QED
    BY <2>2, <2>3
<1>9. \A k \in 1 .. n : k \in K => \E j \in 1 .. (len + 1) : q[j] = k
  <2> TAKE k \in 1 .. n
  <2> HAVE k \in K
  <2>1. CASE k = n
    BY SMTT(30), <1>1, <1>2, <2>1
  <2>2. CASE k # n
    <3>1. PICK j \in 1 .. len : pos[j] = k
      BY SMTT(30), <1>1, <2>2
    <3> QED
      BY SMTT(30), <1>1, <1>2, <3>1
  <2> QED
    BY <2>1, <2>2
<1>10. len + 1 \in Nat
  BY SMTT(30), <1>1
<1>11. PicksAt(s, K, n, Append(r, s[n]), len + 1, q)
  BY <1>4, <1>6, <1>7, <1>8, <1>9, <1>10 DEF PicksAt
<1> QED
  BY <1>11 DEF Picks

\* selected(s, K) is s at its positions in K, in order: what the loops over a
\* batch keep.
LEMMA SelectedPicks ==
  ASSUME NEW X, NEW s \in Seq(X), NEW K
  PROVE  Picks(s, K, Len(s), selected(s, K))
<1>1. PICK N : N = Len(s)
  OBVIOUS
<1>2. N \in Nat
  BY SMTT(30), <1>1
<1>3. PICK f : Selects(s, K, N, f) /\ selected(s, K) = f[N]
  <2>1. \E f : Selects(s, K, N, f)
    BY <1>2, SelectsExists
  <2>2. PICK f : f = CHOOSE g : Selects(s, K, N, g)
    OBVIOUS
  <2>3. Selects(s, K, N, f)
    BY <2>1, <2>2
  <2>4. selected(s, K) = f[N]
    BY <1>1, <2>2 DEF selected, Selects
  <2> QED
    BY <2>3, <2>4
<1> DEFINE bad == {n \in 0 .. N : ~ Picks(s, K, n, f[n])}
<1>4. SUFFICES ASSUME bad # {} PROVE FALSE
  BY SMTT(30), <1>1, <1>2, <1>3
<1>5. PICK n \in bad : \A k \in bad : n <= k
  <2> HIDE DEF bad
  <2>1. bad \subseteq Nat
    BY SMTT(30) DEF bad
  <2> QED
    BY <1>4, <2>1, LeastNat
<1>6. n \in 0 .. N /\ ~ Picks(s, K, n, f[n])
  OBVIOUS
<1>7. n # 0
  <2>1. f[0] = <<>>
    BY SMTT(30), <1>2, <1>3 DEF Selects
  <2>2. PICK pos : pos = [j \in 1 .. 0 |-> 1]
    OBVIOUS
  <2>3. pos \in [1 .. 0 -> 1 .. 0]
    BY SMTT(30), <2>2
  <2>4. <<>> = [j \in 1 .. 0 |-> s[pos[j]]]
    BY SMTT(30)
  <2>6. PicksAt(s, K, 0, <<>>, 0, pos)
    BY SMTT(30), <2>3, <2>4 DEF PicksAt
  <2>5. Picks(s, K, 0, <<>>)
    BY <2>6 DEF Picks
  <2> QED
    BY <1>6, <2>1, <2>5
<1>8. n - 1 \in 0 .. N /\ n - 1 \notin bad
  BY SMTT(30), <1>2, <1>5, <1>6, <1>7
<1>9. Picks(s, K, n - 1, f[n - 1])
  BY <1>8
<1>10. f[n] = IF n \in K THEN Append(f[n - 1], s[n]) ELSE f[n - 1]
  BY <1>3, <1>6, <1>7 DEF Selects
<1>11. CASE n \in K
  BY SMTT(30), <1>1, <1>2, <1>6, <1>7, <1>9, <1>10, <1>11, PicksMore
<1>12. CASE n \notin K
  <2>1. \A k \in 1 .. n : k \in K => k \in 1 .. (n - 1)
    BY SMTT(30), <1>2, <1>6, <1>12
  <2>2. \A len \in Nat : [1 .. len -> 1 .. (n - 1)] \subseteq [1 .. len -> 1 .. n]
    BY SMTT(30), <1>2, <1>6, <1>7
  <2>4. PICK len, pos : PicksAt(s, K, n - 1, f[n - 1], len, pos)
    BY <1>9 DEF Picks
  <2>5. PicksAt(s, K, n, f[n - 1], len, pos)
    BY <2>1, <2>2, <2>4 DEF PicksAt
  <2>3. Picks(s, K, n, f[n - 1])
    BY <2>5 DEF Picks
  <2> QED
    BY <1>6, <1>10, <1>12, <2>3
<1> QED
  BY <1>11, <1>12

\* acc2 is acc with new accounts.
Creates(acc, acc2) ==
  /\ DOMAIN acc \subseteq DOMAIN acc2 /\ IsFiniteSet(DOMAIN acc2) /\ acc2 \in [DOMAIN acc2 -> Account]
  /\ \A x \in DOMAIN acc : acc2[x] = acc[x]
  /\ \A x \in DOMAIN acc2 \ DOMAIN acc : acc2[x] \in NewAccount

\* createAll adds the accounts of s and changes none there is.
LEMMA CreateAll ==
  ASSUME NEW acc, acc \in [DOMAIN acc -> Account], IsFiniteSet(DOMAIN acc), NEW X, NEW s \in Seq(X),
         \A k \in DOMAIN s : s[k].a \in NewAccount, NEW r, r = createAll(acc, s)
  PROVE  Creates(acc, r) /\ DOMAIN r = DOMAIN acc \cup {s[k].id : k \in DOMAIN s}
<1>1. PICK ids : ids = {s[k].id : k \in DOMAIN s}
  OBVIOUS
<1> DEFINE new(id) == CHOOSE k \in DOMAIN s : s[k].id = id /\ \A l \in 1 .. (k - 1) : s[l].id # id
<1>2. r = [x \in DOMAIN acc \cup ids |-> IF x \in DOMAIN acc THEN acc[x] ELSE s[new(x)].a]
  BY <1>1 DEF createAll
<1>3. ASSUME NEW x \in ids
      PROVE  new(x) \in DOMAIN s
  <2>1. PICK T : T = {k \in DOMAIN s : s[k].id = x}
    OBVIOUS
  <2>2. T \subseteq Nat /\ T # {}
    BY SMTT(30), <1>1, <2>1
  <2>3. PICK k \in T : \A l \in T : k <= l
    BY <2>2, LeastNat
  <2>4. k \in DOMAIN s /\ s[k].id = x /\ k \in 1 .. Len(s)
    BY SMTT(30), <2>1
  <2>5. \A l \in 1 .. (k - 1) : s[l].id # x
    BY SMTT(30), <2>1, <2>3, <2>4
  <2> QED
    BY <2>4, <2>5
<1> HIDE DEF new
<1>4. \A x \in ids : s[new(x)].a \in NewAccount
  BY <1>3
<1>5. NewAccount \subseteq Account
  BY DEF NewAccount
<1>6. DOMAIN r = DOMAIN acc \cup ids /\ r \in [DOMAIN r -> Account]
  BY <1>2, <1>4, <1>5
<1>7. /\ \A x \in DOMAIN acc : r[x] = acc[x]
      /\ \A x \in DOMAIN r \ DOMAIN acc : r[x] \in NewAccount
  BY <1>2, <1>4
<1>8. IsFiniteSet(ids)
  <2>1. PICK n, f : n = Len(s) /\ f = [k \in 1 .. Len(s) |-> s[k].id]
    OBVIOUS
  <2>2. n \in Nat /\ DOMAIN s = 1 .. n
    BY SMTT(30), <2>1
  <2>3. f \in [1 .. n -> ids] /\ \A x \in ids : \E k \in 1 .. n : f[k] = x
    BY <1>1, <2>1, <2>2
  <2>4. f \in Surjection(1 .. n, ids)
    BY <2>3 DEF Surjection
  <2>5. 1 \in Int /\ n \in Int
    BY SMTT(30), <2>2
  <2>6. IsFiniteSet(1 .. n)
    BY <2>5, FS_Interval
  <2> QED
    BY <2>4, <2>6, FS_Surjection
<1>9. IsFiniteSet(DOMAIN acc \cup ids)
  BY <1>8, FS_Union
<1> QED
  BY <1>1, <1>6, <1>7, <1>9 DEF Creates

\* A new account has no debits.
LEMMA CreatesSolvent ==
  ASSUME NEW acc, NEW acc2, Creates(acc, acc2), NEW X, SolventBut(acc, X)
  PROVE  SolventBut(acc2, X)
<1> SUFFICES ASSUME NEW a \in DOMAIN acc2 \ X
             PROVE  acc2[a].postedDebits + acc2[a].pendingDebits <= acc2[a].postedCredits
  BY DEF SolventBut
<1>1. CASE a \in DOMAIN acc
  BY <1>1 DEF Creates, SolventBut
<1>2. CASE a \notin DOMAIN acc
  <2>1. acc2[a] \in NewAccount
    BY <1>2 DEF Creates
  <2>2. acc2[a].postedDebits = 0 /\ acc2[a].pendingDebits = 0 /\ acc2[a].postedCredits \in Amount
    BY <2>1 DEF NewAccount, Account
  <2> QED
    BY SMTT(30), <2>2, Amounts
<1> QED
  BY <1>1, <1>2

\* A new account has no holds.
LEMMA CreatesBacked ==
  ASSUME NEW acc, NEW acc2, Creates(acc, acc2), NEW pending, Keyed(acc, pending), Backed(acc, openHolds(pending))
  PROVE  Keyed(acc2, pending) /\ Backed(acc2, openHolds(pending))
<1>1. Keyed(acc2, pending)
  BY DEF Keyed, Creates
<1>2. PICK H : H = openHolds(pending)
  OBVIOUS
<1>3. \A e \in H : e.debit \in DOMAIN acc /\ e.credit \in DOMAIN acc
  BY <1>2 DEF Keyed, openHolds
<1>4. ASSUME NEW a \in DOMAIN acc2
      PROVE  /\ acc2[a].pendingDebits = sum(amountOf, heldFrom(H, a))
             /\ acc2[a].pendingCredits = sum(amountOf, heldFor(H, a))
  <2>1. CASE a \in DOMAIN acc
    <3>1. acc2[a] = acc[a]
      BY <2>1 DEF Creates
    <3>2. /\ acc[a].pendingDebits = sum(amountOf, heldFrom(H, a))
          /\ acc[a].pendingCredits = sum(amountOf, heldFor(H, a))
      BY <1>2, <2>1 DEF Backed
    <3> QED
      BY <3>1, <3>2
  <2>2. CASE a \notin DOMAIN acc
    <3>1. acc2[a] \in NewAccount
      BY <2>2 DEF Creates
    <3>2. acc2[a].pendingDebits = 0 /\ acc2[a].pendingCredits = 0
      BY <3>1 DEF NewAccount
    <3>3. heldFrom(H, a) = {} /\ heldFor(H, a) = {}
      BY <1>3, <2>2 DEF heldFrom, heldFor
    <3>4. sum(amountOf, heldFrom(H, a)) = 0 /\ sum(amountOf, heldFor(H, a)) = 0
      BY <3>3, SumEmpty
    <3> QED
      BY <3>2, <3>4
  <2> QED
    BY <2>1, <2>2
<1> QED
  BY <1>1, <1>2, <1>4 DEF Backed

=============================================================================
