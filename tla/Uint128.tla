------------------------------- MODULE Uint128 -------------------------------
(***************************************************************************)
(* internal/core/uint128.go: unsigned integers of two machine words.  The  *)
(* word size and the radix of decimal strings are parameters, so that TLC  *)
(* can use small words; the code has Base = 2^64 and Radix = 10.           *)
(*                                                                         *)
(* An operation returns a value and whether it succeeded; with an error    *)
(* the value is zero, as in the code.                                      *)
(***************************************************************************)
EXTENDS Integers, Sequences

CONSTANTS
  Base,    \* number of values of a word
  Radix    \* radix of the strings FromString reads

ASSUME BaseAssumption == Base \in Nat /\ Radix \in Nat /\ 1 < Radix /\ Radix < Base

Word == 0 .. Base - 1
Words == [hi : Word, lo : Word]
Zero == [hi |-> 0, lo |-> 0]

ok(a) == [v |-> a, ok |-> TRUE]
failed == [v |-> Zero, ok |-> FALSE]

\* The number the two words stand for, and the words of a number.
number(a) == a.hi * Base + a.lo
words(n) == [hi |-> n \div Base, lo |-> n % Base]

-----------------------------------------------------------------------------
(* math/bits *)

carryOut(x, y, c) == IF x + y + c >= Base THEN 1 ELSE 0
Add64(x, y, c) == x + y + c - carryOut(x, y, c) * Base

borrowOut(x, y, b) == IF x < y + b THEN 1 ELSE 0
Sub64(x, y, b) == x - y - b + borrowOut(x, y, b) * Base

Mul64Hi(x, y) == (x * y) \div Base
Mul64Lo(x, y) == (x * y) % Base

-----------------------------------------------------------------------------
(* The operations *)

\* Mutant of Add: the carry of the low words is lost.
AddUncarried(a, b) ==
  IF carryOut(a.hi, b.hi, 0) # 0 THEN failed
  ELSE ok([hi |-> Add64(a.hi, b.hi, 0), lo |-> Add64(a.lo, b.lo, 0)])

Add(a, b) ==
  LET carry == carryOut(a.lo, b.lo, 0) IN
  IF carryOut(a.hi, b.hi, carry) # 0 THEN failed
  ELSE ok([hi |-> Add64(a.hi, b.hi, carry), lo |-> Add64(a.lo, b.lo, 0)])

Cmp(a, b) ==
  IF a.hi < b.hi THEN -1
  ELSE IF a.hi > b.hi THEN 1
  ELSE IF a.lo < b.lo THEN -1
  ELSE IF a.lo > b.lo THEN 1
  ELSE 0

Sub(a, b) ==
  LET borrow == borrowOut(a.lo, b.lo, 0) IN
  IF Cmp(a, b) < 0 \/ borrowOut(a.hi, b.hi, borrow) # 0 THEN failed
  ELSE ok([hi |-> Sub64(a.hi, b.hi, borrow), lo |-> Sub64(a.lo, b.lo, 0)])

IsZero(a) == a.hi = 0 /\ a.lo = 0

FromUint64(w) == [hi |-> 0, lo |-> w]

\* a times the word w.
mul64(a, w) ==
  LET hiLo == Mul64Lo(a.hi, w)
      loHi == Mul64Hi(a.lo, w)
  IN  IF Mul64Hi(a.hi, w) # 0 \/ carryOut(hiLo, loHi, 0) # 0 THEN failed
      ELSE ok([hi |-> Add64(hiLo, loHi, 0), lo |-> Mul64Lo(a.lo, w)])

\* One more digit of FromString: times Radix, plus the digit.
appendDigit(a, d) ==
  LET m == mul64(a, Radix) IN IF m.ok THEN Add(m.v, FromUint64(d)) ELSE failed

\* A string is a sequence of characters, digits being the numbers below Radix.
isDigit(c) == c \in 0 .. Radix - 1

FromString(s) ==
  LET acc[k \in 0 .. Len(s)] ==
        IF k = 0 THEN ok(Zero)
        ELSE IF ~acc[k - 1].ok \/ ~isDigit(s[k]) THEN failed
        ELSE appendDigit(acc[k - 1].v, s[k])
  IN  IF s = <<>> THEN failed ELSE acc[Len(s)]

\* math/big prints the digits of the number, without leading zeros.
String(a) ==
  LET digits[n \in 0 .. number(a)] ==
        IF n < Radix THEN <<n>> ELSE Append(digits[n \div Radix], n % Radix)
  IN  IF IsZero(a) THEN <<0>> ELSE digits[number(a)]

\* MarshalBinary and UnmarshalBinary, a byte string being its two halves.
MarshalBinary(a) == <<a.hi, a.lo>>
UnmarshalBinary(b) == IF Len(b) # 2 THEN failed ELSE ok([hi |-> b[1], lo |-> b[2]])

=============================================================================
