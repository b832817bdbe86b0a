------------------------------ MODULE Arithmetic -----------------------------
(***************************************************************************)
(* The division routines of lib/arithmetic.c, for a word of W bits where   *)
(* the code has 32: they divide double words with an instruction that      *)
(* divides a double word by a word and traps if the quotient is no word.   *)
(***************************************************************************)
EXTENDS Integers, SequencesExt

CONSTANTS W,        \* bits of a word, a power of 2
          NULL

b == 2^W
Words == 0..(b - 1)
DoubleWords == 0..(b^2 - 1)
Signed == -(b^2 \div 2)..(b^2 \div 2 - 1)

\* Conversions: to an unsigned double word, and to signed numbers of a size.
Unsigned(x) == x % b^2
ToSigned(x, size) == IF x % size < size \div 2 THEN x % size ELSE (x % size) - size

VARIABLES n, d,     \* the operands, as their bits
          fn,       \* the routine that was called
          result,
          trapped

Init ==
  /\ n \in DoubleWords /\ d \in DoubleWords \ {0}
  /\ fn = NULL /\ result = NULL /\ trapped = FALSE

\* The instruction, where it does not trap.
divl(x, y) == (x \div y) % b
Traps(x, y) == x \div y >= b

\* One test of nlz: if the top k bits are zero, count and drop them.
Shift(acc, k) ==
  IF acc.x < 2^(W - k) THEN [n |-> acc.n + k, x |-> acc.x * 2^k] ELSE acc

\* The number of leading zero bits of a word that is not zero.
nlz(x) ==
  FoldLeft(Shift, [n |-> 0, x |-> x], SelectSeq(<<16, 8, 4, 2, 1>>, LAMBDA k : k < W)).n

(* Slip: the estimate is not corrected.                                    *)
udiv64_estimate(x, y) ==
  IF y \div b = 0
  THEN divl(b * ((x \div b) % y) + (x % b), y) + b * ((x \div b) \div y)
  ELSE IF x < y THEN 0
  ELSE LET s == nlz(y \div b)
       IN  divl(x \div 2, (y * 2^s) \div b) \div 2^(W - 1 - s)

udiv64(x, y) ==
  IF y \div b = 0
  THEN divl(b * ((x \div b) % y) + (x % b), y) + b * ((x \div b) \div y)
  ELSE IF x < y THEN 0
  ELSE LET s == nlz(y \div b)
           q == divl(x \div 2, (y * 2^s) \div b) \div 2^(W - 1 - s)
       IN  IF Unsigned(x - (q - 1) * y) < y THEN Unsigned(q - 1) ELSE q

(* Slip: the high word is not reduced.                                     *)
DivisionTraps_unreduced(x, y) ==
  IF y \div b = 0 THEN Traps(x, y)
  ELSE x >= y /\ Traps(x \div 2, (y * 2^nlz(y \div b)) \div b)

\* The instruction in udiv64 traps.
DivisionTraps(x, y) ==
  IF y \div b = 0
  THEN Traps(b * ((x \div b) % y) + (x % b), y)
  ELSE x >= y /\ Traps(x \div 2, (y * 2^nlz(y \div b)) \div b)

\* The result is a word.
umod64(x, y) == Unsigned(x - y * udiv64(x, y)) % b

Abs(x) == IF x >= 0 THEN x ELSE Unsigned(-x)

(* Slip: the sign of the dividend alone counts.                            *)
sdiv64_dividend(x, y) ==
  LET q_abs == udiv64(Abs(x), Abs(y))
  IN  ToSigned(IF x >= 0 THEN q_abs ELSE -q_abs, b^2)

sdiv64(x, y) ==
  LET q_abs == udiv64(Abs(x), Abs(y))
  IN  ToSigned(IF (x < 0) = (y < 0) THEN q_abs ELSE -q_abs, b^2)

(* Slip: the quotient is rounded down.                                     *)
smod64_floor(x, y) == ToSigned(x - y * (x \div y), b)

\* The result is a signed word.
smod64(x, y) == ToSigned(x - y * sdiv64(x, y), b)

Call(name, value, x, y) ==
  /\ fn = NULL /\ fn' = name
  /\ result' = value /\ trapped' = DivisionTraps(x, y)
  /\ UNCHANGED <<n, d>>

sn == ToSigned(n, b^2)
sd == ToSigned(d, b^2)

Next ==
  \/ Call("__udivdi3", udiv64(n, d), n, d)
  \/ Call("__umoddi3", umod64(n, d), n, d)
  \/ Call("__divdi3", sdiv64(sn, sd), Abs(sn), Abs(sd))
  \/ Call("__moddi3", smod64(sn, sd), Abs(sn), Abs(sd))

-----------------------------------------------------------------------------
(* Division as C has it: the quotient is truncated toward zero.            *)
Quotient(x, y) ==
  LET q == Abs(x) \div Abs(y) IN IF (x < 0) = (y < 0) THEN q ELSE -q

(* udiv64: "this code is correct and will not trap", in both of its cases. *)
NeverTraps == ~trapped

(* "Divides unsigned 64-bit N by unsigned 64-bit D and returns the         *)
(* quotient."                                                              *)
UnsignedQuotient == fn = "__udivdi3" => result = n \div d

(* The same for signed numbers, where the quotient is one.                 *)
SignedQuotient ==
  fn = "__divdi3" /\ Quotient(sn, sd) \in Signed => result = Quotient(sn, sd)

(* The remainder, as far as it always fits the word umod64 and smod64      *)
(* return.                                                                 *)
SmallRemainders ==
  /\ fn = "__umoddi3" /\ d <= b => result = n % d
  /\ fn = "__moddi3" /\ sd \in 1..(b \div 2) => result = sn - sd * Quotient(sn, sd)
=============================================================================
