------------------------------- MODULE ZArith -------------------------------
(***************************************************************************)
(* The port's multiplication and division: lib/zdispatch.asm.  The 1802    *)
(* only adds, subtracts and shifts, so both are loops over the bits of a   *)
(* word, and signs are taken off before the division and put back after.  *)
(* One action is one pass of a loop; registers have the names of the code. *)
(***************************************************************************)
EXTENDS Integers

CONSTANTS
  Width,  \* 16 in the code: bits of a word
  Pow2    \* the powers of two up to that of Width

ASSUME WidthAssumption == Width \in Nat \ {0}
ASSUME Pow2Assumption ==
  /\ Pow2 \in [0 .. Width -> Nat \ {0}] /\ Pow2[0] = 1 /\ Pow2[1] = 2
  /\ \A i, j \in 0 .. Width : i + j <= Width => Pow2[i + j] = Pow2[i] * Pow2[j]

VARIABLES
  phase,    \* the loop that runs, or the answer that it has left
  operand1, operand2,           \* zdisp_operand; zdisp_value and zdisp_value2
  r7, r8, r9, ra, rb, rc, rd

loop == <<r7, r8, r9, ra, rb, rc>>
arith == <<phase, operand1, operand2, loop, rd>>

Size == Pow2[Width]
Half == Pow2[Width - 1]
Bits == 0 .. Size - 1

Negative(w) == w >= Half
AsSigned(w) == IF Negative(w) THEN w - Size ELSE w

\* not, not, add16 1
Negate(w) == (Size - w) % Size

Magnitude(w) == IF Negative(w) THEN Negate(w) ELSE w

-----------------------------------------------------------------------------
(* Definitions named .._mutant are slips that the code does not have; no    *)
(* specification uses them.                                                *)

\* Low bits of the multiplier first; the multiplicand doubles.
MulLoop_mutant ==
  /\ phase = "mul" /\ rb > 0
  /\ ra' = (2 * ra) % Size
  /\ r8' = IF r9 % 2 = 1 THEN (r8 + ra') % Size ELSE r8
  /\ r9' = r9 \div 2
  /\ rb' = rb - 1
  /\ UNCHANGED <<phase, operand1, operand2, r7, rc, rd>>

MulLoop ==
  /\ phase = "mul" /\ rb > 0
  /\ r8' = IF r9 % 2 = 1 THEN (r8 + ra) % Size ELSE r8
  /\ ra' = (2 * ra) % Size
  /\ r9' = r9 \div 2
  /\ rb' = rb - 1
  /\ UNCHANGED <<phase, operand1, operand2, r7, rc, rd>>

zds_mul(x, y) ==
  /\ phase \notin {"mul", "div"}
  /\ phase' = "mul" /\ operand1' = x /\ operand2' = y
  /\ r8' = 0 /\ r9' = x /\ ra' = y /\ rb' = Width
  /\ UNCHANGED <<r7, rc, rd>>

MulDone ==
  /\ phase = "mul" /\ rb = 0
  /\ phase' = "product" /\ rd' = r8
  /\ UNCHANGED <<operand1, operand2, loop>>

\* The shift of r7 puts its high bit into rc; the carry out of rc is lost.
Carried == IF 2 * r7 >= Size THEN 1 ELSE 0
Trial == (2 * rc + Carried) % Size

\* zdisp_udivmod16: the trial subtraction is committed when it has no borrow.
DivLoop ==
  /\ phase = "div" /\ rb > 0
  /\ r7' = (2 * r7) % Size
  /\ IF Trial >= r9
     THEN rc' = Trial - r9 /\ r8' = ((2 * r8) % Size) + 1
     ELSE rc' = Trial /\ r8' = (2 * r8) % Size
  /\ rb' = rb - 1
  /\ UNCHANGED <<phase, operand1, operand2, r9, ra, rd>>

\* zdisp_sdivmod16 up to the loop: the sign of each operand is taken off.
zds_div(x, y) ==
  /\ phase \notin {"mul", "div"}
  /\ operand1' = x /\ operand2' = y
  /\ r7' = Magnitude(x) /\ r9' = Magnitude(y)
  /\ r8' = 0 /\ rc' = 0 /\ rb' = Width
  /\ phase' = IF y = 0 THEN "fail" ELSE "div"
  /\ UNCHANGED <<ra, rd>>

DivDone_mutant ==
  /\ phase = "div" /\ rb = 0
  /\ phase' = "quotient"
  /\ rd' = IF Negative(operand1) # Negative(operand2) THEN Negate(r8) ELSE r8
  /\ rc' = IF Negative(operand1) # Negative(operand2) THEN Negate(rc) ELSE rc
  /\ UNCHANGED <<operand1, operand2, r7, r8, r9, ra, rb>>

\* The quotient is negative if one operand is, the remainder if the first is.
DivDone ==
  /\ phase = "div" /\ rb = 0
  /\ phase' = "quotient"
  /\ rd' = IF Negative(operand1) # Negative(operand2) THEN Negate(r8) ELSE r8
  /\ rc' = IF Negative(operand1) THEN Negate(rc) ELSE rc
  /\ UNCHANGED <<operand1, operand2, r7, r8, r9, ra, rb>>

ArithLoop == MulLoop \/ MulDone \/ DivLoop \/ DivDone

ArithInit ==
  /\ phase = "idle" /\ operand1 = 0 /\ operand2 = 0
  /\ r7 = 0 /\ r8 = 0 /\ r9 = 0 /\ ra = 0 /\ rb = 0 /\ rc = 0 /\ rd = 0

ArithNext == ArithLoop \/ \E x, y \in Bits : zds_mul(x, y) \/ zds_div(x, y)

ArithSpec == ArithInit /\ [][ArithNext]_arith

-----------------------------------------------------------------------------
ArithTypeOK ==
  /\ phase \in {"idle", "mul", "div", "product", "quotient", "fail"}
  /\ rb \in 0 .. Width
  /\ {operand1, operand2, r7, r8, r9, ra, rc, rd} \subseteq Bits

\* Division as C has it: the quotient is cut off toward zero and the remainder
\* has the sign of the dividend.
Truncates(a, b, q, r) ==
  /\ a = b * q + r
  /\ a >= 0 => r >= 0 /\ (b > 0 => r < b) /\ (b < 0 => r < -b)
  /\ a < 0 => r <= 0 /\ (b > 0 => -r < b) /\ (b < 0 => -r < -b)

\* The one quotient that is no word is that of the most negative word by -1.
SignedQuotient ==
  IF rd = Half /\ Negative(operand1) = Negative(operand2) THEN Half ELSE AsSigned(rd)

\* lib/zdispatch.asm on div and mod: "signed 16-bit, truncating toward zero,
\* remainder takes the dividend's sign (matching the Z-machine spec and C's own
\* convention)", for all operands, although the loop loses a carry that a
\* divisor above 2^15 would need.
DivisionExact ==
  phase = "quotient" =>
    Truncates(AsSigned(operand1), AsSigned(operand2), SignedQuotient, AsSigned(rc))

\* The multiplication ignores signs and overflow, and its low word is that of
\* the signed product all the same.
ProductExact ==
  phase = "product" => rd = (AsSigned(operand1) * AsSigned(operand2)) % Size
=============================================================================
