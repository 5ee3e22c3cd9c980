---------------------------- MODULE ZStory_proofs ----------------------------
(***************************************************************************)
(* Part one: the loops of the port's arithmetic are right for every width  *)
(* of words.  The division keeps                                           *)
(*     dividend = (quotient so far * divisor + remainder) * 2^rb + low     *)
(* where low is what the rb passes to come have still to shift in, and the *)
(* multiplication keeps the sum of the product so far and what is left to  *)
(* multiply, modulo the size of a word.                                    *)
(*                                                                         *)
(* Part two: what an instruction of the reference does to the machine, for *)
(* every story.  Its loops over a story's bytes are recursive functions,   *)
(* of which Inductive, from the library's theorem that a well-founded set  *)
(* has a minimum, proves what they preserve.  Every instruction is then an *)
(* outcome, of which a lemma says what it keeps, and StoryInv, the         *)
(* inductive invariant, says what a job under way may still do.            *)
(*                                                                         *)
(* Part three: an inline text is as long as the decoder has measured it,   *)
(* by TextInv, and the decoder reads back what ZAsm assembles: ReadsBack   *)
(* says so of one piece of an instruction, from the bytes it stands in,    *)
(* and ReadsOn puts one piece behind another.                              *)
(***************************************************************************)
EXTENDS ZStory, SequenceTheorems, FiniteSetTheorems, TLAPS

DivInv ==
  phase = "div" =>
    /\ r9 = Magnitude(operand2) /\ r9 > 0 /\ rc < r9
    /\ \E low \in 0 .. Pow2[rb] - 1 :
         /\ Magnitude(operand1) = (r8 * r9 + rc) * Pow2[rb] + low
         /\ r7 = low * Pow2[Width - rb]

MulInv ==
  phase = "mul" =>
    r9 < Pow2[rb] /\ (r8 + ra * r9) % Size = (operand1 * operand2) % Size

ArithInv == ArithTypeOK /\ DivInv /\ MulInv /\ DivisionExact /\ ProductExact

-----------------------------------------------------------------------------
(* Remainders and powers of two.                                           *)

LEMMA ModSmall ==
  ASSUME NEW s \in Nat, NEW x \in Nat, x < s
  PROVE  x % s = x
  BY SMT

LEMMA ModUnique ==
  ASSUME NEW s \in Nat \ {0}, NEW x \in Int, NEW m \in Int,
         NEW r \in 0 .. s - 1, x = m * s + r
  PROVE  x % s = r
  BY SMT

LEMMA ModRange ==
  ASSUME NEW s \in Nat \ {0}, NEW x \in Int
  PROVE  x % s \in 0 .. s - 1 /\ x \div s \in Int /\ x = (x \div s) * s + (x % s)
  BY SMT

\* Numbers that differ by a multiple of s have one remainder.
LEMMA ModShift ==
  ASSUME NEW s \in Nat \ {0}, NEW x \in Int, NEW y \in Int, NEW m \in Int,
         x = y + m * s
  PROVE  x % s = y % s
<1> DEFINE q == y \div s
           r == y % s
<1>1. q \in Int /\ r \in 0 .. s - 1 /\ y = q * s + r
  BY ModRange
<1> HIDE DEF q, r
<1>2. (q + m) * s = q * s + m * s
  BY <1>1
<1>3. x = (q + m) * s + r
  BY <1>1, <1>2
<1>4. q + m \in Int
  BY <1>1
<1>5. x % s = r
  BY <1>1, <1>3, <1>4, ModUnique
<1> QED
  BY <1>5 DEF r

LEMMA Powers ==
  /\ Size \in Nat \ {0} /\ Half \in Nat \ {0} /\ Size = 2 * Half
  /\ \A k \in 0 .. Width : Pow2[k] \in Nat \ {0}
  /\ \A k \in 1 .. Width :
       /\ Pow2[k] = 2 * Pow2[k - 1]
       /\ Pow2[Width - (k - 1)] = 2 * Pow2[Width - k]
       /\ Size = 2 * (Pow2[k - 1] * Pow2[Width - k])
<1>1. \A k \in 0 .. Width : Pow2[k] \in Nat \ {0}
  BY Pow2Assumption
<1>2. ASSUME NEW k \in 1 .. Width
      PROVE  /\ Pow2[k] = 2 * Pow2[k - 1]
             /\ Pow2[Width - (k - 1)] = 2 * Pow2[Width - k]
             /\ Size = 2 * (Pow2[k - 1] * Pow2[Width - k])
  <2> USE WidthAssumption
  <2>1. 1 \in 0 .. Width /\ k - 1 \in 0 .. Width /\ 1 + (k - 1) = k /\ k <= Width
    OBVIOUS
  <2>2. Pow2[k] = 2 * Pow2[k - 1]
    BY <2>1, Pow2Assumption
  <2>3. Width - k \in 0 .. Width /\ 1 + (Width - k) = Width - (k - 1)
        /\ Width - (k - 1) <= Width
    OBVIOUS
  <2>4. Pow2[Width - (k - 1)] = 2 * Pow2[Width - k]
    BY <2>1, <2>3, Pow2Assumption
  <2>5. k \in 0 .. Width /\ k + (Width - k) = Width
    OBVIOUS
  <2>6. Pow2[Width] = Pow2[k] * Pow2[Width - k]
    BY <2>3, <2>5, Pow2Assumption
  <2>7. Pow2[k - 1] \in Nat /\ Pow2[Width - k] \in Nat
    BY <1>1, <2>1, <2>3
  <2>8. (2 * Pow2[k - 1]) * Pow2[Width - k] = 2 * (Pow2[k - 1] * Pow2[Width - k])
    BY <2>7
  <2> QED
    BY <2>2, <2>4, <2>6, <2>8 DEF Size
<1>3. Width \in 0 .. Width /\ Width - 1 \in 0 .. Width /\ Width \in 1 .. Width
  BY WidthAssumption
<1>4. Size = 2 * Half
  BY <1>2, <1>3 DEF Size, Half
<1> QED
  BY <1>1, <1>2, <1>3, <1>4 DEF Size, Half

-----------------------------------------------------------------------------
(* One pass of the division.  q stands for 2^(rb-1) and k for              *)
(* 2^(Width-rb), so that s is the size of a word.                          *)

\* The high bit of the shifted dividend is that of low, and the rest stays.
ShiftsOut(low, q, k, s) ==
  /\ 2 * (low * k) >= s <=> low >= q
  /\ low < q => (2 * (low * k)) % s = low * (2 * k)
  /\ low >= q => (2 * (low * k)) % s = (low - q) * (2 * k)

LEMMA ShiftOut ==
  ASSUME NEW q \in Nat \ {0}, NEW k \in Nat \ {0}, NEW low \in Nat, low < 2 * q,
         NEW s \in Nat, s = 2 * (q * k)
  PROVE  ShiftsOut(low, q, k, s)
<1> USE DEF ShiftsOut
<1>0. s # 0 /\ s \in Nat \ {0}
  <2>1. q * k > 0
    OBVIOUS
  <2> QED
    BY <2>1
<1>1. CASE low < q
  <2>1. low * k < q * k
    BY <1>1
  <2>2. 2 * (low * k) \in Nat /\ 2 * (low * k) < s
    BY <2>1
  <2>3. (2 * (low * k)) % s = 2 * (low * k)
    BY <2>2, ModSmall
  <2>4. 2 * (low * k) = low * (2 * k)
    OBVIOUS
  <2> QED
    BY <1>1, <2>2, <2>3, <2>4
<1>2. CASE low >= q
  <2>1. low * k >= q * k
    BY <1>2
  <2>2. low - q \in Nat /\ low - q < q
    BY <1>2
  <2>3. (low - q) * k < q * k
    BY <2>2
  <2>4. (low - q) * k = low * k - q * k
    BY <2>2
  <2>5. 2 * (low * k) = 1 * s + 2 * ((low - q) * k)
    BY <2>4
  <2>6. 2 * ((low - q) * k) \in 0 .. s - 1
    BY <2>2, <2>3
  <2>7. (2 * (low * k)) % s = 2 * ((low - q) * k)
    BY <1>0, <2>5, <2>6, ModUnique
  <2>8. 2 * ((low - q) * k) = (low - q) * (2 * k)
    BY <2>2
  <2> QED
    BY <1>2, <2>1, <2>7, <2>8
<1> QED
  BY <1>1, <1>2

\* What the loop keeps, with a bit c of the dividend shifted in and the divisor
\* subtracted or not.
LEMMA Regroup ==
  ASSUME NEW x \in Nat, NEW d \in Nat, NEW rem \in Nat, NEW q \in Nat,
         NEW low \in Int, NEW c \in {0, 1}, NEW b \in {0, 1}
  PROVE  (x * d + rem) * (2 * q) + low
           = ((2 * x + b) * d + (2 * rem + c - b * d)) * q + (low - c * q)
<1>1. (2 * x + b) * d = 2 * (x * d) + b * d
  OBVIOUS
<1>2. (2 * x + b) * d + (2 * rem + c - b * d) = 2 * (x * d + rem) + c
  BY <1>1
<1>3. (2 * (x * d + rem) + c) * q = (x * d + rem) * (2 * q) + c * q
  OBVIOUS
<1> QED
  BY <1>2, <1>3

\* The quotient so far is at most half of what a word holds.
LEMMA QuotientFits ==
  ASSUME NEW x \in Nat, NEW d \in Nat \ {0}, NEW rem \in Nat, NEW q \in Nat \ {0},
         NEW low \in Nat, NEW h \in Nat, (x * d + rem) * (2 * q) + low <= h
  PROVE  2 * x <= h
<1>1. x * d >= x
  OBVIOUS
<1>2. x * d + rem \in Nat /\ x * d + rem >= x
  BY <1>1
<1>3. (x * d + rem) * (2 * q) >= 2 * (x * d + rem)
  BY <1>2
<1> QED
  BY <1>2, <1>3

-----------------------------------------------------------------------------
(* The steps.                                                              *)

LEMMA WordFacts ==
  /\ \A w \in Bits : /\ Negate(w) \in Bits /\ Magnitude(w) \in 0 .. Half
                     /\ AsSigned(w) \in Int
                     /\ AsSigned(w) = IF Negative(w) THEN - Magnitude(w) ELSE Magnitude(w)
                     /\ Magnitude(w) = 0 <=> w = 0
  /\ \A w \in Bits : w > 0 => Negate(w) = Size - w
  /\ Negate(0) = 0
<1> USE Powers
<1>1. ASSUME NEW w \in Bits, w > 0
      PROVE  Negate(w) = Size - w
  <2>1. Size - w \in Nat /\ Size - w < Size
    BY <1>1 DEF Bits
  <2> QED
    BY <2>1, ModSmall DEF Negate
<1>2. Negate(0) = 0
  <2>1. Size = 1 * Size + 0 /\ 0 \in 0 .. Size - 1
    OBVIOUS
  <2> QED
    BY <2>1, ModUnique DEF Negate
<1>3. ASSUME NEW w \in Bits
      PROVE  /\ Negate(w) \in Bits /\ Magnitude(w) \in 0 .. Half
             /\ AsSigned(w) \in Int
             /\ AsSigned(w) = IF Negative(w) THEN - Magnitude(w) ELSE Magnitude(w)
             /\ Magnitude(w) = 0 <=> w = 0
  BY <1>1, <1>2, <1>3 DEF Bits, Magnitude, AsSigned, Negative
<1> QED
  BY <1>1, <1>2, <1>3

LEMMA InitArith == ArithInit => ArithInv
  BY Powers, WidthAssumption DEF ArithInit, ArithInv, ArithTypeOK, DivInv, MulInv, DivisionExact,
     ProductExact, Bits

LEMMA StartMul ==
  ASSUME ArithInv, NEW x \in Bits, NEW y \in Bits, zds_mul(x, y)
  PROVE  ArithInv'
<1> USE DEF zds_mul, loop
<1>1. ArithTypeOK'
  BY Powers, WidthAssumption DEF ArithInv, ArithTypeOK, Bits
<1>2. MulInv'
  <2>1. x < Pow2[Width]
    BY Powers DEF Bits, Size
  <2>2. 0 + y * x = x * y
    BY Powers DEF Bits
  <2> QED
    BY <2>1, <2>2 DEF MulInv, Size
<1> QED
  BY <1>1, <1>2 DEF ArithInv, DivInv, DivisionExact, ProductExact

LEMMA StartDiv ==
  ASSUME ArithInv, NEW x \in Bits, NEW y \in Bits, zds_div(x, y)
  PROVE  ArithInv'
<1> USE DEF zds_div
<1>1. Magnitude(x) \in 0 .. Half /\ Magnitude(y) \in 0 .. Half
  BY WordFacts
<1>2. 0 .. Half \subseteq Bits /\ 0 \in Bits
  BY Powers DEF Bits
<1>3. ArithTypeOK'
  BY <1>1, <1>2, WidthAssumption DEF ArithInv, ArithTypeOK
<1>4. DivInv'
  <2> SUFFICES ASSUME y # 0
               PROVE  DivInv'
    BY DEF DivInv
  <2>1. Magnitude(y) > 0
    BY <1>1, WordFacts
  <2>2. Magnitude(x) \in 0 .. Pow2[Width] - 1
    BY <1>1, <1>2 DEF Bits, Size
  <2>3. Width - Width = 0 /\ Pow2[0] = 1 /\ Pow2[Width] \in Nat
    BY WidthAssumption, Pow2Assumption
  <2>4. Magnitude(x) = (0 * Magnitude(y) + 0) * Pow2[Width] + Magnitude(x)
        /\ Magnitude(x) = Magnitude(x) * 1
    BY <1>1, <2>3
  <2> HIDE DEF Magnitude
  <2> QED
    BY <2>1, <2>2, <2>3, <2>4 DEF DivInv, Magnitude
<1> QED
  BY <1>3, <1>4 DEF ArithInv, MulInv, DivisionExact, ProductExact

LEMMA PassMul ==
  ASSUME ArithInv, MulLoop
  PROVE  ArithInv'
<1> USE DEF MulLoop
<1>1. /\ Size \in Nat \ {0} /\ rb \in 1 .. Width
      /\ r8 \in 0 .. Size - 1 /\ r9 \in Nat /\ ra \in 0 .. Size - 1
      /\ operand1 \in Nat /\ operand2 \in Nat
  BY Powers, WidthAssumption DEF ArithInv, ArithTypeOK, Bits
<1> DEFINE bit == r9 % 2
           half == r9 \div 2
           lost == (r8 + bit * ra) \div Size
           carry == (2 * ra) \div Size
<1>2. bit \in {0, 1} /\ half \in Nat /\ r9 = 2 * half + bit
  BY <1>1
<1>3. bit * ra \in Nat /\ (bit = 1 => bit * ra = ra) /\ (bit = 0 => bit * ra = 0)
  BY <1>1, <1>2
<1>4. r8' = (r8 + bit * ra) % Size
  <2>1. CASE bit = 1
    BY <1>1, <1>3, <2>1
  <2>2. CASE bit = 0
    BY <1>1, <1>3, <2>2, ModSmall
  <2> QED
    BY <1>2, <2>1, <2>2
<1>5. r8' \in 0 .. Size - 1 /\ lost \in Int /\ r8' = r8 + bit * ra - lost * Size
  <2> DEFINE x == r8 + bit * ra
  <2>1. x \in Int
    BY <1>1, <1>3
  <2> HIDE DEF x
  <2>2. x % Size \in 0 .. Size - 1 /\ x \div Size \in Int /\ x = (x \div Size) * Size + (x % Size)
    BY <1>1, <2>1, ModRange
  <2>3. r8' = x % Size /\ lost = x \div Size
    BY <1>4 DEF x
  <2>4. r8' = x - lost * Size
    BY <1>1, <2>1, <2>2, <2>3
  <2>5. r8' \in 0 .. Size - 1 /\ lost \in Int
    BY <2>2, <2>3
  <2> HIDE DEF lost, bit, MulLoop
  <2>6. x = r8 + bit * ra
    BY DEF x
  <2> QED
    BY <1>1, <1>3, <2>1, <2>4, <2>5, <2>6
<1>6. ra' \in 0 .. Size - 1 /\ carry \in Int /\ ra' = 2 * ra - carry * Size
  <2> DEFINE x == 2 * ra
  <2>1. x \in Int
    BY <1>1
  <2> HIDE DEF x
  <2>2. x % Size \in 0 .. Size - 1 /\ x \div Size \in Int /\ x = (x \div Size) * Size + (x % Size)
    BY <1>1, <2>1, ModRange
  <2>3. ra' = x % Size /\ carry = x \div Size
    BY DEF x
  <2>4. ra' = x - carry * Size
    BY <1>1, <2>1, <2>2, <2>3
  <2> QED
    BY <2>2, <2>3, <2>4 DEF x
<1>7. r9' = half /\ half <= r9
  BY <1>2
<1>8. ArithTypeOK'
  BY <1>1, <1>2, <1>5, <1>6, <1>7, Powers, WidthAssumption DEF ArithInv, ArithTypeOK, Bits
<1>9. MulInv'
  <2>1. /\ r9 < Pow2[rb] /\ Pow2[rb] = 2 * Pow2[rb - 1] /\ Pow2[rb - 1] \in Nat
        /\ (r8 + ra * r9) % Size = (operand1 * operand2) % Size
    <3>1. rb - 1 \in 0 .. Width
      BY <1>1, WidthAssumption
    <3> QED
      BY <1>1, <3>1, Powers DEF ArithInv, MulInv
  <2>2. half < Pow2[rb - 1]
    BY <1>2, <2>1
  <2> HIDE DEF bit, half, lost, carry
  <2>3. ra * r9 = 2 * (ra * half) + bit * ra
    BY <1>1, <1>2
  <2>4. ra' * half = 2 * (ra * half) - (carry * half) * Size
    BY <1>1, <1>2, <1>6
  <2>5. r8 + ra * r9 = r8' + ra' * half + (lost + carry * half) * Size
    BY <1>1, <1>2, <1>3, <1>5, <1>6, <2>3, <2>4
  <2>6. lost + carry * half \in Int /\ r8 + ra * r9 \in Int /\ r8' + ra' * half \in Int
    BY <1>1, <1>2, <1>5, <1>6
  <2> DEFINE x == r8 + ra * r9
             y == r8' + ra' * half
             m == lost + carry * half
  <2>7. x % Size = y % Size
    <3>1. x \in Int /\ y \in Int /\ m \in Int /\ x = y + m * Size
      BY <2>5, <2>6
    <3> HIDE DEF x, y, m
    <3> QED
      BY <1>1, <3>1, ModShift
  <2> QED
    BY <1>7, <2>1, <2>2, <2>7, Powers DEF MulInv, Size
<1> QED
  BY <1>8, <1>9 DEF ArithInv, DivInv, DivisionExact, ProductExact

LEMMA AnswerMul ==
  ASSUME ArithInv, MulDone
  PROVE  ArithInv'
<1> USE DEF MulDone, loop
<1>1. /\ Size \in Nat \ {0} /\ r8 \in 0 .. Size - 1 /\ ra \in Nat /\ r9 \in Nat
      /\ operand1 \in Bits /\ operand2 \in Bits
  BY Powers DEF ArithInv, ArithTypeOK, Bits
<1>2. r9 < Pow2[0] /\ Pow2[0] = 1 /\ (r8 + ra * r9) % Size = (operand1 * operand2) % Size
  BY Pow2Assumption DEF ArithInv, MulInv
<1>3. r9 = 0 /\ r8 + ra * r9 = r8
  BY <1>1, <1>2
<1>4. r8 = (operand1 * operand2) % Size
  BY <1>1, <1>2, <1>3, ModSmall
<1> DEFINE a == AsSigned(operand1)
           b == AsSigned(operand2)
           i == IF Negative(operand1) THEN 1 ELSE 0
           j == IF Negative(operand2) THEN 1 ELSE 0
<1>5. a = operand1 - i * Size /\ b = operand2 - j * Size /\ i \in Int /\ j \in Int
  BY <1>1 DEF AsSigned, Bits
<1>6. (operand1 * operand2) % Size = (a * b) % Size
  <2> HIDE DEF a, b, i, j
  <2>1. operand1 \in Int /\ operand2 \in Int
    BY <1>1 DEF Bits
  <2>2. operand1 * operand2 = a * b + (operand1 * j + operand2 * i - (i * j) * Size) * Size
    BY <1>1, <1>5, <2>1
  <2>3. operand1 * j + operand2 * i - (i * j) * Size \in Int /\ a * b \in Int
    BY <1>1, <1>5, <2>1
  <2> DEFINE x == operand1 * operand2
             y == a * b
             m == operand1 * j + operand2 * i - (i * j) * Size
  <2>4. x \in Int /\ y \in Int /\ m \in Int /\ x = y + m * Size
    BY <2>1, <2>2, <2>3
  <2> HIDE DEF x, y, m
  <2>5. x % Size = y % Size
    BY <1>1, <2>4, ModShift
  <2> QED
    BY <2>5 DEF x, y
<1>7. ArithTypeOK'
  BY DEF ArithInv, ArithTypeOK
<1>8. ProductExact'
  BY <1>4, <1>6 DEF ProductExact, AsSigned, Negative, Size, Half
<1> QED
  BY <1>7, <1>8 DEF ArithInv, DivInv, MulInv, DivisionExact

LEMMA PassDiv ==
  ASSUME ArithInv, DivLoop
  PROVE  ArithInv'
<1> USE DEF DivLoop
<1>1. /\ Size \in Nat \ {0} /\ Half \in Nat /\ Size = 2 * Half /\ rb \in 1 .. Width
      /\ r7 \in Nat /\ r8 \in Nat /\ r9 \in 1 .. Half /\ rc \in 0 .. r9 - 1
      /\ operand1 \in Bits /\ operand2 \in Bits
  BY Powers, WordFacts, WidthAssumption DEF ArithInv, ArithTypeOK, Bits, DivInv
<1> DEFINE q == Pow2[rb - 1]
           k == Pow2[Width - rb]
           A == Magnitude(operand1)
<1>2. /\ q \in Nat \ {0} /\ k \in Nat \ {0} /\ Size = 2 * (q * k)
      /\ Pow2[rb] = 2 * q /\ Pow2[Width - (rb - 1)] = 2 * k
  <2>1. rb - 1 \in 0 .. Width /\ Width - rb \in 0 .. Width
    BY <1>1, WidthAssumption
  <2> QED
    BY <1>1, <2>1, Powers
<1>3. A \in 0 .. Half
  BY <1>1, WordFacts
<1>4. PICK low \in 0 .. 2 * q - 1 : A = (r8 * r9 + rc) * (2 * q) + low /\ r7 = low * k
  BY <1>2 DEF ArithInv, DivInv
<1> HIDE DEF q, k, A
<1>5. low \in Nat /\ low < 2 * q
  BY <1>2
<1> DEFINE c == IF low >= q THEN 1 ELSE 0
           b == IF 2 * rc + c >= r9 THEN 1 ELSE 0
<1>6. Carried = c /\ r7' = (low - c * q) * (2 * k)
  <2>1. /\ 2 * (low * k) >= Size <=> low >= q
        /\ low < q => (2 * (low * k)) % Size = low * (2 * k)
        /\ low >= q => (2 * (low * k)) % Size = (low - q) * (2 * k)
    <3> HIDE DEF DivLoop
    <3>1. Size \in Nat
      BY <1>1
    <3> DEFINE s == Size
    <3>2. s \in Nat /\ s = 2 * (q * k)
      BY <1>2, <3>1
    <3> HIDE DEF s
    <3>3. ShiftsOut(low, q, k, s)
      BY <1>2, <1>5, <3>2, ShiftOut
    <3> QED
      BY <3>3 DEF s, ShiftsOut
  <2>2. r7' = (2 * (low * k)) % Size /\ Carried = IF 2 * (low * k) >= Size THEN 1 ELSE 0
    BY <1>4 DEF Carried
  <2>3. low < q \/ low >= q
    BY <1>2, <1>5
  <2>4. low >= q => Carried = 1 /\ r7' = (low - 1 * q) * (2 * k)
    BY <1>2, <2>1, <2>2
  <2>5. low < q => Carried = 0 /\ r7' = (low - 0 * q) * (2 * k)
    BY <1>2, <1>5, <2>1, <2>2
  <2> QED
    BY <1>2, <1>5, <2>3, <2>4, <2>5
<1>7. low - c * q \in 0 .. q - 1 /\ c \in {0, 1} /\ b \in {0, 1}
  BY <1>2, <1>5
<1> HIDE DEF c
<1>8. Trial = 2 * rc + c
  <2>1. 2 * rc + c \in Nat /\ 2 * rc + c < Size
    BY <1>1, <1>7
  <2> QED
    BY <1>1, <1>6, <2>1, ModSmall DEF Trial
<1>9. 2 * r8 <= Half
  BY <1>1, <1>2, <1>3, <1>4, <1>5, QuotientFits
<1>10. (2 * r8) % Size = 2 * r8 /\ 2 * r8 + 1 < Size
  <2>1. 2 * r8 + 1 < Size
    BY <1>1, <1>9
  <2>2. Size \in Nat /\ 2 * r8 \in Nat /\ 2 * r8 < Size
    BY <1>1, <2>1
  <2>3. (2 * r8) % Size = 2 * r8
    BY <2>2, ModSmall
  <2> QED
    BY <2>1, <2>3
<1>11. r8' = 2 * r8 + b /\ rc' = 2 * rc + c - b * r9 /\ rc' \in 0 .. r9 - 1
  BY <1>1, <1>7, <1>8, <1>10
<1> HIDE DEF b
<1>12. A = (r8' * r9 + rc') * q + (low - c * q)
  BY <1>1, <1>2, <1>4, <1>5, <1>7, <1>11, Regroup
<1>13. r7' \in Bits
  BY <1>1, ModRange, SMTT(30) DEF Bits
<1>14. ArithTypeOK'
  BY <1>1, <1>7, <1>10, <1>11, <1>13, WidthAssumption DEF ArithInv, ArithTypeOK, Bits
<1>15. DivInv'
  <2>1. /\ r9' = r9 /\ operand1' = operand1 /\ operand2' = operand2 /\ rb' = rb - 1
        /\ r9 = Magnitude(operand2)
    BY DEF ArithInv, DivInv
  <2>2. low - c * q \in 0 .. Pow2[rb - 1] - 1 /\ Pow2[rb - 1] = q
    BY <1>7 DEF q
  <2>3. Magnitude(operand1) = (r8' * r9 + rc') * Pow2[rb - 1] + (low - c * q)
    BY <1>12 DEF q, A
  <2>4. r7' = (low - c * q) * Pow2[Width - (rb - 1)]
    BY <1>2, <1>6
  <2>5. r9 > 0 /\ rc' < r9
    BY <1>1, <1>11
  <2> QED
    BY <2>1, <2>2, <2>3, <2>4, <2>5 DEF DivInv, Magnitude, Negate, Negative, Size, Half
<1> QED
  BY <1>14, <1>15 DEF ArithInv, MulInv, DivisionExact, ProductExact

LEMMA AnswerDiv ==
  ASSUME ArithInv, DivDone
  PROVE  ArithInv'
<1> USE DEF DivDone
<1>1. /\ Size \in Nat \ {0} /\ Half \in Nat \ {0} /\ Size = 2 * Half /\ rb = 0
      /\ r8 \in Bits /\ r9 \in 1 .. Half /\ rc \in 0 .. r9 - 1
      /\ operand1 \in Bits /\ operand2 \in Bits /\ r9 = Magnitude(operand2)
  BY Powers, WordFacts DEF ArithInv, ArithTypeOK, Bits, DivInv
<1>2. Magnitude(operand1) = r8 * r9 + rc
  <2>1. PICK low \in 0 .. Pow2[0] - 1 : Magnitude(operand1) = (r8 * r9 + rc) * Pow2[0] + low
    BY <1>1 DEF ArithInv, DivInv
  <2>2. Pow2[0] = 1 /\ low = 0
    BY <2>1, Pow2Assumption
  <2> QED
    BY <1>1, <2>1, <2>2 DEF Bits
<1>3. Magnitude(operand1) \in 0 .. Half /\ r8 \in Nat /\ r8 * r9 \in Nat /\ r8 <= r8 * r9
  <2> HIDE DEF DivDone
  <2>1. Magnitude(operand1) \in 0 .. Half
    BY <1>1, WordFacts
  <2>2. r8 \in Nat /\ r9 \in Nat \ {0}
    BY <1>1 DEF Bits
  <2>3. r8 * r9 \in Nat /\ r8 <= r8 * r9
    BY ONLY <2>2
  <2> QED
    BY <2>1, <2>2, <2>3
<1>4. r8 \in 0 .. Half
  BY <1>1, <1>2, <1>3
<1>5. ArithTypeOK'
  <2>1. Negate(r8) \in Bits /\ rc \in Bits /\ Negate(rc) \in Bits
    BY <1>1, WordFacts DEF Bits
  <2> QED
    BY <1>1, <2>1 DEF ArithInv, ArithTypeOK
<1> DEFINE differ == Negative(operand1) # Negative(operand2)
           sq == IF differ THEN - r8 ELSE r8
           sr == IF Negative(operand1) THEN - rc ELSE rc
<1>6. SignedQuotient' = sq
  <2>1. rd' = IF differ THEN Negate(r8) ELSE r8
    OBVIOUS
  <2>2. Negate(r8) = IF r8 = 0 THEN 0 ELSE Size - r8
    BY <1>1, <1>4, WordFacts DEF Bits
  <2>3. SignedQuotient' = IF rd' = Half /\ ~ differ THEN Half
                          ELSE IF rd' >= Half THEN rd' - Size ELSE rd'
    BY DEF SignedQuotient, AsSigned, Negative, Size, Half
  <2> HIDE DEF differ
  <2> QED
    BY <1>1, <1>4, <2>1, <2>2, <2>3
<1>7. AsSigned(rc)' = sr
  <2>1. Negate(rc) = IF rc = 0 THEN 0 ELSE Size - rc
    BY <1>1, WordFacts DEF Bits
  <2>2. AsSigned(rc)' = IF rc' >= Half THEN rc' - Size ELSE rc'
    BY DEF AsSigned, Negative, Size, Half
  <2> QED
    BY <1>1, <2>1, <2>2
<1>8. Truncates(AsSigned(operand1), AsSigned(operand2), sq, sr)
  <2> DEFINE a == AsSigned(operand1)
             b == AsSigned(operand2)
             A == Magnitude(operand1)
  <2>1. /\ a = IF Negative(operand1) THEN - A ELSE A
        /\ b = IF Negative(operand2) THEN - r9 ELSE r9
        /\ Negative(operand1) => A > 0
    <3>1. Negative(operand1) => operand1 # 0
      BY <1>1 DEF Negative
    <3> QED
      BY <1>1, <3>1, <1>3, WordFacts
  <2>2. /\ b * sq = IF Negative(operand1) THEN - (r8 * r9) ELSE r8 * r9
    <3> HIDE DEF b
    <3>1. r9 * r8 = r8 * r9 /\ r9 * (- r8) = - (r8 * r9)
          /\ (- r9) * r8 = - (r8 * r9) /\ (- r9) * (- r8) = r8 * r9
      BY <1>1, <1>3
    <3>2. CASE Negative(operand1) /\ Negative(operand2)
      BY <2>1, <3>1, <3>2 DEF Negative
    <3>3. CASE Negative(operand1) /\ ~ Negative(operand2)
      BY <2>1, <3>1, <3>3
    <3>4. CASE ~ Negative(operand1) /\ Negative(operand2)
      BY <2>1, <3>1, <3>4
    <3>5. CASE ~ Negative(operand1) /\ ~ Negative(operand2)
      BY <2>1, <3>1, <3>5 DEF Negative
    <3> QED
      BY <3>2, <3>3, <3>4, <3>5
  <2> HIDE DEF a, b, A
  <2>3. a = b * sq + sr
    BY <1>1, <1>2, <1>3, <2>1, <2>2 DEF A
  <2>4. Truncates(a, b, sq, sr)
    <3> HIDE DEF sq
    <3> QED
      BY <1>1, <1>2, <1>3, <2>1, <2>3 DEF Truncates, A
  <2> QED
    BY <2>4 DEF a, b
<1>9. DivisionExact'
  <2>1. AsSigned(operand1)' = AsSigned(operand1) /\ AsSigned(operand2)' = AsSigned(operand2)
    BY DEF AsSigned, Negative, Size, Half
  <2> HIDE DEF sq, sr
  <2> QED
    BY <1>6, <1>7, <1>8, <2>1 DEF DivisionExact, Truncates
<1> QED
  BY <1>5, <1>9 DEF ArithInv, DivInv, MulInv, ProductExact

\* lib/zdispatch.asm: whatever the operands and however wide the words, the
\* registers stay words, div and mod leave the truncated quotient and its
\* remainder, and mul leaves the low word of the signed product.
THEOREM ArithmeticExact == ArithSpec => [](ArithTypeOK /\ DivisionExact /\ ProductExact)
<1>1. ArithInit => ArithInv
  BY InitArith
<1>2. ArithInv /\ [ArithNext]_arith => ArithInv'
  <2> SUFFICES ASSUME ArithInv, [ArithNext]_arith
               PROVE  ArithInv'
    OBVIOUS
  <2>1. ASSUME NEW x \in Bits, NEW y \in Bits, zds_mul(x, y) \/ zds_div(x, y)
        PROVE  ArithInv'
    BY <2>1, StartMul, StartDiv
  <2>2. CASE ArithLoop
    BY <2>2, PassMul, AnswerMul, PassDiv, AnswerDiv DEF ArithLoop
  <2>3. CASE UNCHANGED arith
    BY <2>3 DEF arith, loop, ArithInv, ArithTypeOK, DivInv, MulInv, DivisionExact,
       ProductExact, Truncates, SignedQuotient, AsSigned, Negative, Magnitude, Negate, Size,
       Half, Bits
  <2> QED
    BY <2>1, <2>2, <2>3 DEF ArithNext
<1>3. ArithInv => ArithTypeOK /\ DivisionExact /\ ProductExact
  BY DEF ArithInv
<1> QED
  BY <1>1, <1>2, <1>3, PTL DEF ArithSpec

-----------------------------------------------------------------------------
(* Induction, and loops written as recursive functions.                    *)

LEMMA Inductive ==
  ASSUME NEW T, 0 \in T, \A n \in Nat : n \in T => n + 1 \in T
  PROVE  Nat \subseteq T
<1> DEFINE R == OpToRel(<, Nat)
<1>1. IsWellFoundedOn(R, Nat)
  BY NatLessThanWellFounded
<1>2. \A a, b \in Nat : a < b => <<a, b>> \in R
  BY DEF OpToRel
<1> HIDE DEF R
<1>3. SUFFICES ASSUME Nat \ T # {} PROVE FALSE
  OBVIOUS
<1>4. PICK m \in Nat \ T : \A k \in Nat \ T : ~ (<<k, m>> \in R)
  BY <1>1, <1>3, WFMin
<1>5. m - 1 \in Nat
  BY <1>4
<1>6. <<m - 1, m>> \in R
  BY <1>2, <1>4, <1>5
<1>7. m - 1 \in T
  BY <1>4, <1>5, <1>6
<1>8. (m - 1) + 1 = m
  BY <1>4
<1> QED
  BY <1>4, <1>5, <1>7, <1>8

\* What holds at the start and is kept by every pass holds after n of them.
LEMMA Kept ==
  ASSUME NEW n \in Nat, NEW Y, NEW f, f[0] \in Y[0],
         \A k \in 1 .. n : f[k - 1] \in Y[k - 1] => f[k] \in Y[k]
  PROVE  \A k \in 0 .. n : f[k] \in Y[k]
<1> DEFINE T == {k \in Nat : k <= n => f[k] \in Y[k]}
<1>1. 0 \in T
  OBVIOUS
<1>2. ASSUME NEW k \in Nat, k \in T PROVE k + 1 \in T
  <2> SUFFICES ASSUME k + 1 <= n PROVE f[k + 1] \in Y[k + 1]
    OBVIOUS
  <2>1. k + 1 \in 1 .. n /\ (k + 1) - 1 = k /\ k <= n
    OBVIOUS
  <2>2. f[k] \in Y[k]
    BY <1>2, <2>1
  <2> QED
    BY <2>1, <2>2
<1> HIDE DEF T
<1>3. Nat \subseteq T
  BY <1>1, <1>2, Inductive
<1> QED
  BY <1>3 DEF T

\* A loop whose passes take results in Y[k - 1] to results in Y[k] has results.
IsLoop(f, n, a, step) == f = [k \in 0 .. n |-> IF k = 0 THEN a ELSE step[k][f[k - 1]]]
Passing(n, Y, step) == \A k \in 1 .. n : \A q \in Y[k - 1] : step[k][q] \in Y[k]

LEMMA Recursion ==
  ASSUME NEW n \in Nat, NEW Y, NEW a \in Y[0], NEW step, Passing(n, Y, step)
  PROVE  \E f : IsLoop(f, n, a, step) /\ \A k \in 0 .. n : f[k] \in Y[k]
<1> USE DEF Passing
<1> DEFINE Is(f, m) ==
             /\ f = [k \in 0 .. m |-> IF k = 0 THEN a ELSE step[k][f[k - 1]]]
             /\ \A k \in 0 .. m : f[k] \in Y[k]
           T == {m \in Nat : m <= n => \E f : Is(f, m)}
<1>1. 0 \in T
  <2> DEFINE f == [k \in 0 .. 0 |-> a]
  <2>1. Is(f, 0)
    OBVIOUS
  <2> QED
    BY <2>1
<1>2. ASSUME NEW m \in Nat, m \in T PROVE m + 1 \in T
  <2> SUFFICES ASSUME m + 1 <= n PROVE \E f : Is(f, m + 1)
    OBVIOUS
  <2>1. PICK f : Is(f, m)
    BY <1>2
  <2> DEFINE g == [k \in 0 .. m + 1 |-> IF k = m + 1 THEN step[m + 1][f[m]] ELSE f[k]]
  <2>2. f[m] \in Y[m] /\ m + 1 \in 1 .. n /\ (m + 1) - 1 = m
    BY <2>1
  <2>3. step[m + 1][f[m]] \in Y[m + 1]
    BY <2>2
  <2>4. \A k \in 0 .. m : g[k] = f[k]
    OBVIOUS
  <2>5. g[m + 1] = step[m + 1][f[m]]
    OBVIOUS
  <2>6. ASSUME NEW k \in 0 .. m + 1 PROVE g[k] \in Y[k]
    <3> HIDE DEF g
    <3>1. k = m + 1 \/ k \in 0 .. m
      OBVIOUS
    <3> QED
      BY <3>1, <2>1, <2>3, <2>4, <2>5
  <2>7. ASSUME NEW k \in 0 .. m + 1
        PROVE  g[k] = IF k = 0 THEN a ELSE step[k][g[k - 1]]
    <3>1. CASE k = m + 1
      <4>1. k # 0 /\ k - 1 = m /\ m \in 0 .. m
        BY <3>1
      <4> QED
        BY <3>1, <4>1, <2>4, <2>5
    <3>2. CASE k # m + 1
      <4>1. k \in 0 .. m
        BY <3>2
      <4>2. k # 0 => k - 1 \in 0 .. m
        BY <4>1
      <4>3. f[k] = IF k = 0 THEN a ELSE step[k][f[k - 1]]
        BY <2>1, <4>1
      <4> HIDE DEF g
      <4> QED
        BY <4>1, <4>2, <4>3, <2>4
    <3> QED
      BY <3>1, <3>2
  <2>8. g = [k \in 0 .. m + 1 |-> g[k]]
    OBVIOUS
  <2> HIDE DEF g
  <2>9. g = [k \in 0 .. m + 1 |-> IF k = 0 THEN a ELSE step[k][g[k - 1]]]
    BY <2>7, <2>8
  <2> QED
    BY <2>6, <2>9
<1> HIDE DEF T
<1>3. Nat \subseteq T
  BY <1>1, <1>2, Inductive
<1>4. n <= n
  OBVIOUS
<1>5. \E f : Is(f, n)
  BY <1>3, <1>4 DEF T
<1> QED
  BY <1>5 DEF IsLoop

\* The number of passes before the loop is left.
IsFirst(k, n, S) ==
  k \in 0 .. n /\ (k = n \/ k \in S) /\ \A m \in 0 .. k - 1 : ~ (m \in S)

LEMMA FirstExists ==
  ASSUME NEW n \in Nat, NEW S
  PROVE  \E k : IsFirst(k, n, S)
<1> USE DEF IsFirst
<1> DEFINE First(j) == j \in S /\ \A m \in 0 .. j - 1 : ~ (m \in S)
           None(k) == \A m \in 0 .. k : ~ (m \in S)
           T == {k \in Nat : None(k) \/ \E j \in 0 .. k : First(j)}
<1>1. 0 \in T
  <2>1. CASE 0 \in S
    <3>1. First(0) /\ 0 \in 0 .. 0
      BY <2>1
    <3> HIDE DEF First, None
    <3> QED
      BY <3>1
  <2>2. CASE 0 \notin S
    <3>1. \A m \in 0 .. 0 : m = 0
      OBVIOUS
    <3>2. None(0)
      BY <2>2, <3>1
    <3> HIDE DEF First, None
    <3> QED
      BY <3>2
  <2> QED
    BY <2>1, <2>2
<1>2. ASSUME NEW k \in Nat, k \in T PROVE k + 1 \in T
  <2>0. k + 1 \in Nat /\ k + 1 \in 0 .. k + 1 /\ (k + 1) - 1 = k
    OBVIOUS
  <2>1. CASE \E j \in 0 .. k : First(j)
    <3>1. PICK j \in 0 .. k : First(j)
      BY <2>1
    <3>2. j \in 0 .. k + 1
      OBVIOUS
    <3> HIDE DEF First, None
    <3> QED
      BY <2>0, <3>1, <3>2
  <2>2. CASE None(k) /\ k + 1 \in S
    <3>1. First(k + 1)
      BY <2>0, <2>2
    <3> HIDE DEF First, None
    <3> QED
      BY <2>0, <3>1
  <2>3. CASE None(k) /\ ~ (k + 1 \in S)
    <3>1. \A m \in 0 .. k + 1 : m \in 0 .. k \/ m = k + 1
      OBVIOUS
    <3>2. None(k + 1)
      BY <2>3, <3>1
    <3> HIDE DEF First, None
    <3> QED
      BY <2>0, <3>2
  <2> QED
    BY <1>2, <2>1, <2>2, <2>3
<1>3. Nat \subseteq T
  <2> HIDE DEF T
  <2> QED
    BY <1>1, <1>2, Inductive
<1>4. CASE \E j \in 0 .. n : First(j)
  BY <1>4
<1>5. CASE None(n)
  <2>1. n \in 0 .. n /\ \A m \in 0 .. n - 1 : m \in 0 .. n
    OBVIOUS
  <2> QED
    BY <1>5, <2>1
<1>6. n \in T
  BY <1>3
<1> HIDE DEF First, None
<1>7. None(n) \/ \E j \in 0 .. n : First(j)
  BY <1>6
<1> QED
  BY <1>4, <1>5, <1>7

-----------------------------------------------------------------------------
(* Outcomes.                                                               *)

Yield(S, V) ==
  {o \in [ok : BOOLEAN, vm : S, value : V \cup {0, 1}] :
     IF o.ok THEN o.value \in V ELSE o.value \in {0, 1}}

LEMMA Yields ==
  ASSUME NEW S, NEW V, NEW s \in S
  PROVE  /\ Fail(s) \in Yield(S, V) /\ Endless(s) \in Yield(S, V)
         /\ \A v \in V : Value(s, v) \in Yield(S, V)
  BY DEF Yield, Value, Fail, Endless

LEMMA Parts ==
  /\ \A s, v : Value(s, v).ok = TRUE /\ Value(s, v).vm = s /\ Value(s, v).value = v
  /\ \A s : Fail(s).ok = FALSE /\ Fail(s).vm = s
  /\ \A s : Endless(s).ok = FALSE /\ Endless(s).vm = s
  BY DEF Value, Fail, Endless

LEMMA Yielded ==
  ASSUME NEW S, NEW V, NEW r \in Yield(S, V)
  PROVE  /\ r.ok \in BOOLEAN /\ r.vm \in S
         /\ r.ok => r.value \in V
         /\ r = [ok |-> r.ok, vm |-> r.vm, value |-> r.value]
  BY DEF Yield

\* Of two steps the second is left out if the first fails.
LEMMA Follows ==
  ASSUME NEW S, NEW V, NEW W, NEW r \in Yield(S, V), NEW x, r.ok => x \in Yield(S, W)
  PROVE  (IF r.ok THEN x ELSE r) \in Yield(S, W)
  BY DEF Yield

LEMMA YieldWider ==
  ASSUME NEW S, NEW V, NEW R, NEW W, S \subseteq R, V \subseteq W
  PROVE  Yield(S, V) \subseteq Yield(R, W)
  BY DEF Yield

-----------------------------------------------------------------------------
(* Words, bytes and addresses.                                             *)

Address == 0 .. AddrMod - 1

LEMMA WordIs ==
  /\ Size = 65536 /\ Half = 32768 /\ Bits \subseteq Int
  /\ \A w \in Int : w \in Bits <=> 0 <= w /\ w <= 65535
<1>1. /\ \A i \in 0 .. 16, j \in 0 .. 16 : i + j <= 16 => Pow2[i + j] = Pow2[i] * Pow2[j]
      /\ Pow2[0] = 1 /\ Pow2[1] = 2
  BY Pow2Assumption, WidthIs16
<1>2. Pow2[1 + 1] = 4
  BY <1>1
<1>3. Pow2[2 + 2] = 16
  BY <1>1, <1>2
<1>4. Pow2[4 + 4] = 256
  BY <1>1, <1>3
<1>5. Pow2[8 + 8] = 65536
  BY <1>1, <1>4
<1>6. Pow2[4 + 2] = 64 /\ Pow2[6 + 1] = 128
  BY <1>1, <1>2, <1>3
<1>7. Pow2[8 + 7] = 32768
  BY <1>1, <1>4, <1>6
<1>8. Pow2[16] = 65536 /\ Pow2[15] = 32768
  BY <1>5, <1>7
<1>9. Size = 65536
  BY <1>8, WidthIs16 DEF Size
<1>10. Half = 32768
  BY <1>8, WidthIs16 DEF Half
<1>11. Bits \subseteq Int /\ \A w \in Int : w \in Bits <=> 0 <= w /\ w <= 65535
  <2>1. ASSUME NEW n \in Int
        PROVE  0 .. n - 1 \subseteq Int /\ \A w \in Int : w \in 0 .. n - 1 <=> 0 <= w /\ w < n
    OBVIOUS
  <2>2. Size \in Int
    BY <1>9
  <2>3. Bits \subseteq Int /\ \A w \in Int : w \in Bits <=> 0 <= w /\ w < Size
    BY <2>1, <2>2 DEF Bits
  <2> QED
    BY <2>3, <1>9
<1> QED
  BY <1>9, <1>10, <1>11

LEMMA ByteIs == Byte \subseteq Int /\ \A b \in Int : b \in Byte <=> 0 <= b /\ b <= 255
<1>1. \A n \in Int : 0 .. n \subseteq Int /\ \A b \in Int : b \in 0 .. n <=> 0 <= b /\ b <= n
  OBVIOUS
<1>2. 255 \in Int
  OBVIOUS
<1> QED
  BY <1>1, <1>2, Zenon DEF Byte

LEMMA ByteIsWord == Byte \subseteq Bits
  BY ByteIs, WordIs

LEMMA Addresses ==
  /\ AddrMod \in Nat \ {0} /\ AddrMod <= 65536 /\ AddrMod % 2 = 0
  /\ Address \subseteq Bits
  /\ \A a \in Int : a % AddrMod \in Address
  /\ \A a \in Address : a % AddrMod = a
<1>1. 2 ^ 16 = 65536
  OBVIOUS
<1>2. \A n \in Int : \A m \in 2 .. n : m \in Nat \ {0} /\ m <= n
  OBVIOUS
<1>3. 2 ^ 16 \in Int
  BY <1>1
<1>4. AddrMod \in Nat \ {0} /\ AddrMod <= 2 ^ 16 /\ AddrMod % 2 = 0
  BY <1>2, <1>3, AddrModAssumption, Zenon
<1> QED
  BY <1>1, <1>4, WordIs DEF Address

LEMMA Wraps == \A a \in Int : a % AddrMod \in Address /\ a % AddrMod \in Nat
<1> Address \subseteq Nat
  BY Addresses DEF Address
<1> QED
  BY Addresses

LEMMA BytesOf == \A w \in Int : ByteOf(w, 0) \in Byte /\ ByteOf(w, 1) \in Byte
<1>1. 256 ^ 0 = 1 /\ 256 ^ 1 = 256
  OBVIOUS
<1> QED
  BY <1>1, ByteIs DEF ByteOf

LEMMA WordFrom == \A h, l \in Byte : 256 * h + l \in Bits
  BY WordIs, ByteIs

Image(size) == [0 .. size - 1 -> Byte]

LEMMA ReadsByte ==
  ASSUME NEW size \in Nat, NEW image \in Image(size), NEW a
  PROVE  /\ read8(image, a) \in Yield({image}, Byte)
         /\ read8(image, a).ok <=> a % AddrMod \in 0 .. size - 1
         /\ read8(image, a).ok => read8(image, a).value = image[a % AddrMod]
  BY DEF read8, story_mem_read8, Value, Fail, Yield, Image

LEMMA ReadsWord ==
  ASSUME NEW size \in Nat, NEW image \in Image(size), NEW a
  PROVE  read16(image, a) \in Yield({image}, Bits)
<1> DEFINE x == a % AddrMod
           high == story_mem_read8(image, x)
           low == story_mem_read8(image, x + 1)
<1>1. high \in Yield({image}, Byte) /\ low \in Yield({image}, Byte)
  BY DEF story_mem_read8, Value, Fail, Yield, Image
<1>2. read16(image, a) =
        IF x = AddrMod - 1 THEN Fail(image)
        ELSE IF high.ok
             THEN IF low.ok THEN Value(image, 256 * high.value + low.value) ELSE low
             ELSE high
  BY DEF read16, story_mem_read16, Then
<1> HIDE DEF high, low, x
<1>3. high.ok /\ low.ok => 256 * high.value + low.value \in Bits
  BY <1>1, WordFrom DEF Yield
<1> QED
  BY <1>1, <1>2, <1>3 DEF Yield, Value, Fail

-----------------------------------------------------------------------------
(* Decoding: the results are on the cursor.                                *)

LEMMA Advances ==
  ASSUME NEW S, NEW V, NEW r \in Yield(S, V), NEW at \in Nat, NEW n \in Nat
  PROVE  /\ Advance(at, n, r) \in Yield(Nat, V)
         /\ r.ok => Advance(at, n, r).vm \in Address
<1>1. (at + n) % AddrMod \in Address /\ Address \subseteq Nat
  BY Addresses DEF Address
<1> QED
  BY <1>1 DEF Advance, Yield, Value, Fail

LEMMA DecodesByte ==
  ASSUME NEW size \in Nat, NEW image \in Image(size), NEW at \in Nat
  PROVE  /\ read_byte(image, at) \in Yield(Nat, Byte)
         /\ read_word(image, at) \in Yield(Nat, Bits)
         /\ \A type : read_operand(image, at, type) \in Yield(Nat, Bits)
<1>1. /\ read_byte(image, at) \in Yield(Nat, Byte)
      /\ read_word(image, at) \in Yield(Nat, Bits)
  <2>1. read_byte(image, at) \in Yield(Nat, Byte)
    BY ReadsByte, Advances DEF read_byte
  <2>2. read_word(image, at) \in Yield(Nat, Bits)
    BY ReadsWord, Advances DEF read_word
  <2> QED
    BY <2>1, <2>2
<1>2. Yield(Nat, Byte) \subseteq Yield(Nat, Bits)
  BY ByteIsWord, YieldWider
<1> QED
  BY <1>1, <1>2 DEF read_operand

OperandType == {"large", "small", "variable"}
Category == {"two", "one", "zero", "var"}

LEMMA TypesOf ==
  ASSUME NEW b
  PROVE  VarTypes(b) \in Seq(OperandType)
<1> DEFINE n == 4
           S == {k \in 0 .. n : TypeField(b, k + 1) = 3}
           Is(last) == /\ last = n \/ TypeField(b, last + 1) = 3
                       /\ \A m \in 0 .. last - 1 : ~ (TypeField(b, m + 1) = 3)
           last == Passes(n, LAMBDA k : TypeField(b, k + 1) = 3)
<1>0. n \in Nat
  OBVIOUS
<1>2. last = CHOOSE k \in 0 .. n : Is(k)
  BY DEF Passes
<1>4. VarTypes(b) = [k \in 1 .. last |-> decode_operand_type(TypeField(b, k))]
  BY DEF VarTypes
<1> HIDE DEF n
<1>1. \E k \in 0 .. n : Is(k)
  <2>1. PICK k : IsFirst(k, n, S)
    BY <1>0, FirstExists
  <2>2. k \in 0 .. n /\ Is(k)
    BY <1>0, <2>1 DEF IsFirst
  <2> QED
    BY <2>2
<1> HIDE DEF Is, last
<1>3. last \in 0 .. n
  BY <1>1, <1>2
<1>5. \A bits : decode_operand_type(bits) \in OperandType
  BY DEF decode_operand_type, OperandType
<1> QED
  BY <1>0, <1>3, <1>4, <1>5

Form == {f \in [category : Category, opcode : Nat, types : Seq(OperandType)] :
           /\ f.category = "one" => Len(f.types) = 1
           /\ f.category = "zero" => f.types = <<>>}

LEMMA FormIs ==
  ASSUME NEW size \in Nat, NEW image \in Image(size), NEW at \in Nat, NEW b \in Byte
  PROVE  /\ DecodeForm(image, at, b) \in Yield(Nat, Form)
         /\ DecodeForm(image, at, b).ok /\ DecodeForm(image, at, b).value.category = "zero" =>
              DecodeForm(image, at, b).vm = at
<1> DEFINE h == read_byte(image, at)
           form(t) == [ category |-> IF Bit(b, 5) = 1 THEN "var" ELSE "two",
                        opcode |-> b % 32, types |-> VarTypes(t.value) ]
           op(t) == Value(t.vm, form(t))
           both == AndThen(h, LAMBDA t : op(t))
           bits == (b \div 16) % 4
           short == [ category |-> IF bits = 3 THEN "zero" ELSE "one", opcode |-> b % 16,
                      types |-> IF bits = 3 THEN <<>> ELSE <<decode_operand_type(bits)>> ]
           long == [ category |-> "two", opcode |-> b % 32,
                     types |-> <<SmallOr(Bit(b, 6)), SmallOr(Bit(b, 5))>> ]
<1>1. DecodeForm(image, at, b) =
        IF b >= 192 THEN both ELSE IF b >= 128 THEN Value(at, short) ELSE Value(at, long)
  BY DEF DecodeForm
<1>2. b % 32 \in Nat /\ b % 16 \in Nat
  BY ByteIs
<1>3. h \in Yield(Nat, Byte)
  BY DecodesByte
<1>4. h.ok => form(h) \in Form
  BY <1>2, TypesOf DEF Form, Category
<1>5. short \in Form
  <2>1. <<decode_operand_type(bits)>> \in Seq(OperandType)
    BY DEF decode_operand_type, OperandType
  <2>2. CASE bits = 3
    BY <1>2, <2>2 DEF Form, Category
  <2>3. CASE bits # 3
    <3> HIDE DEF bits
    <3> QED
      BY <1>2, <2>1, <2>3 DEF Form, Category
  <2> QED
    BY <2>2, <2>3
<1>6. long \in Form
  <2>1. <<SmallOr(Bit(b, 6)), SmallOr(Bit(b, 5))>> \in Seq(OperandType)
    BY DEF SmallOr, OperandType
  <2> QED
    BY <1>2, <2>1 DEF Form, Category
<1> HIDE DEF form, short, long, h
<1>7. h.ok => op(h) \in Yield(Nat, Form)
  BY <1>3, <1>4, Yields, Yielded
<1> HIDE DEF op
<1>8. both = IF h.ok THEN op(h) ELSE h
  BY DEF AndThen, Then
<1>9. both \in Yield(Nat, Form)
  BY <1>3, <1>7, <1>8, Follows
<1>10. Value(at, short) \in Yield(Nat, Form) /\ Value(at, long) \in Yield(Nat, Form)
  BY <1>5, <1>6, Yields
<1>11. both.ok => both.value.category # "zero"
  <2>1. op(h).value.category # "zero"
    BY DEF op, form, Value
  <2> QED
    BY <1>8, <2>1
<1> QED
  BY <1>1, <1>9, <1>10, <1>11 DEF Value

Words(n) == {x \in Seq(Bits) : Len(x) = n}

LEMMA Longer ==
  ASSUME NEW k \in Nat, k > 0, NEW x \in Words(k - 1), NEW w \in Bits
  PROVE  Append(x, w) \in Words(k)
  BY DEF Words

\* One pass of the loop that reads operands.
OperandRead(image, types, q, k) ==
  LET x == read_operand(image, q.vm, types[k])
  IN IF x.ok THEN Value(x.vm, Append(q.value, x.value)) ELSE x

LEMMA OperandLoop ==
  ASSUME NEW size \in Nat, NEW image \in Image(size), NEW at \in Nat,
         NEW types \in Seq(OperandType)
  PROVE  \E To : /\ ReadOperands(image, at, types) = To[Len(types)]
                 /\ To[0] = Value(at, <<>>)
                 /\ \A k \in 0 .. Len(types) : To[k] \in Yield(Nat, Words(k))
                 /\ \A k \in 1 .. Len(types) :
                      To[k] = IF To[k - 1].ok THEN OperandRead(image, types, To[k - 1], k)
                              ELSE To[k - 1]
<1> DEFINE start == Value(at, <<>>)
           n == Len(types)
           h(q, k) == read_operand(image, q.vm, types[k])
           more(q, x) == Value(x.vm, Append(q.value, x.value))
           op(q, k) == AndThen(h(q, k), LAMBDA x : more(q, x))
           E(g) == g = [k \in 0 .. n |-> IF k = 0 THEN start
                                         ELSE AndThen(g[k - 1], LAMBDA q : op(q, k))]
           Y == [k \in 0 .. n |-> Yield(Nat, Words(k))]
           To == CHOOSE g : E(g)
           step == [k \in 1 .. n |-> [q \in Y[k - 1] |-> IF q.ok THEN op(q, k) ELSE q]]
<1>1. ReadOperands(image, at, types) = To[n]
  BY DEF ReadOperands, AllOf
<1>2. n \in Nat
  OBVIOUS
<1>3. start \in Y[0]
  <2>1. <<>> \in Words(0)
    BY DEF Words
  <2>2. 0 \in 0 .. n
    BY <1>2
  <2> QED
    BY <2>1, <2>2, Yields
<1> HIDE DEF start
<1>4. ASSUME NEW k \in 1 .. n, NEW q \in Y[k - 1], q.ok PROVE op(q, k) \in Y[k]
  <2>1. k \in Nat /\ k > 0 /\ k \in 0 .. n /\ k - 1 \in 0 .. n /\ q \in Yield(Nat, Words(k - 1))
    BY <1>2
  <2>2. q.vm \in Nat /\ q.value \in Words(k - 1)
    BY <1>4, <2>1, Yielded
  <2>3. h(q, k) \in Yield(Nat, Bits)
    BY <2>2, DecodesByte
  <2> HIDE DEF h
  <2>4. h(q, k).ok => more(q, h(q, k)) \in Yield(Nat, Words(k))
    BY <2>1, <2>2, <2>3, Yielded, Yields, Longer
  <2> HIDE DEF more
  <2>5. op(q, k) = IF h(q, k).ok THEN more(q, h(q, k)) ELSE h(q, k)
    BY DEF AndThen, Then
  <2>6. op(q, k) \in Yield(Nat, Words(k))
    BY <2>3, <2>4, <2>5, Follows
  <2> QED
    BY <2>1, <2>6
<1> HIDE DEF op
<1>5. \A g, k : AndThen(g[k - 1], LAMBDA q : op(q, k))
                  = IF g[k - 1].ok THEN op(g[k - 1], k) ELSE g[k - 1]
  BY DEF AndThen, Then
<1>6. ASSUME NEW k \in 1 .. n, NEW q \in Y[k - 1]
      PROVE  (IF q.ok THEN op(q, k) ELSE q) \in Y[k]
  <2>1. k \in 0 .. n /\ k - 1 \in 0 .. n
    BY <1>2
  <2>2. ~ q.ok => q \in Y[k]
    BY <2>1 DEF Yield
  <2> QED
    BY <2>2, <1>4
<1>7. \E g : E(g)
  <2>1. Passing(n, Y, step)
    BY <1>6 DEF Passing
  <2> HIDE DEF Y
  <2>2. \A k \in 1 .. n : \A q \in Y[k - 1] : step[k][q] = IF q.ok THEN op(q, k) ELSE q
    OBVIOUS
  <2> HIDE DEF step
  <2>3. PICK f : IsLoop(f, n, start, step) /\ \A k \in 0 .. n : f[k] \in Y[k]
    BY <1>2, <1>3, <2>1, Recursion
  <2>4. \A k \in 0 .. n : k # 0 => k \in 1 .. n /\ f[k - 1] \in Y[k - 1]
    BY <1>2, <2>3
  <2>5. \A k \in 0 .. n : (IF k = 0 THEN start ELSE step[k][f[k - 1]])
                          = IF k = 0 THEN start
                            ELSE IF f[k - 1].ok THEN op(f[k - 1], k) ELSE f[k - 1]
    BY <2>2, <2>4
  <2>6. f = [k \in 0 .. n |-> IF k = 0 THEN start
                              ELSE IF f[k - 1].ok THEN op(f[k - 1], k) ELSE f[k - 1]]
    BY <2>3, <2>5 DEF IsLoop
  <2>7. E(f)
    BY <2>6, <1>5
  <2> QED
    BY <2>7
<1>8. E(To)
  BY <1>7
<1> HIDE DEF To
<1>9. \A k \in 0 .. n : To[k] = IF k = 0 THEN start
                                ELSE IF To[k - 1].ok THEN op(To[k - 1], k) ELSE To[k - 1]
  BY <1>8, <1>5
<1>10. \A k \in 1 .. n : To[k - 1] \in Y[k - 1] => To[k] \in Y[k]
  BY <1>2, <1>6, <1>9, SMTT(30)
<1>11. To[0] \in Y[0]
  BY <1>2, <1>3, <1>9
<1> HIDE DEF Y
<1>12. \A k \in 0 .. n : To[k] \in Y[k]
  BY <1>2, <1>10, <1>11, Kept
<1>13. To[0] = start
  BY <1>2, <1>9
<1>14. \A q, k : op(q, k) = OperandRead(image, types, q, k)
  <2> SUFFICES ASSUME NEW q, NEW k PROVE op(q, k) = OperandRead(image, types, q, k)
    OBVIOUS
  <2>1. OperandRead(image, types, q, k) = IF h(q, k).ok THEN more(q, h(q, k)) ELSE h(q, k)
    BY DEF OperandRead
  <2> HIDE DEF h, more
  <2> QED
    BY <2>1 DEF op, AndThen, Then
<1>15. \A k \in 1 .. n : To[k] = IF To[k - 1].ok THEN OperandRead(image, types, To[k - 1], k)
                               ELSE To[k - 1]
  BY <1>2, <1>9, <1>14
<1> QED
  BY <1>1, <1>12, <1>13, <1>15 DEF Y, start

LEMMA OperandsAreRead ==
  ASSUME NEW size \in Nat, NEW image \in Image(size), NEW at \in Nat,
         NEW types \in Seq(OperandType)
  PROVE  /\ ReadOperands(image, at, types) \in Yield(Nat, Words(Len(types)))
         /\ types = <<>> => ReadOperands(image, at, types).vm = at
<1>1. PICK To : /\ ReadOperands(image, at, types) = To[Len(types)] /\ To[0] = Value(at, <<>>)
                /\ \A k \in 0 .. Len(types) : To[k] \in Yield(Nat, Words(k))
  BY OperandLoop
<1>2. types = <<>> => Len(types) = 0
  OBVIOUS
<1> QED
  BY <1>1, <1>2 DEF Value

BranchData == [on_true : BOOLEAN, offset : Int]

LEMMA BranchIsRead ==
  ASSUME NEW size \in Nat, NEW image \in Image(size), NEW at \in Nat
  PROVE  ReadBranch(image, at) \in Yield(Nat, BranchData)
<1> DEFINE h == read_byte(image, at)
           on_true(b) == Bit(b.value, 7) = 1
           high(b) == b.value % 64
           g(b) == read_byte(image, b.vm)
           offset(b, c) == 256 * high(b) + c.value
           long(b, c) == Value(c.vm, [ on_true |-> on_true(b),
                            offset |-> IF high(b) >= 32 THEN offset(b, c) - 2 ^ 14 ELSE offset(b, c) ])
           both(b) == AndThen(g(b), LAMBDA c : long(b, c))
           op(b) == IF Bit(b.value, 6) = 1
                    THEN Value(b.vm, [on_true |-> on_true(b), offset |-> high(b)]) ELSE both(b)
<1>1. ReadBranch(image, at) = AndThen(h, LAMBDA b : op(b))
  BY DEF ReadBranch
<1>2. h \in Yield(Nat, Byte)
  BY DecodesByte
<1> HIDE DEF h
<1>3. ASSUME h.ok PROVE op(h) \in Yield(Nat, BranchData)
  <2>1. h.vm \in Nat /\ h.value \in Byte /\ high(h) \in Int /\ on_true(h) \in BOOLEAN
    BY <1>2, <1>3, Yielded, ByteIs
  <2>2. g(h) \in Yield(Nat, Byte)
    BY <2>1, DecodesByte
  <2> HIDE DEF g, high, on_true
  <2>3. 2 ^ 14 \in Int
    OBVIOUS
  <2>4. g(h).ok => long(h, g(h)) \in Yield(Nat, BranchData)
    <3> SUFFICES ASSUME g(h).ok PROVE long(h, g(h)) \in Yield(Nat, BranchData)
      OBVIOUS
    <3>1. g(h).vm \in Nat /\ g(h).value \in Int
      BY <2>2, Yielded, ByteIs
    <3>2. offset(h, g(h)) \in Int
      BY <2>1, <3>1
    <3> HIDE DEF offset
    <3>3. offset(h, g(h)) - 2 ^ 14 \in Int
      BY <3>2, <2>3
    <3> QED
      BY <2>1, <3>1, <3>2, <3>3, Yields DEF BranchData
  <2> HIDE DEF long
  <2>5. both(h) = IF g(h).ok THEN long(h, g(h)) ELSE g(h)
    BY DEF AndThen, Then
  <2>6. both(h) \in Yield(Nat, BranchData)
    BY <2>2, <2>4, <2>5, Follows
  <2> HIDE DEF both
  <2>7. Value(h.vm, [on_true |-> on_true(h), offset |-> high(h)]) \in Yield(Nat, BranchData)
    BY <2>1, Yields DEF BranchData
  <2> QED
    BY <2>6, <2>7
<1> HIDE DEF op
<1>4. h.ok => op(h) \in Yield(Nat, BranchData)
  BY <1>3
<1>5. AndThen(h, LAMBDA b : op(b)) = IF h.ok THEN op(h) ELSE h
  BY DEF AndThen, Then
<1> QED
  BY <1>1, <1>2, <1>4, <1>5, Follows

\* Word m of the text at an address, as the decoder's cursor comes to it.
TextWord(image, at, m) == read_word(image, (at + 2 * m) % AddrMod)
EndsText(image, at, m) == ~ TextWord(image, at, m).ok \/ TextWord(image, at, m).value >= 2 ^ 15
FirstEnd(image, at, k) ==
  /\ k \in 0 .. AddrMod /\ (k = AddrMod \/ EndsText(image, at, k))
  /\ \A m \in 0 .. k - 1 : ~ EndsText(image, at, m)

LEMMA SkipIs ==
  ASSUME NEW image, NEW at
  PROVE  \E k : /\ FirstEnd(image, at, k)
                /\ SkipText(image, at) = IF k = AddrMod THEN Endless(at) ELSE TextWord(image, at, k)
<1> DEFINE S == {m \in 0 .. AddrMod : EndsText(image, at, m)}
           Is(k) == (k = AddrMod \/ EndsText(image, at, k)) /\ \A m \in 0 .. k - 1 : ~ EndsText(image, at, m)
           last == Passes(AddrMod, LAMBDA m : EndsText(image, at, m))
<1>1. SkipText(image, at) = IF last = AddrMod THEN Endless(at) ELSE TextWord(image, at, last)
  BY DEF SkipText, TextWord, EndsText
<1>2. last = CHOOSE k \in 0 .. AddrMod : Is(k)
  BY DEF Passes
<1>3. \E k \in 0 .. AddrMod : Is(k)
  <2>0. AddrMod \in Nat
    BY Addresses
  <2>1. PICK k : IsFirst(k, AddrMod, S)
    <3> HIDE DEF S
    <3> QED
      BY <2>0, FirstExists
  <2>2. k \in 0 .. AddrMod /\ Is(k)
    BY <2>0, <2>1 DEF IsFirst
  <2> QED
    BY <2>2
<1> HIDE DEF Is, last
<1>4. last \in 0 .. AddrMod /\ Is(last)
  BY <1>2, <1>3
<1>5. FirstEnd(image, at, last)
  BY <1>4 DEF FirstEnd, Is
<1> QED
  BY <1>1, <1>5

\* The text ends a whole number of words behind its start.
LEMMA TextIsSkipped ==
  ASSUME NEW size \in Nat, NEW image \in Image(size), NEW at \in Nat
  PROVE  /\ SkipText(image, at) \in Yield(Nat, Bits)
         /\ SkipText(image, at).ok =>
              \E k \in Nat : SkipText(image, at).vm = (((at + 2 * k) % AddrMod) + 2) % AddrMod
<1> DEFINE word(k) == TextWord(image, at, k)
<1>1. PICK k : /\ FirstEnd(image, at, k)
               /\ SkipText(image, at) = IF k = AddrMod THEN Endless(at) ELSE word(k)
  BY SkipIs
<1>2. k \in Nat /\ (at + 2 * k) % AddrMod \in Nat
  <2>1. k \in Nat
    BY <1>1, Addresses DEF FirstEnd
  <2> QED
    BY <2>1, Wraps
<1>3. word(k) \in Yield(Nat, Bits)
  BY <1>2, DecodesByte DEF TextWord
<1>4. word(k).ok => word(k).vm = (((at + 2 * k) % AddrMod) + 2) % AddrMod
  BY DEF TextWord, read_word, Advance, Value, Fail
<1>5. Endless(at) \in Yield(Nat, Bits) /\ ~ Endless(at).ok
  BY Yields, Parts
<1> HIDE DEF word
<1> QED
  BY <1>1, <1>2, <1>3, <1>4, <1>5

Instr == {i \in [ addr : Nat, category : Category, opcode : Nat, types : Seq(OperandType),
                  operands : Seq(Bits), store : Byte, branch : BranchData, length : Address ] :
            /\ Len(i.operands) = Len(i.types)
            /\ i.category = "one" => Len(i.types) = 1
            /\ i.category = "zero" /\ i.opcode = 2 => i.length % 2 = 1}

LEMMA SameParity == \A a \in Int : (a % AddrMod) % 2 = a % 2
<1> SUFFICES ASSUME NEW a \in Int PROVE (a % AddrMod) % 2 = a % 2
  OBVIOUS
<1>1. AddrMod \in Nat \ {0} /\ AddrMod % 2 = 0
  BY Addresses
<1>2. AddrMod = 2 * (AddrMod \div 2) /\ AddrMod \div 2 \in Int
  BY <1>1
<1>3. a = AddrMod * (a \div AddrMod) + (a % AddrMod) /\ a \div AddrMod \in Int /\ a % AddrMod \in Int
  BY <1>1
<1> DEFINE p == (AddrMod \div 2) * (a \div AddrMod)
<1>4. p \in Int /\ AddrMod * (a \div AddrMod) = 2 * p
  BY <1>2, <1>3
<1> HIDE DEF p
<1> QED
  BY <1>3, <1>4

LEMMA InstructionIs ==
  ASSUME NEW size \in Nat, NEW image \in Image(size), NEW addr \in Nat
  PROVE  decode_instruction(image, addr) \in Yield(Nat, Instr)
<1> DEFINE has(f, shape) == f.value.opcode \in shape[f.value.category]
           h1 == read_byte(image, addr)
           h2(b) == DecodeForm(image, b.vm, b.value)
           h3(f) == ReadOperands(image, f.vm, f.value.types)
           h4(f, x) == IF has(f, Stores) THEN read_byte(image, x.vm) ELSE Value(x.vm, 0)
           h5(f, s) == IF has(f, Branches) THEN ReadBranch(image, s.vm) ELSE Value(s.vm, NoBranch)
           h6(f, c) == IF has(f, HasText) THEN SkipText(image, c.vm) ELSE Done(c.vm)
           instr(f, x, s, c, t) ==
             [ addr |-> addr, category |-> f.value.category, opcode |-> f.value.opcode,
               types |-> f.value.types, operands |-> x.value, store |-> s.value,
               branch |-> c.value, length |-> (t.vm - addr) % AddrMod ]
           op6(f, x, s, c, t) == Value(t.vm, instr(f, x, s, c, t))
           op5(f, x, s, c) == AndThen(h6(f, c), LAMBDA t : op6(f, x, s, c, t))
           op4(f, x, s) == AndThen(h5(f, s), LAMBDA c : op5(f, x, s, c))
           op3(f, x) == AndThen(h4(f, x), LAMBDA s : op4(f, x, s))
           op2(f) == AndThen(h3(f), LAMBDA x : op3(f, x))
           op1(b) == AndThen(h2(b), LAMBDA f : op2(f))
           Inline(f) == f.value.category = "zero" /\ f.value.opcode = 2
           \* What has been read ends where the text of a print starts.
           Here(f, V) == {q \in Yield(Nat, V) : q.ok /\ (Inline(f) => q.vm = (addr + 1) % AddrMod)}
           Forms == {f \in Yield(Nat, Form) : f \in Here(f, Form)}
           Operands(f) == Words(Len(f.value.types))
           Out == Yield(Nat, Instr)
<1>1. decode_instruction(image, addr) = AndThen(h1, LAMBDA b : op1(b))
  BY DEF decode_instruction
<1> HIDE DEF has, h1, h2, h3, h4, h5, h6, instr, op1, op2, op3, op4, op5, op6, Inline, Here, Forms, Operands, Out
<1>2. ASSUME NEW f, NEW V, NEW q \in Here(f, V)
      PROVE  /\ q \in Yield(Nat, V) /\ q.ok /\ q.vm \in Nat /\ q.value \in V
             /\ Inline(f) => q.vm = (addr + 1) % AddrMod
  BY Yielded DEF Here
<1>3. ASSUME NEW f \in Forms
      PROVE  /\ f \in Here(f, Form) /\ f.value \in Form
             /\ Inline(f) => ~ has(f, Stores) /\ ~ has(f, Branches) /\ has(f, HasText)
                             /\ f.value.types = <<>>
  <2>1. f \in Here(f, Form)
    BY DEF Forms
  <2>2. f.value \in Form
    BY <1>2, <2>1
  <2>3. 2 \notin Stores["zero"] /\ 2 \notin Branches["zero"] /\ 2 \in HasText["zero"]
    BY DEF Stores, Branches, HasText
  <2> QED
    BY <2>1, <2>2, <2>3 DEF Inline, has, Form
<1>4. ASSUME NEW f \in Forms, NEW x \in Here(f, Operands(f)), NEW s \in Here(f, Byte),
             NEW c \in Here(f, BranchData), NEW t \in Yield(Nat, Bits), t.ok,
             Inline(f) => \E k \in Nat : t.vm = (((c.vm + 2 * k) % AddrMod) + 2) % AddrMod
      PROVE  op6(f, x, s, c, t) \in Out
  <2>1. f.value \in Form /\ x.value \in Operands(f) /\ s.value \in Byte /\ c.value \in BranchData
    BY <1>2, <1>3
  <2>2. t.vm \in Nat
    BY <1>4, Yielded
  <2>3. t.vm - addr \in Int
    BY <2>2
  <2>4. (t.vm - addr) % AddrMod \in Address
    BY <2>3, Wraps
  <2>5. ASSUME Inline(f) PROVE ((t.vm - addr) % AddrMod) % 2 = 1
    <3>1. PICK k \in Nat : t.vm = (((c.vm + 2 * k) % AddrMod) + 2) % AddrMod
      BY <1>4, <2>5
    <3>2. c.vm = (addr + 1) % AddrMod
      BY <1>2, <2>5
    <3> DEFINE u == (c.vm + 2 * k) % AddrMod
    <3>3. c.vm \in Nat /\ c.vm % 2 = (addr + 1) % 2
      BY <3>2, <1>2, SameParity
    <3>4. c.vm + 2 * k \in Int
      BY <3>3
    <3>5. u \in Nat /\ u % 2 = (c.vm + 2 * k) % 2
      BY <3>4, Wraps, SameParity
    <3> HIDE DEF u
    <3>6. u + 2 \in Int
      BY <3>5
    <3>7. t.vm % 2 = (u + 2) % 2
      BY <3>1, <3>6, SameParity DEF u
    <3>8. ((t.vm - addr) % AddrMod) % 2 = (t.vm - addr) % 2
      BY <2>3, SameParity
    <3> QED
      BY <2>2, <3>3, <3>5, <3>7, <3>8
  <2>6. instr(f, x, s, c, t) \in Instr
    BY <2>1, <2>2, <2>4, <2>5 DEF Instr, Form, Words, instr, Operands, Inline
  <2> QED
    BY <2>2, <2>6, Yields DEF op6, Out
<1>5. ASSUME NEW f \in Forms, NEW x \in Here(f, Operands(f)), NEW s \in Here(f, Byte),
             NEW c \in Here(f, BranchData)
      PROVE  op5(f, x, s, c) \in Out
  <2>1. /\ h6(f, c) \in Yield(Nat, Bits)
        /\ h6(f, c).ok /\ Inline(f) =>
             \E k \in Nat : h6(f, c).vm = (((c.vm + 2 * k) % AddrMod) + 2) % AddrMod
    <3>1. c.vm \in Nat /\ 0 \in Bits
      BY <1>2, WordIs
    <3>2. CASE has(f, HasText)
      BY <3>1, <3>2, TextIsSkipped DEF h6
    <3>3. CASE ~ has(f, HasText)
      <4>1. h6(f, c) \in Yield(Nat, Bits)
        BY <3>1, <3>3, Yields DEF h6, Done
      <4> QED
        BY <1>3, <3>3, <4>1
    <3> QED
      BY <3>2, <3>3
  <2>2. op5(f, x, s, c) = IF h6(f, c).ok THEN op6(f, x, s, c, h6(f, c)) ELSE h6(f, c)
    BY DEF op5, AndThen, Then
  <2> QED
    BY <1>4, <2>1, <2>2, Follows DEF Out
<1>6. ASSUME NEW f \in Forms, NEW x \in Here(f, Operands(f)), NEW s \in Here(f, Byte)
      PROVE  op4(f, x, s) \in Out
  <2>1. s.vm \in Nat /\ NoBranch \in BranchData
    BY <1>2 DEF NoBranch, BranchData
  <2>2. h5(f, s) \in Yield(Nat, BranchData)
    BY <2>1, BranchIsRead, Yields DEF h5
  <2>3. h5(f, s).ok => h5(f, s) \in Here(f, BranchData)
    BY <1>2, <1>3, <2>2 DEF Here, h5, Value
  <2>4. op4(f, x, s) = IF h5(f, s).ok THEN op5(f, x, s, h5(f, s)) ELSE h5(f, s)
    BY DEF op4, AndThen, Then
  <2> QED
    BY <1>5, <2>2, <2>3, <2>4, Follows DEF Out
<1>7. ASSUME NEW f \in Forms, NEW x \in Here(f, Operands(f)) PROVE op3(f, x) \in Out
  <2>1. x.vm \in Nat /\ 0 \in Byte
    BY <1>2, ByteIs
  <2>2. h4(f, x) \in Yield(Nat, Byte)
    BY <2>1, DecodesByte, Yields DEF h4
  <2>3. h4(f, x).ok => h4(f, x) \in Here(f, Byte)
    BY <1>2, <1>3, <2>2 DEF Here, h4, Value
  <2>4. op3(f, x) = IF h4(f, x).ok THEN op4(f, x, h4(f, x)) ELSE h4(f, x)
    BY DEF op3, AndThen, Then
  <2> QED
    BY <1>6, <2>2, <2>3, <2>4, Follows DEF Out
<1>8. ASSUME NEW f \in Forms PROVE op2(f) \in Out
  <2>1. f.vm \in Nat /\ f.value.types \in Seq(OperandType)
    BY <1>2, <1>3 DEF Form
  <2>2. /\ h3(f) \in Yield(Nat, Operands(f))
        /\ f.value.types = <<>> => h3(f).vm = f.vm
    BY <2>1, OperandsAreRead DEF h3, Operands
  <2>3. h3(f).ok => h3(f) \in Here(f, Operands(f))
    BY <1>2, <1>3, <2>2 DEF Here
  <2>4. op2(f) = IF h3(f).ok THEN op3(f, h3(f)) ELSE h3(f)
    BY DEF op2, AndThen, Then
  <2> QED
    BY <1>7, <2>2, <2>3, <2>4, Follows DEF Out
<1>9. ASSUME NEW b \in Yield(Nat, Byte), b.ok, b.vm = (addr + 1) % AddrMod
      PROVE  op1(b) \in Out
  <2>1. b.vm \in Nat /\ b.value \in Byte
    BY <1>9, Yielded
  <2>2. /\ h2(b) \in Yield(Nat, Form)
        /\ h2(b).ok /\ h2(b).value.category = "zero" => h2(b).vm = b.vm
    BY <2>1, FormIs DEF h2
  <2>3. h2(b).ok => h2(b) \in Forms
    BY <1>9, <2>2 DEF Here, Forms, Inline
  <2>4. op1(b) = IF h2(b).ok THEN op2(h2(b)) ELSE h2(b)
    BY DEF op1, AndThen, Then
  <2> QED
    BY <1>8, <2>2, <2>3, <2>4, Follows DEF Out
<1>10. h1 \in Yield(Nat, Byte) /\ (h1.ok => h1.vm = (addr + 1) % AddrMod)
  BY DecodesByte DEF h1, read_byte, Advance, Value, Fail
<1>11. AndThen(h1, LAMBDA b : op1(b)) = IF h1.ok THEN op1(h1) ELSE h1
  BY DEF AndThen, Then
<1> QED
  BY <1>1, <1>9, <1>10, <1>11, Follows DEF Out

-----------------------------------------------------------------------------
(* Writing to memory.                                                      *)

LEMMA WritesByte ==
  ASSUME NEW size \in Nat, NEW image \in Image(size), NEW dyn, NEW a, NEW b \in Byte
  PROVE  /\ write8(image, dyn, a, b) \in Yield(Image(size), {0})
         /\ \A x \in 0 .. size - 1 :
              write8(image, dyn, a, b).vm[x] # image[x] => x = a % AddrMod /\ x < dyn
<1> DEFINE new == [image EXCEPT ![a % AddrMod] = b]
<1>1. new \in Image(size)
  BY DEF Image
<1>2. \A x \in 0 .. size - 1 : new[x] # image[x] => x = a % AddrMod
  BY DEF Image
<1> HIDE DEF new
<1>3. write8(image, dyn, a, b) = IF a % AddrMod < dyn THEN Value(new, 0) ELSE Fail(image)
  BY DEF write8, Done, new
<1>4. Value(new, 0) \in Yield(Image(size), {0}) /\ Fail(image) \in Yield(Image(size), {0})
  BY <1>1, Yields
<1> QED
  BY <1>2, <1>3, <1>4 DEF Value, Fail

LEMMA Wrapped ==
  ASSUME NEW a \in Int, NEW x \in Nat, x < AddrMod
  PROVE  x = (a + ((x - a) % AddrMod)) % AddrMod
<1>1. AddrMod \in Nat \ {0}
  BY Addresses
<1> DEFINE q == (x - a) \div AddrMod
           r == (x - a) % AddrMod
<1>2. x - a \in Int
  OBVIOUS
<1>3. q \in Int /\ r \in Int /\ x - a = q * AddrMod + r
  BY <1>1, <1>2, ModRange
<1> HIDE DEF q
<1> DEFINE b == a + r
<1>4. b \in Int /\ x \in Int /\ x = b + q * AddrMod
  BY <1>1, <1>3
<1> HIDE DEF b, r
<1>5. x % AddrMod = b % AddrMod
  BY <1>1, <1>3, <1>4, ModShift, Zenon
<1>6. x % AddrMod = x
  BY <1>1, ModSmall
<1> QED
  BY <1>5, <1>6 DEF b, r

LEMMA WritesBytes ==
  ASSUME NEW size \in Nat, NEW image \in Image(size), NEW dyn, NEW a \in Int,
         NEW bytes \in Seq(Byte)
  PROVE  /\ WriteBytes(image, dyn, a, bytes) \in Yield(Image(size), {0})
         /\ WriteBytes(image, dyn, a, bytes).ok <=>
              \A k \in 0 .. Len(bytes) - 1 : ~ ((a + k) % AddrMod >= dyn)
         /\ \A x \in 0 .. size - 1 :
              WriteBytes(image, dyn, a, bytes).vm[x] # image[x] =>
                \E k \in 0 .. Len(bytes) - 1 : x = (a + k) % AddrMod
<1> DEFINE Leaves(k) == (a + k) % AddrMod >= dyn
           n == Passes(Len(bytes), LAMBDA k : Leaves(k))
           S == {k \in 0 .. Len(bytes) : Leaves(k)}
           Is(k) == (k = Len(bytes) \/ Leaves(k)) /\ \A m \in 0 .. k - 1 : ~ Leaves(m)
           place(x) == 1 + ((x - a) % AddrMod)
           new == [x \in DOMAIN image |-> IF place(x) <= n /\ x < AddrMod THEN bytes[place(x)]
                                          ELSE image[x]]
<1>1. WriteBytes(image, dyn, a, bytes) = IF n = Len(bytes) THEN Value(new, 0) ELSE Fail(new)
  BY DEF WriteBytes, Done
<1>2. n = CHOOSE k \in 0 .. Len(bytes) : Is(k)
  BY DEF Passes
<1> HIDE DEF Leaves
<1>3. \E k \in 0 .. Len(bytes) : Is(k)
  <2>1. Len(bytes) \in Nat
    OBVIOUS
  <2>2. PICK k : IsFirst(k, Len(bytes), S)
    BY <2>1, FirstExists
  <2>3. k \in 0 .. Len(bytes) /\ Is(k)
    BY <2>1, <2>2 DEF IsFirst
  <2> QED
    BY <2>3
<1> HIDE DEF n
<1>4. n \in 0 .. Len(bytes) /\ Is(n)
  BY <1>2, <1>3
<1> HIDE DEF Is, place
<1>5. \A x \in DOMAIN image : x \in Nat /\ x \in 0 .. size - 1 /\ image[x] \in Byte
  BY DEF Image
<1>6. ASSUME NEW x \in DOMAIN image, place(x) <= n, x < AddrMod
      PROVE  /\ place(x) \in 1 .. Len(bytes)
             /\ x = (a + (place(x) - 1)) % AddrMod
  <2>0. x - a \in Int
    BY <1>5
  <2>1. (x - a) % AddrMod \in Nat
    BY <2>0, Wraps
  <2>2. place(x) \in 1 .. Len(bytes) /\ place(x) - 1 = (x - a) % AddrMod
    BY <1>4, <1>6, <2>1 DEF place
  <2> QED
    BY <1>5, <1>6, <2>2, Wrapped
<1>7. new \in Image(size)
  <2>1. DOMAIN image = 0 .. size - 1
    BY DEF Image
  <2>2. \A x \in DOMAIN image : new[x] \in Byte
    BY <1>5, <1>6
  <2> QED
    BY <2>1, <2>2 DEF Image
<1>8. ASSUME NEW x \in 0 .. size - 1, new[x] # image[x]
      PROVE  \E k \in 0 .. Len(bytes) - 1 : x = (a + k) % AddrMod
  <2>1. x \in DOMAIN image
    BY DEF Image
  <2>2. place(x) <= n /\ x < AddrMod
    BY <1>8, <2>1
  <2>3. place(x) - 1 \in 0 .. Len(bytes) - 1
    BY <1>6, <2>1, <2>2
  <2> QED
    BY <1>6, <2>1, <2>2, <2>3
<1> HIDE DEF new
<1>9. WriteBytes(image, dyn, a, bytes) \in Yield(Image(size), {0})
  BY <1>1, <1>7, Yields
<1>10. WriteBytes(image, dyn, a, bytes).vm = new
  BY <1>1 DEF Value, Fail
<1>11. n = Len(bytes) <=> \A k \in 0 .. Len(bytes) - 1 : ~ Leaves(k)
  BY <1>4 DEF Is
<1> QED
  BY <1>1, <1>8, <1>9, <1>10, <1>11 DEF Leaves, Value, Fail

-----------------------------------------------------------------------------
(* The machine: variables, operands and branches.                          *)

Table == [active : BOOLEAN, at : Bits, count : Bits]
Stack == {e \in Seq(Bits) : Len(e) <= StackLimit}
Machine(size) ==
  [image : Image(size), eval : Stack, pc : Address, out : Seq(Byte), table : Table]

LEMMA OnMachine ==
  ASSUME NEW size \in Nat, NEW s \in Machine(size), NEW V, NEW r \in Yield(Image(size), V)
  PROVE  /\ On(s, r) \in Yield(Machine(size), V)
         /\ On(s, r).ok = r.ok /\ On(s, r).value = r.value
         /\ On(s, r).vm.image = r.vm /\ On(s, r).vm.eval = s.eval /\ On(s, r).vm.pc = s.pc
         /\ On(s, r).vm.out = s.out /\ On(s, r).vm.table = s.table
  BY DEF On, Yield, Machine

LEMMA Widened ==
  ASSUME NEW size \in Nat, NEW image \in Image(size), NEW V, NEW r \in Yield({image}, V)
  PROVE  r \in Yield(Image(size), V)
  BY DEF Yield

LEMMA StoryIs ==
  ASSUME story \in Stories
  PROVE  {story.dyn, story.globals, story.objects, story.abbreviations, story.dictionary} \subseteq Nat
  BY StoriesAssumption

LEMMA Shorter ==
  ASSUME NEW S, NEW q \in Seq(S), q # <<>>
  PROVE  /\ Front(q) \in Seq(S) /\ Len(Front(q)) = Len(q) - 1 /\ Last(q) \in S
         /\ \A k \in 1 .. Len(q) - 1 : Front(q)[k] = q[k]
<1>1. Len(q) # 0
  OBVIOUS
<1>2. Last(q) \in S
  BY <1>1 DEF Last
<1>3. ASSUME NEW n \in 0 .. Len(q)
      PROVE  /\ SubSeq(q, 1, n) \in Seq(S) /\ Len(SubSeq(q, 1, n)) = n
             /\ \A k \in 1 .. n : SubSeq(q, 1, n)[k] = q[k]
  OBVIOUS
<1>4. Front(q) = SubSeq(q, 1, Len(q) - 1) /\ Len(q) - 1 \in 0 .. Len(q)
  BY <1>1 DEF Front
<1> QED
  BY <1>2, <1>3, <1>4

LEMMA Pops ==
  ASSUME NEW e \in Stack, e # <<>>
  PROVE  Front(e) \in Stack /\ Last(e) \in Bits
<1>1. e \in Seq(Bits) /\ Len(e) \in Nat /\ Len(e) <= StackLimit
  BY DEF Stack
<1>2. Front(e) \in Seq(Bits) /\ Len(Front(e)) = Len(e) - 1 /\ Last(e) \in Bits
  BY <1>1, Shorter
<1> QED
  BY <1>1, <1>2, StackLimitAssumption DEF Stack

\* Machines that have one image.
Reading(size, image) == {s \in Machine(size) : s.image = image}

\* Reading a variable may take a word off the stack, but does not change memory.
LEMMA VariableIsRead ==
  ASSUME NEW size \in Nat, NEW image \in Image(size), NEW s \in Reading(size, image), NEW v
  PROVE  vm_read_variable(s, v) \in Yield(Reading(size, image), Bits)
<1> DEFINE M == Reading(size, image)
<1>1. s \in Machine(size) /\ s.eval \in Stack /\ s.image = image
  BY DEF Machine, Reading
<1>2. s.eval # <<>> => [s EXCEPT !.eval = Front(s.eval)] \in M /\ Last(s.eval) \in Bits
  <2> SUFFICES ASSUME s.eval # <<>>
               PROVE  [s EXCEPT !.eval = Front(s.eval)] \in M /\ Last(s.eval) \in Bits
    OBVIOUS
  <2>1. Front(s.eval) \in Stack /\ Last(s.eval) \in Bits
    BY <1>1, Pops
  <2> QED
    BY <1>1, <2>1 DEF Machine, Reading
<1>3. s.eval # <<>> =>
        Value([s EXCEPT !.eval = Front(s.eval)], Last(s.eval)) \in Yield(M, Bits)
  BY <1>2, Yields
<1>4. On(s, read16(s.image, GlobalAddress(v))) \in Yield(M, Bits)
  <2> DEFINE r == read16(s.image, GlobalAddress(v))
  <2>1. r \in Yield({image}, Bits)
    BY <1>1, ReadsWord
  <2> HIDE DEF r
  <2>2. r \in Yield(Image(size), Bits) /\ r.vm = image
    BY <2>1, Widened DEF Yield
  <2>3. On(s, r) \in Yield(Machine(size), Bits) /\ On(s, r).vm.image = image
    BY <1>1, <2>2, OnMachine
  <2>4. On(s, r).vm \in M
    BY <2>3 DEF Yield, Reading
  <2>5. On(s, r) \in Yield(M, Bits)
    BY <2>3, <2>4 DEF Yield
  <2> QED
    BY <2>5 DEF r
<1>5. Fail(s) \in Yield(M, Bits)
  BY Yields
<1> QED
  BY <1>3, <1>4, <1>5, Zenon DEF vm_read_variable

LEMMA TwoBytes == \A w \in Int : <<ByteOf(w, 1), ByteOf(w, 0)>> \in Seq(Byte)
  BY BytesOf

\* Whether a variable can be written is a matter of the stack and of addresses.
LEMMA VariableIsWritten ==
  ASSUME NEW size \in Nat, NEW s \in Machine(size), NEW v \in Int, NEW w \in Bits,
         story \in Stories
  PROVE  /\ vm_write_variable(s, v, w) \in Yield(Machine(size), {0})
         /\ ~ vm_write_variable(s, v, w).ok =>
              ~ vm_write_variable(vm_write_variable(s, v, w).vm, v, 0).ok
         /\ vm_write_variable(s, v, w).vm.pc = s.pc
<1>1. s.eval \in Stack /\ s.image \in Image(size) /\ w \in Int /\ 0 \in Int
  BY WordIs DEF Machine
<1>2. CASE v = 0
  <2>1. CASE Len(s.eval) >= StackLimit
    BY <1>2, <2>1, Yields DEF vm_write_variable, Fail
  <2>2. CASE ~ Len(s.eval) >= StackLimit
    <3>1. Append(s.eval, w) \in Stack
      BY <1>1, <2>2, StackLimitAssumption DEF Stack
    <3> DEFINE t == [s EXCEPT !.eval = Append(s.eval, w)]
    <3>2. t \in Machine(size) /\ t.pc = s.pc
      BY <3>1 DEF Machine
    <3>3. vm_write_variable(s, v, w) = Value(t, 0)
      BY <1>2, <2>2 DEF vm_write_variable, Done
    <3> HIDE DEF t
    <3>4. vm_write_variable(s, v, w) \in Yield(Machine(size), {0})
      BY <3>2, <3>3, Yields
    <3> QED
      BY <3>2, <3>3, <3>4 DEF Value
  <2> QED
    BY <2>1, <2>2
<1>3. CASE v \in 1 .. 15
  <2>1. v # 0
    BY <1>3
  <2> QED
    BY <1>3, <2>1, Yields DEF vm_write_variable, Fail
<1>4. CASE v # 0 /\ v \notin 1 .. 15
  <2> DEFINE a == GlobalAddress(v)
             two(x) == <<ByteOf(x, 1), ByteOf(x, 0)>>
             r(image, x) == WriteBytes(image, story.dyn, a, two(x))
  <2>1. \A t, x : vm_write_variable(t, v, x) = On(t, r(t.image, x))
    BY <1>4 DEF vm_write_variable
  <2>2. a \in Int
    BY StoryIs DEF GlobalAddress
  <2>3. ASSUME NEW x \in Int PROVE two(x) \in Seq(Byte) /\ Len(two(x)) = 2
    BY TwoBytes
  <2> HIDE DEF a, two
  <2>4. ASSUME NEW t \in Machine(size), NEW x \in Int
        PROVE  /\ r(t.image, x) \in Yield(Image(size), {0})
               /\ r(t.image, x).ok <=> \A k \in 0 .. 1 : ~ ((a + k) % AddrMod >= story.dyn)
    <3>1. t.image \in Image(size)
      BY DEF Machine
    <3>2. 2 - 1 = 1
      OBVIOUS
    <3>3. two(x) \in Seq(Byte) /\ Len(two(x)) - 1 = 1
      BY <2>3
    <3> QED
      BY <2>2, <3>1, <3>3, WritesBytes
  <2> HIDE DEF r
  <2>5. ASSUME NEW t \in Machine(size), NEW x \in Int
        PROVE  /\ vm_write_variable(t, v, x) \in Yield(Machine(size), {0})
               /\ vm_write_variable(t, v, x).ok <=> \A k \in 0 .. 1 : ~ ((a + k) % AddrMod >= story.dyn)
               /\ vm_write_variable(t, v, x).vm.pc = t.pc
    <3> DEFINE q == r(t.image, x)
    <3>1. /\ q \in Yield(Image(size), {0}) /\ vm_write_variable(t, v, x) = On(t, q)
          /\ q.ok <=> \A k \in 0 .. 1 : ~ ((a + k) % AddrMod >= story.dyn)
      BY <2>1, <2>4
    <3> HIDE DEF q
    <3>2. On(t, q) \in Yield(Machine(size), {0}) /\ On(t, q).ok = q.ok /\ On(t, q).vm.pc = t.pc
      BY <3>1, OnMachine
    <3> QED
      BY <3>1, <3>2
  <2>6. vm_write_variable(s, v, w).vm \in Machine(size)
    BY <1>1, <2>5, Yielded
  <2> QED
    BY <1>1, <2>5, <2>6
<1> QED
  BY <1>2, <1>3, <1>4

LEMMA OperandsAreResolved ==
  ASSUME NEW size \in Nat, NEW image \in Image(size), NEW s \in Reading(size, image),
         NEW i \in Instr
  PROVE  resolve_operands(s, i) \in Yield(Reading(size, image), Words(Len(i.types)))
<1> DEFINE M == Reading(size, image)
           start == Value(s, <<>>)
           n == Len(i.types)
           h(q, k) == vm_read_variable(q.vm, i.operands[k])
           more(q, x) == Value(x.vm, Append(q.value, x.value))
           both(q, k) == AndThen(h(q, k), LAMBDA x : more(q, x))
           op(q, k) == IF i.types[k] = "variable" THEN both(q, k)
                       ELSE Value(q.vm, Append(q.value, i.operands[k]))
           E(g) == g = [k \in 0 .. n |-> IF k = 0 THEN start
                                         ELSE AndThen(g[k - 1], LAMBDA q : op(q, k))]
           Y == [k \in 0 .. n |-> Yield(M, Words(k))]
           To == CHOOSE g : E(g)
           step == [k \in 1 .. n |-> [q \in Y[k - 1] |-> IF q.ok THEN op(q, k) ELSE q]]
<1>1. resolve_operands(s, i) = To[n]
  BY DEF resolve_operands, AllOf
<1> HIDE DEF M, start, h, more, both, op, To, step
<1>2. /\ n \in Nat /\ i.operands \in Seq(Bits) /\ Len(i.operands) = n
      /\ \A k \in 1 .. n : i.operands[k] \in Bits
  BY DEF Instr
<1>3. start \in Y[0]
  <2>1. <<>> \in Words(0)
    BY DEF Words
  <2>2. 0 \in 0 .. n
    BY <1>2
  <2> QED
    BY <2>1, <2>2, Yields DEF start, M
<1>4. ASSUME NEW k \in 1 .. n, NEW q \in Y[k - 1], q.ok PROVE op(q, k) \in Y[k]
  <2>1. k \in Nat /\ k > 0 /\ k \in 0 .. n /\ k - 1 \in 0 .. n /\ q \in Yield(M, Words(k - 1))
    BY <1>2
  <2>2. q.vm \in M /\ q.value \in Words(k - 1)
    BY <1>4, <2>1, Yielded
  <2>3. h(q, k) \in Yield(M, Bits)
    BY <2>2, VariableIsRead DEF h, M
  <2>4. h(q, k).ok => more(q, h(q, k)) \in Yield(M, Words(k))
    BY <2>1, <2>2, <2>3, Yielded, Yields, Longer DEF more
  <2>5. both(q, k) = IF h(q, k).ok THEN more(q, h(q, k)) ELSE h(q, k)
    BY DEF both, AndThen, Then
  <2>6. both(q, k) \in Yield(M, Words(k))
    BY <2>3, <2>4, <2>5, Follows
  <2>7. Value(q.vm, Append(q.value, i.operands[k])) \in Yield(M, Words(k))
    BY <1>2, <2>1, <2>2, Yields, Longer
  <2> QED
    BY <2>1, <2>6, <2>7 DEF op
<1>5. \A g, k : AndThen(g[k - 1], LAMBDA q : op(q, k))
                  = IF g[k - 1].ok THEN op(g[k - 1], k) ELSE g[k - 1]
  BY DEF AndThen, Then
<1>6. ASSUME NEW k \in 1 .. n, NEW q \in Y[k - 1]
      PROVE  (IF q.ok THEN op(q, k) ELSE q) \in Y[k]
  <2>1. k \in 0 .. n /\ k - 1 \in 0 .. n
    BY <1>2
  <2>2. ~ q.ok => q \in Y[k]
    BY <2>1 DEF Yield
  <2> QED
    BY <2>2, <1>4
<1>7. \E g : E(g)
  <2>1. \A k \in 1 .. n : \A q \in Y[k - 1] : step[k][q] = IF q.ok THEN op(q, k) ELSE q
    BY DEF step
  <2>2. Passing(n, Y, step)
    BY <1>6, <2>1, SMTT(30) DEF Passing
  <2> HIDE DEF Y
  <2>3. PICK f : IsLoop(f, n, start, step) /\ \A k \in 0 .. n : f[k] \in Y[k]
    BY <1>2, <1>3, <2>2, Recursion
  <2>4. \A k \in 0 .. n : k # 0 => k \in 1 .. n /\ f[k - 1] \in Y[k - 1]
    BY <1>2, <2>3
  <2>5. \A k \in 0 .. n : (IF k = 0 THEN start ELSE step[k][f[k - 1]])
                          = IF k = 0 THEN start
                            ELSE IF f[k - 1].ok THEN op(f[k - 1], k) ELSE f[k - 1]
    BY <2>1, <2>4
  <2>6. f = [k \in 0 .. n |-> IF k = 0 THEN start
                              ELSE IF f[k - 1].ok THEN op(f[k - 1], k) ELSE f[k - 1]]
    BY <2>3, <2>5 DEF IsLoop
  <2>7. E(f)
    BY <2>6, <1>5
  <2> QED
    BY <2>7
<1>8. E(To)
  BY <1>7 DEF To
<1>9. \A k \in 0 .. n : To[k] = IF k = 0 THEN start
                                ELSE IF To[k - 1].ok THEN op(To[k - 1], k) ELSE To[k - 1]
  BY <1>8, <1>5
<1>10. \A k \in 1 .. n : To[k - 1] \in Y[k - 1] => To[k] \in Y[k]
  BY <1>2, <1>6, <1>9
<1>11. To[0] \in Y[0]
  BY <1>2, <1>3, <1>9
<1> HIDE DEF Y
<1>12. \A k \in 0 .. n : To[k] \in Y[k]
  BY <1>2, <1>10, <1>11, Kept
<1>13. To[n] \in Y[n] /\ Y[n] = Yield(M, Words(n))
  <2>1. n \in 0 .. n
    BY <1>2
  <2>2. To[n] \in Y[n]
    BY <2>1, <1>12
  <2>3. Y[n] = Yield(M, Words(n))
    BY <2>1 DEF Y
  <2> QED
    BY <2>2, <2>3
<1> QED
  BY <1>1, <1>13 DEF M

LEMMA BranchIsTaken ==
  ASSUME NEW size \in Nat, NEW s \in Machine(size), NEW i \in Instr, NEW condition
  PROVE  do_branch(s, i, condition) \in Yield(Machine(size), {0})
<1> DEFINE t == [s EXCEPT !.pc = (s.pc + i.branch.offset - 2) % AddrMod]
<1>1. s.pc + i.branch.offset - 2 \in Int
  <2>1. s.pc \in Address /\ i.branch.offset \in Int
    BY DEF Machine, Instr, BranchData
  <2>2. s.pc \in Int
    BY <2>1 DEF Address
  <2> QED
    BY <2>1, <2>2
<1>2. (s.pc + i.branch.offset - 2) % AddrMod \in Address
  BY <1>1, Wraps
<1>3. t \in Machine(size)
  BY <1>2 DEF Machine
<1> HIDE DEF t
<1>4. do_branch(s, i, condition) \in {Value(s, 0), Fail(s), Value(t, 0)}
  BY DEF do_branch, Done, t
<1> QED
  BY <1>3, <1>4, Yields

Fetched == {f \in [i : Instr, x : Seq(Bits)] : Len(f.x) = Len(f.i.types)}

LEMMA FetchIs ==
  ASSUME NEW size \in Nat, vm \in Machine(size), NEW a \in Nat
  PROVE  /\ Fetch(a) \in Yield(Reading(size, vm.image), Fetched)
         /\ Fetch(a).ok => Fetch(a).vm.pc = (a + Fetch(a).value.i.length) % AddrMod
<1> DEFINE M == Reading(size, vm.image)
           d == decode_instruction(vm.image, a)
           s == [vm EXCEPT !.out = <<>>]
           r == resolve_operands(s, d.value)
           next(q) == [q.vm EXCEPT !.pc = (a + d.value.length) % AddrMod]
           op(q) == Value(next(q), [i |-> d.value, x |-> q.value])
           both == AndThen(r, LAMBDA q : op(q))
<1>1. Fetch(a) = IF ~ d.ok THEN [d EXCEPT !.vm = vm] ELSE both
  BY DEF Fetch
<1> HIDE DEF M, d, s, r, next, op, both
<1>2. vm.image \in Image(size) /\ vm \in M /\ s \in M
  <2>1. <<>> \in Seq(Byte)
    OBVIOUS
  <2>2. vm.image \in Image(size) /\ s \in Machine(size) /\ s.image = vm.image
    BY <2>1 DEF s, Machine
  <2> QED
    BY <2>2 DEF M, Reading
<1>3. d \in Yield(Nat, Instr)
  BY <1>2, InstructionIs DEF d
<1>4. ASSUME d.ok
      PROVE  /\ both \in Yield(M, Fetched)
             /\ both.ok => both.vm.pc = (a + both.value.i.length) % AddrMod
  <2>1. d.value \in Instr
    BY <1>3, <1>4, Yielded
  <2>2. r \in Yield(M, Words(Len(d.value.types)))
    BY <1>2, <2>1, OperandsAreResolved DEF r, M
  <2>3. both = IF r.ok THEN op(r) ELSE r
    BY DEF both, AndThen, Then
  <2>4. ASSUME r.ok
        PROVE  /\ op(r) \in Yield(M, Fetched)
               /\ op(r).vm.pc = (a + op(r).value.i.length) % AddrMod
    <3>1. r.vm \in M /\ r.value \in Words(Len(d.value.types))
      BY <2>2, <2>4, Yielded
    <3>2. d.value.length \in Nat
      BY <2>1 DEF Instr, Address
    <3>3. a + d.value.length \in Int
      BY <3>2
    <3>4. (a + d.value.length) % AddrMod \in Address
      BY <3>3, Wraps
    <3>5. next(r) \in M /\ next(r).pc = (a + d.value.length) % AddrMod
      BY <3>1, <3>4 DEF next, M, Reading, Machine
    <3> DEFINE f == [i |-> d.value, x |-> r.value]
    <3>6. f \in Fetched /\ f.i = d.value
      BY <2>1, <3>1 DEF Fetched, Words
    <3> HIDE DEF f
    <3>7. op(r) = Value(next(r), f)
      BY DEF op, f
    <3>8. op(r) \in Yield(M, Fetched)
      BY <3>5, <3>6, <3>7, Yields
    <3>9. op(r).vm = next(r) /\ op(r).value = f
      BY <3>7, Parts
    <3> QED
      BY <3>5, <3>6, <3>8, <3>9
  <2> QED
    BY <2>2, <2>3, <2>4, Follows
<1>5. ~ d.ok => [d EXCEPT !.vm = vm] \in Yield(M, Fetched) /\ ~ [d EXCEPT !.vm = vm].ok
  BY <1>2, <1>3 DEF Yield
<1> QED
  BY <1>1, <1>4, <1>5 DEF M

-----------------------------------------------------------------------------
(* Objects and properties.                                                 *)

LEMMA EntryIsRead ==
  ASSUME NEW size \in Nat, NEW image \in Image(size), NEW table, NEW o, NEW offset
  PROVE  EntryByte(image, table, o, offset) \in Yield({image}, Byte)
  BY ReadsByte, Yields DEF EntryByte

LEMMA AttributeBits ==
  ASSUME NEW b \in Byte, NEW attribute \in Nat
  PROVE  LET n == AttributeBit(attribute)
         IN \A bit \in {0, 1} : b + (bit - Bit(b, n)) * 2 ^ n \in Byte
<1>1. AttributeBit(attribute) \in Int /\ 0 <= AttributeBit(attribute) /\ AttributeBit(attribute) <= 7
  BY DEF AttributeBit
<1>2. /\ 2 ^ 0 = 1 /\ 2 ^ 1 = 2 /\ 2 ^ 2 = 4 /\ 2 ^ 3 = 8
      /\ 2 ^ 4 = 16 /\ 2 ^ 5 = 32 /\ 2 ^ 6 = 64 /\ 2 ^ 7 = 128
  OBVIOUS
<1>3. b \in Int /\ 0 <= b /\ b <= 255
  BY ByteIs
<1>4. ASSUME NEW n \in Int, 0 <= n, n <= 7, NEW bit \in {0, 1}
      PROVE  b + (bit - Bit(b, n)) * 2 ^ n \in Byte
  <2> DEFINE w == b + (bit - Bit(b, n)) * 2 ^ n
  <2>1. w \in Int /\ 0 <= w /\ w <= 255
    <3>1. CASE n = 0
      BY <3>1, <1>2, <1>3 DEF Bit
    <3>2. CASE n = 1
      BY <3>2, <1>2, <1>3 DEF Bit
    <3>3. CASE n = 2
      BY <3>3, <1>2, <1>3 DEF Bit
    <3>4. CASE n = 3
      BY <3>4, <1>2, <1>3 DEF Bit
    <3>5. CASE n = 4
      BY <3>5, <1>2, <1>3 DEF Bit
    <3>6. CASE n = 5
      BY <3>6, <1>2, <1>3 DEF Bit
    <3>7. CASE n = 6
      BY <3>7, <1>2, <1>3 DEF Bit
    <3>8. CASE n = 7
      BY <3>8, <1>2, <1>3 DEF Bit
    <3> QED
      BY <1>4, <3>1, <3>2, <3>3, <3>4, <3>5, <3>6, <3>7, <3>8
  <2> HIDE DEF w
  <2>2. w \in Byte
    BY <2>1, ByteIs
  <2> QED
    BY <2>2 DEF w
<1> QED
  BY <1>1, <1>4

LEMMA AttributeIsRead ==
  ASSUME NEW size \in Nat, NEW image \in Image(size), NEW table, NEW o, NEW attribute
  PROVE  /\ AttributeByte(image, table, o, attribute) \in Yield({image}, Byte)
         /\ obj_test_attr(image, table, o, attribute) \in Yield({image}, BOOLEAN)
<1> DEFINE h == AttributeByte(image, table, o, attribute)
           op(b) == Value(image, Bit(b.value, AttributeBit(attribute)) = 1)
<1>1. h \in Yield({image}, Byte)
  BY EntryIsRead, Yields DEF AttributeByte
<1> HIDE DEF h
<1>2. op(h) \in Yield({image}, BOOLEAN)
  BY Yields
<1> HIDE DEF op
<1>3. obj_test_attr(image, table, o, attribute) = AndThen(h, LAMBDA b : op(b))
  BY DEF obj_test_attr, h, op
<1>4. AndThen(h, LAMBDA b : op(b)) = IF h.ok THEN op(h) ELSE h
  BY DEF AndThen, Then
<1>5. (IF h.ok THEN op(h) ELSE h) \in Yield({image}, BOOLEAN)
  BY <1>1, <1>2, Follows
<1> QED
  BY <1>1, <1>3, <1>4, <1>5 DEF h

LEMMA AttributeIsWritten ==
  ASSUME NEW size \in Nat, NEW image \in Image(size), NEW dyn, NEW table, NEW o,
         NEW attribute \in Nat, NEW bit \in {0, 1}
  PROVE  obj_write_attr(image, dyn, table, o, attribute, bit) \in Yield(Image(size), {0})
<1> DEFINE h == AttributeByte(image, table, o, attribute)
           n == AttributeBit(attribute)
           op(b) == write8(image, dyn, obj_entry_addr(table, o) + attribute \div 8,
                           b.value + (bit - Bit(b.value, n)) * 2 ^ n)
<1> HIDE DEF h, n, op
<1>1. h \in Yield({image}, Byte)
  BY AttributeIsRead DEF h
<1>2. h \in Yield(Image(size), Byte)
  BY <1>1, Widened
<1>3. ASSUME h.ok PROVE op(h) \in Yield(Image(size), {0})
  <2>1. h.value \in Byte
    BY <1>1, <1>3, Yielded
  <2>2. h.value + (bit - Bit(h.value, n)) * 2 ^ n \in Byte
    BY <2>1, AttributeBits DEF n
  <2> QED
    BY <2>2, WritesByte DEF op
<1>4. obj_write_attr(image, dyn, table, o, attribute, bit) = AndThen(h, LAMBDA b : op(b))
  BY DEF obj_write_attr, h, op, n
<1>5. AndThen(h, LAMBDA b : op(b)) = IF h.ok THEN op(h) ELSE h
  BY DEF AndThen, Then
<1> QED
  BY <1>2, <1>3, <1>4, <1>5, Follows

\* Where a name starts and its length, which is even.
Name == {n \in [at : Address, length : Nat] : n.length % 2 = 0}

LEMMA NameIs ==
  ASSUME NEW size \in Nat, NEW image \in Image(size), NEW table, NEW o
  PROVE  obj_short_name(image, table, o) \in Yield({image}, Name)
<1> DEFINE h1 == read16(image, obj_entry_addr(table, o) + 7)
           h2(at) == read8(image, at.value)
           op2(at, words) == Value(image, [at |-> (at.value + 1) % AddrMod, length |-> 2 * words.value])
           op1(at) == AndThen(h2(at), LAMBDA words : op2(at, words))
           both == AndThen(h1, LAMBDA at : op1(at))
<1>1. obj_short_name(image, table, o) = IF o = 0 THEN Fail(image) ELSE both
  BY DEF obj_short_name
<1> HIDE DEF h1, h2, op1, op2, both
<1>2. h1 \in Yield({image}, Bits)
  BY ReadsWord DEF h1
<1>3. ASSUME NEW at \in Yield({image}, Bits), at.ok PROVE op1(at) \in Yield({image}, Name)
  <2>1. h2(at) \in Yield({image}, Byte)
    BY ReadsByte DEF h2
  <2>2. ASSUME h2(at).ok PROVE op2(at, h2(at)) \in Yield({image}, Name)
    <3>1. at.value \in Int /\ h2(at).value \in Int /\ h2(at).value >= 0
      BY <1>3, <2>1, <2>2, Yielded, WordIs, ByteIs
    <3>2. at.value + 1 \in Int /\ 2 * h2(at).value \in Nat /\ (2 * h2(at).value) % 2 = 0
      BY <3>1
    <3>3. (at.value + 1) % AddrMod \in Address
      BY <3>2, Wraps
    <3>4. [at |-> (at.value + 1) % AddrMod, length |-> 2 * h2(at).value] \in Name
      BY <3>2, <3>3 DEF Name
    <3> QED
      BY <3>4, Yields DEF op2
  <2>3. op1(at) = IF h2(at).ok THEN op2(at, h2(at)) ELSE h2(at)
    BY DEF op1, AndThen, Then
  <2> QED
    BY <2>1, <2>2, <2>3, Follows
<1>4. both = IF h1.ok THEN op1(h1) ELSE h1
  BY DEF both, AndThen, Then
<1>5. both \in Yield({image}, Name)
  BY <1>2, <1>3, <1>4, Follows
<1> QED
  BY <1>1, <1>5, Yields

LEMMA SizesOf == \A b \in Byte : LengthOf(b) \in Nat /\ LengthOf(b) \in Byte /\ NumberOf(b) \in Byte
<1> SUFFICES ASSUME NEW b \in Byte
             PROVE  LengthOf(b) \in Nat /\ LengthOf(b) \in Byte /\ NumberOf(b) \in Byte
  OBVIOUS
<1>1. b \in Int /\ 0 <= b /\ b <= 255
  BY ByteIs
<1>2. /\ b \div 32 \in Int /\ 0 <= b \div 32 /\ b \div 32 <= 7
      /\ b % 32 \in Int /\ 0 <= b % 32 /\ b % 32 <= 31
  BY <1>1
<1> QED
  BY <1>2, ByteIs DEF LengthOf, NumberOf

Within(image) == {a \in Address : a \in DOMAIN image}

\* The way from entry to entry is known as far as the search goes.
LEMMA EntryIsFound ==
  ASSUME NEW size \in Nat, NEW image \in Image(size), NEW from \in Address, NEW property
  PROVE  FindEntry(image, from, property) \in Yield({image}, Within(image))
<1> DEFINE next(v) == NextEntry(image, v)
           Is(f, m) == f = [k \in 0 .. m |-> IF k = 0 THEN from ELSE next(f[k - 1])]
           At == CHOOSE f : Is(f, AddrMod)
           found(v) == NumberOf(v) \in {0, property}
           back(m) == \E l \in 0 .. m - 1 : At[l] = At[m]
           Leaves(m) == LET v == read8(image, At[m]) IN back(m) \/ ~ v.ok \/ found(v.value)
           n == Passes(AddrMod, LAMBDA m : Leaves(m))
           S == {m \in 0 .. AddrMod : Leaves(m)}
           First(k) == (k = AddrMod \/ Leaves(k)) /\ \A m \in 0 .. k - 1 : ~ Leaves(m)
           Y == [k \in 0 .. n |-> Address]
<1>1. FindEntry(image, from, property) =
        IF n = AddrMod \/ back(n) THEN Endless(image)
        ELSE IF ~ read8(image, At[n]).ok THEN Fail(image) ELSE Value(image, At[n])
  BY DEF FindEntry
<1>2. n = CHOOSE k \in 0 .. AddrMod : First(k)
  BY DEF Passes
<1> HIDE DEF next, At, found, back, Leaves, n
<1>3. AddrMod \in Nat
  BY Addresses
<1>4. \E f : Is(f, AddrMod)
  <2> DEFINE T == {m \in Nat : \E f : Is(f, m)}
  <2>1. 0 \in T
    <3> DEFINE f == [k \in 0 .. 0 |-> from]
    <3>1. Is(f, 0)
      OBVIOUS
    <3> QED
      BY <3>1
  <2>2. ASSUME NEW m \in Nat, m \in T PROVE m + 1 \in T
    <3>1. PICK f : Is(f, m)
      BY <2>2
    <3> DEFINE g == [k \in 0 .. m + 1 |-> IF k = m + 1 THEN next(f[m]) ELSE f[k]]
    <3>2. \A k \in 0 .. m : g[k] = f[k]
      OBVIOUS
    <3>3. g[m + 1] = next(f[m])
      OBVIOUS
    <3>4. g = [k \in 0 .. m + 1 |-> g[k]]
      OBVIOUS
    <3> HIDE DEF g
    <3>5. ASSUME NEW k \in 0 .. m + 1 PROVE g[k] = IF k = 0 THEN from ELSE next(g[k - 1])
      <4>1. CASE k = m + 1
        <5>1. k # 0 /\ k - 1 = m /\ m \in 0 .. m
          BY <4>1
        <5> QED
          BY <4>1, <5>1, <3>2, <3>3
      <4>2. CASE k # m + 1
        <5>1. k \in 0 .. m /\ (k # 0 => k - 1 \in 0 .. m)
          BY <4>2
        <5>2. f[k] = IF k = 0 THEN from ELSE next(f[k - 1])
          BY <3>1, <5>1
        <5> QED
          BY <3>2, <5>1, <5>2
      <4> QED
        BY <4>1, <4>2
    <3>6. Is(g, m + 1)
      BY <3>4, <3>5
    <3> QED
      BY <3>6
  <2> HIDE DEF T
  <2>3. AddrMod \in T
    BY <1>3, <2>1, <2>2, Inductive
  <2> QED
    BY <2>3 DEF T
<1>5. Is(At, AddrMod)
  BY <1>4 DEF At
<1>6. \E k \in 0 .. AddrMod : First(k)
  <2>1. PICK k : IsFirst(k, AddrMod, S)
    <3> HIDE DEF S
    <3> QED
      BY <1>3, FirstExists
  <2>2. k \in 0 .. AddrMod /\ First(k)
    BY <1>3, <2>1 DEF IsFirst
  <2> QED
    BY <2>2
<1>7. n \in 0 .. AddrMod /\ First(n)
  BY <1>2, <1>6
<1>8. At[0] \in Address
  BY <1>3, <1>5
<1>9. ASSUME NEW k \in 1 .. n, At[k - 1] \in Address PROVE At[k] \in Address
  <2>1. k - 1 \in 0 .. n - 1 /\ k \in 0 .. AddrMod /\ k # 0
    BY <1>3, <1>7
  <2>2. read8(image, At[k - 1]).ok
    BY <1>7, <2>1 DEF Leaves
  <2>3. At[k - 1] % AddrMod = At[k - 1]
    BY <1>9, Addresses
  <2>4. image[At[k - 1]] \in Byte
    BY <2>2, <2>3, ReadsByte DEF Image
  <2>5. At[k] = next(At[k - 1])
    BY <1>5, <2>1
  <2>6. LengthOf(image[At[k - 1]]) \in Int
    BY <2>4, SizesOf
  <2>7. At[k - 1] + 1 + LengthOf(image[At[k - 1]]) \in Int
    BY <1>9, <2>6 DEF Address
  <2> QED
    BY <2>5, <2>7, Wraps DEF next, NextEntry
<1>10. \A k \in 0 .. n : At[k] \in Y[k]
  <2>1. n \in Nat
    BY <1>3, <1>7
  <2>2. At[0] \in Y[0] /\ \A k \in 1 .. n : At[k - 1] \in Y[k - 1] => At[k] \in Y[k]
    BY <1>8, <1>9, <2>1
  <2> HIDE DEF Y
  <2> QED
    BY <2>1, <2>2, Kept
<1>11. At[n] \in Address
  BY <1>3, <1>7, <1>10
<1>12. read8(image, At[n]).ok => At[n] \in Within(image)
  <2>1. At[n] % AddrMod = At[n]
    BY <1>11, Addresses
  <2>2. read8(image, At[n]).ok => At[n] \in 0 .. size - 1
    BY <2>1, ReadsByte
  <2> QED
    BY <1>11, <2>2 DEF Within, Image
<1> QED
  BY <1>1, <1>12, Yields

LEMMA ListStarts ==
  ASSUME NEW size \in Nat, NEW image \in Image(size), NEW table, NEW o
  PROVE  prop_list_start(image, table, o) \in Yield({image}, Address)
<1> DEFINE h == obj_short_name(image, table, o)
           op(n) == Value(image, (n.value.at + n.value.length) % AddrMod)
<1> HIDE DEF h, op
<1>1. h \in Yield({image}, Name)
  BY NameIs DEF h
<1>2. ASSUME h.ok PROVE op(h) \in Yield({image}, Address)
  <2>1. h.value \in Name
    BY <1>1, <1>2, Yielded
  <2>2. h.value.at + h.value.length \in Int
    BY <2>1 DEF Name, Address
  <2>3. (h.value.at + h.value.length) % AddrMod \in Address
    BY <2>2, Wraps
  <2> QED
    BY <2>3, Yields DEF op
<1>3. prop_list_start(image, table, o) = AndThen(h, LAMBDA n : op(n))
  BY DEF prop_list_start, h, op
<1>4. AndThen(h, LAMBDA n : op(n)) = IF h.ok THEN op(h) ELSE h
  BY DEF AndThen, Then
<1> QED
  BY <1>1, <1>2, <1>3, <1>4, Follows

LEMMA PropertyAddress ==
  ASSUME NEW size \in Nat, NEW image \in Image(size), NEW table, NEW o, NEW property
  PROVE  prop_get_addr(image, table, o, property) \in Yield({image}, Address)
<1> DEFINE h1 == prop_list_start(image, table, o)
           h2(start) == FindEntry(image, start.value, property)
           op2(e) == Value(image, IF Number(image, e.value) = 0 THEN 0 ELSE (e.value + 1) % AddrMod)
           op1(start) == AndThen(h2(start), LAMBDA e : op2(e))
           both == AndThen(h1, LAMBDA start : op1(start))
<1>1. prop_get_addr(image, table, o, property) =
        IF property \notin 1 .. 31 THEN Fail(image) ELSE both
  BY DEF prop_get_addr
<1> HIDE DEF h1, h2, op1, op2, both
<1>2. h1 \in Yield({image}, Address)
  BY ListStarts DEF h1
<1>3. ASSUME NEW start \in Yield({image}, Address), start.ok
      PROVE  op1(start) \in Yield({image}, Address)
  <2>1. h2(start) \in Yield({image}, Within(image))
    <3>1. start.value \in Address
      BY <1>3, Yielded
    <3> QED
      BY <3>1, EntryIsFound DEF h2
  <2>2. ASSUME h2(start).ok PROVE op2(h2(start)) \in Yield({image}, Address)
    <3>1. h2(start).value \in Address
      BY <2>1, <2>2, Yielded DEF Within
    <3>2. h2(start).value + 1 \in Int
      BY <3>1 DEF Address
    <3>3. (h2(start).value + 1) % AddrMod \in Address /\ 0 \in Address
      <4>1. 0 \in Int /\ 0 % AddrMod = 0
        BY Addresses
      <4> QED
        BY <3>2, <4>1, Wraps
    <3> QED
      BY <3>3, Yields DEF op2
  <2>3. op1(start) = IF h2(start).ok THEN op2(h2(start)) ELSE h2(start)
    BY DEF op1, AndThen, Then
  <2> QED
    BY <2>1, <2>2, <2>3, Follows
<1>4. both = IF h1.ok THEN op1(h1) ELSE h1
  BY DEF both, AndThen, Then
<1>5. both \in Yield({image}, Address)
  BY <1>2, <1>3, <1>4, Follows
<1> QED
  BY <1>1, <1>5, Yields

LEMMA PropertyLength ==
  ASSUME NEW size \in Nat, NEW image \in Image(size), NEW a
  PROVE  prop_get_len(image, a) \in Yield({image}, Byte)
<1> DEFINE h == read8(image, a - 1)
           op(q) == Value(image, LengthOf(q.value))
           both == AndThen(h, LAMBDA q : op(q))
<1>1. prop_get_len(image, a) = IF a = 0 THEN Value(image, 0) ELSE both
  BY DEF prop_get_len
<1> HIDE DEF h, op, both
<1>2. h \in Yield({image}, Byte)
  BY ReadsByte DEF h
<1>3. h.ok => op(h) \in Yield({image}, Byte)
  BY <1>2, Yielded, SizesOf, Yields DEF op
<1>4. both = IF h.ok THEN op(h) ELSE h
  BY DEF both, AndThen, Then
<1>5. both \in Yield({image}, Byte)
  BY <1>2, <1>3, <1>4, Follows
<1>6. Value(image, 0) \in Yield({image}, Byte)
  <2>1. 0 \in Byte
    BY ByteIs
  <2> QED
    BY <2>1, Yields, Zenon
<1> QED
  BY <1>1, <1>5, <1>6

LEMMA PropertyIsRead ==
  ASSUME NEW size \in Nat, NEW image \in Image(size), NEW table, NEW o, NEW property
  PROVE  prop_get(image, table, o, property) \in Yield({image}, Bits)
<1> DEFINE h1 == prop_get_addr(image, table, o, property)
           h2(a) == prop_get_len(image, a.value)
           op2(a, n) == IF n.value = 1 THEN read8(image, a.value) ELSE read16(image, a.value)
           op1(a) == IF a.value = 0 THEN read16(image, table + (property - 1) * 2)
                     ELSE AndThen(h2(a), LAMBDA n : op2(a, n))
<1>1. prop_get(image, table, o, property) = AndThen(h1, LAMBDA a : op1(a))
  BY DEF prop_get
<1> HIDE DEF h1, h2, op1, op2
<1>2. h1 \in Yield({image}, Address)
  BY PropertyAddress DEF h1
<1>3. ASSUME NEW a PROVE op1(a) \in Yield({image}, Bits)
  <2>1. h2(a) \in Yield({image}, Byte)
    BY PropertyLength DEF h2
  <2>2. op2(a, h2(a)) \in Yield({image}, Bits)
    <3>1. read8(image, a.value) \in Yield({image}, Byte)
      BY ReadsByte
    <3>2. read8(image, a.value) \in Yield({image}, Bits)
      BY <3>1, ByteIsWord, YieldWider
    <3> QED
      BY <3>2, ReadsWord DEF op2
  <2>3. AndThen(h2(a), LAMBDA n : op2(a, n)) = IF h2(a).ok THEN op2(a, h2(a)) ELSE h2(a)
    BY DEF AndThen, Then
  <2>4. AndThen(h2(a), LAMBDA n : op2(a, n)) \in Yield({image}, Bits)
    BY <2>1, <2>2, <2>3, Follows
  <2> QED
    BY <2>4, ReadsWord DEF op1
<1>4. AndThen(h1, LAMBDA a : op1(a)) = IF h1.ok THEN op1(h1) ELSE h1
  BY DEF AndThen, Then
<1> QED
  BY <1>1, <1>2, <1>3, <1>4, Follows

LEMMA NextPropertyIsRead ==
  ASSUME NEW size \in Nat, NEW image \in Image(size), NEW table, NEW o, NEW property
  PROVE  prop_get_next(image, table, o, property) \in Yield({image}, Byte)
<1> DEFINE h1 == prop_list_start(image, table, o)
           h2(start) == FindEntry(image, start.value, property)
           first(start) == read8(image, start.value)
           behind(e) == read8(image, NextEntry(image, e.value))
           number(q) == Value(image, NumberOf(q.value))
           op2(e) == IF Number(image, e.value) = 0 THEN Fail(image)
                     ELSE AndThen(behind(e), LAMBDA q : number(q))
           op1(start) == IF property = 0 THEN AndThen(first(start), LAMBDA q : number(q))
                         ELSE AndThen(h2(start), LAMBDA e : op2(e))
           both == AndThen(h1, LAMBDA start : op1(start))
           Out == Yield({image}, Byte)
<1>1. prop_get_next(image, table, o, property) = IF property > 31 THEN Fail(image) ELSE both
  BY DEF prop_get_next
<1> HIDE DEF h1, h2, first, behind, number, op1, op2, both, Out
<1>2. h1 \in Yield({image}, Address)
  BY ListStarts DEF h1
<1>3. ASSUME NEW q \in Out PROVE AndThen(q, LAMBDA r : number(r)) \in Out
  <2>1. q.ok => number(q) \in Out
    BY Yielded, SizesOf, Yields DEF number, Out
  <2>2. AndThen(q, LAMBDA r : number(r)) = IF q.ok THEN number(q) ELSE q
    BY DEF AndThen, Then
  <2> QED
    BY <2>1, <2>2, Follows DEF Out
<1>4. ASSUME NEW e PROVE op2(e) \in Out
  <2>1. behind(e) \in Out
    BY ReadsByte DEF behind, Out
  <2> QED
    BY <1>3, <2>1, Yields DEF op2, Out
<1>5. ASSUME NEW start \in Yield({image}, Address), start.ok PROVE op1(start) \in Out
  <2>1. first(start) \in Out
    BY ReadsByte DEF first, Out
  <2>2. start.value \in Address
    BY <1>5, Yielded
  <2>3. h2(start) \in Yield({image}, Within(image))
    BY <2>2, EntryIsFound DEF h2
  <2>4. AndThen(h2(start), LAMBDA e : op2(e)) = IF h2(start).ok THEN op2(h2(start)) ELSE h2(start)
    BY DEF AndThen, Then
  <2>5. AndThen(h2(start), LAMBDA e : op2(e)) \in Out
    BY <1>4, <2>3, <2>4, Follows DEF Out
  <2> QED
    BY <1>3, <2>1, <2>5 DEF op1
<1>6. both = IF h1.ok THEN op1(h1) ELSE h1
  BY DEF both, AndThen, Then
<1>7. both \in Out
  BY <1>2, <1>5, <1>6, Follows DEF Out
<1> QED
  BY <1>1, <1>7, Yields DEF Out

LEMMA PropertyIsPut ==
  ASSUME NEW size \in Nat, NEW image \in Image(size), NEW dyn, NEW table, NEW o, NEW property,
         NEW value \in Int
  PROVE  prop_put(image, dyn, table, o, property, value) \in Yield(Image(size), {0})
<1> DEFINE h1 == prop_get_addr(image, table, o, property)
           h2(a) == prop_get_len(image, a.value)
           op2(a, n) == CASE n.value = 1 -> write8(image, dyn, a.value, ByteOf(value, 0))
                          [] n.value = 2 -> WriteBytes(image, dyn, a.value,
                                                       <<ByteOf(value, 1), ByteOf(value, 0)>>)
                          [] OTHER -> Fail(image)
           op1(a) == IF a.value = 0 THEN Fail(image) ELSE AndThen(h2(a), LAMBDA n : op2(a, n))
           Out == Yield(Image(size), {0})
<1>1. prop_put(image, dyn, table, o, property, value) = AndThen(h1, LAMBDA a : op1(a))
  BY DEF prop_put
<1> HIDE DEF h1, h2, op1, op2, Out
<1>2. h1 \in Yield({image}, Address)
  BY PropertyAddress DEF h1
<1>3. h1 \in Yield(Image(size), Address)
  BY <1>2, Widened
<1>4. ASSUME h1.ok PROVE op1(h1) \in Out
  <2>1. h1.value \in Int
    <3>1. h1.value \in Address
      BY <1>2, <1>4, Yielded
    <3> QED
      BY <3>1 DEF Address
  <2>2. h2(h1) \in Yield({image}, Byte)
    BY PropertyLength DEF h2
  <2>3. h2(h1) \in Yield(Image(size), Byte)
    BY <2>2, Widened
  <2>4. op2(h1, h2(h1)) \in Out
    <3>1. write8(image, dyn, h1.value, ByteOf(value, 0)) \in Out
      BY BytesOf, WritesByte DEF Out
    <3>2. WriteBytes(image, dyn, h1.value, <<ByteOf(value, 1), ByteOf(value, 0)>>) \in Out
      BY <2>1, TwoBytes, WritesBytes DEF Out
    <3>3. Fail(image) \in Out
      BY Yields DEF Out
    <3> QED
      BY <3>1, <3>2, <3>3 DEF op2
  <2>5. AndThen(h2(h1), LAMBDA n : op2(h1, n)) = IF h2(h1).ok THEN op2(h1, h2(h1)) ELSE h2(h1)
    BY DEF AndThen, Then
  <2>6. AndThen(h2(h1), LAMBDA n : op2(h1, n)) \in Out
    BY <2>3, <2>4, <2>5, Follows DEF Out
  <2> QED
    BY <2>6, Yields DEF op1, Out
<1>5. AndThen(h1, LAMBDA a : op1(a)) = IF h1.ok THEN op1(h1) ELSE h1
  BY DEF AndThen, Then
<1> QED
  BY <1>1, <1>3, <1>4, <1>5, Follows DEF Out

-----------------------------------------------------------------------------
(* What an instruction computes.                                           *)

LEMMA CutToWord == \A a \in Int : a % Size \in Bits
  BY Powers, ModRange DEF Bits

LEMMA SignedIs == \A w \in Bits : AsSigned(w) \in Int /\ -32768 <= AsSigned(w) /\ AsSigned(w) <= 32767
  BY WordIs DEF AsSigned, Negative

LEMMA Quotients ==
  ASSUME NEW a \in Int, NEW b \in Int, b # 0
  PROVE  Quotient(a, b) \in Int /\ Remainder(a, b) \in Int
<1>1. Sign(a) \in Int /\ Sign(b) \in Int /\ Abs(a) \in Int /\ Abs(b) \in Int /\ Abs(b) > 0
  BY DEF Sign, Abs
<1>2. Abs(a) \div Abs(b) \in Int
  BY <1>1
<1>3. Sign(a) * Sign(b) \in Int
  BY <1>1
<1>4. Quotient(a, b) \in Int
  BY <1>2, <1>3 DEF Quotient
<1>5. b * Quotient(a, b) \in Int
  BY <1>4
<1> QED
  BY <1>4, <1>5 DEF Remainder

LEMMA ArithmeticIs ==
  ASSUME NEW S, NEW image \in S, NEW i, NEW x \in Seq(Bits), Len(x) >= 2
  PROVE  Arithmetic(image, i, x) \in Yield(S, Bits)
<1> DEFINE a == AsSigned(x[1])
           b == AsSigned(x[2])
           n == IF i.opcode = 23 THEN Quotient(a, b) ELSE Remainder(a, b)
<1>1. Arithmetic(image, i, x) =
        IF i.opcode = 22 THEN Value(image, (a * b) % Size)
        ELSE IF b = 0 THEN Fail(image) ELSE Value(image, n % Size)
  BY DEF Arithmetic
<1>2. x[1] \in Bits /\ x[2] \in Bits
  OBVIOUS
<1>3. a \in Int /\ b \in Int
  BY <1>2, SignedIs
<1> HIDE DEF a, b
<1>4. a * b \in Int
  BY <1>3
<1>5. b # 0 => Quotient(a, b) \in Int /\ Remainder(a, b) \in Int
  BY <1>3, Quotients, Zenon
<1>6. b # 0 => n \in Int
  BY <1>5
<1> HIDE DEF n
<1>7. (a * b) % Size \in Bits
  BY <1>4, CutToWord, Zenon
<1>8. b # 0 => n % Size \in Bits
  BY <1>6, CutToWord, Zenon
<1>9. /\ Value(image, (a * b) % Size) \in Yield(S, Bits) /\ Fail(image) \in Yield(S, Bits)
      /\ b # 0 => Value(image, n % Size) \in Yield(S, Bits)
  BY <1>7, <1>8, Yields, Zenon
<1> QED
  BY <1>1, <1>9

LEMMA WordOfBits == \A bits : WordWith(bits) \in Bits
<1> SUFFICES ASSUME NEW bits PROVE WordWith(bits) \in Bits
  OBVIOUS
<1> DEFINE n == Width
           add(k) == IF k - 1 \in bits THEN Pow2[k - 1] ELSE 0
           E(f) == f = [k \in 0 .. n |-> IF k = 0 THEN 0 ELSE f[k - 1] + add(k)]
           low == CHOOSE f : E(f)
           Y == [k \in 0 .. n |-> 0 .. Pow2[k] - 1]
           step == [k \in 1 .. n |-> [q \in Y[k - 1] |-> q + add(k)]]
<1>1. WordWith(bits) = low[n]
  BY DEF WordWith
<1> HIDE DEF n, add, low, step
<1>2. n \in Nat
  BY WidthAssumption DEF n
<1>3. 0 \in Y[0]
  BY <1>2, Pow2Assumption
<1>4. ASSUME NEW k \in 1 .. n, NEW q \in Y[k - 1] PROVE q + add(k) \in Y[k]
  <2>1. k - 1 \in 0 .. n /\ k \in 0 .. n
    BY <1>2
  <2>2. Pow2[k] = 2 * Pow2[k - 1] /\ Pow2[k - 1] \in Nat \ {0}
    BY <2>1, Powers DEF n
  <2>3. add(k) \in {0, Pow2[k - 1]}
    BY DEF add
  <2>4. q \in 0 .. Pow2[k - 1] - 1
    BY <2>1
  <2>5. q + add(k) \in 0 .. Pow2[k] - 1
    BY <2>2, <2>3, <2>4
  <2> QED
    BY <2>1, <2>5
<1>5. \A k \in 1 .. n : \A q \in Y[k - 1] : step[k][q] = q + add(k)
  BY DEF step
<1>6. Passing(n, Y, step)
  BY <1>4, <1>5 DEF Passing
<1>7. \E f : E(f)
  <2> HIDE DEF Y
  <2>1. PICK f : IsLoop(f, n, 0, step) /\ \A k \in 0 .. n : f[k] \in Y[k]
    BY <1>2, <1>3, <1>6, Recursion
  <2>2. \A k \in 0 .. n : k # 0 => k \in 1 .. n /\ f[k - 1] \in Y[k - 1]
    BY <1>2, <2>1
  <2>3. \A k \in 0 .. n : (IF k = 0 THEN 0 ELSE step[k][f[k - 1]])
                          = IF k = 0 THEN 0 ELSE f[k - 1] + add(k)
    BY <1>5, <2>2
  <2>4. E(f)
    BY <2>1, <2>3 DEF IsLoop
  <2> QED
    BY <2>4
<1>8. E(low)
  BY <1>7 DEF low
<1>12. low[0] = 0 /\ \A k \in 1 .. n : low[k] = low[k - 1] + add(k)
  <2>1. 0 \in 0 .. n /\ \A k \in 1 .. n : k \in 0 .. n /\ k # 0
    BY <1>2
  <2> QED
    BY <1>8, <2>1
<1> HIDE DEF Y
<1>9. low[0] \in Y[0] /\ \A k \in 1 .. n : low[k - 1] \in Y[k - 1] => low[k] \in Y[k]
  BY <1>3, <1>4, <1>12
<1>10. \A k \in 0 .. n : low[k] \in Y[k]
  BY <1>2, <1>9, Kept
<1>11. low[n] \in Y[n] /\ n \in 0 .. n
  BY <1>2, <1>10
<1> QED
  BY <1>1, <1>11 DEF Y, n, Bits, Size

LEMMA WordRange ==
  \A w \in Bits : w \in Int /\ 0 <= w /\ w <= 65535 /\ Size - 1 - w \in Bits
  BY WordIs

LEMMA ByteRange == \A b \in Byte : b \in Int /\ b \in Nat /\ 0 <= b /\ b <= 255
  BY ByteIs

LEMMA AddressRange == \A a \in Address : a \in Int /\ a \in Nat /\ a \in Bits
<1> SUFFICES ASSUME NEW a \in Address PROVE a \in Int /\ a \in Nat /\ a \in Bits
  OBVIOUS
<1>1. a \in Bits
  BY Addresses
<1> QED
  BY <1>1, WordRange

LEMMA ResultIs ==
  ASSUME NEW size \in Nat, NEW image \in Image(size), NEW i,
         NEW x \in Seq(Bits), Len(x) >= 1, i.category = "two" => Len(x) >= 2
  PROVE  Result(image, i, x) \in Yield({image}, Bits)
<1> DEFINE objects == story.objects
           o == x[1] % 256
           p == x[2] % 256
           code == <<i.category, i.opcode>>
           Out == Yield({image}, Bits)
           e1 == Value(image, WordWith(BitsOf(x[1]) \cup BitsOf(x[2])))
           e2 == Value(image, WordWith(BitsOf(x[1]) \cap BitsOf(x[2])))
           e3 == read16(image, x[1] + 2 * x[2])
           e4 == read8(image, x[1] + x[2])
           e5 == prop_get(image, objects, o, p)
           e6 == prop_get_addr(image, objects, o, p)
           e7 == prop_get_next(image, objects, o, p)
           e8 == Value(image, (x[1] + x[2]) % Size)
           e9 == Value(image, (x[1] - x[2]) % Size)
           e10 == obj_get_parent(image, objects, o)
           e11 == prop_get_len(image, x[1])
           e12 == Value(image, Size - 1 - x[1])
<1>1. Result(image, i, x) =
        CASE code = <<"two", 8>> -> e1 [] code = <<"two", 9>> -> e2
          [] code = <<"two", 15>> -> e3 [] code = <<"two", 16>> -> e4
          [] code = <<"two", 17>> -> e5 [] code = <<"two", 18>> -> e6
          [] code = <<"two", 19>> -> e7 [] code = <<"two", 20>> -> e8
          [] code = <<"two", 21>> -> e9 [] code = <<"one", 3>> -> e10
          [] code = <<"one", 4>> -> e11 [] OTHER -> e12
  BY DEF Result
<1>2. \A v \in Bits : Value(image, v) \in Out
  BY Yields
<1>3. Yield({image}, Byte) \subseteq Out /\ Yield({image}, Address) \subseteq Out
  <2>1. Address \subseteq Bits
    BY Addresses
  <2> QED
    BY <2>1, ByteIsWord, YieldWider
<1>4. e3 \in Out /\ e4 \in Out /\ e5 \in Out /\ e6 \in Out /\ e7 \in Out /\ e10 \in Out /\ e11 \in Out
  <2> HIDE DEF objects, o, p, Out
  <2>1. e4 \in Yield({image}, Byte) /\ e6 \in Yield({image}, Address) /\ e7 \in Yield({image}, Byte)
    BY ReadsByte, PropertyAddress, NextPropertyIsRead
  <2>2. e11 \in Yield({image}, Byte) /\ e10 \in Yield({image}, Byte)
    BY PropertyLength, EntryIsRead DEF obj_get_parent
  <2>3. e3 \in Out /\ e5 \in Out
    BY ReadsWord, PropertyIsRead DEF Out
  <2> QED
    BY <1>3, <2>1, <2>2, <2>3
<1>5. x[1] \in Bits /\ x[1] \in Int
  <2>1. x[1] \in Bits
    OBVIOUS
  <2> QED
    BY <2>1, WordRange
<1>6. e1 \in Out /\ e2 \in Out
  <2> HIDE DEF Out
  <2> QED
    BY <1>2, WordOfBits
<1>7. e12 \in Out
  <2>1. Size - 1 - x[1] \in Bits
    BY <1>5, WordRange
  <2> QED
    BY <1>2, <2>1, Zenon
<1>8. i.category = "two" => e8 \in Out /\ e9 \in Out
  <2> SUFFICES ASSUME i.category = "two" PROVE e8 \in Out /\ e9 \in Out
    OBVIOUS
  <2>1. x[2] \in Bits
    OBVIOUS
  <2>2. x[2] \in Int
    BY <2>1, WordRange
  <2>4. x[1] + x[2] \in Int /\ x[1] - x[2] \in Int
    BY <1>5, <2>2
  <2>3. (x[1] + x[2]) % Size \in Bits /\ (x[1] - x[2]) % Size \in Bits
    BY <2>4, CutToWord, Zenon
  <2> QED
    BY <1>2, <2>3, Zenon
<1> HIDE DEF e1, e2, e3, e4, e5, e6, e7, e8, e9, e10, e11, e12, Out, o, p, objects
<1>9. Result(image, i, x) \in {e1, e2, e3, e4, e5, e6, e7, e10, e11, e12}
        \cup (IF i.category = "two" THEN {e8, e9} ELSE {})
  BY <1>1
<1> QED
  BY <1>4, <1>6, <1>7, <1>8, <1>9 DEF Out

LEMMA TestIs ==
  ASSUME NEW size \in Nat, NEW image \in Image(size), NEW i, NEW x
  PROVE  TestOf(image, i, x) \in Yield({image}, BOOLEAN)
<1> DEFINE objects == story.objects
           code == <<i.category, i.opcode>>
           Out == Yield({image}, BOOLEAN)
           h == obj_get_parent(image, objects, x[1] % 256)
           e1 == Value(image, \E k \in 2 .. Len(x) : x[k] = x[1])
           e2 == Value(image, AsSigned(x[1]) < AsSigned(x[2]))
           e3 == Value(image, AsSigned(x[1]) > AsSigned(x[2]))
           e4 == AndThen(h, LAMBDA r : Value(image, r.value = x[2] % 256))
           e5 == Value(image, BitsOf(x[2]) \subseteq BitsOf(x[1]))
           e6 == obj_test_attr(image, objects, x[1] % 256, x[2] % 256)
           e7 == Value(image, x[1] = 0)
<1>1. TestOf(image, i, x) =
        CASE code = <<"two", 1>> -> e1 [] code = <<"two", 2>> -> e2
          [] code = <<"two", 3>> -> e3 [] code = <<"two", 6>> -> e4
          [] code = <<"two", 7>> -> e5 [] code = <<"two", 10>> -> e6 [] OTHER -> e7
  BY DEF TestOf
<1>2. \A v \in BOOLEAN : Value(image, v) \in Out
  BY Yields
<1>3. /\ (\E k \in 2 .. Len(x) : x[k] = x[1]) \in BOOLEAN
      /\ (AsSigned(x[1]) < AsSigned(x[2])) \in BOOLEAN
      /\ (AsSigned(x[1]) > AsSigned(x[2])) \in BOOLEAN
      /\ (BitsOf(x[2]) \subseteq BitsOf(x[1])) \in BOOLEAN
      /\ (x[1] = 0) \in BOOLEAN
  OBVIOUS
<1>4. e1 \in Out /\ e2 \in Out /\ e3 \in Out /\ e5 \in Out /\ e7 \in Out
  <2> HIDE DEF Out
  <2> QED
    BY <1>2, <1>3, Zenon
<1>5. e4 \in Out
  <2>1. h \in Yield({image}, Byte)
    BY EntryIsRead DEF obj_get_parent
  <2>2. Value(image, h.value = x[2] % 256) \in Out
    <3>1. (h.value = x[2] % 256) \in BOOLEAN
      BY Zenon
    <3> HIDE DEF Out, h
    <3> QED
      BY <1>2, <3>1, Zenon
  <2> HIDE DEF h
  <2>3. e4 = IF h.ok THEN Value(image, h.value = x[2] % 256) ELSE h
    BY DEF AndThen, Then
  <2> QED
    BY <2>1, <2>2, <2>3, Follows
<1>6. e6 \in Out
  BY AttributeIsRead
<1> HIDE DEF e1, e2, e3, e4, e5, e6, e7, Out
<1>7. TestOf(image, i, x) \in {e1, e2, e3, e4, e5, e6, e7}
  BY <1>1
<1> QED
  BY <1>4, <1>5, <1>6, <1>7 DEF Out

LEMMA EffectIs ==
  ASSUME NEW size \in Nat, NEW image \in Image(size), NEW i,
         i.category \in {"two", "var"}, i.opcode \in EffectOpcodes[i.category],
         NEW x \in Seq(Bits), Len(x) >= Needed(i)
  PROVE  Effect(image, i, x) \in Yield(Image(size), {0})
<1> DEFINE objects == story.objects
           dyn == story.dyn
           o == x[1] % 256
           p == x[2] % 256
           code == <<i.category, i.opcode>>
           Out == Yield(Image(size), {0})
           e1 == obj_write_attr(image, dyn, objects, o, p, 1)
           e2 == obj_write_attr(image, dyn, objects, o, p, 0)
           e3 == WriteBytes(image, dyn, x[1] + 2 * x[2], <<ByteOf(x[3], 1), ByteOf(x[3], 0)>>)
           e4 == write8(image, dyn, x[1] + x[2], ByteOf(x[3], 0))
           e5 == prop_put(image, dyn, objects, o, p, x[3])
<1>1. Effect(image, i, x) =
        CASE code = <<"two", 11>> -> e1 [] code = <<"two", 12>> -> e2
          [] code = <<"var", 1>> -> e3 [] code = <<"var", 2>> -> e4 [] OTHER -> e5
  BY DEF Effect
<1>2. \/ i.category = "two" /\ i.opcode \in {11, 12} /\ Len(x) >= 2
      \/ i.category = "var" /\ i.opcode \in {1, 2, 3} /\ Len(x) >= 3
  <2>1. CASE i.category = "two"
    <3>1. i.opcode \in {11, 12}
      BY <2>1 DEF EffectOpcodes
    <3>2. Needed(i) = 2
      BY <2>1, <3>1 DEF Needed
    <3> QED
      BY <2>1, <3>1, <3>2
  <2>2. CASE i.category = "var"
    <3>1. i.opcode \in {1, 2, 3}
      BY <2>2 DEF EffectOpcodes
    <3>2. Needed(i) = 3
      BY <2>2, <3>1 DEF Needed
    <3> QED
      BY <2>2, <3>1, <3>2
  <2> QED
    BY <2>1, <2>2
<1>3. x[1] \in Int /\ x[2] \in Int
  <2>1. x[1] \in Bits /\ x[2] \in Bits
    BY <1>2
  <2> QED
    BY <2>1, WordRange
<1>4. e1 \in Out /\ e2 \in Out
  <2>1. p \in Nat
    BY <1>3
  <2> HIDE DEF objects, dyn, o, p
  <2> QED
    BY <2>1, AttributeIsWritten
<1>5. i.category = "var" => e3 \in Out /\ e4 \in Out /\ e5 \in Out
  <2> SUFFICES ASSUME i.category = "var" PROVE e3 \in Out /\ e4 \in Out /\ e5 \in Out
    OBVIOUS
  <2>1. x[3] \in Bits
    BY <1>2
  <2>2. x[3] \in Int
    BY <2>1, WordRange
  <2>3. x[1] + 2 * x[2] \in Int
    BY <1>3
  <2> HIDE DEF objects, dyn, o, p
  <2>4. e3 \in Out
    BY <2>2, <2>3, TwoBytes, WritesBytes
  <2>5. e4 \in Out
    BY <2>2, BytesOf, WritesByte
  <2>6. e5 \in Out
    BY <2>2, PropertyIsPut
  <2> QED
    BY <2>4, <2>5, <2>6
<1> HIDE DEF e1, e2, e3, e4, e5, Out, o, p, objects, dyn
<1>6. Effect(image, i, x) \in (IF i.category = "two" THEN {e1, e2} ELSE {e3, e4, e5})
  BY <1>1, <1>2
<1> QED
  BY <1>2, <1>4, <1>5, <1>6 DEF Out

-----------------------------------------------------------------------------
(* Output.                                                                 *)

\* What printing leaves alone: memory, but for a table in dynamic memory.
Emitted(size, s) ==
  {m \in Machine(size) :
     /\ m.pc = s.pc /\ m.table.active = s.table.active
     /\ \A a \in 0 .. size - 1 : m.image[a] # s.image[a] => s.table.active /\ a < story.dyn}

LEMMA EmittedNone == \A size \in Nat : \A s \in Machine(size) : s \in Emitted(size, s)
  BY DEF Emitted

LEMMA EmittedOn ==
  ASSUME NEW size \in Nat, NEW s \in Machine(size), NEW m \in Emitted(size, s)
  PROVE  m \in Machine(size) /\ Emitted(size, m) \subseteq Emitted(size, s)
  BY DEF Emitted

LEMMA Emits ==
  ASSUME NEW size \in Nat, NEW s \in Machine(size), NEW c \in Byte
  PROVE  vm_emit(s, c) \in Yield(Emitted(size, s), {0})
<1> DEFINE w == write8(s.image, story.dyn, s.table.at + 2 + s.table.count, c)
           h == On(s, w)
           more(m) == [m EXCEPT !.table.count = (@ + 1) % Size]
<1>1. vm_emit(s, c) =
        IF s.table.active THEN AndThen(h, LAMBDA r : Done(more(r.vm)))
        ELSE Done([s EXCEPT !.out = Append(s.out, c)])
  BY DEF vm_emit
<1>2. s.image \in Image(size) /\ s.table \in Table /\ s.out \in Seq(Byte)
  BY DEF Machine
<1>3. /\ w \in Yield(Image(size), {0})
      /\ \A a \in 0 .. size - 1 : w.vm[a] # s.image[a] => a < story.dyn
  BY <1>2, WritesByte
<1> HIDE DEF w
<1>4. h \in Yield(Machine(size), {0}) /\ h.vm.pc = s.pc /\ h.vm.table = s.table /\ h.vm.image = w.vm
  BY <1>3, OnMachine
<1> HIDE DEF h
<1>5. /\ h.vm \in Machine(size) /\ h.ok \in BOOLEAN
  BY <1>4, Yielded
<1>6. s.table.active => h.vm \in Emitted(size, s)
  <2>1. \A a \in 0 .. size - 1 : h.vm.image[a] # s.image[a] => a < story.dyn
    BY <1>3, <1>4
  <2> DEFINE m == h.vm
  <2>2. m \in Machine(size) /\ m.pc = s.pc /\ m.table.active = s.table.active
    BY <1>4, <1>5
  <2>3. \A a \in 0 .. size - 1 : m.image[a] # s.image[a] => a < story.dyn
    BY <2>1
  <2> HIDE DEF m
  <2>4. s.table.active => m \in Emitted(size, s)
    BY <2>2, <2>3 DEF Emitted
  <2> QED
    BY <2>4 DEF m
<1>7. s.table.active => more(h.vm) \in Emitted(size, s)
  <2>1. h.vm.table \in Table /\ h.vm.table.count \in Int
    <3>1. h.vm.table \in Table
      BY <1>5 DEF Machine
    <3>2. h.vm.table.count \in Bits
      BY <3>1 DEF Table
    <3> QED
      BY <3>1, <3>2, WordRange
  <2>2. (h.vm.table.count + 1) % Size \in Bits
    <3>1. h.vm.table.count + 1 \in Int
      BY <2>1
    <3> QED
      BY <3>1, CutToWord, Zenon
  <2> DEFINE table == [h.vm.table EXCEPT !.count = (@ + 1) % Size]
             m == [h.vm EXCEPT !.table = table]
  <2>3. table \in Table /\ table.active = h.vm.table.active
    BY <2>1, <2>2 DEF Table
  <2>4. more(h.vm) = m
    OBVIOUS
  <2> HIDE DEF table
  <2>5. m \in Machine(size) /\ m.pc = h.vm.pc /\ m.table = table /\ m.image = h.vm.image
    BY <1>5, <2>3 DEF Machine
  <2> HIDE DEF m
  <2>6. s.table.active => m.pc = s.pc /\ m.table.active = s.table.active
    BY <1>4, <2>3, <2>5
  <2>7. s.table.active => \A a \in 0 .. size - 1 : m.image[a] # s.image[a] => a < story.dyn
    <3>1. s.table.active => \A a \in 0 .. size - 1 : h.vm.image[a] # s.image[a] => a < story.dyn
      BY <1>6 DEF Emitted
    <3>2. m.image = h.vm.image
      BY <2>5
    <3> QED
      BY <3>1, <3>2
  <2>8. s.table.active => m \in Emitted(size, s)
    BY <2>5, <2>6, <2>7 DEF Emitted
  <2> QED
    BY <2>4, <2>8
<1> HIDE DEF more
<1>8. AndThen(h, LAMBDA r : Done(more(r.vm))) = IF h.ok THEN Done(more(h.vm)) ELSE h
  BY DEF AndThen, Then
<1> DEFINE plain == [s EXCEPT !.out = Append(s.out, c)]
<1>9. plain \in Emitted(size, s)
  <2>1. Append(s.out, c) \in Seq(Byte)
    BY <1>2
  <2>2. plain \in Machine(size) /\ plain.pc = s.pc /\ plain.table = s.table /\ plain.image = s.image
    BY <2>1 DEF Machine
  <2> HIDE DEF plain
  <2> QED
    BY <2>2 DEF Emitted
<1> HIDE DEF plain
<1>10. /\ s.table.active => vm_emit(s, c) \in {h, Done(more(h.vm))}
       /\ ~ s.table.active => vm_emit(s, c) = Done(plain)
  BY <1>1, <1>5, <1>8 DEF plain
<1>11. /\ s.table.active => h \in Yield(Emitted(size, s), {0})
       /\ \A m \in Emitted(size, s) : Done(m) \in Yield(Emitted(size, s), {0})
  <2> DEFINE E == Emitted(size, s)
  <2>1. \A m \in E : Done(m) \in Yield(E, {0})
    BY Yields DEF Done
  <2> HIDE DEF E
  <2>2. h.vm \in E => h \in Yield(E, {0})
    BY <1>4 DEF Yield
  <2> QED
    BY <1>6, <2>1, <2>2 DEF E
<1> QED
  BY <1>6, <1>7, <1>9, <1>10, <1>11

LEMMA AllEmitted ==
  ASSUME NEW size \in Nat, NEW s \in Machine(size), NEW chars \in Seq(Byte)
  PROVE  EmitAll(s, chars) \in Yield(Emitted(size, s), {0})
<1> DEFINE Out == Yield(Emitted(size, s), {0})
           start == Done(s)
           n == Len(chars)
           op(q, k) == vm_emit(q.vm, chars[k])
           E(g) == g = [k \in 0 .. n |-> IF k = 0 THEN start
                                         ELSE AndThen(g[k - 1], LAMBDA q : op(q, k))]
           Y == [k \in 0 .. n |-> Out]
           To == CHOOSE g : E(g)
           step == [k \in 1 .. n |-> [q \in Y[k - 1] |-> IF q.ok THEN op(q, k) ELSE q]]
<1>1. EmitAll(s, chars) = To[n]
  BY DEF EmitAll, AllOf
<1> HIDE DEF Out, start, op, To, step
<1>2. n \in Nat /\ \A k \in 1 .. n : chars[k] \in Byte
  OBVIOUS
<1>3. start \in Y[0]
  <2>1. start \in Out
    BY EmittedNone, Yields DEF start, Done, Out
  <2> QED
    BY <1>2, <2>1
<1>4. ASSUME NEW k \in 1 .. n, NEW q \in Y[k - 1] PROVE op(q, k) \in Y[k]
  <2>1. k \in 0 .. n /\ k - 1 \in 0 .. n
    BY <1>2
  <2>2. q.vm \in Emitted(size, s)
    BY <2>1, Yielded DEF Out
  <2>3. q.vm \in Machine(size) /\ Emitted(size, q.vm) \subseteq Emitted(size, s)
    BY <2>2, EmittedOn
  <2>4. op(q, k) \in Yield(Emitted(size, q.vm), {0})
    BY <1>2, <2>3, Emits DEF op
  <2>5. op(q, k) \in Out
    BY <2>3, <2>4, YieldWider DEF Out
  <2> QED
    BY <2>1, <2>5
<1>5. \A g, k : AndThen(g[k - 1], LAMBDA q : op(q, k))
                  = IF g[k - 1].ok THEN op(g[k - 1], k) ELSE g[k - 1]
  BY DEF AndThen, Then
<1>6. ASSUME NEW k \in 1 .. n, NEW q \in Y[k - 1]
      PROVE  (IF q.ok THEN op(q, k) ELSE q) \in Y[k]
  <2>1. k \in 0 .. n /\ k - 1 \in 0 .. n
    BY <1>2
  <2>2. q \in Y[k]
    BY <2>1
  <2> QED
    BY <2>2, <1>4
<1>7. \E g : E(g)
  <2>1. \A k \in 1 .. n : \A q \in Y[k - 1] : step[k][q] = IF q.ok THEN op(q, k) ELSE q
    BY DEF step
  <2>2. Passing(n, Y, step)
    BY <1>6, <2>1 DEF Passing
  <2> HIDE DEF Y
  <2>3. PICK f : IsLoop(f, n, start, step) /\ \A k \in 0 .. n : f[k] \in Y[k]
    BY <1>2, <1>3, <2>2, Recursion
  <2>4. \A k \in 0 .. n : k # 0 => k \in 1 .. n /\ f[k - 1] \in Y[k - 1]
    BY <1>2, <2>3
  <2>5. \A k \in 0 .. n : (IF k = 0 THEN start ELSE step[k][f[k - 1]])
                          = IF k = 0 THEN start
                            ELSE IF f[k - 1].ok THEN op(f[k - 1], k) ELSE f[k - 1]
    BY <2>1, <2>4
  <2>6. f = [k \in 0 .. n |-> IF k = 0 THEN start
                              ELSE IF f[k - 1].ok THEN op(f[k - 1], k) ELSE f[k - 1]]
    BY <2>3, <2>5 DEF IsLoop
  <2>7. E(f)
    BY <2>6, <1>5
  <2> QED
    BY <2>7
<1>8. E(To)
  BY <1>7 DEF To
<1>9. \A k \in 0 .. n : To[k] = IF k = 0 THEN start
                                ELSE IF To[k - 1].ok THEN op(To[k - 1], k) ELSE To[k - 1]
  BY <1>8, <1>5
<1>10. \A k \in 1 .. n : To[k - 1] \in Y[k - 1] => To[k] \in Y[k]
  <2>1. \A k \in 1 .. n : k \in 0 .. n /\ k # 0
    BY <1>2
  <2> HIDE DEF Y, n
  <2> QED
    BY <1>6, <1>9, <2>1
<1>11. To[0] \in Y[0]
  BY <1>2, <1>3, <1>9
<1>12. \A k \in 0 .. n : To[k] \in Y[k]
  <2> HIDE DEF Y, n
  <2> QED
    BY <1>2, <1>10, <1>11, Kept
<1>13. To[n] \in Y[n] /\ n \in 0 .. n
  BY <1>2, <1>12
<1> QED
  BY <1>1, <1>13 DEF Out

LEMMA DecimalIsEmitted ==
  ASSUME NEW size \in Nat, NEW s \in Machine(size), NEW value \in Int
  PROVE  emit_decimal(s, value) \in Yield(Emitted(size, s), {0})
<1> DEFINE magnitude == Abs(value)
           Leaves(n) == magnitude < 10 ^ (n + 1)
           Is(k) == (k = 4 \/ Leaves(k)) /\ \A m \in 0 .. k - 1 : ~ Leaves(m)
           passes == Passes(4, LAMBDA n : Leaves(n))
           count == 1 + passes
           digit(k) == 48 + ((magnitude \div (10 ^ (count - k))) % 10)
           digits == [k \in 1 .. count |-> digit(k)]
           sign == IF value < 0 THEN <<45>> ELSE <<>>
<1>1. emit_decimal(s, value) = EmitAll(s, sign \o digits)
  BY DEF emit_decimal
<1>2. passes = CHOOSE k \in 0 .. 4 : Is(k)
  BY DEF Passes
<1>3. \E k \in 0 .. 4 : Is(k)
  <2> DEFINE S == {m \in 0 .. 4 : Leaves(m)}
  <2>1. PICK k : IsFirst(k, 4, S)
    <3> HIDE DEF S
    <3> QED
      BY FirstExists
  <2> HIDE DEF Leaves
  <2>2. k \in 0 .. 4 /\ Is(k)
    BY <2>1 DEF IsFirst
  <2> QED
    BY <2>2
<1> HIDE DEF passes, Is
<1>4. passes \in 0 .. 4
  BY <1>2, <1>3
<1>5. count \in 1 .. 5
  BY <1>4
<1>6. magnitude \in Nat
  BY DEF Abs
<1> HIDE DEF magnitude, count
<1>7. ASSUME NEW k \in 1 .. count PROVE digit(k) \in Byte
  <2>1. count - k \in {0, 1, 2, 3, 4}
    BY <1>5
  <2>2. 10 ^ (count - k) \in Nat \ {0}
    <3>1. 10 ^ 0 = 1 /\ 10 ^ 1 = 10 /\ 10 ^ 2 = 100 /\ 10 ^ 3 = 1000 /\ 10 ^ 4 = 10000
      OBVIOUS
    <3> DEFINE d == count - k
    <3>2. d \in {0, 1, 2, 3, 4}
      BY <2>1
    <3> HIDE DEF d
    <3>3. 10 ^ d \in {10 ^ 0, 10 ^ 1, 10 ^ 2, 10 ^ 3, 10 ^ 4}
      BY <3>2, Zenon
    <3>4. 10 ^ d \in Nat \ {0}
      BY <3>1, <3>3
    <3> QED
      BY <3>4 DEF d
  <2> DEFINE power == 10 ^ (count - k)
  <2> HIDE DEF power
  <2>3. (magnitude \div power) % 10 \in 0 .. 9
    BY <1>6, <2>2 DEF power
  <2> HIDE DEF power
  <2> QED
    BY <2>3, ByteIs DEF power
<1> HIDE DEF digit
<1>8. digits \in Seq(Byte)
  BY <1>5, <1>7
<1>9. sign \in Seq(Byte)
  BY ByteIs
<1>10. sign \o digits \in Seq(Byte)
  <2> HIDE DEF sign, digits
  <2> QED
    BY <1>8, <1>9
<1> QED
  BY <1>1, <1>10, AllEmitted

LEMMA CharsArePrinted ==
  ASSUME NEW size \in Nat, NEW s \in Machine(size), NEW i, NEW x \in Seq(Bits),
         i.category # "zero" => Len(x) >= 1
  PROVE  print_chars(s, i, x) \in Yield(Emitted(size, s), {0})
<1>1. CASE i.category = "zero"
  <2>1. print_chars(s, i, x) = vm_emit(s, 10)
    BY <1>1 DEF print_chars
  <2>2. 10 \in Byte
    BY ByteIs
  <2> QED
    BY <2>1, <2>2, Emits
<1>2. CASE i.category # "zero"
  <2>1. x[1] \in Bits
    BY <1>2
  <2>2. x[1] \in Int /\ AsSigned(x[1]) \in Int
    BY <2>1, WordRange, SignedIs
  <2>3. x[1] % 256 \in Byte
    <3>1. x[1] % 256 \in Int /\ 0 <= x[1] % 256 /\ x[1] % 256 <= 255
      BY <2>2
    <3> QED
      BY <3>1, ByteIs
  <2>4. print_chars(s, i, x) \in {vm_emit(s, x[1] % 256), emit_decimal(s, AsSigned(x[1]))}
    BY <1>2 DEF print_chars
  <2> QED
    BY <2>2, <2>3, <2>4, Emits, DecimalIsEmitted
<1> QED
  BY <1>1, <1>2

LEMMA StreamIsSet ==
  ASSUME NEW size \in Nat, NEW s \in Machine(size), NEW i, NEW x \in Seq(Bits), Len(x) >= 1
  PROVE  output_stream(s, i, x) \in Yield(Machine(size), {0})
<1> DEFINE number == AsSigned(x[1])
           table == s.table
           w == WriteBytes(s.image, story.dyn, table.at,
                           <<ByteOf(table.count, 1), ByteOf(table.count, 0)>>)
           h == On(s, w)
           on == [s EXCEPT !.table = [active |-> TRUE, at |-> x[2], count |-> 0]]
           off(m) == [m EXCEPT !.table.active = FALSE]
<1>1. output_stream(s, i, x) =
        CASE number = 3 -> IF table.active \/ Len(x) < 2 THEN Fail(s) ELSE Done(on)
          [] number = -3 -> IF ~ table.active THEN Fail(s)
                            ELSE AndThen(h, LAMBDA r : Done(off(r.vm)))
          [] OTHER -> Done(s)
  BY DEF output_stream
<1>2. s.image \in Image(size) /\ table \in Table
  BY DEF Machine
<1>3. table.at \in Bits /\ table.count \in Bits
  BY <1>2 DEF Table
<1> HIDE DEF table
<1>4. w \in Yield(Image(size), {0})
  <2>1. table.at \in Int /\ table.count \in Int
    BY <1>3, WordRange
  <2> QED
    BY <1>2, <2>1, TwoBytes, WritesBytes
<1>5. h \in Yield(Machine(size), {0})
  <2> HIDE DEF w
  <2> QED
    BY <1>4, OnMachine
<1> HIDE DEF h
<1>6. off(h.vm) \in Machine(size)
  <2>1. h.vm \in Machine(size)
    BY <1>5, Yielded
  <2>2. [h.vm.table EXCEPT !.active = FALSE] \in Table
    BY <2>1 DEF Machine, Table
  <2> DEFINE new == [h.vm.table EXCEPT !.active = FALSE]
  <2>3. off(h.vm) = [h.vm EXCEPT !.table = new]
    OBVIOUS
  <2> HIDE DEF new
  <2>4. [h.vm EXCEPT !.table = new] \in Machine(size)
    BY <2>1, <2>2 DEF Machine, new
  <2> QED
    BY <2>3, <2>4
<1>7. Len(x) >= 2 => on \in Machine(size)
  <2> SUFFICES ASSUME Len(x) >= 2 PROVE on \in Machine(size)
    OBVIOUS
  <2>1. x[2] \in Bits /\ 0 \in Bits
    BY WordIs
  <2>2. [active |-> TRUE, at |-> x[2], count |-> 0] \in Table
    BY <2>1 DEF Table
  <2> QED
    BY <2>2 DEF Machine
<1> HIDE DEF on, off, number
<1>8. AndThen(h, LAMBDA r : Done(off(r.vm))) = IF h.ok THEN Done(off(h.vm)) ELSE h
  BY DEF AndThen, Then
<1>9. \A m \in Machine(size) : /\ Done(m) \in Yield(Machine(size), {0})
                               /\ Fail(m) \in Yield(Machine(size), {0})
  BY Yields DEF Done
<1>10. output_stream(s, i, x) \in {Fail(s), Done(s), Done(off(h.vm)), h}
                                  \cup (IF Len(x) >= 2 THEN {Done(on)} ELSE {})
  BY <1>1, <1>8
<1> QED
  BY <1>5, <1>6, <1>7, <1>9, <1>10

-----------------------------------------------------------------------------
(* Texts.                                                                  *)

Even == {n \in Nat : n % 2 = 0}
Stream == [at : Nat, left : Even, word : Bits, pos : 0 .. 3, final : BOOLEAN, shift : 0 .. 2]

\* Every byte that may still be fetched is in the story.
Inside(size, s) == s.at + s.left <= size

LEMMA StreamStarts ==
  ASSUME NEW at \in Nat, NEW left \in Even
  PROVE  /\ zchar_stream_init(at, left) \in Stream
         /\ zchar_stream_init(at, left).at = at /\ zchar_stream_init(at, left).left = left
         /\ zchar_stream_init(at, left).pos = 3 /\ zchar_stream_init(at, left).final = FALSE
<1>1. 0 \in Bits
  BY WordIs
<1> QED
  BY <1>1 DEF zchar_stream_init, Stream

LEMMA WordIsFetched ==
  ASSUME NEW size \in Nat, NEW image \in Image(size), NEW s \in Stream,
         ~ Exhausted(s), Readable(image, s)
  PROVE  /\ Refill(image, s) \in Stream /\ Refill(image, s).pos < 3
         /\ Refill(image, s).shift = s.shift
         /\ s.pos < 3 => Refill(image, s) = s
         /\ s.pos = 3 =>
              /\ ~ s.final /\ s.left >= 2 /\ s.at + 1 <= size - 1
              /\ Refill(image, s).at = s.at + 2 /\ Refill(image, s).left = s.left - 2
              /\ Refill(image, s).final <=> 256 * image[s.at] + image[s.at + 1] >= 2 ^ 15
<1>1. CASE s.pos < 3
  <2>1. Refill(image, s) = s
    BY <1>1 DEF Refill
  <2>2. s.pos # 3
    BY <1>1
  <2> QED
    BY <1>1, <2>1, <2>2
<1>2. CASE ~ (s.pos < 3)
  <2> DEFINE word == 256 * image[s.at] + image[s.at + 1]
             t == [s EXCEPT !.at = s.at + 2, !.left = s.left - 2, !.word = word, !.pos = 0,
                            !.final = word >= 2 ^ 15]
  <2>1. s.pos = 3 /\ s.at \in Nat /\ s.left \in Nat /\ s.left % 2 = 0
    BY <1>2 DEF Stream, Even
  <2>2. Refill(image, s) = t
    BY <1>2 DEF Refill
  <2>3. ~ s.final /\ s.left # 0
    BY <2>1 DEF Exhausted
  <2>4. s.left >= 2 /\ s.left - 2 \in Even
    BY <2>1, <2>3 DEF Even
  <2>5. s.at \in DOMAIN image /\ s.at + 1 \in DOMAIN image
    BY <1>2 DEF Readable
  <2>6. image[s.at] \in Byte /\ image[s.at + 1] \in Byte /\ s.at + 1 <= size - 1
    BY <2>1, <2>5 DEF Image
  <2>7. word \in Bits
    BY <2>6, WordFrom
  <2> DEFINE final == word >= 2 ^ 15
             u == [s EXCEPT !.at = s.at + 2, !.left = s.left - 2, !.word = word, !.pos = 0,
                            !.final = final]
  <2>8. final \in BOOLEAN
    OBVIOUS
  <2>9. t = u /\ final = (word >= 2 ^ 15)
    OBVIOUS
  <2> HIDE DEF word, t, final
  <2>10. u \in Stream
    <3> DEFINE at == s.at + 2
               left == s.left - 2
               u1 == [s EXCEPT !.at = at]
               u2 == [u1 EXCEPT !.left = left]
               u3 == [u2 EXCEPT !.word = word]
               u4 == [u3 EXCEPT !.pos = 0]
               u5 == [u4 EXCEPT !.final = final]
    <3>1. u = u5
      OBVIOUS
    <3>2. at \in Nat /\ left \in Even /\ 0 \in 0 .. 3
      BY <2>1, <2>4
    <3> HIDE DEF at, left, u, u1, u2, u3, u4, u5
    <3>3. u1 \in Stream
      BY <3>2 DEF Stream, u1
    <3>4. u2 \in Stream
      BY <3>2, <3>3 DEF Stream, u2
    <3>5. u3 \in Stream
      BY <2>7, <3>4 DEF Stream, u3
    <3>6. u4 \in Stream
      BY <3>2, <3>5 DEF Stream, u4
    <3>7. u5 \in Stream
      BY <2>8, <3>6 DEF Stream, u5
    <3> QED
      BY <3>1, <3>7
  <2>11. u.at = s.at + 2 /\ u.left = s.left - 2 /\ u.final = final /\ u.pos = 0 /\ u.shift = s.shift
    BY DEF Stream
  <2> HIDE DEF u
  <2>12. u.final <=> word >= 2 ^ 15
    BY <2>9, <2>11
  <2> QED
    BY <2>1, <2>2, <2>3, <2>4, <2>6, <2>9, <2>10, <2>11, <2>12 DEF word
<1> QED
  BY <1>1, <1>2

\* One z-char further.
LEMMA ZcharIsTaken ==
  ASSUME NEW size \in Nat, NEW image \in Image(size), NEW s \in Stream,
         ~ Exhausted(s), Readable(image, s)
  PROVE  /\ Behind(image, s) \in Stream /\ Zchar(image, s) \in 0 .. 31
         /\ Behind(image, s).shift = s.shift
         /\ Behind(image, s).at = Refill(image, s).at
         /\ Behind(image, s).left = Refill(image, s).left
         /\ Behind(image, s).final = Refill(image, s).final
         /\ Inside(size, s) => Inside(size, Behind(image, s))
<1> DEFINE t == Refill(image, s)
           u == [t EXCEPT !.pos = t.pos + 1]
<1>1. Behind(image, s) = u
  BY DEF Behind
<1>2. /\ t \in Stream /\ t.pos < 3 /\ t.shift = s.shift
      /\ t = s \/ s.pos = 3
      /\ s.pos = 3 => t.at = s.at + 2 /\ t.left = s.left - 2
  <2>1. s.pos \in 0 .. 3
    BY DEF Stream
  <2> QED
    BY <2>1, WordIsFetched
<1>3. Zchar(image, s) \in 0 .. 31
  <2> DEFINE n == 2 - t.pos
  <2>1. Zchar(image, s) = (t.word \div (32 ^ n)) % 32
    BY DEF Zchar
  <2> HIDE DEF t
  <2>2. n \in {0, 1, 2} /\ t.word \in Bits
    BY <1>2 DEF Stream
  <2>3. t.word \in Int
    BY <2>2, WordRange
  <2>4. 32 ^ 0 = 1 /\ 32 ^ 1 = 32 /\ 32 ^ 2 = 1024
    OBVIOUS
  <2> HIDE DEF n
  <2>5. 32 ^ n \in {32 ^ 0, 32 ^ 1, 32 ^ 2}
    BY <2>2, Zenon
  <2>6. 32 ^ n \in Nat \ {0}
    BY <2>4, <2>5
  <2> DEFINE power == 32 ^ n
  <2>7. power \in Nat \ {0}
    BY <2>6
  <2> HIDE DEF power
  <2>8. (t.word \div power) % 32 \in 0 .. 31
    BY <2>3, <2>7
  <2> QED
    BY <2>1, <2>8 DEF power
<1> HIDE DEF t
<1>4. u \in Stream /\ u.shift = t.shift /\ u.at = t.at /\ u.left = t.left /\ u.final = t.final
  <2>1. t.pos + 1 \in 0 .. 3
    BY <1>2 DEF Stream
  <2> QED
    BY <1>2, <2>1 DEF Stream
<1> HIDE DEF u
<1>5. Inside(size, s) => Inside(size, u)
  <2>1. s.at \in Nat /\ s.left \in Nat
    BY DEF Stream, Even
  <2> QED
    BY <1>2, <1>4, <2>1 DEF Inside
<1> QED
  BY <1>1, <1>2, <1>3, <1>4, <1>5 DEF t

LEMMA LetterIs ==
  ASSUME NEW shift \in 0 .. 2, NEW z \in 6 .. 31
  PROVE  Letter(shift, z) \in Byte
<1>1. CASE shift = 0
  BY <1>1, ByteIs DEF Letter
<1>2. CASE shift = 1
  BY <1>2, ByteIs DEF Letter
<1>3. CASE shift = 2
  <2> DEFINE a == <<32, 10>>
             b == [k \in 1 .. 10 |-> 47 + k]
             c == <<46, 44, 33, 63, 95, 35, 39, 34, 47, 92, 45, 58, 40, 41>>
  <2>1. a \in Seq(Byte) /\ Len(a) = 2
    BY ByteIs
  <2>2. b \in Seq(Byte) /\ Len(b) = 10
    <3>1. \A k \in 1 .. 10 : 47 + k \in Byte
      BY ByteIs
    <3> QED
      BY <3>1
  <2>3. c \in Seq(Byte) /\ Len(c) = 14
    BY ByteIs
  <2>4. AlphabetA2 = a \o b \o c
    BY DEF AlphabetA2
  <2> HIDE DEF a, b, c
  <2>5. AlphabetA2 \in Seq(Byte) /\ Len(AlphabetA2) = 26
    <3>1. a \o b \in Seq(Byte) /\ Len(a \o b) = Len(a) + Len(b)
      BY <2>1, <2>2, ConcatProperties, Zenon
    <3> DEFINE ab == a \o b
    <3> HIDE DEF ab
    <3>2. ab \in Seq(Byte) /\ Len(ab) = 12
      BY <2>1, <2>2, <3>1 DEF ab
    <3>3. ab \o c \in Seq(Byte) /\ Len(ab \o c) = Len(ab) + Len(c)
      BY <2>3, <3>2, ConcatProperties, Zenon
    <3> DEFINE abc == ab \o c
    <3> HIDE DEF abc
    <3>4. AlphabetA2 = abc
      BY <2>4 DEF ab, abc
    <3> QED
      BY <2>3, <3>2, <3>3, <3>4 DEF abc
  <2>6. AlphabetA2[z - 5] \in Byte
    <3> DEFINE A == AlphabetA2
    <3> HIDE DEF A
    <3> DEFINE k == z - 5
    <3>1. k \in 1 .. 26
      OBVIOUS
    <3> HIDE DEF k
    <3>2. A \in Seq(Byte) /\ Len(A) = 26
      BY <2>5 DEF A
    <3>3. A[k] \in Byte
      <4>1. k \in 1 .. Len(A)
        BY <3>1, <3>2
      <4> QED
        BY <3>2, <4>1, ElementOfSeq, Zenon
    <3> QED
      BY <3>3 DEF A, k
  <2> QED
    BY <1>3, <2>6 DEF Letter
<1> QED
  BY <1>1, <1>2, <1>3

LEMMA SizeIs == \A size \in Nat : \A image \in Image(size) : Cardinality(DOMAIN image) = size
<1> SUFFICES ASSUME NEW size \in Nat, NEW image \in Image(size)
             PROVE  Cardinality(DOMAIN image) = size
  OBVIOUS
<1>1. DOMAIN image = 0 .. size - 1
  BY DEF Image
<1>2. Cardinality(0 .. size - 1) = IF 0 > size - 1 THEN 0 ELSE size - 1 - 0 + 1
  BY FS_Interval
<1> QED
  BY <1>1, <1>2

LEMMA RemainingIs ==
  ASSUME NEW size \in Nat, NEW image \in Image(size), NEW at \in Nat, at <= size
  PROVE  Remaining(image, at) \in Even /\ at + Remaining(image, at) <= size
<1> DEFINE n == 2 * ((size - at) \div 2)
<1>1. Remaining(image, at) = n % AddrMod
  BY SizeIs DEF Remaining
<1>2. n \in Nat /\ n <= size - at /\ n % 2 = 0
  OBVIOUS
<1> HIDE DEF n
<1>3. AddrMod \in Nat \ {0}
  BY Addresses
<1>4. n % AddrMod <= n /\ n % AddrMod \in Nat
  BY <1>2, <1>3
<1>5. (n % AddrMod) % 2 = 0
  BY <1>2, SameParity
<1> QED
  BY <1>1, <1>2, <1>4, <1>5 DEF Even

\* What a text's stream may be, as it is read on and letters are shifted.
Closed(image, P) ==
  /\ P \subseteq Stream
  /\ \A s \in P : \A shift \in 0 .. 2 : [s EXCEPT !.shift = shift] \in P
  /\ \A s \in P : ~ Exhausted(s) /\ Readable(image, s) => Behind(image, s) \in P

Safe(size) == {s \in Stream : Inside(size, s)}

LEMMA ShiftIs ==
  ASSUME NEW size, NEW s \in Stream, NEW shift \in 0 .. 2
  PROVE  LET t == [s EXCEPT !.shift = shift]
         IN /\ t \in Stream /\ t.at = s.at /\ t.left = s.left /\ t.final = s.final
            /\ Inside(size, s) => Inside(size, t)
  BY DEF Stream, Inside

LEMMA StreamsAreClosed ==
  ASSUME NEW size \in Nat, NEW image \in Image(size)
  PROVE  Closed(image, Stream) /\ Closed(image, Safe(size))
<1>1. ASSUME NEW s \in Stream, NEW shift \in 0 .. 2
      PROVE  /\ [s EXCEPT !.shift = shift] \in Stream
             /\ Inside(size, s) => Inside(size, [s EXCEPT !.shift = shift])
  BY ShiftIs
<1>2. ASSUME NEW s \in Stream, ~ Exhausted(s), Readable(image, s)
      PROVE  /\ Behind(image, s) \in Stream
             /\ Inside(size, s) => Inside(size, Behind(image, s))
  BY <1>2, ZcharIsTaken
<1> QED
  BY <1>1, <1>2 DEF Closed, Safe

LEMMA SafeIsReadable ==
  ASSUME NEW size \in Nat, NEW image \in Image(size), NEW s \in Safe(size), ~ Exhausted(s)
  PROVE  Readable(image, s)
<1>1. s.at \in Nat /\ s.left \in Nat /\ s.left % 2 = 0 /\ s.pos \in 0 .. 3 /\ s.at + s.left <= size
  BY DEF Safe, Stream, Even, Inside
<1>2. CASE s.pos = 3
  <2>1. s.left # 0
    BY <1>2 DEF Exhausted
  <2>2. s.at \in 0 .. size - 1 /\ s.at + 1 \in 0 .. size - 1
    BY <1>1, <2>1
  <2> QED
    BY <2>2 DEF Readable, Image
<1>3. CASE s.pos # 3
  BY <1>1, <1>3 DEF Readable
<1> QED
  BY <1>2, <1>3

\* A text whose stream is in P, and perhaps an abbreviation.
Stacks(size, P) ==
  {q \in Seq(Stream) : /\ Len(q) \in {1, 2} /\ q[1] \in P
                       /\ Len(q) = 2 => q[2] \in Safe(size)}
Tops(size, P, q) == IF Len(q) = 1 THEN P ELSE Safe(size)

LEMMA TopIs ==
  ASSUME NEW size \in Nat, NEW P, P \subseteq Stream, NEW q \in Stacks(size, P)
  PROVE  /\ Last(q) \in Tops(size, P, q) /\ Last(q) \in Stream /\ Last(q) = q[Len(q)]
         /\ \A u \in Tops(size, P, q) :
              /\ WithTop(q, u) \in Stacks(size, P) /\ Len(WithTop(q, u)) = Len(q)
              /\ Last(WithTop(q, u)) = u
<1>1. q \in Seq(Stream) /\ Len(q) \in {1, 2} /\ q[1] \in P /\ (Len(q) = 2 => q[2] \in Safe(size))
  BY DEF Stacks
<1>2. Last(q) = q[Len(q)]
  BY DEF Last
<1>3. Last(q) \in Tops(size, P, q) /\ Last(q) \in Stream
  <2>1. CASE Len(q) = 1
    BY <1>1, <1>2, <2>1 DEF Tops
  <2>2. CASE Len(q) = 2
    BY <1>1, <1>2, <2>2 DEF Tops
  <2> QED
    BY <1>1, <2>1, <2>2
<1>4. ASSUME NEW u \in Tops(size, P, q)
      PROVE  /\ WithTop(q, u) \in Stacks(size, P) /\ Len(WithTop(q, u)) = Len(q)
             /\ Last(WithTop(q, u)) = u
  <2> DEFINE n == Len(q)
             w == [q EXCEPT ![n] = u]
  <2>1. WithTop(q, u) = w
    BY DEF WithTop
  <2>2. u \in Stream
    BY <1>1 DEF Tops, Safe
  <2>3. w \in Seq(Stream) /\ Len(w) = n /\ w[n] = u /\ (n = 2 => w[1] = q[1])
    BY <1>1, <2>2
  <2> HIDE DEF w
  <2>4. w \in Stacks(size, P)
    <3>1. CASE n = 1
      <4>1. u \in P
        BY <3>1 DEF Tops
      <4> QED
        BY <2>3, <3>1, <4>1 DEF Stacks
    <3>2. CASE n = 2
      <4>1. u \in Safe(size)
        BY <3>2 DEF Tops
      <4> QED
        BY <1>1, <2>3, <3>2, <4>1 DEF Stacks
    <3> QED
      BY <1>1, <3>1, <3>2
  <2>5. Last(w) = u
    BY <2>3 DEF Last
  <2> QED
    BY <2>1, <2>3, <2>4, <2>5
<1> QED
  BY <1>2, <1>3, <1>4

\* What a step of decoding promises.
Decoded(size, P, q, t) ==
  /\ t.how \in Outcomes /\ t.chars \in Seq(Byte)
  /\ t.how = "more" => t.streams \in Stacks(size, P)
  /\ t.how = "end" => Len(q) = 1 /\ Exhausted(q[1])
  /\ t.how = "undefined" => ~ Inside(size, q[1])

LEMMA StepIs ==
  ASSUME NEW size, NEW P, NEW q, NEW streams, NEW chars \in Seq(Byte)
  PROVE  /\ Decoded(size, P, q, Step("error", streams, chars))
         /\ streams \in Stacks(size, P) => Decoded(size, P, q, Step("more", streams, chars))
         /\ Len(q) = 1 /\ Exhausted(q[1]) => Decoded(size, P, q, Step("end", streams, chars))
         /\ ~ Inside(size, q[1]) => Decoded(size, P, q, Step("undefined", streams, chars))
  BY DEF Decoded, Step, Outcomes

LEMMA SecondOf ==
  ASSUME NEW S, NEW q \in Seq(S), Len(q) = 1, NEW s \in S
  PROVE  /\ Append(q, s) \in Seq(S) /\ Len(Append(q, s)) = 2
         /\ Append(q, s)[1] = q[1] /\ Append(q, s)[2] = s
<1>1. Append(q, s) \in Seq(S)
  OBVIOUS
<1>2. Len(Append(q, s)) = 2
  OBVIOUS
<1>3. Append(q, s)[1] = q[1]
  OBVIOUS
<1>4. Append(q, s)[2] = s
  <2>1. Append(q, s)[Len(q) + 1] = s
    BY AppendProperties, Zenon
  <2>2. Len(q) + 1 = 2
    OBVIOUS
  <2> QED
    BY <2>1, <2>2, Zenon
<1> QED
  BY <1>1, <1>2, <1>3, <1>4

LEMMA AbbreviationIsOpened ==
  ASSUME NEW size \in Nat, NEW image \in Image(size), NEW table \in Nat,
         NEW P, P \subseteq Stream, NEW q \in Stacks(size, P), Len(q) = 1, NEW first,
         NEW bank \in Int, NEW index \in Int
  PROVE  Decoded(size, P, first, OpenAbbreviation(image, table, q, bank, index))
<1> DEFINE entry == (table + 2 * (32 * (bank - 1) + index)) % AddrMod
           high == image[entry]
           low == image[entry + 1]
           target == (2 * (256 * high + low)) % AddrMod
           s == zchar_stream_init(target, Remaining(image, target))
           longer == Append(q, s)
<1>1. OpenAbbreviation(image, table, q, bank, index) =
        IF entry + 1 >= size \/ target > size THEN Step("error", q, <<>>)
        ELSE Step("more", longer, <<>>)
  BY SizeIs DEF OpenAbbreviation
<1>2. entry \in Nat
  <2>1. table + 2 * (32 * (bank - 1) + index) \in Int
    OBVIOUS
  <2> QED
    BY <2>1, Wraps
<1> HIDE DEF entry
<1>3. <<>> \in Seq(Byte)
  OBVIOUS
<1>4. ASSUME ~ (entry + 1 >= size), ~ (target > size) PROVE longer \in Stacks(size, P)
  <2>1. entry \in 0 .. size - 1 /\ entry + 1 \in 0 .. size - 1
    BY <1>2, <1>4
  <2>2. high \in Byte /\ low \in Byte
    BY <2>1 DEF Image
  <2> HIDE DEF high, low
  <2>3. target \in Nat
    <3>1. 2 * (256 * high + low) \in Int
      BY <2>2, ByteIs
    <3> QED
      BY <3>1, Wraps
  <2> HIDE DEF target
  <2>4. target <= size
    BY <1>4, <2>3
  <2>5. Remaining(image, target) \in Even /\ target + Remaining(image, target) <= size
    BY <2>3, <2>4, RemainingIs
  <2>6. s \in Stream /\ s.at = target /\ s.left = Remaining(image, target)
    BY <2>3, <2>5, StreamStarts
  <2> HIDE DEF s
  <2>7. s \in Safe(size)
    BY <2>5, <2>6 DEF Safe, Inside
  <2>8. q \in Seq(Stream) /\ q[1] \in P
    BY DEF Stacks
  <2>9. longer \in Seq(Stream) /\ Len(longer) = 2 /\ longer[1] = q[1] /\ longer[2] = s
    BY <2>6, <2>8, SecondOf
  <2> HIDE DEF longer
  <2> QED
    BY <2>7, <2>8, <2>9 DEF Stacks
<1> HIDE DEF target, longer
<1> QED
  BY <1>1, <1>3, <1>4, StepIs

LEMMA ReferenceIsFollowed ==
  ASSUME NEW size \in Nat, NEW image \in Image(size), NEW table \in Nat,
         NEW P, Closed(image, P), NEW q \in Stacks(size, P), NEW bank \in Int
  PROVE  Decoded(size, P, q, Reference(image, table, q, bank))
<1> DEFINE s == Last(q)
           t == Behind(image, s)
           z == Zchar(image, s)
           further == OpenAbbreviation(image, table, WithTop(q, t), bank, z)
<1>1. Reference(image, table, q, bank) =
        IF Len(q) > 1 \/ Exhausted(s) THEN Step("error", q, <<>>)
        ELSE IF ~ Readable(image, s) THEN Step("undefined", q, <<>>) ELSE further
  BY DEF Reference
<1>2. P \subseteq Stream
  BY DEF Closed
<1>3. Len(q) \in {1, 2} /\ <<>> \in Seq(Byte)
  BY DEF Stacks
<1>4. ASSUME Len(q) = 1 PROVE s \in P /\ s = q[1] /\ s \in Stream
  BY <1>2, <1>4, TopIs, ZenonT(40) DEF Tops
<1> HIDE DEF s
<1>5. ASSUME Len(q) = 1, ~ Exhausted(s), Readable(image, s) PROVE Decoded(size, P, q, further)
  <2>1. t \in P /\ z \in 0 .. 31
    BY <1>4, <1>5, ZcharIsTaken DEF Closed
  <2>2. z \in Int
    BY <2>1
  <2>3. t \in Tops(size, P, q)
    BY <1>5, <2>1 DEF Tops
  <2> HIDE DEF t, z
  <2>4. WithTop(q, t) \in Stacks(size, P) /\ Len(WithTop(q, t)) = 1
    BY <1>2, <1>5, <2>3, TopIs
  <2> QED
    BY <1>2, <2>2, <2>4, AbbreviationIsOpened
<1>6. ASSUME Len(q) = 1, ~ Exhausted(s), ~ Readable(image, s) PROVE ~ Inside(size, q[1])
  BY <1>4, <1>6, SafeIsReadable DEF Safe
<1> HIDE DEF further
<1>7. /\ Decoded(size, P, q, Step("error", q, <<>>))
      /\ ~ Inside(size, q[1]) => Decoded(size, P, q, Step("undefined", q, <<>>))
  <2>1. <<>> \in Seq(Byte)
    BY <1>3
  <2> QED
    BY <2>1, StepIs
<1>8. ~ (Len(q) > 1) => Len(q) = 1
  BY <1>3
<1> QED
  BY <1>1, <1>5, <1>6, <1>7, <1>8

LEMMA TextIsDecoded ==
  ASSUME NEW size \in Nat, NEW image \in Image(size), NEW table \in Nat,
         NEW P, Closed(image, P), NEW q \in Stacks(size, P)
  PROVE  Decoded(size, P, q, ztext_decode_step(image, table, q))
<1> DEFINE s == Last(q)
           z == Zchar(image, s)
           t == Behind(image, s)
           T == Tops(size, P, q)
           e1 == Step(IF Len(q) = 1 THEN "end" ELSE "more", Front(q), <<>>)
           e2 == Step("undefined", q, <<>>)
           e3 == Step("more", WithTop(q, t), <<32>>)
           e4 == Reference(image, table, WithTop(q, t), z)
           e5 == Step("more", WithShift(q, t, z - 3), <<>>)
           e6 == Step("more", WithShift(q, t, 0), <<Letter(t.shift, z)>>)
<1>1. ztext_decode_step(image, table, q) =
        IF Exhausted(s) THEN e1
        ELSE IF ~ Readable(image, s) THEN e2
        ELSE IF z = 0 THEN e3
        ELSE IF z \in 1 .. 3 THEN e4
        ELSE IF z \in {4, 5} THEN e5 ELSE e6
  BY DEF ztext_decode_step
<1>2. /\ P \subseteq Stream /\ q \in Seq(Stream) /\ Len(q) \in {1, 2} /\ q[1] \in P
      /\ Len(q) = 2 => q[2] \in Safe(size)
  BY DEF Closed, Stacks
<1>3. s \in T /\ s \in Stream /\ s = q[Len(q)]
  BY <1>2, TopIs
<1>4. Closed(image, T)
  BY StreamsAreClosed DEF Tops
<1>5. <<>> \in Seq(Byte) /\ <<32>> \in Seq(Byte)
  BY ByteIs
<1>6. ASSUME Exhausted(s) PROVE Decoded(size, P, q, e1)
  <2>1. CASE Len(q) = 1
    BY <1>3, <1>5, <1>6, <2>1, StepIs
  <2>2. CASE Len(q) = 2
    <3>1. q # <<>>
      BY <2>2
    <3>2. Front(q) \in Seq(Stream) /\ Len(Front(q)) = Len(q) - 1 /\ \A k \in 1 .. Len(q) - 1 : Front(q)[k] = q[k]
      BY <1>2, <3>1, Shorter
    <3>3. Len(Front(q)) = 1 /\ Front(q)[1] = q[1]
      BY <2>2, <3>2
    <3>4. Front(q) \in Stacks(size, P)
      BY <1>2, <3>2, <3>3 DEF Stacks
    <3>5. e1 = Step("more", Front(q), <<>>)
      BY <2>2
    <3> QED
      BY <1>5, <3>4, <3>5, StepIs
  <2> QED
    BY <1>2, <2>1, <2>2
<1> HIDE DEF s, e1
<1>7. ASSUME ~ Exhausted(s), ~ Readable(image, s) PROVE Decoded(size, P, q, e2)
  <2>1. s \notin Safe(size)
    BY <1>7, SafeIsReadable
  <2>2. Len(q) = 1 /\ ~ Inside(size, q[1])
    BY <1>2, <1>3, <2>1 DEF Safe, Tops
  <2> QED
    BY <1>5, <2>2, StepIs
<1> HIDE DEF e2
<1>8. ASSUME ~ Exhausted(s), Readable(image, s)
      PROVE  /\ t \in T /\ t \in Stream /\ z \in 0 .. 31
             /\ Len(q) = 1 => (Inside(size, q[1]) => Inside(size, t))
  <2>1. t \in T
    BY <1>3, <1>4, <1>8 DEF Closed
  <2> QED
    BY <1>3, <1>8, <2>1, ZcharIsTaken
<1> HIDE DEF t, z, T
<1>9. ASSUME NEW u \in T PROVE WithTop(q, u) \in Stacks(size, P) /\ Len(WithTop(q, u)) = Len(q) /\ Last(WithTop(q, u)) = u
  BY <1>2, TopIs DEF T
<1>10. ASSUME ~ Exhausted(s), Readable(image, s) PROVE Decoded(size, P, q, e3)
  BY <1>5, <1>8, <1>9, <1>10, StepIs
<1> HIDE DEF e3
<1>11. ASSUME ~ Exhausted(s), Readable(image, s) PROVE Decoded(size, P, q, e4)
  <2> DEFINE w == WithTop(q, t)
  <2>1. w \in Stacks(size, P) /\ Len(w) = Len(q) /\ Last(w) = t
    BY <1>8, <1>9, <1>11
  <2>2. z \in Int
    BY <1>8, <1>11
  <2> HIDE DEF w
  <2>3. Decoded(size, P, w, Reference(image, table, w, z))
    BY <2>1, <2>2, ReferenceIsFollowed
  <2>4. Reference(image, table, w, z).how # "end"
    <3>1. \A u, v : /\ Step("error", u, v).how = "error" /\ Step("undefined", u, v).how = "undefined"
                    /\ Step("more", u, v).how = "more"
      BY DEF Step
    <3> QED
      BY <3>1 DEF Reference, OpenAbbreviation
  <2>5. Reference(image, table, w, z).how = "undefined" => Len(w) = 1
    <3>1. \A u, v : Step("error", u, v).how = "error"
      BY DEF Step
    <3>2. Len(w) > 1 => Reference(image, table, w, z).how = "error"
      BY <3>1 DEF Reference
    <3> QED
      BY <1>2, <2>1, <3>2
  <2>6. Len(w) = 1 => w[1] = t
    BY <2>1 DEF Last
  <2> DEFINE r == Reference(image, table, w, z)
  <2>7. e4 = r
    BY DEF w
  <2> HIDE DEF r
  <2>8. r.how # "end" /\ Decoded(size, P, w, r) /\ (r.how = "undefined" => Len(w) = 1)
    BY <2>3, <2>4, <2>5 DEF r
  <2>9. r.how = "undefined" => ~ Inside(size, q[1])
    BY <1>8, <1>11, <2>1, <2>6, <2>8 DEF Decoded
  <2>10. Decoded(size, P, q, r)
    BY <2>8, <2>9 DEF Decoded
  <2> QED
    BY <2>7, <2>10
<1> HIDE DEF e4
<1>12. ASSUME ~ Exhausted(s), Readable(image, s), NEW shift \in 0 .. 2
       PROVE  WithShift(q, t, shift) \in Stacks(size, P)
  <2>1. [t EXCEPT !.shift = shift] \in T
    BY <1>4, <1>8, <1>12 DEF Closed
  <2> QED
    BY <1>9, <2>1 DEF WithShift
<1>13. ASSUME ~ Exhausted(s), Readable(image, s), z \in {4, 5} PROVE Decoded(size, P, q, e5)
  <2>1. z - 3 \in 0 .. 2
    BY <1>13
  <2> QED
    BY <1>5, <1>12, <1>13, <2>1, StepIs
<1>14. ASSUME ~ Exhausted(s), Readable(image, s), z # 0, z \notin 1 .. 3, z \notin {4, 5}
       PROVE  Decoded(size, P, q, e6)
  <2>1. z \in 6 .. 31
    BY <1>8, <1>14
  <2>2. t.shift \in 0 .. 2
    BY <1>8, <1>14 DEF Stream
  <2>3. Letter(t.shift, z) \in Byte
    BY <2>1, <2>2, LetterIs
  <2>4. <<Letter(t.shift, z)>> \in Seq(Byte)
    BY <2>3
  <2> DEFINE c == <<Letter(t.shift, z)>>
             w == WithShift(q, t, 0)
  <2>5. w \in Stacks(size, P)
    BY <1>12, <1>14
  <2>6. e6 = Step("more", w, c)
    OBVIOUS
  <2>7. c \in Seq(Byte)
    BY <2>4
  <2> HIDE DEF c, w, e6
  <2> QED
    BY <2>5, <2>6, <2>7, StepIs
<1> HIDE DEF e5, e6
<1> QED
  BY <1>1, <1>6, <1>7, <1>10, <1>11, <1>13, <1>14

\* The stream that printing a text starts with.
LEMMA TextIs ==
  ASSUME NEW size \in Nat, NEW s \in Machine(size), NEW i \in Instr,
         i.category \in {"zero", "one"}, i.opcode \in TextOpcodes[i.category],
         NEW x \in Seq(Bits), Len(x) = Len(i.types)
  PROVE  LET r == TextOf(s, i, x)
         IN /\ r \in Yield(Machine(size), Stream)
            /\ r.ok /\ i.category = "one" /\ i.opcode # 10 => Inside(size, r.value)
            /\ i.category = "zero" =>
                 r = Value(s, zchar_stream_init(i.addr + 1, i.length - 1)) /\ i.opcode = 2
            /\ i.category = "one" => i.opcode \in {7, 10, 13}
<1> DEFINE Out == Yield(Machine(size), Stream)
           at(a) == zchar_stream_init(a, Remaining(s.image, a))
           d == (x[1] * 2) % AddrMod
           n == obj_short_name(s.image, story.objects, x[1] % 256)
           h == On(s, n)
           named == AndThen(h, LAMBDA r : Value(s, zchar_stream_init(r.value.at, r.value.length)))
           own == Value(s, zchar_stream_init(i.addr + 1, i.length - 1))
<1>1. TextOf(s, i, x) =
        IF i.category = "zero" THEN own
        ELSE IF i.opcode = 7 THEN print_ztext_at(s, x[1])
        ELSE IF i.opcode = 13 THEN print_ztext_at(s, d) ELSE named
  BY DEF TextOf
<1>2. s.image \in Image(size)
  BY DEF Machine
<1>3. ASSUME NEW a \in Nat
      PROVE  /\ print_ztext_at(s, a) \in Out
             /\ print_ztext_at(s, a).ok => Inside(size, print_ztext_at(s, a).value)
  <2>1. Cardinality(DOMAIN s.image) = size
    BY <1>2, SizeIs
  <2>2. print_ztext_at(s, a) = IF a > size THEN Fail(s) ELSE Value(s, at(a))
    BY <2>1 DEF print_ztext_at
  <2>3. Fail(s) \in Out /\ ~ Fail(s).ok
    BY Yields, Parts
  <2>4. CASE a <= size
    <3> DEFINE left == Remaining(s.image, a)
    <3>1. left \in Even /\ a + left <= size
      BY <1>2, <2>4, RemainingIs
    <3> HIDE DEF left
    <3> DEFINE st == zchar_stream_init(a, left)
    <3>2. st \in Stream /\ st.at = a /\ st.left = left
      BY <3>1, StreamStarts, ZenonT(40)
    <3>3. Inside(size, st)
      BY <3>1, <3>2 DEF Inside
    <3>4. print_ztext_at(s, a) = Value(s, st)
      BY <2>2, <2>4 DEF left
    <3> HIDE DEF st
    <3>5. Value(s, st) \in Out /\ Value(s, st).value = st
      BY <3>2, Yields, Parts
    <3> QED
      BY <3>3, <3>4, <3>5
  <2>5. CASE ~ (a <= size)
    BY <2>2, <2>3, <2>5
  <2> QED
    BY <2>4, <2>5
<1>4. i.category = "zero" => own \in Out /\ i.opcode = 2
  <2> SUFFICES ASSUME i.category = "zero" PROVE own \in Out /\ i.opcode = 2
    OBVIOUS
  <2>1. i.opcode = 2
    BY DEF TextOpcodes
  <2>2. i.length % 2 = 1 /\ i.length \in Address /\ i.addr \in Nat
    BY <2>1 DEF Instr
  <2>3. i.length \in Nat
    BY <2>2, Addresses, WordRange DEF Address
  <2>4. i.length - 1 \in Even /\ i.addr + 1 \in Nat
    BY <2>2, <2>3 DEF Even
  <2>5. zchar_stream_init(i.addr + 1, i.length - 1) \in Stream
    BY <2>4, StreamStarts
  <2> QED
    BY <2>1, <2>5, Yields
<1>5. i.category = "one" => x[1] \in Bits /\ i.opcode \in {7, 10, 13}
  <2> SUFFICES ASSUME i.category = "one" PROVE x[1] \in Bits /\ i.opcode \in {7, 10, 13}
    OBVIOUS
  <2>1. Len(x) = 1
    BY DEF Instr
  <2> QED
    BY <2>1, SMTT(30) DEF TextOpcodes
<1>6. i.category = "one" => x[1] \in Nat /\ d \in Nat
  <2> SUFFICES ASSUME i.category = "one" PROVE x[1] \in Nat /\ d \in Nat
    OBVIOUS
  <2>1. x[1] \in Nat
    BY <1>5, WordRange
  <2>2. x[1] * 2 \in Int
    BY <2>1
  <2> QED
    BY <2>1, <2>2, Wraps
<1>7. named \in Out
  <2>1. n \in Yield(Image(size), Name)
    BY <1>2, NameIs, Widened, ZenonT(40)
  <2> HIDE DEF n
  <2>2. h \in Yield(Machine(size), Name)
    BY <2>1, OnMachine
  <2> HIDE DEF h
  <2>3. h.ok => Value(s, zchar_stream_init(h.value.at, h.value.length)) \in Out
    <3> SUFFICES ASSUME h.ok PROVE Value(s, zchar_stream_init(h.value.at, h.value.length)) \in Out
      OBVIOUS
    <3>1. h.value \in Name
      BY <2>2, Yielded
    <3>2. h.value.at \in Address /\ h.value.length \in Even
      BY <3>1 DEF Name, Even
    <3>3. h.value.at \in Nat
      BY <3>2 DEF Address
    <3> QED
      BY <3>2, <3>3, StreamStarts, Yields
  <2>4. named = IF h.ok THEN Value(s, zchar_stream_init(h.value.at, h.value.length)) ELSE h
    BY DEF AndThen, Then
  <2> QED
    BY <2>2, <2>3, <2>4, Follows
<1> HIDE DEF own, named, d, Out
<1>8. CASE i.category = "zero"
  BY <1>1, <1>4, <1>8 DEF Out, own
<1>9. CASE i.category = "one"
  <2>1. i.category # "zero"
    BY <1>9
  <2>2. CASE i.opcode = 7
    BY <1>1, <1>3, <1>5, <1>6, <1>9, <2>1, <2>2 DEF Out
  <2>3. CASE i.opcode = 13
    BY <1>1, <1>3, <1>5, <1>6, <1>9, <2>1, <2>3 DEF Out
  <2>4. CASE i.opcode = 10
    BY <1>1, <1>5, <1>7, <1>9, <2>1, <2>4 DEF Out
  <2> QED
    BY <1>5, <1>9, <2>2, <2>3, <2>4
<1> QED
  BY <1>8, <1>9

-----------------------------------------------------------------------------
(* The tokenizer.                                                          *)

SeparatorFound(image, dict, c, n) ==
  FirstFound(image, n, LAMBDA k : read8(image, dict + k), LAMBDA s : s = c)

LEMMA SeparatorFoundIs ==
  ASSUME NEW size \in Nat, NEW image \in Image(size), NEW dict, NEW c, NEW n \in Nat
  PROVE  SeparatorFound(image, dict, c, n) \in Yield({image}, 0 .. n)
<1> DEFINE item(k) == read8(image, dict + k)
           Leaves(m) == \E i \in {item(m + 1)} : ~ i.ok \/ i.value = c
           Is(k) == (k = n \/ Leaves(k)) /\ \A m \in 0 .. k - 1 : ~ Leaves(m)
           p == Passes(n, LAMBDA m : Leaves(m))
           last(q) == AndThen(item(q.value + 1), LAMBDA i : Value(image, q.value + 1))
           rest(q) == IF q.value = n THEN Value(image, 0) ELSE last(q)
           found == SeparatorFound(image, dict, c, n)
<1>1. found = AndThen(Value(image, p), LAMBDA q : rest(q))
  BY DEF SeparatorFound, FirstFound
<1>2. p = CHOOSE k \in 0 .. n : Is(k)
  BY DEF Passes
<1>3. \A k : item(k) \in Yield({image}, Byte)
  BY ReadsByte
<1> HIDE DEF item, Leaves, p, last, rest
<1>4. p \in 0 .. n
  <2> DEFINE S == {m \in 0 .. n : Leaves(m)}
  <2>1. PICK k : IsFirst(k, n, S)
    <3> HIDE DEF S
    <3> QED
      BY FirstExists
  <2>2. k \in 0 .. n /\ Is(k)
    BY <2>1 DEF IsFirst
  <2> HIDE DEF Is
  <2> QED
    BY <1>2, <2>2
<1> DEFINE v == Value(image, p)
<1>5. found = rest(v)
  <2>1. AndThen(v, LAMBDA q : rest(q)) = IF v.ok THEN rest(v) ELSE v
    BY DEF AndThen, Then
  <2> QED
    BY <1>1, <2>1, Parts
<1>6. v.value = p
  BY Parts
<1> HIDE DEF v
<1>7. last(v) = IF item(v.value + 1).ok THEN Value(image, v.value + 1) ELSE item(v.value + 1)
  BY DEF last, AndThen, Then
<1>8. CASE p = n
  <2>1. found = Value(image, 0)
    BY <1>5, <1>6, <1>8 DEF rest
  <2>2. 0 \in 0 .. n
    OBVIOUS
  <2> QED
    BY <2>1, <2>2, Yields
<1>9. CASE p # n
  <2>1. found = last(v)
    BY <1>5, <1>6, <1>9 DEF rest
  <2>2. p + 1 \in 0 .. n
    BY <1>4, <1>9
  <2>3. Value(image, p + 1) \in Yield({image}, 0 .. n)
    BY <2>2, Yields
  <2> DEFINE it == item(p + 1)
  <2>4. it \in Yield({image}, Byte)
    BY <1>3
  <2>5. found = IF it.ok THEN Value(image, p + 1) ELSE it
    BY <1>6, <1>7, <2>1
  <2> HIDE DEF it
  <2> QED
    BY <2>3, <2>4, <2>5, Follows
<1> QED
  BY <1>8, <1>9

LEMMA SeparatorIs ==
  ASSUME NEW size \in Nat, NEW image \in Image(size), NEW dict, NEW c
  PROVE  is_separator(image, dict, c) \in Yield({image}, BOOLEAN)
<1> DEFINE h == read8(image, dict)
           found(q) == SeparatorFound(image, dict, c, q.value)
           op(q) == AndThen(found(q), LAMBDA r : Value(image, r.value # 0))
<1>1. is_separator(image, dict, c) = AndThen(h, LAMBDA q : op(q))
  BY DEF is_separator, SeparatorFound
<1>2. h \in Yield({image}, Byte)
  BY ReadsByte
<1>3. h.ok => h.value \in Nat
  BY <1>2, Yielded, ByteIs DEF Byte
<1>4. h.ok => found(h) \in Yield({image}, 0 .. h.value)
  BY <1>3, SeparatorFoundIs
<1> HIDE DEF h, found
<1>5. op(h) = IF found(h).ok THEN Value(image, found(h).value # 0) ELSE found(h)
  BY DEF AndThen, Then
<1> HIDE DEF op
<1>6. h.ok => op(h) \in Yield({image}, BOOLEAN)
  <2>1. (found(h).value # 0) \in BOOLEAN
    OBVIOUS
  <2>2. Value(image, found(h).value # 0) \in Yield({image}, BOOLEAN)
    BY <2>1, Yields
  <2> QED
    BY <1>4, <1>5, <2>2, Follows
<1>7. AndThen(h, LAMBDA q : op(q)) = IF h.ok THEN op(h) ELSE h
  BY DEF AndThen, Then
<1> QED
  BY <1>1, <1>2, <1>6, <1>7, Follows

Encodings == [1 .. EncodedLength -> Byte]

LEMMA EncodingIsRead ==
  ASSUME NEW size \in Nat, NEW image \in Image(size), NEW at
  PROVE  ReadEncoded(image, at) \in Yield({image}, Encodings)
<1> DEFINE bytes == [k \in 1 .. EncodedLength |-> read8(image, at + k - 1)]
           v == [k \in 1 .. EncodedLength |-> bytes[k].value]
<1>1. ReadEncoded(image, at) =
        IF \A k \in DOMAIN bytes : bytes[k].ok THEN Value(image, [k \in DOMAIN bytes |-> bytes[k].value])
        ELSE Fail(image)
  BY DEF ReadEncoded
<1>2. \A k \in 1 .. EncodedLength : bytes[k] \in Yield({image}, Byte)
  BY ReadsByte
<1>3. DOMAIN bytes = 1 .. EncodedLength
  OBVIOUS
<1> HIDE DEF bytes
<1>4. (\A k \in DOMAIN bytes : bytes[k].ok) => v \in Encodings
  BY <1>2, <1>3, Yielded DEF Encodings
<1>5. [k \in DOMAIN bytes |-> bytes[k].value] = v
  BY <1>3
<1> HIDE DEF v
<1> QED
  BY <1>1, <1>4, <1>5, Yields

EntryAddress(header, k) == (header.entries + (k - 1) * header.length) % AddrMod

EntryFound(image, header, encoded, n) ==
  FirstFound(image, n, LAMBDA k : ReadEncoded(image, EntryAddress(header, k)), LAMBDA e : e = encoded)

LEMMA EntryFoundIs ==
  ASSUME NEW size \in Nat, NEW image \in Image(size), NEW header, NEW encoded, NEW n \in Nat
  PROVE  EntryFound(image, header, encoded, n) \in Yield({image}, 0 .. n)
<1> DEFINE item(k) == ReadEncoded(image, EntryAddress(header, k))
           Leaves(m) == \E i \in {item(m + 1)} : ~ i.ok \/ i.value = encoded
           Is(k) == (k = n \/ Leaves(k)) /\ \A m \in 0 .. k - 1 : ~ Leaves(m)
           p == Passes(n, LAMBDA m : Leaves(m))
           last(q) == AndThen(item(q.value + 1), LAMBDA i : Value(image, q.value + 1))
           rest(q) == IF q.value = n THEN Value(image, 0) ELSE last(q)
           found == EntryFound(image, header, encoded, n)
<1>1. found = AndThen(Value(image, p), LAMBDA q : rest(q))
  BY DEF EntryFound, FirstFound
<1>2. p = CHOOSE k \in 0 .. n : Is(k)
  BY DEF Passes
<1>3. \A k \in 1 .. n : item(k) \in Yield({image}, Encodings)
  BY EncodingIsRead
<1> HIDE DEF item, Leaves, p, last, rest
<1>4. p \in 0 .. n
  <2> DEFINE S == {m \in 0 .. n : Leaves(m)}
  <2>1. PICK k : IsFirst(k, n, S)
    <3> HIDE DEF S
    <3> QED
      BY FirstExists
  <2>2. k \in 0 .. n /\ Is(k)
    BY <2>1 DEF IsFirst
  <2> HIDE DEF Is
  <2> QED
    BY <1>2, <2>2
<1> DEFINE v == Value(image, p)
<1>5. found = rest(v)
  <2>1. AndThen(v, LAMBDA q : rest(q)) = IF v.ok THEN rest(v) ELSE v
    BY DEF AndThen, Then
  <2> QED
    BY <1>1, <2>1, Parts
<1>6. v.value = p
  BY Parts
<1> HIDE DEF v
<1>7. last(v) = IF item(v.value + 1).ok THEN Value(image, v.value + 1) ELSE item(v.value + 1)
  BY DEF last, AndThen, Then
<1>8. CASE p = n
  <2>1. found = Value(image, 0)
    BY <1>5, <1>6, <1>8 DEF rest
  <2>2. 0 \in 0 .. n
    OBVIOUS
  <2> QED
    BY <2>1, <2>2, Yields
<1>9. CASE p # n
  <2>1. found = last(v)
    BY <1>5, <1>6, <1>9 DEF rest
  <2>2. p + 1 \in 1 .. n /\ p + 1 \in 0 .. n
    BY <1>4, <1>9
  <2>3. Value(image, p + 1) \in Yield({image}, 0 .. n)
    BY <2>2, Yields
  <2> DEFINE it == item(p + 1)
  <2>4. it \in Yield({image}, Encodings)
    BY <1>3, <2>2
  <2>5. found = IF it.ok THEN Value(image, p + 1) ELSE it
    BY <1>6, <1>7, <2>1
  <2> HIDE DEF it
  <2> QED
    BY <2>3, <2>4, <2>5, Follows
<1> QED
  BY <1>8, <1>9


Header == [length : Byte, entries : Address, count : Int]

LEMMA HeaderIs ==
  ASSUME NEW size \in Nat, NEW image \in Image(size), NEW dict \in Int
  PROVE  dict_parse_header(image, dict) \in Yield({image}, Header)
<1> DEFINE at(s) == dict + 1 + s.value
           header(s, l, n) == [ length |-> l.value, entries |-> (at(s) + 3) % AddrMod,
                                count |-> IF n.value >= 2 ^ 15 THEN n.value - 2 ^ 16 ELSE n.value ]
           h1 == read8(image, dict)
           h2(s) == read8(image, at(s))
           h3(s, l) == IF l.value < EncodedLength THEN Fail(image) ELSE read16(image, at(s) + 1)
           op3(s, l, n) == Value(image, header(s, l, n))
           op2(s, l) == AndThen(h3(s, l), LAMBDA n : op3(s, l, n))
           op1(s) == AndThen(h2(s), LAMBDA l : op2(s, l))
           Out == Yield({image}, Header)
<1>1. dict_parse_header(image, dict) = AndThen(h1, LAMBDA s : op1(s))
  BY DEF dict_parse_header
<1>2. h1 \in Yield({image}, Byte) /\ \A s : h2(s) \in Yield({image}, Byte)
  BY ReadsByte
<1>3. \A s, l : h3(s, l) \in Yield({image}, Bits)
  BY Yields, ReadsWord
<1>4. ASSUME NEW s, NEW l, NEW n, s.value \in Byte, l.value \in Byte, n.value \in Bits
      PROVE  header(s, l, n) \in Header
  <2>1. (at(s) + 3) % AddrMod \in Address
    <3>1. at(s) + 3 \in Int
      <4>1. s.value \in Int
        BY <1>4, ByteRange
      <4> QED
        BY <4>1
    <3> HIDE DEF at
    <3> QED
      BY <3>1, Wraps
  <2>2. n.value \in Int /\ 2 ^ 16 = 65536
    BY <1>4, WordRange
  <2> DEFINE count == IF n.value >= 2 ^ 15 THEN n.value - 2 ^ 16 ELSE n.value
             entries == (at(s) + 3) % AddrMod
  <2>3. count \in Int
    BY <2>2
  <2> HIDE DEF count, entries
  <2>4. [length |-> l.value, entries |-> entries, count |-> count] \in Header
    BY <1>4, <2>1, <2>3 DEF Header, entries
  <2> QED
    BY <2>4 DEF count, entries
<1> HIDE DEF at, header, h1, h2, h3
<1>5. \A s, l : op2(s, l) = IF h3(s, l).ok THEN op3(s, l, h3(s, l)) ELSE h3(s, l)
  BY DEF AndThen, Then
<1> HIDE DEF op2
<1>6. \A s : op1(s) = IF h2(s).ok THEN op2(s, h2(s)) ELSE h2(s)
  BY DEF AndThen, Then
<1> HIDE DEF op1
<1>7. AndThen(h1, LAMBDA s : op1(s)) = IF h1.ok THEN op1(h1) ELSE h1
  BY DEF AndThen, Then
<1>8. ASSUME h1.ok PROVE op1(h1) \in Out
  <2>1. h1.value \in Byte
    BY <1>2, <1>8, Yielded
  <2>2. ASSUME h2(h1).ok PROVE op2(h1, h2(h1)) \in Out
    <3> DEFINE s == h1
               l == h2(h1)
    <3>1. l.value \in Byte
      BY <1>2, <2>2, Yielded
    <3> HIDE DEF l, s
    <3>2. h3(s, l).ok => op3(s, l, h3(s, l)) \in Out
      <4> SUFFICES ASSUME h3(s, l).ok PROVE op3(s, l, h3(s, l)) \in Out
        OBVIOUS
      <4>1. h3(s, l).value \in Bits
        BY <1>3, Yielded
      <4>2. header(s, l, h3(s, l)) \in Header
        BY <1>4, <2>1, <3>1, <4>1 DEF s
      <4> QED
        BY <4>2, Yields
    <3> HIDE DEF op3
    <3>3. op2(s, l) \in Out
      BY <1>3, <1>5, <3>2, Follows
    <3> QED
      BY <3>3 DEF s, l
  <2> QED
    BY <1>2, <1>6, <2>2, Follows
<1> QED
  BY <1>1, <1>2, <1>7, <1>8, Follows

LEMMA WordIsLookedUp ==
  ASSUME NEW size \in Nat, NEW image \in Image(size), NEW header \in Header, NEW encoded
  PROVE  dict_lookup(image, header, encoded) \in Yield({image}, Bits)
<1> DEFINE count == IF header.count = - (2 ^ 15) THEN 0 ELSE Abs(header.count)
           h == EntryFound(image, header, encoded, count)
           at(r) == IF r.value = 0 THEN 0 ELSE EntryAddress(header, r.value)
           op(r) == Value(image, at(r))
<1>1. dict_lookup(image, header, encoded) = AndThen(h, LAMBDA r : op(r))
  BY DEF dict_lookup, EntryFound, EntryAddress
<1>2. header.count \in Int /\ header.entries \in Int /\ header.length \in Int
  <2>1. header.count \in Int /\ header.entries \in Address /\ header.length \in Byte
    BY DEF Header
  <2> QED
    BY <2>1, AddressRange, ByteRange
<1>3. count \in Nat
  BY <1>2 DEF Abs
<1> HIDE DEF count
<1>4. h \in Yield({image}, 0 .. count)
  BY <1>3, EntryFoundIs
<1> HIDE DEF h
<1>5. h.ok => op(h) \in Yield({image}, Bits)
  <2> SUFFICES ASSUME h.ok PROVE op(h) \in Yield({image}, Bits)
    OBVIOUS
  <2>1. h.value \in Int
    BY <1>3, <1>4, Yielded
  <2>2. header.entries + (h.value - 1) * header.length \in Int
    BY <1>2, <2>1
  <2>3. EntryAddress(header, h.value) \in Address
    BY <2>2, Wraps DEF EntryAddress
  <2>4. at(h) \in Bits
    <3>1. EntryAddress(header, h.value) \in Bits /\ 0 \in Bits
      BY <2>3, AddressRange, WordIs
    <3> QED
      BY <3>1
  <2> HIDE DEF at
  <2> QED
    BY <2>4, Yields
<1> HIDE DEF op
<1>6. AndThen(h, LAMBDA r : op(r)) = IF h.ok THEN op(h) ELSE h
  BY DEF AndThen, Then
<1> QED
  BY <1>1, <1>4, <1>5, <1>6, Follows

LEMMA WordIsFound ==
  ASSUME NEW size \in Nat, NEW image \in Image(size), NEW dict \in Int, NEW text
  PROVE  dict_find_word(image, dict, text) \in Yield({image}, Bits)
<1> DEFINE encoded == ztext_encode(text)
           h == dict_parse_header(image, dict)
           op(q) == dict_lookup(image, q.value, encoded.value)
<1>1. dict_find_word(image, dict, text) =
        IF ~ encoded.ok THEN Fail(image) ELSE AndThen(h, LAMBDA q : op(q))
  BY DEF dict_find_word
<1>2. h \in Yield({image}, Header)
  BY HeaderIs
<1> HIDE DEF h, encoded
<1>3. h.ok => op(h) \in Yield({image}, Bits)
  BY <1>2, Yielded, WordIsLookedUp
<1> HIDE DEF op
<1>4. AndThen(h, LAMBDA q : op(q)) = IF h.ok THEN op(h) ELSE h
  BY DEF AndThen, Then
<1> QED
  BY <1>1, <1>2, <1>3, <1>4, Follows, Yields

\* Whether the word that starts at the place in the line ends before character k.
CharAt(image, p, k) == read8(image, p.text + p.pos + k - 1)
SepAt(image, dict, p, k) ==
  AndThen(CharAt(image, p, k), LAMBDA c : is_separator(image, dict, c.value))
StopAt(image, dict, p, k) ==
  AndThen(SepAt(image, dict, p, k), LAMBDA s :
    Value(image, s.value \/ CharAt(image, p, k).value = 32))

LEMMA StopIs ==
  ASSUME NEW size \in Nat, NEW image \in Image(size), NEW dict, NEW p, NEW k
  PROVE  /\ SepAt(image, dict, p, k) \in Yield({image}, BOOLEAN)
         /\ StopAt(image, dict, p, k) \in Yield({image}, BOOLEAN)
<1> DEFINE c == CharAt(image, p, k)
           sep(q) == is_separator(image, dict, q.value)
           s == SepAt(image, dict, p, k)
           op(q) == Value(image, q.value \/ c.value = 32)
<1>1. c \in Yield({image}, Byte)
  BY ReadsByte DEF CharAt
<1>2. s = AndThen(c, LAMBDA q : sep(q))
  BY DEF SepAt
<1>3. sep(c) \in Yield({image}, BOOLEAN)
  BY SeparatorIs
<1>4. StopAt(image, dict, p, k) = AndThen(s, LAMBDA q : op(q))
  BY DEF StopAt
<1> HIDE DEF c, sep, s
<1>5. AndThen(c, LAMBDA q : sep(q)) = IF c.ok THEN sep(c) ELSE c
  BY DEF AndThen, Then
<1>6. s \in Yield({image}, BOOLEAN)
  BY <1>1, <1>2, <1>3, <1>5, Follows
<1>7. op(s) \in Yield({image}, BOOLEAN)
  <2> DEFINE b == s.value \/ c.value = 32
  <2>1. b \in BOOLEAN
    OBVIOUS
  <2> HIDE DEF b
  <2>2. Value(image, b) \in Yield({image}, BOOLEAN)
    BY <2>1, Yields
  <2> QED
    BY <2>2 DEF b
<1> HIDE DEF op
<1>8. AndThen(s, LAMBDA q : op(q)) = IF s.ok THEN op(s) ELSE s
  BY DEF AndThen, Then
<1>9. StopAt(image, dict, p, k) \in Yield({image}, BOOLEAN)
  BY <1>4, <1>6, <1>7, <1>8, Follows
<1> QED
  BY <1>6, <1>9 DEF s

StopFound(image, dict, p, n) ==
  FirstFound(image, n, LAMBDA k : StopAt(image, dict, p, k), LAMBDA ends : ends)

LEMMA StopFoundIs ==
  ASSUME NEW size \in Nat, NEW image \in Image(size), NEW dict, NEW p, NEW n \in Nat
  PROVE  StopFound(image, dict, p, n) \in Yield({image}, 0 .. n)
<1> DEFINE item(k) == StopAt(image, dict, p, k)
           Leaves(m) == \E i \in {item(m + 1)} : ~ i.ok \/ i.value
           Is(k) == (k = n \/ Leaves(k)) /\ \A m \in 0 .. k - 1 : ~ Leaves(m)
           first == Passes(n, LAMBDA m : Leaves(m))
           last(q) == AndThen(item(q.value + 1), LAMBDA i : Value(image, q.value + 1))
           rest(q) == IF q.value = n THEN Value(image, 0) ELSE last(q)
           found == StopFound(image, dict, p, n)
<1>1. found = AndThen(Value(image, first), LAMBDA q : rest(q))
  BY DEF StopFound, FirstFound
<1>2. first = CHOOSE k \in 0 .. n : Is(k)
  BY DEF Passes
<1>3. \A k \in 1 .. n : item(k) \in Yield({image}, BOOLEAN)
  BY StopIs
<1> HIDE DEF item, Leaves, first, last, rest
<1>4. first \in 0 .. n
  <2> DEFINE S == {m \in 0 .. n : Leaves(m)}
  <2>1. PICK k : IsFirst(k, n, S)
    <3> HIDE DEF S
    <3> QED
      BY FirstExists
  <2>2. k \in 0 .. n /\ Is(k)
    BY <2>1 DEF IsFirst
  <2> HIDE DEF Is
  <2> QED
    BY <1>2, <2>2
<1> DEFINE v == Value(image, first)
<1>5. found = rest(v)
  <2>1. AndThen(v, LAMBDA q : rest(q)) = IF v.ok THEN rest(v) ELSE v
    BY DEF AndThen, Then
  <2> QED
    BY <1>1, <2>1, Parts
<1>6. v.value = first
  BY Parts
<1> HIDE DEF v
<1>7. last(v) = IF item(v.value + 1).ok THEN Value(image, v.value + 1) ELSE item(v.value + 1)
  BY DEF last, AndThen, Then
<1>8. CASE first = n
  <2>1. found = Value(image, 0)
    BY <1>5, <1>6, <1>8 DEF rest
  <2>2. 0 \in 0 .. n
    OBVIOUS
  <2> QED
    BY <2>1, <2>2, Yields
<1>9. CASE first # n
  <2>1. found = last(v)
    BY <1>5, <1>6, <1>9 DEF rest
  <2>2. first + 1 \in 1 .. n /\ first + 1 \in 0 .. n
    BY <1>4, <1>9
  <2>3. Value(image, first + 1) \in Yield({image}, 0 .. n)
    BY <2>2, Yields
  <2> DEFINE it == item(first + 1)
  <2>4. it \in Yield({image}, BOOLEAN)
    BY <1>3, <2>2
  <2>5. found = IF it.ok THEN Value(image, first + 1) ELSE it
    BY <1>6, <1>7, <2>1
  <2> HIDE DEF it
  <2> QED
    BY <2>3, <2>4, <2>5, Follows
<1> QED
  BY <1>8, <1>9


Parsing ==
  {p \in [text : Nat, length : Byte, buffer : Nat, limit : Byte, pos : Nat, words : Nat] :
     p.words <= p.limit}

LEMMA WordIsMeasured ==
  ASSUME NEW size \in Nat, NEW image \in Image(size), NEW dict, NEW p \in Parsing,
         p.pos < p.length
  PROVE  WordLength(image, dict, p) \in Yield({image}, Byte)
<1> DEFINE n == p.length - p.pos
           h == SepAt(image, dict, p, 1)
           found == StopFound(image, dict, p, n)
           op2(r) == Value(image, IF r.value = 0 THEN n ELSE r.value - 1)
           more == AndThen(found, LAMBDA r : op2(r))
           op1(s) == IF s.value THEN Value(image, 1) ELSE more
           Out == Yield({image}, Byte)
<1>1. WordLength(image, dict, p) = AndThen(h, LAMBDA s : op1(s))
  BY DEF WordLength, SepAt, StopFound, StopAt, CharAt
<1>2. h \in Yield({image}, BOOLEAN)
  BY StopIs
<1>3. n \in Nat /\ n > 0 /\ n <= 255
  <2>1. p.pos \in Nat /\ p.length \in Byte
    BY DEF Parsing
  <2> QED
    BY <2>1, ByteRange
<1> HIDE DEF n
<1>4. found \in Yield({image}, 0 .. n)
  BY <1>3, StopFoundIs
<1> HIDE DEF h, found
<1>5. found.ok => op2(found) \in Out
  <2> SUFFICES ASSUME found.ok PROVE op2(found) \in Out
    OBVIOUS
  <2> DEFINE v == IF found.value = 0 THEN n ELSE found.value - 1
  <2>1. found.value \in 0 .. n
    BY <1>4, Yielded
  <2>2. v \in Int /\ 0 <= v /\ v <= 255
    BY <1>3, <2>1
  <2> HIDE DEF v
  <2>3. v \in Byte
    BY <2>2, ByteIs
  <2>4. Value(image, v) \in Out
    BY <2>3, Yields
  <2> QED
    BY <2>4 DEF v
<1> HIDE DEF op2
<1>6. more = IF found.ok THEN op2(found) ELSE found
  BY DEF AndThen, Then
<1>7. more \in Out
  BY <1>4, <1>5, <1>6, Follows
<1>8. Value(image, 1) \in Out
  <2>1. 1 \in Byte
    BY ByteIs
  <2> QED
    BY <2>1, Yields
<1> HIDE DEF more
<1>9. op1(h) \in Out
  BY <1>7, <1>8
<1> HIDE DEF op1
<1>10. AndThen(h, LAMBDA s : op1(s)) = IF h.ok THEN op1(h) ELSE h
  BY DEF AndThen, Then
<1> QED
  BY <1>1, <1>2, <1>9, <1>10, Follows

\* Memory after a pass: nothing is written but the words' entries, and their count.
ParsedInto(size, image, buffer, limit) ==
  {m \in Image(size) :
     \A a \in 0 .. size - 1 : m[a] # image[a] => a \in BytesBehind(buffer, 1 + 4 * limit)}
SameBuffer(p) == {q \in Parsing : q.buffer = p.buffer /\ q.limit = p.limit}

LEMMA EntryIsInside ==
  ASSUME NEW p \in Parsing, p.words < p.limit, NEW k \in 0 .. 3
  PROVE  (p.buffer + 2 + 4 * p.words + k) % AddrMod \in BytesBehind(p.buffer, 1 + 4 * p.limit)
<1>1. p.buffer \in Nat /\ p.words \in Nat /\ p.limit \in Nat
  BY ByteRange DEF Parsing
<1> DEFINE j == 2 + 4 * p.words + k
<1>2. j \in 1 .. 1 + 4 * p.limit
  BY <1>1
<1>3. p.buffer + 2 + 4 * p.words + k = p.buffer + j
  BY <1>1
<1> HIDE DEF j
<1> QED
  BY <1>2, <1>3 DEF BytesBehind

LEMMA WordIsTaken ==
  ASSUME NEW size \in Nat, NEW image \in Image(size), NEW dyn, NEW dict \in Int,
         NEW p \in Parsing, p.pos < p.length, p.words < p.limit
  PROVE  TakeWord(image, dyn, dict, p)
           \in Yield(ParsedInto(size, image, p.buffer, p.limit), SameBuffer(p))
<1> DEFINE chars(n) == [k \in 1 .. Smaller(n.value, 6) |-> image[(p.text + p.pos + k - 1) % AddrMod]]
           at == p.buffer + 2 + 4 * p.words
           bytes(n, e) == <<ByteOf(e.value, 1), ByteOf(e.value, 0), n.value, (1 + p.pos) % 256>>
           new(n) == [p EXCEPT !.pos = p.pos + n.value, !.words = p.words + 1]
           h1 == WordLength(image, dict, p)
           h2(n) == dict_find_word(image, dict, chars(n))
           h3(n, e) == WriteBytes(image, dyn, at, bytes(n, e))
           op3(n, w) == Value(w.vm, new(n))
           op2(n, e) == AndThen(h3(n, e), LAMBDA w : op3(n, w))
           op1(n) == AndThen(h2(n), LAMBDA e : op2(n, e))
           M == ParsedInto(size, image, p.buffer, p.limit)
           Out == Yield(M, SameBuffer(p))
<1>1. TakeWord(image, dyn, dict, p) = AndThen(h1, LAMBDA n : op1(n))
  BY DEF TakeWord
<1>2. h1 \in Yield({image}, Byte)
  BY WordIsMeasured
<1>3. \A n : h2(n) \in Yield({image}, Bits)
  BY WordIsFound
<1>4. image \in M
  BY DEF ParsedInto
<1>5. ASSUME NEW n, NEW e, n.value \in Byte, e.value \in Bits PROVE h3(n, e) \in Yield(M, {0})
  <2> DEFINE b == bytes(n, e)
             w == WriteBytes(image, dyn, at, b)
  <2>1. b \in Seq(Byte) /\ Len(b) = 4
    <3> DEFINE b1 == ByteOf(e.value, 1)
               b2 == ByteOf(e.value, 0)
               b3 == n.value
               b4 == (1 + p.pos) % 256
    <3>1. e.value \in Int /\ p.pos \in Int
      BY <1>5, WordRange DEF Parsing
    <3>2. b1 \in Byte /\ b2 \in Byte /\ b3 \in Byte
      BY <1>5, <3>1, BytesOf
    <3>3. b4 \in Byte
      <4>1. b4 \in Int /\ 0 <= b4 /\ b4 <= 255
        BY <3>1
      <4> HIDE DEF b4
      <4> QED
        BY <4>1, ByteIs
    <3> HIDE DEF b1, b2, b3, b4
    <3>4. <<b1, b2, b3, b4>> \in Seq(Byte) /\ Len(<<b1, b2, b3, b4>>) = 4
      BY <3>2, <3>3
    <3> QED
      BY <3>4 DEF b1, b2, b3, b4
  <2>2. at \in Int
    BY DEF Parsing
  <2> HIDE DEF b, at
  <2>3. /\ w \in Yield(Image(size), {0})
        /\ \A x \in 0 .. size - 1 :
             w.vm[x] # image[x] => \E k \in 0 .. Len(b) - 1 : x = (at + k) % AddrMod
    <3>1. b \in Seq(Byte)
      BY <2>1
    <3>2. WriteBytes(image, dyn, at, b) \in Yield(Image(size), {0})
      BY <2>2, <3>1, WritesBytes
    <3>3. \A x \in 0 .. size - 1 :
            WriteBytes(image, dyn, at, b).vm[x] # image[x] =>
              \E k \in 0 .. Len(b) - 1 : x = (at + k) % AddrMod
      BY <2>2, <3>1, WritesBytes
    <3> QED
      BY <3>2, <3>3
  <2>4. w.vm \in Image(size)
    BY <2>3, Yielded
  <2> HIDE DEF w
  <2>5. w.vm \in M
    <3>1. ASSUME NEW x \in 0 .. size - 1, w.vm[x] # image[x]
          PROVE  x \in BytesBehind(p.buffer, 1 + 4 * p.limit)
      <4>1. PICK k \in 0 .. Len(b) - 1 : x = (at + k) % AddrMod
        BY <2>3, <3>1
      <4>2. k \in 0 .. 3
        BY <2>1
      <4>3. (p.buffer + 2 + 4 * p.words + k) % AddrMod \in BytesBehind(p.buffer, 1 + 4 * p.limit)
        BY <4>2, EntryIsInside
      <4> QED
        BY <4>1, <4>3 DEF at
    <3> QED
      BY <2>4, <3>1 DEF ParsedInto
  <2>6. w \in Yield(M, {0})
    BY <2>3, <2>5 DEF Yield
  <2>7. h3(n, e) = w
    BY DEF w, b
  <2> QED
    BY <2>6, <2>7
<1>6. ASSUME NEW n, n.value \in Byte PROVE new(n) \in SameBuffer(p)
  <2>1. n.value \in Nat /\ p.words \in Nat /\ p.limit \in Nat /\ p.pos \in Nat
    BY <1>6, ByteRange DEF Parsing
  <2> DEFINE pos == p.pos + n.value
             words == p.words + 1
  <2>2. pos \in Nat /\ words \in Nat /\ words <= p.limit
    BY <2>1
  <2> HIDE DEF pos, words
  <2>3. [p EXCEPT !.pos = pos, !.words = words] \in SameBuffer(p)
    BY <2>2 DEF SameBuffer, Parsing
  <2> QED
    BY <2>3 DEF pos, words
<1> HIDE DEF chars, at, bytes, new, h1, h2, h3, M
<1>7. \A n, e : op2(n, e) = IF h3(n, e).ok THEN op3(n, h3(n, e)) ELSE h3(n, e)
  BY DEF AndThen, Then
<1>8. \A n, w : w.vm \in M /\ n.value \in Byte => op3(n, w) \in Out
  BY <1>6, Yields
<1> HIDE DEF op2, op3
<1>9. \A n : op1(n) = IF h2(n).ok THEN op2(n, h2(n)) ELSE h2(n)
  BY DEF AndThen, Then
<1> HIDE DEF op1
<1>10. AndThen(h1, LAMBDA n : op1(n)) = IF h1.ok THEN op1(h1) ELSE h1
  BY DEF AndThen, Then
<1>11. ASSUME NEW n, n.value \in Byte, NEW e, e.value \in Bits PROVE op2(n, e) \in Out
  <2>1. h3(n, e) \in Yield(M, {0}) /\ h3(n, e).vm \in M
    BY <1>5, <1>11, Yielded
  <2>2. op3(n, h3(n, e)) \in Out
    BY <1>8, <1>11, <2>1
  <2> QED
    BY <1>7, <2>1, <2>2, Follows
<1>12. ASSUME NEW n, n.value \in Byte PROVE op1(n) \in Out
  <2> DEFINE e == h2(n)
  <2>1. e \in Yield({image}, Bits)
    BY <1>3
  <2>2. e \in Yield(M, Bits)
    BY <1>4, <2>1 DEF Yield
  <2>3. op1(n) = IF e.ok THEN op2(n, e) ELSE e
    BY <1>9
  <2> HIDE DEF e
  <2>4. e.ok => op2(n, e) \in Out
    BY <1>11, <1>12, <2>2, Yielded
  <2> QED
    BY <2>2, <2>3, <2>4, Follows
<1>13. h1 \in Yield(M, Byte)
  BY <1>2, <1>4 DEF Yield
<1>14. h1.ok => op1(h1) \in Out
  BY <1>12, <1>13, Yielded
<1> QED
  BY <1>1, <1>10, <1>13, <1>14, Follows DEF M

LEMMA PassIsMade ==
  ASSUME NEW size \in Nat, NEW image \in Image(size), NEW dyn, NEW dict \in Int,
         NEW p \in Parsing, ~ ParseAtEnd(p)
  PROVE  ParsePass(image, dyn, dict, p)
           \in Yield(ParsedInto(size, image, p.buffer, p.limit), SameBuffer(p))
<1> DEFINE M == ParsedInto(size, image, p.buffer, p.limit)
           Out == Yield(M, SameBuffer(p))
           h == read8(image, p.text + p.pos)
           next == [p EXCEPT !.pos = p.pos + 1]
           op(c) == IF c.value = 32 THEN Value(image, next) ELSE TakeWord(image, dyn, dict, p)
<1>1. ParsePass(image, dyn, dict, p) = AndThen(h, LAMBDA c : op(c))
  BY DEF ParsePass
<1>2. p.pos \in Nat /\ p.length \in Nat /\ p.words \in Nat /\ p.limit \in Nat
  BY ByteRange DEF Parsing
<1>3. p.pos < p.length /\ p.words < p.limit
  BY <1>2 DEF ParseAtEnd
<1>4. TakeWord(image, dyn, dict, p) \in Out
  BY <1>3, WordIsTaken
<1>5. image \in M
  BY DEF ParsedInto
<1>6. next \in SameBuffer(p)
  BY <1>2 DEF SameBuffer, Parsing
<1> HIDE DEF next, M
<1>7. Value(image, next) \in Out
  BY <1>5, <1>6, Yields
<1>8. h \in Yield(M, Byte)
  <2>1. h \in Yield({image}, Byte)
    BY ReadsByte
  <2> QED
    BY <1>5, <2>1 DEF Yield
<1> HIDE DEF h
<1>9. op(h) \in Out
  BY <1>4, <1>7
<1> HIDE DEF op
<1>10. AndThen(h, LAMBDA c : op(c)) = IF h.ok THEN op(h) ELSE h
  BY DEF AndThen, Then
<1> QED
  BY <1>1, <1>8, <1>9, <1>10, Follows DEF M

LEMMA ParseIsEnded ==
  ASSUME NEW size \in Nat, NEW image \in Image(size), NEW dyn, NEW p \in Parsing
  PROVE  ParseEnd(image, dyn, p) \in Yield(ParsedInto(size, image, p.buffer, p.limit), {0})
<1> DEFINE w == write8(image, dyn, p.buffer + 1, p.words)
           M == ParsedInto(size, image, p.buffer, p.limit)
<1>1. p.words \in Nat /\ p.limit \in Nat /\ p.limit <= 255 /\ p.words <= p.limit /\ p.buffer \in Nat
  BY ByteRange DEF Parsing
<1>2. p.words \in Byte
  BY <1>1, ByteIs
<1>3. /\ w \in Yield(Image(size), {0})
      /\ \A x \in 0 .. size - 1 : w.vm[x] # image[x] => x = (p.buffer + 1) % AddrMod
  BY <1>2, WritesByte
<1>4. (p.buffer + 1) % AddrMod \in BytesBehind(p.buffer, 1 + 4 * p.limit)
  <2>1. 1 \in 1 .. 1 + 4 * p.limit
    BY <1>1
  <2> QED
    BY <2>1 DEF BytesBehind
<1>5. w.vm \in Image(size)
  BY <1>3, Yielded
<1>6. ParseEnd(image, dyn, p) = w
  BY DEF ParseEnd
<1> HIDE DEF w
<1>7. w.vm \in M
  BY <1>3, <1>4, <1>5 DEF ParsedInto
<1>8. w \in Yield(M, {0})
  BY <1>3, <1>7 DEF Yield
<1> QED
  BY <1>6, <1>8

LEMMA ParseIsStarted ==
  ASSUME NEW size \in Nat, NEW image \in Image(size), NEW text \in Nat, NEW length \in Byte,
         NEW buffer \in Nat
  PROVE  StartParse(image, text, length, buffer)
           \in Yield({image}, {p \in Parsing : p.buffer = buffer})
<1> DEFINE h == read8(image, buffer)
           start(n) == [ text |-> text, length |-> length, buffer |-> buffer, limit |-> n.value,
                         pos |-> 0, words |-> 0 ]
           op(n) == Value(image, start(n))
           P == {p \in Parsing : p.buffer = buffer}
<1>1. StartParse(image, text, length, buffer) = AndThen(h, LAMBDA n : op(n))
  BY DEF StartParse
<1>2. h \in Yield({image}, Byte)
  BY ReadsByte
<1> HIDE DEF h
<1>3. h.ok => start(h) \in P
  <2> SUFFICES ASSUME h.ok PROVE start(h) \in P
    OBVIOUS
  <2>1. h.value \in Byte /\ h.value \in Nat
    BY <1>2, Yielded, ByteRange
  <2> QED
    BY <2>1 DEF Parsing
<1> HIDE DEF start, P
<1>4. h.ok => op(h) \in Yield({image}, P)
  BY <1>3, Yields
<1> HIDE DEF op
<1>5. AndThen(h, LAMBDA n : op(n)) = IF h.ok THEN op(h) ELSE h
  BY DEF AndThen, Then
<1> QED
  BY <1>1, <1>2, <1>4, <1>5, Follows DEF P

-----------------------------------------------------------------------------
(* The inductive invariant.                                                *)

Here == Cardinality(DOMAIN story.image)

\* What the text being printed may still be read with: if it was inside the
\* story at its start it stays there.
TextStreams == {s \in Stream : Inside(Here, done.result[1]) => Inside(Here, s)}

DoneIs ==
  /\ done = [i |-> done.i, x |-> done.x, result |-> done.result]
  /\ done.i = NoInstr \/ [i |-> done.i, x |-> done.x] \in Fetched

TextIsUnderWay ==
  /\ job = [kind |-> "text", streams |-> job.streams]
  /\ job.streams \in Stacks(Here, TextStreams)
  /\ done.i \in Instr /\ done.i.category \in {"zero", "one"}
  /\ done.i.opcode \in TextOpcodes[done.i.category]
  /\ done.result[1] \in Stream
  /\ Inside(Here, done.result[1]) \/ Ran("zero", 2) \/ Ran("one", 10)

LineIsUnderWay ==
  /\ job = [kind |-> "parse", at |-> job.at]
  /\ job.at \in Parsing /\ job.at.buffer = done.x[2]
  /\ done.i \in Instr /\ Ran("var", 4)

Computed == done.i # NoInstr /\ done.i.opcode \in ArithmeticOpcodes[done.i.category]

\* The port works on the operands of the instruction.
PortIsUnderWay ==
  Computed /\ status # "undefined" =>
    /\ Len(done.x) >= 2 /\ operand1 = done.x[1] /\ operand2 = done.x[2]
    /\ phase \in IF done.i.opcode = 22 THEN {"mul", "product"} ELSE {"div", "quotient", "fail"}
    /\ phase = "fail" <=> done.i.opcode # 22 /\ done.x[2] = 0
    /\ \/ phase # "fail" /\ done.result = <<Arithmetic(vm.image, done.i, done.x).value>>
       \/ /\ done.result = <<>> /\ status # "running"
          /\ phase = "fail" \/ ~ vm_write_variable(vm, done.i.store, 0).ok

StoryInv ==
  /\ story \in Stories /\ vm \in Machine(Here)
  /\ status \in {"running", "error", "undefined", "endless"}
  /\ DoneIs /\ ArithInv
  /\ job = NoJob \/ TextIsUnderWay \/ LineIsUnderWay
  /\ PortIsUnderWay /\ StaysDefined

LEMMA StoryHere ==
  ASSUME story \in Stories
  PROVE  /\ Here \in Nat /\ story.image \in Image(Here) /\ DOMAIN story.image = 0 .. Here - 1
         /\ DOMAIN story.code \subseteq Nat /\ story.lines \subseteq Seq(Byte)
<1>1. /\ story.image \in [0 .. Here - 1 -> Byte] /\ IsFiniteSet(DOMAIN story.image)
      /\ DOMAIN story.code \subseteq Nat /\ story.lines \subseteq Seq(Byte)
  BY StoriesAssumption DEF Here
<1>2. Here \in Nat
  BY <1>1, FS_CardinalityType DEF Here
<1> QED
  BY <1>1, <1>2 DEF Image

LEMMA Fetching ==
  ASSUME story \in Stories, vm \in Machine(Here), NEW a \in DOMAIN story.code
  PROVE  /\ Fetch(a).vm \in Machine(Here) /\ Fetch(a).vm.image = vm.image
         /\ Fetch(a).ok => Fetch(a).value \in Fetched
         /\ Fetch(a).ok => Fetch(a).vm.pc = (a + Fetch(a).value.i.length) % AddrMod
<1>1. Here \in Nat /\ a \in Nat
  BY StoryHere
<1>2. /\ Fetch(a) \in Yield(Reading(Here, vm.image), Fetched)
      /\ Fetch(a).ok => Fetch(a).vm.pc = (a + Fetch(a).value.i.length) % AddrMod
  BY <1>1, FetchIs
<1>3. Fetch(a).vm \in Reading(Here, vm.image) /\ (Fetch(a).ok => Fetch(a).value \in Fetched)
  BY <1>2, Yielded
<1> QED
  BY <1>2, <1>3 DEF Reading

\* The instructions of the given opcodes that may be next.
NextOf(opcodes) ==
  {f \in {Fetch(a) : a \in DOMAIN story.code} :
     f.ok /\ f.value.i.opcode \in opcodes[f.value.i.category] /\ Len(f.value.x) >= Needed(f.value.i)}

LEMMA NextIs ==
  ASSUME story \in Stories, vm \in Machine(Here), NEW opcodes, NEW f \in NextOf(opcodes)
  PROVE  /\ f.ok /\ f.vm \in Machine(Here) /\ f.vm.image = vm.image
         /\ f.value \in Fetched /\ f.value.i \in Instr /\ f.value.x \in Seq(Bits)
         /\ f.value.i.category \in Category /\ f.value.i.opcode \in opcodes[f.value.i.category]
         /\ f.value.i.store \in Byte
         /\ Len(f.value.x) = Len(f.value.i.types) /\ Len(f.value.x) >= Needed(f.value.i)
         /\ \A k \in 1 .. Len(f.value.x) : f.value.x[k] \in Bits
<1>1. PICK a \in DOMAIN story.code : f = Fetch(a)
  BY DEF NextOf
<1>2. /\ f.ok /\ f.value.i.opcode \in opcodes[f.value.i.category]
      /\ Len(f.value.x) >= Needed(f.value.i)
  BY DEF NextOf
<1>3. f.vm \in Machine(Here) /\ f.vm.image = vm.image /\ f.value \in Fetched
  BY <1>1, <1>2, Fetching
<1>4. /\ f.value.i \in Instr /\ f.value.x \in Seq(Bits)
      /\ Len(f.value.x) = Len(f.value.i.types)
  BY <1>3 DEF Fetched
<1>5. f.value.i.category \in Category /\ f.value.i.store \in Byte
  BY <1>4 DEF Instr
<1>6. \A k \in 1 .. Len(f.value.x) : f.value.x[k] \in Bits
  BY <1>4, ElementOfSeq
<1> QED
  BY <1>2, <1>3, <1>4, <1>5, <1>6

LEMMA ArithStays == ArithInv /\ UNCHANGED arith => ArithInv'
  BY DEF arith, loop, ArithInv, ArithTypeOK, DivInv, MulInv, DivisionExact, ProductExact,
     Truncates, SignedQuotient, AsSigned, Negative, Magnitude, Negate, Size, Half, Bits

LEMMA InstructionEnds ==
  ASSUME StoryInv, UNCHANGED story, NEW V, NEW r \in Yield(Machine(Here), V),
         NEW f \in Fetched, NEW result, Finish(r, f, result)
  PROVE  /\ Here' = Here /\ story' \in Stories /\ vm' \in Machine(Here')
         /\ status' \in {"running", "error", "endless"}
         /\ done' = [i |-> done'.i, x |-> done'.x, result |-> done'.result]
         /\ done'.i = f.i /\ done'.x = f.x /\ done'.i \in Instr /\ DoneIs' /\ StaysDefined'
<1>1. Here' = Here /\ story' \in Stories
  BY DEF Here, StoryInv
<1>2. r.ok \in BOOLEAN /\ r.vm \in Machine(Here)
  BY Yielded
<1>3. vm' = r.vm /\ status' \in {"running", "error", "endless"}
  BY <1>2 DEF Finish, StatusAfter
<1>4. done' = [i |-> f.i, x |-> f.x, result |-> IF r.ok THEN <<result>> ELSE <<>>]
  BY DEF Finish, StatusAfter
<1>5. f.i \in Instr /\ [i |-> f.i, x |-> f.x] \in Fetched
  BY DEF Fetched
<1>6. DoneIs'
  BY <1>4, <1>5 DEF DoneIs
<1>7. StaysDefined'
  BY <1>3 DEF StaysDefined
<1> QED
  BY <1>1, <1>2, <1>3, <1>4, <1>5, <1>6, <1>7

LEMMA Idle == Ready => job = NoJob /\ status = "running" /\ phase \notin {"mul", "div"}
  BY DEF Ready, Busy

\* Instructions that need no loop.
LEMMA PlainEnd ==
  ASSUME StoryInv, UNCHANGED <<story, arith>>, job' = NoJob,
         NEW V, NEW r \in Yield(Machine(Here), V), NEW f \in Fetched, NEW result,
         Finish(r, f, result), f.i.opcode \notin ArithmeticOpcodes[f.i.category]
  PROVE  StoryInv'
<1>1. ArithInv'
  BY ArithStays DEF StoryInv
<1>2. /\ story' \in Stories /\ vm' \in Machine(Here') /\ status' \in {"running", "error", "endless"}
      /\ done'.i = f.i /\ DoneIs' /\ StaysDefined'
  BY InstructionEnds
<1>3. PortIsUnderWay'
  BY <1>2 DEF PortIsUnderWay, Computed
<1> QED
  BY <1>1, <1>2, <1>3 DEF StoryInv

LEMMA OpcodesApart ==
  \A c \in Category :
    /\ \A o \in ResultOpcodes[c] \cup TestOpcodes[c] \cup EffectOpcodes[c] \cup PrintOpcodes[c]
                  \cup TextOpcodes[c] \cup StreamOpcodes[c] \cup ReadOpcodes[c]
                  \cup RandomOpcodes[c] \cup LinkOpcodes[c] \cup IdleOpcodes[c] :
         o \notin ArithmeticOpcodes[c]
    /\ \A o \in ResultOpcodes[c] \cup ArithmeticOpcodes[c] \cup TestOpcodes[c] \cup EffectOpcodes[c]
                  \cup PrintOpcodes[c] \cup TextOpcodes[c] \cup StreamOpcodes[c]
                  \cup RandomOpcodes[c] \cup LinkOpcodes[c] \cup IdleOpcodes[c] :
         ~ (c = "var" /\ o = 4)
    /\ \A o \in ResultOpcodes[c] \cup ArithmeticOpcodes[c] \cup TestOpcodes[c] \cup EffectOpcodes[c]
                  \cup PrintOpcodes[c] \cup ReadOpcodes[c] \cup StreamOpcodes[c]
                  \cup RandomOpcodes[c] \cup LinkOpcodes[c] \cup IdleOpcodes[c] :
         ~ (c = "zero" /\ o = 2)
  BY DEF Category, ResultOpcodes, TestOpcodes, EffectOpcodes, PrintOpcodes, TextOpcodes,
     StreamOpcodes, ReadOpcodes, RandomOpcodes, LinkOpcodes, IdleOpcodes, ArithmeticOpcodes

\* An outcome that is stored, or on which a branch depends.
StoreOf(r, v, w) == AndThen(r, LAMBDA q : vm_write_variable(q.vm, v, w))
BranchOn(r, i, condition) == AndThen(r, LAMBDA q : do_branch(q.vm, i, condition))

LEMMA ResultIsStored ==
  ASSUME story \in Stories, NEW V, NEW r \in Yield(Machine(Here), V), NEW v \in Byte, NEW w,
         r.ok => w \in Bits
  PROVE  /\ StoreOf(r, v, w) \in Yield(Machine(Here), {0})
         /\ r.ok /\ ~ StoreOf(r, v, w).ok => ~ vm_write_variable(StoreOf(r, v, w).vm, v, 0).ok
<1>1. StoreOf(r, v, w) = IF r.ok THEN vm_write_variable(r.vm, v, w) ELSE r
  BY DEF StoreOf, AndThen, Then
<1>2. Here \in Nat /\ r.vm \in Machine(Here) /\ v \in Int
  BY StoryHere, Yielded, ByteRange
<1>3. ASSUME r.ok
      PROVE  /\ vm_write_variable(r.vm, v, w) \in Yield(Machine(Here), {0})
             /\ ~ vm_write_variable(r.vm, v, w).ok =>
                  ~ vm_write_variable(vm_write_variable(r.vm, v, w).vm, v, 0).ok
  BY <1>2, <1>3, VariableIsWritten
<1>4. StoreOf(r, v, w) \in Yield(Machine(Here), {0})
  BY <1>1, <1>3, Follows
<1> QED
  BY <1>1, <1>3, <1>4

LEMMA BranchIsDecided ==
  ASSUME story \in Stories, NEW V, NEW r \in Yield(Machine(Here), V), NEW i \in Instr,
         NEW condition
  PROVE  BranchOn(r, i, condition) \in Yield(Machine(Here), {0})
<1>1. BranchOn(r, i, condition) = IF r.ok THEN do_branch(r.vm, i, condition) ELSE r
  BY DEF BranchOn, AndThen, Then
<1>2. Here \in Nat /\ r.vm \in Machine(Here)
  BY StoryHere, Yielded
<1>3. do_branch(r.vm, i, condition) \in Yield(Machine(Here), {0})
  BY <1>2, BranchIsTaken
<1> QED
  BY <1>1, <1>3, Follows

\* What is read from the story is an outcome on the machine.
LEMMA Reads ==
  ASSUME story \in Stories, NEW s \in Machine(Here), NEW V, NEW r \in Yield({s.image}, V)
  PROVE  On(s, r) \in Yield(Machine(Here), V) /\ On(s, r).ok = r.ok /\ (r.ok => r.value \in V)
<1>1. Here \in Nat /\ s.image \in Image(Here)
  BY StoryHere DEF Machine
<1>2. r \in Yield(Image(Here), V)
  BY <1>1, Widened
<1> QED
  BY <1>1, <1>2, OnMachine, Yielded

LEMMA StoreKeeps == StoryInv /\ Store => StoryInv'
<1> SUFFICES ASSUME StoryInv, Store PROVE StoryInv'
  OBVIOUS
<1> DEFINE r(f) == Result(f.vm.image, f.value.i, f.value.x)
           o(f) == StoreOf(On(f.vm, r(f)), f.value.i.store, r(f).value)
<1>1. PICK f \in NextOf(ResultOpcodes) : Finish(o(f), f.value, r(f).value)
  BY DEF Store, Execute, NextOf, StoreOf
<1>2. Ready /\ UNCHANGED <<story, job, arith>>
  BY DEF Store, Execute
<1>3. story \in Stories /\ vm \in Machine(Here) /\ Here \in Nat
  BY StoryHere DEF StoryInv
<1>4. /\ f.vm \in Machine(Here) /\ f.value \in Fetched /\ f.value.i \in Instr
      /\ f.value.x \in Seq(Bits) /\ f.value.i.category \in Category
      /\ f.value.i.opcode \in ResultOpcodes[f.value.i.category] /\ f.value.i.store \in Byte
      /\ Len(f.value.x) = Len(f.value.i.types) /\ Len(f.value.x) >= Needed(f.value.i)
  BY <1>3, NextIs
<1>5. Len(f.value.x) >= 1 /\ (f.value.i.category = "two" => Len(f.value.x) >= 2)
  <2>1. CASE f.value.i.category = "two"
    BY <1>4, <2>1 DEF ResultOpcodes, Needed
  <2>2. CASE f.value.i.category = "one"
    <3>1. Len(f.value.i.types) = 1
      BY <1>4, <2>2 DEF Instr
    <3> QED
      BY <1>4, <2>2, <3>1
  <2>3. CASE f.value.i.category \in {"zero", "var"}
    BY <1>4, <2>3 DEF ResultOpcodes
  <2> QED
    BY <1>4, <2>1, <2>2, <2>3 DEF Category
<1>6. r(f) \in Yield({f.vm.image}, Bits)
  <2>1. f.vm.image \in Image(Here)
    BY <1>4 DEF Machine
  <2> QED
    BY <1>3, <1>4, <1>5, <2>1, ResultIs
<1>7. f.value.i.opcode \notin ArithmeticOpcodes[f.value.i.category]
  BY <1>4, OpcodesApart
<1> HIDE DEF r
<1>8. /\ On(f.vm, r(f)) \in Yield(Machine(Here), Bits) /\ On(f.vm, r(f)).ok = r(f).ok
      /\ r(f).ok => r(f).value \in Bits
  BY <1>3, <1>4, <1>6, Reads
<1>9. o(f) \in Yield(Machine(Here), {0})
  BY <1>3, <1>4, <1>8, ResultIsStored
<1> HIDE DEF o
<1> QED
  BY <1>1, <1>2, <1>4, <1>7, <1>9, Idle, PlainEnd

LEMMA BranchKeeps == StoryInv /\ Branch => StoryInv'
<1> SUFFICES ASSUME StoryInv, Branch PROVE StoryInv'
  OBVIOUS
<1> DEFINE r(f) == TestOf(f.vm.image, f.value.i, f.value.x)
           o(f) == BranchOn(On(f.vm, r(f)), f.value.i, r(f).value)
<1>1. PICK f \in NextOf(TestOpcodes) : Finish(o(f), f.value, r(f).value)
  BY DEF Branch, Execute, NextOf, BranchOn
<1>2. Ready /\ UNCHANGED <<story, job, arith>>
  BY DEF Branch, Execute
<1>3. story \in Stories /\ vm \in Machine(Here) /\ Here \in Nat
  BY StoryHere DEF StoryInv
<1>4. /\ f.vm \in Machine(Here) /\ f.value \in Fetched /\ f.value.i \in Instr
      /\ f.value.i.category \in Category /\ f.value.i.opcode \in TestOpcodes[f.value.i.category]
  BY <1>3, NextIs
<1>5. r(f) \in Yield({f.vm.image}, BOOLEAN)
  <2>1. f.vm.image \in Image(Here)
    BY <1>4 DEF Machine
  <2> QED
    BY <1>3, <2>1, TestIs
<1>6. f.value.i.opcode \notin ArithmeticOpcodes[f.value.i.category]
  BY <1>4, OpcodesApart
<1> HIDE DEF r
<1>7. On(f.vm, r(f)) \in Yield(Machine(Here), BOOLEAN)
  BY <1>3, <1>4, <1>5, Reads
<1>8. o(f) \in Yield(Machine(Here), {0})
  BY <1>3, <1>4, <1>7, BranchIsDecided
<1> HIDE DEF o
<1> QED
  BY <1>1, <1>2, <1>4, <1>6, <1>8, Idle, PlainEnd

LEMMA StoreAndBranchKeeps == StoryInv /\ StoreAndBranch => StoryInv'
<1> SUFFICES ASSUME StoryInv, StoreAndBranch PROVE StoryInv'
  OBVIOUS
<1> DEFINE o(f) == f.value.x[1] % 256
           r(f) == IF f.value.i.opcode = 1 THEN obj_get_sibling(f.vm.image, story.objects, o(f))
                   ELSE obj_get_child(f.vm.image, story.objects, o(f))
           b(f, w) == do_branch(w.vm, f.value.i, r(f).value # 0)
           s(f, q) == AndThen(vm_write_variable(q.vm, f.value.i.store, r(f).value),
                              LAMBDA w : b(f, w))
           out(f) == AndThen(On(f.vm, r(f)), LAMBDA q : s(f, q))
<1>1. PICK f \in NextOf(LinkOpcodes) : Finish(out(f), f.value, r(f).value)
  BY DEF StoreAndBranch, Execute, NextOf
<1>2. Ready /\ UNCHANGED <<story, job, arith>>
  BY DEF StoreAndBranch, Execute
<1>3. story \in Stories /\ vm \in Machine(Here) /\ Here \in Nat
  BY StoryHere DEF StoryInv
<1>4. /\ f.vm \in Machine(Here) /\ f.value \in Fetched /\ f.value.i \in Instr
      /\ f.value.i.category \in Category /\ f.value.i.opcode \in LinkOpcodes[f.value.i.category]
      /\ f.value.i.store \in Byte /\ f.value.i.store \in Int
  BY <1>3, NextIs, ByteRange
<1>5. r(f) \in Yield({f.vm.image}, Byte)
  <2>1. f.vm.image \in Image(Here)
    BY <1>4 DEF Machine
  <2> HIDE DEF o
  <2> QED
    BY <1>3, <2>1, EntryIsRead DEF obj_get_sibling, obj_get_child
<1>6. f.value.i.opcode \notin ArithmeticOpcodes[f.value.i.category]
  BY <1>4, OpcodesApart
<1> HIDE DEF r
<1>7. /\ On(f.vm, r(f)) \in Yield(Machine(Here), Byte)
      /\ On(f.vm, r(f)).ok = r(f).ok /\ (r(f).ok => r(f).value \in Byte)
  BY <1>3, <1>4, <1>5, Reads
<1> DEFINE q == On(f.vm, r(f))
           w == vm_write_variable(q.vm, f.value.i.store, r(f).value)
<1>8. out(f) = IF q.ok THEN s(f, q) ELSE q
  BY DEF AndThen, Then
<1>9. s(f, q) = IF w.ok THEN b(f, w) ELSE w
  BY DEF AndThen, Then
<1> HIDE DEF out, s, b
<1>10. q.vm \in Machine(Here) /\ (q.ok => r(f).value \in Bits)
  BY <1>7, Yielded, ByteIsWord
<1>11. q.ok => w \in Yield(Machine(Here), {0})
  BY <1>3, <1>4, <1>10, VariableIsWritten
<1>12. q.ok => b(f, w) \in Yield(Machine(Here), {0})
  <2>1. q.ok => w.vm \in Machine(Here)
    BY <1>11, Yielded
  <2> HIDE DEF q, w
  <2> QED
    BY <1>3, <1>4, <2>1, BranchIsTaken DEF b
<1>13. q.ok => s(f, q) \in Yield(Machine(Here), {0})
  BY <1>9, <1>11, <1>12, Follows
<1>14. out(f) \in Yield(Machine(Here), {0})
  BY <1>7, <1>8, <1>13, Follows
<1> QED
  BY <1>1, <1>2, <1>4, <1>6, <1>14, Idle, PlainEnd

LEMMA ChangeKeeps == StoryInv /\ Change => StoryInv'
<1> SUFFICES ASSUME StoryInv, Change PROVE StoryInv'
  OBVIOUS
<1> DEFINE r(f) == Effect(f.vm.image, f.value.i, f.value.x)
<1>1. PICK f \in NextOf(EffectOpcodes) : Finish(On(f.vm, r(f)), f.value, 0)
  BY DEF Change, Execute, NextOf
<1>2. Ready /\ UNCHANGED <<story, job, arith>>
  BY DEF Change, Execute
<1>3. story \in Stories /\ vm \in Machine(Here) /\ Here \in Nat
  BY StoryHere DEF StoryInv
<1>4. /\ f.vm \in Machine(Here) /\ f.value \in Fetched /\ f.value.x \in Seq(Bits)
      /\ f.value.i.category \in Category /\ f.value.i.opcode \in EffectOpcodes[f.value.i.category]
      /\ Len(f.value.x) >= Needed(f.value.i)
  BY <1>3, NextIs
<1>5. r(f) \in Yield(Image(Here), {0})
  <2>1. f.vm.image \in Image(Here)
    BY <1>4 DEF Machine
  <2>2. f.value.i.category \in {"two", "var"}
    BY <1>4 DEF EffectOpcodes, Category
  <2> QED
    BY <1>3, <1>4, <2>1, <2>2, EffectIs
<1>6. f.value.i.opcode \notin ArithmeticOpcodes[f.value.i.category]
  BY <1>4, OpcodesApart
<1> HIDE DEF r
<1>7. On(f.vm, r(f)) \in Yield(Machine(Here), {0})
  BY <1>3, <1>4, <1>5, OnMachine
<1> QED
  BY <1>1, <1>2, <1>4, <1>6, <1>7, Idle, PlainEnd

LEMMA RandomKeeps == StoryInv /\ Random => StoryInv'
<1> SUFFICES ASSUME StoryInv, Random PROVE StoryInv'
  OBVIOUS
<1> DEFINE range(f) == AsSigned(f.value.x[1])
           r(f, n) == vm_write_variable(f.vm, f.value.i.store, n)
<1>1. PICK f \in NextOf(RandomOpcodes) :
        \E n \in IF range(f) > 0 THEN 1 .. range(f) ELSE {0} : Finish(r(f, n), f.value, n)
  BY DEF Random, Execute, NextOf
<1>2. PICK n \in IF range(f) > 0 THEN 1 .. range(f) ELSE {0} : Finish(r(f, n), f.value, n)
  BY <1>1
<1>3. Ready /\ UNCHANGED <<story, job, arith>>
  BY DEF Random, Execute
<1>4. story \in Stories /\ vm \in Machine(Here) /\ Here \in Nat
  BY StoryHere DEF StoryInv
<1>5. /\ f.vm \in Machine(Here) /\ f.value \in Fetched
      /\ f.value.i.category \in Category /\ f.value.i.opcode \in RandomOpcodes[f.value.i.category]
      /\ f.value.i.store \in Int /\ Len(f.value.x) >= Needed(f.value.i)
      /\ \A k \in 1 .. Len(f.value.x) : f.value.x[k] \in Bits
      /\ f.value.x \in Seq(Bits)
  BY <1>4, NextIs, ByteRange
<1>6. f.value.x[1] \in Bits
  <2>1. f.value.i.category = "var" /\ f.value.i.opcode = 7
    BY <1>5 DEF RandomOpcodes, Category
  <2>2. Needed(f.value.i) = 1
    BY <2>1 DEF Needed
  <2>3. 1 \in 1 .. Len(f.value.x)
    BY <1>5, <2>2
  <2> QED
    BY <1>5, <2>3
<1>7. n \in Bits
  <2>1. range(f) \in Int /\ range(f) <= 32767
    BY <1>6, SignedIs
  <2> HIDE DEF range
  <2>2. n \in Int /\ 0 <= n /\ n <= 65535
    BY <1>2, <2>1
  <2> QED
    BY <2>2, WordIs
<1>8. r(f, n) \in Yield(Machine(Here), {0})
  BY <1>4, <1>5, <1>7, VariableIsWritten
<1>9. f.value.i.opcode \notin ArithmeticOpcodes[f.value.i.category]
  BY <1>5, OpcodesApart
<1> HIDE DEF r, range
<1> QED
  BY <1>2, <1>3, <1>5, <1>8, <1>9, Idle, PlainEnd

LEMMA PrintShortKeeps == StoryInv /\ PrintShort => StoryInv'
<1> SUFFICES ASSUME StoryInv, PrintShort PROVE StoryInv'
  OBVIOUS
<1> DEFINE r(f) == print_chars(f.vm, f.value.i, f.value.x)
<1>1. PICK f \in NextOf(PrintOpcodes) : Finish(r(f), f.value, 0)
  BY DEF PrintShort, Execute, NextOf
<1>2. Ready /\ UNCHANGED <<story, job, arith>>
  BY DEF PrintShort, Execute
<1>3. story \in Stories /\ vm \in Machine(Here) /\ Here \in Nat
  BY StoryHere DEF StoryInv
<1>4. /\ f.vm \in Machine(Here) /\ f.value \in Fetched /\ f.value.x \in Seq(Bits)
      /\ f.value.i.category \in Category /\ f.value.i.opcode \in PrintOpcodes[f.value.i.category]
      /\ Len(f.value.x) >= Needed(f.value.i)
  BY <1>3, NextIs
<1>5. f.value.i.category # "zero" => Len(f.value.x) >= 1
  BY <1>4 DEF PrintOpcodes, Category, Needed
<1>6. r(f) \in Yield(Emitted(Here, f.vm), {0})
  BY <1>3, <1>4, <1>5, CharsArePrinted
<1>7. f.value.i.opcode \notin ArithmeticOpcodes[f.value.i.category]
  BY <1>4, OpcodesApart
<1> HIDE DEF r
<1>8. r(f) \in Yield(Machine(Here), {0})
  <2>1. Emitted(Here, f.vm) \subseteq Machine(Here)
    BY DEF Emitted
  <2> QED
    BY <1>6, <2>1, YieldWider
<1> QED
  BY <1>1, <1>2, <1>4, <1>7, <1>8, Idle, PlainEnd

LEMMA OutputStreamKeeps == StoryInv /\ OutputStream => StoryInv'
<1> SUFFICES ASSUME StoryInv, OutputStream PROVE StoryInv'
  OBVIOUS
<1> DEFINE r(f) == output_stream(f.vm, f.value.i, f.value.x)
<1>1. PICK f \in NextOf(StreamOpcodes) : Finish(r(f), f.value, 0)
  BY DEF OutputStream, Execute, NextOf
<1>2. Ready /\ UNCHANGED <<story, job, arith>>
  BY DEF OutputStream, Execute
<1>3. story \in Stories /\ vm \in Machine(Here) /\ Here \in Nat
  BY StoryHere DEF StoryInv
<1>4. /\ f.vm \in Machine(Here) /\ f.value \in Fetched /\ f.value.x \in Seq(Bits)
      /\ f.value.i.category \in Category /\ f.value.i.opcode \in StreamOpcodes[f.value.i.category]
      /\ Len(f.value.x) >= Needed(f.value.i)
  BY <1>3, NextIs
<1>5. Len(f.value.x) >= 1
  <2>1. f.value.i.category = "var" /\ f.value.i.opcode = 19
    BY <1>4 DEF StreamOpcodes, Category
  <2>2. Needed(f.value.i) = 1
    BY <2>1 DEF Needed
  <2> QED
    BY <1>4, <2>2
<1>6. r(f) \in Yield(Machine(Here), {0})
  BY <1>3, <1>4, <1>5, StreamIsSet
<1>7. f.value.i.opcode \notin ArithmeticOpcodes[f.value.i.category]
  BY <1>4, OpcodesApart
<1> HIDE DEF r
<1> QED
  BY <1>1, <1>2, <1>4, <1>6, <1>7, Idle, PlainEnd

LEMMA NothingKeeps == StoryInv /\ Nothing => StoryInv'
<1> SUFFICES ASSUME StoryInv, Nothing PROVE StoryInv'
  OBVIOUS
<1>1. PICK f \in NextOf(IdleOpcodes) : Finish(Done(f.vm), f.value, 0)
  BY DEF Nothing, Execute, NextOf
<1>2. Ready /\ UNCHANGED <<story, job, arith>>
  BY DEF Nothing, Execute
<1>3. story \in Stories /\ vm \in Machine(Here)
  BY DEF StoryInv
<1>4. /\ f.vm \in Machine(Here) /\ f.value \in Fetched
      /\ f.value.i.category \in Category /\ f.value.i.opcode \in IdleOpcodes[f.value.i.category]
  BY <1>3, NextIs
<1>5. Done(f.vm) \in Yield(Machine(Here), {0})
  BY <1>4, Yields DEF Done
<1>6. f.value.i.opcode \notin ArithmeticOpcodes[f.value.i.category]
  BY <1>4, OpcodesApart
<1> QED
  BY <1>1, <1>2, <1>4, <1>5, <1>6, Idle, PlainEnd

\* A failing write is the only thing a stack that has shrunk could change, and a
\* machine that may go on has not failed.
LEMMA HaltKeeps == StoryInv /\ Halt => StoryInv'
<1> SUFFICES ASSUME StoryInv, Halt PROVE StoryInv'
  OBVIOUS
<1>1. PICK a \in DOMAIN story.code : vm' = Fetch(a).vm
  BY DEF Halt
<1>2. Ready /\ status' \in {"error", "endless"} /\ UNCHANGED <<story, job, done, arith>>
  BY DEF Halt, StatusAfter
<1>3. story \in Stories /\ vm \in Machine(Here) /\ DoneIs /\ ArithInv /\ PortIsUnderWay
  BY DEF StoryInv
<1>4. vm' \in Machine(Here) /\ vm'.image = vm.image
  BY <1>1, <1>3, Fetching
<1>5. Here' = Here /\ story' \in Stories
  BY <1>2, <1>3 DEF Here
<1>6. ArithInv'
  BY <1>2, <1>3, ArithStays
<1>7. DoneIs'
  BY <1>2, <1>3 DEF DoneIs
<1>8. PortIsUnderWay'
  <2> SUFFICES ASSUME Computed PROVE PortIsUnderWay'
    BY <1>2 DEF PortIsUnderWay, Computed
  <2>1. status = "running"
    BY <1>2, Idle
  <2>2. /\ Len(done.x) >= 2 /\ operand1 = done.x[1] /\ operand2 = done.x[2]
        /\ phase \in IF done.i.opcode = 22 THEN {"mul", "product"} ELSE {"div", "quotient", "fail"}
        /\ phase = "fail" <=> done.i.opcode # 22 /\ done.x[2] = 0
        /\ phase # "fail" /\ done.result = <<Arithmetic(vm.image, done.i, done.x).value>>
    BY <1>3, <2>1 DEF PortIsUnderWay
  <2>3. phase' = phase /\ operand1' = operand1 /\ operand2' = operand2
    BY <1>2 DEF arith
  <2>4. Arithmetic(vm'.image, done'.i, done'.x) = Arithmetic(vm.image, done.i, done.x)
    BY <1>2, <1>4
  <2> QED
    BY <1>2, <2>2, <2>3, <2>4 DEF PortIsUnderWay
<1>9. StaysDefined' /\ job' = NoJob
  BY <1>2, Idle DEF StaysDefined
<1> QED
  BY <1>2, <1>4, <1>5, <1>6, <1>7, <1>8, <1>9 DEF StoryInv

LEMMA MissingOperandKeeps == StoryInv /\ MissingOperand => StoryInv'
<1> SUFFICES ASSUME StoryInv, MissingOperand PROVE StoryInv'
  OBVIOUS
<1>1. PICK a \in DOMAIN story.code :
        /\ Fetch(a).ok /\ Len(Fetch(a).value.x) < Needed(Fetch(a).value.i)
        /\ vm' = Fetch(a).vm
        /\ done' = [i |-> Fetch(a).value.i, x |-> Fetch(a).value.x, result |-> <<>>]
  BY DEF MissingOperand
<1>2. Ready /\ status' = "undefined" /\ UNCHANGED <<story, job, arith>>
  BY DEF MissingOperand
<1>3. story \in Stories /\ vm \in Machine(Here) /\ ArithInv
  BY DEF StoryInv
<1>4. vm' \in Machine(Here) /\ Fetch(a).value \in Fetched
  BY <1>1, <1>3, Fetching
<1>5. Here' = Here /\ story' \in Stories
  BY <1>2, <1>3 DEF Here
<1>6. ArithInv'
  BY <1>2, <1>3, ArithStays
<1>7. DoneIs'
  BY <1>1, <1>4 DEF DoneIs, Fetched
<1>8. PortIsUnderWay'
  BY <1>2 DEF PortIsUnderWay
<1>9. StaysDefined' /\ job' = NoJob
  BY <1>1, <1>2, Idle DEF StaysDefined
<1> QED
  BY <1>2, <1>4, <1>5, <1>6, <1>7, <1>8, <1>9 DEF StoryInv

LEMMA ZeroIsZero == \A w \in Bits : AsSigned(w) = 0 <=> w = 0
<1> TAKE w \in Bits
<1>1. w \in Int /\ 0 <= w /\ w <= 65535
  BY WordRange
<1> QED
  BY <1>1, WordIs DEF AsSigned, Negative

LEMMA ComputeKeeps == StoryInv /\ Compute => StoryInv'
<1> SUFFICES ASSUME StoryInv, Compute PROVE StoryInv'
  OBVIOUS
<1> DEFINE r(f) == Arithmetic(f.vm.image, f.value.i, f.value.x)
           o(f) == StoreOf(On(f.vm, r(f)), f.value.i.store, r(f).value)
           Starts(f) == IF f.value.i.opcode = 22 THEN zds_mul(f.value.x[1], f.value.x[2])
                        ELSE zds_div(f.value.x[1], f.value.x[2])
<1>1. PICK f \in NextOf(ArithmeticOpcodes) : Finish(o(f), f.value, r(f).value) /\ Starts(f)
  BY DEF Compute, Execute, NextOf, StoreOf
<1>2. Ready /\ UNCHANGED <<story, job>>
  BY DEF Compute, Execute
<1>3. story \in Stories /\ vm \in Machine(Here) /\ Here \in Nat /\ ArithInv
  BY StoryHere DEF StoryInv
<1>4. /\ f.vm \in Machine(Here) /\ f.value \in Fetched /\ f.value.i \in Instr
      /\ f.value.x \in Seq(Bits) /\ f.value.i.category \in Category /\ f.value.i.store \in Byte
      /\ f.value.i.opcode \in ArithmeticOpcodes[f.value.i.category]
      /\ Len(f.value.x) >= Needed(f.value.i)
      /\ \A k \in 1 .. Len(f.value.x) : f.value.x[k] \in Bits
  BY <1>3, NextIs
<1>5. f.value.i.category = "two" /\ f.value.i.opcode \in 22 .. 24
  BY <1>4 DEF ArithmeticOpcodes, Category
<1>6. Len(f.value.x) >= 2 /\ f.value.x[1] \in Bits /\ f.value.x[2] \in Bits
  <2>1. Len(f.value.x) >= 2
    BY <1>4, <1>5 DEF Needed
  <2>2. 1 \in 1 .. Len(f.value.x) /\ 2 \in 1 .. Len(f.value.x)
    BY <2>1
  <2> QED
    BY <1>4, <2>1, <2>2
<1>7. r(f) \in Yield({f.vm.image}, Bits)
  BY <1>4, <1>6, ArithmeticIs
<1>8. ~ r(f).ok <=> f.value.i.opcode # 22 /\ f.value.x[2] = 0
  BY <1>6, ZeroIsZero, Parts DEF Arithmetic
<1>9. ArithInv'
  BY <1>1, <1>3, <1>6, StartMul, StartDiv
<1>10. /\ operand1' = f.value.x[1] /\ operand2' = f.value.x[2]
       /\ phase' = IF f.value.i.opcode = 22 THEN "mul" ELSE IF f.value.x[2] = 0 THEN "fail" ELSE "div"
  BY <1>1 DEF zds_mul, zds_div
<1> HIDE DEF Starts
<1>11. \A m \in {f.vm.image, vm'.image} : Arithmetic(m, f.value.i, f.value.x).value = r(f).value
  BY Parts DEF Arithmetic, Fail
<1> HIDE DEF r
<1>12. /\ On(f.vm, r(f)) \in Yield(Machine(Here), Bits) /\ On(f.vm, r(f)).ok = r(f).ok
       /\ r(f).ok => r(f).value \in Bits
  BY <1>3, <1>4, <1>7, Reads
<1>13. /\ o(f) \in Yield(Machine(Here), {0})
       /\ r(f).ok /\ ~ o(f).ok => ~ vm_write_variable(o(f).vm, f.value.i.store, 0).ok
       /\ o(f).ok => r(f).ok
  <2>1. o(f).ok => r(f).ok
    BY <1>12 DEF StoreOf, AndThen, Then
  <2> QED
    BY <1>3, <1>4, <1>12, <2>1, ResultIsStored
<1> HIDE DEF o
<1>14. /\ Here' = Here /\ story' \in Stories /\ vm' \in Machine(Here')
       /\ status' \in {"running", "error", "endless"} /\ DoneIs' /\ StaysDefined'
       /\ done'.i = f.value.i /\ done'.x = f.value.x
  BY <1>1, <1>2, <1>4, <1>13, InstructionEnds
<1>15. /\ vm' = o(f).vm /\ (status' = "running" <=> o(f).ok)
       /\ done'.result = IF o(f).ok THEN <<r(f).value>> ELSE <<>>
  BY <1>1 DEF Finish, StatusAfter
<1>16. /\ Len(done'.x) >= 2 /\ operand1' = done'.x[1] /\ operand2' = done'.x[2]
       /\ phase' \in IF done'.i.opcode = 22 THEN {"mul", "product"} ELSE {"div", "quotient", "fail"}
       /\ phase' = "fail" <=> done'.i.opcode # 22 /\ done'.x[2] = 0
  BY <1>6, <1>10, <1>14
<1>17. \/ phase' # "fail" /\ done'.result = <<Arithmetic(vm'.image, done'.i, done'.x).value>>
       \/ /\ done'.result = <<>> /\ status' # "running"
          /\ phase' = "fail" \/ ~ vm_write_variable(vm, done.i.store, 0)'.ok
  <2>1. CASE ~ r(f).ok
    BY <1>8, <1>10, <1>13, <1>15, <2>1
  <2>2. CASE r(f).ok /\ o(f).ok
    BY <1>8, <1>10, <1>11, <1>14, <1>15, <2>2
  <2>3. CASE r(f).ok /\ ~ o(f).ok
    <3>1. vm_write_variable(vm, done.i.store, 0)' = vm_write_variable(o(f).vm, f.value.i.store, 0)
      BY <1>2, <1>14, <1>15 DEF vm_write_variable, GlobalAddress
    <3> QED
      BY <1>13, <1>15, <2>3, <3>1
  <2> QED
    BY <2>1, <2>2, <2>3
<1>18. PortIsUnderWay'
  BY <1>16, <1>17 DEF PortIsUnderWay
<1> QED
  BY <1>2, <1>9, <1>14, <1>18, Idle DEF StoryInv

LEMMA PortLoopKeeps == StoryInv /\ PortLoop => StoryInv'
<1> SUFFICES ASSUME StoryInv, PortLoop PROVE StoryInv'
  OBVIOUS
<1>1. ArithLoop /\ UNCHANGED <<story, vm, job, status, done>>
  BY DEF PortLoop
<1>2. ArithInv'
  BY <1>1, PassMul, AnswerMul, PassDiv, AnswerDiv DEF ArithLoop, StoryInv
<1>3. /\ operand1' = operand1 /\ operand2' = operand2 /\ phase' # "fail" /\ phase # "fail"
      /\ \/ phase = "mul" /\ phase' \in {"mul", "product"}
         \/ phase = "div" /\ phase' \in {"div", "quotient"}
  BY <1>1 DEF ArithLoop, MulLoop, MulDone, DivLoop, DivDone
<1>4. PortIsUnderWay'
  <2>1. PortIsUnderWay
    BY DEF StoryInv
  <2>2. vm_write_variable(vm, done.i.store, 0)' = vm_write_variable(vm, done.i.store, 0)
    BY <1>1 DEF vm_write_variable, GlobalAddress
  <2> SUFFICES ASSUME Computed, status # "undefined" PROVE PortIsUnderWay'
    BY <1>1 DEF PortIsUnderWay, Computed
  <2>3. /\ Len(done.x) >= 2 /\ operand1 = done.x[1] /\ operand2 = done.x[2]
        /\ phase \in IF done.i.opcode = 22 THEN {"mul", "product"} ELSE {"div", "quotient", "fail"}
        /\ phase = "fail" <=> done.i.opcode # 22 /\ done.x[2] = 0
        /\ \/ phase # "fail" /\ done.result = <<Arithmetic(vm.image, done.i, done.x).value>>
           \/ /\ done.result = <<>> /\ status # "running"
              /\ phase = "fail" \/ ~ vm_write_variable(vm, done.i.store, 0).ok
    BY <2>1 DEF PortIsUnderWay
  <2> QED
    BY <1>1, <1>3, <2>2, <2>3 DEF PortIsUnderWay
<1>5. story' \in Stories /\ vm' \in Machine(Here') /\ Here' = Here
  BY <1>1 DEF StoryInv, Here
<1>6. DoneIs' /\ StaysDefined' /\ status' \in {"running", "error", "undefined", "endless"}
  BY <1>1 DEF StoryInv, DoneIs, StaysDefined, Ran
<1>7. (job = NoJob \/ TextIsUnderWay \/ LineIsUnderWay)'
  BY <1>1 DEF StoryInv, TextIsUnderWay, LineIsUnderWay, TextStreams, Here, Ran
<1> QED
  BY <1>2, <1>4, <1>5, <1>6, <1>7 DEF StoryInv

LEMMA PrintTextKeeps == StoryInv /\ PrintText => StoryInv'
<1> SUFFICES ASSUME StoryInv, PrintText PROVE StoryInv'
  OBVIOUS
<1> DEFINE r(f) == TextOf(f.vm, f.value.i, f.value.x)
<1>1. PICK f \in NextOf(TextOpcodes) :
        /\ Finish(r(f), f.value, r(f).value)
        /\ job' = IF r(f).ok THEN [kind |-> "text", streams |-> <<r(f).value>>] ELSE NoJob
  BY DEF PrintText, Execute, NextOf
<1>2. Ready /\ UNCHANGED <<story, arith>>
  BY DEF PrintText, Execute
<1>3. story \in Stories /\ vm \in Machine(Here) /\ Here \in Nat /\ ArithInv
  BY StoryHere DEF StoryInv
<1>4. /\ f.vm \in Machine(Here) /\ f.value \in Fetched /\ f.value.i \in Instr
      /\ f.value.x \in Seq(Bits) /\ f.value.i.category \in Category
      /\ f.value.i.opcode \in TextOpcodes[f.value.i.category]
      /\ Len(f.value.x) = Len(f.value.i.types)
  BY <1>3, NextIs
<1>5. f.value.i.category \in {"zero", "one"}
  BY <1>4 DEF TextOpcodes, Category
<1>6. /\ r(f) \in Yield(Machine(Here), Stream)
      /\ r(f).ok /\ f.value.i.category = "one" /\ f.value.i.opcode # 10 =>
           Inside(Here, r(f).value)
      /\ f.value.i.category = "zero" => f.value.i.opcode = 2
  BY <1>3, <1>4, <1>5, TextIs
<1>7. f.value.i.opcode \notin ArithmeticOpcodes[f.value.i.category]
  BY <1>4, OpcodesApart
<1> HIDE DEF r
<1>8. CASE ~ r(f).ok
  BY <1>1, <1>2, <1>4, <1>6, <1>7, <1>8, PlainEnd
<1>9. CASE r(f).ok
  <2>1. /\ Here' = Here /\ story' \in Stories /\ vm' \in Machine(Here')
        /\ status' \in {"running", "error", "endless"} /\ DoneIs' /\ StaysDefined'
        /\ done'.i = f.value.i /\ done'.x = f.value.x
    BY <1>1, <1>2, <1>4, <1>6, InstructionEnds
  <2>2. job' = [kind |-> "text", streams |-> <<r(f).value>>] /\ done'.result = <<r(f).value>>
    BY <1>1, <1>9 DEF Finish, StatusAfter
  <2>3. r(f).value \in Stream
    BY <1>6, <1>9, Yielded
  <2> DEFINE v == r(f).value
  <2> HIDE DEF v
  <2>4. <<v>> \in Seq(Stream) /\ Len(<<v>>) = 1 /\ <<v>>[1] = v
    BY <2>3 DEF v
  <2>5. job'.streams = <<v>> /\ done'.result[1] = v
    BY <2>2, <2>4 DEF v
  <2>6. v \in TextStreams'
    BY <2>3, <2>5 DEF TextStreams, v
  <2>7. job'.streams \in Stacks(Here', TextStreams')
    BY <2>4, <2>5, <2>6 DEF Stacks
  <2>8. Inside(Here', done'.result[1]) \/ Ran("zero", 2)' \/ Ran("one", 10)'
    BY <1>5, <1>6, <1>9, <2>1, <2>5 DEF Ran, v
  <2>9. TextIsUnderWay'
    BY <1>4, <1>5, <2>1, <2>2, <2>3, <2>5, <2>7, <2>8 DEF TextIsUnderWay, v
  <2>10. PortIsUnderWay'
    BY <1>7, <2>1 DEF PortIsUnderWay, Computed
  <2>11. ArithInv'
    BY <1>2, <1>3, ArithStays
  <2> QED
    BY <2>1, <2>9, <2>10, <2>11 DEF StoryInv
<1> QED
  BY <1>8, <1>9

LEMMA TextStreamsAreClosed ==
  ASSUME story \in Stories, vm \in Machine(Here)
  PROVE  Closed(vm.image, TextStreams)
<1>1. Here \in Nat /\ vm.image \in Image(Here)
  BY StoryHere DEF Machine
<1>2. TextStreams = Stream \/ TextStreams = Safe(Here)
  BY DEF TextStreams, Safe
<1> QED
  BY <1>1, <1>2, StreamsAreClosed

LEMMA JobIs ==
  ASSUME StoryInv
  PROVE  /\ job.kind = "text" => TextIsUnderWay
         /\ job.kind = "parse" => LineIsUnderWay
<1>1. job = NoJob => job.kind # "text" /\ job.kind # "parse"
  BY DEF NoJob
<1>2. TextIsUnderWay => job.kind = "text"
  BY DEF TextIsUnderWay
<1>3. LineIsUnderWay => job.kind = "parse"
  BY DEF LineIsUnderWay
<1> QED
  BY <1>1, <1>2, <1>3 DEF StoryInv

LEMMA TextStepKeeps == StoryInv /\ TextStep => StoryInv'
<1> SUFFICES ASSUME StoryInv, TextStep PROVE StoryInv'
  OBVIOUS
<1> DEFINE t == ztext_decode_step(vm.image, story.abbreviations, job.streams)
           r == EmitAll(vm, t.chars)
           P == TextStreams
<1>1. /\ job.kind = "text" /\ vm' = r.vm
      /\ status' = IF ~ r.ok \/ t.how = "error" THEN "error"
                   ELSE IF t.how = "undefined" THEN "undefined" ELSE "running"
      /\ job' = IF r.ok /\ t.how = "more" THEN [job EXCEPT !.streams = t.streams] ELSE NoJob
      /\ done' = IF t.how = "end" THEN [done EXCEPT !.result = <<Last(job.streams)>>] ELSE done
      /\ UNCHANGED <<story, arith>>
  BY DEF TextStep
<1>2. /\ story \in Stories /\ vm \in Machine(Here) /\ Here \in Nat /\ ArithInv /\ DoneIs
      /\ TextIsUnderWay
  BY <1>1, StoryHere, JobIs DEF StoryInv
<1>3. Decoded(Here, P, job.streams, t)
  <2>1. vm.image \in Image(Here) /\ story.abbreviations \in Nat
    BY <1>2, StoryIs DEF Machine
  <2>2. Closed(vm.image, P) /\ job.streams \in Stacks(Here, P)
    BY <1>2, TextStreamsAreClosed DEF TextIsUnderWay
  <2> QED
    BY <1>2, <2>1, <2>2, TextIsDecoded
<1>4. t.chars \in Seq(Byte)
  BY <1>3 DEF Decoded
<1>5. r \in Yield(Emitted(Here, vm), {0})
  BY <1>2, <1>4, AllEmitted
<1> HIDE DEF t, r
<1>6. r.ok \in BOOLEAN /\ r.vm \in Machine(Here)
  BY <1>5, Yielded DEF Emitted
<1>7. Here' = Here /\ story' \in Stories
  BY <1>1, <1>2 DEF Here
<1>8. done'.i = done.i /\ done'.x = done.x /\ done' = [i |-> done'.i, x |-> done'.x, result |-> done'.result]
  BY <1>1, <1>2 DEF DoneIs
<1>9. DoneIs'
  BY <1>2, <1>8 DEF DoneIs
<1>10. PortIsUnderWay'
  <2>1. done.i.category \in Category /\ done.i.opcode \in TextOpcodes[done.i.category]
    BY <1>2 DEF TextIsUnderWay, Category
  <2>2. done.i.opcode \notin ArithmeticOpcodes[done.i.category]
    BY <2>1, OpcodesApart
  <2> QED
    BY <1>8, <2>2 DEF PortIsUnderWay, Computed
<1>11. ArithInv'
  BY <1>1, <1>2, ArithStays
<1>12. ASSUME r.ok, t.how = "more" PROVE TextIsUnderWay'
  <2>1. job' = [job EXCEPT !.streams = t.streams] /\ done' = done
    BY <1>1, <1>12
  <2>2. job' = [kind |-> "text", streams |-> t.streams]
    BY <1>2, <2>1 DEF TextIsUnderWay
  <2>3. job'.streams \in Stacks(Here, P)
    BY <1>3, <1>12, <2>2 DEF Decoded
  <2>4. TextStreams' = P
    BY <1>7, <2>1 DEF TextStreams
  <2> HIDE DEF P
  <2> QED
    BY <1>2, <1>7, <2>1, <2>2, <2>3, <2>4 DEF TextIsUnderWay, Ran
<1>13. (job = NoJob \/ TextIsUnderWay)'
  BY <1>1, <1>12
<1>14. StaysDefined'
  <2> SUFFICES ASSUME status' = "undefined" PROVE StaysDefined'
    BY DEF StaysDefined
  <2>1. t.how = "undefined" /\ done' = done
    BY <1>1
  <2>2. ~ Inside(Here, job.streams[1]) /\ job.streams[1] \in P
    BY <1>2, <1>3, <2>1 DEF Decoded, TextIsUnderWay, Stacks
  <2>3. ~ Inside(Here, done.result[1])
    BY <2>2 DEF TextStreams
  <2>4. Ran("zero", 2) \/ Ran("one", 10)
    BY <1>2, <2>3 DEF TextIsUnderWay
  <2>5. done.result[1].at + done.result[1].left > Here
    <3>1. done.result[1].at \in Nat /\ done.result[1].left \in Nat
      BY <1>2 DEF TextIsUnderWay, Stream, Even
    <3> QED
      BY <1>2, <2>3, <3>1 DEF Inside
  <2>6. Cardinality(DOMAIN vm'.image) = Here
    <3>1. vm'.image \in Image(Here)
      BY <1>1, <1>6 DEF Machine
    <3> QED
      BY <1>2, <3>1, SizeIs
  <2> QED
    BY <2>1, <2>4, <2>5, <2>6 DEF StaysDefined, Ran
<1>15. status' \in {"running", "error", "undefined", "endless"}
  BY <1>1
<1> QED
  BY <1>1, <1>6, <1>7, <1>9, <1>10, <1>11, <1>13, <1>14, <1>15 DEF StoryInv

\* What sread writes before the line is tokenized: its text buffer.
ReadInto(size, image, text) ==
  {m \in Image(size) :
     \A a \in 0 .. size - 1 :
       m[a] # image[a] => a \in BytesBehind(text, 1 + image[text % AddrMod])}
LowerCased(line) == [k \in DOMAIN line |-> Lowercase(line[k])]
LineRead(image, dyn, text, line, buffer) ==
  AndThen(read8(image, text), LAMBDA n :
    AndThen(IF n.value = 0 \/ Len(line) > n.value THEN Fail(n.vm)
            ELSE WriteBytes(n.vm, dyn, text + 1, Append(LowerCased(line), 0)),
            LAMBDA w : StartParse(w.vm, text + 1, Len(line), buffer)))

LEMMA LineIsWritten ==
  ASSUME NEW size \in Nat, NEW image \in Image(size), NEW dyn, NEW text \in Bits,
         NEW line \in Seq(Byte), text % AddrMod \in 0 .. size - 1,
         Len(line) <= image[text % AddrMod]
  PROVE  WriteBytes(image, dyn, text + 1, Append(LowerCased(line), 0))
           \in Yield(ReadInto(size, image, text), {0})
<1> DEFINE b == Append(LowerCased(line), 0)
           w == WriteBytes(image, dyn, text + 1, b)
           n == image[text % AddrMod]
<1>1. \A c \in Byte : Lowercase(c) \in Byte
  <2> TAKE c \in Byte
  <2> DEFINE l == Lowercase(c)
  <2>1. l \in Int /\ 0 <= l /\ l <= 255
    <3>1. c \in Int /\ 0 <= c /\ c <= 255
      BY ByteRange
    <3> QED
      BY <3>1 DEF Lowercase
  <2> QED
    BY <2>1, ByteIs
<1>2. LowerCased(line) \in Seq(Byte) /\ Len(LowerCased(line)) = Len(line)
  BY <1>1 DEF LowerCased
<1>3. 0 \in Byte
  BY ByteIs
<1>4. b \in Seq(Byte) /\ Len(b) = Len(line) + 1
  BY <1>2, <1>3
<1>5. text \in Int /\ text + 1 \in Int /\ n \in Byte /\ n \in Nat /\ Len(line) \in Nat
  BY WordRange, ByteRange DEF Image
<1> HIDE DEF b
<1>6. /\ w \in Yield(Image(size), {0})
      /\ \A x \in 0 .. size - 1 :
           w.vm[x] # image[x] => \E k \in 0 .. Len(b) - 1 : x = (text + 1 + k) % AddrMod
  <2>1. b \in Seq(Byte)
    BY <1>4
  <2> DEFINE from == text + 1
  <2>2. from \in Int
    BY <1>5
  <2> HIDE DEF from
  <2>3. WriteBytes(image, dyn, from, b) \in Yield(Image(size), {0})
    BY <2>1, <2>2, WritesBytes
  <2>4. \A x \in 0 .. size - 1 :
          WriteBytes(image, dyn, from, b).vm[x] # image[x] =>
            \E k \in 0 .. Len(b) - 1 : x = (from + k) % AddrMod
    BY <2>1, <2>2, WritesBytes
  <2> QED
    BY <2>3, <2>4 DEF from
<1>7. w.vm \in Image(size)
  BY <1>6, Yielded
<1> HIDE DEF w
<1>8. ASSUME NEW x \in 0 .. size - 1, w.vm[x] # image[x]
      PROVE  x \in BytesBehind(text, 1 + n)
  <2>1. PICK k \in 0 .. Len(b) - 1 : x = (text + 1 + k) % AddrMod
    BY <1>6, <1>8
  <2>2. k + 1 \in 1 .. 1 + n /\ text + 1 + k = text + (k + 1)
    BY <1>4, <1>5
  <2> QED
    BY <2>1, <2>2 DEF BytesBehind
<1>9. w.vm \in ReadInto(size, image, text)
  BY <1>7, <1>8 DEF ReadInto
<1>10. w \in Yield(ReadInto(size, image, text), {0})
  BY <1>6, <1>9 DEF Yield
<1> QED
  BY <1>10 DEF w, b

LEMMA LineIsRead ==
  ASSUME NEW size \in Nat, NEW image \in Image(size), NEW dyn, NEW text \in Bits,
         NEW line \in Seq(Byte), NEW buffer \in Bits
  PROVE  LineRead(image, dyn, text, line, buffer)
           \in Yield(ReadInto(size, image, text), {p \in Parsing : p.buffer = buffer})
<1> DEFINE M == ReadInto(size, image, text)
           P == {p \in Parsing : p.buffer = buffer}
           Out == Yield(M, P)
           h == read8(image, text)
           g(n) == IF n.value = 0 \/ Len(line) > n.value THEN Fail(n.vm)
                   ELSE WriteBytes(n.vm, dyn, text + 1, Append(LowerCased(line), 0))
           s(w) == StartParse(w.vm, text + 1, Len(line), buffer)
           op(n) == AndThen(g(n), LAMBDA w : s(w))
<1>1. LineRead(image, dyn, text, line, buffer) = AndThen(h, LAMBDA n : op(n))
  BY DEF LineRead
<1>2. /\ h \in Yield({image}, Byte) /\ (h.ok <=> text % AddrMod \in 0 .. size - 1)
      /\ h.ok => h.value = image[text % AddrMod]
  BY ReadsByte
<1>3. image \in M
  BY DEF ReadInto
<1>4. h \in Yield(M, Byte) /\ h.vm = image /\ (h.ok => h.value \in Byte)
  BY <1>2, <1>3, Yielded DEF Yield
<1>5. text + 1 \in Nat /\ buffer \in Nat /\ Len(line) \in Nat
  BY WordRange
<1>6. h.ok => g(h) \in Yield(M, {0}) /\ (g(h).ok => Len(line) <= h.value)
  <2> SUFFICES ASSUME h.ok PROVE g(h) \in Yield(M, {0}) /\ (g(h).ok => Len(line) <= h.value)
    OBVIOUS
  <2>1. CASE h.value = 0 \/ Len(line) > h.value
    <3>1. g(h) = Fail(image)
      BY <1>4, <2>1
    <3> HIDE DEF g, M
    <3>2. Fail(image) \in Yield(M, {0}) /\ ~ Fail(image).ok
      BY <1>3, Yields, Parts
    <3> QED
      BY <3>1, <3>2
  <2>2. CASE ~ (h.value = 0 \/ Len(line) > h.value)
    <3>1. h.value \in Nat
      BY <1>4, ByteRange
    <3>2. Len(line) <= h.value
      BY <1>5, <2>2, <3>1
    <3>3. WriteBytes(image, dyn, text + 1, Append(LowerCased(line), 0)) \in Yield(M, {0})
      BY <1>2, <3>2, LineIsWritten
    <3> HIDE DEF h
    <3>4. g(h) = WriteBytes(image, dyn, text + 1, Append(LowerCased(line), 0))
      BY <1>4, <2>2
    <3> QED
      BY <3>2, <3>3, <3>4
  <2> QED
    BY <2>1, <2>2
<1> HIDE DEF h, g
<1>7. ASSUME h.ok, g(h).ok PROVE s(g(h)) \in Out
  <2>1. Len(line) \in Byte
    <3>1. h.value \in Nat /\ h.value <= 255 /\ Len(line) <= h.value
      BY <1>4, <1>6, <1>7, ByteRange
    <3> QED
      BY <1>5, <3>1, ByteIs
  <2>2. g(h).vm \in M
    BY <1>6, <1>7, Yielded
  <2>3. g(h).vm \in Image(size)
    BY <2>2 DEF ReadInto
  <2> HIDE DEF M
  <2>4. s(g(h)) \in Yield({g(h).vm}, P)
    BY <1>5, <2>1, <2>3, ParseIsStarted
  <2> HIDE DEF s, P
  <2> QED
    BY <2>2, <2>4 DEF Yield
<1> HIDE DEF s, P, M
<1>8. op(h) = IF g(h).ok THEN s(g(h)) ELSE g(h)
  BY DEF AndThen, Then
<1>9. h.ok => op(h) \in Out
  BY <1>6, <1>7, <1>8, Follows
<1> HIDE DEF op
<1>10. AndThen(h, LAMBDA n : op(n)) = IF h.ok THEN op(h) ELSE h
  BY DEF AndThen, Then
<1> QED
  BY <1>1, <1>4, <1>9, <1>10, Follows DEF M, P

ReadOutcomes(f) ==
  Yield(ReadInto(Here, vm.image, f.value.x[1]), {p \in Parsing : p.buffer = f.value.x[2]})

LEMMA RecordIsMoved ==
  ASSUME NEW s, NEW t, NEW ok, NEW value, NEW o, o = [ok |-> ok, vm |-> s, value |-> value]
  PROVE  [o EXCEPT !.vm = t] = [ok |-> ok, vm |-> t, value |-> value]
  OBVIOUS

LEMMA FailIsMoved ==
  ASSUME NEW s, NEW t
  PROVE  [Fail(s) EXCEPT !.vm = t] = Fail(t)
<1> DEFINE o == Fail(s)
           no == FALSE
<1>1. o = [ok |-> no, vm |-> s, value |-> 0] /\ Fail(t) = [ok |-> no, vm |-> t, value |-> 0]
  BY DEF Fail
<1> HIDE DEF o, no
<1>2. [o EXCEPT !.vm = t] = [ok |-> no, vm |-> t, value |-> 0]
  BY <1>1, RecordIsMoved
<1> QED
  BY <1>1, <1>2 DEF o

\* Either a line is read or the terminal fails.
LEMMA SreadIs ==
  ASSUME StoryInv, Sread
  PROVE  \E f \in NextOf(ReadOpcodes) : \E line : \E r \in ReadOutcomes(f) :
           /\ Finish(On(f.vm, r), f.value, line)
           /\ job' = IF r.ok THEN [kind |-> "parse", at |-> r.value] ELSE NoJob
<1> DEFINE r(f, line) == LineRead(f.vm.image, story.dyn, f.value.x[1], line, f.value.x[2])
           Ends(f, line, o) == /\ Finish(On(f.vm, o), f.value, line)
                               /\ job' = IF o.ok THEN [kind |-> "parse", at |-> o.value] ELSE NoJob
<1>1. PICK f \in NextOf(ReadOpcodes) :
        \/ \E line \in story.lines : Ends(f, line, r(f, line))
        \/ Finish(Fail(f.vm), f.value, 0) /\ job' = NoJob
  <2>1. PICK f \in NextOf(ReadOpcodes) :
          \/ \E line \in story.lines : \E o \in {r(f, line)} : Ends(f, line, o)
          \/ Finish(Fail(f.vm), f.value, 0) /\ job' = NoJob
    <3> HIDE DEF Ends
    <3>1. ASSUME NEW f, NEW line
          PROVE  LineRead(f.vm.image, story.dyn, f.value.x[1], line, f.value.x[2]) = r(f, line)
      OBVIOUS
    <3> QED
      BY DEF Sread, Execute, NextOf, LineRead, LowerCased, Ends
  <2> HIDE DEF r, Ends
  <2> QED
    BY <2>1
<1>2. story \in Stories /\ vm \in Machine(Here) /\ Here \in Nat /\ vm.image \in Image(Here)
      /\ story.lines \subseteq Seq(Byte)
  BY StoryHere DEF StoryInv, Machine
<1>3. /\ f.vm \in Machine(Here) /\ f.vm.image = vm.image
      /\ f.value.i.category \in Category /\ f.value.i.opcode \in ReadOpcodes[f.value.i.category]
      /\ Len(f.value.x) >= Needed(f.value.i) /\ f.value.x \in Seq(Bits)
      /\ \A k \in 1 .. Len(f.value.x) : f.value.x[k] \in Bits
  BY <1>2, NextIs
<1>4. f.value.x[1] \in Bits /\ f.value.x[2] \in Bits
  <2>1. Len(f.value.x) >= 2
    BY <1>3, SMTT(30) DEF ReadOpcodes, Category, Needed
  <2>2. 1 \in 1 .. Len(f.value.x) /\ 2 \in 1 .. Len(f.value.x)
    BY <1>3, <2>1
  <2> QED
    BY <1>3, <2>2
<1>5. CASE \E line \in story.lines : Ends(f, line, r(f, line))
  <2>1. PICK line \in story.lines : Ends(f, line, r(f, line))
    BY <1>5
  <2>2. r(f, line) \in ReadOutcomes(f)
    BY <1>2, <1>3, <1>4, LineIsRead DEF ReadOutcomes
  <2> HIDE DEF r
  <2> QED
    BY <2>1, <2>2
<1>6. CASE Finish(Fail(f.vm), f.value, 0) /\ job' = NoJob
  <2> DEFINE o == Fail(vm.image)
  <2>1. o \in ReadOutcomes(f) /\ ~ o.ok
    <3>1. vm.image \in ReadInto(Here, vm.image, f.value.x[1])
      BY <1>2 DEF ReadInto
    <3> QED
      BY <3>1, Yields, Parts DEF ReadOutcomes
  <2>2. On(f.vm, o) = Fail(f.vm)
    <3>1. [f.vm EXCEPT !.image = vm.image] = f.vm
      BY <1>3 DEF Machine
    <3>2. o.vm = vm.image
      BY Parts
    <3>3. On(f.vm, o) = [o EXCEPT !.vm = f.vm]
      BY <3>1, <3>2 DEF On
    <3>4. [o EXCEPT !.vm = f.vm] = Fail(f.vm)
      BY FailIsMoved
    <3> QED
      BY <3>3, <3>4
  <2> HIDE DEF o
  <2>3. Ends(f, 0, o)
    BY <1>6, <2>1, <2>2
  <2> QED
    BY <2>1, <2>3
<1> QED
  BY <1>1, <1>5, <1>6

LEMMA SreadKeeps == StoryInv /\ Sread => StoryInv'
<1> SUFFICES ASSUME StoryInv, Sread PROVE StoryInv'
  OBVIOUS
<1>1. PICK f \in NextOf(ReadOpcodes) : \E line : \E r \in ReadOutcomes(f) :
        /\ Finish(On(f.vm, r), f.value, line)
        /\ job' = IF r.ok THEN [kind |-> "parse", at |-> r.value] ELSE NoJob
  BY SreadIs
<1> DEFINE Ends(line, r) ==
             /\ Finish(On(f.vm, r), f.value, line)
             /\ job' = IF r.ok THEN [kind |-> "parse", at |-> r.value] ELSE NoJob
<1> HIDE DEF Ends
<1>a. PICK line : \E r \in ReadOutcomes(f) : Ends(line, r)
  BY <1>1 DEF Ends
<1>b. PICK r \in ReadOutcomes(f) : Ends(line, r)
  BY <1>a
<1>2. /\ Finish(On(f.vm, r), f.value, line)
      /\ job' = IF r.ok THEN [kind |-> "parse", at |-> r.value] ELSE NoJob
  BY <1>b DEF Ends
<1>3. UNCHANGED <<story, arith>>
  BY DEF Sread, Execute
<1>4. story \in Stories /\ vm \in Machine(Here) /\ Here \in Nat /\ ArithInv
  BY StoryHere DEF StoryInv
<1>5. /\ f.vm \in Machine(Here) /\ f.value \in Fetched /\ f.value.i \in Instr
      /\ f.value.i.category \in Category /\ f.value.i.opcode \in ReadOpcodes[f.value.i.category]
  BY <1>4, NextIs
<1> DEFINE P == {p \in Parsing : p.buffer = f.value.x[2]}
           o == On(f.vm, r)
<1>6. /\ o \in Yield(Machine(Here), P) /\ o.ok = r.ok
      /\ r.ok => r.value \in Parsing /\ r.value.buffer = f.value.x[2]
  <2>1. ReadInto(Here, vm.image, f.value.x[1]) \subseteq Image(Here)
    BY DEF ReadInto
  <2>2. r \in Yield(Image(Here), P)
    BY <2>1, YieldWider DEF ReadOutcomes
  <2>3. r.ok => r.value \in P
    BY <2>2, Yielded
  <2>4. o \in Yield(Machine(Here), P) /\ o.ok = r.ok
    BY <1>4, <1>5, <2>2, OnMachine
  <2> QED
    BY <2>3, <2>4
<1>7. /\ Here' = Here /\ story' \in Stories /\ vm' \in Machine(Here')
      /\ status' \in {"running", "error", "endless"} /\ DoneIs' /\ StaysDefined'
      /\ done'.i = f.value.i /\ done'.x = f.value.x
  BY <1>2, <1>3, <1>5, <1>6, InstructionEnds
<1>8. PortIsUnderWay'
  BY <1>5, <1>7 DEF PortIsUnderWay, Computed, ReadOpcodes, ArithmeticOpcodes, Category
<1>9. (job = NoJob \/ LineIsUnderWay)'
  <2>1. CASE ~ r.ok
    BY <1>2, <2>1
  <2>2. CASE r.ok
    <3>1. job' = [kind |-> "parse", at |-> r.value]
      BY <1>2, <2>2
    <3>2. f.value.i.category = "var" /\ f.value.i.opcode = 4
      BY <1>5 DEF ReadOpcodes, Category
    <3> QED
      BY <1>5, <1>6, <1>7, <2>2, <3>1, <3>2 DEF LineIsUnderWay, Ran
  <2> QED
    BY <2>1, <2>2
<1>10. ArithInv'
  BY <1>3, <1>4, ArithStays
<1> QED
  BY <1>7, <1>8, <1>9, <1>10 DEF StoryInv

\* What a step of the tokenizer gives, whether it is the last or not.
LEMMA ParseStepIs ==
  ASSUME StoryInv, ParseStep
  PROVE  \E r : /\ r.vm \in ParsedInto(Here, vm.image, job.at.buffer, job.at.limit)
                /\ r.ok /\ ~ ParseAtEnd(job.at) => r.value \in SameBuffer(job.at)
                /\ vm' = [vm EXCEPT !.image = r.vm]
                /\ status' \in {"running", "error", "endless"}
                /\ job' = IF r.ok /\ ~ ParseAtEnd(job.at) THEN [job EXCEPT !.at = r.value]
                          ELSE NoJob
<1>1. PICK r \in { IF ParseAtEnd(job.at) THEN ParseEnd(vm.image, story.dyn, job.at)
                   ELSE ParsePass(vm.image, story.dyn, story.dictionary, job.at) } :
        /\ vm' = [vm EXCEPT !.image = r.vm]
        /\ status' = IF r.ok THEN "running" ELSE "error"
        /\ job' = IF r.ok /\ ~ ParseAtEnd(job.at) THEN [job EXCEPT !.at = r.value] ELSE NoJob
  BY DEF ParseStep
<1>2. /\ Here \in Nat /\ vm.image \in Image(Here) /\ story.dictionary \in Int
      /\ job.at \in Parsing
  <2>1. LineIsUnderWay
    BY JobIs DEF ParseStep
  <2>2. story \in Stories /\ vm \in Machine(Here)
    BY DEF StoryInv
  <2>3. story.dictionary \in Nat
    BY <2>2, StoryIs
  <2> QED
    BY <2>1, <2>2, <2>3, StoryHere DEF LineIsUnderWay, Machine
<1>3. CASE ParseAtEnd(job.at)
  <2>1. r \in Yield(ParsedInto(Here, vm.image, job.at.buffer, job.at.limit), {0})
    BY <1>1, <1>2, <1>3, ParseIsEnded
  <2>2. r.vm \in ParsedInto(Here, vm.image, job.at.buffer, job.at.limit)
    BY <2>1, Yielded
  <2> QED
    BY <1>1, <1>3, <2>2
<1>4. CASE ~ ParseAtEnd(job.at)
  <2>1. r \in Yield(ParsedInto(Here, vm.image, job.at.buffer, job.at.limit), SameBuffer(job.at))
    BY <1>1, <1>2, <1>4, PassIsMade
  <2>2. /\ r.vm \in ParsedInto(Here, vm.image, job.at.buffer, job.at.limit)
        /\ r.ok => r.value \in SameBuffer(job.at)
    BY <2>1, Yielded
  <2> QED
    BY <1>1, <2>2
<1> QED
  BY <1>3, <1>4

LEMMA ParseStepKeeps == StoryInv /\ ParseStep => StoryInv'
<1> SUFFICES ASSUME StoryInv, ParseStep PROVE StoryInv'
  OBVIOUS
<1>1. PICK r :
        /\ r.vm \in ParsedInto(Here, vm.image, job.at.buffer, job.at.limit)
        /\ r.ok /\ ~ ParseAtEnd(job.at) => r.value \in SameBuffer(job.at)
        /\ vm' = [vm EXCEPT !.image = r.vm] /\ status' \in {"running", "error", "endless"}
        /\ job' = IF r.ok /\ ~ ParseAtEnd(job.at) THEN [job EXCEPT !.at = r.value] ELSE NoJob
  BY ParseStepIs
<1>2. UNCHANGED <<story, done, arith>>
  BY DEF ParseStep
<1>3. story \in Stories /\ vm \in Machine(Here) /\ ArithInv /\ DoneIs /\ LineIsUnderWay
  BY JobIs DEF StoryInv, ParseStep
<1>4. Here' = Here /\ story' \in Stories
  BY <1>2, <1>3 DEF Here
<1>5. vm' \in Machine(Here)
  <2>1. r.vm \in Image(Here)
    BY <1>1 DEF ParsedInto
  <2> QED
    BY <1>1, <1>3, <2>1 DEF Machine
<1>6. ArithInv' /\ DoneIs' /\ StaysDefined'
  BY <1>1, <1>2, <1>3, ArithStays DEF DoneIs, StaysDefined
<1>7. PortIsUnderWay'
  <2>1. done'.i.category = "var" /\ done'.i.opcode = 4
    BY <1>2, <1>3 DEF LineIsUnderWay, Ran
  <2> QED
    BY <2>1 DEF PortIsUnderWay, Computed, ArithmeticOpcodes
<1>8. (job = NoJob \/ LineIsUnderWay)'
  <2>1. CASE ~ (r.ok /\ ~ ParseAtEnd(job.at))
    BY <1>1, <2>1
  <2>2. CASE r.ok /\ ~ ParseAtEnd(job.at)
    <3>1. job' = [kind |-> "parse", at |-> r.value]
      BY <1>1, <1>3, <2>2 DEF LineIsUnderWay
    <3>2. r.value \in Parsing /\ r.value.buffer = done.x[2]
      BY <1>1, <1>3, <2>2 DEF SameBuffer, LineIsUnderWay
    <3> QED
      BY <1>2, <1>3, <3>1, <3>2 DEF LineIsUnderWay, Ran
  <2> QED
    BY <2>1, <2>2
<1> QED
  BY <1>1, <1>4, <1>5, <1>6, <1>7, <1>8 DEF StoryInv

LEMMA StoryStarts == Init => StoryInv
<1> SUFFICES ASSUME Init PROVE StoryInv
  OBVIOUS
<1>1. /\ story \in Stories /\ job = NoJob /\ status = "running" /\ ArithInit
      /\ done = [i |-> NoInstr, x |-> <<>>, result |-> <<>>]
      /\ vm = [ image |-> story.image, eval |-> <<>>, pc |-> 0, out |-> <<>>,
                table |-> [active |-> FALSE, at |-> 0, count |-> 0] ]
  BY DEF Init
<1>2. story.image \in Image(Here)
  BY <1>1, StoryHere
<1>3. 0 \in Bits /\ 0 \in Address
  <2>1. 0 % AddrMod \in Address /\ 0 \in Bits
    BY Wraps, WordIs
  <2>2. 0 \in Address
    BY Addresses DEF Address
  <2> QED
    BY <2>1, <2>2
<1>4. <<>> \in Stack /\ <<>> \in Seq(Byte)
  BY StackLimitAssumption DEF Stack
<1>5. [active |-> FALSE, at |-> 0, count |-> 0] \in Table
  BY <1>3 DEF Table
<1>6. vm \in Machine(Here)
  BY <1>1, <1>2, <1>3, <1>4, <1>5 DEF Machine
<1>7. DoneIs /\ StaysDefined /\ PortIsUnderWay
  BY <1>1 DEF DoneIs, StaysDefined, PortIsUnderWay, Computed
<1>8. ArithInv
  BY <1>1, InitArith
<1> QED
  BY <1>1, <1>6, <1>7, <1>8 DEF StoryInv

LEMMA StoryStays == StoryInv /\ UNCHANGED vars => StoryInv'
<1> SUFFICES ASSUME StoryInv, UNCHANGED vars PROVE StoryInv'
  OBVIOUS
<1>1. UNCHANGED <<story, vm, job, status, done, arith>>
  BY DEF vars
<1>2. ArithInv'
  BY <1>1, ArithStays DEF StoryInv
<1>3. story' \in Stories /\ vm' \in Machine(Here') /\ Here' = Here
  BY <1>1 DEF StoryInv, Here
<1>4. DoneIs' /\ StaysDefined' /\ status' \in {"running", "error", "undefined", "endless"}
  BY <1>1 DEF StoryInv, DoneIs, StaysDefined, Ran
<1>5. (job = NoJob \/ TextIsUnderWay \/ LineIsUnderWay)'
  BY <1>1 DEF StoryInv, TextIsUnderWay, LineIsUnderWay, TextStreams, Here, Ran
<1>6. PortIsUnderWay'
  <2>1. PortIsUnderWay
    BY DEF StoryInv
  <2>2. vm_write_variable(vm, done.i.store, 0)' = vm_write_variable(vm, done.i.store, 0)
    BY <1>1 DEF vm_write_variable, GlobalAddress
  <2>3. phase' = phase /\ operand1' = operand1 /\ operand2' = operand2
    BY <1>1 DEF arith
  <2> QED
    BY <1>1, <2>1, <2>2, <2>3 DEF PortIsUnderWay, Computed
<1> QED
  BY <1>2, <1>3, <1>4, <1>5, <1>6 DEF StoryInv

LEMMA StoryGoesOn == StoryInv /\ [Next]_vars => StoryInv'
<1> SUFFICES ASSUME StoryInv, [Next]_vars PROVE StoryInv'
  OBVIOUS
<1>1. CASE Store \/ Compute \/ Branch \/ StoreAndBranch \/ Change \/ Random
  BY <1>1, StoreKeeps, ComputeKeeps, BranchKeeps, StoreAndBranchKeeps, ChangeKeeps, RandomKeeps
<1>2. CASE PrintShort \/ OutputStream \/ Nothing \/ Halt \/ MissingOperand
  BY <1>2, PrintShortKeeps, OutputStreamKeeps, NothingKeeps, HaltKeeps, MissingOperandKeeps
<1>3. CASE PrintText \/ TextStep \/ Sread \/ ParseStep \/ PortLoop
  BY <1>3, PrintTextKeeps, TextStepKeeps, SreadKeeps, ParseStepKeeps, PortLoopKeeps
<1>4. CASE UNCHANGED vars
  BY <1>4, StoryStays
<1> QED
  BY <1>1, <1>2, <1>3, <1>4 DEF Next

LEMMA StoryIsTyped == StoryInv => TypeOK
<1> SUFFICES ASSUME StoryInv PROVE TypeOK
  OBVIOUS
<1>1. story \in Stories /\ vm \in Machine(Here) /\ status \in {"running", "error", "undefined", "endless"}
  BY DEF StoryInv
<1>2. vm.image \in [DOMAIN story.image -> Byte]
  <2>1. DOMAIN story.image = 0 .. Here - 1
    BY <1>1, StoryHere
  <2> QED
    BY <1>1, <2>1 DEF Machine, Image
<1>3. /\ vm.pc \in 0 .. AddrMod - 1 /\ vm.eval \in Seq(Bits) /\ Len(vm.eval) <= StackLimit
      /\ vm.out \in Seq(Byte) /\ vm.table \in Table
  BY <1>1 DEF Machine, Address, Stack
<1>4. vm.table \in [active : BOOLEAN, at : Bits, count : Bits] /\ ArithTypeOK
  BY <1>3 DEF Table, StoryInv, ArithInv
<1>5. job.kind \in {"none", "text", "parse"}
  <2>1. job = NoJob => job.kind = "none"
    BY DEF NoJob
  <2>2. TextIsUnderWay => job.kind = "text"
    BY DEF TextIsUnderWay
  <2>3. LineIsUnderWay => job.kind = "parse"
    BY DEF LineIsUnderWay
  <2> QED
    BY <2>1, <2>2, <2>3 DEF StoryInv
<1> QED
  BY <1>1, <1>2, <1>3, <1>4, <1>5 DEF TypeOK

\* The instructions that are over in one step and read no line.
PlainOpcodes ==
  { ResultOpcodes, ArithmeticOpcodes, TestOpcodes, EffectOpcodes, PrintOpcodes, StreamOpcodes,
    RandomOpcodes, LinkOpcodes, IdleOpcodes }
Plain ==
  Store \/ Compute \/ Branch \/ StoreAndBranch \/ Change \/ Random \/ PrintShort
  \/ OutputStream \/ Nothing

LEMMA PlainIs ==
  ASSUME Plain
  PROVE  \E opcodes \in PlainOpcodes : \E f \in NextOf(opcodes) : done'.i = f.value.i
<1>1. Store => \E f \in NextOf(ResultOpcodes) : done'.i = f.value.i
  BY SMTT(30) DEF Store, Execute, NextOf, Finish, StatusAfter
<1>2. Compute => \E f \in NextOf(ArithmeticOpcodes) : done'.i = f.value.i
  BY SMTT(30) DEF Compute, Execute, NextOf, Finish, StatusAfter
<1>3. Branch => \E f \in NextOf(TestOpcodes) : done'.i = f.value.i
  BY DEF Branch, Execute, NextOf, Finish, StatusAfter
<1>4. StoreAndBranch => \E f \in NextOf(LinkOpcodes) : done'.i = f.value.i
  <2> SUFFICES ASSUME StoreAndBranch PROVE \E f \in NextOf(LinkOpcodes) : done'.i = f.value.i
    OBVIOUS
  <2> DEFINE o(f) == f.value.x[1] % 256
             r(f) == IF f.value.i.opcode = 1 THEN obj_get_sibling(f.vm.image, story.objects, o(f))
                     ELSE obj_get_child(f.vm.image, story.objects, o(f))
             b(f, w) == do_branch(w.vm, f.value.i, r(f).value # 0)
             s(f, q) == AndThen(vm_write_variable(q.vm, f.value.i.store, r(f).value),
                                LAMBDA w : b(f, w))
             out(f) == AndThen(On(f.vm, r(f)), LAMBDA q : s(f, q))
  <2>1. PICK f \in NextOf(LinkOpcodes) : Finish(out(f), f.value, r(f).value)
    BY ZenonT(40) DEF StoreAndBranch, Execute, NextOf
  <2>2. done'.i = f.value.i
    BY <2>1 DEF Finish, StatusAfter
  <2> QED
    BY <2>2
<1>5. Change => \E f \in NextOf(EffectOpcodes) : done'.i = f.value.i
  BY DEF Change, Execute, NextOf, Finish, StatusAfter
<1>6. Random => \E f \in NextOf(RandomOpcodes) : done'.i = f.value.i
  BY DEF Random, Execute, NextOf, Finish, StatusAfter
<1>7. PrintShort => \E f \in NextOf(PrintOpcodes) : done'.i = f.value.i
  BY DEF PrintShort, Execute, NextOf, Finish, StatusAfter
<1>8. OutputStream => \E f \in NextOf(StreamOpcodes) : done'.i = f.value.i
  BY DEF OutputStream, Execute, NextOf, Finish, StatusAfter
<1>9. Nothing => \E f \in NextOf(IdleOpcodes) : done'.i = f.value.i
  BY DEF Nothing, Execute, NextOf, Finish, StatusAfter
<1> QED
  BY <1>1, <1>2, <1>3, <1>4, <1>5, <1>6, <1>7, <1>8, <1>9 DEF Plain, PlainOpcodes

LEMMA InputIsInside ==
  StoryInv /\ [Next]_vars =>
    (Ran("var", 4)' =>
       \A a \in DOMAIN vm.image : vm'.image[a] # vm.image[a] => a \in ReadBuffer)
<1> DEFINE Same == \A a \in DOMAIN vm.image : vm'.image[a] # vm.image[a] => a \in ReadBuffer
<1> SUFFICES ASSUME StoryInv, [Next]_vars, Ran("var", 4)' PROVE Same
  OBVIOUS
<1>1. /\ story \in Stories /\ vm \in Machine(Here) /\ Here \in Nat /\ vm.image \in Image(Here)
      /\ DOMAIN vm.image = 0 .. Here - 1
  BY StoryHere DEF StoryInv, Machine, Image
<1>2. vm'.image = vm.image => Same
  OBVIOUS
<1>4. CASE Plain
  <2> PICK opcodes \in PlainOpcodes : \E f \in NextOf(opcodes) : done'.i = f.value.i
    BY <1>4, PlainIs
  <2>1. PICK f \in NextOf(opcodes) : done'.i = f.value.i
    OBVIOUS
  <2>2. f.value.i.category \in Category /\ f.value.i.opcode \in opcodes[f.value.i.category]
    BY <1>1, NextIs
  <2>3. ~ (f.value.i.category = "var" /\ f.value.i.opcode = 4)
    BY <2>2, OpcodesApart DEF PlainOpcodes
  <2> QED
    BY <2>1, <2>3 DEF Ran
<1>5. CASE PrintText
  <2>1. PICK f \in NextOf(TextOpcodes) : done'.i = f.value.i
    BY <1>5 DEF PrintText, Execute, NextOf, Finish, StatusAfter
  <2>2. f.value.i.category \in Category /\ f.value.i.opcode \in TextOpcodes[f.value.i.category]
    BY <1>1, NextIs
  <2>3. ~ (f.value.i.category = "var" /\ f.value.i.opcode = 4)
    BY <2>2, OpcodesApart
  <2> QED
    BY <2>1, <2>3 DEF Ran
<1>6. CASE Halt \/ MissingOperand
  <2>1. PICK a \in DOMAIN story.code : vm' = Fetch(a).vm
    BY <1>6 DEF Halt, MissingOperand
  <2>2. vm'.image = vm.image
    BY <1>1, <2>1, Fetching
  <2> QED
    BY <1>2, <2>2
<1>7. CASE TextStep
  <2>1. TextIsUnderWay /\ DoneIs
    BY <1>7, JobIs DEF TextStep, StoryInv
  <2>2. done'.i = done.i
    BY <1>7, <2>1 DEF TextStep, DoneIs
  <2>3. done.i.category # "var"
    BY <2>1 DEF TextIsUnderWay
  <2> QED
    BY <2>2, <2>3 DEF Ran
<1>8. CASE Sread
  <2>1. PICK f \in NextOf(ReadOpcodes) : \E line : \E r \in ReadOutcomes(f) :
          Finish(On(f.vm, r), f.value, line)
    BY <1>8, SreadIs
  <2>2. PICK r \in ReadOutcomes(f) : \E line : Finish(On(f.vm, r), f.value, line)
    BY <2>1
  <2>3. f.vm \in Machine(Here)
    BY <1>1, NextIs
  <2>4. r.vm \in ReadInto(Here, vm.image, f.value.x[1])
    BY <2>2, Yielded DEF ReadOutcomes
  <2>5. vm' = On(f.vm, r).vm /\ done'.x = f.value.x
    BY <2>2 DEF Finish, StatusAfter
  <2>6. vm'.image = r.vm
    <3>1. ReadInto(Here, vm.image, f.value.x[1]) \subseteq Image(Here)
      BY DEF ReadInto
    <3>2. r \in Yield(Image(Here), {p \in Parsing : p.buffer = f.value.x[2]})
      BY <3>1, YieldWider DEF ReadOutcomes
    <3> QED
      BY <1>1, <2>3, <2>5, <3>2, OnMachine
  <2>7. job.kind # "parse"
    <3>1. Ready
      BY <1>8 DEF Sread, Execute
    <3> QED
      BY <3>1, Idle DEF NoJob
  <2> QED
    BY <1>1, <2>4, <2>5, <2>6, <2>7 DEF ReadInto, ReadBuffer
<1>9. CASE ParseStep
  <2>1. PICK r :
          /\ r.vm \in ParsedInto(Here, vm.image, job.at.buffer, job.at.limit)
          /\ vm' = [vm EXCEPT !.image = r.vm]
    BY <1>9, ParseStepIs
  <2>2. job.kind = "parse" /\ job.at.buffer = done.x[2]
    BY <1>9, JobIs DEF ParseStep, LineIsUnderWay
  <2>3. vm'.image = r.vm
    BY <1>1, <2>1 DEF Machine
  <2> QED
    BY <1>1, <2>1, <2>2, <2>3 DEF ParsedInto, ReadBuffer
<1>10. CASE PortLoop \/ UNCHANGED vars
  BY <1>10 DEF PortLoop, vars
<1> QED
  BY <1>4, <1>5, <1>6, <1>7, <1>8, <1>9, <1>10 DEF Next, Plain

-----------------------------------------------------------------------------
(* The port's answers are those of C.                                      *)

LEMMA DivUnique ==
  ASSUME NEW b \in Nat \ {0}, NEW q \in Int, NEW r \in 0 .. b - 1, NEW a \in Int,
         a = q * b + r
  PROVE  a \div b = q
<1> DEFINE d == a \div b
           m == a % b
<1>1. m = r
  BY ModUnique
<1>2. d \in Int /\ a = d * b + m
  BY ModRange
<1> HIDE DEF d, m
<1>3. (q - d) * b = 0
  <2>1. q * b = d * b
    BY <1>1, <1>2
  <2>2. (q - d) * b = q * b - d * b
    BY <1>2
  <2> QED
    BY <1>2, <2>1, <2>2
<1>4. q - d = 0
  <2> DEFINE e == q - d
  <2>1. e \in Int /\ e * b = 0
    BY <1>2, <1>3
  <2> HIDE DEF e
  <2>2. e = 0
    BY <2>1
  <2> QED
    BY <2>2 DEF e
<1> QED
  BY <1>2, <1>4 DEF d

\* Only one quotient is cut off toward zero.
LEMMA TruncatesOnce ==
  ASSUME NEW a \in Int, NEW b \in Int, b # 0, NEW q \in Int, NEW r \in Int,
         Truncates(a, b, q, r)
  PROVE  Quotient(a, b) = q /\ Remainder(a, b) = r
<1>1. a = b * q + r /\ b * q \in Int /\ a - b * q = r
  BY DEF Truncates
<1>2. Quotient(a, b) = q
  <2>1. CASE a >= 0 /\ b > 0
    <3>1. r \in 0 .. b - 1 /\ a = q * b + r /\ b \in Nat \ {0}
      BY <2>1 DEF Truncates
    <3>2. a \div b = q
      BY <3>1, DivUnique
    <3>3. Abs(a) = a /\ Abs(b) = b /\ Sign(a) = 1 /\ Sign(b) = 1
      BY <2>1 DEF Abs, Sign
    <3> QED
      BY <3>2, <3>3 DEF Quotient
  <2>2. CASE a >= 0 /\ b < 0
    <3>1. r \in 0 .. (- b) - 1 /\ - b \in Nat \ {0} /\ - q \in Int
      BY <2>2 DEF Truncates
    <3>2. (- q) * (- b) = b * q
      OBVIOUS
    <3>3. a = (- q) * (- b) + r
      BY <1>1, <3>2
    <3>4. a \div (- b) = - q
      BY <3>1, <3>3, DivUnique
    <3>5. Abs(a) = a /\ Abs(b) = - b /\ Sign(a) = 1 /\ Sign(b) = -1
      BY <2>2 DEF Abs, Sign
    <3> QED
      BY <3>4, <3>5 DEF Quotient
  <2>3. CASE a < 0 /\ b > 0
    <3>1. - r \in 0 .. b - 1 /\ b \in Nat \ {0} /\ - q \in Int /\ - a \in Int
      BY <2>3 DEF Truncates
    <3>2. (- q) * b = - (b * q)
      OBVIOUS
    <3>3. - a = (- q) * b + (- r)
      BY <1>1, <3>2
    <3>4. (- a) \div b = - q
      BY <3>1, <3>3, DivUnique, ZenonT(40)
    <3>5. Abs(a) = - a /\ Abs(b) = b /\ Sign(a) = -1 /\ Sign(b) = 1
      BY <2>3 DEF Abs, Sign
    <3> QED
      BY <3>4, <3>5 DEF Quotient
  <2>4. CASE a < 0 /\ b < 0
    <3>1. - r \in 0 .. (- b) - 1 /\ - b \in Nat \ {0} /\ - a \in Int
      BY <2>4 DEF Truncates
    <3>2. q * (- b) = - (b * q)
      OBVIOUS
    <3>3. - a = q * (- b) + (- r)
      BY <1>1, <3>2
    <3>4. (- a) \div (- b) = q
      BY <3>1, <3>3, DivUnique
    <3>5. Abs(a) = - a /\ Abs(b) = - b /\ Sign(a) = -1 /\ Sign(b) = -1
      BY <2>4 DEF Abs, Sign
    <3> QED
      BY <3>4, <3>5 DEF Quotient
  <2> QED
    BY <2>1, <2>2, <2>3, <2>4
<1> QED
  BY <1>1, <1>2 DEF Remainder

\* A word is what is left of its signed value.
LEMMA WordOfSigned == \A w \in Bits : AsSigned(w) % Size = w /\ w % Size = w
<1> TAKE w \in Bits
<1>1. w \in Int /\ 0 <= w /\ w <= 65535 /\ Size = 65536 /\ Half = 32768
  BY WordRange, WordIs
<1>2. w % 65536 = w /\ (w - 65536) % 65536 = w
  BY <1>1
<1> QED
  BY <1>1, <1>2 DEF AsSigned

LEMMA PortIsRight == StoryInv => PortAgrees
<1> DEFINE a == AsSigned(operand1)
           b == AsSigned(operand2)
           answer == IF phase = "product" \/ done.i.opcode = 23 THEN rd ELSE rc
           value == Arithmetic(vm.image, done.i, done.x).value
<1> SUFFICES ASSUME StoryInv, Computed, ~ Busy, status # "undefined"
             PROVE  \/ phase # "fail" /\ done.result = <<answer>>
                    \/ /\ done.result = <<>>
                       /\ phase = "fail" \/ ~ vm_write_variable(vm, done.i.store, 0).ok
  BY DEF PortAgrees, Computed
<1>1. ArithInv /\ PortIsUnderWay /\ DoneIs
  BY DEF StoryInv
<1>2. /\ operand1 = done.x[1] /\ operand2 = done.x[2]
      /\ phase \in IF done.i.opcode = 22 THEN {"product"} ELSE {"quotient", "fail"}
      /\ phase = "fail" <=> done.i.opcode # 22 /\ done.x[2] = 0
      /\ \/ phase # "fail" /\ done.result = <<value>>
         \/ /\ done.result = <<>>
            /\ phase = "fail" \/ ~ vm_write_variable(vm, done.i.store, 0).ok
  BY <1>1 DEF PortIsUnderWay, Busy
<1>3. operand1 \in Bits /\ operand2 \in Bits /\ rd \in Bits /\ rc \in Bits
  BY <1>1 DEF ArithInv, ArithTypeOK
<1>4. a \in Int /\ b \in Int
  BY <1>3, SignedIs
<1>5. done.i.opcode \in {22, 23, 24}
  <2>1. done.i.category \in Category
    BY <1>1 DEF Computed, DoneIs, Fetched, Instr
  <2> QED
    BY <2>1 DEF Computed, ArithmeticOpcodes, Category
<1>6. phase = "product" => value = answer
  <2> SUFFICES ASSUME phase = "product" PROVE value = answer
    OBVIOUS
  <2>1. done.i.opcode = 22
    BY <1>2
  <2>2. rd = (a * b) % Size
    BY <1>1 DEF ArithInv, ProductExact
  <2>3. value = (a * b) % Size
    BY <1>2, <2>1, Parts DEF Arithmetic
  <2> QED
    BY <2>2, <2>3
<1>7. phase = "quotient" => value = answer
  <2> SUFFICES ASSUME phase = "quotient" PROVE value = answer
    OBVIOUS
  <2>1. done.i.opcode \in {23, 24} /\ operand2 # 0
    BY <1>2, <1>5
  <2>2. b # 0
    BY <1>3, <2>1, ZeroIsZero
  <2>3. Truncates(a, b, SignedQuotient, AsSigned(rc))
    BY <1>1 DEF ArithInv, DivisionExact
  <2>4. SignedQuotient \in Int /\ AsSigned(rc) \in Int
    BY <1>3, SignedIs, WordIs DEF SignedQuotient
  <2>5. Quotient(a, b) = SignedQuotient /\ Remainder(a, b) = AsSigned(rc)
    BY <1>4, <2>2, <2>3, <2>4, TruncatesOnce
  <2>6. SignedQuotient % Size = rd /\ AsSigned(rc) % Size = rc
    BY <1>3, WordOfSigned DEF SignedQuotient
  <2>7. value = IF done.i.opcode = 23 THEN Quotient(a, b) % Size ELSE Remainder(a, b) % Size
    <3> HIDE DEF a, b
    <3>1. AsSigned(done.x[1]) = a /\ AsSigned(done.x[2]) = b
      BY <1>2 DEF a, b
    <3> QED
      BY <2>1, <2>2, <3>1, Parts DEF Arithmetic
  <2> QED
    BY <2>1, <2>5, <2>6, <2>7
<1> HIDE DEF value, answer
<1> QED
  BY <1>2, <1>6, <1>7

-----------------------------------------------------------------------------
(* Inline texts, as the decoder measures them and as they are read.        *)

LEMMA WrapIs ==
  ASSUME NEW x \in Int
  PROVE  \E a \in Int : a * AddrMod \in Int /\ x % AddrMod = x + a * AddrMod /\ x % AddrMod \in Nat
<1> DEFINE b == x \div AddrMod
           r == x % AddrMod
<1>1. AddrMod \in Nat \ {0}
  BY Addresses
<1>2. x = b * AddrMod + r /\ b \in Int
  BY <1>1, ModRange
<1>3. r \in Nat
  BY Wraps
<1> HIDE DEF b, r
<1>4. -b \in Int /\ (-b) * AddrMod = - (b * AddrMod) /\ b * AddrMod \in Int
  BY <1>1, <1>2
<1> DEFINE p == b * AddrMod
<1>5. p \in Int /\ x = p + r /\ (-b) * AddrMod = -p
  BY <1>2, <1>4
<1> HIDE DEF p
<1>6. r = x + (-b) * AddrMod
  BY <1>3, <1>5
<1> QED
  BY <1>3, <1>4, <1>5, <1>6 DEF r

\* The loop meets the word that ends it before it comes round again.
LEMMA TextEndsAt ==
  ASSUME NEW size \in Nat, NEW image \in Image(size), NEW at \in Nat, SkipText(image, at).ok
  PROVE  \E k \in Nat :
           /\ 2 * k < AddrMod
           /\ SkipText(image, at).vm = (((at + 2 * k) % AddrMod) + 2) % AddrMod
           /\ EndsText(image, at, k) /\ \A m \in 0 .. k - 1 : ~ EndsText(image, at, m)
<1>0. AddrMod \in Nat \ {0} /\ AddrMod % 2 = 0
  BY Addresses
<1>1. PICK last : /\ FirstEnd(image, at, last)
                  /\ SkipText(image, at) = IF last = AddrMod THEN Endless(at)
                                           ELSE TextWord(image, at, last)
  BY SkipIs
<1>4. last \in 0 .. AddrMod
  BY <1>1 DEF FirstEnd
<1>5. last # AddrMod /\ SkipText(image, at) = TextWord(image, at, last)
  BY <1>1, Parts
<1>6. EndsText(image, at, last) /\ \A m \in 0 .. last - 1 : ~ EndsText(image, at, m)
  BY <1>1, <1>5 DEF FirstEnd
<1>7. SkipText(image, at).vm = (((at + 2 * last) % AddrMod) + 2) % AddrMod
  BY <1>5 DEF TextWord, read_word, Advance, Value, Fail
<1>8. 2 * last < AddrMod
  <2> SUFFICES ASSUME 2 * last >= AddrMod PROVE FALSE
    BY <1>0, <1>4
  <2> DEFINE half == AddrMod \div 2
             m == last - half
  <2>1. half \in Nat \ {0} /\ AddrMod = 2 * half
    BY <1>0
  <2> HIDE DEF half
  <2>2. m \in 0 .. last - 1
    BY <1>4, <2>1
  <2>3. at + 2 * last \in Int /\ at + 2 * m \in Int /\ at + 2 * last = (at + 2 * m) + 1 * AddrMod
    BY <1>4, <2>1, <2>2
  <2>4. (at + 2 * last) % AddrMod = (at + 2 * m) % AddrMod
    <3> DEFINE x == at + 2 * last
               y == at + 2 * m
               n == 1
    <3>1. x \in Int /\ y \in Int /\ n \in Int /\ x = y + n * AddrMod
      BY <2>3
    <3> HIDE DEF x, y, n
    <3>2. x % AddrMod = y % AddrMod
      BY <1>0, <3>1, ModShift
    <3> QED
      BY <3>2 DEF x, y
  <2>5. EndsText(image, at, m)
    BY <1>6, <2>4 DEF EndsText, TextWord
  <2> QED
    BY <1>6, <2>2, <2>5
<1> QED
  BY <1>4, <1>6, <1>7, <1>8

\* A word that lies in the story is the same for the decoder and for the text.
LEMMA WordInStory ==
  ASSUME NEW size \in Nat, size <= AddrMod, NEW image \in Image(size),
         NEW a \in Nat, a + 1 <= size - 1
  PROVE  read_word(image, a).ok /\ read_word(image, a).value = 256 * image[a] + image[a + 1]
<1>1. AddrMod \in Nat \ {0} /\ a < AddrMod /\ a # AddrMod - 1
  BY Addresses
<1>2. a % AddrMod = a
  BY <1>1
<1>3. a \in DOMAIN image /\ a + 1 \in DOMAIN image
  BY DEF Image
<1>4. read16(image, a) = Value(image, 256 * image[a] + image[a + 1])
  BY <1>1, <1>2, <1>3 DEF read16, story_mem_read16, story_mem_read8, Then, Value, Fail
<1> QED
  BY <1>4 DEF read_word, Advance, Value, Fail

\* What the decoder says of a print: its length is that of the text it skipped.
LEMMA PrintIsDecoded ==
  ASSUME NEW size \in Nat, NEW image \in Image(size), NEW addr \in Nat,
         decode_instruction(image, addr).ok,
         decode_instruction(image, addr).value.category = "zero",
         decode_instruction(image, addr).value.opcode = 2
  PROVE  LET at == (addr + 1) % AddrMod
         IN /\ SkipText(image, at).ok
            /\ decode_instruction(image, addr).value.length = (SkipText(image, at).vm - addr) % AddrMod
            /\ decode_instruction(image, addr).value.addr = addr
<1> DEFINE has(f, shape) == f.value.opcode \in shape[f.value.category]
           h1 == read_byte(image, addr)
           h2(b) == DecodeForm(image, b.vm, b.value)
           h3(f) == ReadOperands(image, f.vm, f.value.types)
           h4(f, x) == IF has(f, Stores) THEN read_byte(image, x.vm) ELSE Value(x.vm, 0)
           h5(f, s) == IF has(f, Branches) THEN ReadBranch(image, s.vm) ELSE Value(s.vm, NoBranch)
           h6(f, c) == IF has(f, HasText) THEN SkipText(image, c.vm) ELSE Done(c.vm)
           instr(f, x, s, c, t) ==
             [ addr |-> addr, category |-> f.value.category, opcode |-> f.value.opcode,
               types |-> f.value.types, operands |-> x.value, store |-> s.value,
               branch |-> c.value, length |-> (t.vm - addr) % AddrMod ]
           op6(f, x, s, c, t) == Value(t.vm, instr(f, x, s, c, t))
           op5(f, x, s, c) == AndThen(h6(f, c), LAMBDA t : op6(f, x, s, c, t))
           op4(f, x, s) == AndThen(h5(f, s), LAMBDA c : op5(f, x, s, c))
           op3(f, x) == AndThen(h4(f, x), LAMBDA s : op4(f, x, s))
           op2(f) == AndThen(h3(f), LAMBDA x : op3(f, x))
           op1(b) == AndThen(h2(b), LAMBDA f : op2(f))
           d == decode_instruction(image, addr)
           f == h2(h1)
           x == h3(f)
           s == h4(f, x)
           c == h5(f, s)
           t == h6(f, c)
           i == instr(f, x, s, c, t)
<1>1. decode_instruction(image, addr) = AndThen(h1, LAMBDA b : op1(b))
  BY DEF decode_instruction
<1> HIDE DEF has, h1, h2, h3, h4, h5, h6, instr, op1, op2, op3, op4, op5, op6, f, x, s, c, t, i
<1>2. AndThen(h1, LAMBDA b : op1(b)) = IF h1.ok THEN op1(h1) ELSE h1
  BY DEF AndThen, Then
<1>3. op1(h1) = IF f.ok THEN op2(f) ELSE f
  BY DEF op1, f, AndThen, Then
<1>4. op2(f) = IF x.ok THEN op3(f, x) ELSE x
  BY DEF op2, x, AndThen, Then
<1>5. op3(f, x) = IF s.ok THEN op4(f, x, s) ELSE s
  BY DEF op3, s, AndThen, Then
<1>6. op4(f, x, s) = IF c.ok THEN op5(f, x, s, c) ELSE c
  BY DEF op4, c, AndThen, Then
<1>7. op5(f, x, s, c) = IF t.ok THEN op6(f, x, s, c, t) ELSE t
  BY DEF op5, t, AndThen, Then
<1>8. op6(f, x, s, c, t) = Value(t.vm, i)
  BY DEF op6, i
<1>9. h1.ok /\ f.ok /\ x.ok /\ s.ok /\ c.ok /\ t.ok /\ d = Value(t.vm, i)
  <2>1. d.ok
    BY DEF d
  <2> QED
    BY <2>1, <1>1, <1>2, <1>3, <1>4, <1>5, <1>6, <1>7, <1>8 DEF d
<1>10. d.value = i
  BY <1>9, Parts
<1>11. /\ i.addr = addr /\ i.category = f.value.category /\ i.opcode = f.value.opcode
       /\ i.length = (t.vm - addr) % AddrMod
  BY DEF i, instr
<1>12. f.value.category = "zero" /\ f.value.opcode = 2
  BY <1>10, <1>11 DEF d
<1>13. h1.vm = (addr + 1) % AddrMod /\ h1.vm \in Nat /\ h1.value \in Byte
  <2>1. h1 \in Yield(Nat, Byte)
    BY DecodesByte DEF h1
  <2>2. h1.vm = (addr + 1) % AddrMod
    BY <1>9 DEF h1, read_byte, Advance, Value, Fail
  <2> QED
    BY <1>9, <2>1, <2>2, Yielded
<1>14. f.vm = h1.vm /\ f.value.types = <<>>
  <2>1. f \in Yield(Nat, Form) /\ f.vm = h1.vm
    BY <1>9, <1>12, <1>13, FormIs DEF f, h2
  <2>2. f.value \in Form
    BY <1>9, <2>1, Yielded
  <2> QED
    BY <1>12, <2>1, <2>2 DEF Form
<1>15. x.vm = h1.vm
  <2>1. <<>> \in Seq(OperandType)
    OBVIOUS
  <2> QED
    <3> DEFINE e == <<>>
    <3>1. e \in Seq(OperandType) /\ f.value.types = e /\ f.vm \in Nat
      BY <1>13, <1>14, <2>1
    <3>2. e = <<>>
      OBVIOUS
    <3> HIDE DEF e
    <3>3. ReadOperands(image, f.vm, e).vm = f.vm
      BY <3>1, <3>2, OperandsAreRead
    <3> QED
      BY <1>14, <3>1, <3>3 DEF x, h3
<1>16. ~ has(f, Stores) /\ ~ has(f, Branches) /\ has(f, HasText)
  <2>1. 2 \notin Stores["zero"] /\ 2 \notin Branches["zero"] /\ 2 \in HasText["zero"]
    BY DEF Stores, Branches, HasText
  <2> QED
    BY <1>12, <2>1 DEF has
<1>17. s.vm = h1.vm
  BY <1>15, <1>16, Parts DEF s, h4
<1>18. c.vm = h1.vm
  BY <1>16, <1>17, Parts DEF c, h5
<1>19. t = SkipText(image, h1.vm)
  BY <1>16, <1>18 DEF t, h6
<1> QED
  BY <1>9, <1>10, <1>11, <1>13, <1>19 DEF d

\* From one word to the next a text ends where the instruction does, not before.
Measured(size, image, i) ==
  \A a \in i.addr + 1 .. size - 2 :
    (a - i.addr) % 2 = 1 /\ a + 2 <= i.addr + i.length =>
      (256 * image[a] + image[a + 1] >= 2 ^ 15 <=> a + 2 = i.addr + i.length)

LEMMA TextLengthIs ==
  ASSUME NEW size \in Nat, size <= AddrMod, NEW image \in Image(size), NEW addr \in Nat,
         NEW i, decode_instruction(image, addr).ok, i = decode_instruction(image, addr).value,
         i.category = "zero", i.opcode = 2, i.length > 1
  PROVE  i.addr = addr /\ Measured(size, image, i)
<1> DEFINE at == (addr + 1) % AddrMod
<1>1. /\ SkipText(image, at).ok /\ i.addr = addr
      /\ i.length = (SkipText(image, at).vm - addr) % AddrMod
  BY PrintIsDecoded
<1>2. AddrMod \in Nat \ {0} /\ AddrMod % 2 = 0
  BY Addresses
<1>3. at \in Nat /\ addr + 1 \in Int
  BY Wraps
<1>4. PICK q \in Int : q * AddrMod \in Int /\ at = addr + 1 + q * AddrMod
  BY <1>3, WrapIs
<1> HIDE DEF at
<1>5. PICK k \in Nat :
        /\ 2 * k < AddrMod
        /\ SkipText(image, at).vm = (((at + 2 * k) % AddrMod) + 2) % AddrMod
        /\ EndsText(image, at, k) /\ \A m \in 0 .. k - 1 : ~ EndsText(image, at, m)
  BY <1>1, <1>3, TextEndsAt
<1>6. i.length = 2 * k + 3
  <2> DEFINE u == (at + 2 * k) % AddrMod
             v == (u + 2) % AddrMod
             n == 2 * k + 3
  <2>1. PICK a \in Int : u = at + 2 * k + a * AddrMod /\ u \in Nat /\ a * AddrMod \in Int
    <3>1. at + 2 * k \in Int
      BY <1>3
    <3> QED
      BY <3>1, WrapIs
  <2> HIDE DEF u
  <2>2. PICK b \in Int : v = u + 2 + b * AddrMod /\ v \in Nat /\ b * AddrMod \in Int
    <3>1. u + 2 \in Int
      BY <2>1
    <3> QED
      BY <3>1, WrapIs
  <2> HIDE DEF v
  <2>3. v - addr = n + (q + a + b) * AddrMod
    <3>1. (q + a + b) * AddrMod = q * AddrMod + a * AddrMod + b * AddrMod
      BY <1>2, <1>4, <2>1, <2>2
    <3>2. q * AddrMod \in Int /\ a * AddrMod \in Int /\ b * AddrMod \in Int
      BY <1>4, <2>1, <2>2
    <3> DEFINE e == q * AddrMod
               g == a * AddrMod
               h == b * AddrMod
    <3>3. e \in Int /\ g \in Int /\ h \in Int /\ at = addr + 1 + e /\ u = at + 2 * k + g
          /\ v = u + 2 + h /\ (q + a + b) * AddrMod = e + g + h
      BY <1>4, <2>1, <2>2, <3>1, <3>2
    <3> HIDE DEF e, g, h
    <3> QED
      BY <1>3, <3>3
  <2>4. i.length = n % AddrMod
    <3>1. v - addr \in Int /\ n \in Int /\ q + a + b \in Int
      BY <1>4, <2>1, <2>2
    <3>2. (v - addr) % AddrMod = n % AddrMod
      <4> DEFINE x == v - addr
                 m == q + a + b
      <4>1. x \in Int /\ m \in Int /\ x = n + m * AddrMod
        BY <2>3, <3>1
      <4> HIDE DEF x, m, n
      <4>2. x % AddrMod = n % AddrMod
        BY <1>2, <3>1, <4>1, ModShift
      <4> QED
        BY <4>2 DEF x
    <3>3. i.length = (v - addr) % AddrMod
      BY <1>1, <1>5 DEF u, v
    <3> QED
      BY <3>2, <3>3
  <2>5. n <= AddrMod + 1 /\ n % 2 = 1
    BY <1>2, <1>5
  <2>6. CASE n < AddrMod
    BY <1>2, <2>4, <2>6
  <2>7. CASE n >= AddrMod
    <3>1. n = 1 + 1 * AddrMod
      BY <1>2, <2>5, <2>7
    <3>2. n % AddrMod = 1 % AddrMod
      BY <1>2, <3>1, ModShift
    <3>3. 1 % AddrMod <= 1
      BY <1>2
    <3> QED
      BY <1>2, <2>4, <3>2, <3>3
  <2> QED
    BY <1>2, <2>6, <2>7
<1>7. ASSUME NEW a \in addr + 1 .. size - 2, (a - addr) % 2 = 1, a + 2 <= addr + i.length
      PROVE  256 * image[a] + image[a + 1] >= 2 ^ 15 <=> a + 2 = addr + i.length
  <2> DEFINE m == (a - addr - 1) \div 2
  <2>1. m \in 0 .. k /\ a = addr + 1 + 2 * m
    BY <1>6, <1>7
  <2>2. a \in Nat /\ a + 1 <= size - 1 /\ a < AddrMod
    BY <1>2
  <2> HIDE DEF m
  <2>3. (at + 2 * m) % AddrMod = a
    <3>1. at + 2 * m \in Int /\ at + 2 * m = a + q * AddrMod
      <4> DEFINE e == q * AddrMod
      <4>1. e \in Int /\ at = addr + 1 + e
        BY <1>2, <1>4
      <4> HIDE DEF e
      <4>2. at + 2 * m = a + e
        BY <1>3, <2>1, <4>1
      <4> QED
        BY <1>3, <2>1, <4>2 DEF e
    <3>2. (at + 2 * m) % AddrMod = a % AddrMod
      <4> DEFINE x == at + 2 * m
      <4>1. x \in Int /\ x = a + q * AddrMod /\ a \in Int
        BY <2>2, <3>1
      <4> HIDE DEF x
      <4>2. x % AddrMod = a % AddrMod
        BY <1>2, <1>4, <4>1, ModShift
      <4> QED
        BY <4>2 DEF x
    <3> QED
      BY <1>2, <2>2, <3>2, ModSmall
  <2>4. TextWord(image, at, m) = read_word(image, a)
    BY <2>3 DEF TextWord
  <2>5. EndsText(image, at, m) <=> 256 * image[a] + image[a + 1] >= 2 ^ 15
    BY <2>2, <2>4, WordInStory DEF EndsText
  <2>6. EndsText(image, at, m) <=> m = k
    <3>1. m # k => m \in 0 .. k - 1
      BY <2>1
    <3> QED
      BY <1>5, <3>1
  <2>7. m = k <=> a + 2 = addr + i.length
    BY <1>6, <2>1
  <2> QED
    BY <2>5, <2>6, <2>7
<1> QED
  BY <1>1, <1>7 DEF Measured

\* What is left to read of the text of a print: up to the next instruction, and
\* no word says that it is the last before there is none left.
InlineStreams(i) ==
  {s \in Stream : /\ s.at >= i.addr + 1 /\ s.at + s.left = i.addr + i.length
                  /\ s.final <=> s.left = 0}

LEMMA InlineStreamsAreClosed ==
  ASSUME NEW size \in Nat, NEW image \in Image(size), NEW i \in Instr,
         i.category = "zero", i.opcode = 2, Measured(size, image, i)
  PROVE  Closed(image, InlineStreams(i))
<1> DEFINE P == InlineStreams(i)
<1>1. i.addr \in Nat /\ i.length \in Nat /\ i.length % 2 = 1
  BY AddressRange DEF Instr
<1>2. ASSUME NEW s \in P, NEW shift \in 0 .. 2 PROVE [s EXCEPT !.shift = shift] \in P
  <2>1. s \in Stream
    BY DEF InlineStreams
  <2> DEFINE t == [s EXCEPT !.shift = shift]
  <2>2. t \in Stream /\ t.at = s.at /\ t.left = s.left /\ t.final = s.final
    BY <2>1 DEF Stream
  <2> HIDE DEF t
  <2>3. t \in P
    BY <2>2 DEF InlineStreams
  <2> QED
    BY <2>3 DEF t
<1>3. ASSUME NEW s \in P, ~ Exhausted(s), Readable(image, s) PROVE Behind(image, s) \in P
  <2> DEFINE t == Refill(image, s)
             u == Behind(image, s)
  <2>1. /\ s \in Stream /\ s.at >= i.addr + 1 /\ s.at + s.left = i.addr + i.length
        /\ s.final <=> s.left = 0
    BY DEF InlineStreams
  <2>2. /\ u \in Stream /\ u.at = t.at /\ u.left = t.left /\ u.final = t.final
    BY <1>3, <2>1, ZcharIsTaken
  <2>3. /\ s.pos < 3 => t = s
        /\ s.pos = 3 =>
             /\ s.left >= 2 /\ s.at + 1 <= size - 1
             /\ t.at = s.at + 2 /\ t.left = s.left - 2
             /\ t.final <=> 256 * image[s.at] + image[s.at + 1] >= 2 ^ 15
    BY <1>3, <2>1, WordIsFetched
  <2>4. s.at \in Nat /\ s.left \in Nat /\ s.left % 2 = 0 /\ s.pos \in 0 .. 3
    BY <2>1 DEF Stream, Even
  <2> HIDE DEF t, u
  <2>5. CASE s.pos < 3
    BY <2>1, <2>2, <2>3, <2>5 DEF InlineStreams, u
  <2>6. CASE s.pos = 3
    <3>1. s.at \in i.addr + 1 .. size - 2 /\ (s.at - i.addr) % 2 = 1 /\ s.at + 2 <= i.addr + i.length
      BY <1>1, <2>1, <2>3, <2>4, <2>6
    <3>2. 256 * image[s.at] + image[s.at + 1] >= 2 ^ 15 <=> s.at + 2 = i.addr + i.length
      BY <3>1 DEF Measured
    <3>3. t.final <=> t.left = 0
      BY <1>1, <2>1, <2>3, <2>4, <2>6, <3>2
    <3>4. t.at >= i.addr + 1 /\ t.at + t.left = i.addr + i.length
      BY <1>1, <2>1, <2>3, <2>4, <2>6
    <3> QED
      BY <2>2, <3>3, <3>4 DEF InlineStreams, u
  <2> QED
    BY <2>4, <2>5, <2>6
<1> QED
  BY <1>2, <1>3 DEF Closed, InlineStreams

\* A print, as it starts.
LEMMA PrintIsFetched ==
  ASSUME story \in Stories, vm \in Machine(Here), NEW f \in NextOf(TextOpcodes),
         f.value.i.category = "zero", f.value.i.opcode = 2, f.value.i.length > 1
  PROVE  /\ f.vm.pc = (f.value.i.addr + f.value.i.length) % AddrMod
         /\ Measured(Here, vm.image, f.value.i)
<1>1. PICK a \in DOMAIN story.code : f = Fetch(a)
  BY DEF NextOf
<1>2. f.ok
  BY NextIs
<1> DEFINE d == decode_instruction(vm.image, a)
           r == resolve_operands([vm EXCEPT !.out = <<>>], d.value)
           next(q) == [q.vm EXCEPT !.pc = (a + d.value.length) % AddrMod]
           op(q) == Value(next(q), [i |-> d.value, x |-> q.value])
           both == AndThen(r, LAMBDA q : op(q))
<1>3. Fetch(a) = IF ~ d.ok THEN [d EXCEPT !.vm = vm] ELSE both
  BY DEF Fetch
<1>4. both = IF r.ok THEN op(r) ELSE r
  BY DEF AndThen, Then
<1>5. op(r).value.i = d.value
  BY Parts
<1>6. f.vm.pc = (a + f.value.i.length) % AddrMod
  BY <1>1, <1>2, Fetching
<1> HIDE DEF d, r, op, both
<1>7. d.ok /\ r.ok
  <2>1. d \in Yield(Nat, Instr)
    <3>1. Here \in Nat /\ vm.image \in Image(Here) /\ a \in Nat
      BY StoryHere DEF Machine
    <3> QED
      BY <3>1, InstructionIs DEF d
  <2>2. ~ d.ok => ~ [d EXCEPT !.vm = vm].ok
    BY <2>1 DEF Yield
  <2> QED
    BY <1>1, <1>2, <1>3, <1>4, <2>2
<1>8. f.value.i = d.value
  BY <1>1, <1>3, <1>4, <1>5, <1>7
<1>9. a \in Nat /\ Here \in Nat /\ Here <= AddrMod /\ vm.image \in Image(Here)
  BY StoryHere, StoriesAssumption DEF Machine, Here
<1>10. f.value.i.addr = a /\ Measured(Here, vm.image, f.value.i)
  BY <1>7, <1>8, <1>9, TextLengthIs DEF d
<1> QED
  BY <1>6, <1>10

-----------------------------------------------------------------------------
(* The invariant of a print.                                               *)

\* While its text is read it stays what the decoder measured: nothing is written
\* to it, since only output stream 3 writes, to dynamic memory.
TextInv ==
  Ran("zero", 2) /\ done.i.length > 1 /\ (vm.table.active => story.dyn <= done.i.addr) =>
    /\ status = "running" /\ job = NoJob =>
         done.result[1].final /\ done.result[1].at % AddrMod = vm.pc
    /\ job.kind = "text" =>
         /\ vm.pc = (done.i.addr + done.i.length) % AddrMod
         /\ Measured(Here, vm.image, done.i)
         /\ job.streams \in Stacks(Here, InlineStreams(done.i))

LEMMA PrintTextMeasures == StoryInv /\ PrintText => TextInv'
<1> SUFFICES ASSUME StoryInv, PrintText, Ran("zero", 2)', done'.i.length > 1 PROVE TextInv'
  BY DEF TextInv
<1> DEFINE r(f) == TextOf(f.vm, f.value.i, f.value.x)
<1>1. PICK f \in NextOf(TextOpcodes) :
        /\ Finish(r(f), f.value, r(f).value)
        /\ job' = IF r(f).ok THEN [kind |-> "text", streams |-> <<r(f).value>>] ELSE NoJob
  BY DEF PrintText, Execute, NextOf
<1>2. story' = story /\ story \in Stories /\ vm \in Machine(Here) /\ Here \in Nat
  BY StoryHere DEF PrintText, Execute, StoryInv
<1>3. /\ f.vm \in Machine(Here) /\ f.vm.image = vm.image /\ f.value.i \in Instr
      /\ f.value.x \in Seq(Bits) /\ f.value.i.opcode \in TextOpcodes[f.value.i.category]
      /\ Len(f.value.x) = Len(f.value.i.types)
  BY <1>2, NextIs
<1> DEFINE i == f.value.i
           v == zchar_stream_init(i.addr + 1, i.length - 1)
<1>4. done'.i = i /\ i.category = "zero" /\ i.opcode = 2 /\ i.length > 1
  BY <1>1 DEF Finish, StatusAfter, Ran
<1>5. r(f) = Value(f.vm, v)
  BY <1>2, <1>3, <1>4, TextIs
<1>6. /\ r(f).ok /\ r(f).vm = f.vm /\ r(f).value = v
  BY <1>5, Parts DEF Value
<1> HIDE DEF r, v
<1>7. vm' = f.vm /\ job' = [kind |-> "text", streams |-> <<v>>]
  BY <1>1, <1>6 DEF Finish, StatusAfter
<1>8. vm'.pc = (i.addr + i.length) % AddrMod /\ Measured(Here, vm'.image, i)
  BY <1>2, <1>3, <1>4, <1>7, PrintIsFetched
<1>9. i.addr \in Nat /\ i.length \in Nat /\ i.length % 2 = 1
  BY <1>3, <1>4, AddressRange DEF Instr
<1>10. v \in InlineStreams(i)
  <2> DEFINE at == i.addr + 1
             left == i.length - 1
  <2>1. at \in Nat /\ left \in Even /\ left # 0
    BY <1>4, <1>9 DEF Even
  <2>2. at + left = i.addr + i.length /\ at >= i.addr + 1
    BY <1>9
  <2>3. v = zchar_stream_init(at, left)
    BY DEF v
  <2> HIDE DEF at, left, i
  <2>4. v \in Stream /\ v.at = at /\ v.left = left /\ v.final = FALSE
    BY <2>1, <2>3, StreamStarts
  <2> QED
    BY <2>1, <2>2, <2>4 DEF InlineStreams
<1>11. <<v>> \in Stacks(Here, InlineStreams(i))
  <2>1. v \in Stream
    BY <1>10 DEF InlineStreams
  <2>2. <<v>> \in Seq(Stream) /\ Len(<<v>>) = 1 /\ <<v>>[1] = v
    BY <2>1
  <2> QED
    BY <1>10, <2>2 DEF Stacks
<1>12. job'.kind = "text" /\ job'.streams = <<v>> /\ job' # NoJob
  BY <1>7 DEF NoJob
<1>13. Here' = Here
  BY <1>2 DEF Here
<1> HIDE DEF i
<1> QED
  BY <1>4, <1>8, <1>11, <1>12, <1>13 DEF TextInv

LEMMA TextStepMeasures == StoryInv /\ TextInv /\ TextStep => TextInv'
<1> SUFFICES ASSUME StoryInv, TextInv, TextStep,
                    Ran("zero", 2)', done'.i.length > 1, vm'.table.active => story'.dyn <= done'.i.addr
             PROVE  /\ status' = "running" /\ job' = NoJob =>
                         done'.result[1].final /\ done'.result[1].at % AddrMod = vm'.pc
                    /\ job'.kind = "text" =>
                         /\ vm'.pc = (done'.i.addr + done'.i.length) % AddrMod
                         /\ Measured(Here', vm'.image, done'.i)
                         /\ job'.streams \in Stacks(Here', InlineStreams(done'.i))
  BY DEF TextInv
<1> DEFINE t == ztext_decode_step(vm.image, story.abbreviations, job.streams)
           r == EmitAll(vm, t.chars)
           i == done.i
           P == InlineStreams(i)
           q == job.streams
<1>1. /\ job.kind = "text" /\ vm' = r.vm
      /\ status' = IF ~ r.ok \/ t.how = "error" THEN "error"
                   ELSE IF t.how = "undefined" THEN "undefined" ELSE "running"
      /\ job' = IF r.ok /\ t.how = "more" THEN [job EXCEPT !.streams = t.streams] ELSE NoJob
      /\ done' = IF t.how = "end" THEN [done EXCEPT !.result = <<Last(q)>>] ELSE done
      /\ story' = story
  BY DEF TextStep
<1>2. /\ story \in Stories /\ vm \in Machine(Here) /\ Here \in Nat /\ DoneIs /\ TextIsUnderWay
  BY <1>1, StoryHere, JobIs DEF StoryInv
<1>3. done'.i = i /\ Ran("zero", 2) /\ i.length > 1 /\ i \in Instr
  <2>1. done'.i = done.i
    BY <1>1, <1>2 DEF DoneIs
  <2> QED
    BY <1>2, <2>1 DEF Ran, TextIsUnderWay
<1> HIDE DEF t, r
<1>4. vm.image \in Image(Here) /\ story.abbreviations \in Nat
  BY <1>2, StoryIs DEF Machine
<1>5. t.how \in Outcomes /\ t.chars \in Seq(Byte)
  <2>1. Closed(vm.image, TextStreams) /\ q \in Stacks(Here, TextStreams)
    BY <1>2, TextStreamsAreClosed DEF TextIsUnderWay
  <2>2. Decoded(Here, TextStreams, q, t)
    BY <1>2, <1>4, <2>1, TextIsDecoded DEF t
  <2> QED
    BY <2>2 DEF Decoded
<1>6. r.vm \in Emitted(Here, vm)
  <2>1. r \in Yield(Emitted(Here, vm), {0})
    BY <1>2, <1>5, AllEmitted DEF r
  <2> QED
    BY <2>1, Yielded
<1>7. /\ vm'.pc = vm.pc /\ vm'.table.active = vm.table.active
      /\ \A a \in 0 .. Here - 1 : vm'.image[a] # vm.image[a] => vm.table.active /\ a < story.dyn
  BY <1>1, <1>6 DEF Emitted
<1>8. vm.table.active => story.dyn <= i.addr
  BY <1>1, <1>3, <1>7
<1>9. /\ vm.pc = (i.addr + i.length) % AddrMod
      /\ Measured(Here, vm.image, i) /\ q \in Stacks(Here, P)
  BY <1>1, <1>3, <1>8 DEF TextInv
<1>10. i.category = "zero" /\ i.opcode = 2 /\ i.addr \in Nat /\ i.length \in Nat
  BY <1>3, AddressRange DEF Ran, Instr
<1>11. Closed(vm.image, P)
  BY <1>2, <1>3, <1>4, <1>9, <1>10, InlineStreamsAreClosed
<1> HIDE DEF P, q
<1>12. Decoded(Here, P, q, t)
  BY <1>2, <1>4, <1>9, <1>11, TextIsDecoded DEF t, q
<1>13. Here' = Here
  BY <1>1 DEF Here
<1>14. ASSUME job'.kind = "text"
       PROVE  /\ vm'.pc = (i.addr + i.length) % AddrMod
              /\ Measured(Here, vm'.image, i) /\ job'.streams \in Stacks(Here, P)
  <2>1. r.ok /\ t.how = "more" /\ job' = [job EXCEPT !.streams = t.streams]
    <3>1. NoJob.kind # "text"
      BY DEF NoJob
    <3> QED
      BY <1>1, <1>14, <3>1
  <2>2. job'.streams = t.streams
    BY <1>2, <2>1 DEF TextIsUnderWay
  <2>3. story.dyn \in Nat
    BY <1>2, StoryIs
  <2>4. \A a \in i.addr + 1 .. Here - 2 :
          vm'.image[a] = vm.image[a] /\ vm'.image[a + 1] = vm.image[a + 1]
    <3> SUFFICES ASSUME NEW a \in i.addr + 1 .. Here - 1 PROVE vm'.image[a] = vm.image[a]
      BY <1>2, <1>10
    <3>1. a \in 0 .. Here - 1 /\ i.addr < a
      BY <1>2, <1>10
    <3> QED
      BY <1>7, <1>8, <1>10, <2>3, <3>1
  <2>5. Measured(Here, vm'.image, i)
    BY <1>9, <2>4 DEF Measured
  <2> QED
    BY <1>7, <1>9, <1>12, <2>1, <2>2, <2>5 DEF Decoded
<1>15. ASSUME status' = "running", job' = NoJob
       PROVE  done'.result[1].final /\ done'.result[1].at % AddrMod = vm'.pc
  <2>1. r.ok /\ t.how = "end"
    <3>1. [job EXCEPT !.streams = t.streams] # NoJob
      <4>1. [job EXCEPT !.streams = t.streams].kind = "text"
        BY <1>1, <1>2 DEF TextIsUnderWay
      <4> QED
        BY <4>1 DEF NoJob
    <3> QED
      BY <1>1, <1>5, <1>15, <3>1 DEF Outcomes
  <2>2. done'.result = <<Last(q)>>
    BY <1>1, <1>2, <2>1 DEF DoneIs
  <2>3. Len(q) = 1 /\ Exhausted(q[1]) /\ q[1] \in P
    BY <1>9, <1>12, <2>1 DEF Decoded, Stacks
  <2>4. Last(q) = q[1]
    BY <2>3 DEF Last
  <2>5. done'.result[1] = q[1]
    BY <2>2, <2>4
  <2> DEFINE s == q[1]
  <2>6. /\ s \in Stream /\ s.at + s.left = i.addr + i.length /\ (s.final <=> s.left = 0)
        /\ Exhausted(s)
    BY <2>3 DEF InlineStreams, P
  <2>7. s.at \in Nat /\ s.left \in Nat
    BY <2>6 DEF Stream, Even
  <2> HIDE DEF s
  <2>8. s.final /\ s.at = i.addr + i.length
    BY <1>10, <2>6, <2>7 DEF Exhausted
  <2> QED
    BY <1>7, <1>9, <2>5, <2>8 DEF s
<1> QED
  BY <1>3, <1>13, <1>14, <1>15 DEF P

LEMMA TextStarts == Init => TextInv
<1> SUFFICES ASSUME Init, Ran("zero", 2) PROVE FALSE
  BY DEF TextInv
<1> QED
  BY DEF Init, Ran, NoInstr

LEMMA TextGoesOn == StoryInv /\ TextInv /\ [Next]_vars => TextInv'
<1> SUFFICES ASSUME StoryInv, TextInv, [Next]_vars PROVE TextInv'
  OBVIOUS
<1>1. story \in Stories /\ vm \in Machine(Here)
  BY DEF StoryInv
<1>2. ASSUME NEW opcodes \in PlainOpcodes \cup {ReadOpcodes},
             NEW f \in NextOf(opcodes), done'.i = f.value.i
      PROVE  TextInv'
  <2>1. f.value.i.category \in Category /\ f.value.i.opcode \in opcodes[f.value.i.category]
    BY <1>1, NextIs
  <2>2. ~ (f.value.i.category = "zero" /\ f.value.i.opcode = 2)
    BY <2>1, OpcodesApart DEF PlainOpcodes
  <2> QED
    BY <1>2, <2>2 DEF TextInv, Ran
<1>3. CASE Plain
  BY <1>2, <1>3, PlainIs
<1>4. CASE Sread
  <2>1. PICK f \in NextOf(ReadOpcodes) : \E line : \E r \in ReadOutcomes(f) :
          Finish(On(f.vm, r), f.value, line)
    BY <1>4, SreadIs
  <2>2. done'.i = f.value.i
    BY <2>1 DEF Finish, StatusAfter
  <2> QED
    BY <1>2, <2>2
<1>5. CASE Halt \/ MissingOperand
  <2>1. status' # "running" /\ job' = NoJob
    BY <1>5, Idle DEF Halt, MissingOperand, StatusAfter
  <2>2. job'.kind # "text"
    BY <2>1 DEF NoJob
  <2> QED
    BY <2>1, <2>2 DEF TextInv
<1>6. CASE PrintText
  BY <1>6, PrintTextMeasures
<1>7. CASE TextStep
  BY <1>7, TextStepMeasures
<1>8. CASE ParseStep
  <2>1. done' = done /\ Ran("var", 4)
    BY <1>8, JobIs DEF ParseStep, LineIsUnderWay
  <2> QED
    BY <2>1 DEF TextInv, Ran
<1>9. CASE PortLoop \/ UNCHANGED vars
  <2>1. UNCHANGED <<story, vm, job, status, done>>
    BY <1>9 DEF PortLoop, vars
  <2> QED
    BY <2>1 DEF TextInv, Ran, Here
<1> QED
  BY <1>3, <1>4, <1>5, <1>6, <1>7, <1>8, <1>9 DEF Next, Plain

-----------------------------------------------------------------------------
(* Reading back what a compiler has written.  at is where the bytes are, a  *)
(* number that need not be an address, and c the cursor of the decoder.    *)

Covers(image, at, bytes) == \A n \in 0 .. Len(bytes) - 1 : (at + n) % AddrMod \in DOMAIN image
Lies(image, at, bytes) ==
  \A n \in 0 .. Len(bytes) - 1 :
    (at + n) % AddrMod \in DOMAIN image => image[(at + n) % AddrMod] = bytes[n + 1]
SamePlace(c, at) == c \in Nat /\ \A n \in Nat : (c + n) % AddrMod = (at + n) % AddrMod

\* The outcome is what the bytes stand for, and the cursor is behind them.
ReadsBack(r, image, at, bytes, v) ==
  IF Covers(image, at, bytes) THEN r = Value((at + Len(bytes)) % AddrMod, v) ELSE ~ r.ok

LEMMA SamePlaces ==
  ASSUME NEW at \in Nat
  PROVE  SamePlace(at, at) /\ SamePlace(at % AddrMod, at)
<1>1. at % AddrMod \in Nat
  BY Wraps
<1>2. ASSUME NEW n \in Nat PROVE ((at % AddrMod) + n) % AddrMod = (at + n) % AddrMod
  <2>1. PICK a \in Int : a * AddrMod \in Int /\ at % AddrMod = at + a * AddrMod
    BY WrapIs
  <2> DEFINE x == (at % AddrMod) + n
             y == at + n
             s == AddrMod
             e == a * s
  <2>2. x \in Int /\ y \in Int /\ s \in Nat \ {0}
    BY <1>1, Addresses
  <2>3. x = y + a * s
    <3>1. e \in Int /\ at % AddrMod = at + e
      BY <2>1
    <3> HIDE DEF e
    <3>2. x = y + e
      BY <3>1
    <3> QED
      BY <3>2 DEF e
  <2> HIDE DEF x, y, s
  <2>4. x % s = y % s
    BY <2>2, <2>3, ModShift
  <2> QED
    BY <2>4 DEF x, y, s
<1> QED
  BY <1>1, <1>2 DEF SamePlace

LEMMA Joins ==
  ASSUME NEW S, NEW image, NEW at \in Nat, NEW p \in Seq(S), NEW q \in Seq(S)
  PROVE  /\ p \o q \in Seq(S) /\ Len(p \o q) = Len(p) + Len(q)
         /\ Covers(image, at, p \o q) <=> Covers(image, at, p) /\ Covers(image, at + Len(p), q)
         /\ Lies(image, at, p \o q) => Lies(image, at, p) /\ Lies(image, at + Len(p), q)
<1> DEFINE l == Len(p)
           m == Len(q)
           b == p \o q
<1>1. l \in Nat /\ m \in Nat /\ b \in Seq(S) /\ Len(b) = l + m
  OBVIOUS
<1>2. \A n \in 0 .. l - 1 : n \in 0 .. (l + m) - 1 /\ b[n + 1] = p[n + 1]
  OBVIOUS
<1>3. \A n \in 0 .. m - 1 : l + n \in 0 .. (l + m) - 1 /\ b[(l + n) + 1] = q[n + 1]
                            /\ at + (l + n) = (at + l) + n
  OBVIOUS
<1> HIDE DEF l, m, b
<1>4. \A n \in 0 .. (l + m) - 1 : n \in 0 .. l - 1 \/ \E k \in 0 .. m - 1 : n = l + k
  <2> SUFFICES ASSUME NEW n \in 0 .. (l + m) - 1, ~ (n \in 0 .. l - 1)
               PROVE  \E k \in 0 .. m - 1 : n = l + k
    OBVIOUS
  <2>1. n - l \in 0 .. m - 1 /\ n = l + (n - l)
    BY <1>1
  <2> QED
    BY <2>1
<1>5. Covers(image, at, b) <=> Covers(image, at, p) /\ Covers(image, at + l, q)
  <2>1. Covers(image, at, b) => Covers(image, at, p) /\ Covers(image, at + l, q)
    <3>1. Covers(image, at, b) => Covers(image, at, p)
      BY <1>1, <1>2 DEF Covers, l
    <3>2. Covers(image, at, b) => Covers(image, at + l, q)
      <4> SUFFICES ASSUME Covers(image, at, b), NEW n \in 0 .. m - 1
                   PROVE  ((at + l) + n) % AddrMod \in DOMAIN image
        BY DEF Covers, m
      <4>1. (at + (l + n)) % AddrMod \in DOMAIN image
        BY <1>1, <1>3 DEF Covers
      <4> QED
        BY <4>1, <1>3
    <3> QED
      BY <3>1, <3>2
  <2>2. ASSUME Covers(image, at, p), Covers(image, at + l, q), NEW n \in 0 .. (l + m) - 1
        PROVE  (at + n) % AddrMod \in DOMAIN image
    <3>1. CASE n \in 0 .. l - 1
      BY <2>2, <3>1 DEF Covers, l
    <3>2. CASE \E k \in 0 .. m - 1 : n = l + k
      <4>1. PICK k \in 0 .. m - 1 : n = l + k
        BY <3>2
      <4>2. ((at + l) + k) % AddrMod \in DOMAIN image
        BY <2>2 DEF Covers, m
      <4> QED
        BY <4>1, <4>2, <1>3
    <3> QED
      BY <1>4, <3>1, <3>2
  <2> QED
    BY <1>1, <2>1, <2>2 DEF Covers
<1>6. Lies(image, at, b) => Lies(image, at, p) /\ Lies(image, at + l, q)
  <2>1. Lies(image, at, b) => Lies(image, at, p)
    BY <1>1, <1>2 DEF Lies, l
  <2>2. Lies(image, at, b) => Lies(image, at + l, q)
    <3> SUFFICES ASSUME Lies(image, at, b), NEW n \in 0 .. m - 1,
                        ((at + l) + n) % AddrMod \in DOMAIN image
                 PROVE  image[((at + l) + n) % AddrMod] = q[n + 1]
      BY DEF Lies, m
    <3>1. (at + (l + n)) % AddrMod \in DOMAIN image
      BY <1>3
    <3>2. image[(at + (l + n)) % AddrMod] = b[(l + n) + 1]
      BY <1>1, <1>3, <3>1 DEF Lies
    <3> QED
      BY <3>2, <1>3
  <2> QED
    BY <2>1, <2>2
<1> QED
  BY <1>1, <1>5, <1>6 DEF l, m, b

LEMMA NothingLies ==
  ASSUME NEW image, NEW at \in Nat
  PROVE  Covers(image, at, <<>>) /\ Lies(image, at, <<>>)
  BY DEF Covers, Lies

\* One piece after another.
LEMMA ReadsOn ==
  ASSUME NEW S, NEW image, NEW at \in Nat, NEW p \in Seq(S), NEW q \in Seq(S),
         NEW r, NEW x, NEW v, NEW w, ReadsBack(r, image, at, p, v),
         r = Value((at + Len(p)) % AddrMod, v) => ReadsBack(x, image, at + Len(p), q, w)
  PROVE  ReadsBack(IF r.ok THEN x ELSE r, image, at, p \o q, w)
<1>1. Len(p \o q) = Len(p) + Len(q)
      /\ (Covers(image, at, p \o q) <=> Covers(image, at, p) /\ Covers(image, at + Len(p), q))
  BY Joins
<1>2. (at + Len(p)) + Len(q) = at + Len(p \o q)
  BY <1>1
<1>3. CASE Covers(image, at, p)
  <2>1. r = Value((at + Len(p)) % AddrMod, v)
    BY <1>3 DEF ReadsBack
  <2>2. r.ok = TRUE
    BY <2>1 DEF Value
  <2> QED
    BY <1>1, <1>2, <1>3, <2>1, <2>2 DEF ReadsBack
<1>4. CASE ~ Covers(image, at, p)
  BY <1>1, <1>4 DEF ReadsBack
<1> QED
  BY <1>3, <1>4

LEMMA ByteReads ==
  ASSUME NEW size \in Nat, NEW image \in Image(size), NEW at \in Nat, NEW c,
         SamePlace(c, at), NEW b, Lies(image, at, <<b>>)
  PROVE  ReadsBack(read_byte(image, c), image, at, <<b>>, b)
<1> DEFINE x == at % AddrMod
           r == read8(image, c)
<1>1. c % AddrMod = x /\ (c + 1) % AddrMod = (at + 1) % AddrMod
  <2>1. (c + 0) % AddrMod = (at + 0) % AddrMod /\ (c + 1) % AddrMod = (at + 1) % AddrMod
    BY DEF SamePlace
  <2>2. c + 0 = c /\ at + 0 = at
    BY DEF SamePlace
  <2> QED
    BY <2>1, <2>2
<1>2. Covers(image, at, <<b>>) <=> x \in DOMAIN image
  <2>1. \A n \in 0 .. Len(<<b>>) - 1 : n = 0
    OBVIOUS
  <2>2. 0 \in 0 .. Len(<<b>>) - 1 /\ at + 0 = at
    OBVIOUS
  <2> QED
    BY <2>1, <2>2 DEF Covers
<1>3. x \in DOMAIN image => image[x] = b
  <2>1. 0 \in 0 .. Len(<<b>>) - 1 /\ at + 0 = at /\ <<b>>[0 + 1] = b
    OBVIOUS
  <2> QED
    BY <2>1 DEF Lies
<1> HIDE DEF x
<1>4. r = IF x \in DOMAIN image THEN Value(image, image[x]) ELSE Fail(image)
  BY <1>1 DEF read8, story_mem_read8
<1>5. read_byte(image, c) = IF r.ok THEN Value((c + 1) % AddrMod, r.value) ELSE Fail(c)
  BY DEF read_byte, Advance
<1> HIDE DEF r
<1>6. CASE x \in DOMAIN image
  <2>1. r.ok = TRUE /\ r.value = b
    BY <1>3, <1>4, <1>6 DEF Value
  <2>2. read_byte(image, c) = Value((at + Len(<<b>>)) % AddrMod, b)
    BY <1>1, <1>5, <2>1
  <2> QED
    BY <1>2, <1>6, <2>2 DEF ReadsBack
<1>7. CASE x \notin DOMAIN image
  BY <1>2, <1>4, <1>5, <1>7 DEF ReadsBack, Fail
<1> QED
  BY <1>6, <1>7

LEMMA WordReads ==
  ASSUME NEW size \in Nat, NEW image \in Image(size), NEW at \in Nat, NEW c,
         SamePlace(c, at), NEW h \in Byte, NEW l \in Byte, Lies(image, at, <<h, l>>),
         at % AddrMod # AddrMod - 1
  PROVE  ReadsBack(read_word(image, c), image, at, <<h, l>>, 256 * h + l)
<1> DEFINE x == at % AddrMod
           y == (at + 1) % AddrMod
           r == read16(image, c)
           p == story_mem_read8(image, x)
           q == story_mem_read8(image, x + 1)
           bytes == <<h, l>>
<1>1. c % AddrMod = x /\ (c + 2) % AddrMod = (at + 2) % AddrMod
  <2>1. (c + 0) % AddrMod = (at + 0) % AddrMod /\ (c + 2) % AddrMod = (at + 2) % AddrMod
    BY DEF SamePlace
  <2>2. c + 0 = c /\ at + 0 = at
    BY DEF SamePlace
  <2> QED
    BY <2>1, <2>2
<1>2. x + 1 = y
  <2>1. x \in Address /\ AddrMod \in Nat \ {0} /\ x # AddrMod - 1
    BY Addresses
  <2>2. x + 1 \in Address
    BY <2>1 DEF Address
  <2>3. (x + 1) % AddrMod = x + 1
    BY <2>2, Addresses
  <2>4. (x + 1) % AddrMod = y
    BY SamePlaces DEF SamePlace
  <2> QED
    BY <2>3, <2>4
<1>3. /\ Covers(image, at, bytes) <=> x \in DOMAIN image /\ y \in DOMAIN image
      /\ x \in DOMAIN image => image[x] = h
      /\ y \in DOMAIN image => image[y] = l
      /\ Len(bytes) = 2
  <2>1. \A n \in 0 .. Len(bytes) - 1 : n = 0 \/ n = 1
    OBVIOUS
  <2>2. 0 \in 0 .. Len(bytes) - 1 /\ at + 0 = at /\ bytes[0 + 1] = h
    OBVIOUS
  <2>3. 1 \in 0 .. Len(bytes) - 1 /\ bytes[1 + 1] = l /\ Len(bytes) = 2
    OBVIOUS
  <2> HIDE DEF bytes
  <2> QED
    BY <2>1, <2>2, <2>3 DEF Covers, Lies, bytes
<1>4. r = IF p.ok THEN IF q.ok THEN Value(image, 256 * p.value + q.value) ELSE q ELSE p
  BY <1>1 DEF read16, story_mem_read16, Then
<1>5. read_word(image, c) = IF r.ok THEN Value((c + 2) % AddrMod, r.value) ELSE Fail(c)
  BY DEF read_word, Advance
<1>6. /\ p = IF x \in DOMAIN image THEN Value(image, image[x]) ELSE Fail(image)
      /\ q = IF y \in DOMAIN image THEN Value(image, image[y]) ELSE Fail(image)
  BY <1>2 DEF story_mem_read8
<1> HIDE DEF p, q, r, x, y, bytes
<1>7. CASE x \in DOMAIN image /\ y \in DOMAIN image
  <2>1. p = Value(image, h) /\ q = Value(image, l)
    BY <1>3, <1>6, <1>7
  <2>2. r = Value(image, 256 * h + l)
    BY <1>4, <2>1 DEF Value
  <2>3. read_word(image, c) = Value((at + 2) % AddrMod, 256 * h + l)
    BY <1>1, <1>5, <2>2 DEF Value
  <2> QED
    BY <1>3, <1>7, <2>3 DEF ReadsBack, bytes
<1>8. CASE ~ (x \in DOMAIN image /\ y \in DOMAIN image)
  <2>1. ~ r.ok
    BY <1>4, <1>6, <1>8 DEF Value, Fail
  <2>2. ~ read_word(image, c).ok
    BY <1>5, <2>1 DEF Fail
  <2> QED
    BY <1>3, <1>8, <2>2 DEF ReadsBack, bytes
<1> QED
  BY <1>7, <1>8

LEMMA PairIs ==
  ASSUME NEW S, NEW x \in S, NEW y \in S
  PROVE  <<x, y>> = <<x>> \o <<y>> /\ <<x>> \in Seq(S) /\ <<y>> \in Seq(S)
<1> DEFINE p == Append(<<x>>, y)
           q == <<x, y>>
<1>1. /\ p = <<x>> \o <<y>> /\ <<x>> \in Seq(S) /\ <<y>> \in Seq(S)
      /\ Len(<<x>>) = 1 /\ <<x>>[1] = x
  BY AppendIsConcat
<1>2. p \in Seq(S) /\ Len(p) = 2 /\ p[1] = x /\ p[2] = y
  BY <1>1, AppendProperties
<1>3. q \in Seq(S) /\ Len(q) = 2 /\ q[1] = x /\ q[2] = y
  OBVIOUS
<1>4. \A k \in 1 .. 2 : k = 1 \/ k = 2
  OBVIOUS
<1> HIDE DEF p, q
<1>5. p = q
  BY <1>2, <1>3, <1>4, SeqEqual
<1> QED
  BY <1>1, <1>5 DEF p, q

\* FlattenSeq joins one sequence after another.
LEMMA Flattened ==
  ASSUME NEW S, NEW s \in Seq(Seq(S))
  PROVE  \E g : /\ g[0] = <<>> /\ \A k \in 1 .. Len(s) : g[k] = g[k - 1] \o s[k]
                /\ \A k \in 0 .. Len(s) : g[k] \in Seq(S)
                /\ FlattenSeq(s) = g[Len(s)]
<1> DEFINE n == Len(s)
           E(f) == f = [i \in 1 .. n |-> IF i = 1 THEN s[i] ELSE f[i - 1] \o s[i]]
           F == CHOOSE f : E(f)
           Y == [k \in 0 .. n |-> Seq(S)]
           step == [k \in 1 .. n |-> [q \in Y[k - 1] |-> q \o s[k]]]
           g == [k \in 0 .. n |-> IF k = 0 THEN <<>> ELSE F[k]]
<1>1. n \in Nat /\ \A k \in 1 .. n : s[k] \in Seq(S) /\ k \in Nat /\ k - 1 \in 0 .. n /\ k \in 0 .. n
  OBVIOUS
<1>2. FlattenSeq(s) = IF n = 0 THEN s ELSE F[n]
  BY DEF FlattenSeq
<1>3. n = 0 => s = <<>>
  OBVIOUS
<1>4. \A x, y \in Seq(S) : x \o y \in Seq(S)
  OBVIOUS
<1>5. \A x \in Seq(S) : <<>> \o x = x
  OBVIOUS
<1>6. <<>> \in Seq(S)
  OBVIOUS
<1> HIDE DEF n
<1>7. \E f : E(f)
  <2>1. Passing(n, Y, step)
    BY <1>1, <1>4 DEF Passing
  <2>2. 0 \in 0 .. n
    BY <1>1
  <2>3. <<>> \in Y[0]
    BY <1>6, <2>2
  <2>4. \A k \in 1 .. n : \A q \in Y[k - 1] : step[k][q] = q \o s[k]
    OBVIOUS
  <2> HIDE DEF step
  <2>5. PICK f : IsLoop(f, n, <<>>, step) /\ \A k \in 0 .. n : f[k] \in Y[k]
    <3> HIDE DEF Y
    <3> QED
      BY <1>1, <2>1, <2>3, Recursion
  <2> DEFINE h == [i \in 1 .. n |-> f[i]]
  <2>6. \A k \in 1 .. n : f[k] = f[k - 1] \o s[k]
    <3> SUFFICES ASSUME NEW k \in 1 .. n PROVE f[k] = f[k - 1] \o s[k]
      OBVIOUS
    <3>1. k \in 0 .. n /\ k - 1 \in 0 .. n /\ k # 0
      BY <1>1
    <3>2. f[k] = step[k][f[k - 1]]
      BY <2>5, <3>1 DEF IsLoop
    <3>3. f[k - 1] \in Y[k - 1]
      BY <2>5, <3>1
    <3> HIDE DEF Y
    <3> QED
      BY <2>4, <3>2, <3>3
  <2>7. f[0] = <<>>
    BY <2>2, <2>5 DEF IsLoop
  <2>8. \A i \in 1 .. n : h[i] = IF i = 1 THEN s[i] ELSE h[i - 1] \o s[i]
    <3> SUFFICES ASSUME NEW i \in 1 .. n PROVE h[i] = IF i = 1 THEN s[i] ELSE h[i - 1] \o s[i]
      OBVIOUS
    <3>1. f[i] = f[i - 1] \o s[i] /\ h[i] = f[i]
      BY <2>6
    <3>2. CASE i = 1
      <4>1. i - 1 = 0
        BY <3>2
      <4> QED
        BY <3>1, <3>2, <4>1, <2>7, <1>1, <1>5
    <3>3. CASE i # 1
      <4>1. i - 1 \in 1 .. n
        BY <1>1, <3>3
      <4> QED
        BY <3>1, <3>3, <4>1
    <3> QED
      BY <3>2, <3>3
  <2>9. h = [i \in 1 .. n |-> h[i]]
    OBVIOUS
  <2> HIDE DEF h
  <2>10. h = [i \in 1 .. n |-> IF i = 1 THEN s[i] ELSE h[i - 1] \o s[i]]
    BY <2>8, <2>9
  <2> QED
    BY <2>10
<1>8. E(F)
  BY <1>7
<1> HIDE DEF F
<1>9. \A i \in 1 .. n : F[i] = IF i = 1 THEN s[i] ELSE F[i - 1] \o s[i]
  BY <1>8
<1>10. g[0] = <<>> /\ \A k \in 1 .. n : g[k] = F[k]
  BY <1>1
<1>11. \A k \in 0 .. n : k # 0 => k \in 1 .. n
  BY <1>1
<1> HIDE DEF g
<1>12. ASSUME NEW k \in 1 .. n PROVE g[k] = g[k - 1] \o s[k]
  <2>1. CASE k = 1
    <3>1. k - 1 = 0
      BY <2>1
    <3> QED
      BY <2>1, <3>1, <1>1, <1>5, <1>9, <1>10, ZenonT(40)
  <2>2. CASE k # 1
    <3>1. k - 1 \in 1 .. n
      BY <1>1, <2>2
    <3> QED
      BY <2>2, <3>1, <1>9, <1>10
  <2> QED
    BY <2>1, <2>2
<1>13. \A k \in 0 .. n : g[k] \in Y[k]
  <2>1. g[0] \in Y[0]
    <3>1. 0 \in 0 .. n
      BY <1>1
    <3> QED
      BY <3>1, <1>6, <1>10
  <2>2. \A k \in 1 .. n : g[k - 1] \in Y[k - 1] => g[k] \in Y[k]
    BY <1>1, <1>4, <1>12
  <2> HIDE DEF Y
  <2> QED
    BY <1>1, <2>1, <2>2, Kept
<1>14. n # 0 => n \in 1 .. n
  BY <1>1
<1>15. FlattenSeq(s) = g[n]
  BY <1>2, <1>3, <1>10, <1>14
<1> QED
  BY <1>10, <1>12, <1>13, <1>15 DEF n

\* g joins the pieces s.
Joining(S, s, g) ==
  /\ g[0] = <<>> /\ \A k \in 1 .. Len(s) : g[k] = g[k - 1] \o s[k]
  /\ \A k \in 0 .. Len(s) : g[k] \in Seq(S)

\* Some of the pieces, from the first on.
LEMMA FlattenedPrefix ==
  ASSUME NEW S, NEW s \in Seq(Seq(S)), NEW g, Joining(S, s, g),
         NEW p \in Seq(Seq(S)), Len(p) <= Len(s), \A k \in 1 .. Len(p) : p[k] = s[k]
  PROVE  FlattenSeq(p) = g[Len(p)]
<1> DEFINE n == Len(p)
<1>1. PICK h : /\ h[0] = <<>> /\ \A k \in 1 .. n : h[k] = h[k - 1] \o p[k]
               /\ FlattenSeq(p) = h[n]
  BY Flattened
<1>2. n \in Nat /\ n <= Len(s) /\ Len(s) \in Nat
  OBVIOUS
<1>3. \A k \in 1 .. n : k \in 1 .. Len(s) /\ k \in 0 .. n /\ k - 1 \in 0 .. n /\ p[k] = s[k]
  BY <1>2
<1> HIDE DEF n
<1> DEFINE Y == [k \in 0 .. n |-> {g[k]}]
<1>4. \A k \in 1 .. n : h[k - 1] \in Y[k - 1] => h[k] \in Y[k]
  BY <1>1, <1>3 DEF Joining
<1>5. h[0] \in Y[0]
  BY <1>1, <1>2 DEF Joining
<1>6. \A k \in 0 .. n : h[k] \in Y[k]
  <2> HIDE DEF Y
  <2> QED
    BY <1>2, <1>4, <1>5, Kept
<1>7. n \in 0 .. n
  BY <1>2
<1> QED
  BY <1>1, <1>6, <1>7 DEF n

LEMMA PiecesLie ==
  ASSUME NEW S, NEW s \in Seq(Seq(S)), NEW g, Joining(S, s, g), NEW image, NEW at \in Nat,
         Lies(image, at, g[Len(s)])
  PROVE  \A k \in 1 .. Len(s) : Lies(image, at, g[k - 1]) /\ Lies(image, at + Len(g[k - 1]), s[k])
<1> DEFINE n == Len(s)
           T == {j \in Nat : j <= n => Lies(image, at, g[n - j])}
<1>1. n \in Nat /\ \A k \in 1 .. n : s[k] \in Seq(S) /\ k - 1 \in 0 .. n
  OBVIOUS
<1>2. ASSUME NEW k \in 1 .. n, Lies(image, at, g[k])
      PROVE  Lies(image, at, g[k - 1]) /\ Lies(image, at + Len(g[k - 1]), s[k])
  <2>1. g[k - 1] \in Seq(S) /\ s[k] \in Seq(S) /\ g[k] = g[k - 1] \o s[k]
    BY <1>1 DEF Joining
  <2> DEFINE p == g[k - 1]
             q == s[k]
  <2>2. Lies(image, at, p \o q)
    BY <1>2, <2>1
  <2> HIDE DEF p, q
  <2>3. Lies(image, at, p) /\ Lies(image, at + Len(p), q)
    BY <2>1, <2>2, Joins DEF p, q
  <2> QED
    BY <2>3 DEF p, q
<1>3. 0 \in T
  <2>1. n - 0 = n
    BY <1>1
  <2> QED
    BY <2>1
<1>4. ASSUME NEW j \in Nat, j \in T PROVE j + 1 \in T
  <2> SUFFICES ASSUME j + 1 <= n PROVE Lies(image, at, g[n - (j + 1)])
    OBVIOUS
  <2>1. n - j \in 1 .. n /\ (n - j) - 1 = n - (j + 1) /\ j <= n
    BY <1>1
  <2>2. Lies(image, at, g[n - j])
    BY <1>4, <2>1
  <2> QED
    BY <1>2, <2>1, <2>2
<1> HIDE DEF T
<1>5. Nat \subseteq T
  BY <1>3, <1>4, Inductive
<1>6. ASSUME NEW k \in 1 .. n PROVE Lies(image, at, g[k])
  <2>1. n - k \in Nat /\ n - k <= n /\ n - (n - k) = k
    BY <1>1
  <2>2. n - k \in T
    BY <1>5, <2>1
  <2> QED
    BY <2>1, <2>2 DEF T
<1> QED
  BY <1>2, <1>6

\* What a compiler writes for an operand.
PieceOf(type, operand) ==
  IF type = "large" THEN <<operand \div 256, operand % 256>> ELSE <<operand>>
PiecesOf(i) == [k \in 1 .. Len(i.types) |-> PieceOf(i.types[k], i.operands[k])]

LEMMA PiecesAre ==
  ASSUME NEW i, OperandsFit(i)
  PROVE  /\ PiecesOf(i) \in Seq(Seq(Byte)) /\ Len(PiecesOf(i)) = Len(i.types)
         /\ OperandBytes(i) = FlattenSeq(PiecesOf(i))
<1> DEFINE n == Len(i.types)
<1>1. n \in Nat /\ DOMAIN i.types = 1 .. n /\ DOMAIN i.operands = 1 .. n
  BY DEF OperandsFit, OperandType
<1>2. OperandBytes(i) = FlattenSeq(PiecesOf(i))
  BY <1>1 DEF OperandBytes, PiecesOf, PieceOf
<1>3. ASSUME NEW k \in 1 .. n PROVE PieceOf(i.types[k], i.operands[k]) \in Seq(Byte)
  <2> DEFINE o == i.operands[k]
  <2>1. o \in Bits
    BY <1>1 DEF OperandsFit, OperandType
  <2> HIDE DEF o
  <2>2. 0 <= o /\ o <= 65535 /\ o \in Int
    BY <2>1, WordIs
  <2>3. o \div 256 \in Int /\ 0 <= o \div 256 /\ o \div 256 <= 255
        /\ o % 256 \in Int /\ 0 <= o % 256 /\ o % 256 <= 255
    BY <2>2
  <2>4. o \div 256 \in Byte /\ o % 256 \in Byte
    BY <2>3, ByteIs
  <2>5. i.types[k] # "large" => o \in Byte
    BY <1>1 DEF OperandsFit, OperandType, o
  <2> QED
    BY <2>4, <2>5 DEF PieceOf, o
<1> QED
  BY <1>1, <1>2, <1>3 DEF PiecesOf

LEMMA PieceReads ==
  ASSUME NEW size \in Nat, NEW image \in Image(size), NEW at \in Nat, NEW c, SamePlace(c, at),
         NEW type, NEW o \in Bits, type # "large" => o \in Byte,
         Lies(image, at, PieceOf(type, o)), type = "large" => at % AddrMod # AddrMod - 1
  PROVE  ReadsBack(read_operand(image, c, type), image, at, PieceOf(type, o), o)
<1>1. CASE type = "large"
  <2> DEFINE h == o \div 256
             l == o % 256
  <2>1. 0 <= o /\ o <= 65535 /\ o \in Int
    BY WordIs
  <2>2. h \in Int /\ 0 <= h /\ h <= 255 /\ l \in Int /\ 0 <= l /\ l <= 255 /\ 256 * h + l = o
    BY <2>1
  <2>3. h \in Byte /\ l \in Byte
    BY <2>2, ByteIs
  <2>4. PieceOf(type, o) = <<h, l>>
    BY <1>1 DEF PieceOf
  <2> HIDE DEF h, l
  <2>5. ReadsBack(read_word(image, c), image, at, <<h, l>>, o)
    BY <1>1, <2>2, <2>3, <2>4, WordReads
  <2> QED
    BY <1>1, <2>4, <2>5 DEF read_operand
<1>2. CASE type # "large"
  <2>1. PieceOf(type, o) = <<o>>
    BY <1>2 DEF PieceOf
  <2>2. ReadsBack(read_byte(image, c), image, at, <<o>>, o)
    BY <2>1, ByteReads
  <2> QED
    BY <1>2, <2>1, <2>2 DEF read_operand
<1> QED
  BY <1>1, <1>2

\* The bytes of the operands before operand k.
BytesBefore(i, k) == OperandBytes([types |-> Prefix(i.types, k - 1), operands |-> i.operands])

LEMMA BeforeIs ==
  ASSUME NEW i, OperandsFit(i), NEW g, Joining(Byte, PiecesOf(i), g),
         NEW k \in 1 .. Len(i.types)
  PROVE  BytesBefore(i, k) = g[k - 1]
<1> DEFINE n == Len(i.types)
           m == k - 1
           j == [types |-> Prefix(i.types, m), operands |-> i.operands]
           p == [l \in 1 .. m |-> PieceOf(i.types[l], i.operands[l])]
<1>1. /\ n \in Nat /\ m \in 0 .. n /\ i.types \in [1 .. n -> OperandType]
      /\ i.types \in Seq(OperandType)
  BY DEF OperandsFit, OperandType
<1>2. /\ Prefix(i.types, m) \in Seq(OperandType) /\ Len(Prefix(i.types, m)) = m
      /\ \A l \in 1 .. m : Prefix(i.types, m)[l] = i.types[l]
  BY <1>1 DEF Prefix
<1>3. DOMAIN Prefix(i.types, m) = 1 .. m
  BY <1>2
<1>4. OperandBytes(j) = FlattenSeq(p)
  <2>1. j.types = Prefix(i.types, m) /\ j.operands = i.operands
    OBVIOUS
  <2> HIDE DEF j
  <2>2. OperandBytes(j) =
          FlattenSeq([l \in 1 .. m |-> PieceOf(Prefix(i.types, m)[l], i.operands[l])])
    BY <1>3, <2>1 DEF OperandBytes, PieceOf
  <2>3. [l \in 1 .. m |-> PieceOf(Prefix(i.types, m)[l], i.operands[l])] = p
    BY <1>2
  <2> QED
    BY <2>2, <2>3
<1>5. PiecesOf(i) \in Seq(Seq(Byte)) /\ Len(PiecesOf(i)) = n
  BY PiecesAre
<1>6. \A l \in 1 .. m : l \in 1 .. n /\ PiecesOf(i)[l] \in Seq(Byte)
                        /\ PiecesOf(i)[l] = PieceOf(i.types[l], i.operands[l])
  <2>1. \A l \in 1 .. m : l \in 1 .. n
    BY <1>1
  <2>2. \A l \in 1 .. n : PiecesOf(i)[l] \in Seq(Byte)
    BY <1>5
  <2>3. \A l \in 1 .. n : PiecesOf(i)[l] = PieceOf(i.types[l], i.operands[l])
    BY DEF PiecesOf
  <2> QED
    BY <2>1, <2>2, <2>3
<1>7. p \in Seq(Seq(Byte)) /\ Len(p) = m /\ \A l \in 1 .. Len(p) : p[l] = PiecesOf(i)[l]
  <2>1. m \in Nat
    BY <1>1
  <2>2. \A l \in 1 .. m : PieceOf(i.types[l], i.operands[l]) \in Seq(Byte)
    BY <1>6
  <2> HIDE DEF m
  <2>3. p \in Seq(Seq(Byte)) /\ Len(p) = m
    BY <2>1, <2>2
  <2> QED
    BY <2>3, <1>6
<1> HIDE DEF p, m, n
<1>8. FlattenSeq(p) = g[Len(p)]
  BY <1>1, <1>5, <1>7, FlattenedPrefix
<1> QED
  BY <1>4, <1>7, <1>8 DEF BytesBefore, m

LEMMA OperandsReadBack ==
  ASSUME NEW size \in Nat, NEW image \in Image(size), NEW at \in Nat,
         NEW i, OperandsFit(i), Lies(image, at, OperandBytes(i)),
         \A k \in DOMAIN i.types :
           i.types[k] = "large" => (at + Len(BytesBefore(i, k))) % AddrMod # AddrMod - 1
  PROVE  /\ OperandBytes(i) \in Seq(Byte)
         /\ ReadsBack(ReadOperands(image, at % AddrMod, i.types), image, at, OperandBytes(i),
                      i.operands)
<1> DEFINE n == Len(i.types)
           c == at % AddrMod
           s == PiecesOf(i)
<1>0. /\ n \in Nat /\ i.types \in Seq(OperandType) /\ DOMAIN i.types = 1 .. n
      /\ i.operands \in Seq(Bits) /\ Len(i.operands) = n
  BY DEF OperandsFit, OperandType
<1>1. s \in Seq(Seq(Byte)) /\ Len(s) = n /\ OperandBytes(i) = FlattenSeq(s)
  BY PiecesAre
<1> HIDE DEF n, s
<1>2. PICK g : Joining(Byte, s, g) /\ FlattenSeq(s) = g[n]
  BY <1>1, Flattened DEF Joining
<1>3. c \in Nat
  BY Wraps
<1>4. PICK To : /\ ReadOperands(image, c, i.types) = To[n]
                /\ To[0] = Value(c, <<>>)
                /\ \A k \in 0 .. n : To[k] \in Yield(Nat, Words(k))
                /\ \A k \in 1 .. n : To[k] = IF To[k - 1].ok
                                             THEN OperandRead(image, i.types, To[k - 1], k)
                                             ELSE To[k - 1]
  BY <1>0, <1>3, OperandLoop DEF n
<1> DEFINE Back(k) == ReadsBack(To[k], image, at, g[k], Prefix(i.operands, k))
<1>5. \A k \in 1 .. n : /\ g[k] = g[k - 1] \o s[k] /\ g[k - 1] \in Seq(Byte) /\ s[k] \in Seq(Byte)
                        /\ Lies(image, at + Len(g[k - 1]), s[k])
  <2>1. \A k \in 1 .. n : Lies(image, at + Len(g[k - 1]), s[k])
    BY <1>1, <1>2, PiecesLie
  <2>2. \A k \in 1 .. n : k - 1 \in 0 .. n
    BY <1>0
  <2>3. \A k \in 1 .. n : g[k] = g[k - 1] \o s[k] /\ g[k - 1] \in Seq(Byte)
    BY <1>1, <1>2, <2>2 DEF Joining
  <2>4. \A k \in 1 .. n : s[k] \in Seq(Byte)
    BY <1>1
  <2> QED
    BY <2>1, <2>3, <2>4
<1>6. ASSUME NEW k \in 1 .. n, Back(k - 1) PROVE Back(k)
  <2> DEFINE q == To[k - 1]
             p == g[k - 1]
             o == i.operands[k]
             type == i.types[k]
             place == at + Len(p)
             x == read_operand(image, q.vm, type)
             next == OperandRead(image, i.types, q, k)
             before == Prefix(i.operands, k - 1)
             now == Prefix(i.operands, k)
  <2>1. p \in Seq(Byte) /\ Len(p) \in Nat /\ place \in Nat /\ k \in DOMAIN i.types
    <3>1. p \in Seq(Byte)
      BY <1>5
    <3> HIDE DEF p
    <3> QED
      BY <1>0, <3>1
  <2>2. s[k] = PieceOf(type, o) /\ s[k] \in Seq(Byte) /\ Lies(image, place, s[k])
    BY <1>5 DEF PiecesOf, s, n
  <2>3. o \in Bits /\ (type # "large" => o \in Byte)
    <3>1. k \in DOMAIN i.operands
      BY <1>0
    <3>2. type # "large" => o \in Byte
      BY <2>1 DEF OperandsFit, OperandType
    <3>3. \A e \in Seq(Bits) : \A m \in 1 .. Len(e) : e[m] \in Bits
      OBVIOUS
    <3> QED
      BY <1>0, <3>2, <3>3
  <2>4. type = "large" => place % AddrMod # AddrMod - 1
    BY <1>2, <2>1, BeforeIs DEF s, n
  <2>5. now = Append(before, o)
    <3>1. \A e \in Seq(Bits) : \A m \in 1 .. Len(e) :
            SubSeq(e, 1, m) = Append(SubSeq(e, 1, m - 1), e[m])
      OBVIOUS
    <3> QED
      BY <1>0, <3>1 DEF Prefix
  <2>6. next = IF x.ok THEN Value(x.vm, Append(q.value, x.value)) ELSE x
    BY DEF OperandRead
  <2>7. To[k] = IF q.ok THEN next ELSE q
    BY <1>4
  <2>8. ReadsBack(q, image, at, p, before)
    BY <1>6
  <2> HIDE DEF p, q, o, type, x, next, before, now
  <2>9. q = Value(place % AddrMod, before) => ReadsBack(next, image, place, s[k], now)
    <3> SUFFICES ASSUME q = Value(place % AddrMod, before)
                 PROVE  ReadsBack(next, image, place, s[k], now)
      OBVIOUS
    <3>1. q.vm = place % AddrMod /\ q.value = before
      BY Parts
    <3>2. SamePlace(q.vm, place)
      BY <2>1, <3>1, SamePlaces
    <3> HIDE DEF place
    <3>3. ReadsBack(x, image, place, s[k], o)
      BY <2>1, <2>2, <2>3, <2>4, <3>2, PieceReads DEF x
    <3>4. CASE Covers(image, place, s[k])
      <4>1. x = Value((place + Len(s[k])) % AddrMod, o)
        BY <3>3, <3>4 DEF ReadsBack
      <4>2. x.ok = TRUE /\ x.vm = (place + Len(s[k])) % AddrMod /\ x.value = o
        BY <4>1, Parts
      <4>3. next = Value((place + Len(s[k])) % AddrMod, now)
        BY <2>5, <2>6, <3>1, <4>2
      <4> QED
        BY <3>4, <4>3 DEF ReadsBack
    <3>5. CASE ~ Covers(image, place, s[k])
      BY <2>6, <3>3, <3>5 DEF ReadsBack
    <3> QED
      BY <3>4, <3>5
  <2>10. ReadsBack(IF q.ok THEN next ELSE q, image, at, p \o s[k], now)
    BY <2>1, <2>2, <2>8, <2>9, ReadsOn DEF place
  <2> QED
    BY <1>5, <2>7, <2>10 DEF p, now
<1>7. Back(0)
  <2>1. g[0] = <<>> /\ Prefix(i.operands, 0) = <<>>
    BY <1>0, <1>2 DEF Joining, Prefix
  <2>2. at + Len(<<>>) = at
    OBVIOUS
  <2> QED
    BY <1>4, <2>1, <2>2, NothingLies DEF ReadsBack
<1> DEFINE Z == [k \in 0 .. n |-> IF Back(k) THEN {To[k]} ELSE {}]
<1>8. Back(n)
  <2> HIDE DEF Back
  <2>1. To[0] \in Z[0]
    BY <1>0, <1>7
  <2>2. \A k \in 1 .. n : To[k - 1] \in Z[k - 1] => To[k] \in Z[k]
    <3>1. \A k \in 1 .. n : k \in 0 .. n /\ k - 1 \in 0 .. n
      BY <1>0
    <3> QED
      BY <1>6, <3>1
  <2>3. \A k \in 0 .. n : To[k] \in Z[k]
    <3> HIDE DEF Z
    <3> QED
      BY <1>0, <2>1, <2>2, Kept
  <2>4. n \in 0 .. n
    BY <1>0
  <2> QED
    BY <2>3, <2>4
<1>9. Prefix(i.operands, n) = i.operands
  BY <1>0 DEF Prefix
<1>10. g[n] \in Seq(Byte)
  BY <1>0, <1>1, <1>2 DEF Joining
<1> QED
  BY <1>1, <1>2, <1>4, <1>8, <1>9, <1>10

-----------------------------------------------------------------------------
(* The forms of instructions.                                              *)

LEMMA FieldsOf ==
  ASSUME NEW p \in 0 .. 3, NEW q \in 0 .. 3, NEW r \in 0 .. 3, NEW s \in 0 .. 3, NEW t,
         t = 64 * p + 16 * q + 4 * r + s
  PROVE  /\ t \in Byte
         /\ TypeField(t, 1) = p /\ TypeField(t, 2) = q /\ TypeField(t, 3) = r /\ TypeField(t, 4) = s
<1>1. 4 ^ (4 - 1) = 64 /\ 4 ^ (4 - 2) = 16 /\ 4 ^ (4 - 3) = 4 /\ 4 ^ (4 - 4) = 1
  OBVIOUS
<1>2. /\ (t \div 64) % 4 = p /\ (t \div 16) % 4 = q /\ (t \div 4) % 4 = r /\ (t \div 1) % 4 = s
      /\ t \in Int /\ 0 <= t /\ t <= 255
  OBVIOUS
<1>3. t \in Byte
  BY <1>2, ByteIs
<1> QED
  BY <1>1, <1>2, <1>3 DEF TypeField

LEMMA TypesReadBack ==
  ASSUME NEW types \in Seq(OperandType), Len(types) <= 4, NEW b,
         \A k \in 1 .. Len(types) : TypeField(b, k) = TypeBits(types[k]),
         Len(types) < 4 => TypeField(b, Len(types) + 1) = 3
  PROVE  VarTypes(b) = types
<1> DEFINE n == Len(types)
           m == 4
           Is(last) == /\ last = m \/ TypeField(b, last + 1) = 3
                       /\ \A k \in 0 .. last - 1 : ~ (TypeField(b, k + 1) = 3)
           last == Passes(m, LAMBDA k : TypeField(b, k + 1) = 3)
<1>1. last = CHOOSE k \in 0 .. m : Is(k)
  BY DEF Passes
<1>2. VarTypes(b) = [k \in 1 .. last |-> decode_operand_type(TypeField(b, k))]
  BY DEF VarTypes
<1>3. \A type \in OperandType : TypeBits(type) # 3 /\ decode_operand_type(TypeBits(type)) = type
  BY DEF OperandType, TypeBits, decode_operand_type
<1>4. n \in Nat /\ n <= m /\ m \in Nat /\ \A k \in 1 .. n : types[k] \in OperandType
  OBVIOUS
<1>5. n < m => TypeField(b, n + 1) = 3
  OBVIOUS
<1>6. types = [k \in 1 .. n |-> types[k]]
  OBVIOUS
<1>7. \A k \in 1 .. n : TypeField(b, k) = TypeBits(types[k])
  OBVIOUS
<1> HIDE DEF n, m, last
<1>13. n \in 0 .. m
  BY <1>4
<1>8. \A k \in 0 .. n - 1 : ~ (TypeField(b, k + 1) = 3)
  <2>1. \A k \in 0 .. n - 1 : k + 1 \in 1 .. n
    BY <1>4
  <2> QED
    BY <2>1, <1>3, <1>4, <1>7
<1>9. Is(n)
  BY <1>4, <1>5, <1>8
<1>10. \A k \in 0 .. m : Is(k) => k = n
  <2> SUFFICES ASSUME NEW k \in 0 .. m, Is(k), k # n PROVE FALSE
    OBVIOUS
  <2>1. CASE k < n
    <3>1. k \in 0 .. n - 1 /\ k # m
      BY <2>1, <1>4
    <3> QED
      BY <3>1, <1>8
  <2>2. CASE n < k
    <3>1. n \in 0 .. k - 1 /\ n # m
      BY <2>2, <1>4
    <3> QED
      BY <3>1, <1>5, <1>4, <2>2
  <2> QED
    BY <2>1, <2>2, <1>4
<1> HIDE DEF Is
<1>11. last = n
  BY <1>1, <1>13, <1>9, <1>10
<1>12. \A k \in 1 .. n : decode_operand_type(TypeField(b, k)) = types[k]
  BY <1>3, <1>4, <1>7
<1> QED
  BY <1>2, <1>6, <1>11, <1>12

FormOf(i) == [category |-> i.category, opcode |-> i.opcode, types |-> i.types]
FormReads(image, i, b, rest) ==
  \A at \in Nat : Lies(image, at, rest) =>
    ReadsBack(DecodeForm(image, at % AddrMod, b), image, at, rest, FormOf(i))

LEMMA WithoutMore ==
  ASSUME NEW image, NEW i, NEW b, \A at : DecodeForm(image, at, b) = Value(at, FormOf(i))
  PROVE  FormReads(image, i, b, <<>>)
<1>1. \A at \in Nat : at + Len(<<>>) = at
  OBVIOUS
<1> QED
  BY <1>1, NothingLies DEF FormReads, ReadsBack

LEMMA LongReadsBack ==
  ASSUME NEW size \in Nat, NEW image \in Image(size), NEW i, FormFits(i), OperandsFit(i),
         i.form = "long"
  PROVE  \E b \in Byte : OpcodeBytes(i) = <<b>> /\ FormReads(image, i, b, <<>>)
<1> DEFINE v(k) == IF i.types[k] = "variable" THEN 1 ELSE 0
           p == v(1)
           q == v(2)
           o == i.opcode
           b == 64 * p + 32 * q + o
           types == <<SmallOr(Bit(b, 6)), SmallOr(Bit(b, 5))>>
           long == [category |-> "two", opcode |-> b % 32, types |-> types]
<1>1. /\ i.category = "two" /\ i.types \in Seq(OperandType) /\ Len(i.types) = 2
      /\ \A k \in {1, 2} : i.types[k] # "large"
      /\ o \in 0 .. 31
  BY DEF FormFits, OperandsFit, OperandType
<1>2. OpcodeBytes(i) = <<b>>
  BY DEF OpcodeBytes
<1>3. p \in {0, 1} /\ q \in {0, 1}
  OBVIOUS
<1>4. 2 ^ 6 = 64 /\ 2 ^ 5 = 32
  OBVIOUS
<1>5. i.types = <<SmallOr(p), SmallOr(q)>>
  <2>1. i.types[1] \in OperandType /\ i.types[2] \in OperandType
    BY <1>1
  <2>2. i.types[1] = SmallOr(p) /\ i.types[2] = SmallOr(q)
    BY <1>1, <2>1 DEF OperandType, SmallOr
  <2>3. i.types = <<i.types[1], i.types[2]>>
    BY <1>1
  <2> QED
    BY <2>2, <2>3
<1> HIDE DEF p, q, o
<1>6. /\ b \in Int /\ 0 <= b /\ b <= 127 /\ b % 32 = o
      /\ (b \div 64) % 2 = p /\ (b \div 32) % 2 = q
  BY <1>1, <1>3
<1> DEFINE B == b
<1>7. B \in Byte
  BY <1>6, ByteIs
<1>8. types = i.types
  BY <1>4, <1>5, <1>6 DEF Bit
<1>9. long = FormOf(i)
  BY <1>1, <1>6, <1>8 DEF FormOf, o
<1>10. \A at : DecodeForm(image, at, B) = Value(at, long)
  <2>1. ~ (B >= 192) /\ ~ (B >= 128)
    BY <1>6
  <2> QED
    BY <2>1 DEF DecodeForm
<1> HIDE DEF long, types, b
<1>11. FormReads(image, i, B, <<>>)
  BY <1>9, <1>10, WithoutMore
<1> QED
  BY <1>2, <1>7, <1>11

LEMMA ShortReadsBack ==
  ASSUME NEW size \in Nat, NEW image \in Image(size), NEW i, FormFits(i), OperandsFit(i),
         i.form = "short"
  PROVE  \E b \in Byte : OpcodeBytes(i) = <<b>> /\ FormReads(image, i, b, <<>>)
<1> DEFINE n == Len(i.types)
           field == IF i.types = <<>> THEN 3 ELSE TypeBits(i.types[1])
           o == i.opcode
           b == 128 + 16 * field + o
           bits == (b \div 16) % 4
           short == [ category |-> IF bits = 3 THEN "zero" ELSE "one", opcode |-> b % 16,
                      types |-> IF bits = 3 THEN <<>> ELSE <<decode_operand_type(bits)>> ]
<1>1. /\ i.category = (IF i.types = <<>> THEN "zero" ELSE "one")
      /\ i.types \in Seq(OperandType) /\ n <= 1 /\ n \in Nat
      /\ o \in 0 .. 15
  <2>1. /\ i.category = (IF i.types = <<>> THEN "zero" ELSE "one") /\ n <= 1
        /\ o \in 0 .. 31 /\ o <= 15
    BY DEF FormFits
  <2>2. i.types \in Seq(OperandType)
    BY DEF OperandsFit, OperandType
  <2> HIDE DEF o
  <2>3. o \in 0 .. 15
    BY <2>1
  <2> QED
    BY <2>1, <2>2, <2>3
<1>2. i.types # <<>> => n = 1 /\ i.types[1] \in OperandType /\ i.types = <<i.types[1]>>
  <2>1. \A t \in Seq(OperandType) : t # <<>> /\ Len(t) <= 1 =>
          Len(t) = 1 /\ t[1] \in OperandType /\ t = <<t[1]>>
    <3> SUFFICES ASSUME NEW t \in Seq(OperandType), t # <<>>, Len(t) <= 1
                 PROVE  Len(t) = 1 /\ t[1] \in OperandType /\ t = <<t[1]>>
      OBVIOUS
    <3>1. Len(t) \in Nat \ {0}
      BY EmptySeq, Zenon
    <3> DEFINE m == Len(t)
    <3>4. m = 1
      <4>1. m \in Nat \ {0} /\ m <= 1
        BY <3>1
      <4> HIDE DEF m
      <4> QED
        BY <4>1
    <3>2. Len(t) = 1 /\ t[1] \in OperandType
      BY <3>4, ElementOfSeq
    <3>3. t = [k \in 1 .. 1 |-> t[k]]
      BY <3>2
    <3> QED
      BY <3>2, <3>3
  <2> QED
    BY <1>1, <2>1
<1>3. OpcodeBytes(i) = <<b>>
  <2>1. i.types # <<>> => 1 <= Len(i.types)
    BY <1>2
  <2> QED
    BY <2>1 DEF OpcodeBytes
<1>4. \A type \in OperandType : /\ TypeBits(type) \in {0, 1, 2}
                                /\ decode_operand_type(TypeBits(type)) = type
  BY DEF OperandType, TypeBits, decode_operand_type
<1>5. field \in {0, 1, 2, 3} /\ (field = 3 <=> i.types = <<>>)
      /\ (field # 3 => i.types = <<decode_operand_type(field)>>)
  BY <1>2, <1>4
<1> HIDE DEF field, o, n
<1>6. /\ b \in Int /\ 128 <= b /\ b <= 191 /\ b % 16 = o /\ bits = field
  BY <1>1, <1>5
<1>7. b \in Byte
  BY <1>6, ByteIs
<1> HIDE DEF b, bits
<1>8. short = FormOf(i)
  BY <1>1, <1>5, <1>6 DEF FormOf, o
<1>9. \A at : DecodeForm(image, at, b) = Value(at, short)
  <2>1. ~ (b >= 192) /\ b >= 128
    BY <1>6
  <2> QED
    BY <2>1 DEF DecodeForm, bits
<1> HIDE DEF short
<1>10. FormReads(image, i, b, <<>>)
  BY <1>8, <1>9, WithoutMore
<1> QED
  BY <1>3, <1>7, <1>10

LEMMA VariableReadsBack ==
  ASSUME NEW size \in Nat, NEW image \in Image(size), NEW i, FormFits(i), OperandsFit(i),
         i.form = "variable"
  PROVE  \E b, t \in Byte : OpcodeBytes(i) = <<b, t>> /\ FormReads(image, i, b, <<t>>)
<1> DEFINE n == Len(i.types)
           field(k) == CASE k <= n -> TypeBits(i.types[k])
                         [] k = n + 1 -> 3
                         [] OTHER -> i.fill
           o == i.opcode
           v == IF i.category = "var" THEN 1 ELSE 0
           b == 192 + (IF i.category = "var" THEN 32 ELSE 0) + o
           t == 64 * field(1) + 16 * field(2) + 4 * field(3) + field(4)
           form(h) == [ category |-> IF Bit(b, 5) = 1 THEN "var" ELSE "two",
                        opcode |-> b % 32, types |-> VarTypes(h.value) ]
           op(h) == Value(h.vm, form(h))
<1>1. /\ i.category \in {"two", "var"} /\ i.types \in Seq(OperandType) /\ n <= 4 /\ n \in Nat
      /\ o \in 0 .. 31 /\ i.fill \in 0 .. 3
  BY DEF FormFits, OperandsFit, OperandType
<1>2. OpcodeBytes(i) = <<b, t>>
  BY DEF OpcodeBytes
<1>3. \A type \in OperandType : TypeBits(type) \in 0 .. 3
  BY DEF OperandType, TypeBits
<1>4. \A k \in 1 .. n : i.types[k] \in OperandType
  BY <1>1
<1> HIDE DEF n
<1>5. ASSUME NEW k \in 1 .. 4
      PROVE  /\ field(k) \in 0 .. 3
             /\ k <= n => field(k) = TypeBits(i.types[k])
             /\ k = n + 1 => field(k) = 3
  <2>1. CASE k <= n
    <3>1. k \in 1 .. n /\ k # n + 1
      BY <2>1, <1>1
    <3>2. field(k) = TypeBits(i.types[k])
      BY <2>1, <3>1
    <3> QED
      BY <3>1, <3>2, <1>3, <1>4
  <2>2. CASE k = n + 1
    <3>1. ~ (k <= n)
      BY <2>2, <1>1
    <3> QED
      BY <3>1, <2>2
  <2>3. CASE ~ (k <= n) /\ k # n + 1
    BY <2>3, <1>1
  <2> QED
    BY <2>1, <2>2, <2>3
<1>6. field(1) \in 0 .. 3 /\ field(2) \in 0 .. 3 /\ field(3) \in 0 .. 3 /\ field(4) \in 0 .. 3
  BY <1>5
<1> HIDE DEF field
<1>7. /\ t \in Byte /\ TypeField(t, 1) = field(1) /\ TypeField(t, 2) = field(2)
      /\ TypeField(t, 3) = field(3) /\ TypeField(t, 4) = field(4)
  BY <1>6, FieldsOf
<1> HIDE DEF t
<1>8. \A k \in 1 .. 4 : TypeField(t, k) = field(k)
  <2>1. \A k \in 1 .. 4 : k = 1 \/ k = 2 \/ k = 3 \/ k = 4
    OBVIOUS
  <2> QED
    BY <2>1, <1>7
<1>9. VarTypes(t) = i.types
  <2>1. \A k \in 1 .. n : TypeField(t, k) = TypeBits(i.types[k])
    <3>1. \A k \in 1 .. n : k \in 1 .. 4 /\ k <= n
      BY <1>1
    <3> QED
      BY <3>1, <1>5, <1>8
  <2>2. n < 4 => TypeField(t, n + 1) = 3
    <3>1. n < 4 => n + 1 \in 1 .. 4
      BY <1>1
    <3> QED
      BY <3>1, <1>5, <1>8
  <2> QED
    BY <1>1, <2>1, <2>2, TypesReadBack DEF n
<1>10. 2 ^ 5 = 32
  OBVIOUS
<1>11. /\ b \in Int /\ 192 <= b /\ b <= 255 /\ b % 32 = o
       /\ (b \div 32) % 2 = v
  <2> HIDE DEF o
  <2>1. CASE i.category = "var"
    <3>1. b = 224 + o /\ v = 1
      BY <2>1, <1>1
    <3> HIDE DEF b, v
    <3> QED
      BY <3>1, <1>1
  <2>2. CASE i.category # "var"
    <3>1. b = 192 + o /\ v = 0
      BY <2>2, <1>1
    <3> HIDE DEF b, v
    <3> QED
      BY <3>1, <1>1
  <2> QED
    BY <2>1, <2>2
<1> HIDE DEF b
<1>12. b \in Byte
  BY <1>11, ByteIs
<1>13. ASSUME NEW at \in Nat, Lies(image, at, <<t>>)
       PROVE  ReadsBack(DecodeForm(image, at % AddrMod, b), image, at, <<t>>, FormOf(i))
  <2> DEFINE h == read_byte(image, at % AddrMod)
             next == (at + Len(<<t>>)) % AddrMod
  <2>1. DecodeForm(image, at % AddrMod, b) = AndThen(h, LAMBDA x : op(x))
    <3>1. b >= 192
      BY <1>11
    <3> QED
      BY <3>1 DEF DecodeForm
  <2>2. ReadsBack(h, image, at, <<t>>, t)
    BY <1>13, SamePlaces, ByteReads
  <2> HIDE DEF h, op
  <2>3. AndThen(h, LAMBDA x : op(x)) = IF h.ok THEN op(h) ELSE h
    BY DEF AndThen, Then
  <2>4. CASE Covers(image, at, <<t>>)
    <3>1. h = Value(next, t)
      BY <2>2, <2>4 DEF ReadsBack
    <3>2. h.ok = TRUE /\ h.vm = next /\ h.value = t
      BY <3>1, Parts
    <3> HIDE DEF next
    <3>3. Bit(b, 5) = 1 <=> i.category = "var"
      BY <1>10, <1>11 DEF Bit
    <3>4. form(h) = FormOf(i)
      BY <1>1, <1>9, <1>11, <3>2, <3>3 DEF FormOf
    <3>5. op(h) = Value(next, FormOf(i))
      BY <3>2, <3>4 DEF op
    <3> QED
      BY <2>1, <2>3, <2>4, <3>2, <3>5 DEF ReadsBack, next
  <2>5. CASE ~ Covers(image, at, <<t>>)
    BY <2>1, <2>2, <2>3, <2>5 DEF ReadsBack
  <2> QED
    BY <2>4, <2>5
<1> QED
  BY <1>2, <1>7, <1>12, <1>13 DEF FormReads

LEMMA FormReadsBack ==
  ASSUME NEW size \in Nat, NEW image \in Image(size), NEW i, FormFits(i), OperandsFit(i)
  PROVE  \E b \in Byte, rest \in Seq(Byte) :
           OpcodeBytes(i) = <<b>> \o rest /\ FormReads(image, i, b, rest)
<1>1. CASE i.form \in {"long", "short"}
  <2>1. PICK b \in Byte : OpcodeBytes(i) = <<b>> /\ FormReads(image, i, b, <<>>)
    BY <1>1, LongReadsBack, ShortReadsBack
  <2>2. <<b>> = <<b>> \o <<>> /\ <<>> \in Seq(Byte)
    OBVIOUS
  <2> QED
    BY <2>1, <2>2
<1>2. CASE i.form = "variable"
  <2>1. PICK b, t \in Byte : OpcodeBytes(i) = <<b, t>> /\ FormReads(image, i, b, <<t>>)
    BY <1>2, VariableReadsBack
  <2>2. <<b, t>> = <<b>> \o <<t>> /\ <<t>> \in Seq(Byte)
    BY PairIs
  <2> QED
    BY <2>1, <2>2
<1> QED
  BY <1>1, <1>2 DEF FormFits

-----------------------------------------------------------------------------
(* Branches and texts.                                                     *)

\* What a compiler writes for a branch.
Sense(on_true) == IF on_true THEN 128 ELSE 0
NearByte(on_true, d) == Sense(on_true) + 64 + (d % 2 ^ 14)
HighByte(on_true, d) == Sense(on_true) + ((d % 2 ^ 14) \div 256)
LowByte(d) == (d % 2 ^ 14) % 256

LEMMA NearIs ==
  ASSUME NEW sense \in BOOLEAN, NEW o \in Distances(FALSE), NEW b, b = NearByte(sense, o)
  PROVE  /\ b \in Byte /\ Bit(b, 6) = 1 /\ b % 64 = o /\ (Bit(b, 7) = 1 <=> sense)
<1>1. 2 ^ 7 = 128 /\ 2 ^ 6 = 64 /\ 2 ^ 14 = 16384
  OBVIOUS
<1>2. \A x \in 0 .. 63 : x \in Int /\ 0 <= x /\ x <= 63
  OBVIOUS
<1>3. o \in Int /\ 0 <= o /\ o <= 63
  BY <1>2 DEF Distances
<1> DEFINE s == Sense(sense)
<1>4. s = IF sense THEN 128 ELSE 0
  BY DEF Sense
<1>5. b = s + 64 + (o % 16384)
  BY <1>1 DEF NearByte
<1> HIDE DEF s
<1>6. o % 16384 = o
  BY <1>3
<1>7. b = s + 64 + o /\ s \in {0, 128}
  BY <1>4, <1>5, <1>6
<1>8. /\ b \in Int /\ 0 <= b /\ b <= 255 /\ (b \div 64) % 2 = 1 /\ b % 64 = o
      /\ (b \div 128) % 2 = 1 <=> s = 128
  BY <1>3, <1>7
<1>9. b \in Byte
  BY <1>8, ByteIs
<1> QED
  BY <1>1, <1>4, <1>8, <1>9 DEF Bit

\* The first of two bytes says how far and holds the high bits of the distance.
IsFar(sense, d, b, l) ==
  /\ b \in Byte /\ l \in Byte /\ Bit(b, 6) # 1 /\ (Bit(b, 7) = 1 <=> sense)
  /\ d = IF b % 64 >= 32 THEN (256 * (b % 64) + l) - 2 ^ 14 ELSE 256 * (b % 64) + l

LEMMA FarIs ==
  ASSUME NEW sense \in BOOLEAN, NEW d \in Distances(TRUE), NEW b, NEW l,
         b = HighByte(sense, d), l = LowByte(d)
  PROVE  IsFar(sense, d, b, l)
<1>1. 2 ^ 7 = 128 /\ 2 ^ 6 = 64 /\ 2 ^ 14 = 16384
  OBVIOUS
<1>2. \A x \in -8192 .. 8191 : x \in Int /\ -8192 <= x /\ x <= 8191
  OBVIOUS
<1>3. d \in Int /\ -8192 <= d /\ d <= 8191
  BY <1>2 DEF Distances
<1> DEFINE s == Sense(sense)
           o == d % 16384
           e == o \div 256
<1>4. s = IF sense THEN 128 ELSE 0
  BY DEF Sense
<1>5. b = s + e /\ l = o % 256
  BY <1>1 DEF HighByte, LowByte
<1>6. o \in Int /\ 0 <= o /\ o <= 16383 /\ d = IF o >= 8192 THEN o - 16384 ELSE o
  BY <1>3
<1> HIDE DEF s, o
<1>7. /\ e \in Int /\ 0 <= e /\ e <= 63 /\ l \in Int /\ 0 <= l /\ l <= 255 /\ 256 * e + l = o
      /\ (e >= 32 <=> o >= 8192)
  BY <1>5, <1>6
<1> HIDE DEF e
<1>8. s \in {0, 128}
  BY <1>4
<1>9. /\ b \in Int /\ 0 <= b /\ b <= 255 /\ (b \div 64) % 2 = 0 /\ b % 64 = e
      /\ (b \div 128) % 2 = 1 <=> s = 128
  BY <1>5, <1>7, <1>8
<1>10. b \in Byte /\ l \in Byte
  BY <1>7, <1>9, ByteIs
<1>11. Bit(b, 6) # 1 /\ (Bit(b, 7) = 1 <=> sense)
  BY <1>1, <1>4, <1>9 DEF Bit
<1> QED
  BY <1>1, <1>6, <1>7, <1>9, <1>10, <1>11 DEF IsFar

LEMMA ShortBranch ==
  ASSUME NEW size \in Nat, NEW image \in Image(size), NEW at \in Nat,
         NEW sense \in BOOLEAN, NEW o \in Distances(FALSE), NEW b, b = NearByte(sense, o),
         Lies(image, at, <<b>>)
  PROVE  /\ b \in Byte
         /\ ReadsBack(ReadBranch(image, at % AddrMod), image, at, <<b>>,
                      [on_true |-> sense, offset |-> o])
<1> DEFINE c == at % AddrMod
           h == read_byte(image, c)
           on_true(r) == Bit(r.value, 7) = 1
           high(r) == r.value % 64
           short(r) == Value(r.vm, [on_true |-> on_true(r), offset |-> high(r)])
           long(r) == AndThen(read_byte(image, r.vm), LAMBDA l :
                        LET offset == 256 * high(r) + l.value
                        IN Value(l.vm, [ on_true |-> on_true(r),
                             offset |-> IF high(r) >= 32 THEN offset - 2 ^ 14 ELSE offset ]))
           op(r) == IF Bit(r.value, 6) = 1 THEN short(r) ELSE long(r)
           next == (at + Len(<<b>>)) % AddrMod
           v == [on_true |-> sense, offset |-> o]
<1>1. ReadBranch(image, c) = AndThen(h, LAMBDA r : op(r))
  BY DEF ReadBranch
<1>4. b \in Byte /\ Bit(b, 6) = 1 /\ b % 64 = o /\ (Bit(b, 7) = 1 <=> sense)
  BY NearIs
<1>5. ReadsBack(h, image, at, <<b>>, b)
  BY SamePlaces, ByteReads
<1> HIDE DEF h, op, next
<1>6. AndThen(h, LAMBDA r : op(r)) = IF h.ok THEN op(h) ELSE h
  BY DEF AndThen, Then
<1>7. CASE Covers(image, at, <<b>>)
  <2>1. h = Value(next, b)
    BY <1>5, <1>7 DEF ReadsBack, next
  <2>2. h.ok = TRUE /\ h.vm = next /\ h.value = b
    BY <2>1, Parts
  <2>3. on_true(h) = sense /\ high(h) = o
    BY <1>4, <2>2
  <2>4. Bit(h.value, 6) = 1
    BY <1>4, <2>2
  <2> HIDE DEF on_true, high, long
  <2>5. op(h) = Value(next, v)
    BY <2>2, <2>3, <2>4 DEF op
  <2> QED
    BY <1>1, <1>4, <1>6, <1>7, <2>2, <2>5 DEF ReadsBack, next
<1>8. CASE ~ Covers(image, at, <<b>>)
  BY <1>1, <1>4, <1>5, <1>6, <1>8 DEF ReadsBack
<1> QED
  BY <1>7, <1>8

LEMMA LongBranch ==
  ASSUME NEW size \in Nat, NEW image \in Image(size), NEW at \in Nat,
         NEW sense \in BOOLEAN, NEW d \in Distances(TRUE), NEW b, NEW l,
         b = HighByte(sense, d), l = LowByte(d),
         Lies(image, at, <<b, l>>)
  PROVE  /\ b \in Byte /\ l \in Byte
         /\ ReadsBack(ReadBranch(image, at % AddrMod), image, at, <<b, l>>,
                      [on_true |-> sense, offset |-> d])
<1> DEFINE c == at % AddrMod
           h == read_byte(image, c)
           on_true(r) == Bit(r.value, 7) = 1
           high(r) == r.value % 64
           short(r) == Value(r.vm, [on_true |-> on_true(r), offset |-> high(r)])
           g(r) == read_byte(image, r.vm)
           offset(r, q) == 256 * high(r) + q.value
           both(r, q) == Value(q.vm, [ on_true |-> on_true(r),
                           offset |-> IF high(r) >= 32 THEN offset(r, q) - 2 ^ 14 ELSE offset(r, q) ])
           long(r) == AndThen(g(r), LAMBDA q : both(r, q))
           op(r) == IF Bit(r.value, 6) = 1 THEN short(r) ELSE long(r)
           mid == (at + Len(<<b>>)) % AddrMod
           place == at + Len(<<b>>)
           v == [on_true |-> sense, offset |-> d]
<1>1. ReadBranch(image, c) = AndThen(h, LAMBDA r : op(r))
  BY DEF ReadBranch
<1>2. IsFar(sense, d, b, l)
  BY FarIs, Zenon
<1>7. /\ b \in Byte /\ l \in Byte /\ Bit(b, 6) # 1 /\ (Bit(b, 7) = 1 <=> sense)
      /\ d = IF b % 64 >= 32 THEN (256 * (b % 64) + l) - 2 ^ 14 ELSE 256 * (b % 64) + l
  BY <1>2 DEF IsFar
<1>8. <<b, l>> = <<b>> \o <<l>> /\ <<b>> \in Seq(Byte) /\ <<l>> \in Seq(Byte)
  BY <1>7, PairIs
<1>9. Lies(image, at, <<b>>) /\ Lies(image, place, <<l>>)
  <2> DEFINE p == <<b>>
             q == <<l>>
  <2>1. Lies(image, at, p \o q)
    BY <1>8
  <2> HIDE DEF p, q
  <2>2. Lies(image, at, p) /\ Lies(image, at + Len(p), q)
    BY <1>8, <2>1, Joins DEF p, q
  <2> QED
    BY <2>2 DEF p, q
<1>10. ReadsBack(h, image, at, <<b>>, b)
  BY <1>9, SamePlaces, ByteReads
<1>11. place \in Nat
  OBVIOUS
<1> HIDE DEF h, op, place
<1>12. AndThen(h, LAMBDA r : op(r)) = IF h.ok THEN op(h) ELSE h
  BY DEF AndThen, Then
<1>13. ASSUME h = Value(place % AddrMod, b)
       PROVE  ReadsBack(op(h), image, place, <<l>>, v)
  <2>1. h.vm = place % AddrMod /\ h.value = b
    BY <1>13, Parts
  <2>2. on_true(h) = sense /\ high(h) = b % 64 /\ Bit(h.value, 6) # 1
    BY <1>7, <2>1
  <2>3. ReadsBack(g(h), image, place, <<l>>, l)
    BY <1>9, <1>11, <2>1, SamePlaces, ByteReads
  <2> HIDE DEF on_true, high, short, g
  <2> DEFINE x == g(h)
             next == (place + Len(<<l>>)) % AddrMod
  <2>4. op(h) = long(h)
    BY <2>2 DEF op
  <2> HIDE DEF both
  <2>5. long(h) = IF x.ok THEN both(h, x) ELSE x
    BY DEF AndThen, Then
  <2> HIDE DEF long, x
  <2>6. CASE Covers(image, place, <<l>>)
    <3>1. x = Value(next, l)
      BY <2>3, <2>6 DEF ReadsBack, x
    <3>2. x.ok = TRUE /\ x.vm = next /\ x.value = l
      BY <3>1, Parts
    <3>3. offset(h, x) = 256 * (b % 64) + l
      BY <2>2, <3>2
    <3> HIDE DEF offset, next
    <3>4. (IF high(h) >= 32 THEN offset(h, x) - 2 ^ 14 ELSE offset(h, x)) = d
      BY <1>7, <2>2, <3>3
    <3>5. both(h, x) = Value(next, v)
      BY <2>2, <3>2, <3>4 DEF both
    <3> QED
      BY <2>4, <2>5, <2>6, <3>2, <3>5 DEF ReadsBack, next
  <2>7. CASE ~ Covers(image, place, <<l>>)
    BY <2>3, <2>4, <2>5, <2>7 DEF ReadsBack, x
  <2> QED
    BY <2>6, <2>7
<1>14. ReadsBack(IF h.ok THEN op(h) ELSE h, image, at, <<b>> \o <<l>>, v)
  <2> DEFINE p == <<b>>
             q == <<l>>
             x == op(h)
  <2>1. /\ p \in Seq(Byte) /\ q \in Seq(Byte) /\ ReadsBack(h, image, at, p, b)
        /\ h = Value((at + Len(p)) % AddrMod, b) => ReadsBack(x, image, at + Len(p), q, v)
    BY <1>8, <1>10, <1>13 DEF place
  <2> HIDE DEF p, q, x, v
  <2>2. ReadsBack(IF h.ok THEN x ELSE h, image, at, p \o q, v)
    BY <2>1, ReadsOn
  <2> QED
    BY <2>2 DEF p, q, x
<1> QED
  BY <1>1, <1>7, <1>8, <1>12, <1>14

LEMMA BranchReadsBack ==
  ASSUME NEW size \in Nat, NEW image \in Image(size), NEW at \in Nat, NEW i, BranchFits(i),
         Lies(image, at, BranchBytes(i))
  PROVE  /\ BranchBytes(i) \in Seq(Byte)
         /\ ReadsBack(ReadBranch(image, at % AddrMod), image, at, BranchBytes(i), i.branch)
<1> DEFINE sense == i.branch.on_true
           d == i.branch.offset
<1>1. /\ sense \in BOOLEAN /\ i.branch = [on_true |-> sense, offset |-> d]
      /\ d \in Distances(i.wide) /\ i.wide \in BOOLEAN
  BY DEF BranchFits
<1>2. BranchBytes(i) = IF i.wide THEN <<HighByte(sense, d), LowByte(d)>>
                       ELSE <<NearByte(sense, d)>>
  BY DEF BranchBytes, HighByte, LowByte, NearByte, Sense
<1> HIDE DEF sense, d
<1>3. CASE i.wide
  <2> DEFINE b == HighByte(sense, d)
             l == LowByte(d)
  <2>1. BranchBytes(i) = <<b, l>> /\ d \in Distances(TRUE)
    BY <1>1, <1>2, <1>3
  <2>2. /\ b \in Byte /\ l \in Byte
        /\ ReadsBack(ReadBranch(image, at % AddrMod), image, at, <<b, l>>,
                     [on_true |-> sense, offset |-> d])
    BY <1>1, <2>1, LongBranch, ZenonT(40)
  <2> QED
    BY <1>1, <2>1, <2>2
<1>4. CASE ~ i.wide
  <2> DEFINE b == NearByte(sense, d)
  <2>1. BranchBytes(i) = <<b>> /\ d \in Distances(FALSE)
    BY <1>1, <1>2, <1>4
  <2>2. /\ b \in Byte
        /\ ReadsBack(ReadBranch(image, at % AddrMod), image, at, <<b>>,
                     [on_true |-> sense, offset |-> d])
    BY <1>1, <2>1, ShortBranch
  <2> QED
    BY <1>1, <2>1, <2>2
<1> QED
  BY <1>3, <1>4

\* What a compiler writes for a text: words of three characters each.
ZcharAt(z, k) == IF k <= Len(z) THEN z[k] ELSE 5
WordCount(z) == IF z = <<>> THEN 1 ELSE (Len(z) + 2) \div 3
MarkOf(z, n) == IF n = WordCount(z) THEN 2 ^ 15 ELSE 0
TextAt(z, n) ==
  1024 * ZcharAt(z, 3 * n - 2) + 32 * ZcharAt(z, 3 * n - 1) + ZcharAt(z, 3 * n) + MarkOf(z, n)
TextPieces(z) ==
  [n \in 1 .. WordCount(z) |-> <<TextAt(z, n) \div 256, TextAt(z, n) % 256>>]
Zchars == Seq(0 .. 31)

LEMMA TextAtIs ==
  ASSUME NEW z \in Zchars
  PROVE  /\ WordCount(z) \in Nat \ {0}
         /\ \A n \in 1 .. WordCount(z) :
              /\ TextAt(z, n) \in Bits /\ TextAt(z, n) \div 256 \in Byte /\ TextAt(z, n) % 256 \in Byte
              /\ 256 * (TextAt(z, n) \div 256) + (TextAt(z, n) % 256) = TextAt(z, n)
              /\ TextAt(z, n) >= 2 ^ 15 <=> n = WordCount(z)
<1>1. WordCount(z) \in Nat \ {0}
  <2> DEFINE l == Len(z)
  <2>1. z \in Seq(0 .. 31)
    BY DEF Zchars
  <2>2. l \in Nat /\ (z # <<>> => l # 0)
    BY <2>1
  <2>3. WordCount(z) = IF z = <<>> THEN 1 ELSE (l + 2) \div 3
    BY DEF WordCount
  <2> HIDE DEF l
  <2>4. l # 0 => (l + 2) \div 3 \in Nat \ {0}
    BY <2>2
  <2> QED
    BY <2>2, <2>3, <2>4
<1>2. 2 ^ 15 = 32768
  OBVIOUS
<1>3. \A k \in Nat \ {0} : ZcharAt(z, k) \in Int /\ 0 <= ZcharAt(z, k) /\ ZcharAt(z, k) <= 31
  <2>1. \A c \in 0 .. 31 : c \in Int /\ 0 <= c /\ c <= 31
    OBVIOUS
  <2> SUFFICES ASSUME NEW k \in Nat \ {0}
               PROVE  ZcharAt(z, k) \in Int /\ 0 <= ZcharAt(z, k) /\ ZcharAt(z, k) <= 31
    OBVIOUS
  <2>2. CASE k <= Len(z)
    <3>1. Len(z) \in Nat
      BY DEF Zchars
    <3>2. k \in 1 .. Len(z)
      BY <2>2, <3>1
    <3>3. z[k] \in 0 .. 31
      BY <3>2, ElementOfSeq DEF Zchars
    <3> QED
      BY <2>1, <2>2, <3>3 DEF ZcharAt
  <2>3. CASE ~ (k <= Len(z))
    BY <2>3 DEF ZcharAt
  <2> QED
    BY <2>2, <2>3
<1>4. ASSUME NEW n \in 1 .. WordCount(z)
      PROVE  /\ TextAt(z, n) \in Bits /\ TextAt(z, n) \div 256 \in Byte /\ TextAt(z, n) % 256 \in Byte
             /\ 256 * (TextAt(z, n) \div 256) + (TextAt(z, n) % 256) = TextAt(z, n)
             /\ TextAt(z, n) >= 2 ^ 15 <=> n = WordCount(z)
  <2> DEFINE p == ZcharAt(z, 3 * n - 2)
             q == ZcharAt(z, 3 * n - 1)
             r == ZcharAt(z, 3 * n)
             w == TextAt(z, n)
             mark == MarkOf(z, n)
             h == w \div 256
             l == w % 256
  <2>1. 3 * n - 2 \in Nat \ {0} /\ 3 * n - 1 \in Nat \ {0} /\ 3 * n \in Nat \ {0}
    BY <1>1
  <2>2. /\ p \in Int /\ 0 <= p /\ p <= 31 /\ q \in Int /\ 0 <= q /\ q <= 31
        /\ r \in Int /\ 0 <= r /\ r <= 31
    BY <1>3, <2>1
  <2>3. mark = IF n = WordCount(z) THEN 32768 ELSE 0
    BY <1>2 DEF MarkOf
  <2>4. w = 1024 * p + 32 * q + r + mark
    BY DEF TextAt
  <2> HIDE DEF p, q, r, mark, w
  <2>5. mark \in {0, 32768} /\ (mark = 32768 <=> n = WordCount(z))
    BY <2>3
  <2>6. w \in Int /\ 0 <= w /\ w <= 65535 /\ (w >= 32768 <=> mark = 32768)
    BY <2>2, <2>4, <2>5
  <2>7. /\ h \in Int /\ 0 <= h /\ h <= 255 /\ l \in Int /\ 0 <= l /\ l <= 255
        /\ 256 * h + l = w
    BY <2>6
  <2>8. w \in Bits /\ h \in Byte /\ l \in Byte
    BY <2>6, <2>7, WordIs, ByteIs
  <2> HIDE DEF h, l
  <2> QED
    BY <1>2, <2>5, <2>6, <2>7, <2>8 DEF h, l, w
<1> QED
  BY <1>1, <1>4

LEMMA PackedIs ==
  ASSUME NEW z \in Zchars
  PROVE  /\ TextPieces(z) \in Seq(Seq(Byte)) /\ Len(TextPieces(z)) = WordCount(z)
         /\ Packed(z) = FlattenSeq(TextPieces(z))
         /\ Packed(z) \in Seq(Byte) /\ Len(Packed(z)) = 2 * WordCount(z)
         /\ \E g : Joining(Byte, TextPieces(z), g) /\ Packed(z) = g[WordCount(z)]
                   /\ \A n \in 0 .. WordCount(z) : Len(g[n]) = 2 * n
<1> DEFINE W == WordCount(z)
           s == TextPieces(z)
           piece(n) == <<TextAt(z, n) \div 256, TextAt(z, n) % 256>>
<1>1. Packed(z) = FlattenSeq(s)
  BY DEF Packed, TextPieces, WordCount, TextAt, ZcharAt, MarkOf
<1>2. W \in Nat
  BY TextAtIs
<1>3. \A n \in 1 .. W : piece(n) \in Seq(Byte) /\ Len(piece(n)) = 2
  <2>1. \A x, y \in Byte : <<x, y>> \in Seq(Byte) /\ Len(<<x, y>>) = 2
    OBVIOUS
  <2> QED
    BY <2>1, TextAtIs
<1>4. s \in Seq(Seq(Byte)) /\ Len(s) = W /\ \A n \in 1 .. W : s[n] = piece(n)
  <2>1. s = [n \in 1 .. W |-> piece(n)]
    BY DEF TextPieces
  <2> HIDE DEF W, piece, s
  <2>2. s \in Seq(Seq(Byte)) /\ Len(s) = W
    BY <1>2, <1>3, <2>1
  <2> QED
    BY <2>1, <2>2
<1> HIDE DEF W, piece, s
<1>5. PICK g : Joining(Byte, s, g) /\ FlattenSeq(s) = g[W]
  BY <1>4, Flattened DEF Joining
<1> DEFINE Y == [n \in 0 .. W |-> {q \in Seq(Byte) : Len(q) = 2 * n}]
<1>6. \A n \in 1 .. W : g[n - 1] \in Y[n - 1] => g[n] \in Y[n]
  <2> SUFFICES ASSUME NEW n \in 1 .. W, g[n - 1] \in Y[n - 1] PROVE g[n] \in Y[n]
    OBVIOUS
  <2>1. n - 1 \in 0 .. W /\ n \in 0 .. W /\ n \in Nat
    BY <1>2
  <2>2. g[n - 1] \in Seq(Byte) /\ Len(g[n - 1]) = 2 * (n - 1)
    BY <2>1
  <2>3. g[n] = g[n - 1] \o s[n] /\ s[n] \in Seq(Byte) /\ Len(s[n]) = 2
    BY <1>3, <1>4, <1>5 DEF Joining
  <2>4. \A p, q \in Seq(Byte) : p \o q \in Seq(Byte) /\ Len(p \o q) = Len(p) + Len(q)
    OBVIOUS
  <2>5. g[n] \in Seq(Byte) /\ Len(g[n]) = Len(g[n - 1]) + Len(s[n])
    <3> HIDE DEF Y
    <3> QED
      BY <2>2, <2>3, <2>4, Zenon
  <2>6. Len(g[n]) = 2 * n
    BY <2>1, <2>2, <2>3, <2>5
  <2> QED
    BY <2>1, <2>5, <2>6
<1>7. g[0] \in Y[0]
  BY <1>2, <1>5 DEF Joining
<1>8. \A n \in 0 .. W : g[n] \in Y[n]
  <2> HIDE DEF Y
  <2> QED
    BY <1>2, <1>6, <1>7, Kept
<1>9. W \in 0 .. W
  BY <1>2
<1> QED
  BY <1>1, <1>4, <1>5, <1>8, <1>9 DEF W, s

LEMMA PiecesCover ==
  ASSUME NEW S, NEW s \in Seq(Seq(S)), NEW g, Joining(S, s, g), NEW image, NEW at \in Nat
  PROVE  Covers(image, at, g[Len(s)]) <=>
           \A k \in 1 .. Len(s) : Covers(image, at + Len(g[k - 1]), s[k])
<1> DEFINE n == Len(s)
           Has(k) == Covers(image, at + Len(g[k - 1]), s[k])
           T == {j \in Nat : j <= n => (Covers(image, at, g[j]) <=> \A k \in 1 .. j : Has(k))}
<1>1. n \in Nat /\ \A k \in 1 .. n : s[k] \in Seq(S) /\ k - 1 \in 0 .. n
  OBVIOUS
<1>2. ASSUME NEW k \in 1 .. n
      PROVE  Covers(image, at, g[k]) <=> Covers(image, at, g[k - 1]) /\ Has(k)
  <2>1. g[k - 1] \in Seq(S) /\ s[k] \in Seq(S) /\ g[k] = g[k - 1] \o s[k]
    BY <1>1 DEF Joining
  <2> DEFINE p == g[k - 1]
             q == s[k]
  <2>2. p \in Seq(S) /\ q \in Seq(S)
    BY <2>1
  <2> HIDE DEF p, q
  <2>3. Covers(image, at, p \o q) <=> Covers(image, at, p) /\ Covers(image, at + Len(p), q)
    BY <2>2, Joins
  <2> QED
    BY <2>1, <2>3 DEF p, q
<1> HIDE DEF Has
<1>3. 0 \in T
  <2>1. g[0] = <<>> /\ \A k \in 1 .. 0 : FALSE
    BY DEF Joining
  <2> QED
    BY <2>1, NothingLies
<1>4. ASSUME NEW j \in Nat, j \in T PROVE j + 1 \in T
  <2> SUFFICES ASSUME j + 1 <= n
               PROVE  Covers(image, at, g[j + 1]) <=> \A k \in 1 .. j + 1 : Has(k)
    OBVIOUS
  <2>1. j + 1 \in 1 .. n /\ (j + 1) - 1 = j /\ j <= n
    BY <1>1
  <2>2. Covers(image, at, g[j + 1]) <=> Covers(image, at, g[j]) /\ Has(j + 1)
    BY <1>2, <2>1
  <2>3. \A k : k \in 1 .. j + 1 <=> k \in 1 .. j \/ k = j + 1
    OBVIOUS
  <2>4. Covers(image, at, g[j]) <=> \A k \in 1 .. j : Has(k)
    BY <1>4, <2>1
  <2> QED
    BY <2>2, <2>3, <2>4, Zenon
<1> HIDE DEF T
<1>5. Nat \subseteq T
  BY <1>3, <1>4, Inductive
<1>6. n \in T /\ n <= n
  BY <1>1, <1>5
<1> QED
  BY <1>6 DEF T, Has

LEMMA TextReadsBack ==
  ASSUME NEW size \in Nat, NEW image \in Image(size), NEW at \in Nat, NEW z \in Zchars,
         Lies(image, at, Packed(z)), Len(Packed(z)) < AddrMod,
         \A m \in 0 .. WordCount(z) - 1 : (at + 2 * m) % AddrMod # AddrMod - 1
  PROVE  /\ Packed(z) \in Seq(Byte)
         /\ \E v : ReadsBack(SkipText(image, at % AddrMod), image, at, Packed(z), v)
<1> DEFINE W == WordCount(z)
           s == TextPieces(z)
           b == Packed(z)
           c == at % AddrMod
           place(m) == at + 2 * m
           word(m) == TextWord(image, c, m)
           Has(m) == Covers(image, place(m), s[m + 1])
           r == SkipText(image, c)
<1>1. /\ s \in Seq(Seq(Byte)) /\ Len(s) = W /\ b = FlattenSeq(s)
      /\ b \in Seq(Byte) /\ Len(b) = 2 * W
  BY PackedIs
<1>2. PICK g : Joining(Byte, s, g) /\ b = g[W] /\ \A n \in 0 .. W : Len(g[n]) = 2 * n
  BY PackedIs
<1>3. W \in Nat \ {0} /\ AddrMod \in Nat \ {0}
  BY TextAtIs, Addresses
<1>4. \A n \in 1 .. W : s[n] = <<TextAt(z, n) \div 256, TextAt(z, n) % 256>>
  BY DEF TextPieces
<1>5. \A n \in 1 .. W : Len(s[n]) = 2
  <2>1. \A h, l : Len(<<h, l>>) = 2
    OBVIOUS
  <2> QED
    BY <1>4, <2>1, Zenon
<1> HIDE DEF W, s, b
<1>6. \A n \in 1 .. W : n - 1 \in 0 .. W /\ Len(g[n - 1]) = 2 * (n - 1)
  BY <1>2, <1>3
<1>7. \A m \in 0 .. W - 1 : m \in Nat /\ m + 1 \in 1 .. W /\ (m + 1) - 1 = m
                            /\ Len(g[(m + 1) - 1]) = 2 * m
  <2>1. \A m \in 0 .. W - 1 : m \in Nat /\ m + 1 \in 1 .. W /\ (m + 1) - 1 = m
    BY <1>3
  <2>2. \A m \in 0 .. W - 1 : Len(g[(m + 1) - 1]) = 2 * ((m + 1) - 1)
    BY <1>6, <2>1, Zenon
  <2> QED
    BY <2>1, <2>2
<1>8. \A m \in 0 .. W - 1 : Lies(image, place(m), s[m + 1])
  <2>1. \A k \in 1 .. Len(s) : Lies(image, at + Len(g[k - 1]), s[k])
    BY <1>1, <1>2, PiecesLie DEF b
  <2> QED
    BY <1>1, <1>7, <2>1
<1>9. Covers(image, at, b) <=> \A m \in 0 .. W - 1 : Has(m)
  <2>1. Covers(image, at, b) <=> \A k \in 1 .. W : Covers(image, at + Len(g[k - 1]), s[k])
    <3>1. Covers(image, at, g[Len(s)]) <=>
            \A k \in 1 .. Len(s) : Covers(image, at + Len(g[k - 1]), s[k])
      BY <1>1, <1>2, PiecesCover
    <3> QED
      BY <1>1, <1>2, <3>1, Zenon
  <2>2. \A k \in 1 .. W : k - 1 \in 0 .. W - 1 /\ (k - 1) + 1 = k
    BY <1>3
  <2> QED
    BY <1>6, <1>7, <2>1, <2>2
<1>10. ASSUME NEW m \in 0 .. W - 1
       PROVE  IF Has(m) THEN word(m) = Value((place(m) + 2) % AddrMod, TextAt(z, m + 1))
              ELSE ~ word(m).ok
  <2> DEFINE p == place(m)
             n == m + 1
             x == TextAt(z, n)
             h == x \div 256
             l == x % 256
             y == p % AddrMod
  <2>1. p \in Nat /\ n \in 1 .. W
    BY <1>7
  <2>2. h \in Byte /\ l \in Byte /\ 256 * h + l = x
    BY <2>1, TextAtIs DEF W
  <2>3. s[n] = <<h, l>> /\ Len(s[n]) = 2
    BY <1>4, <1>5, <2>1
  <2>4. p % AddrMod # AddrMod - 1 /\ Lies(image, p, s[n])
    BY <1>8 DEF W
  <2>5. SamePlace(y, p)
    BY <2>1, SamePlaces
  <2>6. word(m) = read_word(image, y)
    <3>1. SamePlace(c, at)
      BY SamePlaces
    <3>2. 2 * m \in Nat
      BY <1>7
    <3>3. (c + 2 * m) % AddrMod = (at + 2 * m) % AddrMod
      BY <3>1, <3>2 DEF SamePlace
    <3> QED
      BY <3>3 DEF TextWord
  <2> HIDE DEF p, n, h, l, x, y, word
  <2>7. ReadsBack(read_word(image, y), image, p, <<h, l>>, 256 * h + l)
    BY <2>1, <2>2, <2>3, <2>4, <2>5, WordReads
  <2>8. IF Covers(image, p, s[n]) THEN word(m) = Value((p + 2) % AddrMod, x) ELSE ~ word(m).ok
    BY <2>2, <2>3, <2>6, <2>7 DEF ReadsBack
  <2> QED
    BY <2>8 DEF p, n, x
<1>11. PICK last : /\ FirstEnd(image, c, last)
                   /\ r = IF last = AddrMod THEN Endless(c) ELSE TextWord(image, c, last)
  BY SkipIs
<1> HIDE DEF c, Has
<1>12. \A m \in 0 .. W - 1 : Has(m) => (EndsText(image, c, m) <=> m = W - 1)
  <2> SUFFICES ASSUME NEW m \in 0 .. W - 1, Has(m)
               PROVE  EndsText(image, c, m) <=> m = W - 1
    OBVIOUS
  <2>1. word(m) = Value((place(m) + 2) % AddrMod, TextAt(z, m + 1))
    BY <1>10
  <2> HIDE DEF place
  <2>2. word(m).ok = TRUE /\ word(m).value = TextAt(z, m + 1)
    BY <2>1, Parts
  <2>3. TextAt(z, m + 1) >= 2 ^ 15 <=> m + 1 = W
    BY <1>7, TextAtIs DEF W
  <2>4. m + 1 = W <=> m = W - 1
    BY <1>3
  <2> QED
    BY <2>2, <2>3, <2>4 DEF EndsText
<1>13. \A m \in 0 .. W - 1 : ~ Has(m) => EndsText(image, c, m) /\ ~ word(m).ok
  BY <1>10 DEF EndsText
<1>14. last \in 0 .. W - 1 /\ r = word(last) /\ EndsText(image, c, last)
       /\ \A m \in 0 .. last - 1 : ~ EndsText(image, c, m)
  <2>1. W - 1 \in 0 .. W - 1 /\ W - 1 < AddrMod
    <3>1. 2 * W < AddrMod
      BY <1>1 DEF b
    <3> QED
      BY <1>3, <3>1
  <2>2. EndsText(image, c, W - 1)
    BY <1>12, <1>13, <2>1
  <2>3. last \in 0 .. AddrMod /\ (last = AddrMod \/ EndsText(image, c, last))
        /\ \A m \in 0 .. last - 1 : ~ EndsText(image, c, m)
    BY <1>11 DEF FirstEnd
  <2>4. ~ (W - 1 < last)
    <3> SUFFICES ASSUME W - 1 < last PROVE FALSE
      OBVIOUS
    <3>1. W - 1 \in 0 .. last - 1
      BY <1>3, <2>1, <2>3
    <3> QED
      BY <2>2, <2>3, <3>1
  <2>5. last \in 0 .. W - 1 /\ last # AddrMod
    BY <1>3, <2>1, <2>3, <2>4
  <2> QED
    BY <1>11, <2>3, <2>5
<1>15. CASE Covers(image, at, b)
  <2>1. \A m \in 0 .. W - 1 : Has(m)
    BY <1>9, <1>15
  <2>2. last = W - 1
    BY <1>12, <1>14, <2>1
  <2>3. r = Value((place(last) + 2) % AddrMod, TextAt(z, last + 1))
    BY <1>10, <1>14, <2>1
  <2>4. place(last) + 2 = at + Len(b)
    BY <1>1, <1>3, <2>2
  <2>5. r = Value((at + Len(b)) % AddrMod, TextAt(z, last + 1))
    BY <2>3, <2>4
  <2> QED
    BY <1>1, <1>15, <2>5 DEF ReadsBack, b, c
<1>16. CASE ~ Covers(image, at, b)
  <2>1. PICK m \in 0 .. W - 1 : ~ Has(m)
    BY <1>9, <1>16
  <2>2. EndsText(image, c, m) /\ ~ (m \in 0 .. last - 1)
    BY <1>13, <1>14, <2>1
  <2>3. ~ Has(last)
    <3> SUFFICES ASSUME Has(last) PROVE FALSE
      OBVIOUS
    <3>1. last = W - 1
      BY <1>12, <1>14
    <3>2. m \in 0 .. last - 1 \/ m = last
      BY <1>3, <3>1
    <3> QED
      BY <2>1, <2>2, <3>2
  <2>4. ~ r.ok
    BY <1>13, <1>14, <2>3
  <2> QED
    BY <1>1, <1>16, <2>4 DEF ReadsBack, b, c
<1> QED
  BY <1>15, <1>16

-----------------------------------------------------------------------------
(* A whole instruction.                                                    *)

StoreBytes(i) == IF i.stores THEN <<i.store>> ELSE <<>>
JumpBytes(i) == IF i.branches THEN BranchBytes(i) ELSE <<>>
InlineBytes(i) == IF i.inline THEN Packed(AllWritten(i.text)) ELSE <<>>

\* What the decoder makes of the parts that only some instructions have.
StorePart(image, has, at) == IF has THEN read_byte(image, at) ELSE Value(at, 0)
JumpPart(image, has, at) == IF has THEN ReadBranch(image, at) ELSE Value(at, NoBranch)
InlinePart(image, has, at) == IF has THEN SkipText(image, at) ELSE Done(at)

LEMMA NothingReads ==
  ASSUME NEW image, NEW at \in Nat, NEW v
  PROVE  ReadsBack(Value(at % AddrMod, v), image, at, <<>>, v)
<1>1. at + Len(<<>>) = at
  OBVIOUS
<1> QED
  BY <1>1, NothingLies DEF ReadsBack

LEMMA StoreReadsBack ==
  ASSUME NEW size \in Nat, NEW image \in Image(size), NEW at \in Nat, NEW i,
         i.stores => i.store \in Byte, Lies(image, at, StoreBytes(i))
  PROVE  /\ StoreBytes(i) \in Seq(Byte)
         /\ \E v : /\ i.stores => v = i.store
                   /\ ReadsBack(StorePart(image, i.stores, at % AddrMod), image, at,
                                StoreBytes(i), v)
<1>1. CASE i.stores
  <2> DEFINE b == i.store
  <2>1. b \in Byte /\ StoreBytes(i) = <<b>> /\ SamePlace(at % AddrMod, at)
    BY <1>1, SamePlaces DEF StoreBytes
  <2>2. StorePart(image, i.stores, at % AddrMod) = read_byte(image, at % AddrMod)
    BY <1>1 DEF StorePart
  <2> HIDE DEF b
  <2>3. ReadsBack(read_byte(image, at % AddrMod), image, at, <<b>>, b)
    BY <2>1, ByteReads
  <2>4. <<b>> \in Seq(Byte)
    BY <2>1
  <2> QED
    BY <2>1, <2>2, <2>3, <2>4 DEF b
<1>2. CASE ~ i.stores
  <2>1. StoreBytes(i) = <<>> /\ StorePart(image, i.stores, at % AddrMod) = Value(at % AddrMod, 0)
    BY <1>2 DEF StoreBytes, StorePart
  <2>2. <<>> \in Seq(Byte)
    OBVIOUS
  <2> QED
    BY <1>2, <2>1, <2>2, NothingReads, Zenon
<1> QED
  BY <1>1, <1>2

LEMMA JumpReadsBack ==
  ASSUME NEW size \in Nat, NEW image \in Image(size), NEW at \in Nat, NEW i,
         i.branches => BranchFits(i), Lies(image, at, JumpBytes(i))
  PROVE  /\ JumpBytes(i) \in Seq(Byte)
         /\ \E v : /\ i.branches => v = i.branch
                   /\ ReadsBack(JumpPart(image, i.branches, at % AddrMod), image, at,
                                JumpBytes(i), v)
<1>1. CASE i.branches
  <2>1. /\ JumpBytes(i) = BranchBytes(i)
        /\ JumpPart(image, i.branches, at % AddrMod) = ReadBranch(image, at % AddrMod)
    BY <1>1 DEF JumpBytes, JumpPart
  <2>2. /\ BranchBytes(i) \in Seq(Byte)
        /\ ReadsBack(ReadBranch(image, at % AddrMod), image, at, BranchBytes(i), i.branch)
    BY <1>1, <2>1, BranchReadsBack
  <2> QED
    BY <2>1, <2>2
<1>2. CASE ~ i.branches
  <2>1. /\ JumpBytes(i) = <<>>
        /\ JumpPart(image, i.branches, at % AddrMod) = Value(at % AddrMod, NoBranch)
    BY <1>2 DEF JumpBytes, JumpPart
  <2>2. <<>> \in Seq(Byte)
    OBVIOUS
  <2> QED
    BY <1>2, <2>1, <2>2, NothingReads, Zenon
<1> QED
  BY <1>1, <1>2

LEMMA InlineReadsBack ==
  ASSUME NEW size \in Nat, NEW image \in Image(size), NEW at \in Nat, NEW i,
         i.inline => AllWritten(i.text) \in Zchars, Lies(image, at, InlineBytes(i)),
         Len(InlineBytes(i)) < AddrMod,
         i.inline => \A m \in 0 .. WordCount(AllWritten(i.text)) - 1 :
                       (at + 2 * m) % AddrMod # AddrMod - 1
  PROVE  /\ InlineBytes(i) \in Seq(Byte)
         /\ \E v : ReadsBack(InlinePart(image, i.inline, at % AddrMod), image, at,
                             InlineBytes(i), v)
<1>1. CASE i.inline
  <2> DEFINE z == AllWritten(i.text)
  <2>1. /\ InlineBytes(i) = Packed(z) /\ z \in Zchars
        /\ InlinePart(image, i.inline, at % AddrMod) = SkipText(image, at % AddrMod)
        /\ \A m \in 0 .. WordCount(z) - 1 : (at + 2 * m) % AddrMod # AddrMod - 1
    BY <1>1 DEF InlineBytes, InlinePart
  <2> HIDE DEF z
  <2>2. /\ Packed(z) \in Seq(Byte)
        /\ \E v : ReadsBack(SkipText(image, at % AddrMod), image, at, Packed(z), v)
    BY <2>1, TextReadsBack
  <2> QED
    BY <2>1, <2>2
<1>2. CASE ~ i.inline
  <2>1. /\ InlineBytes(i) = <<>>
        /\ InlinePart(image, i.inline, at % AddrMod) = Value(at % AddrMod, 0)
    BY <1>2 DEF InlineBytes, InlinePart, Done
  <2>2. <<>> \in Seq(Byte)
    OBVIOUS
  <2> QED
    BY <2>1, <2>2, NothingReads, Zenon
<1> QED
  BY <1>1, <1>2

Regroups(x, y, z) == (x \o y) \o z = x \o (y \o z)

LEMMA JoinsRegroup ==
  ASSUME NEW S, NEW x \in Seq(S), NEW y \in Seq(S), NEW z \in Seq(S)
  PROVE  Regroups(x, y, z)
  BY ConcatAssociative DEF Regroups

\* The bytes of an instruction, from the first on.
LEMMA AssembledIs ==
  ASSUME NEW i, NEW b \in Byte, NEW rest \in Seq(Byte), OpcodeBytes(i) = <<b>> \o rest,
         OperandBytes(i) \in Seq(Byte), StoreBytes(i) \in Seq(Byte),
         JumpBytes(i) \in Seq(Byte), InlineBytes(i) \in Seq(Byte)
  PROVE  Assembled(i) = <<b>> \o (rest \o (OperandBytes(i) \o (StoreBytes(i) \o
                          (JumpBytes(i) \o InlineBytes(i)))))
<1> DEFINE p == <<b>>
           q == rest
           r == OperandBytes(i)
           s == StoreBytes(i)
           t == JumpBytes(i)
           u == InlineBytes(i)
           pq == p \o q
           pqr == pq \o r
           pqrs == pqr \o s
           tu == t \o u
           stu == s \o tu
           rstu == r \o stu
<1>1. \A x, y \in Seq(Byte) : x \o y \in Seq(Byte)
  OBVIOUS
<1>2. Assembled(i) = (pqrs \o t) \o u
  BY DEF Assembled, StoreBytes, JumpBytes, InlineBytes
<1>3. /\ p \in Seq(Byte) /\ q \in Seq(Byte) /\ r \in Seq(Byte)
      /\ s \in Seq(Byte) /\ t \in Seq(Byte) /\ u \in Seq(Byte)
  OBVIOUS
<1> HIDE DEF p, q, r, s, t, u
<1>4. /\ pq \in Seq(Byte) /\ pqr \in Seq(Byte) /\ pqrs \in Seq(Byte)
      /\ tu \in Seq(Byte) /\ stu \in Seq(Byte) /\ rstu \in Seq(Byte)
  BY <1>1, <1>3, Zenon
<1>5. /\ Regroups(p, q, rstu) /\ Regroups(pq, r, stu) /\ Regroups(pqr, s, tu)
      /\ Regroups(pqrs, t, u)
  <2> HIDE DEF pq, pqr, pqrs, tu, stu, rstu
  <2> QED
    BY <1>3, <1>4, JoinsRegroup, Zenon
<1>6. /\ pq \o rstu = p \o (q \o rstu) /\ pqr \o stu = pq \o rstu
      /\ pqrs \o tu = pqr \o stu /\ (pqrs \o t) \o u = pqrs \o tu
  BY <1>5, Zenon DEF Regroups
<1>7. (pqrs \o t) \o u = p \o (q \o rstu)
  BY <1>6, Zenon
<1> QED
  BY <1>2, <1>7 DEF p, q, r, s, t, u

\* From the address back to how far the cursor has come.
LEMMA LengthIs ==
  ASSUME NEW a \in Nat, NEW n \in Nat, n < AddrMod
  PROVE  (((a + n) % AddrMod) - a) % AddrMod = n
<1>1. PICK q \in Int : q * AddrMod \in Int /\ (a + n) % AddrMod = (a + n) + q * AddrMod
  BY WrapIs
<1> DEFINE x == ((a + n) % AddrMod) - a
           e == q * AddrMod
           s == AddrMod
<1>2. e \in Int /\ (a + n) % AddrMod = (a + n) + e
  BY <1>1
<1>3. x \in Int /\ x = n + e
  <2> HIDE DEF e
  <2> QED
    BY <1>2
<1>4. n \in Int /\ s \in Nat \ {0} /\ x = n + q * s
  BY <1>3, Addresses
<1> HIDE DEF x, e, s
<1>5. x % s = n % s
  BY <1>3, <1>4, ModShift, Zenon
<1>6. n % s = n
  <2>1. s \in Nat /\ n < s /\ 0 <= n
    BY <1>4 DEF s
  <2> QED
    BY <2>1, ModSmall
<1> QED
  BY <1>5, <1>6 DEF x, s

\* Where there is no story nothing contradicts the bytes: what they are does not
\* depend on where they lie.
LEMMA PartsAreBytes ==
  ASSUME NEW i, WellFormed(i)
  PROVE  /\ OpcodeBytes(i) \in Seq(Byte) /\ OperandBytes(i) \in Seq(Byte)
         /\ StoreBytes(i) \in Seq(Byte) /\ JumpBytes(i) \in Seq(Byte)
         /\ InlineBytes(i) \in Seq(Byte)
<1> DEFINE none == [x \in 0 .. 0 - 1 |-> 0]
<1>1. none \in Image(0) /\ 0 \in Nat /\ \A bytes : Lies(none, 0, bytes)
  <2>1. DOMAIN none = {}
    OBVIOUS
  <2>2. \A bytes : Lies(none, 0, bytes)
    <3> HIDE DEF none
    <3> QED
      BY <2>1 DEF Lies
  <2>3. none \in Image(0)
    BY DEF Image
  <2> QED
    BY <2>2, <2>3
<1> HIDE DEF none
<1>2. /\ FormFits(i) /\ OperandsFit(i) /\ (i.stores => i.store \in Byte)
      /\ (i.branches => BranchFits(i)) /\ (i.inline => AllWritten(i.text) \in Zchars)
  BY DEF WellFormed, Zchars
<1>3. OpcodeBytes(i) \in Seq(Byte)
  <2>1. PICK b \in Byte, rest \in Seq(Byte) : OpcodeBytes(i) = <<b>> \o rest
    BY <1>1, <1>2, FormReadsBack
  <2> QED
    BY <2>1
<1>4. OperandBytes(i) \in Seq(Byte)
  <2> DEFINE s == PiecesOf(i)
  <2>1. s \in Seq(Seq(Byte)) /\ OperandBytes(i) = FlattenSeq(s)
    BY <1>2, PiecesAre
  <2> HIDE DEF s
  <2>2. PICK g : Joining(Byte, s, g) /\ FlattenSeq(s) = g[Len(s)]
    BY <2>1, Flattened DEF Joining
  <2>3. Len(s) \in 0 .. Len(s)
    BY <2>1
  <2> QED
    BY <2>1, <2>2, <2>3 DEF Joining
<1>5. StoreBytes(i) \in Seq(Byte)
  BY <1>1, <1>2, StoreReadsBack
<1>6. JumpBytes(i) \in Seq(Byte)
  BY <1>1, <1>2, JumpReadsBack
<1>7. InlineBytes(i) \in Seq(Byte)
  BY <1>2, PackedIs DEF InlineBytes
<1> QED
  BY <1>3, <1>4, <1>5, <1>6, <1>7

\* What the places of the words say about each part.
LEMMA PlacesSay ==
  ASSUME NEW i, OperandsFit(i), i.inline => AllWritten(i.text) \in Zchars,
         OpcodeBytes(i) \in Seq(Byte),
         OperandBytes(i) \in Seq(Byte), StoreBytes(i) \in Seq(Byte), JumpBytes(i) \in Seq(Byte),
         NEW a \in Nat, \A n \in WordPlaces(i) : (a + n) % AddrMod # AddrMod - 1
  PROVE  /\ \A k \in DOMAIN i.types :
              i.types[k] = "large" =>
                (a + (Len(OpcodeBytes(i)) + Len(BytesBefore(i, k)))) % AddrMod # AddrMod - 1
         /\ i.inline => \A m \in 0 .. WordCount(AllWritten(i.text)) - 1 :
              (a + ((((Len(OpcodeBytes(i)) + Len(OperandBytes(i))) + Len(StoreBytes(i)))
                       + Len(JumpBytes(i))) + 2 * m)) % AddrMod # AddrMod - 1
<1> DEFINE head == ((OpcodeBytes(i) \o OperandBytes(i)) \o StoreBytes(i)) \o JumpBytes(i)
           large == {k \in DOMAIN i.types : i.types[k] = "large"}
           z == AllWritten(i.text)
           words == IF i.inline THEN Len(Packed(z)) \div 2 ELSE 0
<1>1. WordPlaces(i) = {Len(OpcodeBytes(i)) + Len(BytesBefore(i, k)) : k \in large}
                        \cup {Len(Assembled(i)) - 2 * m : m \in 1 .. words}
  BY DEF WordPlaces, BytesBefore
<1>2. ASSUME NEW k \in DOMAIN i.types, i.types[k] = "large"
      PROVE  (a + (Len(OpcodeBytes(i)) + Len(BytesBefore(i, k)))) % AddrMod # AddrMod - 1
  BY <1>1, <1>2
<1>3. \A x, y \in Seq(Byte) : x \o y \in Seq(Byte) /\ Len(x \o y) = Len(x) + Len(y)
  OBVIOUS
<1>4. /\ head \in Seq(Byte)
      /\ Len(head) = ((Len(OpcodeBytes(i)) + Len(OperandBytes(i))) + Len(StoreBytes(i)))
                       + Len(JumpBytes(i))
  <2> DEFINE p == OpcodeBytes(i)
             q == OperandBytes(i)
             r == StoreBytes(i)
             s == JumpBytes(i)
             pq == p \o q
             pqr == pq \o r
  <2>1. p \in Seq(Byte) /\ q \in Seq(Byte) /\ r \in Seq(Byte) /\ s \in Seq(Byte)
    OBVIOUS
  <2> HIDE DEF p, q, r, s
  <2>2. pq \in Seq(Byte) /\ Len(pq) = Len(p) + Len(q)
    BY <1>3, <2>1
  <2> HIDE DEF pq
  <2>3. pqr \in Seq(Byte) /\ Len(pqr) = Len(pq) + Len(r)
    BY <1>3, <2>1, <2>2
  <2> HIDE DEF pqr
  <2>4. pqr \o s \in Seq(Byte) /\ Len(pqr \o s) = Len(pqr) + Len(s)
    BY <1>3, <2>1, <2>3
  <2> QED
    BY <2>2, <2>3, <2>4 DEF p, q, r, s, pq, pqr
<1>5. Assembled(i) = head \o InlineBytes(i)
  BY DEF Assembled, StoreBytes, JumpBytes, InlineBytes
<1> HIDE DEF head, z
<1>6. ASSUME i.inline, NEW m \in 0 .. WordCount(z) - 1
      PROVE  (a + (Len(head) + 2 * m)) % AddrMod # AddrMod - 1
  <2> DEFINE W == WordCount(z)
             l == Len(head)
  <2>1. /\ InlineBytes(i) = Packed(z) /\ Packed(z) \in Seq(Byte) /\ Len(Packed(z)) = 2 * W
        /\ W \in Nat /\ z \in Zchars
    <3>1. InlineBytes(i) = Packed(z) /\ z \in Zchars
      BY <1>6 DEF z, InlineBytes
    <3>2. Packed(z) \in Seq(Byte) /\ Len(Packed(z)) = 2 * W
      BY <3>1, PackedIs
    <3>3. W \in Nat
      BY <3>1, TextAtIs
    <3> QED
      BY <3>1, <3>2, <3>3
  <2>2. Len(Assembled(i)) = l + 2 * W /\ l \in Nat
    <3>1. Len(head \o Packed(z)) = Len(head) + Len(Packed(z))
      BY <1>3, <1>4, <2>1, Zenon
    <3>2. Len(Assembled(i)) = Len(head \o Packed(z))
      BY <1>5, <2>1, Zenon
    <3>3. Len(head) \in Nat
      BY <1>4
    <3> HIDE DEF W
    <3> QED
      BY <2>1, <3>1, <3>2, <3>3
  <2>3. words = W
    <3>1. words = Len(Packed(z)) \div 2
      BY <1>6
    <3> HIDE DEF words
    <3> QED
      BY <2>1, <3>1
  <2>4. W - m \in 1 .. words /\ l + 2 * m = Len(Assembled(i)) - 2 * (W - m)
    <3>1. m \in 0 .. W - 1
      OBVIOUS
    <3> HIDE DEF W, l, words
    <3> QED
      BY <2>1, <2>2, <2>3, <3>1
  <2>5. Len(Assembled(i)) - 2 * (W - m) \in WordPlaces(i)
    <3> HIDE DEF words, W
    <3> QED
      BY <1>1, <2>4
  <2> QED
    BY <2>4, <2>5
<1> QED
  BY <1>2, <1>4, <1>6 DEF z

LEMMA InstructionReadsBack ==
  ASSUME NEW size \in Nat, NEW image \in Image(size), NEW a \in Nat, NEW i, WellFormed(i),
         Len(Assembled(i)) < AddrMod, Lies(image, a, Assembled(i)),
         \A n \in WordPlaces(i) : (a + n) % AddrMod # AddrMod - 1
  PROVE  \E v : /\ ReadsBack(decode_instruction(image, a), image, a, Assembled(i), v)
                /\ v.category = i.category /\ v.opcode = i.opcode
                /\ v.types = i.types /\ v.operands = i.operands
                /\ i.stores => v.store = i.store
                /\ i.branches => v.branch = i.branch
                /\ v.length = Len(Assembled(i))
<1>1. /\ FormFits(i) /\ OperandsFit(i)
      /\ i.stores <=> i.opcode \in Stores[i.category]
      /\ i.stores => i.store \in Byte
      /\ i.branches <=> i.opcode \in Branches[i.category]
      /\ i.branches => BranchFits(i)
      /\ i.inline <=> i.opcode \in HasText[i.category]
      /\ i.inline => AllWritten(i.text) \in Zchars
  BY DEF WellFormed, Zchars
<1>2. PICK b \in Byte, rest \in Seq(Byte) :
        OpcodeBytes(i) = <<b>> \o rest /\ FormReads(image, i, b, rest)
  BY <1>1, FormReadsBack
<1>3. \A x, y \in Seq(Byte) : x \o y \in Seq(Byte) /\ Len(x \o y) = Len(x) + Len(y)
  OBVIOUS
<1> DEFINE bp == <<b>>
           bq == rest
           br == OperandBytes(i)
           bs == StoreBytes(i)
           bt == JumpBytes(i)
           bu == InlineBytes(i)
           tu == bt \o bu
           stu == bs \o tu
           rstu == br \o stu
           qrstu == bq \o rstu
           all == bp \o qrstu
           a1 == a + Len(bp)
           a2 == a1 + Len(bq)
           a3 == a2 + Len(br)
           a4 == a3 + Len(bs)
           a5 == a4 + Len(bt)
           a6 == a5 + Len(bu)
<1>4. /\ bp \in Seq(Byte) /\ bq \in Seq(Byte) /\ br \in Seq(Byte) /\ bs \in Seq(Byte)
      /\ bt \in Seq(Byte) /\ bu \in Seq(Byte) /\ Len(bp) = 1
  BY PartsAreBytes
<1>5. OpcodeBytes(i) = bp \o bq /\ all = Assembled(i)
  BY <1>2, <1>4, AssembledIs
<1> HIDE DEF bp, bq, br, bs, bt, bu
<1>6. /\ tu \in Seq(Byte) /\ stu \in Seq(Byte) /\ rstu \in Seq(Byte) /\ qrstu \in Seq(Byte)
      /\ all \in Seq(Byte)
  BY <1>3, <1>4, Zenon
<1>7. /\ Len(tu) = Len(bt) + Len(bu) /\ Len(stu) = Len(bs) + Len(tu)
      /\ Len(rstu) = Len(br) + Len(stu) /\ Len(qrstu) = Len(bq) + Len(rstu)
      /\ Len(all) = Len(bp) + Len(qrstu) /\ Len(OpcodeBytes(i)) = Len(bp) + Len(bq)
  <2> HIDE DEF tu, stu, rstu, qrstu
  <2> QED
    BY <1>3, <1>4, <1>5, <1>6, Zenon DEF tu, stu, rstu, qrstu
<1>8. /\ Len(bp) \in Nat /\ Len(bq) \in Nat /\ Len(br) \in Nat /\ Len(bs) \in Nat
      /\ Len(bt) \in Nat /\ Len(bu) \in Nat
  BY <1>4
<1>9. /\ a1 \in Nat /\ a2 \in Nat /\ a3 \in Nat /\ a4 \in Nat /\ a5 \in Nat /\ a6 \in Nat
  BY <1>8
<1>10. a6 = a + Len(all) /\ Len(all) \in Nat
  <2> HIDE DEF tu, stu, rstu, qrstu, all
  <2> QED
    BY <1>7, <1>8
<1>11. Len(bu) < AddrMod
  <2> HIDE DEF tu, stu, rstu, qrstu, all
  <2>1. Len(all) < AddrMod
    BY <1>5
  <2>2. AddrMod \in Nat
    BY Addresses
  <2> QED
    BY <1>7, <1>8, <2>1, <2>2
<1>12. /\ Lies(image, a1, qrstu) /\ Lies(image, a, bp) /\ Lies(image, a1, bq)
       /\ Lies(image, a2, br) /\ Lies(image, a3, bs) /\ Lies(image, a4, bt)
       /\ Lies(image, a5, bu)
  <2>1. Lies(image, a, bp) /\ Lies(image, a1, qrstu)
    <3>1. Lies(image, a, bp \o qrstu)
      BY <1>5
    <3> HIDE DEF qrstu, all
    <3> QED
      BY <1>4, <1>6, <3>1, Joins
  <2> HIDE DEF a1
  <2>2. Lies(image, a1, bq) /\ Lies(image, a2, rstu)
    <3> HIDE DEF rstu
    <3> QED
      BY <1>4, <1>6, <1>9, <2>1, Joins
  <2> HIDE DEF a2
  <2>3. Lies(image, a2, br) /\ Lies(image, a3, stu)
    <3> HIDE DEF stu
    <3> QED
      BY <1>4, <1>6, <1>9, <2>2, Joins
  <2> HIDE DEF a3
  <2>4. Lies(image, a3, bs) /\ Lies(image, a4, tu)
    <3> HIDE DEF tu
    <3> QED
      BY <1>4, <1>6, <1>9, <2>3, Joins
  <2> HIDE DEF a4
  <2>5. Lies(image, a4, bt) /\ Lies(image, a5, bu)
    BY <1>4, <1>9, <2>4, Joins
  <2> QED
    BY <2>1, <2>2, <2>3, <2>4, <2>5
<1>13. /\ \A k \in DOMAIN i.types :
            i.types[k] = "large" => (a2 + Len(BytesBefore(i, k))) % AddrMod # AddrMod - 1
       /\ i.inline => \A m \in 0 .. WordCount(AllWritten(i.text)) - 1 :
            (a5 + 2 * m) % AddrMod # AddrMod - 1
  <2> DEFINE l == Len(OpcodeBytes(i))
             h == ((l + Len(br)) + Len(bs)) + Len(bt)
  <2>1. a2 = a + l /\ a5 = a + h /\ l \in Nat /\ h \in Nat
    BY <1>7, <1>8
  <2>2. /\ \A k \in DOMAIN i.types :
             i.types[k] = "large" =>
               (a + (l + Len(BytesBefore(i, k)))) % AddrMod # AddrMod - 1
        /\ i.inline => \A m \in 0 .. WordCount(AllWritten(i.text)) - 1 :
             (a + (h + 2 * m)) % AddrMod # AddrMod - 1
    <3>1. OpcodeBytes(i) \in Seq(Byte)
      BY PartsAreBytes
    <3> QED
      BY <1>1, <1>4, <3>1, PlacesSay DEF br, bs, bt
  <2> HIDE DEF l, h, a2, a5
  <2>3. \A k \in DOMAIN i.types :
          i.types[k] = "large" => (a2 + Len(BytesBefore(i, k))) % AddrMod # AddrMod - 1
    <3> SUFFICES ASSUME NEW k \in DOMAIN i.types, i.types[k] = "large"
                 PROVE  (a2 + Len(BytesBefore(i, k))) % AddrMod # AddrMod - 1
      OBVIOUS
    <3> DEFINE n == Len(BytesBefore(i, k))
    <3>1. n \in Nat
      <4>1. PICK g : Joining(Byte, PiecesOf(i), g)
        <5> DEFINE s == PiecesOf(i)
        <5>1. s \in Seq(Seq(Byte))
          BY <1>1, PiecesAre
        <5> HIDE DEF s
        <5> QED
          BY <5>1, Flattened DEF Joining, s
      <4>2. k \in 1 .. Len(i.types) /\ Len(i.types) \in Nat
        BY <1>1 DEF OperandsFit, OperandType
      <4>3. BytesBefore(i, k) = g[k - 1]
        BY <1>1, <4>1, <4>2, BeforeIs
      <4>4. k - 1 \in 0 .. Len(PiecesOf(i))
        BY <1>1, <4>2, PiecesAre
      <4> QED
        BY <4>1, <4>3, <4>4 DEF Joining
    <3>2. (a + (l + n)) % AddrMod # AddrMod - 1
      BY <2>2
    <3> HIDE DEF n
    <3>3. a2 + n = a + (l + n)
      BY <2>1, <3>1
    <3> QED
      BY <3>2, <3>3 DEF n
  <2>4. ASSUME i.inline, NEW m \in 0 .. WordCount(AllWritten(i.text)) - 1
        PROVE  (a5 + 2 * m) % AddrMod # AddrMod - 1
    <3>1. (a + (h + 2 * m)) % AddrMod # AddrMod - 1
      BY <2>2, <2>4
    <3>2. a5 + 2 * m = a + (h + 2 * m)
      BY <2>1
    <3> QED
      BY <3>1, <3>2
  <2> QED
    BY <2>3, <2>4
\* The stages of the decoder, each at the place where the one before has left it.
<1> DEFINE has(f, shape) == f.value.opcode \in shape[f.value.category]
           h1 == read_byte(image, a)
           h2(y) == DecodeForm(image, y.vm, y.value)
           h3(f) == ReadOperands(image, f.vm, f.value.types)
           h4(f, x) == IF has(f, Stores) THEN read_byte(image, x.vm) ELSE Value(x.vm, 0)
           h5(f, s) == IF has(f, Branches) THEN ReadBranch(image, s.vm) ELSE Value(s.vm, NoBranch)
           h6(f, c) == IF has(f, HasText) THEN SkipText(image, c.vm) ELSE Done(c.vm)
           instr(f, x, s, c, t) ==
             [ addr |-> a, category |-> f.value.category, opcode |-> f.value.opcode,
               types |-> f.value.types, operands |-> x.value, store |-> s.value,
               branch |-> c.value, length |-> (t.vm - a) % AddrMod ]
           op6(f, x, s, c, t) == Value(t.vm, instr(f, x, s, c, t))
           op5(f, x, s, c) == AndThen(h6(f, c), LAMBDA t : op6(f, x, s, c, t))
           op4(f, x, s) == AndThen(h5(f, s), LAMBDA c : op5(f, x, s, c))
           op3(f, x) == AndThen(h4(f, x), LAMBDA s : op4(f, x, s))
           op2(f) == AndThen(h3(f), LAMBDA x : op3(f, x))
           op1(y) == AndThen(h2(y), LAMBDA f : op2(f))
           F == FormOf(i)
           b0 == Value(a1 % AddrMod, b)
           f0 == Value(a2 % AddrMod, F)
           x0 == Value(a3 % AddrMod, i.operands)
<1>14. PICK sv : /\ i.stores => sv = i.store
                 /\ ReadsBack(StorePart(image, i.stores, a3 % AddrMod), image, a3, bs, sv)
  <2> HIDE DEF a3
  <2> QED
    BY <1>1, <1>9, <1>12, StoreReadsBack DEF bs
<1>15. PICK bv : /\ i.branches => bv = i.branch
                 /\ ReadsBack(JumpPart(image, i.branches, a4 % AddrMod), image, a4, bt, bv)
  <2> HIDE DEF a4
  <2> QED
    BY <1>1, <1>9, <1>12, JumpReadsBack DEF bt
<1>16. PICK tv : ReadsBack(InlinePart(image, i.inline, a5 % AddrMod), image, a5, bu, tv)
  <2> HIDE DEF a5
  <2> QED
    BY <1>1, <1>9, <1>11, <1>12, <1>13, InlineReadsBack DEF bu
<1> DEFINE s0 == Value(a4 % AddrMod, sv)
           c0 == Value(a5 % AddrMod, bv)
           t0 == Value(a6 % AddrMod, tv)
           v == instr(f0, x0, s0, c0, t0)
<1>17. decode_instruction(image, a) = AndThen(h1, LAMBDA y : op1(y))
  BY DEF decode_instruction
<1>18. /\ v.category = i.category /\ v.opcode = i.opcode /\ v.types = i.types
       /\ v.operands = i.operands /\ v.store = sv /\ v.branch = bv
       /\ v.length = ((a6 % AddrMod) - a) % AddrMod
  <2>1. f0.value = F /\ x0.value = i.operands /\ s0.value = sv /\ c0.value = bv
        /\ t0.vm = a6 % AddrMod
    BY DEF Value
  <2> HIDE DEF f0, x0, s0, c0, t0
  <2>2. F.category = i.category /\ F.opcode = i.opcode /\ F.types = i.types
    BY DEF FormOf
  <2> HIDE DEF F
  <2> QED
    BY <2>1, <2>2
<1>19. v.length = Len(all)
  <2> DEFINE n == Len(all)
  <2>1. n \in Nat /\ a6 = a + n /\ n < AddrMod
    BY <1>5, <1>10
  <2> HIDE DEF n, a6, v
  <2> QED
    BY <1>18, <2>1, LengthIs DEF n
<1>20. /\ has(f0, Stores) <=> i.stores
       /\ has(f0, Branches) <=> i.branches
       /\ has(f0, HasText) <=> i.inline
  <2>1. f0.value.opcode = i.opcode /\ f0.value.category = i.category
    BY DEF FormOf, Value
  <2> HIDE DEF f0
  <2> QED
    BY <1>1, <2>1
<1>21. /\ b0.vm = a1 % AddrMod /\ b0.value = b /\ f0.vm = a2 % AddrMod /\ f0.value.types = i.types
       /\ x0.vm = a3 % AddrMod /\ s0.vm = a4 % AddrMod /\ c0.vm = a5 % AddrMod
       /\ t0.vm = a6 % AddrMod
  BY DEF Value, FormOf
<1> HIDE DEF has, F, b0, f0, x0, s0, c0, t0, instr, a1, a2, a3, a4, a5, a6, tu, stu, rstu, qrstu, all
<1>22. ReadsBack(h1, image, a, bp, b)
  <2>1. SamePlace(a, a) /\ Lies(image, a, <<b>>)
    BY <1>12, SamePlaces DEF bp
  <2> QED
    BY <2>1, ByteReads DEF bp
<1>23. ReadsBack(h2(b0), image, a1, bq, FormOf(i))
  BY <1>2, <1>9, <1>12, <1>21 DEF FormReads, bq
<1>24. ReadsBack(h3(f0), image, a2, br, i.operands)
  BY <1>1, <1>9, <1>12, <1>13, <1>21, OperandsReadBack DEF br
<1>25. ReadsBack(h4(f0, x0), image, a3, bs, sv)
  BY <1>14, <1>20, <1>21 DEF StorePart
<1>26. ReadsBack(h5(f0, s0), image, a4, bt, bv)
  BY <1>15, <1>20, <1>21 DEF JumpPart
<1>27. ReadsBack(h6(f0, c0), image, a5, bu, tv)
  BY <1>16, <1>20, <1>21 DEF InlinePart
<1> HIDE DEF h1, h2, h3, h4, h5, h6, op1, op2, op3, op4, op5, op6, v
<1>28. ReadsBack(op5(f0, x0, s0, c0), image, a5, bu, v)
  <2> DEFINE t == h6(f0, c0)
  <2>1. op5(f0, x0, s0, c0) = IF t.ok THEN op6(f0, x0, s0, c0, t) ELSE t
    BY DEF op5, AndThen, Then
  <2>2. op6(f0, x0, s0, c0, t0) = Value(a6 % AddrMod, v)
    BY <1>21 DEF op6, v
  <2>3. t0 = Value((a5 + Len(bu)) % AddrMod, tv)
    BY DEF t0, a6
  <2>4. t0.ok = TRUE
    BY DEF t0, Value
  <2> HIDE DEF t
  <2>5. ReadsBack(t, image, a5, bu, tv)
    BY <1>27 DEF t
  <2>6. CASE Covers(image, a5, bu)
    <3>1. t = t0
      BY <2>3, <2>5, <2>6 DEF ReadsBack
    <3>2. op5(f0, x0, s0, c0) = Value((a5 + Len(bu)) % AddrMod, v)
      BY <2>1, <2>2, <2>4, <3>1 DEF a6
    <3> QED
      BY <2>6, <3>2 DEF ReadsBack
  <2>7. CASE ~ Covers(image, a5, bu)
    BY <2>1, <2>5, <2>7 DEF ReadsBack
  <2> QED
    BY <2>6, <2>7
<1>29. ReadsBack(op4(f0, x0, s0), image, a4, tu, v)
  <2>1. op4(f0, x0, s0) = IF h5(f0, s0).ok THEN op5(f0, x0, s0, h5(f0, s0)) ELSE h5(f0, s0)
    BY DEF op4, AndThen, Then
  <2> DEFINE y == h5(f0, s0)
             z == op5(f0, x0, s0, y)
  <2>2. y = Value((a4 + Len(bt)) % AddrMod, bv) => ReadsBack(z, image, a4 + Len(bt), bu, v)
    BY <1>28 DEF c0, a5
  <2>3. ReadsBack(y, image, a4, bt, bv)
    BY <1>26
  <2> HIDE DEF y, z
  <2>4. ReadsBack(IF y.ok THEN z ELSE y, image, a4, bt \o bu, v)
    BY <1>4, <1>9, <2>2, <2>3, ReadsOn
  <2> QED
    BY <2>1, <2>4 DEF y, z, tu
<1>30. ReadsBack(op3(f0, x0), image, a3, stu, v)
  <2>1. op3(f0, x0) = IF h4(f0, x0).ok THEN op4(f0, x0, h4(f0, x0)) ELSE h4(f0, x0)
    BY DEF op3, AndThen, Then
  <2> DEFINE y == h4(f0, x0)
             z == op4(f0, x0, y)
  <2>2. y = Value((a3 + Len(bs)) % AddrMod, sv) => ReadsBack(z, image, a3 + Len(bs), tu, v)
    BY <1>29 DEF s0, a4
  <2>3. ReadsBack(y, image, a3, bs, sv)
    BY <1>25
  <2> HIDE DEF y, z
  <2>4. ReadsBack(IF y.ok THEN z ELSE y, image, a3, bs \o tu, v)
    BY <1>4, <1>6, <1>9, <2>2, <2>3, ReadsOn
  <2> QED
    BY <2>1, <2>4 DEF y, z, stu
<1>31. ReadsBack(op2(f0), image, a2, rstu, v)
  <2>1. op2(f0) = IF h3(f0).ok THEN op3(f0, h3(f0)) ELSE h3(f0)
    BY DEF op2, AndThen, Then
  <2> DEFINE y == h3(f0)
             z == op3(f0, y)
             o == i.operands
  <2>2. y = Value((a2 + Len(br)) % AddrMod, o) => ReadsBack(z, image, a2 + Len(br), stu, v)
    BY <1>30 DEF x0, a3
  <2>3. ReadsBack(y, image, a2, br, o)
    BY <1>24
  <2> HIDE DEF y, z, o
  <2>4. ReadsBack(IF y.ok THEN z ELSE y, image, a2, br \o stu, v)
    BY <1>4, <1>6, <1>9, <2>2, <2>3, ReadsOn
  <2> QED
    BY <2>1, <2>4 DEF y, z, rstu
<1>32. ReadsBack(op1(b0), image, a1, qrstu, v)
  <2>1. op1(b0) = IF h2(b0).ok THEN op2(h2(b0)) ELSE h2(b0)
    BY DEF op1, AndThen, Then
  <2> DEFINE y == h2(b0)
             z == op2(y)
             o == FormOf(i)
  <2>2. y = Value((a1 + Len(bq)) % AddrMod, o) => ReadsBack(z, image, a1 + Len(bq), rstu, v)
    BY <1>31 DEF f0, a2, F
  <2>3. ReadsBack(y, image, a1, bq, o)
    BY <1>23
  <2> HIDE DEF y, z, o
  <2>4. ReadsBack(IF y.ok THEN z ELSE y, image, a1, bq \o rstu, v)
    BY <1>4, <1>6, <1>9, <2>2, <2>3, ReadsOn
  <2> QED
    BY <2>1, <2>4 DEF y, z, qrstu
<1>33. ReadsBack(decode_instruction(image, a), image, a, all, v)
  <2>1. decode_instruction(image, a) = IF h1.ok THEN op1(h1) ELSE h1
    BY <1>17 DEF AndThen, Then
  <2> DEFINE z == op1(h1)
  <2>2. h1 = Value((a + Len(bp)) % AddrMod, b) => ReadsBack(z, image, a + Len(bp), qrstu, v)
    BY <1>32 DEF b0, a1
  <2> HIDE DEF z
  <2>3. ReadsBack(IF h1.ok THEN z ELSE h1, image, a, bp \o qrstu, v)
    BY <1>4, <1>6, <1>22, <2>2, ReadsOn
  <2> QED
    BY <2>1, <2>3 DEF z, all
<1> QED
  BY <1>5, <1>14, <1>15, <1>18, <1>19, <1>33

-----------------------------------------------------------------------------
(* Until the first instruction has run the image is the story's own.        *)

Pristine == done.i = NoInstr => vm.image = story.image

LEMMA StartsPristine == Init => Pristine
  BY DEF Init, Pristine

LEMMA NoInstrIs == \A i \in Instr : i # NoInstr
<1>1. \A i \in Instr : i.category \in Category
  BY DEF Instr
<1>2. NoInstr.category = "none"
  BY DEF NoInstr
<1> QED
  BY <1>1, <1>2 DEF Category

LEMMA StaysPristine == StoryInv /\ Pristine /\ [Next]_vars => Pristine'
<1> SUFFICES ASSUME StoryInv, Pristine, [Next]_vars PROVE Pristine'
  OBVIOUS
<1>1. story \in Stories /\ vm \in Machine(Here)
  BY DEF StoryInv
<1>2. ASSUME done'.i \in Instr PROVE Pristine'
  BY <1>2, NoInstrIs DEF Pristine
<1>3. ASSUME NEW opcodes, NEW f \in NextOf(opcodes), done'.i = f.value.i PROVE Pristine'
  <2>1. f.value.i \in Instr
    BY <1>1, NextIs
  <2> QED
    BY <1>2, <1>3, <2>1
<1>4. CASE Plain
  BY <1>3, <1>4, PlainIs
<1>5. CASE Sread
  <2>1. PICK f \in NextOf(ReadOpcodes) : \E line : \E r \in ReadOutcomes(f) :
          Finish(On(f.vm, r), f.value, line)
    BY <1>5, SreadIs
  <2>2. done'.i = f.value.i
    BY <2>1 DEF Finish, StatusAfter
  <2> QED
    BY <1>3, <2>2
<1>6. CASE PrintText
  <2> DEFINE r(f) == TextOf(f.vm, f.value.i, f.value.x)
  <2>1. PICK f \in NextOf(TextOpcodes) : Finish(r(f), f.value, r(f).value)
    BY <1>6 DEF PrintText, Execute, NextOf
  <2>2. done'.i = f.value.i
    BY <2>1 DEF Finish, StatusAfter
  <2> QED
    BY <1>3, <2>2
<1>7. CASE Halt
  <2>1. PICK a \in DOMAIN story.code : vm' = Fetch(a).vm
    BY <1>7 DEF Halt
  <2>2. vm'.image = vm.image
    BY <1>1, <2>1, Fetching
  <2> QED
    BY <1>7, <2>2 DEF Halt, Pristine
<1>8. CASE MissingOperand
  <2>1. PICK a \in DOMAIN story.code :
          Fetch(a).ok /\ done' = [i |-> Fetch(a).value.i, x |-> Fetch(a).value.x, result |-> <<>>]
    BY <1>8 DEF MissingOperand
  <2>2. Fetch(a).value.i \in Instr
    BY <1>1, <2>1, Fetching DEF Fetched
  <2> QED
    BY <1>2, <2>1, <2>2
<1>9. CASE TextStep
  <2>1. done.i \in Instr /\ done = [i |-> done.i, x |-> done.x, result |-> done.result]
    BY <1>9, JobIs DEF TextStep, TextIsUnderWay, StoryInv, DoneIs
  <2>2. \E e : done' = [done EXCEPT !.result = e] \/ done' = done
    BY <1>9 DEF TextStep
  <2>3. done'.i = done.i
    BY <2>1, <2>2
  <2> QED
    BY <1>2, <2>1, <2>3
<1>10. CASE ParseStep
  <2>1. done' = done /\ done.i \in Instr
    BY <1>10, JobIs DEF ParseStep, LineIsUnderWay
  <2> QED
    BY <1>2, <2>1
<1>11. CASE PortLoop \/ UNCHANGED vars
  BY <1>11 DEF PortLoop, vars, Pristine
<1> QED
  BY <1>4, <1>5, <1>6, <1>7, <1>8, <1>9, <1>10, <1>11 DEF Next, Plain

LEMMA WrittenIsDecoded == StoryInv /\ Pristine => DecodedAsAssembled
<1> SUFFICES ASSUME StoryInv, vm.image = story.image, NEW a \in DOMAIN story.code
             PROVE  LET i == story.code[a]
                        d == decode_instruction(vm.image, a)
                        v == d.value
                    IN IF ~ i.whole THEN ~ d.ok
                       ELSE /\ d.ok /\ v.category = i.category /\ v.opcode = i.opcode
                            /\ v.types = i.types /\ v.operands = i.operands
                            /\ i.stores => v.store = i.store
                            /\ i.branches => v.branch = i.branch
                            /\ v.length = Len(Assembled(i))
  BY DEF Pristine, DecodedAsAssembled
<1> DEFINE i == story.code[a]
           image == vm.image
           d == decode_instruction(image, a)
           bytes == Assembled(i)
<1>1. story \in Stories /\ Here \in Nat /\ image \in Image(Here) /\ a \in Nat
  BY StoryHere DEF StoryInv
<1>2. /\ WellFormed(i) /\ Len(bytes) < AddrMod
      /\ i.whole <=> Covers(image, a, bytes)
      /\ Lies(image, a, bytes)
      /\ \A n \in WordPlaces(i) : (a + n) % AddrMod # AddrMod - 1
  BY <1>1, CodeAssumption DEF AsWritten, Covers, Lies
<1> HIDE DEF i, image
<1>3. PICK v : /\ ReadsBack(d, image, a, bytes, v)
               /\ v.category = i.category /\ v.opcode = i.opcode
               /\ v.types = i.types /\ v.operands = i.operands
               /\ i.stores => v.store = i.store
               /\ i.branches => v.branch = i.branch
               /\ v.length = Len(bytes)
  BY <1>1, <1>2, InstructionReadsBack
<1> HIDE DEF d, bytes
<1>4. CASE i.whole
  <2>1. d = Value((a + Len(bytes)) % AddrMod, v)
    BY <1>2, <1>3, <1>4 DEF ReadsBack
  <2>2. d.ok = TRUE /\ d.value = v
    BY <2>1, Parts
  <2> QED
    BY <1>3, <1>4, <2>2 DEF d, i, image, bytes
<1>5. CASE ~ i.whole
  <2>1. ~ d.ok
    BY <1>2, <1>3, <1>5 DEF ReadsBack
  <2> QED
    BY <1>5, <2>1 DEF d, i, image
<1> QED
  BY <1>4, <1>5

-----------------------------------------------------------------------------
(* The theorems.                                                           *)

\* What StoryInv says of a job under way and of the last instruction holds in every
\* state, for every story: the theorems below follow from it.
THEOREM StoryIsInvariant == Spec => []StoryInv
<1>1. Init => StoryInv
  BY StoryStarts
<1>2. StoryInv /\ [Next]_vars => StoryInv'
  BY StoryGoesOn
<1> QED
  BY <1>1, <1>2, PTL DEF Spec

\* host/dispatch.c with its decoder, objects, properties, dictionary and texts:
\* whatever the story contains, memory stays bytes, the stack words and no higher
\* than its limit, the program counter an address, and the address and the count
\* of output stream 3 words; so do the registers of the port's multiplication and
\* division, whose loop counter never leaves 0 .. 16.
THEOREM MachineIsTyped == Spec => []TypeOK
<1>1. StoryInv => TypeOK
  BY StoryIsTyped
<1> QED
  BY <1>1, StoryIsInvariant, PTL

\* mul, div and mod of lib/zdispatch.asm give what the C operators in
\* host/dispatch.c give, for all operands, and fail for the same divisor.
THEOREM PortComputesAsC == Spec => []PortAgrees
<1>1. StoryInv => PortAgrees
  BY PortIsRight
<1> QED
  BY <1>1, StoryIsInvariant, PTL

\* host/dispatch.c and host/ztext.c use a value that was never written in the
\* known places only: an operand that is not there, an inline text or a name
\* that runs over the end of the story.  Texts at addresses and abbreviations
\* never get there.
THEOREM OnlyLostBytesAreUsed == Spec => []StaysDefined
<1>1. StoryInv => StaysDefined
  BY DEF StoryInv
<1> QED
  BY <1>1, StoryIsInvariant, PTL

\* sread in host/dispatch.c and host/parser.c: no line and no dictionary makes a
\* step write outside the text buffer and the parse buffer of the instruction.
THEOREM InputIsConfined == Spec => InputStaysInside
<1> DEFINE A == Ran("var", 4)' =>
                  \A a \in DOMAIN vm.image : vm'.image[a] # vm.image[a] => a \in ReadBuffer
<1>1. StoryInv /\ [Next]_vars => [A]_vars
  BY InputIsInside
<1>2. StoryInv /\ [Next]_vars => StoryInv'
  BY StoryGoesOn
<1>3. Spec => [][A]_vars
  BY <1>1, <1>2, StoryIsInvariant, PTL DEF Spec
<1> QED
  BY <1>3 DEF InputStaysInside

\* host/decode.c and host/ztext.c come to the same end of an inline text, for every
\* story and whatever the text refers to: the last word it has read says so, and
\* the next instruction is behind it.
THEOREM InlineTextsEndTogether == Spec => []TextIsMeasured
<1>1. StoryInv /\ TextInv /\ [Next]_vars => TextInv'
  BY TextGoesOn
<1>2. TextInv => TextIsMeasured
  BY Idle DEF TextInv, TextIsMeasured
<1> QED
  BY <1>1, <1>2, TextStarts, StoryIsInvariant, PTL DEF Spec

\* host/decode.c takes from every instruction of every story what the compiler put
\* there, to the byte, and refuses one of which a byte is missing.
THEOREM DecoderReadsInstructions == Spec => []DecodedAsAssembled
<1>1. StoryInv /\ Pristine /\ [Next]_vars => Pristine'
  BY StaysPristine
<1>2. StoryInv /\ Pristine => DecodedAsAssembled
  BY WrittenIsDecoded
<1> QED
  BY <1>1, <1>2, StartsPristine, StoryIsInvariant, PTL DEF Spec
=============================================================================
