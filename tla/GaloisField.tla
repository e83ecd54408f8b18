----------------------------- MODULE GaloisField -----------------------------
(***************************************************************************)
(* The fields GF(2^8) and GF(2^32) of the block code: src/fec/gf/table.rs, *)
(* gf8.rs, gf32.rs, engine.rs and the CLMUL kernel of backend/x86.rs.  An  *)
(* element is the set of the positions of its one bits, so that adding is  *)
(* symmetric difference; w is 8 or 32.                                     *)
(***************************************************************************)
EXTENDS Integers, SequencesExt

Bits(w) == 0 .. w - 1
Zero == {}
One == {0}

(* GF8_POLY and GF32_POLY, and the polynomial with its leading term.        *)
Polynomial(w) == IF w = 8 THEN {0, 2, 3, 4} ELSE {0, 1, 2, 22}
Modulus(w) == Polynomial(w) \cup {w}

Plus(a, b) == (a \ b) \cup (b \ a)
PlusOver(f, S) == FoldFunctionOnSet(Plus, Zero, f, S)
ShiftLeft(a, n) == {i + n : i \in a}
ShiftRight(a, n) == {i - n : i \in {j \in a : j >= n}}
BitsOf(n) == {i \in 0 .. 15 : (n \div 2^i) % 2 = 1}

(* One round of the loop of gf8_mul_bit and gf32_mul_bit: aa <<= 1, with   *)
(* the carry folded back.                                                  *)
TimesX(w, a) ==
  LET shifted == ShiftLeft(a \ {w - 1}, 1)
  IN  IF w - 1 \in a THEN Plus(shifted, Polynomial(w)) ELSE shifted

(* x^0 .. x^62, reduced.                                                   *)
Powers(w) ==
  FoldLeft(LAMBDA lower, n : Append(lower, TimesX(w, Last(lower))), <<One>>,
           [n \in 1 .. 62 |-> n])

Powers8 == Powers(8)
Powers32 == Powers(32)
Power(w, n) == IF w = 8 THEN Powers8[n + 1] ELSE Powers32[n + 1]

(* The loop of gf8_mul_bit and gf32_mul_bit: when bit i of b is set, round *)
(* i adds aa, which by then is the sum of the powers i + j for bits j of a. *)
gf_mul_bit(w, a, b) ==
  PlusOver([p \in a \X b |-> Power(w, p[1] + p[2])], a \X b)

(***************************************************************************)
(* Gf32SplitTables: one table per position of a nibble; a word is          *)
(* multiplied by looking up its eight nibbles.                             *)
(***************************************************************************)
Nibble(a, pos) == ShiftRight(a, 4 * pos) \cap Bits(4)
Split(coeff, pos, nibble) == gf_mul_bit(32, ShiftLeft(nibble, 4 * pos), coeff)
mul_word(coeff, word) ==
  PlusOver([pos \in 0 .. 7 |-> Split(coeff, pos, Nibble(word, pos))], 0 .. 7)

(***************************************************************************)
(* gf32_mul_clmul: the carry-less product, folded four times.  The product *)
(* has degree at most 62; a fold takes the part from x^32 on down by ten.  *)
(***************************************************************************)
Carryless(a, b) ==
  PlusOver([i \in a |-> ShiftLeft(b, i)], a)

Fold(product) == Plus(product, Carryless(Modulus(32), ShiftRight(product, 32)))

(* Mutant: one fold fewer.                                                 *)
gf32_mul_clmul3(a, b) == Fold(Fold(Fold(Carryless(a, b)))) \cap Bits(32)

gf32_mul_clmul(a, b) == Fold(Fold(Fold(Fold(Carryless(a, b))))) \cap Bits(32)

(* GfEngine::mul, and backend::gf32_mul with or without PCLMULQDQ.         *)
Multiply(w, clmul, a, b) ==
  IF a = Zero \/ b = Zero THEN Zero
  ELSE IF w = 8 THEN gf_mul_bit(8, a, b)
  ELSE IF clmul THEN gf32_mul_clmul(a, b)
  ELSE mul_word(b, a)

(***************************************************************************)
(* Inverses: by search in the table of products for w = 8, by the extended *)
(* Euclidean algorithm on polynomials for w = 32.                          *)
(***************************************************************************)
poly_degree(v) == IF v = Zero THEN 0 ELSE 1 + Max(v)

(* One round of the loop of gf32::inv.                                     *)
EuclidStep(s) ==
  LET shift == poly_degree(s.r0) - poly_degree(s.r1)
  IN  IF shift < 0 THEN [r0 |-> s.r1, r1 |-> s.r0, t0 |-> s.t1, t1 |-> s.t0]
      ELSE [s EXCEPT !.r0 = Plus(@, ShiftLeft(s.r1, shift)),
                     !.t0 = Plus(@, ShiftLeft(s.t1, shift))]

RECURSIVE Euclid(_)
Euclid(s) == IF s.r1 = Zero THEN s ELSE Euclid(EuclidStep(s))

Inverse8 == [a \in SUBSET Bits(8) \ {Zero} |->
               CHOOSE b \in SUBSET Bits(8) : gf_mul_bit(8, a, b) = One]

Inverted32(a) ==
  Euclid([r0 |-> Modulus(32), r1 |-> a, t0 |-> Zero, t1 |-> One]).t0 \cap Bits(32)

Inverted(w, a) == IF w = 8 THEN Inverse8[a] ELSE Inverted32(a)

(* div(1, b), with a divisor that is not zero.                             *)
Reciprocal(w, clmul, b) == Multiply(w, clmul, One, Inverted(w, b))

=============================================================================
