--------------------------- MODULE RegionMultiply ---------------------------
(***************************************************************************)
(* Multiplication of a stripe by a field element: region_mul_add of        *)
(* src/fec/gf/backend, portable (scalar.rs) and vectorised (x86.rs,        *)
(* x86_gf32_split4.rs, neon.rs).  A byte is a set of bits 0 .. 7, a stripe *)
(* a function from 0 .. StripeBytes - 1 to bytes.                          *)
(*                                                                         *)
(* BlockCode::new asks for packets of a multiple of 8 bytes, so a stripe   *)
(* is a multiple of 64 bytes: every vector width of the x86 and of the     *)
(* NEON kernels divides it, and their 16-byte and scalar tails stay empty. *)
(* All blocks of 64 bytes are treated alike; the model has one.            *)
(***************************************************************************)
EXTENDS GaloisField

StripeBytes == 64
Offsets == 0 .. StripeBytes - 1
ZeroStripe == [o \in Offsets |-> Zero]
PlusStripe(s, t) == [o \in Offsets |-> Plus(s[o], t[o])]

ByteOf(word, lane) == ShiftRight(word, 8 * lane) \cap Bits(8)

WordAt(s, o) == UNION {ShiftLeft(s[o + lane], 8 * lane) : lane \in 0 .. 3}

(***************************************************************************)
(* w = 8: a byte is its low nibble and its high nibble (Gf8ShuffleTables). *)
(* The vector kernels shift 64-bit lanes, so that bits of the next byte    *)
(* come along, and mask.                                                   *)
(***************************************************************************)
Lo(coeff, nibble) == gf_mul_bit(8, nibble, coeff)
Hi(coeff, nibble) == gf_mul_bit(8, ShiftLeft(nibble, 4), coeff)

ScalarByte(coeff, s, o) == Plus(Lo(coeff, Nibble(s[o], 0)), Hi(coeff, Nibble(s[o], 1)))

FromNextByte(s, o) == IF o % 8 = 7 THEN Zero ELSE ShiftLeft(s[o + 1] \cap Bits(4), 4)

ShuffledByte(coeff, s, o) ==
  LET shifted == ShiftRight(s[o], 4) \cup FromNextByte(s, o)
  IN  Plus(Lo(coeff, s[o] \cap Bits(4)), Hi(coeff, shifted \cap Bits(4)))

(***************************************************************************)
(* w = 32, portable: word by word, little endian.                          *)
(***************************************************************************)
ScalarWordByte(coeff, s, o) ==
  ByteOf(mul_word(coeff, WordAt(s, o - (o % 4))), o % 4)

(***************************************************************************)
(* w = 32, vectorised: the 16 words of a block are transposed so that a    *)
(* register holds one byte of each, the nibbles are looked up in one table *)
(* for each byte of the product, and the result is transposed back.  A     *)
(* register is a function on 0 .. 15.                                      *)
(***************************************************************************)
Register(s, i) == [k \in 0 .. 15 |-> s[16 * i + k]]

(* packus of the odd, or even, bytes of two registers; a comes first.      *)
PackOdd(a, b) == [k \in 0 .. 15 |-> IF k < 8 THEN a[2 * k + 1] ELSE b[2 * (k - 8) + 1]]
PackEven(a, b) == [k \in 0 .. 15 |-> IF k < 8 THEN a[2 * k] ELSE b[2 * (k - 8)]]

(* unpacklo and unpackhi: the first, or last, eight bytes interleaved.     *)
Unpack(a, b, from) ==
  [k \in 0 .. 15 |-> IF k % 2 = 0 THEN a[from + k \div 2] ELSE b[from + k \div 2]]
UnpackLo(a, b) == Unpack(a, b, 0)
UnpackHi(a, b) == Unpack(a, b, 8)

(* transpose_16words_in: register i of the result holds byte 3 - i of      *)
(* every word.                                                             *)
TransposeIn(v) ==
  LET odd01 == PackOdd(v[1], v[0])    even01 == PackEven(v[1], v[0])
      odd23 == PackOdd(v[3], v[2])    even23 == PackEven(v[3], v[2])
  IN  [i \in 0 .. 3 |-> IF i = 0 THEN PackOdd(odd23, odd01)
                        ELSE IF i = 1 THEN PackOdd(even23, even01)
                        ELSE IF i = 2 THEN PackEven(odd23, odd01)
                        ELSE PackEven(even23, even01)]

(* Mutant: the two halves of the last interleaving exchanged.              *)
TransposeOutSwapped(p) ==
  LET even == UnpackHi(p[0], p[2])   odd == UnpackHi(p[1], p[3])
      evenLo == UnpackLo(p[0], p[2]) oddLo == UnpackLo(p[1], p[3])
  IN  [i \in 0 .. 3 |-> IF i = 0 THEN UnpackLo(even, odd)
                        ELSE IF i = 1 THEN UnpackHi(even, odd)
                        ELSE IF i = 2 THEN UnpackLo(evenLo, oddLo)
                        ELSE UnpackHi(evenLo, oddLo)]

(* transpose_16words_out, of the registers of the bytes 0 .. 3.            *)
TransposeOut(p) ==
  LET even == UnpackHi(p[0], p[2])   odd == UnpackHi(p[1], p[3])
      evenLo == UnpackLo(p[0], p[2]) oddLo == UnpackLo(p[1], p[3])
  IN  [i \in 0 .. 3 |-> IF i = 0 THEN UnpackHi(even, odd)
                        ELSE IF i = 1 THEN UnpackLo(even, odd)
                        ELSE IF i = 2 THEN UnpackHi(evenLo, oddLo)
                        ELSE UnpackLo(evenLo, oddLo)]

(* from_split: the tables of one byte of the product.                      *)
ByteTable(coeff, pos, lane, nibble) == ByteOf(Split(coeff, pos, nibble), lane)

(* accum_16words: byte `lane` of the products, from the transposed words.  *)
Accumulated(coeff, v, lane) ==
  [k \in 0 .. 15 |->
     PlusOver([pos \in 0 .. 7 |->
                 ByteTable(coeff, pos, lane, Nibble(v[3 - pos \div 2][k], pos % 2))],
              0 .. 7)]

BlockProduct(coeff, s) ==
  LET v == TransposeIn([i \in 0 .. 3 |-> Register(s, i)])
  IN  TransposeOut([lane \in 0 .. 3 |-> Accumulated(coeff, v, lane)])

ShuffledWords(coeff, s) ==
  LET out == BlockProduct(coeff, s)
  IN  [o \in Offsets |-> out[o \div 16][o % 16]]

(***************************************************************************)
(* region_mul_add without the accumulation: coeff * src.  A coefficient of *)
(* 1 is a copy.                                                            *)
(***************************************************************************)
Scaled(w, simd, coeff, s) ==
  IF coeff = One THEN s
  ELSE IF w = 8
  THEN [o \in Offsets |-> IF simd THEN ShuffledByte(coeff, s, o) ELSE ScalarByte(coeff, s, o)]
  ELSE IF simd THEN ShuffledWords(coeff, s)
  ELSE [o \in Offsets |-> ScalarWordByte(coeff, s, o)]

(* matrix_dotprod and its like: terms whose coefficient is zero are        *)
(* skipped, the first other term overwrites dest and later ones are added; *)
(* without any, dest stays as it is.                                       *)
DotProduct(w, simd, coeffs, stripes, dest) ==
  LET terms == {i \in DOMAIN coeffs : coeffs[i] # Zero}
  IN  IF terms = {} THEN dest
      ELSE FoldFunctionOnSet(PlusStripe, ZeroStripe,
                             [i \in terms |-> Scaled(w, simd, coeffs[i], stripes[i])], terms)

=============================================================================
