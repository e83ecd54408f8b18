------------------------------ MODULE SeqDedup ------------------------------
(***************************************************************************)
(* Duplicate detection over datagram sequence numbers:                     *)
(* src/codec/seq_dedup.rs.                                                 *)
(*                                                                         *)
(* A dedup state is a record [base, len, bits]: `base` is the first        *)
(* sequence number covered, `len` the length of the Vec of machine words,  *)
(* `bits` the offsets from base whose bit is set (bit b of word w is the   *)
(* offset w * WORD_BITS + b).                                              *)
(***************************************************************************)
EXTENDS Integers

CONSTANTS
  TRACK_BITS,  (* Offsets covered from base: 8192 in the code.             *)
  WORD_BITS,   (* Bits of a word: 64 in the code.                          *)
  SEQ_SPACE    (* Number of u32 values: 2^32 in the code.                  *)

ASSUME DedupAssumption ==
  /\ TRACK_BITS \in Nat \ {0} /\ WORD_BITS \in Nat \ {0}
  /\ SEQ_SPACE \in Nat \ {0}
  /\ TRACK_BITS % WORD_BITS = 0
  /\ TRACK_BITS < SEQ_SPACE

EmptyDedup == [base |-> 0, len |-> 0, bits |-> {}]

WordOf(offset) == offset \div WORD_BITS
BitOf(offset) == offset % WORD_BITS

(* u32 addition as the release build compiles it.                          *)
WrappingAdd(a, b) == (a + b) % SEQ_SPACE

(***************************************************************************)
(* The words of d moved down by `shift` bits.  What the low bit_shift bits *)
(* of word i are, after `word << (64 - bit_shift)`, goes into the word     *)
(* AFTER the one that receives the rest of word i, and is dropped for the  *)
(* last word.                                                              *)
(***************************************************************************)
ShiftedBits(d, shift) ==
  LET word_shift == WordOf(shift)
      bit_shift == BitOf(shift)
      kept == {o \in d.bits : WordOf(o) >= word_shift}
  IN  {o - shift : o \in {k \in kept : BitOf(k) >= bit_shift}}
        \cup {o - shift + 2 * WORD_BITS :
                o \in {k \in kept : BitOf(k) < bit_shift
                                    /\ WordOf(k) + 1 < d.len}}

(* Mutant: the window moves but the bits stay where they are.              *)
CompactKeepsBits(d, new_base) ==
  IF new_base <= d.base THEN d ELSE [d EXCEPT !.base = new_base]

compact_to(d, new_base) ==
  LET shift == new_base - d.base
  IN  IF new_base <= d.base THEN d
      ELSE IF shift >= TRACK_BITS
           THEN [base |-> new_base, len |-> 0, bits |-> {}]
           ELSE [base |-> new_base,
                 len |-> IF d.len > WordOf(shift) THEN d.len - WordOf(shift) ELSE 0,
                 bits |-> ShiftedBits(d, shift)]

(***************************************************************************)
(* insert returns [ok, state]: ok is FALSE for what it calls a duplicate,  *)
(* and then the state is the compacted one when the compaction came first. *)
(***************************************************************************)
insert(d, seq) ==
  LET half == TRACK_BITS \div 2
      c == IF seq >= WrappingAdd(d.base, TRACK_BITS)
           THEN compact_to(d, IF seq >= half THEN seq - half ELSE 0)
           ELSE d
      offset == seq - c.base
  IN  IF WrappingAdd(seq, TRACK_BITS) < d.base THEN [ok |-> FALSE, state |-> d]
      ELSE IF seq < c.base THEN [ok |-> FALSE, state |-> c]
      ELSE LET grown == [c EXCEPT !.len = IF @ <= WordOf(offset)
                                          THEN WordOf(offset) + 1 ELSE @]
           IN  IF offset \in c.bits
               THEN [ok |-> FALSE, state |-> grown]
               ELSE [ok |-> TRUE,
                     state |-> [grown EXCEPT !.bits = @ \cup {offset}]]

RemoveAll(d, seqs) ==
  [d EXCEPT !.bits = @ \ {seq - d.base : seq \in {s \in seqs : /\ s >= d.base
                                                              /\ s - d.base < TRACK_BITS}}]

remove(d, seq) == RemoveAll(d, {seq})

=============================================================================
