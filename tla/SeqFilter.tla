----------------------------- MODULE SeqFilter -----------------------------
(***************************************************************************)
(* The duplicate filter of the decoder, src/codec/seq_dedup.rs, over a     *)
(* stream of datagrams, against the set of sequence numbers it should know.*)
(*                                                                         *)
(* ingest_datagram inserts the number of every datagram; purge_frame and   *)
(* the refusals remove numbers that were inserted.                         *)
(***************************************************************************)
EXTENDS SeqDedup

CONSTANTS
  MAX_SKIP,   (* Sequence numbers the stream may jump ahead.               *)
  MAX_SEQ     (* Bound: the last sequence number sent.                     *)

ASSUME FilterAssumption ==
  MAX_SKIP \in Nat \ {0} /\ MAX_SEQ \in 0 .. SEQ_SPACE - TRACK_BITS - 1

VARIABLES
  seen_seq,   (* SeqDedup                                                  *)
  known,      (* Reference: the numbers accepted and not removed since.    *)
  top,        (* History: the numbers below it were sent before.           *)
  refused     (* History: the last datagram was called a duplicate.        *)

filter_vars == <<seen_seq, known, top, refused>>

FilterInit == seen_seq = EmptyDedup /\ known = {} /\ top = 0 /\ refused = {}

(* A datagram arrives: new, late or repeated.                              *)
Insert(seq) ==
  LET result == insert(seen_seq, seq)
  IN  /\ seq <= MAX_SEQ
      /\ seen_seq' = result.state
      /\ known' = IF result.ok THEN known \cup {seq} ELSE known
      /\ refused' = IF result.ok THEN {} ELSE {seq}
      /\ top' = IF seq >= top THEN seq + 1 ELSE top

RemoveSeq(seq) ==
  /\ seen_seq' = remove(seen_seq, seq)
  /\ known' = known \ {seq}
  /\ refused' = {}
  /\ UNCHANGED top

FilterNext ==
  \/ \E seq \in 0 .. top + MAX_SKIP - 1 : Insert(seq)
  \/ \E seq \in known : RemoveSeq(seq)

FilterSpec == FilterInit /\ [][FilterNext]_filter_vars

-----------------------------------------------------------------------------
Tracked == seen_seq.base .. seen_seq.base + TRACK_BITS - 1

(* Within the tracked window the bitmap is the set of known numbers: what  *)
(* compact_to, insert and remove do to it never moves, loses or invents a  *)
(* bit, so a number is refused there exactly when it is known.             *)
BitmapIsKnown ==
  {seen_seq.base + o : o \in seen_seq.bits} = known \cap Tracked

(* codec/mod.rs, ReceiveStatus::Duplicate: the same sequence number was    *)
(* already seen.  Numbers that fell out of the window are not considered.  *)
RefusedWasSeen == refused \cap Tracked \subseteq known

=============================================================================
