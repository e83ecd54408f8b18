------------------------------ MODULE Session ------------------------------
(***************************************************************************)
(* Session indices and 15-bit wire frame numbers: src/codec/session.rs.    *)
(*                                                                         *)
(* A source frame has a monotonic session index (u64).  On the wire it is  *)
(* the index modulo FRAME_SPACE.  The decoder guesses the index back from  *)
(* the wire number and the last index it resolved.                         *)
(***************************************************************************)
EXTENDS Integers

CONSTANT FRAME_SPACE  (* Distinct wire frame numbers: 32768 in the code.   *)

(* MAX_FRAME_NUM + 1 is a power of two in the code; evenness is all that   *)
(* HALF_FRAME_SPACE relies on.                                             *)
ASSUME FrameSpaceAssumption ==
  /\ FRAME_SPACE \in Nat \ {0}
  /\ FRAME_SPACE % 2 = 0

MAX_FRAME_NUM == FRAME_SPACE - 1
HALF_FRAME_SPACE == (MAX_FRAME_NUM \div 2) + 1

(* Option<u64>::None of SessionIndexTracker.last_session.                  *)
NoSession == -1

wire_frame_num(session) == session % FRAME_SPACE
session_epoch(session) == session \div FRAME_SPACE

(* Mutant: laps counted from 1.                                            *)
EpochFromOne(epoch, wire) == (epoch - 1) * FRAME_SPACE + wire

session_from_parts(epoch, wire) == epoch * FRAME_SPACE + wire

saturating_sub(a, b) == IF a >= b THEN a - b ELSE 0

is_out_of_window_session(session, last, window) ==
  saturating_sub(last, session) >= window

frame_expired_session(new, old, memory) ==
  saturating_sub(new, old) >= memory

(* Mutant: a gap of exactly half the wire space does not start a new lap.  *)
ResolveTooNear(last, wire) ==
  session_from_parts(session_epoch(last)
                       + (IF wire_frame_num(last) - wire > HALF_FRAME_SPACE THEN 1 ELSE 0),
                     wire)

(***************************************************************************)
(* SessionIndexTracker::resolve_wire.  The handler also stores the result  *)
(* as the next `last`, whatever the decoder then does with the datagram.   *)
(***************************************************************************)
ResolveFrom(last, wire) ==
  LET last_wire == wire_frame_num(last)
      epoch == session_epoch(last)
      NextLap == wire < last_wire /\ last_wire - wire > HALF_FRAME_SPACE - 1
      PreviousLap == /\ wire > last_wire
                     /\ wire > HALF_FRAME_SPACE
                     /\ last_wire = 0
                     /\ epoch > 0
  IN  session_from_parts(IF NextLap THEN epoch + 1
                         ELSE IF PreviousLap THEN epoch - 1
                         ELSE epoch,
                         wire)

resolve_wire(last, wire) ==
  IF last = NoSession THEN wire ELSE ResolveFrom(last, wire)

=============================================================================
