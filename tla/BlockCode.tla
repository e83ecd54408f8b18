----------------------------- MODULE BlockCode -----------------------------
(***************************************************************************)
(* The sliding window of a block code, as the decoder uses it twice: for   *)
(* the payload stripes (src/fec/block_code.rs under src/fec/streaming/) and *)
(* for the frame sizes in the datagram headers (src/fec/header.rs).        *)
(*                                                                         *)
(* The columns (data) and rows (parity) of a frame live in one of          *)
(* NumFrames slots.  A code is a record:                                   *)
(*   ts       the newest wire number, the window's last frame;             *)
(*   erased   the unknown columns of each slot;                            *)
(*   parity   the known rows of each slot.                                 *)
(* What the bytes are is told by three history fields:                     *)
(*   newest   the frame that last moved the window;                        *)
(*   owner    the frames whose bytes were placed in each slot since it was *)
(*            last cleared;                                                *)
(*   damaged  the slots solved from rows and columns that do not belong    *)
(*            together, which therefore hold other bytes than were sent.   *)
(***************************************************************************)
EXTENDS Recovery, Session

NoTimeslot == -1
Slots == 0 .. NumFrames - 1

(* Timeslots are u16, wire numbers 15 bits wide.                           *)
TS_SPACE == 2 * FRAME_SPACE

(* The encoder never reduces its timeslot to 15 bits; the decoder places   *)
(* by the wire number.                                                     *)
EncoderSlot(frame) == (frame % TS_SPACE) % NumFrames
DecoderSlot(wire) == wire % NumFrames

(* The initial zeros stand for the frames before frame 0.                  *)
BeforeFirst == -1

(* initialize_data: columns are known zeros, rows are unknown.             *)
EmptyCode ==
  [ts |-> NoTimeslot, newest |-> NoSession,
   erased |-> [s \in Slots |-> {}], parity |-> [s \in Slots |-> {}],
   owner |-> [s \in Slots |-> {BeforeFirst}], damaged |-> {}]

(* Mutant: a late datagram moves the window back.                          *)
MovesEitherWay(ts, wire) == ts # wire

(* updated_ts / advance_to_wire_frame: does this wire number move the      *)
(* window, and through which timeslots?  Each of them clears its slot.     *)
MovesWindow(ts, wire) ==
  \/ ts = NoTimeslot
  \/ wire > ts
  \/ ts - wire > MAX_FRAME_NUM \div 2

Entered(ts, wire) ==
  IF ts = NoTimeslot THEN 0 .. wire
  ELSE {(ts + k) % TS_SPACE : k \in 1 .. ((wire - ts) % TS_SPACE)}

(* Mutant: the slot the new frame takes over keeps its old contents.       *)
AdvanceWithoutClearing(bc, wire, frame, columns) ==
  IF MovesWindow(bc.ts, wire) THEN [bc EXCEPT !.ts = wire, !.newest = frame] ELSE bc

Advance(bc, wire, frame, columns) ==
  LET cleared == {t % NumFrames : t \in Entered(bc.ts, wire)}
  IN  IF ~ MovesWindow(bc.ts, wire) THEN bc
      ELSE [ts |-> wire, newest |-> frame,
            erased |-> [s \in Slots |-> IF s \in cleared THEN 1 .. columns ELSE bc.erased[s]],
            parity |-> [s \in Slots |-> IF s \in cleared THEN {} ELSE bc.parity[s]],
            owner |-> [s \in Slots |-> IF s \in cleared THEN {} ELSE bc.owner[s]],
            damaged |-> bc.damaged \ cleared]

PlaceData(bc, slot, column, frame) ==
  [bc EXCEPT !.erased[slot] = @ \ {column}, !.owner[slot] = @ \cup {frame}]

PlaceParity(bc, slot, row, frame) ==
  [bc EXCEPT !.parity[slot] = @ \cup {row}, !.owner[slot] = @ \cup {frame}]

(* Mutant: the last used column is padded too.                             *)
PadUsedColumn(bc, used, columns) ==
  [bc EXCEPT !.erased = [s \in Slots |-> @[s] \ (used[s] .. columns)]]

(* pad: the columns that the frame of a slot leaves empty are known zeros. *)
(* used[s] is `columns` when the size of that frame is not known.          *)
Pad(bc, used, columns) ==
  [bc EXCEPT !.erased = [s \in Slots |-> @[s] \ (used[s] + 1 .. columns)]]

(***************************************************************************)
(* decode.  Position p of the window (1 oldest .. NumFrames newest) is a   *)
(* slot; Recovery says which positions are solved.                         *)
(***************************************************************************)
SlotAt(bc, p) == (bc.ts + p) % NumFrames
FrameAt(bc, p) ==
  LET frame == bc.newest - (NumFrames - p)
  IN  IF frame < 0 THEN BeforeFirst ELSE frame

(* The rows and columns of the window are those of the frames FrameAt says *)
(* and the rows were computed with the coefficients of the same slots.     *)
Consistent(bc) ==
  /\ bc.damaged = {}
  /\ \A p \in Window :
       LET s == SlotAt(bc, p)
       IN  /\ bc.owner[s] \subseteq {FrameAt(bc, p)}
           /\ bc.parity[s] # {} => EncoderSlot(FrameAt(bc, p)) = s

(* The window as the decision reads it: unknown columns and known rows.    *)
MissingColumns(bc) == [p \in Window |-> Cardinality(bc.erased[SlotAt(bc, p)])]
KnownRows(bc) == [p \in Window |-> Cardinality(bc.parity[SlotAt(bc, p)])]

Solve(bc, positions) ==
  LET slots == {SlotAt(bc, p) : p \in positions}
  IN  [bc EXCEPT
        !.erased = [s \in Slots |-> IF s \in slots THEN {} ELSE @[s]],
        !.owner = [s \in Slots |->
                     IF s \in slots
                     THEN @[s] \cup {FrameAt(bc, p) : p \in {q \in positions : SlotAt(bc, q) = s}}
                     ELSE @[s]],
        !.damaged = @ \cup (IF Consistent(bc) THEN {} ELSE slots)]

(* The frame whose bytes a slot holds, and whether they are as sent.       *)
FrameIn(bc, slot) ==
  CHOOSE f \in bc.owner[slot] \cup {BeforeFirst} : bc.owner[slot] # {} => f \in bc.owner[slot]
Intact(bc, slot) == Cardinality(bc.owner[slot]) = 1 /\ slot \notin bc.damaged

=============================================================================
