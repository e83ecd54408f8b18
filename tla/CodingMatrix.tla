---------------------------- MODULE CodingMatrix ----------------------------
(***************************************************************************)
(* The generator matrix of a window and the part of it that a decode uses: *)
(* src/fec/matrix/{info,cauchy,generator}.rs, src/fec/puncture.rs and the  *)
(* row selection of src/fec/streaming/recovery.rs.  Columns are data       *)
(* stripes, rows parity stripes; both are grouped by the slot of their     *)
(* frame, which is its number modulo the window length.                    *)
(***************************************************************************)
EXTENDS Recovery, RegionMultiply

CONSTANTS
  DataStripes,     \* max_data_stripes: columns of a frame.
  ParityStripes    \* max_fec_stripes: rows of a frame.

ASSUME StripesAssumption == /\ DataStripes \in Nat \ {0}
                            /\ ParityStripes \in Nat \ {0}

NumCols == NumFrames * DataStripes
NumRows == NumFrames * ParityStripes
Columns == 0 .. NumCols - 1
Rows == 0 .. NumRows - 1

frame_of_col(col) == col \div DataStripes
frame_of_row(row) == row \div ParityStripes

(* A row covers the columns of its own frame and of the Delay frames       *)
(* before it.                                                              *)
zero_by_frame(row, col) ==
  \A j \in 0 .. Delay : (frame_of_col(col) + j) % NumFrames # frame_of_row(row)

(* original_coding_matrix: 1 / (i XOR (m + j)).                            *)
CauchyEntry(w, row, col) ==
  Reciprocal(w, FALSE, Plus(BitsOf(row), BitsOf(NumRows + col)))

(* set_cauchy_matrix                                                       *)
Generator ==
  [w \in {8, 32} |-> [row \in Rows |-> [col \in Columns |->
     IF zero_by_frame(row, col) THEN Zero ELSE CauchyEntry(w, row, col)]]]

(***************************************************************************)
(* Window positions 1 .. NumFrames, oldest first, when the newest frame    *)
(* has number `timeslot`; losses are sets of columns, arrivals of rows.    *)
(***************************************************************************)
SlotOf(timeslot, p) == (timeslot + p) % NumFrames
ColsAt(timeslot, p) == {c \in Columns : frame_of_col(c) = SlotOf(timeslot, p)}
RowsAt(timeslot, p) == {r \in Rows : frame_of_row(r) = SlotOf(timeslot, p)}

LostCounts(timeslot, lost) ==
  [p \in Window |-> Cardinality(ColsAt(timeslot, p) \cap lost)]
ReceivedCounts(timeslot, arrived) ==
  [p \in Window |-> Cardinality(RowsAt(timeslot, p) \cap arrived)]

(* get_recoverable_data_info                                               *)
RecoverableCols(timeslot, lost, th) ==
  {c \in lost : \E p \in th.recovered : c \in ColsAt(timeslot, p)}

Lowest(S, n) == {r \in S : Cardinality({q \in S : q < r}) < n}

(* Mutant: every received parity of a usable frame is retained.            *)
RetainAll(timeslot, lost, arrived, th) ==
  {r \in arrived : \E p \in Window : ~th.unusable[p] /\ r \in RowsAt(timeslot, p)}

(* get_retained_parity_info: of every frame as many of its first rows as   *)
(* the flow uses.                                                          *)
RetainedRows(timeslot, lost, arrived, th) ==
  LET missing == LostCounts(timeslot, lost)
      wanted == [p \in Window |-> IF p \in th.recovered THEN missing[p] ELSE 0]
      used == UsedParities(wanted, NetParities(ReceivedCounts(timeslot, arrived), th.unusable))
  IN  UNION {Lowest(RowsAt(timeslot, p) \cap arrived, used[p]) :
               p \in {q \in Window : ~th.unusable[q]}}

=============================================================================
