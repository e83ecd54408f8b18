---------------------------- MODULE MatrixDecode ----------------------------
(***************************************************************************)
(* One call of BlockCode::decode (src/fec/block_code.rs) down to the bytes *)
(* of the stripes: the choice of equations, the inversion of the erased    *)
(* columns' submatrix (invert_matrix_impl), the right-hand sides and the   *)
(* erased stripes (matrix_decode_payloads_impl in                          *)
(* src/fec/matrix/jerasure.rs).  A step is one round of one of its loops.  *)
(***************************************************************************)
EXTENDS CodingMatrix

CONSTANT
  Setups   \* Calls: [w, simd, clmul, timeslot, lost, arrived].

VARIABLES
  setup,      \* The call: field, machine, window, erased columns, parity.
  pc,         \* The loop the call is in, or how it ended.
  i,          \* The round of that loop.
  unknowns,   \* erased_data: the columns to solve, ascending.
  equations,  \* survivor_parity: the rows to solve them from.
  mat, inv,   \* invert_matrix_impl's matrices, as sequences of rows.
  scratch,    \* The right-hand sides.
  data,       \* data_matrix.
  erased      \* The columns still marked erased.

vars == <<setup, pc, i, unknowns, equations, mat, inv, scratch, data, erased>>

(* What the sender put into the stripes, all bytes of a stripe different,  *)
(* and the parity it computed, on a machine without vector kernels.        *)
Sent == [c \in Columns |-> [o \in Offsets |-> BitsOf((37 * o + 101 * c + 11) % 256)]]
Parity ==
  [w \in {8, 32} |-> [r \in Rows |->
     DotProduct(w, FALSE, Generator[w][r], Sent, ZeroStripe)]]

Mul(a, b) == Multiply(setup.w, setup.clmul, a, b)
Size == Len(unknowns)
Ascend(S) == SetToSortSeq(S, LAMBDA a, b : a < b)

Init ==
  /\ setup \in Setups
  /\ pc = "select"
  /\ i = 1
  /\ unknowns = <<>> /\ equations = <<>>
  /\ mat = <<>> /\ inv = <<>> /\ scratch = <<>>
  /\ data = [c \in Columns |-> IF c \in setup.lost THEN ZeroStripe ELSE Sent[c]]
  /\ erased = setup.lost

(* The coefficients of the unknowns in the first `n` retained equations.   *)
Submatrix(rows, cols) ==
  [eq \in 1 .. Len(cols) |-> [e \in 1 .. Len(cols) |->
     Generator[setup.w][rows[eq]][cols[e]]]]

Identity(n) == [a \in 1 .. n |-> [b \in 1 .. n |-> IF a = b THEN One ELSE Zero]]

(* recoverable_data and the early returns: nothing to solve, or fewer      *)
(* equations than unknowns (erasures_to_erased: TooManyErasures).          *)
Select ==
  /\ pc = "select"
  /\ LET th == Theoretical(LostCounts(setup.timeslot, setup.lost),
                           ReceivedCounts(setup.timeslot, setup.arrived))
         cols == Ascend(RecoverableCols(setup.timeslot, setup.lost, th))
         rows == Ascend(RetainedRows(setup.timeslot, setup.lost, setup.arrived, th))
     IN  IF cols = <<>> \/ Len(rows) < Len(cols)
         THEN /\ pc' = IF cols = <<>> THEN "nothing" ELSE "failed"
              /\ UNCHANGED <<unknowns, equations, mat, inv>>
         ELSE /\ pc' = "eliminate"
              /\ unknowns' = cols
              /\ equations' = SubSeq(rows, 1, Len(cols))
              /\ mat' = Submatrix(rows, cols)
              /\ inv' = Identity(Len(cols))
  /\ UNCHANGED <<setup, i, scratch, data, erased>>

NextRound(after) ==
  IF i < Size THEN pc' = pc /\ i' = i + 1 ELSE pc' = after /\ i' = 1

(***************************************************************************)
(* invert_matrix_impl.  Every operation is applied to mat and to inv, with *)
(* the factors taken from mat.                                             *)
(***************************************************************************)
Swapped(m, a, b) == [m EXCEPT ![a] = m[b], ![b] = m[a]]
RowTimes(row, factor) == [x \in DOMAIN row |-> Mul(row[x], factor)]
RowPlus(row, factor, other) ==
  [x \in DOMAIN row |-> Plus(row[x], Mul(factor, other[x]))]

Forward(m, pivot) ==
  LET lead == Swapped(mat, i, pivot)
      swapped == Swapped(m, i, pivot)
      unit == RowTimes(swapped[i], Reciprocal(setup.w, setup.clmul, lead[i][i]))
  IN  [a \in DOMAIN m |-> IF a = i THEN unit
                          ELSE IF a > i THEN RowPlus(swapped[a], lead[a][i], unit)
                          ELSE swapped[a]]

(* The first row from i on that has a pivot is brought to row i, scaled to *)
(* a one and subtracted from the rows below.                               *)
Pivots == {a \in i .. Size : mat[a][i] # Zero}

Eliminate ==
  /\ pc = "eliminate"
  /\ Pivots # {}
  /\ mat' = Forward(mat, Min(Pivots))
  /\ inv' = Forward(inv, Min(Pivots))
  /\ NextRound("substitute")
  /\ UNCHANGED <<setup, unknowns, equations, scratch, data, erased>>

(* SingularMatrix: decode reports that nothing was recovered.              *)
Singular ==
  /\ pc = "eliminate"
  /\ Pivots = {}
  /\ pc' = "failed"
  /\ UNCHANGED <<setup, i, unknowns, equations, mat, inv, scratch, data, erased>>

(* Mutant: the last row is not substituted.                                *)
BackwardRowOff == Size - i

(* From the last row up.                                                   *)
BackwardRow == Size + 1 - i

Substitute ==
  /\ pc = "substitute"
  /\ LET last == BackwardRow
     IN  /\ mat' = [a \in 1 .. Size |-> IF a < last THEN [mat[a] EXCEPT ![last] = Zero]
                                        ELSE mat[a]]
         /\ inv' = [a \in 1 .. Size |-> IF a < last THEN RowPlus(inv[a], mat[a][last], inv[last])
                                        ELSE inv[a]]
  /\ NextRound("subtract")
  /\ UNCHANGED <<setup, unknowns, equations, scratch, data, erased>>

(***************************************************************************)
(* matrix_decode_payloads_impl after the inversion.  All columns but the   *)
(* unknowns count as known; those of frames given up hold zeroes.          *)
(***************************************************************************)
Known == Columns \ Range(unknowns)

Subtract ==
  /\ pc = "subtract"
  /\ LET row == equations[i]
         coeffs == [c \in Known |-> Generator[setup.w][row][c]]
     IN  scratch' = Append(scratch,
                           PlusStripe(Parity[setup.w][row],
                                      DotProduct(setup.w, setup.simd, coeffs, data, ZeroStripe)))
  /\ NextRound("recover")
  /\ UNCHANGED <<setup, unknowns, equations, mat, inv, data, erased>>

RecoverStripe ==
  /\ pc = "recover"
  /\ data' = [data EXCEPT ![unknowns[i]] =
                DotProduct(setup.w, setup.simd, inv[i], scratch, @)]
  /\ NextRound("unmark")
  /\ UNCHANGED <<setup, unknowns, equations, mat, inv, scratch, erased>>

(* BlockCode::decode: the solved columns are no longer erased.             *)
Unmark ==
  /\ pc = "unmark"
  /\ pc' = "solved"
  /\ erased' = erased \ Range(unknowns)
  /\ UNCHANGED <<setup, i, unknowns, equations, mat, inv, scratch, data>>

Next == \/ Select \/ Eliminate \/ Singular \/ Substitute
        \/ Subtract \/ RecoverStripe \/ Unmark

Spec == Init /\ [][Next]_vars

(***************************************************************************)
(* Properties                                                              *)
(***************************************************************************)

(* invert_matrix_impl, with whatever multiplication the machine has: at    *)
(* every round inv times the submatrix, multiplied bit by bit, is mat, and *)
(* after the last round mat is the identity.                               *)
Element(w, row, column) ==
  PlusOver([x \in DOMAIN row |-> gf_mul_bit(w, row[x], column[x])], DOMAIN row)

InverseIsExact ==
  pc \in {"eliminate", "substitute", "subtract"} =>
    LET A == Submatrix(equations, unknowns)
        column(b) == [x \in 1 .. Size |-> A[x][b]]
    IN  /\ mat = [a \in 1 .. Size |-> [b \in 1 .. Size |-> Element(setup.w, inv[a], column(b))]]
        /\ pc = "subtract" => mat = Identity(Size)

(* Whatever kernels the two machines use: a stripe that is not marked      *)
(* erased holds, byte for byte, what the sender put into it.               *)
UnmarkedIsSent == \A c \in Columns \ erased : data[c] = Sent[c]

(* A call in which every frame with losses is new enough for its own       *)
(* parity to be used, and has as much of it as losses, never fails: the    *)
(* equations chosen for it are never singular.                             *)
OwnParitySuffices ==
  (\A p \in Window : LET missing == LostCounts(setup.timeslot, setup.lost)
                         received == ReceivedCounts(setup.timeslot, setup.arrived)
                     IN  missing[p] > 0 => p > Delay /\ missing[p] <= received[p])
  => pc \notin {"nothing", "failed"} \/ setup.lost = {}

=============================================================================
