-------------------------- MODULE Numbering_proofs --------------------------
(***************************************************************************)
(* Proofs about the numbers of datagrams: the session index that is made   *)
(* of a wire number (SessionTracker), for every wire space and bound, and  *)
(* the duplicate filter's bitmap of sequence numbers (SeqFilter), for      *)
(* every width of the bitmap and of its words.                             *)
(***************************************************************************)
EXTENDS SessionTracker, SeqFilter, CommonLemmas

LEMMA DivisionByFrameSpace ==
  ASSUME NEW x \in Nat
  PROVE  /\ wire_frame_num(x) \in 0 .. FRAME_SPACE - 1
         /\ session_epoch(x) \in Nat
         /\ x = session_from_parts(session_epoch(x), wire_frame_num(x))
<1>1. FRAME_SPACE \in Nat \ {0}
  BY FrameSpaceAssumption
<1> QED
  BY <1>1, DivisionWithRemainder DEF wire_frame_num, session_epoch, session_from_parts

LEMMA HalfIsHalf ==
  /\ HALF_FRAME_SPACE \in Nat \ {0}
  /\ 2 * HALF_FRAME_SPACE = FRAME_SPACE
BY FrameSpaceAssumption, Z3 DEF HALF_FRAME_SPACE, MAX_FRAME_NUM

(* Two sessions less than a wire space apart are in the same lap or in     *)
(* consecutive ones.                                                       *)
LEMMA NextLapOrSame ==
  ASSUME NEW last \in Nat, NEW frame \in Nat,
         last <= frame, frame - last < FRAME_SPACE
  PROVE  \/ session_epoch(frame) = session_epoch(last)
         \/ session_epoch(frame) = session_epoch(last) + 1
<1> DEFINE e == session_epoch(last)
           g == session_epoch(frame)
<1>1. FRAME_SPACE \in Nat /\ FRAME_SPACE > 0
  BY FrameSpaceAssumption
<1>2. /\ e \in Nat /\ g \in Nat
      /\ wire_frame_num(last) \in 0 .. FRAME_SPACE - 1
      /\ wire_frame_num(frame) \in 0 .. FRAME_SPACE - 1
      /\ last = e * FRAME_SPACE + wire_frame_num(last)
      /\ frame = g * FRAME_SPACE + wire_frame_num(frame)
  BY DivisionByFrameSpace DEF session_from_parts
<1> HIDE DEF e, g
<1>3. /\ (g - e) * FRAME_SPACE < 2 * FRAME_SPACE
      /\ (g - e) * FRAME_SPACE > - FRAME_SPACE
  BY <1>1, <1>2, Z3
<1>4. g - e < 2 /\ g - e > -1
  <2> DEFINE k == g - e
  <2>1. k \in Int
    BY <1>2
  <2> HIDE DEF k
  <2>2. k >= 2 => k * FRAME_SPACE >= 2 * FRAME_SPACE
    BY <2>1, <1>1, Z3
  <2>3. k <= -1 => k * FRAME_SPACE <= - FRAME_SPACE
    BY <2>1, <1>1, Z3
  <2>4. k * FRAME_SPACE < 2 * FRAME_SPACE /\ k * FRAME_SPACE > - FRAME_SPACE
    BY <1>3 DEF k
  <2>5. k * FRAME_SPACE \in Int
    BY <2>1, <1>1
  <2>6. k < 2 /\ k > -1
    BY <1>1, <2>1, <2>2, <2>3, <2>4, <2>5
  <2> QED
    BY <2>6 DEF k
<1>5. g = e \/ g = e + 1
  BY <1>2, <1>4
<1> QED
  BY <1>5 DEF e, g

(***************************************************************************)
(* A frame at most half the wire space ahead of the last one resolved is   *)
(* given its own session index (SessionIndexTracker::resolve_wire), in     *)
(* every lap and at every position in the lap.                             *)
(***************************************************************************)
THEOREM ResolveInOrder ==
  ASSUME NEW last \in Nat, NEW frame \in Nat,
         last <= frame, frame - last <= HALF_FRAME_SPACE
  PROVE  resolve_wire(last, wire_frame_num(frame)) = frame
<1> DEFINE e == session_epoch(last)
           g == session_epoch(frame)
           r == wire_frame_num(last)
           w == wire_frame_num(frame)
<1>1. /\ HALF_FRAME_SPACE \in Nat \ {0} /\ 2 * HALF_FRAME_SPACE = FRAME_SPACE
      /\ FRAME_SPACE \in Nat /\ FRAME_SPACE > 0
  BY HalfIsHalf, FrameSpaceAssumption
<1>2. /\ e \in Nat /\ g \in Nat
      /\ r \in 0 .. FRAME_SPACE - 1 /\ w \in 0 .. FRAME_SPACE - 1
      /\ last = session_from_parts(e, r)
      /\ frame = session_from_parts(g, w)
  BY DivisionByFrameSpace
<1>3. g = e \/ g = e + 1
  BY <1>1, NextLapOrSame
<1>4. ResolveFrom(last, w) =
        session_from_parts(IF w < r /\ r - w > HALF_FRAME_SPACE - 1 THEN e + 1
                           ELSE IF w > r /\ w > HALF_FRAME_SPACE /\ r = 0 /\ e > 0
                           THEN e - 1 ELSE e, w)
  BY DEF ResolveFrom
<1>5. last # NoSession
  BY DEF NoSession
<1> HIDE DEF e, g, r, w
<1>6. CASE g = e
  <2>1. w - r = frame - last
    BY <1>6, <1>2, <1>1, Z3 DEF session_from_parts
  <2>2. ~ (w < r) /\ ~ (w > HALF_FRAME_SPACE /\ r = 0)
    BY <2>1, <1>1, <1>2
  <2>3. ResolveFrom(last, w) = session_from_parts(e, w)
    BY <1>4, <2>2
  <2> QED
    BY <2>3, <1>2, <1>5, <1>6 DEF resolve_wire, w
<1>7. CASE g = e + 1
  <2>1. frame - last = FRAME_SPACE + w - r
    BY <1>7, <1>2, <1>1, Z3 DEF session_from_parts
  <2>2. w < r /\ r - w > HALF_FRAME_SPACE - 1
    BY <2>1, <1>1, <1>2
  <2>3. ResolveFrom(last, w) = session_from_parts(e + 1, w)
    BY <1>4, <2>2
  <2> QED
    BY <2>3, <1>2, <1>5, <1>7 DEF resolve_wire, w
<1> QED
  BY <1>3, <1>6, <1>7

(* A session index is never negative: no u64 underflow of epoch - 1.       *)
LEMMA ResolveIsNatural ==
  ASSUME NEW last \in Nat \cup {NoSession}, NEW wire \in Nat
  PROVE  resolve_wire(last, wire) \in Nat
<1>1. FRAME_SPACE \in Nat
  BY FrameSpaceAssumption
<1>2. ASSUME NEW epoch \in Nat
      PROVE  session_from_parts(epoch, wire) \in Nat
  BY <1>1, <1>2, Z3 DEF session_from_parts
<1>3. CASE last = NoSession
  BY <1>3 DEF resolve_wire
<1>4. CASE last # NoSession
  <2>1. last \in Nat
    BY <1>4
  <2>2. session_epoch(last) \in Nat
    BY <2>1, DivisionByFrameSpace
  <2>3. /\ session_from_parts(session_epoch(last) + 1, wire) \in Nat
        /\ session_from_parts(session_epoch(last), wire) \in Nat
        /\ session_epoch(last) > 0 => session_from_parts(session_epoch(last) - 1, wire) \in Nat
    BY <1>2, <2>2
  <2> QED
    BY <1>4, <2>3 DEF resolve_wire, ResolveFrom
<1> QED
  BY <1>3, <1>4

-----------------------------------------------------------------------------
LEMMA FrameIsNatural ==
  ASSUME TrackerNext
  PROVE  \E frame \in Nat : /\ Arrive(frame)
                            /\ wire_frame_num(frame) \in Nat
<1>1. PICK frame \in Nat : Arrive(frame)
  <2>1. CASE First
    <3>1. MAX_FRAME_NUM \in Nat
      BY FrameSpaceAssumption DEF MAX_FRAME_NUM
    <3> QED
      BY <2>1, <3>1 DEF First
  <2>2. CASE Later
    BY <2>2, TrackerAssumption DEF Later
  <2> QED
    BY <2>1, <2>2 DEF TrackerNext
<1>2. wire_frame_num(frame) \in Nat
  BY DivisionByFrameSpace, FrameSpaceAssumption
<1> QED
  BY <1>1, <1>2

(***************************************************************************)
(* Type correctness, late datagrams included: an index is never negative   *)
(* (no u64 underflow of epoch - 1 in resolve_wire).                        *)
(***************************************************************************)
THEOREM TypeCorrect == TrackerSpec => []TrackerTypeOK
<1>1. TrackerInit => TrackerTypeOK
  BY DEF TrackerInit, TrackerTypeOK
<1>2. TrackerTypeOK /\ [TrackerNext]_tracker_vars => TrackerTypeOK'
  <2> SUFFICES ASSUME TrackerTypeOK, [TrackerNext]_tracker_vars PROVE TrackerTypeOK'
    OBVIOUS
  <2>1. CASE TrackerNext
    <3>1. PICK frame \in Nat : Arrive(frame) /\ wire_frame_num(frame) \in Nat
      BY <2>1, FrameIsNatural
    <3>2. last_session' \in Nat
      BY <3>1, ResolveIsNatural DEF Arrive, TrackerTypeOK
    <3> QED
      BY <3>1, <3>2 DEF Arrive, TrackerTypeOK
  <2>2. CASE UNCHANGED tracker_vars
    BY <2>2 DEF tracker_vars, TrackerTypeOK
  <2> QED
    BY <2>1, <2>2
<1> QED
  BY <1>1, <1>2, PTL DEF TrackerSpec

(***************************************************************************)
(* The tracker follows a stream without late datagrams through any number  *)
(* of laps.  TrackerFollows alone is not inductive: a step compares the    *)
(* next frame with the newest one, so that must be the last one too.       *)
(***************************************************************************)
Following ==
  /\ TrackerFollows /\ newest = arrived
  /\ arrived \in Nat \cup {NoSession}

THEOREM TrackerFollowsStream ==
  ASSUME MAX_LATE = 0
  PROVE  TrackerSpec => []TrackerFollows
<1>1. TrackerInit => Following
  BY DEF TrackerInit, Following, TrackerFollows
<1>2. Following /\ [TrackerNext]_tracker_vars => Following'
  <2> SUFFICES ASSUME Following, [TrackerNext]_tracker_vars PROVE Following'
    OBVIOUS
  <2>1. CASE First
    <3>1. MAX_FRAME_NUM \in Nat /\ MAX_FRAME_NUM = FRAME_SPACE - 1
      BY FrameSpaceAssumption DEF MAX_FRAME_NUM
    <3>2. PICK frame \in 0 .. MAX_FRAME_NUM : Arrive(frame)
      BY <2>1 DEF First
    <3>3. wire_frame_num(frame) = frame
      BY <3>1, <3>2, FrameSpaceAssumption, Z3 DEF wire_frame_num
    <3>4. last_session = NoSession /\ newest = NoSession
      BY <2>1 DEF First, Following, TrackerFollows
    <3>5. last_session' = frame /\ arrived' = frame /\ newest' = frame
      BY <3>1, <3>2, <3>3, <3>4 DEF Arrive, resolve_wire, NoSession
    <3> QED
      BY <3>1, <3>5 DEF Following, TrackerFollows
  <2>2. CASE Later
    <3>1. PICK frame \in 0 .. MAX_SESSION : /\ frame - newest <= MAX_GAP
                                            /\ newest - frame <= 0
                                            /\ Arrive(frame)
      BY <2>2 DEF Later
    <3>2. last_session = newest /\ newest \in Nat
      BY <2>2 DEF Later, Following, TrackerFollows
    <3>3. HALF_FRAME_SPACE \in Nat
      BY HalfIsHalf
    <3>4. frame \in Nat /\ newest <= frame /\ frame - newest <= HALF_FRAME_SPACE
      BY <3>1, <3>2, <3>3, TrackerAssumption
    <3>5. resolve_wire(newest, wire_frame_num(frame)) = frame
      BY <3>2, <3>4, ResolveInOrder
    <3> QED
      BY <3>1, <3>2, <3>4, <3>5 DEF Arrive, Following, TrackerFollows
  <2>3. CASE UNCHANGED tracker_vars
    BY <2>3 DEF tracker_vars, Following, TrackerFollows
  <2> QED
    BY <2>1, <2>2, <2>3 DEF TrackerNext
<1>3. Following => TrackerFollows
  BY DEF Following
<1> QED
  BY <1>1, <1>2, <1>3, PTL DEF TrackerSpec

-----------------------------------------------------------------------------
(***************************************************************************)
(* The duplicate filter.  Its window may move by whole words, or by so     *)
(* much that nothing of the old window is left.                            *)
(***************************************************************************)
WholeMove(shift) == shift % WORD_BITS = 0 \/ shift >= TRACK_BITS

MovesByWords == WholeMove(seen_seq'.base - seen_seq.base)

(* The inductive invariant: all that is known lies below the end of the    *)
(* window, which stays within the sequence space.                          *)
FilterOK ==
  /\ seen_seq \in [base : Nat, len : Nat, bits : SUBSET (0 .. TRACK_BITS - 1)]
  /\ top \in 0 .. MAX_SEQ + 1 /\ top <= seen_seq.base + TRACK_BITS
  /\ seen_seq.base = 0 \/ seen_seq.base < top
  /\ known \subseteq 0 .. top - 1
  /\ BitmapIsKnown

LEMMA FilterNumbers ==
  /\ TRACK_BITS \in Nat \ {0} /\ WORD_BITS \in Nat \ {0} /\ SEQ_SPACE \in Nat
  /\ MAX_SKIP \in Nat \ {0} /\ MAX_SEQ \in Nat /\ MAX_SEQ + TRACK_BITS < SEQ_SPACE
  /\ TRACK_BITS \div 2 \in Nat /\ TRACK_BITS \div 2 < TRACK_BITS
  /\ TRACK_BITS < SEQ_SPACE
<1>1. /\ TRACK_BITS \in Nat \ {0} /\ WORD_BITS \in Nat \ {0} /\ SEQ_SPACE \in Nat
      /\ TRACK_BITS < SEQ_SPACE /\ MAX_SKIP \in Nat \ {0}
      /\ MAX_SEQ \in 0 .. SEQ_SPACE - TRACK_BITS - 1
  BY DedupAssumption, FilterAssumption
<1>2. TRACK_BITS \div 2 \in Nat /\ TRACK_BITS \div 2 < TRACK_BITS
  BY <1>1, Z3
<1> QED
  BY <1>1, <1>2

LEMMA NoWrap ==
  ASSUME NEW a \in Nat, a + TRACK_BITS < SEQ_SPACE
  PROVE  WrappingAdd(a, TRACK_BITS) = a + TRACK_BITS
<1>1. TRACK_BITS \in Nat /\ SEQ_SPACE \in Nat \ {0}
  BY DedupAssumption
<1> DEFINE s == a + TRACK_BITS
<1>2. s \in Nat /\ s < SEQ_SPACE
  BY <1>1
<1> HIDE DEF s
<1>3. s % SEQ_SPACE = s
  BY <1>1, <1>2, Z3
<1> QED
  BY <1>3 DEF s, WrappingAdd

(* A move by whole words moves every bit that stays in the window down by  *)
(* the shift, and drops the others.                                        *)
LEMMA WholeWordsShift ==
  ASSUME NEW d \in [base : Nat, len : Nat, bits : SUBSET (0 .. TRACK_BITS - 1)],
         NEW shift \in Nat, shift % WORD_BITS = 0
  PROVE  ShiftedBits(d, shift) = {o - shift : o \in {k \in d.bits : k >= shift}}
<1>1. WORD_BITS \in Nat \ {0}
  BY DedupAssumption
<1>2. ASSUME NEW o \in d.bits
      PROVE  /\ o \in Nat
             /\ WordOf(o) >= WordOf(shift) <=> o >= shift
             /\ BitOf(o) >= BitOf(shift)
  <2>1. o \in Nat
    BY <1>2, DedupAssumption
  <2>2. /\ o % WORD_BITS \in 0 .. WORD_BITS - 1 /\ o \div WORD_BITS \in Nat
        /\ o = (o \div WORD_BITS) * WORD_BITS + (o % WORD_BITS)
    BY <1>1, <2>1, DivisionWithRemainder
  <2>3. /\ shift \div WORD_BITS \in Nat
        /\ shift = (shift \div WORD_BITS) * WORD_BITS + (shift % WORD_BITS)
    BY <1>1, DivisionWithRemainder
  <2> DEFINE p == o \div WORD_BITS
             q == shift \div WORD_BITS
             r == o % WORD_BITS
  <2>4. p >= q <=> o >= shift
    <3>1. /\ p \in Nat /\ q \in Nat /\ r \in 0 .. WORD_BITS - 1
          /\ o = p * WORD_BITS + r /\ shift = q * WORD_BITS
      <4>1. q * WORD_BITS \in Int
        BY <1>1, <2>3
      <4>2. shift = q * WORD_BITS
        BY <2>3, <4>1
      <4> QED
        BY <2>2, <2>3, <4>2, Zenon
    <3> HIDE DEF p, q, r
    <3>2. p >= q => p * WORD_BITS >= q * WORD_BITS
      BY <1>1, <3>1, Z3
    <3>3. p < q => (p + 1) * WORD_BITS <= q * WORD_BITS
      BY <1>1, <3>1, Z3
    <3>4. (p + 1) * WORD_BITS = p * WORD_BITS + WORD_BITS
      BY <1>1, <3>1, Z3
    <3>5. p * WORD_BITS \in Nat /\ q * WORD_BITS \in Nat
      BY <1>1, <3>1
    <3> QED
      BY <1>1, <2>1, <3>1, <3>2, <3>3, <3>4, <3>5
  <2> QED
    BY <1>1, <2>1, <2>2, <2>4 DEF WordOf, BitOf
<1>3. {k \in {o \in d.bits : WordOf(o) >= WordOf(shift)} : BitOf(k) >= BitOf(shift)}
        = {k \in d.bits : k >= shift}
  BY <1>2, Zenon
<1>4. {k \in {o \in d.bits : WordOf(o) >= WordOf(shift)} :
          BitOf(k) < BitOf(shift) /\ WordOf(k) + 1 < d.len} = {}
  <2>1. \A k \in d.bits : ~ (BitOf(k) < BitOf(shift))
    <3>1. BitOf(shift) = 0
      BY DEF BitOf
    <3>2. \A k \in d.bits : BitOf(k) \in Nat
      BY <1>1, <1>2, DivisionWithRemainder DEF BitOf
    <3> QED
      BY <3>1, <3>2
  <2> QED
    BY <2>1, Zenon
<1> QED
  BY <1>3, <1>4, Zenon DEF ShiftedBits

Filters == [base : Nat, len : Nat, bits : SUBSET (0 .. TRACK_BITS - 1)]

Knows(d, S) == {d.base + o : o \in d.bits} = S \cap (d.base .. d.base + TRACK_BITS - 1)

(* compact_to, of a window whose bits are the numbers in a set: afterwards *)
(* they are those of the set that are in the new window.                   *)
LEMMA CompactKeeps ==
  ASSUME NEW d \in Filters, NEW S, S \subseteq 0 .. d.base + TRACK_BITS - 1,
         Knows(d, S), NEW new_base \in Nat, new_base > d.base,
         WholeMove(new_base - d.base)
  PROVE  /\ compact_to(d, new_base) \in Filters
         /\ compact_to(d, new_base).base = new_base
         /\ Knows(compact_to(d, new_base), S)
<1> DEFINE shift == new_base - d.base
           c == compact_to(d, new_base)
<1>1. /\ TRACK_BITS \in Nat \ {0} /\ WORD_BITS \in Nat \ {0} /\ d.base \in Nat /\ d.len \in Nat
      /\ d.bits \subseteq 0 .. TRACK_BITS - 1 /\ shift \in Nat \ {0}
      /\ d \in [base : Nat, len : Nat, bits : SUBSET (0 .. TRACK_BITS - 1)]
  BY DedupAssumption DEF Filters
<1>2. ~ (new_base <= d.base)
  BY <1>1
<1>3. CASE shift >= TRACK_BITS
  <2>1. c = [base |-> new_base, len |-> 0, bits |-> {}]
    BY <1>2, <1>3, Zenon DEF compact_to
  <2>2. S \cap (new_base .. new_base + TRACK_BITS - 1) = {}
    BY <1>1, <1>3
  <2> HIDE DEF c
  <2>3. {c.base + o : o \in c.bits} = {}
    BY <2>1
  <2>4. /\ c \in [base : Nat, len : Nat, bits : SUBSET (0 .. TRACK_BITS - 1)]
        /\ c.base = new_base
    BY <2>1
  <2> QED
    BY <2>2, <2>3, <2>4, Zenon DEF c, Filters, Knows
<1>4. CASE ~ (shift >= TRACK_BITS)
  <2>1. shift % WORD_BITS = 0
    BY <1>4 DEF WholeMove
  <2> DEFINE moved == {o - shift : o \in {k \in d.bits : k >= shift}}
             length == IF d.len > WordOf(shift) THEN d.len - WordOf(shift) ELSE 0
  <2>2. ShiftedBits(d, shift) = moved
    <3> HIDE DEF shift
    <3> QED
      BY <1>1, <2>1, WholeWordsShift
  <2>3. c = [base |-> new_base, len |-> length, bits |-> moved]
    BY <1>2, <1>4, <2>2, Zenon DEF compact_to
  <2>4. length \in Nat
    <3>1. WordOf(shift) \in Nat
      <4> HIDE DEF shift
      <4> QED
        BY <1>1, DivisionWithRemainder DEF WordOf
    <3> QED
      BY <1>1, <3>1
  <2>5. moved \subseteq 0 .. TRACK_BITS - 1
    BY <1>1
  <2>6. {new_base + o : o \in moved} = S \cap (new_base .. new_base + TRACK_BITS - 1)
    <3>1. ASSUME NEW x \in S \cap (new_base .. new_base + TRACK_BITS - 1)
          PROVE  x \in {new_base + o : o \in moved}
      <4>1. x \in S \cap (d.base .. d.base + TRACK_BITS - 1)
        BY <1>1, <3>1
      <4>2. PICK k \in d.bits : x = d.base + k
        BY <4>1 DEF Knows
      <4>3. k \in Nat /\ k >= shift
        BY <1>1, <3>1, <4>2
      <4>4. k - shift \in moved
        BY <4>3
      <4>5. x = new_base + (k - shift)
        BY <1>1, <4>2, <4>3
      <4> QED
        BY <4>4, <4>5
    <3>2. ASSUME NEW k \in d.bits, k >= shift
          PROVE  new_base + (k - shift) \in S \cap (new_base .. new_base + TRACK_BITS - 1)
      <4>1. k \in 0 .. TRACK_BITS - 1 /\ new_base + (k - shift) = d.base + k
        BY <1>1
      <4>2. d.base + k \in S
        BY <3>2 DEF Knows
      <4>3. d.base + k \in new_base .. new_base + TRACK_BITS - 1
        BY <1>1, <3>2, <4>1
      <4> QED
        BY <4>1, <4>2, <4>3
    <3>3. \A o \in moved : new_base + o \in S \cap (new_base .. new_base + TRACK_BITS - 1)
      BY <3>2
    <3> QED
      BY <3>1, <3>3
  <2>8. d.len \in Nat /\ new_base \in Nat
    BY <1>1
  <2> HIDE DEF c, moved, length
  <2>7. /\ c.base = new_base /\ c.bits = moved
        /\ c \in [base : Nat, len : Nat, bits : SUBSET (0 .. TRACK_BITS - 1)]
    BY <2>3, <2>4, <2>5
  <2> QED
    BY <2>6, <2>7, Zenon DEF c, Filters, Knows
<1> QED
  BY <1>3, <1>4

(* insert: a number beyond the window moves it so far that the number is   *)
(* at half of it; a move by whole words keeps what is known.               *)
LEMMA InsertKeeps ==
  ASSUME FilterOK, NEW seq \in 0 .. MAX_SEQ, Insert(seq)
  PROVE  /\ seen_seq'.base = IF seq >= seen_seq.base + TRACK_BITS
                             THEN seq - TRACK_BITS \div 2 ELSE seen_seq.base
         /\ MovesByWords => FilterOK'
<1> DEFINE half == TRACK_BITS \div 2
           Good == [base : Nat, len : Nat, bits : SUBSET (0 .. TRACK_BITS - 1)]
           far == seq >= seen_seq.base + TRACK_BITS
           c == IF far THEN compact_to(seen_seq, seq - half) ELSE seen_seq
           offset == seq - c.base
           grown == [c EXCEPT !.len = IF @ <= WordOf(offset) THEN WordOf(offset) + 1 ELSE @]
<1>1. /\ TRACK_BITS \in Nat \ {0} /\ WORD_BITS \in Nat \ {0} /\ SEQ_SPACE \in Nat
      /\ MAX_SEQ \in Nat /\ MAX_SEQ + TRACK_BITS < SEQ_SPACE /\ TRACK_BITS < SEQ_SPACE
      /\ half \in Nat /\ half < TRACK_BITS /\ seq \in Nat /\ seq <= MAX_SEQ
  BY FilterNumbers
<1>2. /\ seen_seq \in Good /\ seen_seq.base \in Nat /\ top \in Nat /\ top <= MAX_SEQ + 1
      /\ top <= seen_seq.base + TRACK_BITS
      /\ (seen_seq.base = 0 \/ seen_seq.base < top) /\ known \subseteq 0 .. top - 1
  BY <1>1 DEF FilterOK
<1>3. {seen_seq.base + o : o \in seen_seq.bits} = known \cap (seen_seq.base .. seen_seq.base + TRACK_BITS - 1)
  BY DEF FilterOK, BitmapIsKnown, Tracked
<1>4. seen_seq.base + TRACK_BITS < SEQ_SPACE /\ seq + TRACK_BITS < SEQ_SPACE
  <2> HIDE DEF half
  <2> QED
    BY <1>1, <1>2
<1>5. /\ WrappingAdd(seen_seq.base, TRACK_BITS) = seen_seq.base + TRACK_BITS
      /\ WrappingAdd(seq, TRACK_BITS) = seq + TRACK_BITS
  BY <1>1, <1>2, <1>4, NoWrap
<1>6. far => seq >= half /\ seq - half \in Nat /\ seq - half > seen_seq.base
  <2> HIDE DEF half
  <2> QED
    BY <1>1, <1>2
<1>7. insert(seen_seq, seq) =
        IF seq + TRACK_BITS < seen_seq.base THEN [ok |-> FALSE, state |-> seen_seq]
        ELSE IF seq < c.base THEN [ok |-> FALSE, state |-> c]
        ELSE IF offset \in c.bits THEN [ok |-> FALSE, state |-> grown]
        ELSE [ok |-> TRUE, state |-> [grown EXCEPT !.bits = @ \cup {offset}]]
  <2>1. (IF seq >= WrappingAdd(seen_seq.base, TRACK_BITS)
         THEN compact_to(seen_seq, IF seq >= half THEN seq - half ELSE 0)
         ELSE seen_seq) = c
    BY <1>5, <1>6, Zenon
  <2> QED
    BY <1>5, <2>1, Zenon DEF insert
<1>8. far => c.base = seq - half
  <2>1. far => ~ (seq - half <= seen_seq.base)
    BY <1>2, <1>6
  <2> QED
    BY <2>1 DEF compact_to
<1>9. /\ seen_seq' = insert(seen_seq, seq).state
      /\ known' = IF insert(seen_seq, seq).ok THEN known \cup {seq} ELSE known
      /\ top' = IF seq >= top THEN seq + 1 ELSE top
  BY DEF Insert
<1>10. seen_seq'.base = c.base
  <2>1. c.base = grown.base
    OBVIOUS
  <2>2. seq + TRACK_BITS < seen_seq.base => ~ far
    <3> HIDE DEF half
    <3> QED
      BY <1>1, <1>2
  <2>3. seq + TRACK_BITS < seen_seq.base => c = seen_seq
    BY <2>2, Zenon
  <2> DEFINE more == [grown EXCEPT !.bits = @ \cup {offset}]
  <2>4. more.base = grown.base
    OBVIOUS
  <2> HIDE DEF c, grown, offset, far, more
  <2>5. insert(seen_seq, seq) =
        IF seq + TRACK_BITS < seen_seq.base THEN [ok |-> FALSE, state |-> seen_seq]
        ELSE IF seq < c.base THEN [ok |-> FALSE, state |-> c]
        ELSE IF offset \in c.bits THEN [ok |-> FALSE, state |-> grown]
        ELSE [ok |-> TRUE, state |-> more]
    BY <1>7, Zenon DEF more
  <2> QED
    BY <1>9, <2>1, <2>3, <2>4, <2>5
<1>18. seen_seq'.base = IF far THEN seq - half ELSE seen_seq.base
  BY <1>8, <1>10, Zenon
<1> SUFFICES ASSUME MovesByWords PROVE FilterOK'
  <2> HIDE DEF c
  <2> QED
    BY <1>18, Zenon
<1>11. far => WholeMove((seq - half) - seen_seq.base)
  <2>1. far => seen_seq'.base = seq - half
    BY <1>8, <1>10, Zenon
  <2> QED
    BY <2>1, Zenon DEF MovesByWords
<1>12. /\ c \in Good /\ c.base \in Nat /\ seq < c.base + TRACK_BITS
       /\ {c.base + o : o \in c.bits} = known \cap (c.base .. c.base + TRACK_BITS - 1)
       /\ known \subseteq 0 .. c.base + TRACK_BITS - 1
       /\ c.base = 0 \/ c.base < top'
       /\ top' \in Nat /\ top' \in 0 .. MAX_SEQ + 1 /\ top' <= c.base + TRACK_BITS
       /\ known \subseteq 0 .. top' - 1 /\ seq < top'
  <2>1. top' \in Nat /\ top' \in 0 .. MAX_SEQ + 1 /\ top' >= top /\ seq < top'
    BY <1>1, <1>2, <1>9
  <2>2. known \subseteq 0 .. top' - 1 /\ known \subseteq 0 .. seen_seq.base + TRACK_BITS - 1
    <3> SUFFICES ASSUME NEW x \in known
                 PROVE  x \in 0 .. top' - 1 /\ x \in 0 .. seen_seq.base + TRACK_BITS - 1
      BY Zenon
    <3>1. x \in 0 .. top - 1
      BY <1>2
    <3>2. top <= seen_seq.base + TRACK_BITS /\ seen_seq.base \in Nat /\ top \in Nat
      BY <1>2
    <3>3. TRACK_BITS \in Nat /\ MAX_SEQ \in Nat
      BY <1>1
    <3> DEFINE t == top'
    <3>4. t \in Nat /\ t >= top
      BY <2>1
    <3> HIDE DEF c, far, half, Good, t
    <3>5. x \in 0 .. t - 1 /\ x \in 0 .. seen_seq.base + TRACK_BITS - 1
      BY <3>1, <3>2, <3>3, <3>4
    <3> QED
      BY <3>5 DEF t
  <2>3. CASE ~ far
    <3>1. c = seen_seq
      BY <2>3, Zenon
    <3>2. seq < seen_seq.base + TRACK_BITS
      BY <1>1, <1>2, <2>3
    <3>3. top' <= seen_seq.base + TRACK_BITS
      BY <1>1, <1>2, <1>9, <3>2
    <3>4. seen_seq.base = 0 \/ seen_seq.base < top'
      BY <1>2, <2>1
    <3> HIDE DEF c, far
    <3> QED
      BY <1>2, <1>3, <2>1, <2>2, <3>1, <3>2, <3>3, <3>4, Zenon
  <2>4. CASE far
    <3> DEFINE b == seq - half
    <3>1. c \in Filters /\ c.base = b /\ Knows(c, known)
      <4>1. /\ b \in Nat /\ b > seen_seq.base
            /\ WholeMove(b - seen_seq.base)
        BY <1>6, <1>11, <2>4, Zenon
      <4>2. c = compact_to(seen_seq, b)
        BY <2>4, Zenon
      <4> HIDE DEF b, c, far
      <4> QED
        <5>1. seen_seq \in Filters /\ Knows(seen_seq, known)
          BY <1>2, <1>3, Zenon DEF Filters, Knows
        <5>2. known \subseteq 0 .. seen_seq.base + TRACK_BITS - 1
          BY <2>2
        <5>3. /\ compact_to(seen_seq, b) \in Filters
              /\ compact_to(seen_seq, b).base = b
              /\ Knows(compact_to(seen_seq, b), known)
          BY <4>1, <5>1, <5>2, CompactKeeps
        <5> QED
          BY <4>2, <5>3, Zenon
    <3>2. b \in Nat /\ seq < b + TRACK_BITS /\ seq >= top /\ b <= seq /\ b >= seen_seq.base
      <4>1. b \in Nat /\ b > seen_seq.base
        BY <1>6, <2>4, Zenon
      <4>2. seq >= top
        BY <1>1, <1>2, <2>4
      <4>3. b = seq - half
        OBVIOUS
      <4> HIDE DEF b, half
      <4> QED
        BY <1>1, <1>2, <4>1, <4>2, <4>3
    <3>3. top' = seq + 1
      BY <1>9, <3>2, Zenon
    <3> HIDE DEF b, c, far, half
    <3>4. b < top' /\ top' <= b + TRACK_BITS
      BY <1>1, <3>2, <3>3
    <3>5. known \subseteq 0 .. b + TRACK_BITS - 1
      <4> SUFFICES ASSUME NEW x \in known PROVE x \in 0 .. b + TRACK_BITS - 1
        BY Zenon
      <4>1. x \in 0 .. top' - 1
        BY <2>2
      <4>2. TRACK_BITS \in Nat /\ MAX_SEQ \in Nat
        BY <1>1
      <4> DEFINE t == top'
      <4>3. t \in Nat /\ x \in 0 .. t - 1 /\ t <= b + TRACK_BITS
        BY <2>1, <3>4, <4>1
      <4> HIDE DEF t
      <4> QED
        BY <3>2, <4>2, <4>3
    <3> QED
      BY <2>1, <2>2, <3>1, <3>2, <3>4, <3>5, Zenon DEF Filters, Knows
  <2> QED
    BY <2>3, <2>4, Zenon
<1> DEFINE more == [grown EXCEPT !.bits = @ \cup {offset}]
<1>13. \/ /\ ~ insert(seen_seq, seq).ok
          /\ seen_seq' = c \/ (seen_seq' = grown /\ ~ (seq < c.base))
       \/ /\ insert(seen_seq, seq).ok /\ seen_seq' = more
          /\ ~ (seq < c.base)
  <2>1. seq + TRACK_BITS < seen_seq.base => c = seen_seq
    <3>1. seq + TRACK_BITS < seen_seq.base => ~ far
      <4> HIDE DEF half
      <4> QED
        BY <1>1, <1>2
    <3> QED
      BY <3>1, Zenon
  <2> HIDE DEF c, far, half, grown, offset, more
  <2>2. insert(seen_seq, seq) =
        IF seq + TRACK_BITS < seen_seq.base THEN [ok |-> FALSE, state |-> seen_seq]
        ELSE IF seq < c.base THEN [ok |-> FALSE, state |-> c]
        ELSE IF offset \in c.bits THEN [ok |-> FALSE, state |-> grown]
        ELSE [ok |-> TRUE, state |-> more]
    BY <1>7, Zenon DEF more
  <2> QED
    BY <1>9, <2>1, <2>2
<1> HIDE DEF c, far, half
<1>14. ~ (seq < c.base) => offset \in 0 .. TRACK_BITS - 1
  BY <1>1, <1>12
<1>15. ~ (seq < c.base) => WordOf(offset) \in Nat
  <2> HIDE DEF offset
  <2> QED
    BY <1>1, <1>14, DivisionWithRemainder DEF WordOf
<1>16. CASE ~ insert(seen_seq, seq).ok
  <2>1. known' = known
    BY <1>9, <1>16
  <2>2. seen_seq'.base = c.base /\ seen_seq'.bits = c.bits
    <3>1. grown.bits = c.bits
      OBVIOUS
    <3> HIDE DEF grown
    <3> QED
      BY <1>10, <1>13, <1>16, <3>1
  <2>3. seen_seq' \in Good
    <3>1. CASE seen_seq' = c
      BY <1>12, <3>1, Zenon
    <3>2. CASE seen_seq' = grown /\ ~ (seq < c.base)
      <4>1. grown \in Good
        BY <1>12, <1>15, <3>2
      <4> QED
        BY <3>2, <4>1, Zenon
    <3> QED
      BY <1>13, <1>16, <3>1, <3>2, Zenon
  <2> HIDE DEF offset, grown, more, Good
  <2>4. {seen_seq'.base + o : o \in seen_seq'.bits} = known' \cap Tracked'
    BY <1>12, <2>1, <2>2, Zenon DEF Tracked
  <2>5. seen_seq'.base = 0 \/ seen_seq'.base < top'
    BY <1>12, <2>2, Zenon
  <2>6. top' <= seen_seq'.base + TRACK_BITS
    BY <1>12, <2>2, Zenon
  <2> QED
    BY <1>12, <2>1, <2>3, <2>4, <2>5, <2>6, Zenon DEF FilterOK, BitmapIsKnown, Good
<1>17. CASE insert(seen_seq, seq).ok
  <2>1. known' = known \cup {seq} /\ seen_seq' = more /\ ~ (seq < c.base)
    BY <1>9, <1>13, <1>17, Zenon
  <2>2. more.bits = c.bits \cup {offset} /\ more \in Good
    <3>1. c.len \in Nat /\ c.bits \subseteq 0 .. TRACK_BITS - 1
      BY <1>12
    <3>2. grown \in Good /\ grown.bits = c.bits
      BY <1>12, <1>15, <2>1, <3>1
    <3>3. more.bits = grown.bits \cup {offset} /\ more.base = grown.base /\ more.len = grown.len
          /\ more = [base |-> grown.base, len |-> grown.len, bits |-> grown.bits \cup {offset}]
      <4> HIDE DEF grown, offset
      <4> QED
        BY <3>2
    <3>4. grown.bits \cup {offset} \subseteq 0 .. TRACK_BITS - 1
      BY <1>14, <2>1, <3>1, <3>2, Zenon
    <3> HIDE DEF grown, offset, more
    <3> QED
      BY <3>2, <3>3, <3>4
  <2> HIDE DEF grown, more, Good
  <2>3. {c.base + o : o \in more.bits} = known' \cap (c.base .. c.base + TRACK_BITS - 1)
    <3>1. c.base + offset = seq
      BY <1>1, <1>12
    <3>2. {c.base + o : o \in more.bits} = {c.base + o : o \in c.bits} \cup {seq}
      <4> HIDE DEF offset
      <4> QED
        BY <2>2, <3>1
    <3>3. seq \in c.base .. c.base + TRACK_BITS - 1
      BY <1>1, <1>12, <2>1
    <3> QED
      BY <1>12, <2>1, <3>2, <3>3, Zenon
  <2> HIDE DEF offset
  <2>4. {seen_seq'.base + o : o \in seen_seq'.bits} = known' \cap Tracked'
    BY <1>10, <2>1, <2>3, Zenon DEF Tracked
  <2>5. seen_seq'.base = 0 \/ seen_seq'.base < top'
    BY <1>10, <1>12, Zenon
  <2>6. top' <= seen_seq'.base + TRACK_BITS
    BY <1>10, <1>12, Zenon
  <2>7. known' \subseteq 0 .. top' - 1
    <3>1. seq \in 0 .. top' - 1
      BY <1>1, <1>12
    <3> QED
      BY <1>12, <2>1, <3>1, Zenon
  <2> QED
    BY <1>12, <2>1, <2>2, <2>4, <2>5, <2>6, <2>7, Zenon DEF FilterOK, BitmapIsKnown, Good
<1> QED
  BY <1>16, <1>17

(* remove clears the bit of its number and no other.                       *)
LEMMA RemoveKeeps ==
  ASSUME FilterOK, NEW seq \in known, RemoveSeq(seq)
  PROVE  FilterOK'
<1> DEFINE Good == [base : Nat, len : Nat, bits : SUBSET (0 .. TRACK_BITS - 1)]
           gone == {s - seen_seq.base : s \in {n \in {seq} : /\ n >= seen_seq.base
                                                          /\ n - seen_seq.base < TRACK_BITS}}
<1>1. TRACK_BITS \in Nat \ {0} /\ seen_seq \in Good /\ seen_seq.base \in Nat /\ seq \in Nat
      /\ top \in Nat /\ known \subseteq 0 .. top - 1
  BY FilterNumbers DEF FilterOK
<1>2. {seen_seq.base + o : o \in seen_seq.bits} = known \cap Tracked
  BY DEF FilterOK, BitmapIsKnown
<1>3. seen_seq' = [seen_seq EXCEPT !.bits = @ \ gone] /\ known' = known \ {seq} /\ top' = top
  BY DEF RemoveSeq, remove, RemoveAll
<1> HIDE DEF gone
<1>4. seen_seq' \in Good /\ seen_seq'.base = seen_seq.base /\ seen_seq'.bits = seen_seq.bits \ gone
  BY <1>1, <1>3
<1>5. \A o \in seen_seq.bits : o \in 0 .. TRACK_BITS - 1 /\ (o \in gone <=> seen_seq.base + o = seq)
  <2> SUFFICES ASSUME NEW o \in seen_seq.bits
               PROVE  o \in 0 .. TRACK_BITS - 1 /\ (o \in gone <=> seen_seq.base + o = seq)
    OBVIOUS
  <2>1. o \in 0 .. TRACK_BITS - 1
    BY <1>1
  <2>2. o \in gone => seen_seq.base + o = seq
    BY <1>1 DEF gone
  <2>3. seen_seq.base + o = seq => o \in gone
    BY <1>1, <2>1 DEF gone
  <2> QED
    BY <2>1, <2>2, <2>3
<1>6. {seen_seq'.base + o : o \in seen_seq'.bits} = known' \cap Tracked'
  <2>1. Tracked' = Tracked
    BY <1>4 DEF Tracked
  <2>2. {seen_seq.base + o : o \in seen_seq.bits \ gone} = (known \cap Tracked) \ {seq}
    BY <1>2, <1>5, Zenon
  <2>3. {seen_seq'.base + o : o \in seen_seq'.bits} = {seen_seq.base + o : o \in seen_seq.bits \ gone}
    BY <1>4, Zenon
  <2> QED
    BY <1>3, <2>1, <2>2, <2>3, Zenon
<1>7. known' \subseteq 0 .. top' - 1
  BY <1>1, <1>3, Zenon
<1> HIDE DEF Good
<1>8. /\ top' <= seen_seq'.base + TRACK_BITS /\ top' \in 0 .. MAX_SEQ + 1
      /\ seen_seq'.base = 0 \/ seen_seq'.base < top'
  BY <1>3, <1>4, Zenon DEF FilterOK
<1> QED
  BY <1>4, <1>6, <1>7, <1>8 DEF FilterOK, BitmapIsKnown, Good

LEMMA FilterStep ==
  ASSUME FilterOK, FilterNext, MovesByWords
  PROVE  FilterOK'
<1>1. CASE \E seq \in 0 .. top + MAX_SKIP - 1 : Insert(seq)
  <2>1. PICK seq \in 0 .. top + MAX_SKIP - 1 : Insert(seq)
    BY <1>1
  <2>2. seq \in 0 .. MAX_SEQ
    BY <2>1, FilterNumbers DEF Insert, FilterOK
  <2> QED
    BY <2>1, <2>2, InsertKeeps
<1>2. CASE \E seq \in known : RemoveSeq(seq)
  BY <1>2, RemoveKeeps
<1> QED
  BY <1>1, <1>2 DEF FilterNext

LEMMA FilterStarts == FilterInit => FilterOK
<1> SUFFICES ASSUME FilterInit PROVE FilterOK
  OBVIOUS
<1>1. seen_seq = [base |-> 0, len |-> 0, bits |-> {}] /\ known = {} /\ top = 0
  BY DEF FilterInit, EmptyDedup
<1>2. TRACK_BITS \in Nat /\ MAX_SEQ \in Nat
  BY FilterNumbers
<1>3. BitmapIsKnown
  BY <1>1 DEF BitmapIsKnown
<1> QED
  BY <1>1, <1>2, <1>3 DEF FilterOK

(***************************************************************************)
(* SeqDedup::compact_to, insert and remove: as long as the window of the   *)
(* filter moves by whole words, or past all it holds, its bitmap is the    *)
(* set of the known numbers, however far the stream jumps and whatever is  *)
(* late, repeated or removed.  The carry between words, which               *)
(* RefusedWasSeen shows to be wrong, is the only thing in the way.         *)
(***************************************************************************)
THEOREM BitmapIsKnownByWords ==
  FilterInit /\ [][FilterNext /\ MovesByWords]_filter_vars => []BitmapIsKnown
<1>1. FilterOK /\ [FilterNext /\ MovesByWords]_filter_vars => FilterOK'
  <2>1. ASSUME FilterOK, UNCHANGED filter_vars PROVE FilterOK'
    BY <2>1 DEF filter_vars, FilterOK, BitmapIsKnown, Tracked
  <2> QED
    BY <2>1, FilterStep
<1>2. FilterOK => BitmapIsKnown
  BY DEF FilterOK
<1> QED
  BY <1>1, <1>2, FilterStarts, PTL

(***************************************************************************)
(* A stream without gaps beyond the newest number seen: the window then    *)
(* moves by half its size each time, which in the code (4096 of 8192, in   *)
(* words of 64) is whole words.                                            *)
(***************************************************************************)
THEOREM BitmapIsKnownWithoutGaps ==
  ASSUME MAX_SKIP = 1, TRACK_BITS % (2 * WORD_BITS) = 0
  PROVE  FilterSpec => []BitmapIsKnown
<1> DEFINE half == TRACK_BITS \div 2
<1>1. TRACK_BITS \in Nat \ {0} /\ WORD_BITS \in Nat \ {0} /\ half \in Nat
  BY FilterNumbers
<1>2. half % WORD_BITS = 0 /\ TRACK_BITS - half = half
  <2> DEFINE k == TRACK_BITS \div (2 * WORD_BITS)
             z == k * WORD_BITS
             q == half \div WORD_BITS
             r == half % WORD_BITS
  <2>1. k \in Nat /\ TRACK_BITS = k * (2 * WORD_BITS)
    <3>1. 2 * WORD_BITS \in Nat \ {0}
      BY <1>1
    <3>2. TRACK_BITS = k * (2 * WORD_BITS) + 0 /\ k \in Nat
      BY <1>1, <3>1, DivisionWithRemainder
    <3>3. k * (2 * WORD_BITS) \in Int
      BY <3>1, <3>2
    <3> QED
      BY <3>2, <3>3
  <2>2. r \in 0 .. WORD_BITS - 1 /\ q \in Nat /\ half = q * WORD_BITS + r
    BY <1>1, DivisionWithRemainder
  <2> HIDE DEF k, q, r
  <2>3. z \in Nat /\ TRACK_BITS = 2 * z
    BY <1>1, <2>1, Z3
  <2>4. half = z
    <3> HIDE DEF z
    <3> QED
      BY <2>3, Z3
  <2>5. r = 0
    <3>1. (k - q) * WORD_BITS = r
      BY <1>1, <2>1, <2>2, <2>4, Z3
    <3>2. k - q >= 1 => (k - q) * WORD_BITS >= WORD_BITS
      BY <1>1, <2>1, <2>2, Z3
    <3>3. k - q <= -1 => (k - q) * WORD_BITS <= - WORD_BITS
      BY <1>1, <2>1, <2>2, Z3
    <3>4. k - q = 0 => (k - q) * WORD_BITS = 0
      BY <1>1
    <3> QED
      BY <1>1, <2>1, <2>2, <3>1, <3>2, <3>3, <3>4
  <2> QED
    BY <2>3, <2>4, <2>5 DEF r
<1> HIDE DEF half
<1>5. ASSUME FilterOK, FilterNext PROVE MovesByWords
  <2>1. seen_seq.base \in Nat /\ top \in Nat /\ top <= seen_seq.base + TRACK_BITS
    BY <1>5, FilterNumbers DEF FilterOK
  <2>2. ASSUME NEW seq \in 0 .. top + MAX_SKIP - 1, Insert(seq) PROVE MovesByWords
    <3>1. seq \in 0 .. MAX_SEQ /\ seq \in 0 .. top
      BY <2>1, <2>2, FilterNumbers DEF Insert
    <3>2. seen_seq'.base = IF seq >= seen_seq.base + TRACK_BITS
                           THEN seq - half ELSE seen_seq.base
      BY <1>5, <2>2, <3>1, InsertKeeps DEF half
    <3>3. seen_seq'.base - seen_seq.base = half \/ seen_seq'.base - seen_seq.base = 0
      BY <1>1, <1>2, <2>1, <3>1, <3>2
    <3>4. 0 % WORD_BITS = 0
      BY <1>1, Z3
    <3> QED
      BY <1>2, <3>3, <3>4, Zenon DEF MovesByWords, WholeMove
  <2>3. ASSUME NEW seq \in known, RemoveSeq(seq) PROVE MovesByWords
    <3>1. seen_seq'.base = seen_seq.base
      BY <1>5, <2>3 DEF RemoveSeq, remove, RemoveAll, FilterOK
    <3>2. 0 % WORD_BITS = 0 /\ seen_seq'.base - seen_seq.base = 0
      BY <1>1, <2>1, <3>1, Z3
    <3> QED
      BY <3>2, Zenon DEF MovesByWords, WholeMove
  <2> QED
    BY <1>5, <2>2, <2>3 DEF FilterNext
<1>3. FilterOK /\ [FilterNext]_filter_vars => FilterOK'
  <2>1. ASSUME FilterOK, UNCHANGED filter_vars PROVE FilterOK'
    BY <2>1 DEF filter_vars, FilterOK, BitmapIsKnown, Tracked
  <2> QED
    BY <1>5, <2>1, FilterStep
<1>4. FilterOK => BitmapIsKnown
  BY DEF FilterOK
<1> QED
  BY <1>3, <1>4, FilterStarts, PTL DEF FilterSpec
=============================================================================
