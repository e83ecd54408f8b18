--------------------------- MODULE Decoder_proofs ---------------------------
(***************************************************************************)
(* Proofs about Decoder, for every window length, every wire space, every  *)
(* frame shape and every behaviour of the channel.                         *)
(*                                                                         *)
(* The first part looks at the receiver's ring and at what it delivered.   *)
(* What the two codes and the duplicate filter compute is left opaque:     *)
(* nothing there depends on when a frame becomes recoverable.              *)
(*                                                                         *)
(* The second part is about a stream that ends before the wire numbers     *)
(* repeat (FirstLap).  The two codes are opened: a frame is its own wire   *)
(* number and its own timeslot, so that each code gives every frame of its *)
(* window a slot of its own (InStep), for as long as the frame is in the   *)
(* window.  In the second lap the timeslots and the slots no longer match, *)
(* which is what the run `wrap` shows.  It goes on to verdicts             *)
(* (VerdictsInLap), to the implementation of FrameDelivery, and to the     *)
(* duplicate filter (DedupInLap).                                          *)
(***************************************************************************)
EXTENDS Decoder, CommonLemmas, SequenceTheorems, FiniteSetTheorems

(* A ring entry, as far as the proofs look at it.                          *)
IsFrame(f) ==
  /\ DOMAIN f = DOMAIN Vacant
  /\ f.occupied \in BOOLEAN /\ f.delivered \in BOOLEAN /\ f.session_index \in Nat

(* g is f with other packets, another size or another decoding status.     *)
SameFrame(f, g) ==
  /\ DOMAIN g = DOMAIN f
  /\ g.occupied = f.occupied /\ g.session_index = f.session_index
  /\ g.delivered = f.delivered

InWindow(session, last) == session <= last /\ last - session < NumFrames

(* Every occupied slot holds a session of the window that ends at `last`,  *)
(* in the slot of that session.                                            *)
RingOK(ring, last) ==
  /\ DOMAIN ring = Slots
  /\ \A i \in Slots :
       /\ IsFrame(ring[i])
       /\ ring[i].occupied => /\ slot_index(ring[i].session_index) = i
                              /\ InWindow(ring[i].session_index, last)

(* A delivered session is remembered by its flag until it has left the     *)
(* window for good.                                                        *)
Remembered(s, ring, last) ==
  \/ s + NumFrames <= last
  \/ Occupied(ring, s) /\ ring[slot_index(s)].delivered

DeliveriesOK(ring, last, sessions) ==
  \A s \in sessions : s \in Nat /\ Remembered(s, ring, last)

-----------------------------------------------------------------------------
(* The arithmetic of wire numbers.                                        *)
LEMMA DivisionByFrameSpace ==
  ASSUME NEW x \in Nat
  PROVE  /\ wire_frame_num(x) \in 0 .. FRAME_SPACE - 1
         /\ session_epoch(x) \in Nat
         /\ x = session_from_parts(session_epoch(x), wire_frame_num(x))
<1>1. FRAME_SPACE \in Nat \ {0}
  BY FrameSpaceAssumption
<1> QED
  BY <1>1, DivisionWithRemainder DEF wire_frame_num, session_epoch, session_from_parts

LEMMA HalfIsHalf ==
  /\ HALF_FRAME_SPACE \in Nat \ {0}
  /\ 2 * HALF_FRAME_SPACE = FRAME_SPACE
BY FrameSpaceAssumption, Z3 DEF HALF_FRAME_SPACE, MAX_FRAME_NUM

(* A session index is never negative: no u64 underflow of epoch - 1.       *)
LEMMA ResolveIsNatural ==
  ASSUME NEW last \in Nat \cup {NoSession}, NEW wire \in Nat
  PROVE  resolve_wire(last, wire) \in Nat
<1>1. FRAME_SPACE \in Nat
  BY FrameSpaceAssumption
<1>2. ASSUME NEW epoch \in Nat
      PROVE  session_from_parts(epoch, wire) \in Nat
  BY <1>1, <1>2, Z3 DEF session_from_parts
<1>3. CASE last = NoSession
  BY <1>3 DEF resolve_wire
<1>4. CASE last # NoSession
  <2>1. last \in Nat
    BY <1>4
  <2>2. session_epoch(last) \in Nat
    BY <2>1, DivisionByFrameSpace
  <2>3. /\ session_from_parts(session_epoch(last) + 1, wire) \in Nat
        /\ session_from_parts(session_epoch(last), wire) \in Nat
        /\ session_epoch(last) > 0 => session_from_parts(session_epoch(last) - 1, wire) \in Nat
    BY <1>2, <2>2
  <2> QED
    BY <1>4, <2>3 DEF resolve_wire, ResolveFrom
<1> QED
  BY <1>3, <1>4

LEMMA NumFramesPositive == NumFrames \in Nat /\ NumFrames > 0
BY DelayAssumption DEF NumFrames

LEMMA SlotIsSlot ==
  ASSUME NEW s \in Nat
  PROVE  slot_index(s) \in Slots
BY NumFramesPositive, Z3 DEF slot_index, Slots

(* Two sessions of the same slot are a whole window apart.                 *)
LEMMA SameSlotFarApart ==
  ASSUME NEW s \in Nat, NEW t \in Nat, s < t, slot_index(s) = slot_index(t)
  PROVE  t - s >= NumFrames
<1> DEFINE q == t \div NumFrames - s \div NumFrames
<1>1. NumFrames \in Nat /\ NumFrames > 0
  BY NumFramesPositive
<1>2. /\ s \div NumFrames \in Nat /\ t \div NumFrames \in Nat
      /\ s = (s \div NumFrames) * NumFrames + (s % NumFrames)
      /\ t = (t \div NumFrames) * NumFrames + (t % NumFrames)
  BY <1>1, Z3
<1>3. s % NumFrames = t % NumFrames /\ s % NumFrames \in Nat
  BY <1>1, Z3 DEF slot_index
<1>4. t - s = q * NumFrames /\ q \in Int
  BY <1>1, <1>2, <1>3, Z3
<1> HIDE DEF q
<1>5. q > 0
  BY <1>1, <1>4, Z3
<1>6. q * NumFrames >= NumFrames
  BY <1>1, <1>4, <1>5, Z3
<1> QED
  BY <1>4, <1>6

LEMMA WindowBackSameSlot ==
  ASSUME NEW s \in Nat, s >= NumFrames
  PROVE  slot_index(s - NumFrames) = slot_index(s)
<1> DEFINE t == s - NumFrames
           k == s \div NumFrames - t \div NumFrames - 1
<1>1. NumFrames \in Nat /\ NumFrames > 0 /\ t \in Nat
  BY NumFramesPositive
<1>2. /\ s \div NumFrames \in Nat /\ t \div NumFrames \in Nat
      /\ s = (s \div NumFrames) * NumFrames + (s % NumFrames)
      /\ t = (t \div NumFrames) * NumFrames + (t % NumFrames)
      /\ s % NumFrames \in 0 .. NumFrames - 1 /\ t % NumFrames \in 0 .. NumFrames - 1
  BY <1>1, Z3
<1>3. (t % NumFrames) - (s % NumFrames) = k * NumFrames /\ k \in Int
  BY <1>1, <1>2, Z3
<1>4. k * NumFrames < NumFrames /\ k * NumFrames > - NumFrames
  BY <1>1, <1>2, <1>3
<1> HIDE DEF k
<1>5. k = 0
  BY <1>1, <1>3, <1>4, Z3
<1>6. t % NumFrames = s % NumFrames
  BY <1>1, <1>2, <1>3, <1>5
<1> QED
  BY <1>6 DEF slot_index

-----------------------------------------------------------------------------
(* The steps of ingest_datagram that only touch the contents of a frame.   *)

LEMMA ResetIsFrame ==
  ASSUME NEW session \in Nat, NEW f,
         f = reset_for(session, TRUE) \/ f = reset_for(session, FALSE)
  PROVE  IsFrame(f) /\ f.occupied /\ f.session_index = session
BY DEF reset_for, IsFrame, Vacant

LEMMA VacantIsFrame == IsFrame(Vacant) /\ ~ Vacant.occupied
BY DEF IsFrame, Vacant

LEMMA AddPktKeepsFrame ==
  ASSUME NEW f, IsFrame(f), NEW d
  PROVE  SameFrame(f, add_pkt(f, d))
BY DEF IsFrame, SameFrame, add_pkt, Vacant

LEMMA UpdateSizesKeepsFrames ==
  ASSUME NEW ring, NEW sizes, \A i \in Slots : IsFrame(ring[i])
  PROVE  /\ DOMAIN UpdateSizes(ring, sizes) = Slots
         /\ \A i \in Slots : SameFrame(ring[i], UpdateSizes(ring, sizes)[i])
<1>1. ASSUME NEW i \in Slots
      PROVE  SameFrame(ring[i], UpdateSizes(ring, sizes)[i])
  <2> DEFINE size == (CHOOSE h \in sizes : h.session = ring[i].session_index).size
  <2>1. SameFrame(ring[i], [ring[i] EXCEPT !.frame_size = size])
    BY DEF IsFrame, SameFrame, Vacant
  <2>2. SameFrame(ring[i], ring[i])
    BY DEF SameFrame
  <2>3. \/ UpdateSizes(ring, sizes)[i] = ring[i]
        \/ UpdateSizes(ring, sizes)[i] = [ring[i] EXCEPT !.frame_size = size]
    BY DEF UpdateSizes
  <2> QED
    BY <2>1, <2>2, <2>3
<1>2. DOMAIN UpdateSizes(ring, sizes) = Slots
  BY DEF UpdateSizes
<1> QED
  BY <1>1, <1>2

LEMMA MarkDecodedKeepsFrames ==
  ASSUME NEW ring, NEW bc, \A i \in Slots : IsFrame(ring[i])
  PROVE  /\ DOMAIN MarkDecoded(ring, bc) = Slots
         /\ \A i \in Slots : SameFrame(ring[i], MarkDecoded(ring, bc)[i])
<1>1. ASSUME NEW i \in Slots
      PROVE  SameFrame(ring[i], MarkDecoded(ring, bc)[i])
  <2>1. SameFrame(ring[i], [ring[i] EXCEPT !.is_decoded = TRUE])
    BY DEF IsFrame, SameFrame, Vacant
  <2>2. SameFrame(ring[i], ring[i])
    BY DEF SameFrame
  <2>3. \/ MarkDecoded(ring, bc)[i] = ring[i]
        \/ MarkDecoded(ring, bc)[i] = [ring[i] EXCEPT !.is_decoded = TRUE]
    BY DEF MarkDecoded
  <2> QED
    BY <2>1, <2>2, <2>3
<1>2. DOMAIN MarkDecoded(ring, bc) = Slots
  BY DEF MarkDecoded
<1> QED
  BY <1>1, <1>2

(* What keeps every frame the same frame keeps the ring and the memory of  *)
(* the deliveries in order.                                                *)
LEMMA SameFramesKeepRing ==
  ASSUME NEW ring, NEW new, NEW last \in Nat, NEW sessions,
         RingOK(ring, last), DeliveriesOK(ring, last, sessions),
         DOMAIN new = Slots, \A i \in Slots : SameFrame(ring[i], new[i])
  PROVE  RingOK(new, last) /\ DeliveriesOK(new, last, sessions)
<1>1. RingOK(new, last)
  BY DEF RingOK, SameFrame, IsFrame
<1>2. ASSUME NEW s \in sessions
      PROVE  s \in Nat /\ Remembered(s, new, last)
  <2>1. s \in Nat /\ Remembered(s, ring, last)
    BY DEF DeliveriesOK
  <2>2. slot_index(s) \in Slots
    BY <2>1, SlotIsSlot
  <2> QED
    BY <2>1, <2>2 DEF Remembered, Occupied, SameFrame
<1> QED
  BY <1>1, <1>2 DEF DeliveriesOK

-----------------------------------------------------------------------------
(* The steps of ingest_datagram that change which frames the ring holds.   *)

LastAfter(session) == IF session > last_session_index THEN session ELSE last_session_index

(* What ingest_datagram relies on when it opens the ring for a session.    *)
TrackingOK ==
  /\ last_session_index \in Nat /\ received_first \in BOOLEAN
  /\ RingOK(frames_ring, last_session_index)
  /\ ~ received_first => last_session_index = 0
  /\ \A i \in Slots : frames_ring[i].occupied => received_first

(* After purge_expired, fill_missing_frames and frame_mut a slot is        *)
(* vacated, as it was, a placeholder's or the new frame's.                 *)
LEMMA OpenedCases ==
  ASSUME TrackingOK, NEW session \in Nat, NEW i \in Slots
  PROVE  \/ /\ Opened(session)[i] = Vacant
            /\ i \in Expired(frames_ring, session) /\ i # slot_index(session)
         \/ /\ Opened(session)[i] = frames_ring[i]
            /\ i \notin Expired(frames_ring, session)
            /\ i = slot_index(session) => Occupied(frames_ring, session)
         \/ /\ i # slot_index(session)
            /\ \E s \in Skipped(Purge(frames_ring, session), session) :
                 Opened(session)[i] = reset_for(s, TRUE) /\ slot_index(s) = i
         \/ /\ Opened(session)[i] = reset_for(session, FALSE)
            /\ i = slot_index(session) /\ ~ Occupied(frames_ring, session)
<1> DEFINE purged == Purge(frames_ring, session)
           skipped == Skipped(purged, session)
           filled == Fill(purged, session)
<1>1. slot_index(session) \in Slots
  BY SlotIsSlot
<1>2. ASSUME NEW j \in Slots
      PROVE  \/ purged[j] = Vacant /\ j \in Expired(frames_ring, session)
             \/ purged[j] = frames_ring[j] /\ j \notin Expired(frames_ring, session)
  BY <1>2 DEF Purge
<1>3. ASSUME NEW j \in Slots
      PROVE  \/ filled[j] = purged[j]
             \/ \E s \in skipped : filled[j] = reset_for(s, TRUE) /\ slot_index(s) = j
  <2>1. CASE \E s \in skipped : slot_index(s) = j
    <3> DEFINE s == CHOOSE s \in skipped : slot_index(s) = j
    <3>1. s \in skipped /\ slot_index(s) = j
      BY <2>1
    <3>2. filled[j] = reset_for(s, TRUE)
      BY <1>3, <2>1 DEF Fill
    <3> QED
      BY <3>1, <3>2
  <2>2. CASE ~ \E s \in skipped : slot_index(s) = j
    BY <1>3, <2>2 DEF Fill
  <2> QED
    BY <2>1, <2>2
<1>4. \A s \in skipped : s \in Nat /\ s < session /\ last_session_index < s
  BY DEF Skipped, TrackingOK
<1>5. DOMAIN filled = Slots
  BY DEF Fill
<1>6. CASE Occupied(frames_ring, session)
  <2>1. session <= last_session_index
    BY <1>1, <1>6 DEF Occupied, TrackingOK, RingOK, InWindow
  <2>2. skipped = {}
    BY <1>4, <2>1 DEF TrackingOK
  <2>3. slot_index(session) \notin Expired(frames_ring, session)
    BY <1>6, NumFramesPositive
    DEF Expired, Occupied, frame_expired, frame_expired_session, saturating_sub
  <2>4. Occupied(filled, session)
    <3>1. filled[slot_index(session)] = frames_ring[slot_index(session)]
      BY <1>1, <1>2, <1>3, <2>2, <2>3
    <3> QED
      BY <1>6, <3>1 DEF Occupied
  <2>5. Opened(session)[i] = filled[i]
    BY <2>4 DEF Opened, Occupy
  <2>6. filled[i] = purged[i]
    BY <1>3, <2>2
  <2> QED
    BY <1>2, <1>6, <2>3, <2>5, <2>6
<1>7. CASE ~ Occupied(frames_ring, session)
  <2>1. ~ Occupied(filled, session)
    <3>1. CASE filled[slot_index(session)] = purged[slot_index(session)]
      BY <1>1, <1>2, <1>7, <3>1, VacantIsFrame DEF Occupied
    <3>2. CASE \E s \in skipped : filled[slot_index(session)] = reset_for(s, TRUE)
      <4>1. PICK s \in skipped : filled[slot_index(session)] = reset_for(s, TRUE)
        BY <3>2
      <4>2. s \in Nat /\ s < session
        BY <1>4
      <4>3. filled[slot_index(session)].session_index = s
        BY <4>1, <4>2, ResetIsFrame
      <4> QED
        BY <4>2, <4>3 DEF Occupied
    <3> QED
      BY <1>1, <1>3, <3>1, <3>2
  <2>2. Opened(session) = [filled EXCEPT ![slot_index(session)] = reset_for(session, FALSE)]
    BY <2>1 DEF Opened, Occupy
  <2>3. CASE i = slot_index(session)
    BY <1>5, <1>7, <2>2, <2>3
  <2>4. CASE i # slot_index(session)
    <3>1. Opened(session)[i] = filled[i]
      BY <1>5, <2>2, <2>4
    <3> QED
      BY <1>2, <1>3, <2>4, <3>1
  <2> QED
    BY <2>3, <2>4
<1> QED
  BY <1>6, <1>7

LEMMA OpenedDomain == ASSUME NEW session PROVE DOMAIN Opened(session) = Slots
<1>1. DOMAIN Fill(Purge(frames_ring, session), session) = Slots
  BY DEF Fill
<1> QED
  BY <1>1 DEF Opened, Occupy

LEMMA OpenedKeepsRing ==
  ASSUME TrackingOK, NEW session \in Nat, ~ OutOfWindow(session)
  PROVE  RingOK(Opened(session), LastAfter(session))
<1> DEFINE last == LastAfter(session)
<1>1. /\ last \in Nat /\ session <= last /\ last_session_index <= last
      /\ NumFrames \in Nat /\ NumFrames > 0
  BY NumFramesPositive DEF LastAfter, TrackingOK
<1>2. InWindow(session, last)
  <2>1. CASE received_first
    BY <1>1, <2>1
    DEF OutOfWindow, is_out_of_window_session, saturating_sub, LastAfter, InWindow, TrackingOK
  <2>2. CASE ~ received_first
    BY <1>1, <2>2 DEF LastAfter, InWindow, TrackingOK
  <2> QED
    BY <2>1, <2>2
<1>3. ASSUME NEW i \in Slots
      PROVE  LET f == Opened(session)[i]
             IN  /\ IsFrame(f)
                 /\ f.occupied => slot_index(f.session_index) = i /\ InWindow(f.session_index, last)
  <2>1. CASE Opened(session)[i] = Vacant
    BY <2>1, VacantIsFrame
  <2>2. CASE Opened(session)[i] = frames_ring[i] /\ i \notin Expired(frames_ring, session)
    <3>1. IsFrame(frames_ring[i])
      BY DEF TrackingOK, RingOK
    <3>2. ASSUME frames_ring[i].occupied
          PROVE  InWindow(frames_ring[i].session_index, last)
      <4>1. /\ frames_ring[i].session_index \in Nat
            /\ InWindow(frames_ring[i].session_index, last_session_index)
        BY <3>1, <3>2 DEF TrackingOK, RingOK, IsFrame
      <4>2. ~ frame_expired(session, frames_ring[i].session_index)
        BY <2>2, <3>2 DEF Expired
      <4> QED
        BY <1>1, <4>1, <4>2
        DEF InWindow, LastAfter, frame_expired, frame_expired_session, saturating_sub, TrackingOK
    <3> QED
      BY <2>2, <3>1, <3>2 DEF TrackingOK, RingOK
  <2>3. CASE /\ i # slot_index(session)
             /\ \E s \in Skipped(Purge(frames_ring, session), session) :
                  Opened(session)[i] = reset_for(s, TRUE) /\ slot_index(s) = i
    <3>1. PICK s \in Skipped(Purge(frames_ring, session), session) :
            Opened(session)[i] = reset_for(s, TRUE) /\ slot_index(s) = i
      BY <2>3
    <3>2. /\ s \in Nat /\ s < session /\ last_session_index < s
          /\ session - s <= NumFrames
      BY DEF Skipped, TrackingOK
    <3>3. session - s # NumFrames
      <4>1. ASSUME session - s = NumFrames PROVE s = session - NumFrames /\ session >= NumFrames
        BY <1>1, <3>2, <4>1
      <4> QED
        BY <2>3, <3>1, <4>1, WindowBackSameSlot
    <3>4. InWindow(s, last)
      BY <1>1, <3>2, <3>3 DEF InWindow, LastAfter, TrackingOK
    <3>5. /\ IsFrame(Opened(session)[i]) /\ Opened(session)[i].occupied
          /\ Opened(session)[i].session_index = s
      BY <3>1, <3>2, ResetIsFrame
    <3> QED
      BY <3>1, <3>4, <3>5
  <2>4. CASE Opened(session)[i] = reset_for(session, FALSE) /\ i = slot_index(session)
    <3>1. IsFrame(Opened(session)[i]) /\ Opened(session)[i].session_index = session
      BY <2>4, ResetIsFrame
    <3> QED
      BY <1>2, <2>4, <3>1
  <2> QED
    BY <2>1, <2>2, <2>3, <2>4, OpenedCases
<1> QED
  BY <1>3, OpenedDomain DEF RingOK

(* A frame that is overwritten or purged has left the window.              *)
LEMMA OpenedRemembers ==
  ASSUME TrackingOK, NEW session \in Nat, ~ OutOfWindow(session), NEW sessions,
         DeliveriesOK(frames_ring, last_session_index, sessions)
  PROVE  DeliveriesOK(Opened(session), LastAfter(session), sessions)
<1> DEFINE last == LastAfter(session)
<1>1. /\ last \in Nat /\ session <= last /\ last_session_index <= last
      /\ last_session_index \in Nat /\ NumFrames \in Nat /\ NumFrames > 0
  BY NumFramesPositive DEF LastAfter, TrackingOK
<1>2. ASSUME NEW s \in sessions
      PROVE  s \in Nat /\ Remembered(s, Opened(session), last)
  <2> DEFINE i == slot_index(s)
  <2>1. s \in Nat /\ i \in Slots /\ Remembered(s, frames_ring, last_session_index)
    BY SlotIsSlot DEF DeliveriesOK
  <2>2. CASE s + NumFrames <= last_session_index
    BY <1>1, <2>1, <2>2 DEF Remembered
  <2>3. CASE /\ frames_ring[i].occupied /\ frames_ring[i].session_index = s
             /\ frames_ring[i].delivered
    <3>1. InWindow(s, last_session_index)
      BY <2>1, <2>3 DEF TrackingOK, RingOK
    <3>2. CASE i \in Expired(frames_ring, session)
      <4>1. session - s >= NumFrames
        BY <1>1, <2>1, <2>3, <3>2
        DEF Expired, frame_expired, frame_expired_session, saturating_sub
      <4> QED
        BY <1>1, <2>1, <4>1 DEF Remembered
    <3>3. CASE Opened(session)[i] = frames_ring[i]
      BY <2>1, <2>3, <3>3 DEF Remembered, Occupied
    <3>4. CASE \E t \in Skipped(Purge(frames_ring, session), session) : slot_index(t) = i
      <4>1. PICK t \in Skipped(Purge(frames_ring, session), session) : slot_index(t) = i
        BY <3>4
      <4>2. t \in Nat /\ last_session_index < t /\ t < session
        BY <1>1 DEF Skipped
      <4>3. s < t
        BY <1>1, <2>1, <3>1, <4>2 DEF InWindow
      <4>4. t - s >= NumFrames
        BY <2>1, <4>1, <4>2, <4>3, SameSlotFarApart
      <4> QED
        BY <1>1, <2>1, <4>2, <4>4 DEF Remembered
    <3>5. CASE i = slot_index(session) /\ ~ Occupied(frames_ring, session)
      <4>1. s # session
        BY <2>3, <3>5 DEF Occupied
      <4>2. ~ (session < s)
        <5>1. received_first
          BY <2>1, <2>3 DEF TrackingOK
        <5>2. ~ (frames_ring[slot_index(session)].occupied
                   /\ session < frames_ring[slot_index(session)].session_index)
          BY <5>1 DEF OutOfWindow
        <5> QED
          BY <2>3, <3>5, <5>2
      <4>3. s < session
        BY <2>1, <4>1, <4>2
      <4>4. session - s >= NumFrames
        BY <2>1, <3>5, <4>3, SameSlotFarApart
      <4> QED
        BY <1>1, <2>1, <4>4 DEF Remembered
    <3> QED
      BY <2>1, <3>2, <3>3, <3>4, <3>5, OpenedCases
  <2> QED
    BY <2>1, <2>2, <2>3 DEF Remembered, Occupied
<1> QED
  BY <1>2 DEF DeliveriesOK

-----------------------------------------------------------------------------
(* drain_recovered                                                         *)

LEMMA EmitKeeps ==
  ASSUME NEW ring, NEW bc, NEW feedback, NEW due, NEW last \in Nat,
         RingOK(ring, last), DeliveriesOK(ring, last, Sessions(delivered)),
         again = {}, EmitPending(ring, bc, feedback, due)
  PROVE  /\ RingOK(frames_ring', last)
         /\ DeliveriesOK(frames_ring', last, Sessions(delivered'))
         /\ again' = {}
         /\ \A i \in Slots : frames_ring'[i].occupied = ring[i].occupied
<1>1. ASSUME NEW i \in Slots
      PROVE  /\ DOMAIN frames_ring'[i] = DOMAIN ring[i]
             /\ frames_ring'[i].occupied = ring[i].occupied
             /\ frames_ring'[i].session_index = ring[i].session_index
             /\ frames_ring'[i].delivered = (ring[i].delivered \/ i \in Deliverable(ring, bc))
  <2>1. IsFrame(ring[i])
    BY DEF RingOK
  <2>2. CASE i \in Deliverable(ring, bc)
    <3>1. frames_ring'[i] = [ring[i] EXCEPT !.delivered = TRUE]
      BY <2>2 DEF EmitPending
    <3> QED
      BY <2>1, <2>2, <3>1 DEF IsFrame, Vacant
  <2>3. CASE i \notin Deliverable(ring, bc)
    <3>1. frames_ring'[i] = ring[i]
      BY <2>3 DEF EmitPending
    <3> QED
      BY <2>1, <2>3, <3>1 DEF IsFrame
  <2> QED
    BY <2>2, <2>3
<1>2. RingOK(frames_ring', last)
  <2>1. DOMAIN frames_ring' = Slots
    BY DEF EmitPending
  <2>2. ASSUME NEW i \in Slots
        PROVE  /\ IsFrame(frames_ring'[i])
               /\ frames_ring'[i].occupied =>
                    /\ slot_index(frames_ring'[i].session_index) = i
                    /\ InWindow(frames_ring'[i].session_index, last)
    <3>1. /\ IsFrame(ring[i])
          /\ ring[i].occupied => /\ slot_index(ring[i].session_index) = i
                                 /\ InWindow(ring[i].session_index, last)
      BY DEF RingOK
    <3>2. frames_ring'[i].delivered \in BOOLEAN
      BY <1>1, <3>1 DEF IsFrame
    <3> QED
      BY <1>1, <3>1, <3>2 DEF IsFrame
  <2> QED
    BY <2>1, <2>2 DEF RingOK
(* A frame delivered now is in the window, unflagged: not delivered before.*)
<1>3. ASSUME NEW i \in Deliverable(ring, bc)
      PROVE  /\ i \in Slots /\ ring[i].occupied /\ ~ ring[i].delivered
             /\ ring[i].session_index \in Nat
             /\ slot_index(ring[i].session_index) = i
             /\ ring[i].session_index \notin Sessions(delivered)
  <2>1. i \in Slots /\ ring[i].occupied /\ ~ ring[i].delivered
    BY DEF Deliverable
  <2>2. /\ ring[i].session_index \in Nat
        /\ slot_index(ring[i].session_index) = i
        /\ InWindow(ring[i].session_index, last)
    BY <2>1 DEF RingOK, IsFrame
  <2>3. ~ Remembered(ring[i].session_index, ring, last)
    BY <2>1, <2>2, NumFramesPositive DEF Remembered, InWindow
  <2> QED
    BY <2>1, <2>2, <2>3 DEF DeliveriesOK
<1>4. ASSUME NEW s \in Sessions(Recovered(ring, bc))
      PROVE  \E i \in Deliverable(ring, bc) : ring[i].session_index = s
  BY <1>4 DEF Sessions, Recovered
<1>5. again' = {}
  <2>1. Sessions(delivered) \cap Sessions(Recovered(ring, bc)) = {}
    BY <1>3, <1>4
  <2> QED
    BY <2>1 DEF EmitPending
<1>6. ASSUME NEW s \in Sessions(delivered')
      PROVE  s \in Nat /\ Remembered(s, frames_ring', last)
  <2>1. s \in Sessions(delivered) \/ s \in Sessions(Recovered(ring, bc))
    BY <1>6 DEF EmitPending, Sessions
  <2>2. CASE s \in Sessions(delivered)
    <3>1. s \in Nat /\ Remembered(s, ring, last) /\ slot_index(s) \in Slots
      BY <2>2, SlotIsSlot DEF DeliveriesOK
    <3> QED
      BY <1>1, <3>1 DEF Remembered, Occupied
  <2>3. CASE s \in Sessions(Recovered(ring, bc))
    <3>1. PICK i \in Deliverable(ring, bc) : ring[i].session_index = s
      BY <1>4, <2>3
    <3>2. /\ i \in Slots /\ ring[i].occupied /\ s \in Nat /\ slot_index(s) = i
      BY <1>3, <3>1
    <3>3. /\ frames_ring'[i].occupied /\ frames_ring'[i].session_index = s
          /\ frames_ring'[i].delivered
      BY <1>1, <3>1, <3>2
    <3> QED
      BY <3>2, <3>3 DEF Remembered, Occupied
  <2> QED
    BY <2>1, <2>2, <2>3
<1> QED
  BY <1>1, <1>2, <1>5, <1>6 DEF DeliveriesOK

-----------------------------------------------------------------------------
(* What each datagram of the channel and the tracker have, as far as the   *)
(* receiver's session depends on it.                                       *)
InputOK ==
  /\ next_session_index \in Nat
  /\ last_session \in Nat \cup {NoSession}
  /\ \A d \in sent : d.wire \in Nat

(***************************************************************************)
(* The inductive invariant.  DeliveredOnce alone is not inductive: that a  *)
(* frame is not handed over again rests on its flag, which lives as long   *)
(* as its ring entry; that the entry is not opened anew afterwards rests   *)
(* on the window, which never moves back.                                  *)
(***************************************************************************)
Remembering ==
  /\ InputOK /\ TrackingOK
  /\ DeliveriesOK(frames_ring, last_session_index, Sessions(delivered))
  /\ again = {}

LEMMA InitRemembers == Init => Remembering
<1> SUFFICES ASSUME Init PROVE Remembering
  OBVIOUS
<1>1. InputOK
  BY DecoderAssumption DEF Init, InputOK
<1>2. ASSUME NEW i \in Slots
      PROVE  frames_ring[i] = Vacant
  BY DEF Init
<1>3. DOMAIN frames_ring = Slots
  BY DEF Init
<1>4. RingOK(frames_ring, last_session_index)
  BY <1>2, <1>3, VacantIsFrame DEF RingOK
<1>5. TrackingOK
  BY <1>2, <1>4, VacantIsFrame DEF Init, TrackingOK
<1>6. Sessions(delivered) = {}
  BY DEF Init, Sessions
<1> QED
  BY <1>1, <1>5, <1>6 DEF Init, Remembering, DeliveriesOK

LEMMA EncodeRemembers ==
  ASSUME Remembering, NEW shape \in Shapes, Encode(shape)
  PROVE  Remembering'
<1>1. FIRST_FRAME \in Nat /\ next_session_index \in Nat
  BY DecoderAssumption DEF Remembering, InputOK
<1>2. ASSUME NEW d \in sent'
      PROVE  d.wire \in Nat
  <2>1. CASE d \in sent
    BY <2>1 DEF Remembering, InputOK
  <2>2. CASE d \in Datagrams(next_session_index, sqn, shape)
    <3>1. d.wire = wire_frame_num(next_session_index)
      BY <2>2 DEF Datagrams
    <3>2. wire_frame_num(next_session_index) \in 0 .. FRAME_SPACE - 1
      BY <1>1, DivisionByFrameSpace
    <3> QED
      BY <3>1, <3>2, FrameSpaceAssumption
  <2> QED
    BY <1>2, <2>1, <2>2 DEF Encode
<1>3. InputOK'
  BY <1>1, <1>2 DEF Encode, Remembering, InputOK, tracking_vars
<1>4. TrackingOK'
  BY DEF Encode, Remembering, TrackingOK, tracking_vars
<1>5. delivered' = delivered /\ again' = again /\ frames_ring' = frames_ring
      /\ last_session_index' = last_session_index
  BY DEF Encode, history_vars, tracking_vars
<1> QED
  BY <1>3, <1>4, <1>5 DEF Remembering

(* A call that only emits: a duplicate, a refused datagram, or a poll.     *)
LEMMA EmitRemembers ==
  ASSUME Remembering, NEW due,
         EmitPending(frames_ring, code, feedback_frames, due),
         UNCHANGED <<encoder_vars, received_first, last_session_index>>,
         last_session' \in Nat \cup {NoSession}
  PROVE  Remembering'
<1>1. last_session_index \in Nat
  BY DEF Remembering, TrackingOK
<1>2. /\ RingOK(frames_ring', last_session_index)
      /\ DeliveriesOK(frames_ring', last_session_index, Sessions(delivered'))
      /\ again' = {}
      /\ \A i \in Slots : frames_ring'[i].occupied = frames_ring[i].occupied
  BY <1>1, EmitKeeps DEF Remembering, TrackingOK
<1>3. InputOK'
  BY DEF Remembering, InputOK, encoder_vars
<1>4. TrackingOK'
  BY <1>2 DEF Remembering, TrackingOK
<1> QED
  BY <1>2, <1>3, <1>4 DEF Remembering

LEMMA AcceptRemembers ==
  ASSUME Remembering, NEW d \in sent, NEW session \in Nat, NEW due,
         Accept(d, session, due)
  PROVE  Remembering'
<1> DEFINE last == LastAfter(session)
           opened == Opened(session)
           header == ReceiveHeader(header_code, d, session)
           sized == UpdateSizes(opened, header.sizes)
           added == Added(d, session, header.sizes)
           bc == DecodeFrames(AddPacket(code, d), added)
           marked == MarkDecoded(added, bc)
           S == Sessions(delivered)
<1>1. last \in Nat /\ TrackingOK /\ again = {} /\ slot_index(session) \in Slots
  BY SlotIsSlot DEF LastAfter, Remembering, TrackingOK
<1>2. /\ ~ OutOfWindow(session)
      /\ last_session' = session /\ received_first' = TRUE /\ last_session_index' = last
      /\ EmitPending(marked, bc, feedback_frames \o PurgedVerdicts(frames_ring, session), due)
      /\ UNCHANGED encoder_vars
  BY DEF Accept, LastAfter
<1>3. RingOK(opened, last) /\ DeliveriesOK(opened, last, S)
  BY <1>1, <1>2, OpenedKeepsRing, OpenedRemembers DEF Remembering
<1>4. added = [sized EXCEPT ![slot_index(session)] = add_pkt(@, d)]
  BY DEF Added
<1> HIDE DEF last, opened, header, added, bc, S
<1>5. RingOK(sized, last) /\ DeliveriesOK(sized, last, S)
  <2>1. /\ DOMAIN sized = Slots
        /\ \A i \in Slots : SameFrame(opened[i], sized[i])
    BY <1>3, UpdateSizesKeepsFrames DEF RingOK
  <2> QED
    BY <1>1, <1>3, <2>1, SameFramesKeepRing
<1> HIDE DEF sized
<1>6. RingOK(added, last) /\ DeliveriesOK(added, last, S)
  <2>1. DOMAIN sized = Slots /\ IsFrame(sized[slot_index(session)])
    BY <1>1, <1>5 DEF RingOK
  <2>2. DOMAIN added = Slots
    BY <1>4, <2>1
  <2>3. ASSUME NEW i \in Slots
        PROVE  SameFrame(sized[i], added[i])
    <3>1. CASE i = slot_index(session)
      <4>1. added[i] = add_pkt(sized[i], d)
        BY <1>4, <2>1, <3>1
      <4> QED
        BY <2>1, <3>1, <4>1, AddPktKeepsFrame
    <3>2. CASE i # slot_index(session)
      BY <1>4, <2>1, <3>2 DEF SameFrame
    <3> QED
      BY <3>1, <3>2
  <2> QED
    BY <1>1, <1>5, <2>2, <2>3, SameFramesKeepRing
<1>7. RingOK(marked, last) /\ DeliveriesOK(marked, last, S)
  <2>1. /\ DOMAIN marked = Slots
        /\ \A i \in Slots : SameFrame(added[i], marked[i])
    BY <1>6, MarkDecodedKeepsFrames DEF RingOK
  <2> QED
    BY <1>1, <1>6, <2>1, SameFramesKeepRing
<1> HIDE DEF marked
<1>8. /\ RingOK(frames_ring', last)
      /\ DeliveriesOK(frames_ring', last, Sessions(delivered'))
      /\ again' = {}
  BY <1>1, <1>2, <1>7, EmitKeeps DEF S
<1>9. InputOK'
  BY <1>2 DEF Remembering, InputOK, encoder_vars
<1>10. TrackingOK'
  BY <1>1, <1>2, <1>8 DEF TrackingOK
<1> QED
  BY <1>2, <1>8, <1>9, <1>10 DEF Remembering

LEMMA ReceiveRemembers ==
  ASSUME Remembering, NEW d \in InFlight, NEW due \in BOOLEAN, Receive(d, due)
  PROVE  Remembering'
<1> DEFINE session == resolve_wire(last_session, d.wire)
<1>1. d \in sent /\ last_session \in Nat \cup {NoSession} /\ d.wire \in Nat
  BY DEF InFlight, Remembering, InputOK
<1>2. session \in Nat
  BY <1>1, ResolveIsNatural
<1> HIDE DEF session
<1>3. CASE Duplicate(d, due)
  BY <1>1, <1>3, EmitRemembers DEF Duplicate, tracking_vars
<1>4. CASE Refuse(d, session, due)
  BY <1>2, <1>4, EmitRemembers DEF Refuse
<1>5. CASE Accept(d, session, due)
  BY <1>1, <1>2, <1>5, AcceptRemembers
<1> QED
  BY <1>3, <1>4, <1>5 DEF Receive, session

LEMMA NextRemembers == Remembering /\ [Next]_vars => Remembering'
<1> SUFFICES ASSUME Remembering, [Next]_vars PROVE Remembering'
  OBVIOUS
<1>1. CASE \E shape \in Shapes : Encode(shape)
  BY <1>1, EncodeRemembers
<1>2. CASE \E d \in InFlight, due \in BOOLEAN : Receive(d, due)
  BY <1>2, ReceiveRemembers
<1>3. CASE \E due \in BOOLEAN : Poll(due)
  <2>1. last_session \in Nat \cup {NoSession}
    BY DEF Remembering, InputOK
  <2> QED
    BY <1>3, <2>1, EmitRemembers DEF Poll, tracking_vars
<1>4. CASE UNCHANGED vars
  <2>1. UNCHANGED <<next_session_index, sent, last_session, received_first,
                    last_session_index, frames_ring, delivered, again>>
    BY <1>4 DEF vars, encoder_vars, tracking_vars, history_vars
  <2> QED
    BY <2>1 DEF Remembering, InputOK, TrackingOK
<1> QED
  BY <1>1, <1>2, <1>3, <1>4 DEF Next

(***************************************************************************)
(* No frame is handed to the application twice (take_recovered_frame),     *)
(* whatever is lost, late, repeated or reordered, over any number of laps  *)
(* of the wire numbers.                                                    *)
(***************************************************************************)
THEOREM DeliveredOnceAlways == Spec => []DeliveredOnce
<1>1. Remembering => DeliveredOnce
  BY DEF Remembering, DeliveredOnce
<1> QED
  BY <1>1, InitRemembers, NextRemembers, PTL DEF Spec

(***************************************************************************)
(* The ring part of WindowsAgree: no frame stays in the ring once the      *)
(* window has moved over it, nor in another slot than its own, nor ahead   *)
(* of the newest session accepted (purge_expired, fill_missing_frames,     *)
(* frame_mut).                                                             *)
(***************************************************************************)
RingWithinWindow ==
  \A i \in Slots : frames_ring[i].occupied =>
    /\ slot_index(frames_ring[i].session_index) = i
    /\ last_session_index - frames_ring[i].session_index \in 0 .. NumFrames - 1

THEOREM RingWithinWindowAlways == Spec => []RingWithinWindow
<1>1. Remembering => RingWithinWindow
  <2> SUFFICES ASSUME Remembering, NEW i \in Slots, frames_ring[i].occupied
               PROVE  /\ slot_index(frames_ring[i].session_index) = i
                      /\ last_session_index - frames_ring[i].session_index \in 0 .. NumFrames - 1
    BY DEF RingWithinWindow
  <2>1. /\ last_session_index \in Nat /\ IsFrame(frames_ring[i])
        /\ slot_index(frames_ring[i].session_index) = i
        /\ InWindow(frames_ring[i].session_index, last_session_index)
    BY DEF Remembering, TrackingOK, RingOK
  <2>2. frames_ring[i].session_index \in Nat
    BY <2>1 DEF IsFrame
  <2> QED
    BY <2>1, <2>2, NumFramesPositive DEF InWindow
<1> QED
  BY <1>1, InitRemembers, NextRemembers, PTL DEF Spec

-----------------------------------------------------------------------------
(* fill_missing_frames.                                                    *)

(* The frames skipped have each a slot of its own, and not the new one's.  *)
LEMMA OpenedHoldsSkipped ==
  ASSUME TrackingOK, received_first, NEW session \in Nat,
         session - last_session_index <= NumFrames,
         NEW s \in last_session_index + 1 .. session
  PROVE  Occupied(Opened(session), s)
<1> DEFINE purged == Purge(frames_ring, session)
           skipped == Skipped(purged, session)
           filled == Fill(purged, session)
           i == slot_index(s)
<1>1. /\ last_session_index \in Nat /\ s \in Nat /\ s <= session /\ s > last_session_index
      /\ NumFrames \in Nat /\ NumFrames > 0
  BY NumFramesPositive DEF TrackingOK
<1>2. i \in Slots
  BY <1>1, SlotIsSlot
<1>3. CASE s = session
  <2>1. CASE Opened(session)[i] = frames_ring[i] /\ Occupied(frames_ring, session)
    BY <1>3, <2>1 DEF Occupied
  <2>2. CASE Opened(session)[i] = reset_for(session, FALSE)
    BY <1>3, <2>2, ResetIsFrame DEF Occupied
  <2> QED
    BY <1>2, <1>3, <2>1, <2>2, OpenedCases
<1>4. CASE s # session
  <2>1. s < session /\ session - s < NumFrames /\ session - s <= NumFrames
    BY <1>1, <1>4
  <2>2. Occupied(filled, s)
    <3>1. CASE \E t \in skipped : slot_index(t) = i
      <4> DEFINE t == CHOOSE t \in skipped : slot_index(t) = i
      <4>1. t \in skipped /\ slot_index(t) = i
        BY <3>1
      <4>2. filled[i] = reset_for(t, TRUE)
        BY <1>2, <3>1 DEF Fill
      <4> HIDE DEF t
      <4>3. t \in Nat /\ t > last_session_index /\ t < session
        BY <1>1, <4>1 DEF Skipped
      <4>4. t = s
        <5>1. ~ (t < s)
          BY <1>1, <4>1, <4>3, SameSlotFarApart
        <5>2. ~ (s < t)
          BY <1>1, <4>1, <4>3, SameSlotFarApart
        <5> QED
          BY <1>1, <4>3, <5>1, <5>2
      <4> QED
        BY <1>1, <4>2, <4>4, ResetIsFrame DEF Occupied
    <3>2. CASE ~ \E t \in skipped : slot_index(t) = i
      <4>1. filled[i] = purged[i]
        BY <1>2, <3>2 DEF Fill
      <4>2. s \notin skipped
        BY <3>2
      <4>3. s \in last_session_index + 1 .. session - 1
        BY <1>1, <2>1
      <4>4. Occupied(purged, s)
        BY <2>1, <4>2, <4>3 DEF Skipped
      <4> QED
        BY <4>1, <4>4 DEF Occupied
    <3> QED
      BY <3>1, <3>2
  <2>3. slot_index(session) # i
    BY <1>1, <2>1, SameSlotFarApart
  <2>4. DOMAIN filled = Slots
    BY DEF Fill
  <2>5. Opened(session)[i] = filled[i]
    BY <1>2, <2>3, <2>4 DEF Opened, Occupy
  <2> QED
    BY <2>2, <2>5 DEF Occupied
<1> QED
  BY <1>3, <1>4

(* Everything after the opening leaves the frames in their slots.          *)
LEMMA AcceptKeepsPlaces ==
  ASSUME TrackingOK, NEW d, NEW session \in Nat, NEW due, Accept(d, session, due),
         NEW i \in Slots
  PROVE  /\ frames_ring'[i].occupied = Opened(session)[i].occupied
         /\ frames_ring'[i].session_index = Opened(session)[i].session_index
<1> DEFINE opened == Opened(session)
           header == ReceiveHeader(header_code, d, session)
           sized == UpdateSizes(opened, header.sizes)
           added == Added(d, session, header.sizes)
           bc == DecodeFrames(AddPacket(code, d), added)
           marked == MarkDecoded(added, bc)
<1>1. \A j \in Slots : IsFrame(opened[j])
  BY OpenedKeepsRing DEF Accept, RingOK
<1>2. /\ frames_ring' = [j \in Slots |-> IF j \in Deliverable(marked, bc)
                                         THEN [marked[j] EXCEPT !.delivered = TRUE]
                                         ELSE marked[j]]
      /\ added = [sized EXCEPT ![slot_index(session)] = add_pkt(@, d)]
  BY DEF Accept, EmitPending, Added
<1> HIDE DEF opened, header, added, bc
<1>3. DOMAIN sized = Slots /\ \A j \in Slots : SameFrame(opened[j], sized[j])
  BY <1>1, UpdateSizesKeepsFrames
<1>4. \A j \in Slots : IsFrame(sized[j])
  BY <1>1, <1>3 DEF SameFrame, IsFrame
<1> HIDE DEF sized
<1>5. \A j \in Slots : SameFrame(sized[j], added[j])
  <2> SUFFICES ASSUME NEW j \in Slots PROVE SameFrame(sized[j], added[j])
    OBVIOUS
  <2>1. added[j] = sized[j] \/ added[j] = add_pkt(sized[j], d)
    BY <1>2, <1>3
  <2>2. SameFrame(sized[j], add_pkt(sized[j], d)) /\ SameFrame(sized[j], sized[j])
    BY <1>4, AddPktKeepsFrame DEF SameFrame
  <2> QED
    BY <2>1, <2>2
<1>6. \A j \in Slots : IsFrame(added[j])
  BY <1>4, <1>5 DEF SameFrame, IsFrame
<1>7. SameFrame(added[i], marked[i])
  BY <1>6, MarkDecodedKeepsFrames
<1>8. IsFrame(marked[i])
  BY <1>6, <1>7 DEF SameFrame, IsFrame
<1> HIDE DEF marked
<1>9. /\ frames_ring'[i].occupied = marked[i].occupied
      /\ frames_ring'[i].session_index = marked[i].session_index
  BY <1>2, <1>8 DEF IsFrame, Vacant
<1> QED
  BY <1>3, <1>5, <1>7, <1>9 DEF SameFrame, opened

(***************************************************************************)
(* THEOREM.  fill_missing_frames: of the frames that a burst of losses     *)
(* skips, none is missing from the loss report if the ring has room for    *)
(* them, over any number of laps of the wire numbers and for every channel,*)
(* also when the tracker takes a late frame for one of the next lap.       *)
(***************************************************************************)
THEOREM SkippedAreCountedAlways == Spec => SkippedAreCounted
<1> DEFINE Counted ==
      \A s \in last_session_index + 1 .. last_session_index' :
        received_first /\ last_session_index' - last_session_index <= NumFrames
          => \/ InRing(s)'
             \/ \E v \in Verdicts' : v.session = s
<1>1. Remembering /\ [Next]_vars => [Counted]_vars
  <2> SUFFICES ASSUME Remembering, [Next]_vars PROVE Counted
    OBVIOUS
  <2>1. TrackingOK /\ last_session_index \in Nat
    BY DEF Remembering, TrackingOK
  <2>2. CASE last_session_index' = last_session_index
    BY <2>1, <2>2
  <2>3. ASSUME NEW d \in InFlight, NEW due \in BOOLEAN,
               Accept(d, resolve_wire(last_session, d.wire), due)
        PROVE  Counted
    <3> DEFINE session == resolve_wire(last_session, d.wire)
    <3>1. session \in Nat
      BY ResolveIsNatural DEF InFlight, Remembering, InputOK
    <3> HIDE DEF session
    <3>2. CASE session > last_session_index
      <4>1. last_session_index' = session
        BY <2>3, <3>2 DEF Accept, session
      <4> SUFFICES ASSUME NEW s \in last_session_index + 1 .. session, received_first,
                          session - last_session_index <= NumFrames
                   PROVE  InRing(s)'
        BY <4>1
      <4>2. Occupied(Opened(session), s)
        BY <2>1, <3>1, OpenedHoldsSkipped
      <4>3. slot_index(s) \in Slots
        BY <2>1, SlotIsSlot
      <4> QED
        BY <2>1, <2>3, <3>1, <4>2, <4>3, AcceptKeepsPlaces DEF InRing, Occupied, session
    <3>3. CASE ~ (session > last_session_index)
      BY <2>2, <2>3, <3>3 DEF Accept, session
    <3> QED
      BY <3>2, <3>3
  <2> QED
    BY <2>2, <2>3
    DEF Next, Encode, Receive, Duplicate, Refuse, Poll, vars, tracking_vars
<1> QED
  BY <1>1, InitRemembers, NextRemembers, PTL DEF Spec, SkippedAreCounted

-----------------------------------------------------------------------------
(***************************************************************************)
(* A STREAM THAT ENDS BEFORE THE WIRE NUMBERS REPEAT                       *)
(***************************************************************************)

(* The frames of the window whose newest frame is `last`.  Those before    *)
(* frame 0 have a negative number and are shown as BeforeFirst.            *)
Frames(last) == last - NumFrames + 1 .. last

(* Division by the length of the window.                                   *)
LEMMA RemainderOf ==
  ASSUME NEW f \in Int
  PROVE  /\ f \div NumFrames \in Int /\ f % NumFrames \in 0 .. NumFrames - 1
         /\ f = NumFrames * (f \div NumFrames) + (f % NumFrames)
<1>0. NumFrames \in Nat /\ NumFrames > 0
  BY NumFramesPositive
<1>1. f \div NumFrames \in Int
  BY <1>0, Z3
<1>2. f % NumFrames \in 0 .. NumFrames - 1
  BY <1>0, Z3
<1>3. f = NumFrames * (f \div NumFrames) + (f % NumFrames)
  BY <1>0, Z3
<1> QED
  BY <1>1, <1>2, <1>3

(* A frame has a slot, also one that was never sent.                       *)
LEMMA SlotOfFrame ==
  ASSUME NEW f \in Int
  PROVE  DecoderSlot(f) \in Slots
BY RemainderOf DEF DecoderSlot, Slots

(* Two frames of one window have different slots.                          *)
LEMMA OneFramePerSlot ==
  ASSUME NEW f \in Int, NEW g \in Int, DecoderSlot(f) = DecoderSlot(g),
         f - g < NumFrames, g - f < NumFrames
  PROVE  f = g
<1> DEFINE a == f \div NumFrames
           b == g \div NumFrames
           k == a - b
<1>0. NumFrames \in Nat /\ NumFrames > 0
  BY NumFramesPositive
<1>1. k \in Int
  BY RemainderOf
<1>2. f - g = NumFrames * k
  <2>1. /\ a \in Int /\ f % NumFrames \in 0 .. NumFrames - 1
        /\ b \in Int /\ g % NumFrames \in 0 .. NumFrames - 1
        /\ f = NumFrames * a + (f % NumFrames) /\ g = NumFrames * b + (g % NumFrames)
    BY RemainderOf
  <2>2. f % NumFrames = g % NumFrames
    BY DEF DecoderSlot
  <2> HIDE DEF a, b
  <2> QED
    BY <1>0, <2>1, <2>2, Z3
<1> HIDE DEF k
<1>3. k = 0
  BY <1>0, <1>1, <1>2, Z3
<1> QED
  BY <1>0, <1>1, <1>2, <1>3

(* The slots are used again after NumFrames frames.                        *)
LEMMA SlotsRepeat ==
  ASSUME NEW f \in Int
  PROVE  DecoderSlot(f + NumFrames) = DecoderSlot(f)
<1> DEFINE g == f + NumFrames
           a == f \div NumFrames
           b == g \div NumFrames
           k == a + 1 - b
           r == f % NumFrames
           s == g % NumFrames
<1>0. NumFrames \in Nat /\ NumFrames > 0 /\ g \in Int
  BY NumFramesPositive
<1>1. /\ a \in Int /\ r \in 0 .. NumFrames - 1 /\ f = NumFrames * a + r
      /\ b \in Int /\ s \in 0 .. NumFrames - 1 /\ g = NumFrames * b + s
  BY <1>0, RemainderOf
<1>2. k \in Int
  BY <1>1
<1>3. s - r = NumFrames * k
  <2> HIDE DEF a, b, r, s
  <2> QED
    BY <1>0, <1>1, Z3
<1> HIDE DEF k, r, s
<1>4. NumFrames * k < NumFrames /\ NumFrames * k > -NumFrames
  BY <1>0, <1>1, <1>3
<1>5. k = 0
  BY <1>0, <1>2, <1>4, Z3
<1>6. s = r
  BY <1>0, <1>1, <1>3, <1>5
<1> QED
  BY <1>6 DEF r, s, DecoderSlot

-----------------------------------------------------------------------------

Shown(f) == IF f < 0 THEN BeforeFirst ELSE f

(* A sliding block code, as far as the proofs look at it.                  *)
IsCode(bc) ==
  /\ DOMAIN bc = DOMAIN EmptyCode
  /\ DOMAIN bc.erased = Slots /\ DOMAIN bc.parity = Slots /\ DOMAIN bc.owner = Slots

(* The slot of frame f holds stripes of f or none, none of a frame that    *)
(* was never sent, and the first column is not taken for known before      *)
(* something of f was placed there.                                        *)
Own(bc, f) ==
  LET s == DecoderSlot(f)
  IN  /\ bc.owner[s] \subseteq {Shown(f)}
      /\ bc.parity[s] # {} => f >= 0
      /\ bc.owner[s] = {} => 1 \in bc.erased[s]

(* The code's window ends at frame `last`, which is the wire number too,   *)
(* and every frame of the window has its slot for itself.                  *)
InStep(bc, last) ==
  /\ IsCode(bc)
  /\ bc.ts = last /\ bc.newest = last /\ bc.damaged = {}
  /\ \A f \in Frames(last) : Own(bc, f)

(* A code as it was built: known zeros from before the first frame.        *)
LEMMA EmptyCodeFields ==
  /\ DOMAIN EmptyCode = {"ts", "newest", "erased", "parity", "owner", "damaged"}
  /\ EmptyCode.ts = NoTimeslot /\ EmptyCode.damaged = {}
  /\ \A s \in Slots : /\ EmptyCode.erased[s] = {} /\ EmptyCode.parity[s] = {}
                      /\ EmptyCode.owner[s] = {BeforeFirst}
  /\ IsCode(EmptyCode)
BY DEF EmptyCode, IsCode

(* The timeslots entered when the window starts, and when it moves on.     *)
LEMMA Enters ==
  ASSUME NEW ts \in Int, NEW wire \in 0 .. FRAME_SPACE - 1,
         ts = NoTimeslot \/ (ts \in 0 .. FRAME_SPACE - 1 /\ wire > ts)
  PROVE  Entered(ts, wire) = (IF ts = NoTimeslot THEN 0 ELSE ts + 1) .. wire
<1>1. CASE ts = NoTimeslot
  BY <1>1 DEF Entered
<1>2. CASE ts # NoTimeslot
  <2>0. FRAME_SPACE \in Nat /\ FRAME_SPACE > 0
    BY FrameSpaceAssumption
  <2>1. ts \in 0 .. FRAME_SPACE - 1 /\ wire > ts
    BY <1>2
  <2>2. (wire - ts) % TS_SPACE = wire - ts
    BY <2>0, <2>1, Z3 DEF TS_SPACE
  <2>3. \A k \in 1 .. wire - ts : (ts + k) % TS_SPACE = ts + k
    <3> TAKE k \in 1 .. wire - ts
    <3>1. ts + k \in 0 .. FRAME_SPACE - 1
      BY <2>0, <2>1
    <3> DEFINE t == ts + k
    <3> HIDE DEF t
    <3>2. t \in 0 .. FRAME_SPACE - 1
      BY <3>1 DEF t
    <3>3. t % TS_SPACE = t
      BY <2>0, <3>2, Z3 DEF TS_SPACE
    <3> QED
      BY <3>3 DEF t
  <2>4. Entered(ts, wire) = {ts + k : k \in 1 .. wire - ts}
    BY <1>2, <2>2, <2>3 DEF Entered
  <2>5. {ts + k : k \in 1 .. wire - ts} = ts + 1 .. wire
    <3>1. ASSUME NEW t \in ts + 1 .. wire PROVE \E k \in 1 .. wire - ts : t = ts + k
      <4>1. t - ts \in 1 .. wire - ts /\ t = ts + (t - ts)
        OBVIOUS
      <4> QED
        BY <4>1
    <3>2. ASSUME NEW k \in 1 .. wire - ts PROVE ts + k \in ts + 1 .. wire
      OBVIOUS
    <3> QED
      BY <3>1, <3>2
  <2> QED
    BY <1>2, <2>4, <2>5
<1> QED
  BY <1>1, <1>2

(* What Advance does to every slot, when the window moves.                 *)
Cleared(bc, wire) == {DecoderSlot(t) : t \in Entered(bc.ts, wire)}

Moved(bc, new, wire, columns) ==
  /\ IsCode(new) /\ new.ts = wire /\ new.newest = wire
  /\ new.damaged \subseteq bc.damaged
  /\ \A s \in Slots :
       IF s \in Cleared(bc, wire)
       THEN new.erased[s] = 1 .. columns /\ new.parity[s] = {} /\ new.owner[s] = {}
       ELSE /\ new.erased[s] = bc.erased[s] /\ new.parity[s] = bc.parity[s]
            /\ new.owner[s] = bc.owner[s]

(* Advance, said slot by slot.                                             *)
LEMMA AdvanceMoves ==
  ASSUME NEW bc, IsCode(bc), NEW wire, NEW columns, MovesWindow(bc.ts, wire)
  PROVE  Moved(bc, Advance(bc, wire, wire, columns), wire, columns)
BY EmptyCodeFields DEF Advance, IsCode, DecoderSlot, Moved, Cleared

(* advance_to_wire_frame, for the first datagram and for the later ones:   *)
(* the window follows the newest frame, with the new slots cleared.        *)
LEMMA FirstWindow ==
  ASSUME NEW wire \in 0 .. FRAME_SPACE - 1, NEW columns \in Nat \ {0}
  PROVE  InStep(Advance(EmptyCode, wire, wire, columns), wire)
<1> DEFINE new == Advance(EmptyCode, wire, wire, columns)
<1>1. Entered(EmptyCode.ts, wire) = 0 .. wire
  BY EmptyCodeFields, Enters DEF NoTimeslot
<1>2. Moved(EmptyCode, new, wire, columns)
  <2>1. MovesWindow(EmptyCode.ts, wire) /\ IsCode(EmptyCode)
    BY EmptyCodeFields DEF MovesWindow
  <2> QED
    BY <2>1, AdvanceMoves, Zenon
<1> HIDE DEF new
<1>3. ASSUME NEW f \in Frames(wire) PROVE Own(new, f)
  <2> DEFINE s == DecoderSlot(f)
  <2>1. s \in Slots /\ f \in Int /\ f <= wire
    BY SlotOfFrame, NumFramesPositive DEF Frames
  <2>2. 1 \in 1 .. columns
    OBVIOUS
  <2>3. CASE s \in Cleared(EmptyCode, wire)
    BY <1>2, <2>1, <2>2, <2>3, Zenon DEF Own, Moved
  <2>4. CASE s \notin Cleared(EmptyCode, wire)
    <3>1. ~ (f >= 0)
      <4>1. f >= 0 => f \in 0 .. wire
        BY <2>1
      <4> QED
        BY <1>1, <2>4, <4>1 DEF Cleared
    <3>2. Shown(f) = BeforeFirst
      BY <2>1, <3>1 DEF Shown
    <3>3. /\ new.parity[s] = EmptyCode.parity[s] /\ new.owner[s] = EmptyCode.owner[s]
      BY <1>2, <2>1, <2>4, Zenon DEF Moved
    <3>4. new.parity[s] = {} /\ new.owner[s] = {BeforeFirst}
      BY <2>1, <3>3, EmptyCodeFields, Zenon
    <3> QED
      BY <3>2, <3>4, Zenon DEF Own
  <2> QED
    BY <2>3, <2>4
<1>4. new.damaged = {}
  BY <1>2, EmptyCodeFields DEF Moved
<1> QED
  BY <1>2, <1>3, <1>4 DEF InStep, new, Moved

(* The same from a window that is already in step: a late frame changes    *)
(* nothing, a newer one clears the slots it moves over and no other.       *)
LEMMA NextWindow ==
  ASSUME NEW last \in 0 .. FRAME_SPACE - 1, NEW bc, InStep(bc, last),
         NEW wire \in 0 .. FRAME_SPACE - 1, last - wire < HALF_FRAME_SPACE,
         NEW columns \in Nat \ {0}
  PROVE  InStep(Advance(bc, wire, wire, columns), IF wire > last THEN wire ELSE last)
<1> DEFINE new == Advance(bc, wire, wire, columns)
<1>0. bc.ts = last /\ last \in Int /\ wire \in Int /\ last # NoTimeslot
  BY FrameSpaceAssumption DEF InStep, NoTimeslot
<1>1. CASE wire > last
  <2>1. Entered(bc.ts, wire) = last + 1 .. wire
    BY <1>0, <1>1, Enters
  <2>2. MovesWindow(bc.ts, wire)
    BY <1>0, <1>1 DEF MovesWindow
  <2>3. Moved(bc, new, wire, columns)
    BY <2>2, AdvanceMoves, Zenon DEF InStep
  <2> HIDE DEF new
  <2>4. ASSUME NEW f \in Frames(wire) PROVE Own(new, f)
    <3> DEFINE s == DecoderSlot(f)
    <3>1. s \in Slots /\ f \in Int /\ f <= wire
      BY SlotOfFrame, NumFramesPositive DEF Frames
    <3>2. 1 \in 1 .. columns
      OBVIOUS
    <3>3. CASE s \in Cleared(bc, wire)
      BY <2>3, <3>1, <3>2, <3>3, Zenon DEF Own, Moved
    <3>4. CASE s \notin Cleared(bc, wire)
      <4>1. ~ (f > last)
        <5>1. f > last => f \in last + 1 .. wire
          BY <1>0, <3>1
        <5> QED
          BY <2>1, <3>4, <5>1 DEF Cleared
      <4>2. f \in Frames(last)
        BY <1>0, <1>1, <3>1, <4>1, NumFramesPositive DEF Frames
      <4>3. Own(bc, f)
        BY <4>2 DEF InStep
      <4> QED
        BY <2>3, <3>1, <3>4, <4>3, Zenon DEF Own, Moved
    <3> QED
      BY <3>3, <3>4
  <2> QED
    BY <1>1, <2>3, <2>4 DEF InStep, new, Moved
<1>2. CASE ~ (wire > last)
  <2>0. MAX_FRAME_NUM \div 2 \in Int /\ HALF_FRAME_SPACE = MAX_FRAME_NUM \div 2 + 1
    BY FrameSpaceAssumption, Z3 DEF HALF_FRAME_SPACE, MAX_FRAME_NUM
  <2>1. ~ MovesWindow(bc.ts, wire)
    BY <1>0, <1>2, <2>0 DEF MovesWindow
  <2>2. new = bc
    BY <2>1 DEF Advance
  <2> QED
    BY <1>2, <2>2
<1> QED
  BY <1>1, <1>2

-----------------------------------------------------------------------------

(* A stripe placed for a frame of the window stays with its frame.         *)
LEMMA PlaceDataInStep ==
  ASSUME NEW last \in Nat, NEW bc, InStep(bc, last),
         NEW frame \in Nat, frame \in Frames(last), NEW column
  PROVE  InStep(PlaceData(bc, DecoderSlot(frame), column, frame), last)
<1> DEFINE slot == DecoderSlot(frame)
           new == PlaceData(bc, slot, column, frame)
<1>1. slot \in Slots
  BY SlotOfFrame
<1>2. /\ IsCode(new) /\ new.ts = bc.ts /\ new.newest = bc.newest /\ new.damaged = bc.damaged
      /\ new.parity = bc.parity
      /\ \A s \in Slots \ {slot} : new.owner[s] = bc.owner[s] /\ new.erased[s] = bc.erased[s]
      /\ new.owner[slot] = bc.owner[slot] \cup {frame}
  <2> HIDE DEF slot
  <2> QED
    BY <1>1, EmptyCodeFields DEF PlaceData, IsCode, InStep
<1> HIDE DEF new
<1>3. ASSUME NEW f \in Frames(last) PROVE Own(new, f)
  <2>1. f \in Int /\ DecoderSlot(f) \in Slots /\ Own(bc, f)
    BY SlotOfFrame, NumFramesPositive DEF Frames, InStep
  <2>2. CASE DecoderSlot(f) = slot
    <3>1. f - frame < NumFrames /\ frame - f < NumFrames
      BY <2>1, NumFramesPositive DEF Frames
    <3>2. f = frame
      BY <2>1, <2>2, <3>1, OneFramePerSlot
    <3>3. Shown(f) = frame
      BY <3>2 DEF Shown
    <3> HIDE DEF slot
    <3> QED
      BY <1>2, <2>1, <2>2, <3>2, <3>3 DEF Own
  <2>3. CASE DecoderSlot(f) # slot
    <3> HIDE DEF slot
    <3> QED
      BY <1>2, <2>1, <2>3, Zenon DEF Own
  <2> QED
    BY <2>2, <2>3
<1> QED
  BY <1>2, <1>3 DEF InStep, new

(* So does a parity stripe.                                                *)
LEMMA PlaceParityInStep ==
  ASSUME NEW last \in Nat, NEW bc, InStep(bc, last),
         NEW frame \in Nat, frame \in Frames(last), NEW row
  PROVE  InStep(PlaceParity(bc, DecoderSlot(frame), row, frame), last)
<1> DEFINE slot == DecoderSlot(frame)
           new == PlaceParity(bc, slot, row, frame)
<1>1. slot \in Slots
  BY SlotOfFrame
<1>2. /\ IsCode(new) /\ new.ts = bc.ts /\ new.newest = bc.newest /\ new.damaged = bc.damaged
      /\ new.erased = bc.erased
      /\ \A s \in Slots \ {slot} : new.owner[s] = bc.owner[s] /\ new.parity[s] = bc.parity[s]
      /\ new.owner[slot] = bc.owner[slot] \cup {frame}
  <2> HIDE DEF slot
  <2> QED
    BY <1>1, EmptyCodeFields DEF PlaceParity, IsCode, InStep
<1> HIDE DEF new
<1>3. ASSUME NEW f \in Frames(last) PROVE Own(new, f)
  <2>1. f \in Int /\ DecoderSlot(f) \in Slots /\ Own(bc, f)
    BY SlotOfFrame, NumFramesPositive DEF Frames, InStep
  <2>2. CASE DecoderSlot(f) = slot
    <3>1. f - frame < NumFrames /\ frame - f < NumFrames
      BY <2>1, NumFramesPositive DEF Frames
    <3>2. f = frame
      BY <2>1, <2>2, <3>1, OneFramePerSlot
    <3>3. Shown(f) = frame /\ f >= 0
      BY <3>2 DEF Shown
    <3> HIDE DEF slot
    <3> QED
      BY <1>2, <2>1, <2>2, <3>2, <3>3 DEF Own
  <2>3. CASE DecoderSlot(f) # slot
    <3> HIDE DEF slot
    <3> QED
      BY <1>2, <2>1, <2>3, Zenon DEF Own
  <2> QED
    BY <2>2, <2>3
<1> QED
  BY <1>2, <1>3 DEF InStep, new

(* Padding never takes the first column of a frame for known.              *)
LEMMA PadInStep ==
  ASSUME NEW last \in Nat, NEW bc, InStep(bc, last), NEW columns,
         NEW used, \A s \in Slots : used[s] \in Nat \ {0}
  PROVE  InStep(Pad(bc, used, columns), last)
<1> DEFINE new == Pad(bc, used, columns)
<1>1. /\ IsCode(new) /\ new.ts = bc.ts /\ new.newest = bc.newest /\ new.damaged = bc.damaged
      /\ new.parity = bc.parity /\ new.owner = bc.owner
      /\ \A s \in Slots : new.erased[s] = bc.erased[s] \ (used[s] + 1 .. columns)
  BY EmptyCodeFields DEF Pad, IsCode, InStep
<1> HIDE DEF new
<1>2. ASSUME NEW f \in Frames(last) PROVE Own(new, f)
  <2>1. f \in Int /\ DecoderSlot(f) \in Slots /\ Own(bc, f)
    BY SlotOfFrame, NumFramesPositive DEF Frames, InStep
  <2>2. 1 \notin used[DecoderSlot(f)] + 1 .. columns
    BY <2>1
  <2> QED
    BY <1>1, <2>1, <2>2 DEF Own
<1> QED
  BY <1>1, <1>2 DEF InStep, new

(* The frame at a position of the window, and its slot.                    *)
LEMMA Positions ==
  ASSUME NEW last \in Nat, NEW bc, InStep(bc, last), NEW p \in Window
  PROVE  \E f \in Frames(last) :
           /\ f \in Int /\ FrameAt(bc, p) = Shown(f) /\ SlotAt(bc, p) = DecoderSlot(f)
<1> DEFINE f == last - (NumFrames - p)
<1>1. f \in Int /\ f \in Frames(last) /\ f + NumFrames = last + p
  BY NumFramesPositive DEF Frames, Window
<1>2. FrameAt(bc, p) = Shown(f)
  BY DEF FrameAt, Shown, InStep
<1>3. SlotAt(bc, p) = DecoderSlot(f + NumFrames)
  BY <1>1 DEF SlotAt, InStep, DecoderSlot
<1>4. SlotAt(bc, p) = DecoderSlot(f)
  <2> HIDE DEF f
  <2> QED
    BY <1>1, <1>3, SlotsRepeat
<1> HIDE DEF f
<1> QED
  BY <1>1, <1>2, <1>4

(* In step, the rows and the columns of the window belong together: what   *)
(* a decode solves is what was sent.                                       *)
LEMMA InStepConsistent ==
  ASSUME NEW last \in 0 .. FRAME_SPACE - 1, NEW bc, InStep(bc, last)
  PROVE  Consistent(bc)
<1>1. ASSUME NEW p \in Window
      PROVE  LET s == SlotAt(bc, p)
             IN  /\ bc.owner[s] \subseteq {FrameAt(bc, p)}
                 /\ bc.parity[s] # {} => EncoderSlot(FrameAt(bc, p)) = s
  <2>0. last \in Nat /\ FRAME_SPACE \in Nat
    BY FrameSpaceAssumption
  <2>1. PICK f \in Frames(last) :
          f \in Int /\ FrameAt(bc, p) = Shown(f) /\ SlotAt(bc, p) = DecoderSlot(f)
    BY <2>0, Positions
  <2>2. Own(bc, f)
    BY DEF InStep
  <2>3. f >= 0 => EncoderSlot(f) = DecoderSlot(f) /\ Shown(f) = f
    <3>1. SUFFICES ASSUME f >= 0 PROVE EncoderSlot(f) = DecoderSlot(f)
      BY <2>1 DEF Shown
    <3>2. f \in 0 .. FRAME_SPACE - 1
      BY <2>1, <3>1, <2>0 DEF Frames
    <3>3. f % TS_SPACE = f
      BY <2>0, <3>2, Z3 DEF TS_SPACE
    <3> QED
      BY <3>3 DEF EncoderSlot, DecoderSlot
  <2> QED
    BY <2>1, <2>2, <2>3, Zenon DEF Own
<1> QED
  BY <1>1 DEF Consistent, InStep

(* A solved slot holds the frame of its position.                          *)
LEMMA SolveInStep ==
  ASSUME NEW last \in 0 .. FRAME_SPACE - 1, NEW bc, InStep(bc, last),
         NEW positions \in SUBSET Window
  PROVE  InStep(Solve(bc, positions), last)
<1> DEFINE new == Solve(bc, positions)
           slots == {SlotAt(bc, p) : p \in positions}
           Frame(s) == {FrameAt(bc, p) : p \in {q \in positions : SlotAt(bc, q) = s}}
<1>0. last \in Nat
  BY FrameSpaceAssumption
<1>1. Consistent(bc)
  BY InStepConsistent
<1>2. /\ IsCode(new) /\ new.ts = bc.ts /\ new.newest = bc.newest /\ new.damaged = bc.damaged
      /\ new.parity = bc.parity
      /\ \A s \in Slots : IF s \in slots THEN new.owner[s] = bc.owner[s] \cup Frame(s)
                          ELSE new.owner[s] = bc.owner[s] /\ new.erased[s] = bc.erased[s]
  <2> HIDE DEF slots, Frame
  <2> QED
    BY <1>1, EmptyCodeFields DEF Solve, IsCode, InStep, slots, Frame
<1> HIDE DEF new
<1>3. ASSUME NEW f \in Frames(last) PROVE Own(new, f)
  <2>1. f \in Int /\ DecoderSlot(f) \in Slots /\ Own(bc, f)
    BY <1>0, SlotOfFrame, NumFramesPositive DEF Frames, InStep
  <2>2. CASE DecoderSlot(f) \in slots
    <3>1. ASSUME NEW p \in positions, SlotAt(bc, p) = DecoderSlot(f)
          PROVE  FrameAt(bc, p) = Shown(f)
      <4>1. PICK g \in Frames(last) :
              g \in Int /\ FrameAt(bc, p) = Shown(g) /\ SlotAt(bc, p) = DecoderSlot(g)
        BY <1>0, Positions
      <4>2. f - g < NumFrames /\ g - f < NumFrames
        BY <1>0, <2>1, <4>1, NumFramesPositive DEF Frames
      <4>3. f = g
        BY <2>1, <3>1, <4>1, <4>2, OneFramePerSlot
      <4> QED
        BY <4>1, <4>3
    <3>2. Frame(DecoderSlot(f)) = {Shown(f)}
      BY <2>2, <3>1
    <3> HIDE DEF Frame, slots
    <3> QED
      BY <1>2, <2>1, <2>2, <3>2 DEF Own
  <2>3. CASE DecoderSlot(f) \notin slots
    <3> HIDE DEF slots
    <3> QED
      BY <1>2, <2>1, <2>3, Zenon DEF Own
  <2> QED
    BY <2>2, <2>3
<1> QED
  BY <1>2, <1>3 DEF InStep, new

(* What a decode solves are positions of the window.                       *)
LEMMA DecodeInWindow ==
  ASSUME NEW missing, NEW received
  PROVE  /\ Decode(missing, received) \subseteq Window
         /\ DecodeTwice(missing, received) \subseteq Window
<1>1. \A m, r : Decode(m, r) \subseteq Window
  <2> TAKE m, r
  <2>1. Theoretical(m, r).recovered \subseteq Window
    BY DEF Theoretical, OutcomeOf, Outcome
  <2> QED
    BY <2>1 DEF Decode, DecodeAs, SolveWanted
<1> QED
  BY <1>1, Zenon DEF DecodeTwice, DecodeAgain

-----------------------------------------------------------------------------

(* The assumption on the stream: it ends before the wire numbers repeat,   *)
(* and no datagram is later than half the wire space.                      *)
FirstLap ==
  /\ FIRST_FRAME + MAX_FRAMES <= FRAME_SPACE
  /\ MAX_LAG <= HALF_FRAME_SPACE

(* The sizes in the ring are numbers of stripes, 0 for unknown.            *)
SizesKnown(ring) == \A i \in Slots : ring[i].frame_size \in Nat

(* What the sender has sent, and the session indices the receiver has      *)
(* derived from it, lie before the next frame to send.                     *)
SentInLap ==
  /\ next_session_index \in Nat /\ next_session_index <= FRAME_SPACE
  /\ \A d \in sent : /\ d.frame \in Nat /\ d.frame < next_session_index
                     /\ d.wire = d.frame /\ d.size \in Nat \ {0}
  /\ last_session \in Int /\ last_session < next_session_index
  /\ last_session_index \in Nat
  /\ received_first => last_session_index < next_session_index

(* Before the first datagram a code is as it was built.                    *)
CodeOK(bc) ==
  IF received_first THEN InStep(bc, last_session_index) ELSE bc = EmptyCode

(* A frame in the first lap is its own wire number.                        *)
LEMMA WireInLap ==
  ASSUME NEW s \in 0 .. FRAME_SPACE - 1
  PROVE  wire_frame_num(s) = s /\ session_epoch(s) = 0 /\ slot_index(s) = DecoderSlot(s)
<1>1. FRAME_SPACE \in Nat /\ FRAME_SPACE > 0
  BY FrameSpaceAssumption
<1>2. s % FRAME_SPACE = s /\ s \div FRAME_SPACE = 0
  BY <1>1, Z3
<1> QED
  BY <1>2 DEF wire_frame_num, session_epoch, slot_index, DecoderSlot

(* A datagram that may still arrive is resolved to its own frame.          *)
LEMMA ResolvesItself ==
  ASSUME FirstLap, SentInLap, last_session \in Nat \cup {NoSession}, NEW d \in InFlight
  PROVE  /\ resolve_wire(last_session, d.wire) = d.frame
         /\ d.frame \in 0 .. FRAME_SPACE - 1
         /\ \A n \in Nat : n < next_session_index => n - d.frame < HALF_FRAME_SPACE
<1>1. /\ d \in sent /\ d.frame \in Nat /\ d.frame < next_session_index /\ d.wire = d.frame
      /\ next_session_index - d.frame <= MAX_LAG /\ next_session_index \in Nat
      /\ next_session_index <= FRAME_SPACE /\ FRAME_SPACE \in Nat /\ MAX_LAG \in Nat
      /\ HALF_FRAME_SPACE \in Nat /\ MAX_LAG <= HALF_FRAME_SPACE
  BY FrameSpaceAssumption, DecoderAssumption, HalfIsHalf DEF InFlight, SentInLap, FirstLap
<1>2. d.frame \in 0 .. FRAME_SPACE - 1
  BY <1>1
<1>3. \A n \in Nat : n < next_session_index => n - d.frame < HALF_FRAME_SPACE
  BY <1>1
<1>4. CASE last_session = NoSession
  BY <1>1, <1>2, <1>3, <1>4 DEF resolve_wire
<1>5. CASE last_session # NoSession
  <2>1. last_session \in Nat /\ last_session < next_session_index
    BY <1>5 DEF SentInLap
  <2>2. last_session \in 0 .. FRAME_SPACE - 1
    BY <1>1, <2>1
  <2>3. wire_frame_num(last_session) = last_session /\ session_epoch(last_session) = 0
    BY <2>2, WireInLap
  <2>4. last_session - d.frame < HALF_FRAME_SPACE
    BY <1>3, <2>1
  <2>5. ResolveFrom(last_session, d.frame) = session_from_parts(0, d.frame)
    BY <1>1, <2>1, <2>3, <2>4 DEF ResolveFrom
  <2>6. session_from_parts(0, d.frame) = d.frame
    BY <1>1 DEF session_from_parts
  <2> QED
    BY <1>1, <1>2, <1>3, <1>5, <2>5, <2>6 DEF resolve_wire
<1> QED
  BY <1>4, <1>5

(* In the first lap the ring and the codes use the same slots.             *)
LEMMA UsedColumnsPositive ==
  ASSUME NEW ring, NEW last \in 0 .. FRAME_SPACE - 1, RingOK(ring, last), SizesKnown(ring)
  PROVE  \A s \in Slots : UsedColumns(ring)[s] \in Nat \ {0}
<1> SUFFICES ASSUME NEW s \in Slots PROVE UsedColumns(ring)[s] \in Nat \ {0}
  OBVIOUS
<1> DEFINE here == {i \in Slots : ring[i].occupied /\ DecoderSlot(frame_num(ring[i])) = s}
           newest == CHOOSE i \in here : \A j \in here : j <= i
<1>1. UsedColumns(ring)[s] = IF here = {} \/ ring[newest].frame_size = NoSize THEN MAX_DATA
                             ELSE ring[newest].frame_size
  BY DEF UsedColumns
<1>2. ASSUME NEW i \in here PROVE i = s
  <2>1. /\ i \in Slots /\ ring[i].session_index \in Nat
        /\ slot_index(ring[i].session_index) = i /\ ring[i].session_index <= last
    BY DEF RingOK, IsFrame, InWindow
  <2>2. ring[i].session_index \in 0 .. FRAME_SPACE - 1
    BY <2>1, FrameSpaceAssumption
  <2> QED
    BY <2>1, <2>2, WireInLap DEF frame_num
<1>3. here # {} => newest = s
  <2>1. s \in Int
    BY NumFramesPositive DEF Slots
  <2>2. \A j \in here : j = s
    BY <1>2
  <2>3. s <= s
    BY <2>1
  <2>4. here # {} => \E i \in here : \A j \in here : j <= i
    <3> HIDE DEF here
    <3> QED
      BY <2>2, <2>3
  <2>5. here # {} => newest \in here
    <3> HIDE DEF here
    <3> QED
      BY <2>4
  <2> HIDE DEF here, newest
  <2> QED
    BY <2>2, <2>5
<1>4. MAX_DATA \in Nat \ {0} /\ ring[s].frame_size \in Nat
  BY DecoderAssumption DEF SizesKnown
<1> HIDE DEF here, newest
<1> QED
  BY <1>1, <1>3, <1>4 DEF NoSize

(* try_decode keeps the payload code in step.                              *)
LEMMA DecodeFramesInStep ==
  ASSUME NEW last \in 0 .. FRAME_SPACE - 1, NEW bc, InStep(bc, last),
         NEW ring, RingOK(ring, last), SizesKnown(ring)
  PROVE  InStep(DecodeFrames(bc, ring), last)
<1> DEFINE padded == Pad(bc, UsedColumns(ring), MAX_DATA)
           positions == DecodeTwice(MissingColumns(padded), KnownRows(padded))
<1>1. InStep(padded, last)
  <2>1. last \in Nat
    BY FrameSpaceAssumption
  <2> QED
    BY <2>1, UsedColumnsPositive, PadInStep
<1>2. positions \in SUBSET Window
  BY DecodeInWindow
<1> HIDE DEF padded, positions
<1>3. InStep(Solve(padded, positions), last)
  BY <1>1, <1>2, SolveInStep
<1> QED
  BY <1>3 DEF DecodeFrames, padded, positions

(* The slot of a recovered frame holds the bytes of that frame.            *)
LEMMA RecoveredIntact ==
  ASSUME NEW last \in 0 .. FRAME_SPACE - 1, NEW bc, InStep(bc, last),
         NEW ring, RingOK(ring, last), NEW e \in Recovered(ring, bc)
  PROVE  e.intact /\ wire_frame_num(e.frame) = wire_frame_num(e.session)
<1>1. PICK i \in Deliverable(ring, bc) :
        e = [session |-> ring[i].session_index,
             frame |-> FrameIn(bc, DecoderSlot(frame_num(ring[i]))),
             intact |-> Intact(bc, DecoderSlot(frame_num(ring[i])))]
  BY DEF Recovered
<1> DEFINE s == ring[i].session_index
           slot == DecoderSlot(s)
<1>2. /\ i \in Slots /\ ring[i].occupied /\ is_frame_recovered(bc, ring[i])
      /\ s \in Nat /\ s <= last /\ last - s < NumFrames
  BY DEF Deliverable, RingOK, IsFrame, InWindow
<1>3. s \in 0 .. FRAME_SPACE - 1 /\ s \in Frames(last)
  BY <1>2, FrameSpaceAssumption, NumFramesPositive DEF Frames
<1>4. frame_num(ring[i]) = s
  BY <1>3, WireInLap DEF frame_num
<1>5. Own(bc, s) /\ Shown(s) = s /\ bc.damaged = {}
  BY <1>2, <1>3 DEF InStep, Shown
<1>6. 1 \notin bc.erased[slot]
  <2>1. /\ ring[i].frame_size \in 1 .. MAX_DATA
        /\ 1 .. ring[i].frame_size \cap bc.erased[slot] = {}
    BY <1>2, <1>4 DEF is_frame_recovered
  <2>2. 1 \in 1 .. ring[i].frame_size
    BY <2>1, DecoderAssumption
  <2> QED
    BY <2>1, <2>2
<1>7. bc.owner[slot] = {s}
  BY <1>5, <1>6 DEF Own
<1> HIDE DEF s, slot
<1>8. Intact(bc, slot)
  <2>1. Cardinality({s}) = 1
    BY FS_Singleton
  <2> QED
    BY <1>5, <1>7, <2>1 DEF Intact
<1>9. FrameIn(bc, slot) = s
  <2>1. \A f \in {s} \cup {BeforeFirst} : ({s} # {} => f \in {s}) <=> f = s
    OBVIOUS
  <2> QED
    BY <1>7, <2>1 DEF FrameIn
<1> QED
  BY <1>1, <1>4, <1>8, <1>9 DEF s, slot

-----------------------------------------------------------------------------

(* A session that is not refused lies in the window it leads to.           *)
LEMMA AcceptedInWindow ==
  ASSUME TrackingOK, NEW session \in Nat, ~ OutOfWindow(session)
  PROVE  InWindow(session, LastAfter(session))
<1>1. /\ last_session_index \in Nat /\ NumFrames \in Nat /\ NumFrames > 0
      /\ received_first \in BOOLEAN /\ (~ received_first => last_session_index = 0)
  BY NumFramesPositive DEF TrackingOK
<1>2. CASE received_first
  BY <1>1, <1>2
  DEF OutOfWindow, is_out_of_window_session, saturating_sub, LastAfter, InWindow
<1>3. CASE ~ received_first
  BY <1>1, <1>3 DEF LastAfter, InWindow
<1> QED
  BY <1>2, <1>3

(* The newest frame has its slot, before and after.                        *)
LEMMA OpenedHoldsNewest ==
  ASSUME TrackingOK, NEW session \in Nat, ~ OutOfWindow(session),
         received_first => Occupied(frames_ring, last_session_index)
  PROVE  Occupied(Opened(session), LastAfter(session))
<1>0. /\ last_session_index \in Nat /\ NumFrames \in Nat /\ NumFrames > 0
      /\ received_first \in BOOLEAN /\ (~ received_first => last_session_index = 0)
  BY NumFramesPositive DEF TrackingOK
<1>1. slot_index(session) \in Slots /\ slot_index(last_session_index) \in Slots
  BY <1>0, SlotIsSlot
<1>2. CASE LastAfter(session) = session
  <2> DEFINE i == slot_index(session)
  <2>1. CASE Opened(session)[i] = reset_for(session, FALSE)
    BY <1>2, <2>1, ResetIsFrame DEF Occupied
  <2>2. CASE Opened(session)[i] = frames_ring[i] /\ Occupied(frames_ring, session)
    BY <1>2, <2>2 DEF Occupied
  <2> QED
    BY <1>1, <2>1, <2>2, OpenedCases
<1>3. CASE LastAfter(session) # session
  <2> DEFINE last == last_session_index
             i == slot_index(last)
  <2>1. LastAfter(session) = last /\ session < last
    BY <1>0, <1>3 DEF LastAfter
  <2>2. Occupied(frames_ring, last)
    BY <1>0, <2>1
  <2>3. i \notin Expired(frames_ring, session)
    BY <1>0, <2>1, <2>2
    DEF Expired, Occupied, frame_expired, frame_expired_session, saturating_sub
  <2>4. Skipped(Purge(frames_ring, session), session) = {}
    BY <1>0, <2>1 DEF Skipped
  <2>5. i = slot_index(session) => FALSE
    <3>1. SUFFICES ASSUME i = slot_index(session) PROVE FALSE
      OBVIOUS
    <3>2. last - session >= NumFrames
      BY <1>0, <2>1, <3>1, SameSlotFarApart
    <3>3. InWindow(session, last)
      BY <2>1, AcceptedInWindow
    <3> QED
      BY <1>0, <3>2, <3>3 DEF InWindow
  <2>6. Opened(session)[i] = frames_ring[i]
    BY <1>1, <2>3, <2>4, <2>5, OpenedCases
  <2> QED
    BY <2>1, <2>2, <2>6 DEF Occupied
<1> QED
  BY <1>2, <1>3

(* purge_expired, fill_missing_frames and frame_mut leave sizes of         *)
(* frames as they were, or unknown.                                        *)
LEMMA OpenedSizes ==
  ASSUME TrackingOK, SizesKnown(frames_ring), NEW session \in Nat
  PROVE  SizesKnown(Opened(session))
<1>1. Vacant.frame_size = 0
  BY DEF Vacant, NoSize
<1>2. \A s, b : reset_for(s, b).frame_size = 0
  BY DEF reset_for, Vacant, NoSize
<1>3. ASSUME NEW i \in Slots PROVE Opened(session)[i].frame_size \in Nat
  <2>1. CASE Opened(session)[i] = Vacant
    BY <1>1, <2>1
  <2>2. CASE Opened(session)[i] = frames_ring[i]
    BY <2>2 DEF SizesKnown
  <2>3. CASE \E s, b : Opened(session)[i] = reset_for(s, b)
    BY <1>2, <2>3
  <2> QED
    BY <2>1, <2>2, <2>3, OpenedCases, Zenon
<1> QED
  BY <1>3 DEF SizesKnown

(* decode_headers yields numbers of stripes.                               *)
LEMMA HeaderSizes ==
  ASSUME SentInLap, NEW hc, NEW d \in sent, NEW session,
         NEW h \in ReceiveHeader(hc, d, session).sizes
  PROVE  h.size \in Nat
<1>1. WrongSize \in Nat
  BY DecoderAssumption DEF WrongSize
<1>2. \A f : SizeOf(f) \in Nat
  <2> TAKE f
  <2>1. CASE \E e \in sent : e.frame = f
    <3> DEFINE e == CHOOSE e \in sent : e.frame = f
    <3>1. e \in sent
      BY <2>1
    <3> HIDE DEF e
    <3>2. e.size \in Nat
      BY <3>1 DEF SentInLap
    <3> QED
      BY <2>1, <3>2 DEF SizeOf, e
  <2>2. CASE ~ \E e \in sent : e.frame = f
    BY <1>1, <2>2 DEF SizeOf
  <2> QED
    BY <2>1, <2>2
<1>3. d.size \in Nat
  BY DEF SentInLap
<1> QED
  BY <1>1, <1>2, <1>3 DEF ReceiveHeader

(* The ring with the datagram: still the newest frame, still the sizes.    *)
LEMMA AddedKeeps ==
  ASSUME NEW d, NEW session \in Nat, NEW sizes, NEW last \in Nat,
         RingOK(Opened(session), last), SizesKnown(Opened(session)),
         Occupied(Opened(session), last), \A h \in sizes : h.size \in Nat
  PROVE  /\ RingOK(Added(d, session, sizes), last)
         /\ SizesKnown(Added(d, session, sizes))
         /\ Occupied(Added(d, session, sizes), last)
<1> DEFINE opened == Opened(session)
           sized == UpdateSizes(opened, sizes)
           added == Added(d, session, sizes)
<1>1. /\ DOMAIN sized = Slots
      /\ \A i \in Slots : SameFrame(opened[i], sized[i])
  BY UpdateSizesKeepsFrames DEF RingOK
<1>2. slot_index(session) \in Slots /\ slot_index(last) \in Slots
  BY SlotIsSlot
<1>3. added = [sized EXCEPT ![slot_index(session)] = add_pkt(@, d)]
  BY DEF Added
<1>4. ASSUME NEW i \in Slots PROVE IsFrame(sized[i]) /\ sized[i].frame_size \in Nat
  <2>1. IsFrame(opened[i]) /\ SameFrame(opened[i], sized[i]) /\ opened[i].frame_size \in Nat
    BY <1>1 DEF RingOK, SizesKnown
  <2>2. IsFrame(sized[i])
    BY <2>1 DEF IsFrame, SameFrame
  <2>3. sized[i].frame_size \in Nat
    <3> DEFINE h == CHOOSE h \in sizes : h.session = opened[i].session_index
    <3>1. CASE opened[i].occupied /\ \E g \in sizes : g.session = opened[i].session_index
      <4>1. sized[i] = [opened[i] EXCEPT !.frame_size = h.size]
        BY <3>1 DEF UpdateSizes
      <4>2. h \in sizes
        BY <3>1
      <4> HIDE DEF h
      <4>3. h.size \in Nat
        BY <4>2
      <4>4. "frame_size" \in DOMAIN opened[i]
        BY <2>1 DEF IsFrame, Vacant
      <4> HIDE DEF opened, sized
      <4> QED
        BY <4>1, <4>3, <4>4
    <3>2. CASE ~ (opened[i].occupied /\ \E g \in sizes : g.session = opened[i].session_index)
      <4>1. sized[i] = opened[i]
        BY <3>2 DEF UpdateSizes
      <4> QED
        BY <2>1, <4>1
    <3> QED
      BY <3>1, <3>2
  <2> QED
    BY <2>2, <2>3
<1> HIDE DEF opened, sized, added
<1>5. DOMAIN added = Slots
  BY <1>1, <1>3
<1>6. ASSUME NEW i \in Slots
      PROVE  SameFrame(opened[i], added[i]) /\ added[i].frame_size \in Nat
  <2>1. CASE i = slot_index(session)
    <3>1. added[i] = add_pkt(sized[i], d)
      BY <1>1, <1>3, <2>1
    <3>2. SameFrame(sized[i], added[i])
      BY <1>4, <3>1, AddPktKeepsFrame
    <3>3. added[i].frame_size = sized[i].frame_size
      BY <1>4, <3>1 DEF add_pkt, IsFrame, Vacant
    <3> QED
      BY <1>1, <1>4, <3>2, <3>3 DEF SameFrame
  <2>2. CASE i # slot_index(session)
    <3>1. added[i] = sized[i]
      BY <1>1, <1>3, <2>2
    <3> QED
      BY <1>1, <1>4, <3>1
  <2> QED
    BY <2>1, <2>2
<1>7. RingOK(added, last)
  <2>1. RingOK(opened, last) /\ DeliveriesOK(opened, last, {})
    BY DEF DeliveriesOK, opened
  <2> QED
    BY <1>5, <1>6, <2>1, SameFramesKeepRing
<1>8. Occupied(added, last)
  <2>1. Occupied(opened, last)
    BY DEF opened
  <2> QED
    BY <1>2, <1>6, <2>1 DEF Occupied, SameFrame
<1> QED
  BY <1>6, <1>7, <1>8 DEF SizesKnown, added

(* So does the ring with the recovered frames marked.                      *)
LEMMA MarkDecodedKeeps ==
  ASSUME NEW ring, NEW bc, NEW last \in Nat,
         RingOK(ring, last), SizesKnown(ring), Occupied(ring, last)
  PROVE  LET marked == MarkDecoded(ring, bc)
         IN  RingOK(marked, last) /\ SizesKnown(marked) /\ Occupied(marked, last)
<1> DEFINE marked == MarkDecoded(ring, bc)
<1>1. DOMAIN marked = Slots /\ \A i \in Slots : SameFrame(ring[i], marked[i])
  BY MarkDecodedKeepsFrames DEF RingOK
<1>2. slot_index(last) \in Slots
  BY SlotIsSlot
<1>3. ASSUME NEW i \in Slots PROVE marked[i].frame_size \in Nat
  <2>1. IsFrame(ring[i]) /\ ring[i].frame_size \in Nat
    BY DEF RingOK, SizesKnown
  <2>2. marked[i] = ring[i] \/ marked[i] = [ring[i] EXCEPT !.is_decoded = TRUE]
    BY DEF MarkDecoded
  <2> HIDE DEF marked
  <2> QED
    BY <2>1, <2>2 DEF IsFrame, Vacant
<1> HIDE DEF marked
<1>4. RingOK(marked, last)
  <2>1. DeliveriesOK(ring, last, {})
    BY DEF DeliveriesOK
  <2> QED
    BY <1>1, <2>1, SameFramesKeepRing
<1>5. Occupied(marked, last)
  BY <1>1, <1>2 DEF Occupied, SameFrame
<1> QED
  BY <1>3, <1>4, <1>5 DEF SizesKnown, marked

(* The window of either code follows the accepted session, and the         *)
(* datagram's frame lies in it.                                            *)
LEMMA CodeAdvances ==
  ASSUME FirstLap, SentInLap, TrackingOK, NEW bc, CodeOK(bc),
         last_session \in Nat \cup {NoSession},
         NEW d \in InFlight, ~ OutOfWindow(d.frame), NEW columns \in Nat \ {0}
  PROVE  /\ InStep(Advance(bc, d.wire, d.frame, columns), LastAfter(d.frame))
         /\ d.frame \in Nat /\ d.frame \in Frames(LastAfter(d.frame))
         /\ LastAfter(d.frame) \in 0 .. FRAME_SPACE - 1
         /\ LastAfter(d.frame) < next_session_index
<1>1. /\ d \in sent /\ d.wire = d.frame /\ d.frame \in Nat /\ d.frame < next_session_index
      /\ d.frame \in 0 .. FRAME_SPACE - 1
      /\ \A n \in Nat : n < next_session_index => n - d.frame < HALF_FRAME_SPACE
  BY ResolvesItself DEF InFlight, SentInLap
<1>2. /\ next_session_index \in Nat /\ next_session_index <= FRAME_SPACE
      /\ FRAME_SPACE \in Nat /\ last_session_index \in Nat
      /\ received_first \in BOOLEAN /\ (~ received_first => last_session_index = 0)
      /\ NumFrames \in Nat /\ NumFrames > 0
  BY FrameSpaceAssumption, NumFramesPositive DEF SentInLap, TrackingOK
<1>3. LastAfter(d.frame) \in 0 .. FRAME_SPACE - 1 /\ LastAfter(d.frame) < next_session_index
  BY <1>1, <1>2 DEF SentInLap, LastAfter
<1>4. d.frame \in Frames(LastAfter(d.frame))
  <2>1. InWindow(d.frame, LastAfter(d.frame))
    BY <1>1, AcceptedInWindow
  <2> QED
    BY <1>1, <1>2, <1>3, <2>1 DEF InWindow, Frames
<1>5. InStep(Advance(bc, d.frame, d.frame, columns), LastAfter(d.frame))
  <2>1. CASE received_first
    <3>1. InStep(bc, last_session_index) /\ last_session_index < next_session_index
      BY <2>1 DEF CodeOK, SentInLap
    <3>2. last_session_index \in 0 .. FRAME_SPACE - 1
      BY <1>2, <3>1
    <3>3. last_session_index - d.frame < HALF_FRAME_SPACE
      BY <1>1, <1>2, <3>1
    <3> QED
      BY <1>1, <3>1, <3>2, <3>3, NextWindow DEF LastAfter
  <2>2. CASE ~ received_first
    <3>1. bc = EmptyCode
      BY <2>2 DEF CodeOK
    <3>2. LastAfter(d.frame) = d.frame
      BY <1>1, <1>2, <2>2 DEF LastAfter
    <3> QED
      BY <1>1, <3>1, <3>2, FirstWindow
  <2> QED
    BY <2>1, <2>2
<1> QED
  BY <1>1, <1>3, <1>4, <1>5

(* Both codes are in step once they have taken the datagram in.            *)
LEMMA CodesReceive ==
  ASSUME FirstLap, SentInLap, TrackingOK, CodeOK(code), CodeOK(header_code),
         last_session \in Nat \cup {NoSession},
         NEW d \in InFlight, ~ OutOfWindow(d.frame)
  PROVE  /\ InStep(ReceiveHeader(header_code, d, d.frame).code, LastAfter(d.frame))
         /\ InStep(AddPacket(code, d), LastAfter(d.frame))
         /\ LastAfter(d.frame) \in 0 .. FRAME_SPACE - 1
         /\ LastAfter(d.frame) < next_session_index
<1> DEFINE last == LastAfter(d.frame)
<1>1. /\ d.frame \in Nat /\ d.frame \in Frames(last) /\ last \in 0 .. FRAME_SPACE - 1
      /\ last < next_session_index /\ d.wire = d.frame /\ last \in Nat
  <2>1. 1 \in Nat \ {0}
    OBVIOUS
  <2>2. d.wire = d.frame
    BY DEF SentInLap, InFlight
  <2>3. last \in 0 .. FRAME_SPACE - 1 => last \in Nat
    BY FrameSpaceAssumption
  <2> QED
    BY <2>1, <2>2, <2>3, CodeAdvances
<1>2. InStep(HeaderPlaced(header_code, d), last)
  <2>1. InStep(Advance(header_code, d.wire, d.frame, 1), last)
    BY CodeAdvances
  <2> HIDE DEF last
  <2>2. CASE d.pos = 0
    BY <1>1, <2>1, <2>2, PlaceDataInStep DEF HeaderPlaced
  <2>3. CASE d.pos # 0
    BY <1>1, <2>1, <2>3, PlaceParityInStep DEF HeaderPlaced
  <2> QED
    BY <2>2, <2>3
<1>3. InStep(AddPacket(code, d), last)
  <2>1. InStep(Advance(code, d.wire, d.frame, MAX_DATA), last)
    BY CodeAdvances, DecoderAssumption
  <2> HIDE DEF last
  <2>2. CASE d.is_parity
    BY <1>1, <2>1, <2>2, PlaceParityInStep DEF AddPacket
  <2>3. CASE ~ d.is_parity
    BY <1>1, <2>1, <2>3, PlaceDataInStep DEF AddPacket
  <2> QED
    BY <2>2, <2>3
<1>4. InStep(ReceiveHeader(header_code, d, d.frame).code, last)
  <2> DEFINE placed == HeaderPlaced(header_code, d)
             positions == Decode(MissingColumns(placed), KnownRows(placed))
  <2>1. positions \in SUBSET Window
    BY DecodeInWindow
  <2>2. ReceiveHeader(header_code, d, d.frame).code = Solve(placed, positions)
    BY DEF ReceiveHeader
  <2> HIDE DEF placed, positions, last
  <2>3. InStep(placed, last)
    BY <1>2 DEF placed
  <2> QED
    BY <1>1, <2>1, <2>2, <2>3, SolveInStep
<1> QED
  BY <1>1, <1>3, <1>4

-----------------------------------------------------------------------------

(* drain_recovered touches only the delivered flags ...                    *)
LEMMA EmitKeepsSizes ==
  ASSUME NEW ring, NEW bc, NEW feedback, NEW due, NEW last \in Nat,
         RingOK(ring, last), SizesKnown(ring), EmitPending(ring, bc, feedback, due)
  PROVE  /\ SizesKnown(frames_ring')
         /\ Occupied(ring, last) => Occupied(frames_ring', last)
<1>1. ASSUME NEW i \in Slots
      PROVE  /\ frames_ring'[i].frame_size \in Nat
             /\ frames_ring'[i].occupied = ring[i].occupied
             /\ frames_ring'[i].session_index = ring[i].session_index
  <2>1. IsFrame(ring[i]) /\ ring[i].frame_size \in Nat
    BY DEF RingOK, SizesKnown
  <2>2. \/ frames_ring'[i] = [ring[i] EXCEPT !.delivered = TRUE]
        \/ frames_ring'[i] = ring[i]
    BY DEF EmitPending
  <2> QED
    BY <2>1, <2>2 DEF IsFrame, Vacant
<1>2. slot_index(last) \in Slots
  BY SlotIsSlot
<1> QED
  BY <1>1, <1>2 DEF SizesKnown, Occupied

(* ... and hands over bytes of the frame it names.                         *)
LEMMA EmitKeepsIntact ==
  ASSUME DeliveredIntact, NEW last \in 0 .. FRAME_SPACE - 1, NEW bc, InStep(bc, last),
         NEW ring, RingOK(ring, last), SizesKnown(ring),
         NEW feedback, NEW due, EmitPending(ring, bc, feedback, due)
  PROVE  DeliveredIntact'
<1>1. delivered' = delivered \cup Recovered(ring, bc)
  BY DEF EmitPending
<1>2. \A e \in Recovered(ring, bc) :
        e.intact /\ wire_frame_num(e.frame) = wire_frame_num(e.session)
  BY RecoveredIntact
<1> QED
  BY <1>1, <1>2 DEF DeliveredIntact

(***************************************************************************)
(* The inductive invariant.  That a delivered frame is intact rests on its *)
(* slot holding no other frame's stripes, that on both codes' windows      *)
(* ending at the session last_session_index, and that on the datagram's    *)
(* wire number naming its frame: NextInLap carries the four together.      *)
(***************************************************************************)
InLap ==
  /\ Remembering /\ SentInLap
  /\ SizesKnown(frames_ring)
  /\ CodeOK(code) /\ CodeOK(header_code)
  /\ received_first => Occupied(frames_ring, last_session_index)
  /\ DeliveredIntact

(* The lap begins: nothing is sent, both codes are empty.                  *)
LEMMA InitInLap ==
  ASSUME FirstLap, Init
  PROVE  InLap
<1>1. Remembering
  BY InitRemembers
<1>2. SentInLap
  BY DecoderAssumption, FrameSpaceAssumption DEF Init, SentInLap, FirstLap, NoSession
<1>3. SizesKnown(frames_ring)
  <2>1. \A i \in Slots : frames_ring[i] = Vacant
    BY DEF Init
  <2>2. Vacant.frame_size = 0
    BY DEF Vacant, NoSize
  <2> QED
    BY <2>1, <2>2 DEF SizesKnown
<1> QED
  BY <1>1, <1>2, <1>3 DEF Init, InLap, CodeOK, DeliveredIntact

(* encode_payload                                                          *)
LEMMA EncodeInLap ==
  ASSUME FirstLap, InLap, Remembering', NEW shape \in Shapes, Encode(shape)
  PROVE  InLap'
<1> DEFINE next == next_session_index
<1>1. /\ next \in Nat /\ next < FRAME_SPACE /\ next' = next + 1
      /\ next \in 0 .. FRAME_SPACE - 1
  BY DecoderAssumption, FrameSpaceAssumption DEF InLap, SentInLap, Encode, FirstLap
<1>2. UNCHANGED <<tracking_vars, frames_ring, code_vars, history_vars>>
  BY DEF Encode
<1>3. ASSUME NEW d \in sent'
      PROVE  d.frame \in Nat /\ d.frame < next' /\ d.wire = d.frame /\ d.size \in Nat \ {0}
  <2>1. CASE d \in sent
    BY <1>1, <2>1 DEF InLap, SentInLap
  <2>2. CASE d \in Datagrams(next, sqn, shape)
    <3>1. d.frame = next /\ d.wire = wire_frame_num(next) /\ d.size = shape.data
      BY <2>2 DEF Datagrams
    <3>2. shape.data \in Nat \ {0}
      BY DecoderAssumption
    <3> QED
      BY <1>1, <3>1, <3>2, WireInLap
  <2> QED
    BY <1>3, <2>1, <2>2 DEF Encode
<1>4. SentInLap'
  <2>1. /\ last_session \in Int /\ last_session < next /\ last_session_index \in Nat
        /\ received_first => last_session_index < next
    BY DEF InLap, SentInLap
  <2>2. UNCHANGED <<last_session, received_first, last_session_index>>
    BY <1>2 DEF tracking_vars
  <2>3. next' \in Nat /\ next' <= FRAME_SPACE
    BY <1>1, FrameSpaceAssumption
  <2> HIDE DEF next
  <2>4. /\ last_session' < next'
        /\ received_first' => last_session_index' < next'
    BY <1>1, <2>1, <2>2
  <2> QED
    BY <1>3, <2>1, <2>2, <2>3, <2>4 DEF SentInLap, next
<1>5. /\ SizesKnown(frames_ring') /\ CodeOK(code)' /\ CodeOK(header_code)'
      /\ DeliveredIntact'
      /\ received_first' => Occupied(frames_ring', last_session_index')
  BY <1>2 DEF InLap, tracking_vars, code_vars, history_vars, CodeOK, DeliveredIntact
<1> QED
  BY <1>4, <1>5 DEF InLap

(* A call that only emits.                                                 *)
LEMMA EmitInLap ==
  ASSUME FirstLap, InLap, Remembering', NEW due,
         EmitPending(frames_ring, code, feedback_frames, due),
         UNCHANGED <<encoder_vars, received_first, last_session_index, code_vars>>,
         last_session' = last_session
           \/ (last_session' \in Nat /\ last_session' < next_session_index)
  PROVE  InLap'
<1>1. TrackingOK /\ RingOK(frames_ring, last_session_index) /\ last_session_index \in Nat
  BY DEF InLap, Remembering, TrackingOK
<1>2. SentInLap'
  BY DEF InLap, SentInLap, encoder_vars
<1>3. CodeOK(code)' /\ CodeOK(header_code)'
  BY DEF InLap, code_vars, CodeOK
<1>4. /\ SizesKnown(frames_ring')
      /\ received_first' => Occupied(frames_ring', last_session_index')
  BY <1>1, EmitKeepsSizes DEF InLap
<1>5. DeliveredIntact'
  <2>1. CASE received_first
    <3>1. InStep(code, last_session_index)
      BY <2>1 DEF InLap, CodeOK
    <3>2. last_session_index \in 0 .. FRAME_SPACE - 1
      BY <1>1, <2>1, FrameSpaceAssumption DEF InLap, SentInLap
    <3> QED
      BY <1>1, <3>1, <3>2, EmitKeepsIntact DEF InLap
  <2>2. CASE ~ received_first
    <3>1. Recovered(frames_ring, code) = {}
      BY <1>1, <2>2 DEF Recovered, Deliverable, TrackingOK
    <3>2. delivered' = delivered
      BY <3>1 DEF EmitPending
    <3> QED
      BY <3>2 DEF InLap, DeliveredIntact
  <2> QED
    BY <2>1, <2>2
<1> QED
  BY <1>2, <1>3, <1>4, <1>5 DEF InLap

(* ingest_datagram of a datagram that is not refused                       *)
LEMMA AcceptInLap ==
  ASSUME FirstLap, InLap, Remembering', NEW d \in InFlight, NEW due,
         Accept(d, d.frame, due)
  PROVE  InLap'
<1> DEFINE session == d.frame
           last == LastAfter(session)
           header == ReceiveHeader(header_code, d, session)
           ring == Added(d, session, header.sizes)
           bc == DecodeFrames(AddPacket(code, d), ring)
           marked == MarkDecoded(ring, bc)
           feedback == feedback_frames \o PurgedVerdicts(frames_ring, session)
<1>1. /\ ~ OutOfWindow(session)
      /\ last_session' = session /\ received_first' = TRUE /\ last_session_index' = last
      /\ header_code' = header.code /\ code' = bc
      /\ EmitPending(marked, bc, feedback, due)
      /\ UNCHANGED encoder_vars
  BY DEF Accept, LastAfter
<1>2. /\ FirstLap /\ SentInLap /\ TrackingOK /\ CodeOK(code) /\ CodeOK(header_code)
      /\ last_session \in Nat \cup {NoSession} /\ SizesKnown(frames_ring)
      /\ received_first => Occupied(frames_ring, last_session_index)
  BY DEF InLap, Remembering, InputOK
<1>3. d \in sent /\ session \in Nat /\ session < next_session_index
  BY <1>2 DEF InFlight, SentInLap
<1>4. /\ InStep(header.code, last) /\ InStep(AddPacket(code, d), last)
      /\ last \in 0 .. FRAME_SPACE - 1 /\ last < next_session_index
  BY <1>1, <1>2, CodesReceive
<1>5. last \in Nat
  BY <1>4, FrameSpaceAssumption
<1>6. /\ RingOK(Opened(session), last) /\ SizesKnown(Opened(session))
      /\ Occupied(Opened(session), last)
  BY <1>1, <1>2, <1>3, OpenedKeepsRing, OpenedSizes, OpenedHoldsNewest
<1>7. \A h \in header.sizes : h.size \in Nat
  BY <1>2, <1>3, HeaderSizes
<1> HIDE DEF session, last, header
<1>8. RingOK(ring, last) /\ SizesKnown(ring) /\ Occupied(ring, last)
  BY <1>3, <1>5, <1>6, <1>7, AddedKeeps
<1> HIDE DEF ring
<1>9. InStep(bc, last)
  BY <1>4, <1>8, DecodeFramesInStep
<1> HIDE DEF bc
<1>10. RingOK(marked, last) /\ SizesKnown(marked) /\ Occupied(marked, last)
  BY <1>5, <1>8, MarkDecodedKeeps
<1> HIDE DEF marked, feedback
<1>11. SizesKnown(frames_ring') /\ Occupied(frames_ring', last)
  BY <1>1, <1>5, <1>10, EmitKeepsSizes
<1>12. DeliveredIntact'
  <2>1. DeliveredIntact
    BY DEF InLap
  <2> QED
    BY <1>1, <1>4, <1>9, <1>10, <2>1, EmitKeepsIntact
<1>13. SentInLap'
  BY <1>1, <1>2, <1>3, <1>4, <1>5 DEF SentInLap, encoder_vars
<1>14. CodeOK(code)' /\ CodeOK(header_code)'
  BY <1>1, <1>4, <1>9 DEF CodeOK
<1> QED
  BY <1>1, <1>11, <1>12, <1>13, <1>14 DEF InLap

(* Every step of the sender, the channel and the receiver stays in it.     *)
LEMMA NextInLap ==
  ASSUME FirstLap, InLap, [Next]_vars
  PROVE  InLap'
<1>1. Remembering'
  BY NextRemembers DEF InLap
<1>2. CASE \E shape \in Shapes : Encode(shape)
  BY <1>1, <1>2, EncodeInLap
<1>3. CASE \E d \in InFlight, due \in BOOLEAN : Receive(d, due)
  <2>1. PICK d \in InFlight, due \in BOOLEAN : Receive(d, due)
    BY <1>3
  <2>2. /\ resolve_wire(last_session, d.wire) = d.frame
        /\ d.frame \in Nat /\ d.frame < next_session_index
    BY ResolvesItself DEF InLap, Remembering, InputOK, InFlight, SentInLap
  <2>3. CASE Duplicate(d, due)
    BY <1>1, <2>3, EmitInLap DEF Duplicate, tracking_vars
  <2>4. CASE Refuse(d, d.frame, due)
    BY <1>1, <2>2, <2>4, EmitInLap DEF Refuse
  <2>5. CASE Accept(d, d.frame, due)
    BY <1>1, <2>5, AcceptInLap
  <2> QED
    BY <2>1, <2>2, <2>3, <2>4, <2>5 DEF Receive
<1>4. CASE \E due \in BOOLEAN : Poll(due)
  BY <1>1, <1>4, EmitInLap DEF Poll, tracking_vars
<1>5. CASE UNCHANGED vars
  <2>1. UNCHANGED <<next_session_index, sent, last_session, received_first,
                    last_session_index, frames_ring, code, header_code, delivered>>
    BY <1>5 DEF vars, encoder_vars, tracking_vars, code_vars, history_vars
  <2> QED
    BY <1>1, <2>1 DEF InLap, SentInLap, CodeOK, DeliveredIntact
<1> QED
  BY <1>2, <1>3, <1>4, <1>5 DEF Next

(* What the invariant says of the three properties.                        *)
LEMMA InLapImplies ==
  ASSUME InLap
  PROVE  WindowsAgree /\ SlotsUnmixed /\ DeliveredIntact
<1>0. RingOK(frames_ring, last_session_index) /\ last_session_index \in Nat
  BY DEF InLap, Remembering, TrackingOK
<1>1. CASE ~ received_first
  <2>1. code = EmptyCode /\ header_code = EmptyCode
    BY <1>1 DEF InLap, CodeOK
  <2> QED
    BY <1>1, <2>1, EmptyCodeFields DEF WindowsAgree, SlotsUnmixed, InLap
<1>2. CASE received_first
  <2>1. /\ InStep(code, last_session_index) /\ InStep(header_code, last_session_index)
        /\ last_session_index \in 0 .. FRAME_SPACE - 1
        /\ InRing(last_session_index)
    BY <1>0, <1>2, FrameSpaceAssumption DEF InLap, CodeOK, SentInLap, InRing
  <2>2. WindowsAgree
    <3>1. wire_frame_num(last_session_index) = last_session_index
      BY <2>1, WireInLap
    <3>2. ASSUME NEW i \in Slots, frames_ring[i].occupied
          PROVE  /\ slot_index(frames_ring[i].session_index) = i
                 /\ last_session_index - frames_ring[i].session_index \in 0 .. NumFrames - 1
      BY <1>0, <3>2, NumFramesPositive DEF RingOK, IsFrame, InWindow
    <3> QED
      BY <2>1, <3>1, <3>2 DEF WindowsAgree, InStep
  <2>3. SlotsUnmixed
    BY <2>1, InStepConsistent DEF SlotsUnmixed
  <2> QED
    BY <2>2, <2>3 DEF InLap
<1> QED
  BY <1>1, <1>2

(***************************************************************************)
(* The ring, the payload code and the header code hold the same window of  *)
(* frames: none of the three runs ahead of the others or falls behind      *)
(* (ingest_datagram, advance_to_wire_frame), for every delay and every     *)
(* order of arrival.                                                       *)
(***************************************************************************)
THEOREM WindowsAgreeInFirstLap ==
  ASSUME FirstLap
  PROVE  Spec => []WindowsAgree
<1>1. Init => InLap
  BY InitInLap
<1>2. InLap /\ [Next]_vars => InLap'
  BY NextInLap
<1>3. InLap => WindowsAgree
  BY InLapImplies
<1> QED
  BY <1>1, <1>2, <1>3, PTL DEF Spec

(***************************************************************************)
(* No slot of either code ever holds stripes of two frames, and no decode  *)
(* combines rows and columns of different frames (updated_ts,              *)
(* advance_to_wire_frame, place_payload).                                  *)
(***************************************************************************)
THEOREM SlotsUnmixedInFirstLap ==
  ASSUME FirstLap
  PROVE  Spec => []SlotsUnmixed
<1>1. Init => InLap
  BY InitInLap
<1>2. InLap /\ [Next]_vars => InLap'
  BY NextInLap
<1>3. InLap => SlotsUnmixed
  BY InLapImplies
<1> QED
  BY <1>1, <1>2, <1>3, PTL DEF Spec

(***************************************************************************)
(* Every frame handed to the application consists of the bytes that were   *)
(* sent for the frame it is said to be (take_recovered_frame), whatever is *)
(* lost, repeated, late or reordered.                                      *)
(***************************************************************************)
THEOREM DeliveredIntactInFirstLap ==
  ASSUME FirstLap
  PROVE  Spec => []DeliveredIntact
<1>1. Init => InLap
  BY InitInLap
<1>2. InLap /\ [Next]_vars => InLap'
  BY NextInLap
<1>3. InLap => DeliveredIntact
  BY InLapImplies
<1> QED
  BY <1>1, <1>2, <1>3, PTL DEF Spec

-----------------------------------------------------------------------------
(* Moving the window clears no slot of a frame that was in it.             *)
LEMMA AdvanceKeepsOld ==
  ASSUME NEW last \in 0 .. FRAME_SPACE - 1, NEW bc, InStep(bc, last),
         NEW wire \in 0 .. FRAME_SPACE - 1, last - wire < HALF_FRAME_SPACE,
         NEW columns \in Nat \ {0},
         NEW f \in Frames(IF wire > last THEN wire ELSE last), f <= last
  PROVE  Advance(bc, wire, wire, columns).erased[DecoderSlot(f)] = bc.erased[DecoderSlot(f)]
<1> DEFINE new == Advance(bc, wire, wire, columns)
           s == DecoderSlot(f)
<1>0. /\ bc.ts = last /\ last \in Int /\ wire \in Int /\ last # NoTimeslot
      /\ f \in Int /\ s \in Slots
  BY FrameSpaceAssumption, NumFramesPositive, SlotOfFrame DEF InStep, NoTimeslot, Frames
<1>1. CASE wire > last
  <2>1. Entered(bc.ts, wire) = last + 1 .. wire
    BY <1>0, <1>1, Enters
  <2>2. MovesWindow(bc.ts, wire)
    BY <1>0, <1>1 DEF MovesWindow
  <2>3. Moved(bc, new, wire, columns)
    BY <2>2, AdvanceMoves, Zenon DEF InStep
  <2>4. s \notin Cleared(bc, wire)
    <3>1. SUFFICES ASSUME NEW t \in last + 1 .. wire, DecoderSlot(t) = s PROVE FALSE
      BY <2>1 DEF Cleared
    <3>2. t \in Int /\ f - t < NumFrames /\ t - f < NumFrames /\ f # t
      BY <1>0, <1>1, NumFramesPositive DEF Frames
    <3> QED
      BY <1>0, <3>1, <3>2, OneFramePerSlot
  <2> HIDE DEF new, s
  <2> QED
    BY <1>0, <2>3, <2>4, Zenon DEF Moved, new, s
<1>2. CASE ~ (wire > last)
  <2>0. MAX_FRAME_NUM \div 2 \in Int /\ HALF_FRAME_SPACE = MAX_FRAME_NUM \div 2 + 1
    BY FrameSpaceAssumption, Z3 DEF HALF_FRAME_SPACE, MAX_FRAME_NUM
  <2>1. ~ MovesWindow(bc.ts, wire)
    BY <1>0, <1>2, <2>0 DEF MovesWindow
  <2> QED
    BY <2>1 DEF Advance
<1> QED
  BY <1>1, <1>2

(* The first window leaves the slots of the frames before frame 0 as they  *)
(* were built: known.                                                      *)
LEMMA FirstKeepsZeros ==
  ASSUME NEW wire \in 0 .. FRAME_SPACE - 1, NEW columns \in Nat \ {0},
         NEW f \in Frames(wire), f < 0
  PROVE  Advance(EmptyCode, wire, wire, columns).erased[DecoderSlot(f)] = {}
<1> DEFINE new == Advance(EmptyCode, wire, wire, columns)
           s == DecoderSlot(f)
<1>1. Entered(EmptyCode.ts, wire) = 0 .. wire
  BY EmptyCodeFields, Enters DEF NoTimeslot
<1>2. Moved(EmptyCode, new, wire, columns)
  <2>1. MovesWindow(EmptyCode.ts, wire) /\ IsCode(EmptyCode)
    BY EmptyCodeFields DEF MovesWindow
  <2> QED
    BY <2>1, AdvanceMoves, Zenon
<1>3. f \in Int /\ s \in Slots /\ wire \in Int
  BY FrameSpaceAssumption, NumFramesPositive, SlotOfFrame DEF Frames
<1>4. s \notin Cleared(EmptyCode, wire)
  <2>1. SUFFICES ASSUME NEW t \in 0 .. wire, DecoderSlot(t) = s PROVE FALSE
    BY <1>1 DEF Cleared
  <2>2. t \in Int /\ f - t < NumFrames /\ t - f < NumFrames /\ f # t
    BY <1>3, NumFramesPositive DEF Frames
  <2> QED
    BY <1>3, <2>1, <2>2, OneFramePerSlot
<1>5. EmptyCode.erased[s] = {}
  BY <1>3, EmptyCodeFields
<1> HIDE DEF new, s
<1> QED
  BY <1>2, <1>3, <1>4, <1>5, Zenon DEF Moved, new, s

(* Every other step of a code only makes more columns known.               *)
LEMMA PlacedIsKnown ==
  ASSUME NEW bc, IsCode(bc), NEW slot \in Slots, NEW column, NEW frame, NEW s \in Slots
  PROVE  /\ PlaceData(bc, slot, column, frame).erased[s] \subseteq bc.erased[s]
         /\ column \notin PlaceData(bc, slot, column, frame).erased[slot]
BY EmptyCodeFields DEF PlaceData, IsCode

(* Solving makes columns known ...                                         *)
LEMMA SolvedIsKnown ==
  ASSUME NEW bc, IsCode(bc), NEW positions, NEW s \in Slots
  PROVE  Solve(bc, positions).erased[s] \subseteq bc.erased[s]
<1> DEFINE slots == {SlotAt(bc, p) : p \in positions}
<1>1. Solve(bc, positions).erased = [t \in Slots |-> IF t \in slots THEN {} ELSE bc.erased[t]]
  <2> HIDE DEF slots
  <2> QED
    BY EmptyCodeFields DEF Solve, IsCode, slots
<1> QED
  BY <1>1

(* ... and so does the whole of try_decode.                                *)
LEMMA DecodedIsKnown ==
  ASSUME NEW last \in 0 .. FRAME_SPACE - 1, NEW bc, InStep(bc, last),
         NEW ring, RingOK(ring, last), SizesKnown(ring), NEW s \in Slots
  PROVE  DecodeFrames(bc, ring).erased[s] \subseteq bc.erased[s]
<1> DEFINE used == UsedColumns(ring)
           padded == Pad(bc, used, MAX_DATA)
           positions == DecodeTwice(MissingColumns(padded), KnownRows(padded))
<1>1. IsCode(padded) /\ padded.erased[s] \subseteq bc.erased[s]
  BY EmptyCodeFields DEF Pad, IsCode, InStep
<1> HIDE DEF padded, positions
<1>2. Solve(padded, positions).erased[s] \subseteq padded.erased[s]
  BY <1>1, SolvedIsKnown
<1> QED
  BY <1>1, <1>2 DEF DecodeFrames, padded, positions

(* The header code takes the frames before frame 0 for known.              *)
HeaderZeros(hc, last) == \A f \in Frames(last) : f < 0 => hc.erased[DecoderSlot(f)] = {}

(* They stay known while the window moves.                                 *)
LEMMA AdvanceKeepsZeros ==
  ASSUME FirstLap, SentInLap, TrackingOK, NEW bc, CodeOK(bc),
         received_first => HeaderZeros(bc, last_session_index),
         last_session \in Nat \cup {NoSession},
         NEW d \in InFlight, ~ OutOfWindow(d.frame), NEW columns \in Nat \ {0}
  PROVE  HeaderZeros(Advance(bc, d.wire, d.frame, columns), LastAfter(d.frame))
<1>1. /\ d.wire = d.frame /\ d.frame \in 0 .. FRAME_SPACE - 1 /\ d.frame \in Nat
      /\ \A n \in Nat : n < next_session_index => n - d.frame < HALF_FRAME_SPACE
  BY ResolvesItself DEF InFlight, SentInLap
<1>2. /\ next_session_index \in Nat /\ next_session_index <= FRAME_SPACE
      /\ FRAME_SPACE \in Nat /\ last_session_index \in Nat
      /\ received_first \in BOOLEAN /\ (~ received_first => last_session_index = 0)
      /\ NumFrames \in Nat /\ NumFrames > 0
  BY FrameSpaceAssumption, NumFramesPositive DEF SentInLap, TrackingOK
<1> SUFFICES ASSUME NEW f \in Frames(LastAfter(d.frame)), f < 0
             PROVE  Advance(bc, d.frame, d.frame, columns).erased[DecoderSlot(f)] = {}
  BY <1>1 DEF HeaderZeros
<1>3. CASE received_first
  <2>1. InStep(bc, last_session_index) /\ last_session_index < next_session_index
    BY <1>3 DEF CodeOK, SentInLap
  <2>2. last_session_index \in 0 .. FRAME_SPACE - 1 /\ f \in Int /\ f <= last_session_index
    BY <1>1, <1>2, <2>1 DEF Frames, LastAfter
  <2>3. last_session_index - d.frame < HALF_FRAME_SPACE
    BY <1>1, <1>2, <2>1
  <2>4. f \in Frames(last_session_index)
    BY <1>1, <1>2, <2>2 DEF Frames, LastAfter
  <2>5. Advance(bc, d.frame, d.frame, columns).erased[DecoderSlot(f)] = bc.erased[DecoderSlot(f)]
    BY <1>1, <2>1, <2>2, <2>3, AdvanceKeepsOld DEF LastAfter
  <2> QED
    BY <1>3, <2>4, <2>5 DEF HeaderZeros
<1>4. CASE ~ received_first
  <2>1. bc = EmptyCode
    BY <1>4 DEF CodeOK
  <2>2. LastAfter(d.frame) = d.frame
    BY <1>1, <1>2, <1>4 DEF LastAfter
  <2> QED
    BY <1>1, <2>1, <2>2, FirstKeepsZeros
<1> QED
  BY <1>3, <1>4

(* The header code is in step before it is decoded as well.                *)
LEMMA HeaderPlacedInStep ==
  ASSUME FirstLap, SentInLap, TrackingOK, CodeOK(header_code),
         last_session \in Nat \cup {NoSession},
         NEW d \in InFlight, ~ OutOfWindow(d.frame)
  PROVE  InStep(HeaderPlaced(header_code, d), LastAfter(d.frame))
<1> DEFINE last == LastAfter(d.frame)
<1>1. /\ d.frame \in Nat /\ d.frame \in Frames(last) /\ last \in 0 .. FRAME_SPACE - 1
      /\ d.wire = d.frame /\ last \in Nat
      /\ InStep(Advance(header_code, d.wire, d.frame, 1), last)
  <2>1. 1 \in Nat \ {0}
    OBVIOUS
  <2>2. d.wire = d.frame
    BY DEF SentInLap, InFlight
  <2>3. last \in 0 .. FRAME_SPACE - 1 => last \in Nat
    BY FrameSpaceAssumption
  <2> QED
    BY <2>1, <2>2, <2>3, CodeAdvances
<1> HIDE DEF last
<1>2. CASE d.pos = 0
  BY <1>1, <1>2, PlaceDataInStep DEF HeaderPlaced, last
<1>3. CASE d.pos # 0
  BY <1>1, <1>3, PlaceParityInStep DEF HeaderPlaced, last
<1> QED
  BY <1>2, <1>3

(* decode_headers leaves the frames before frame 0 alone.                  *)
LEMMA HeaderKeepsZeros ==
  ASSUME FirstLap, SentInLap, TrackingOK, CodeOK(header_code),
         received_first => HeaderZeros(header_code, last_session_index),
         last_session \in Nat \cup {NoSession},
         NEW d \in InFlight, ~ OutOfWindow(d.frame)
  PROVE  /\ HeaderZeros(HeaderPlaced(header_code, d), LastAfter(d.frame))
         /\ HeaderZeros(ReceiveHeader(header_code, d, d.frame).code, LastAfter(d.frame))
<1> DEFINE last == LastAfter(d.frame)
           ahead == Advance(header_code, d.wire, d.frame, 1)
           slot == DecoderSlot(d.wire)
           placed == HeaderPlaced(header_code, d)
           positions == Decode(MissingColumns(placed), KnownRows(placed))
<1>1. HeaderZeros(ahead, last) /\ InStep(ahead, last)
  <2>1. 1 \in Nat \ {0}
    OBVIOUS
  <2> QED
    BY <2>1, AdvanceKeepsZeros, CodeAdvances
<1>2. slot \in Slots /\ last \in Int /\ \A f \in Frames(last) : DecoderSlot(f) \in Slots
  <2>1. d.wire \in Int /\ last \in Int
    BY DEF SentInLap, InFlight, LastAfter
  <2> QED
    BY <2>1, SlotOfFrame, NumFramesPositive DEF Frames
<1>3. InStep(placed, last)
  BY HeaderPlacedInStep
<1>4. \A s \in Slots : placed.erased[s] \subseteq ahead.erased[s]
  <2>1. \/ placed = PlaceData(ahead, slot, 1, d.frame)
        \/ placed = PlaceParity(ahead, slot, (d.pos - 1) % HEADER_ROWS, d.frame)
    BY DEF HeaderPlaced
  <2>2. IsCode(ahead)
    BY <1>1 DEF InStep
  <2> HIDE DEF placed, ahead, slot
  <2>3. CASE placed = PlaceData(ahead, slot, 1, d.frame)
    BY <1>2, <2>2, <2>3, PlacedIsKnown
  <2>4. CASE placed = PlaceParity(ahead, slot, (d.pos - 1) % HEADER_ROWS, d.frame)
    <3>1. placed.erased = ahead.erased
      BY <2>2, <2>4, EmptyCodeFields DEF PlaceParity, IsCode
    <3> QED
      BY <3>1
  <2> QED
    BY <2>1, <2>3, <2>4
<1>5. ReceiveHeader(header_code, d, d.frame).code = Solve(placed, positions)
  BY DEF ReceiveHeader
<1> HIDE DEF placed, ahead, slot, positions, last
<1>6. \A s \in Slots : Solve(placed, positions).erased[s] \subseteq placed.erased[s]
  BY <1>3, SolvedIsKnown DEF InStep
<1>7. HeaderZeros(placed, last)
  BY <1>1, <1>2, <1>4 DEF HeaderZeros
<1>8. HeaderZeros(Solve(placed, positions), last)
  BY <1>2, <1>6, <1>7 DEF HeaderZeros
<1> QED
  BY <1>5, <1>7, <1>8 DEF placed, last

-----------------------------------------------------------------------------
(* A frame has one size, data first and parity behind.                     *)
SentSized ==
  /\ \A d \in sent : /\ d.size \in 1 .. MAX_DATA /\ d.pos \in Nat
                     /\ ~ d.is_parity => d.pos < d.size /\ d.stripe = d.pos + 1
                     /\ d.pos = 0 => ~ d.is_parity
  /\ \A d, e \in sent : d.frame = e.frame => d.size = e.size

(* SizeOf is the size every datagram of the frame was sent with.           *)
LEMMA SizeOfSent ==
  ASSUME SentSized, NEW d \in sent
  PROVE  SizeOf(d.frame) = d.size
<1> DEFINE e == CHOOSE e \in sent : e.frame = d.frame
<1>1. e \in sent /\ e.frame = d.frame
  OBVIOUS
<1>2. SizeOf(d.frame) = e.size
  BY DEF SizeOf
<1> HIDE DEF e
<1> QED
  BY <1>1, <1>2 DEF SentSized

(* decode_headers tells the true size of every frame it names.             *)
LEMMA HeaderTrue ==
  ASSUME FirstLap, SentInLap, SentSized, TrackingOK, CodeOK(header_code),
         received_first => HeaderZeros(header_code, last_session_index),
         last_session \in Nat \cup {NoSession},
         NEW d \in InFlight, ~ OutOfWindow(d.frame),
         NEW h \in ReceiveHeader(header_code, d, d.frame).sizes, h.session \in Nat
  PROVE  h.size = SizeOf(h.session)
<1> DEFINE last == LastAfter(d.frame)
           placed == HeaderPlaced(header_code, d)
           positions == Decode(MissingColumns(placed), KnownRows(placed))
           solved == Solve(placed, positions)
           wire(p) == absolute_frame_num(placed, p)
<1>1. /\ d \in sent /\ d.wire = d.frame /\ d.frame \in 0 .. FRAME_SPACE - 1 /\ d.frame \in Nat
      /\ last \in 0 .. FRAME_SPACE - 1 /\ last \in Nat
      /\ FRAME_SPACE \in Nat \ {0} /\ HALF_FRAME_SPACE \in Nat
  <2>1. d.wire = d.frame /\ d.frame \in 0 .. FRAME_SPACE - 1 /\ d \in sent /\ d.frame \in Nat
    BY ResolvesItself DEF InFlight, SentInLap
  <2>2. last \in 0 .. FRAME_SPACE - 1
    <3>1. 1 \in Nat \ {0}
      OBVIOUS
    <3> QED
      BY <3>1, CodeAdvances
  <2>3. FRAME_SPACE \in Nat \ {0} /\ HALF_FRAME_SPACE \in Nat
    BY FrameSpaceAssumption, HalfIsHalf
  <2> HIDE DEF last
  <2>4. last \in Nat
    BY <2>2, <2>3
  <2> QED
    BY <2>1, <2>2, <2>3, <2>4, Zenon
<1>2. InStep(placed, last) /\ HeaderZeros(placed, last)
  BY HeaderPlacedInStep, HeaderKeepsZeros
<1>3. solved.damaged = {}
  <2>1. Consistent(placed)
    BY <1>1, <1>2, InStepConsistent
  <2> HIDE DEF placed, positions
  <2> QED
    BY <1>2, <2>1, EmptyCodeFields DEF Solve, InStep, IsCode
<1> HIDE DEF last
<1>4. ASSUME NEW f \in 0 .. FRAME_SPACE - 1
      PROVE  HeaderSession(d.frame, f) = f \/ HeaderSession(d.frame, f) < 0
  <2>1. session_epoch(d.frame) = 0
    BY <1>1, WireInLap
  <2>2. session_from_parts(0, f) = f
    BY <1>1 DEF session_from_parts
  <2> QED
    BY <1>1, <2>1, <2>2 DEF HeaderSession
<1>5. CASE d.pos = 0 /\ h = [session |-> HeaderSession(d.frame, d.wire), size |-> d.size]
  <2>1. h.session = HeaderSession(d.frame, d.frame) /\ h.size = d.size
    BY <1>1, <1>5
  <2>2. h.session = d.frame
    BY <1>1, <1>4, <2>1
  <2> QED
    BY <1>1, <2>1, <2>2, SizeOfSent
<1>6. CASE \E p \in positions :
             h = [session |-> HeaderSession(d.frame, wire(p)),
                  size |-> IF SlotAt(placed, p) \in solved.damaged THEN WrongSize
                           ELSE SizeOf(FrameAt(placed, p))]
  <2>1. PICK p \in positions :
             h = [session |-> HeaderSession(d.frame, wire(p)),
                  size |-> IF SlotAt(placed, p) \in solved.damaged THEN WrongSize
                           ELSE SizeOf(FrameAt(placed, p))]
    BY <1>6
  <2>2. h.session = HeaderSession(d.frame, wire(p)) /\ h.size = SizeOf(FrameAt(placed, p))
    BY <1>3, <2>1
  <2>3. p \in Window /\ MissingColumns(placed)[p] > 0
    <3>1. \A m, r : Decode(m, r) \subseteq {q \in Window : m[q] > 0}
      <4> TAKE m, r
      <4>1. Theoretical(m, r).recovered \subseteq Window
        BY DEF Theoretical, OutcomeOf, Outcome
      <4> QED
        BY <4>1 DEF Decode, DecodeAs, SolveWanted
    <3> HIDE DEF placed
    <3> QED
      BY <3>1, Zenon
  <2> DEFINE f == last - (NumFrames - p)
  <2>4. f \in Int /\ f \in Frames(last) /\ f <= last /\ p \in Int /\ placed.ts = last
    BY <1>1, <1>2, <2>3, NumFramesPositive DEF Frames, Window, InStep
  <2>5. FrameAt(placed, p) = Shown(f)
    BY <1>2 DEF FrameAt, Shown, InStep
  <2>6. SlotAt(placed, p) = DecoderSlot(f)
    <3>1. SlotAt(placed, p) = DecoderSlot(f + NumFrames)
      <4>1. f + NumFrames = last + p
        BY <1>1, <2>4, NumFramesPositive
      <4> QED
        BY <2>4, <4>1 DEF SlotAt, DecoderSlot
    <3> HIDE DEF f
    <3> QED
      BY <2>4, <3>1, SlotsRepeat
  <2>7. placed.erased[SlotAt(placed, p)] # {}
    <3>1. MissingColumns(placed)[p] = Cardinality(placed.erased[SlotAt(placed, p)])
      BY <2>3 DEF MissingColumns
    <3> HIDE DEF placed
    <3>2. Cardinality({}) = 0
      BY FS_EmptySet
    <3> QED
      BY <2>3, <3>1, <3>2
  <2>8. f >= 0
    <3> HIDE DEF f, placed
    <3>1. f < 0 => placed.erased[DecoderSlot(f)] = {}
      BY <1>2, <2>4 DEF HeaderZeros
    <3> QED
      BY <2>4, <2>6, <2>7, <3>1
  <2>9. wire(p) = f
    <3>1. wire(p) = f % TS_SPACE
      BY <2>4 DEF absolute_frame_num
    <3> HIDE DEF f
    <3>2. f \in 0 .. FRAME_SPACE - 1
      BY <1>1, <2>4, <2>8
    <3>3. f % TS_SPACE = f
      BY <1>1, <3>2, Z3 DEF TS_SPACE
    <3> QED
      BY <3>1, <3>3
  <2> HIDE DEF f, wire
  <2>10. f \in 0 .. FRAME_SPACE - 1
    BY <1>1, <2>4, <2>8
  <2>11. h.session = f
    BY <1>4, <2>2, <2>9, <2>10
  <2> QED
    BY <2>2, <2>5, <2>8, <2>11 DEF Shown
<1>7. \/ d.pos = 0 /\ h = [session |-> HeaderSession(d.frame, d.wire), size |-> d.size]
      \/ \E p \in positions :
             h = [session |-> HeaderSession(d.frame, wire(p)),
                  size |-> IF SlotAt(placed, p) \in solved.damaged THEN WrongSize
                           ELSE SizeOf(FrameAt(placed, p))]
  <2> HIDE DEF placed, positions, solved
  <2> QED
    BY DEF ReceiveHeader, placed, positions, solved
<1> QED
  BY <1>5, <1>6, <1>7

(* The ring holds what has arrived: a frame's size is its own or unknown,  *)
(* known once its first packet is there, and every data stripe in the ring *)
(* is a known column of the payload code.                                  *)
HoldsArrived(ring, bc) ==
  \A i \in Slots : ring[i].occupied =>
    LET f == ring[i]
    IN  /\ f.frame_size \in {NoSize, SizeOf(f.session_index)}
        /\ 0 \in f.data => f.frame_size # NoSize
        /\ f.data # {} => SizeOf(f.session_index) \in 1 .. MAX_DATA
        /\ \A p \in f.data : p \in 0 .. SizeOf(f.session_index) - 1 /\ p + 1 \notin bc.erased[i]

(* g is f with other flags.                                                *)
SameContents(f, g) ==
  /\ g.occupied = f.occupied /\ g.session_index = f.session_index
  /\ g.frame_size = f.frame_size /\ g.data = f.data

(* Other flags and more known columns change nothing of it.                *)
LEMMA SameContentsHold ==
  ASSUME NEW ring, NEW bc, NEW new, NEW known, HoldsArrived(ring, bc),
         \A i \in Slots : SameContents(ring[i], new[i]) /\ known.erased[i] \subseteq bc.erased[i]
  PROVE  HoldsArrived(new, known)
<1> SUFFICES ASSUME NEW i \in Slots, new[i].occupied
    PROVE LET f == new[i]
          IN  /\ f.frame_size \in {NoSize, SizeOf(f.session_index)}
              /\ 0 \in f.data => f.frame_size # NoSize
              /\ f.data # {} => SizeOf(f.session_index) \in 1 .. MAX_DATA
              /\ \A p \in f.data : p \in 0 .. SizeOf(f.session_index) - 1
                                     /\ p + 1 \notin known.erased[i]
  BY DEF HoldsArrived
<1> DEFINE size == SizeOf(ring[i].session_index)
<1>1. /\ new[i].session_index = ring[i].session_index /\ new[i].frame_size = ring[i].frame_size
      /\ new[i].data = ring[i].data /\ ring[i].occupied
      /\ known.erased[i] \subseteq bc.erased[i]
  BY DEF SameContents
<1>2. /\ ring[i].frame_size \in {NoSize, size}
      /\ 0 \in ring[i].data => ring[i].frame_size # NoSize
      /\ ring[i].data # {} => size \in 1 .. MAX_DATA
      /\ \A p \in ring[i].data : p \in 0 .. size - 1 /\ p + 1 \notin bc.erased[i]
  BY <1>1 DEF HoldsArrived
<1>3. SizeOf(new[i].session_index) = size
  BY <1>1
<1> HIDE DEF size
<1> QED
  BY <1>1, <1>2, <1>3

-----------------------------------------------------------------------------
(* purge_expired, fill_missing_frames and frame_mut together with the move *)
(* of the payload code's window: what stays in the ring stays known.       *)
LEMMA OpenedHolds ==
  ASSUME FirstLap, SentInLap, TrackingOK, CodeOK(code), HoldsArrived(frames_ring, code),
         last_session \in Nat \cup {NoSession},
         NEW d \in InFlight, ~ OutOfWindow(d.frame)
  PROVE  HoldsArrived(Opened(d.frame), Advance(code, d.wire, d.frame, MAX_DATA))
<1> DEFINE last == LastAfter(d.frame)
           opened == Opened(d.frame)
           ahead == Advance(code, d.wire, d.frame, MAX_DATA)
<1>1. /\ d.wire = d.frame /\ d.frame \in 0 .. FRAME_SPACE - 1 /\ d.frame \in Nat
      /\ \A n \in Nat : n < next_session_index => n - d.frame < HALF_FRAME_SPACE
  BY ResolvesItself DEF InFlight, SentInLap
<1>2. /\ next_session_index \in Nat /\ next_session_index <= FRAME_SPACE
      /\ FRAME_SPACE \in Nat /\ last_session_index \in Nat
      /\ NumFrames \in Nat /\ NumFrames > 0 /\ MAX_DATA \in Nat \ {0}
  BY FrameSpaceAssumption, NumFramesPositive, DecoderAssumption DEF SentInLap, TrackingOK
<1>3. RingOK(opened, last)
  BY <1>1, OpenedKeepsRing
<1>4. ASSUME NEW i \in Slots, opened[i].occupied
      PROVE  \/ opened[i].data = {} /\ opened[i].frame_size = NoSize
             \/ opened[i] = frames_ring[i] /\ ahead.erased[i] = code.erased[i]
  <2>1. CASE opened[i] = Vacant
    BY <1>4, <2>1, VacantIsFrame
  <2>2. CASE \E s, b : opened[i] = reset_for(s, b)
    <3>1. \A s, b : reset_for(s, b).data = {} /\ reset_for(s, b).frame_size = NoSize
      BY DEF reset_for, Vacant
    <3> QED
      BY <2>2, <3>1
  <2>3. CASE opened[i] = frames_ring[i]
    <3> DEFINE s == frames_ring[i].session_index
    <3>1. /\ received_first /\ s \in Nat /\ slot_index(s) = i /\ s <= last_session_index
          /\ InWindow(s, last_session_index)
      BY <1>4, <2>3 DEF TrackingOK, RingOK, IsFrame, InWindow
    <3>2. InWindow(s, last)
      BY <1>3, <1>4, <2>3 DEF RingOK
    <3> HIDE DEF s
    <3>3. InStep(code, last_session_index) /\ last_session_index < next_session_index
      BY <3>1 DEF CodeOK, SentInLap
    <3>4. last_session_index \in 0 .. FRAME_SPACE - 1 /\ last_session_index - d.frame < HALF_FRAME_SPACE
      BY <1>1, <1>2, <3>3
    <3>5. s \in Frames(IF d.frame > last_session_index THEN d.frame ELSE last_session_index)
      BY <1>1, <1>2, <3>1, <3>2 DEF Frames, InWindow, LastAfter
    <3>6. DecoderSlot(s) = i
      BY <3>1 DEF slot_index, DecoderSlot
    <3>7. Advance(code, d.frame, d.frame, MAX_DATA).erased[DecoderSlot(s)]
            = code.erased[DecoderSlot(s)]
      BY <1>1, <1>2, <3>1, <3>3, <3>4, <3>5, AdvanceKeepsOld
    <3> QED
      BY <1>1, <2>3, <3>6, <3>7
  <2> QED
    <3>1. \/ opened[i] = Vacant
          \/ opened[i] = frames_ring[i]
          \/ \E s, b : opened[i] = reset_for(s, b)
      BY <1>1, OpenedCases, Zenon
    <3> HIDE DEF opened, ahead
    <3> QED
      BY <2>1, <2>2, <2>3, <3>1, Zenon
<1> HIDE DEF opened, ahead
<1>5. ASSUME NEW i \in Slots, opened[i].occupied
      PROVE  LET f == opened[i]
             IN  /\ f.frame_size \in {NoSize, SizeOf(f.session_index)}
                 /\ 0 \in f.data => f.frame_size # NoSize
                 /\ f.data # {} => SizeOf(f.session_index) \in 1 .. MAX_DATA
                 /\ \A p \in f.data : p \in 0 .. SizeOf(f.session_index) - 1
                                        /\ p + 1 \notin ahead.erased[i]
  <2>1. CASE opened[i].data = {} /\ opened[i].frame_size = NoSize
    BY <2>1
  <2>2. CASE opened[i] = frames_ring[i] /\ ahead.erased[i] = code.erased[i]
    BY <1>5, <2>2 DEF HoldsArrived
  <2> QED
    BY <1>4, <1>5, <2>1, <2>2
<1> QED
  BY <1>5 DEF HoldsArrived, opened, ahead

(* The datagram is added to its frame and to the payload code alike.       *)
LEMMA AddedHolds ==
  ASSUME SentInLap, SentSized, NEW d \in sent, NEW ring, NEW last \in Nat,
         RingOK(ring, last), Occupied(ring, d.frame),
         NEW ahead, IsCode(ahead), HoldsArrived(ring, ahead), NEW sizes,
         \A h \in sizes : h.session \in Nat => h.size = SizeOf(h.session),
         d.pos = 0 => \E h \in sizes : h.session = d.frame,
         NEW bc, bc = IF d.is_parity
                      THEN PlaceParity(ahead, DecoderSlot(d.wire), d.stripe, d.frame)
                      ELSE PlaceData(ahead, DecoderSlot(d.wire), d.stripe, d.frame)
  PROVE  HoldsArrived([UpdateSizes(ring, sizes) EXCEPT ![slot_index(d.frame)] = add_pkt(@, d)], bc)
<1> DEFINE sized == UpdateSizes(ring, sizes)
           own == slot_index(d.frame)
           added == [sized EXCEPT ![own] = add_pkt(@, d)]
<1>1. /\ d.frame \in Nat /\ d.wire = d.frame /\ own \in Slots /\ DecoderSlot(d.wire) = own
      /\ ring[own].occupied /\ ring[own].session_index = d.frame
      /\ d.size = SizeOf(d.frame) /\ d.size \in 1 .. MAX_DATA /\ d.pos \in Nat
      /\ ~ d.is_parity => d.pos < d.size /\ d.stripe = d.pos + 1
      /\ d.pos = 0 => ~ d.is_parity
  BY SlotIsSlot, SizeOfSent DEF SentInLap, SentSized, Occupied, slot_index, DecoderSlot
<1>2. ASSUME NEW i \in Slots
      PROVE  /\ bc.erased[i] \subseteq ahead.erased[i]
             /\ i = own /\ ~ d.is_parity => d.pos + 1 \notin bc.erased[i]
  <2>1. CASE d.is_parity
    <3>1. bc.erased = ahead.erased
      BY <2>1, EmptyCodeFields DEF PlaceParity, IsCode
    <3> QED
      BY <2>1, <3>1
  <2>2. CASE ~ d.is_parity
    <3>1. bc = PlaceData(ahead, own, d.stripe, d.frame)
      BY <1>1, <2>2
    <3> HIDE DEF own
    <3> QED
      BY <1>1, <2>2, <3>1, PlacedIsKnown
  <2> QED
    BY <2>1, <2>2
<1>3. ASSUME NEW i \in Slots
      PROVE  /\ IsFrame(ring[i]) /\ SameFrame(ring[i], sized[i]) /\ sized[i].data = ring[i].data
             /\ ring[i].occupied => \/ sized[i].frame_size = ring[i].frame_size
                                    \/ sized[i].frame_size = SizeOf(ring[i].session_index)
             /\ i = own /\ d.pos = 0 => sized[i].frame_size = SizeOf(ring[i].session_index)
  <2> DEFINE s == ring[i].session_index
             h == CHOOSE h \in sizes : h.session = s
  <2>1. IsFrame(ring[i]) /\ SameFrame(ring[i], sized[i]) /\ s \in Nat
    BY UpdateSizesKeepsFrames DEF RingOK, IsFrame
  <2>2. CASE ring[i].occupied /\ \E g \in sizes : g.session = s
    <3>1. sized[i] = [ring[i] EXCEPT !.frame_size = h.size]
      BY <2>2 DEF UpdateSizes
    <3>2. h \in sizes /\ h.session = s
      BY <2>2
    <3> HIDE DEF h, s, sized, own
    <3>3. h.size = SizeOf(s)
      BY <2>1, <3>2
    <3>4. sized[i].frame_size = SizeOf(s) /\ sized[i].data = ring[i].data
      BY <2>1, <3>1, <3>3 DEF IsFrame, Vacant
    <3> QED
      BY <2>1, <3>4 DEF s
  <2>3. CASE ~ (ring[i].occupied /\ \E g \in sizes : g.session = s)
    <3>1. sized[i] = ring[i]
      BY <2>3 DEF UpdateSizes
    <3>2. ~ (i = own /\ d.pos = 0)
      BY <1>1, <2>3
    <3> HIDE DEF sized, own, s
    <3> QED
      BY <2>1, <3>1, <3>2
  <2> QED
    BY <2>2, <2>3
<1>4. DOMAIN sized = Slots
  BY DEF UpdateSizes
<1>5. ASSUME NEW i \in Slots
      PROVE  /\ added[i].occupied = ring[i].occupied
             /\ added[i].session_index = ring[i].session_index
             /\ added[i].frame_size = sized[i].frame_size
             /\ added[i].data = IF i = own /\ ~ d.is_parity THEN ring[i].data \cup {d.pos}
                                ELSE ring[i].data
  <2>1. DOMAIN sized[i] = DOMAIN Vacant
    BY <1>3 DEF SameFrame, IsFrame
  <2>2. sized[i].occupied = ring[i].occupied /\ sized[i].session_index = ring[i].session_index
        /\ sized[i].data = ring[i].data
    BY <1>3 DEF SameFrame
  <2>3. added[i] = IF i = own THEN add_pkt(sized[i], d) ELSE sized[i]
    BY <1>4
  <2> HIDE DEF sized, own, added
  <2> QED
    BY <2>1, <2>2, <2>3 DEF add_pkt, Vacant
<1> HIDE DEF sized, own, added
<1>6. ASSUME NEW i \in Slots, added[i].occupied
      PROVE  LET f == added[i]
             IN  /\ f.frame_size \in {NoSize, SizeOf(f.session_index)}
                 /\ 0 \in f.data => f.frame_size # NoSize
                 /\ f.data # {} => SizeOf(f.session_index) \in 1 .. MAX_DATA
                 /\ \A p \in f.data : p \in 0 .. SizeOf(f.session_index) - 1
                                        /\ p + 1 \notin bc.erased[i]
  <2> DEFINE size == SizeOf(ring[i].session_index)
  <2>1. added[i].session_index = ring[i].session_index /\ ring[i].occupied
        /\ added[i].frame_size = sized[i].frame_size
    BY <1>5, <1>6
  <2>2. /\ ring[i].frame_size \in {NoSize, size}
        /\ 0 \in ring[i].data => ring[i].frame_size # NoSize
        /\ ring[i].data # {} => size \in 1 .. MAX_DATA
        /\ \A p \in ring[i].data : p \in 0 .. size - 1 /\ p + 1 \notin ahead.erased[i]
    BY <2>1 DEF HoldsArrived
  <2>3. /\ sized[i].frame_size = ring[i].frame_size \/ sized[i].frame_size = size
        /\ i = own /\ d.pos = 0 => sized[i].frame_size = size
    BY <1>3, <2>1
  <2>4. i = own => size = d.size
    BY <1>1
  <2>5. bc.erased[i] \subseteq ahead.erased[i]
        /\ (i = own /\ ~ d.is_parity => d.pos + 1 \notin bc.erased[i])
    BY <1>2
  <2> HIDE DEF size
  <2>6. /\ added[i].frame_size \in {NoSize, size}
        /\ added[i].data # {} => size \in 1 .. MAX_DATA
    <3>1. added[i].frame_size \in {NoSize, size}
      BY <2>1, <2>2, <2>3
    <3>2. CASE added[i].data = ring[i].data
      BY <2>2, <3>1, <3>2
    <3>3. CASE i = own
      BY <1>1, <2>4, <3>1, <3>3
    <3> QED
      BY <1>5, <3>2, <3>3
  <2>7. 0 \in added[i].data => added[i].frame_size # NoSize
    <3>1. CASE 0 \in ring[i].data
      <4>1. ring[i].frame_size = size /\ size # NoSize
        BY <2>2, <3>1
      <4> QED
        BY <2>1, <2>3, <4>1
    <3>2. CASE i = own /\ d.pos = 0
      <4>1. size \in 1 .. MAX_DATA
        BY <1>1, <2>4, <3>2
      <4>2. size # NoSize
        BY <4>1 DEF NoSize
      <4> QED
        BY <2>1, <2>3, <3>2, <4>2
    <3> QED
      BY <1>5, <3>1, <3>2
  <2>8. ASSUME NEW p \in added[i].data
        PROVE  p \in 0 .. size - 1 /\ p + 1 \notin bc.erased[i]
    <3>1. CASE p \in ring[i].data
      BY <2>2, <2>5, <3>1
    <3>2. CASE i = own /\ ~ d.is_parity /\ p = d.pos
      BY <1>1, <2>4, <2>5, <3>2
    <3> QED
      BY <1>5, <2>8, <3>1, <3>2
  <2> QED
    BY <2>1, <2>6, <2>7, <2>8 DEF size
<1> QED
  BY <1>6 DEF HoldsArrived, added, sized, own

-----------------------------------------------------------------------------
(* A frame of the window whose stripes have all arrived is recovered.      *)
LEMMA CompleteIsRecovered ==
  ASSUME NEW last \in 0 .. FRAME_SPACE - 1, NEW bc, InStep(bc, last),
         NEW ring, RingOK(ring, last), HoldsArrived(ring, bc),
         NEW i \in Slots, ring[i].occupied, ring[i].data # {},
         Cardinality(ring[i].data) = SizeOf(ring[i].session_index)
  PROVE  is_frame_recovered(bc, ring[i])
<1> DEFINE s == ring[i].session_index
           size == SizeOf(s)
<1>1. /\ s \in Nat /\ s <= last /\ last - s < NumFrames /\ slot_index(s) = i
      /\ FRAME_SPACE \in Nat \ {0} /\ last \in Nat /\ NumFrames \in Nat
  BY FrameSpaceAssumption, NumFramesPositive DEF RingOK, IsFrame, InWindow
<1>2. /\ ring[i].frame_size \in {NoSize, size}
      /\ 0 \in ring[i].data => ring[i].frame_size # NoSize
      /\ size \in 1 .. MAX_DATA
      /\ \A p \in ring[i].data : p \in 0 .. size - 1 /\ p + 1 \notin bc.erased[i]
  BY DEF HoldsArrived
<1>3. s \in 0 .. FRAME_SPACE - 1
  BY <1>1
<1>4. frame_num(ring[i]) = s /\ DecoderSlot(s) = i
  BY <1>1, <1>3, WireInLap DEF frame_num, slot_index, DecoderSlot
<1> HIDE DEF s, size
<1>5. ring[i].data = 0 .. size - 1
  <2>1. size \in Int /\ size > 0
    BY <1>2, DecoderAssumption
  <2>2. IsFiniteSet(0 .. size - 1) /\ Cardinality(0 .. size - 1) = size
    <3> DEFINE top == size - 1
    <3>1. top \in Int /\ ~ (0 > top) /\ top - 0 + 1 = size
      BY <2>1
    <3> HIDE DEF top
    <3>2. IsFiniteSet(0 .. top) /\ Cardinality(0 .. top) = size
      BY <3>1, FS_Interval
    <3> QED
      BY <3>2 DEF top
  <2>3. ring[i].data \in SUBSET (0 .. size - 1)
    BY <1>2
  <2> QED
    BY <2>2, <2>3, FS_Subset DEF s, size
<1>6. ring[i].frame_size = size
  <2>1. 0 \in ring[i].data
    BY <1>2, <1>5, DecoderAssumption
  <2> QED
    BY <1>2, <2>1
<1>7. 1 .. size \cap bc.erased[i] = {}
  <2>1. ASSUME NEW c \in 1 .. size PROVE c \notin bc.erased[i]
    <3>1. c \in Int /\ c - 1 \in 0 .. size - 1 /\ (c - 1) + 1 = c
      BY <1>2, DecoderAssumption
    <3>2. (c - 1) + 1 \notin bc.erased[i]
      BY <1>2, <1>5, <3>1
    <3> QED
      BY <3>1, <3>2
  <2> QED
    BY <2>1
<1>8. ~ expired_frame(s, last)
  <2> DEFINE dist == last - s
  <2>1. dist \in 0 .. FRAME_SPACE - 1
    BY <1>1, <1>3
  <2> HIDE DEF dist
  <2>2. dist % TS_SPACE = dist
    BY <1>1, <2>1, Z3 DEF TS_SPACE
  <2>3. dist < NumFrames
    BY <1>1 DEF dist
  <2> QED
    BY <1>1, <2>1, <2>2, <2>3 DEF expired_frame, dist
<1>9. bc.ts = last /\ last # NoTimeslot
  BY <1>1 DEF InStep, NoTimeslot
<1> QED
  BY <1>2, <1>4, <1>6, <1>7, <1>8, <1>9 DEF is_frame_recovered

(* drain_recovered hands over every frame that is complete.                *)
LEMMA EmitDeliversComplete ==
  ASSUME NEW last \in 0 .. FRAME_SPACE - 1, NEW bc, InStep(bc, last),
         NEW ring, RingOK(ring, last), HoldsArrived(ring, bc),
         NEW feedback, NEW due, EmitPending(ring, bc, feedback, due), sent' = sent
  PROVE  CompleteIsDelivered' /\ HoldsArrived(frames_ring', bc)
<1>1. ASSUME NEW i \in Slots
      PROVE  /\ SameContents(ring[i], frames_ring'[i])
             /\ frames_ring'[i].delivered = (ring[i].delivered \/ i \in Deliverable(ring, bc))
  <2>1. IsFrame(ring[i])
    BY DEF RingOK
  <2>2. CASE i \in Deliverable(ring, bc)
    <3>1. frames_ring'[i] = [ring[i] EXCEPT !.delivered = TRUE]
      BY <2>2 DEF EmitPending
    <3> QED
      BY <2>1, <2>2, <3>1 DEF IsFrame, Vacant, SameContents
  <2>3. CASE i \notin Deliverable(ring, bc)
    <3>1. frames_ring'[i] = ring[i]
      BY <2>3 DEF EmitPending
    <3> QED
      BY <2>1, <2>3, <3>1 DEF IsFrame, SameContents
  <2> QED
    BY <2>2, <2>3
<1>2. HoldsArrived(frames_ring', bc)
  <2>1. \A i \in Slots : SameContents(ring[i], frames_ring'[i])
                           /\ bc.erased[i] \subseteq bc.erased[i]
    BY <1>1
  <2> QED
    BY <2>1, SameContentsHold
<1>3. ASSUME NEW i \in Slots, frames_ring'[i].occupied, frames_ring'[i].data # {},
             Cardinality(frames_ring'[i].data) = SizeOf(frames_ring'[i].session_index)
      PROVE  frames_ring'[i].delivered
  <2>1. /\ ring[i].occupied /\ ring[i].data # {}
        /\ Cardinality(ring[i].data) = SizeOf(ring[i].session_index)
    BY <1>1, <1>3 DEF SameContents
  <2>2. is_frame_recovered(bc, ring[i])
    BY <2>1, CompleteIsRecovered
  <2>3. ring[i].delivered \/ i \in Deliverable(ring, bc)
    BY <2>1, <2>2 DEF Deliverable
  <2> QED
    BY <1>1, <2>3
<1>4. \A f : SizeOf(f)' = SizeOf(f)
  BY DEF SizeOf
<1>5. CompleteIsDelivered'
  BY <1>3, <1>4 DEF CompleteIsDelivered
<1> QED
  BY <1>2, <1>5

(***************************************************************************)
(* The inductive invariant.  CompleteIsDelivered speaks of the packets in  *)
(* the ring; what is delivered is decided by the payload code and by the   *)
(* size the headers told.  HoldsArrived ties the three together.           *)
(***************************************************************************)
CompleteInLap ==
  /\ InLap /\ SentSized
  /\ received_first => HeaderZeros(header_code, last_session_index)
  /\ HoldsArrived(frames_ring, code)
  /\ CompleteIsDelivered

(* Nothing has arrived.                                                    *)
LEMMA InitComplete ==
  ASSUME FirstLap, Init
  PROVE  CompleteInLap
<1>1. InLap /\ sent = {} /\ received_first = FALSE
  BY InitInLap DEF Init
<1>2. \A i \in Slots : ~ frames_ring[i].occupied
  BY VacantIsFrame DEF Init
<1> QED
  BY <1>1, <1>2 DEF CompleteInLap, SentSized, HoldsArrived, CompleteIsDelivered

(* encode_payload: the new frame is none of those in the ring.             *)
LEMMA EncodeComplete ==
  ASSUME FirstLap, CompleteInLap, InLap', NEW shape \in Shapes, Encode(shape)
  PROVE  CompleteInLap'
<1> DEFINE next == next_session_index
           new == Datagrams(next, sqn, shape)
<1>1. /\ sent' = sent \cup new /\ next \in Nat
      /\ \A d \in sent : d.frame < next /\ d.frame \in Nat
  BY DEF Encode, CompleteInLap, InLap, SentInLap
<1>2. shape.data \in 1 .. MAX_DATA /\ shape.parity \in Nat /\ MAX_DATA \in Nat
  BY DecoderAssumption
<1>3. ASSUME NEW d \in new
      PROVE  /\ d.frame = next /\ d.size = shape.data /\ d.pos \in Nat
             /\ ~ d.is_parity => d.pos < d.size /\ d.stripe = d.pos + 1
             /\ d.pos = 0 => ~ d.is_parity
  <2>1. PICK pos \in 0 .. shape.data + shape.parity - 1 :
          /\ d.frame = next /\ d.size = shape.data /\ d.pos = pos
          /\ d.is_parity = (pos >= shape.data)
          /\ d.stripe = IF pos >= shape.data THEN pos - shape.data + 1 ELSE pos + 1
    BY DEF Datagrams
  <2> HIDE DEF new, next
  <2>2. CASE pos >= shape.data
    <3>1. d.is_parity
      BY <2>1, <2>2, Zenon
    <3>2. pos \in Nat /\ pos # 0
      BY <1>2, <2>2
    <3> QED
      BY <2>1, <3>1, <3>2, Zenon
  <2>3. CASE ~ (pos >= shape.data)
    <3>1. ~ d.is_parity
      BY <2>1, <2>3, Zenon
    <3>2. pos \in Nat /\ pos < shape.data
      BY <1>2, <2>3
    <3>3. d.pos < d.size /\ d.stripe = d.pos + 1
      BY <2>1, <2>3, <3>2, Zenon
    <3> QED
      BY <2>1, <3>1, <3>2, <3>3, Zenon
  <2> QED
    BY <2>2, <2>3
<1> HIDE DEF new, next
<1>4. SentSized'
  <2>1. SentSized
    BY DEF CompleteInLap
  <2> QED
    BY <1>1, <1>2, <1>3, <2>1 DEF SentSized
<1>5. ASSUME NEW s \in Nat, s < next
      PROVE  SizeOf(s)' = SizeOf(s)
  <2>1. CASE \E d \in sent : d.frame = s
    <3>1. PICK d \in sent : d.frame = s
      BY <2>1
    <3>2. SizeOf(s) = d.size
      BY <3>1, SizeOfSent DEF CompleteInLap
    <3>3. \A e \in sent' : e.frame = s => e.size = d.size
      BY <1>1, <1>4, <3>1 DEF SentSized
    <3>4. SizeOf(s)' = d.size
      <4> DEFINE e == CHOOSE e \in sent' : e.frame = s
      <4>1. \E g \in sent' : g.frame = s
        BY <1>1, <3>1
      <4>2. e \in sent' /\ e.frame = s
        BY <4>1
      <4>3. SizeOf(s)' = e.size
        BY <4>1 DEF SizeOf
      <4> HIDE DEF e
      <4> QED
        BY <3>3, <4>2, <4>3
    <3> QED
      BY <3>2, <3>4
  <2>2. CASE ~ \E d \in sent : d.frame = s
    <3>1. ~ \E d \in sent' : d.frame = s
      BY <1>1, <1>3, <1>5, <2>2
    <3> QED
      BY <2>2, <3>1 DEF SizeOf
  <2> QED
    BY <2>1, <2>2
<1>6. UNCHANGED <<received_first, last_session_index, frames_ring, code, header_code>>
  BY DEF Encode, tracking_vars, code_vars
<1>7. ASSUME NEW i \in Slots, frames_ring[i].occupied
      PROVE  SizeOf(frames_ring[i].session_index)' = SizeOf(frames_ring[i].session_index)
  <2> DEFINE s == frames_ring[i].session_index
  <2>1. /\ received_first /\ s \in Nat /\ s <= last_session_index
        /\ last_session_index \in Nat
    BY <1>7 DEF CompleteInLap, InLap, Remembering, TrackingOK, RingOK, IsFrame, InWindow
  <2>2. last_session_index < next
    BY <2>1 DEF CompleteInLap, InLap, SentInLap, next
  <2> HIDE DEF s
  <2>3. PICK t \in Nat : t = s /\ t < next
    BY <1>1, <2>1, <2>2
  <2>4. SizeOf(t)' = SizeOf(t)
    BY <1>5, <2>3
  <2>5. frames_ring[i].session_index = t /\ frames_ring'[i].session_index = t
    BY <1>6, <2>3 DEF s
  <2> QED
    BY <2>4, <2>5
<1>8. HoldsArrived(frames_ring, code)'
  <2>1. HoldsArrived(frames_ring, code)
    BY DEF CompleteInLap
  <2> QED
    BY <1>6, <1>7, <2>1 DEF HoldsArrived
<1>9. CompleteIsDelivered'
  <2>1. CompleteIsDelivered
    BY DEF CompleteInLap
  <2> QED
    BY <1>6, <1>7, <2>1 DEF CompleteIsDelivered
<1> QED
  BY <1>4, <1>6, <1>8, <1>9 DEF CompleteInLap, HeaderZeros

(* A call that only emits.                                                 *)
LEMMA EmitComplete ==
  ASSUME CompleteInLap, InLap', NEW due,
         EmitPending(frames_ring, code, feedback_frames, due),
         UNCHANGED <<encoder_vars, received_first, last_session_index, code_vars>>
  PROVE  CompleteInLap'
<1>1. /\ TrackingOK /\ RingOK(frames_ring, last_session_index) /\ last_session_index \in Nat
      /\ HoldsArrived(frames_ring, code) /\ SizesKnown(frames_ring)
  BY DEF CompleteInLap, InLap, Remembering, TrackingOK
<1>2. sent' = sent /\ code' = code /\ header_code' = header_code
  BY DEF encoder_vars, code_vars
<1>3. SentSized'
  BY <1>2 DEF CompleteInLap, SentSized
<1>4. received_first' => HeaderZeros(header_code, last_session_index)'
  BY <1>2 DEF CompleteInLap, HeaderZeros
<1>5. CASE received_first
  <2>1. InStep(code, last_session_index)
    BY <1>5 DEF CompleteInLap, InLap, CodeOK
  <2>2. last_session_index \in 0 .. FRAME_SPACE - 1
    BY <1>1, <1>5, FrameSpaceAssumption DEF CompleteInLap, InLap, SentInLap
  <2>3. CompleteIsDelivered' /\ HoldsArrived(frames_ring', code)
    BY <1>1, <1>2, <2>1, <2>2, EmitDeliversComplete
  <2>4. \A f : SizeOf(f)' = SizeOf(f)
    BY <1>2 DEF SizeOf
  <2>5. HoldsArrived(frames_ring, code)'
    BY <1>2, <2>3, <2>4 DEF HoldsArrived
  <2> QED
    BY <1>3, <1>4, <2>3, <2>5 DEF CompleteInLap
<1>6. CASE ~ received_first
  <2>1. \A i \in Slots : ~ frames_ring'[i].occupied
    BY <1>6 DEF InLap, Remembering, TrackingOK
  <2> QED
    BY <1>3, <1>4, <2>1 DEF CompleteInLap, HoldsArrived, CompleteIsDelivered
<1> QED
  BY <1>5, <1>6

(* ingest_datagram of a datagram that is not refused.                      *)
LEMMA AcceptComplete ==
  ASSUME FirstLap, CompleteInLap, InLap', NEW d \in InFlight, NEW due,
         Accept(d, d.frame, due)
  PROVE  CompleteInLap'
<1> DEFINE session == d.frame
           last == LastAfter(session)
           opened == Opened(session)
           header == ReceiveHeader(header_code, d, session)
           ring == Added(d, session, header.sizes)
           ahead == Advance(code, d.wire, d.frame, MAX_DATA)
           placed == AddPacket(code, d)
           bc == DecodeFrames(placed, ring)
           marked == MarkDecoded(ring, bc)
           feedback == feedback_frames \o PurgedVerdicts(frames_ring, session)
<1>1. /\ ~ OutOfWindow(session)
      /\ received_first' = TRUE /\ last_session_index' = last
      /\ header_code' = header.code /\ code' = bc
      /\ EmitPending(marked, bc, feedback, due)
      /\ sent' = sent
  BY DEF Accept, LastAfter, encoder_vars
<1>2. /\ SentInLap /\ SentSized /\ TrackingOK /\ CodeOK(code) /\ CodeOK(header_code)
      /\ last_session \in Nat \cup {NoSession} /\ SizesKnown(frames_ring)
      /\ received_first => Occupied(frames_ring, last_session_index)
      /\ received_first => HeaderZeros(header_code, last_session_index)
      /\ HoldsArrived(frames_ring, code)
  BY DEF CompleteInLap, InLap, Remembering, InputOK
<1>3. d \in sent /\ session \in Nat /\ d.wire = session /\ session \in 0 .. FRAME_SPACE - 1
  BY <1>2, ResolvesItself DEF InFlight, SentInLap
<1>4. /\ InStep(placed, last) /\ last \in 0 .. FRAME_SPACE - 1 /\ last \in Nat
      /\ HeaderZeros(header.code, last)
  <2>1. InStep(placed, last) /\ last \in 0 .. FRAME_SPACE - 1
    BY <1>1, <1>2, CodesReceive
  <2>2. HeaderZeros(header.code, last)
    BY <1>1, <1>2, HeaderKeepsZeros
  <2> HIDE DEF last, header, placed
  <2>3. last \in Nat
    BY <2>1, FrameSpaceAssumption
  <2> QED
    BY <2>1, <2>2, <2>3
<1>5. IsCode(ahead)
  <2>1. MAX_DATA \in Nat \ {0}
    BY DecoderAssumption
  <2>2. InStep(ahead, last)
    BY <1>1, <1>2, <2>1, CodeAdvances
  <2> QED
    BY <2>2 DEF InStep
<1>6. /\ RingOK(opened, last) /\ SizesKnown(opened) /\ Occupied(opened, last)
      /\ HoldsArrived(opened, ahead)
  BY <1>1, <1>2, <1>3, OpenedKeepsRing, OpenedSizes, OpenedHoldsNewest, OpenedHolds
<1>7. /\ \A h \in header.sizes : h.size \in Nat
      /\ \A h \in header.sizes : h.session \in Nat => h.size = SizeOf(h.session)
  BY <1>1, <1>2, <1>3, HeaderSizes, HeaderTrue
<1>8. d.pos = 0 => \E h \in header.sizes : h.session = session
  <2>1. HeaderSession(session, d.wire) = session
    <3>1. session_epoch(session) = 0 /\ FRAME_SPACE \in Nat
      BY <1>3, WireInLap, FrameSpaceAssumption
    <3>2. session_from_parts(0, session) = session
      BY <1>3, <3>1 DEF session_from_parts
    <3>3. ~ (session > session)
      BY <1>3
    <3> QED
      BY <1>3, <3>1, <3>2, <3>3 DEF HeaderSession
  <2> DEFINE h == [session |-> HeaderSession(session, d.wire), size |-> d.size]
  <2>2. d.pos = 0 => h \in header.sizes
    BY DEF ReceiveHeader
  <2>3. h.session = session
    BY <2>1
  <2> QED
    BY <2>2, <2>3
<1>9. Occupied(opened, session)
  <2>1. slot_index(session) \in Slots
    BY <1>3, SlotIsSlot
  <2> DEFINE i == slot_index(session)
  <2>2. \/ opened[i] = frames_ring[i] /\ Occupied(frames_ring, session)
        \/ opened[i] = reset_for(session, FALSE)
    <3> HIDE DEF opened
    <3> QED
      BY <1>2, <1>3, <2>1, OpenedCases DEF opened
  <2> QED
    BY <1>3, <2>2, ResetIsFrame DEF Occupied
<1>10. HoldsArrived(ring, placed)
  <2>1. ring = [UpdateSizes(opened, header.sizes) EXCEPT ![slot_index(session)] = add_pkt(@, d)]
    BY DEF Added
  <2>2. placed = IF d.is_parity
                 THEN PlaceParity(ahead, DecoderSlot(d.wire), d.stripe, d.frame)
                 ELSE PlaceData(ahead, DecoderSlot(d.wire), d.stripe, d.frame)
    BY DEF AddPacket
  <2> HIDE DEF opened, header, ahead, placed, ring, last
  <2> QED
    BY <1>2, <1>3, <1>4, <1>5, <1>6, <1>7, <1>8, <1>9, <2>1, <2>2, AddedHolds
<1> HIDE DEF last, opened, header, ahead, placed
<1>11. RingOK(ring, last) /\ SizesKnown(ring) /\ Occupied(ring, last)
  BY <1>3, <1>4, <1>6, <1>7, AddedKeeps DEF opened
<1> HIDE DEF ring, session
<1>12. InStep(bc, last) /\ \A i \in Slots : bc.erased[i] \subseteq placed.erased[i]
  BY <1>4, <1>11, DecodeFramesInStep, DecodedIsKnown
<1> HIDE DEF bc
<1>13. RingOK(marked, last)
  BY <1>4, <1>11, MarkDecodedKeeps
<1>14. HoldsArrived(marked, bc)
  <2>1. ASSUME NEW i \in Slots
        PROVE  SameContents(ring[i], marked[i]) /\ bc.erased[i] \subseteq placed.erased[i]
    <3>1. marked[i] = ring[i] \/ marked[i] = [ring[i] EXCEPT !.is_decoded = TRUE]
      BY DEF MarkDecoded
    <3>2. IsFrame(ring[i])
      BY <1>11 DEF RingOK
    <3> HIDE DEF marked
    <3>3. SameContents(ring[i], marked[i])
      BY <3>1, <3>2 DEF SameContents, IsFrame, Vacant
    <3> QED
      BY <1>12, <3>3
  <2> HIDE DEF marked
  <2> QED
    BY <1>10, <2>1, SameContentsHold
<1> HIDE DEF marked, feedback
<1>15. CompleteIsDelivered' /\ HoldsArrived(frames_ring', bc)
  BY <1>1, <1>4, <1>12, <1>13, <1>14, EmitDeliversComplete
<1>16. HoldsArrived(frames_ring, code)'
  <2>1. \A f : SizeOf(f)' = SizeOf(f)
    BY <1>1 DEF SizeOf
  <2> QED
    BY <1>1, <1>15, <2>1 DEF HoldsArrived
<1>17. SentSized'
  BY <1>1, <1>2 DEF SentSized
<1>18. received_first' => HeaderZeros(header_code, last_session_index)'
  BY <1>1, <1>4 DEF HeaderZeros
<1> QED
  BY <1>15, <1>16, <1>17, <1>18 DEF CompleteInLap

(* Every step of the sender, the channel and the receiver.                 *)
LEMMA NextComplete ==
  ASSUME FirstLap, CompleteInLap, [Next]_vars
  PROVE  CompleteInLap'
<1>1. InLap'
  BY NextInLap DEF CompleteInLap
<1>2. CASE \E shape \in Shapes : Encode(shape)
  BY <1>1, <1>2, EncodeComplete
<1>3. CASE \E d \in InFlight, due \in BOOLEAN : Receive(d, due)
  <2>1. PICK d \in InFlight, due \in BOOLEAN : Receive(d, due)
    BY <1>3
  <2>2. resolve_wire(last_session, d.wire) = d.frame
    BY ResolvesItself DEF CompleteInLap, InLap, Remembering, InputOK
  <2>3. CASE Duplicate(d, due)
    BY <1>1, <2>3, EmitComplete DEF Duplicate, tracking_vars
  <2>4. CASE Refuse(d, d.frame, due)
    BY <1>1, <2>4, EmitComplete DEF Refuse
  <2>5. CASE Accept(d, d.frame, due)
    BY <1>1, <2>5, AcceptComplete
  <2> QED
    BY <2>1, <2>2, <2>3, <2>4, <2>5 DEF Receive
<1>4. CASE \E due \in BOOLEAN : Poll(due)
  BY <1>1, <1>4, EmitComplete DEF Poll, tracking_vars
<1>5. CASE UNCHANGED vars
  <2>1. UNCHANGED <<sent, received_first, last_session_index, frames_ring, code, header_code>>
    BY <1>5 DEF vars, encoder_vars, tracking_vars, code_vars, history_vars
  <2>2. \A f : SizeOf(f)' = SizeOf(f)
    BY <2>1 DEF SizeOf
  <2> QED
    BY <1>1, <2>1, <2>2
    DEF CompleteInLap, SentSized, HeaderZeros, HoldsArrived, CompleteIsDelivered
<1> QED
  BY <1>2, <1>3, <1>4, <1>5 DEF Next

(***************************************************************************)
(* Nothing that arrived is withheld: as soon as the last data stripe of a  *)
(* frame is accepted, the frame is handed over in that very call, even if  *)
(* its size came late or only through the header code (receive_datagram,   *)
(* is_frame_recovered, take_recovered_frame).                              *)
(***************************************************************************)
THEOREM CompleteIsDeliveredInFirstLap ==
  ASSUME FirstLap
  PROVE  Spec => []CompleteIsDelivered
<1>1. Init => CompleteInLap
  BY InitComplete
<1>2. CompleteInLap /\ [Next]_vars => CompleteInLap'
  BY NextComplete
<1>3. CompleteInLap => CompleteIsDelivered
  BY DEF CompleteInLap
<1> QED
  BY <1>1, <1>2, <1>3, PTL DEF Spec

-----------------------------------------------------------------------------
(* The verdicts.                                                           *)

(* The expired frames that purge_expired comes to before that of slot i.   *)
Older(ring, gone, i) == {j \in gone : ring[j].session_index < ring[i].session_index}

(* purge_expired takes the oldest first: the verdicts are those of the     *)
(* expired frames, each once, in the order of their sessions.              *)
LEMMA PurgedInOrder ==
  ASSUME NEW ring, NEW last \in Nat, RingOK(ring, last), NEW session
  PROVE  LET p == PurgedVerdicts(ring, session)
             gone == Expired(ring, session)
         IN  /\ p \in Seq({Verdict(ring[i]) : i \in gone})
             /\ Range(p) = {Verdict(ring[i]) : i \in gone}
             /\ \A k, l \in 1 .. Len(p) : k < l => p[k].session < p[l].session
<1> DEFINE gone == Expired(ring, session)
           n == Cardinality(gone)
           p == PurgedVerdicts(ring, session)
           s(i) == ring[i].session_index
           rank == [i \in gone |-> Cardinality(Older(ring, gone, i)) + 1]
           nth(k) == CHOOSE i \in gone : Cardinality(Older(ring, gone, i)) = k - 1
<1>1. gone \subseteq Slots /\ IsFiniteSet(gone) /\ n \in Nat
  <2>1. IsFiniteSet(Slots)
    BY NumFramesPositive, FS_Interval DEF Slots
  <2>2. gone \in SUBSET Slots
    BY DEF Expired
  <2>3. IsFiniteSet(gone)
    BY <2>1, <2>2, FS_Subset
  <2> QED
    BY <2>2, <2>3, FS_CardinalityType
<1>2. \A i \in gone : s(i) \in Nat /\ slot_index(s(i)) = i
  BY DEF Expired, RingOK, IsFrame
<1>3. \A i, j \in gone : i # j => s(i) # s(j)
  BY <1>2
<1> HIDE DEF gone
<1>4. ASSUME NEW i \in gone
      PROVE  /\ Older(ring, gone, i) \in SUBSET gone /\ IsFiniteSet(Older(ring, gone, i))
             /\ Cardinality(Older(ring, gone, i)) \in 0 .. n - 1
  <2>1. Older(ring, gone, i) \in SUBSET gone /\ i \notin Older(ring, gone, i)
    BY <1>2 DEF Older
  <2>2. /\ IsFiniteSet(Older(ring, gone, i)) /\ Cardinality(Older(ring, gone, i)) <= n
        /\ Cardinality(Older(ring, gone, i)) # n
    BY <1>1, <2>1, FS_Subset
  <2>3. Cardinality(Older(ring, gone, i)) \in Nat
    BY <2>2, FS_CardinalityType
  <2> QED
    BY <1>1, <2>1, <2>2, <2>3
<1>5. ASSUME NEW i \in gone, NEW j \in gone, s(i) < s(j)
      PROVE  Cardinality(Older(ring, gone, i)) < Cardinality(Older(ring, gone, j))
  <2>1. Older(ring, gone, i) \in SUBSET Older(ring, gone, j)
    BY <1>2, <1>5 DEF Older
  <2>2. i \in Older(ring, gone, j) /\ i \notin Older(ring, gone, i)
    BY <1>2, <1>5 DEF Older
  <2>3. IsFiniteSet(Older(ring, gone, j))
    BY <1>4
  <2>4. /\ Cardinality(Older(ring, gone, i)) <= Cardinality(Older(ring, gone, j))
        /\ Cardinality(Older(ring, gone, i)) # Cardinality(Older(ring, gone, j))
    BY <2>1, <2>2, <2>3, FS_Subset
  <2> QED
    BY <1>4, <2>4
<1>6. rank \in Injection(gone, 1 .. n)
  <2>1. rank \in [gone -> 1 .. n]
    BY <1>1, <1>4
  <2>2. ASSUME NEW i \in gone, NEW j \in gone, rank[i] = rank[j]
        PROVE  i = j
    <3>1. Cardinality(Older(ring, gone, i)) = Cardinality(Older(ring, gone, j))
      BY <1>4, <2>2
    <3>2. ~ (s(i) < s(j)) /\ ~ (s(j) < s(i))
      BY <1>4, <1>5, <3>1
    <3> QED
      BY <1>2, <1>3, <3>2
  <2> QED
    BY <2>1, <2>2 DEF Injection, IsInjective
<1>7. rank \in Surjection(gone, 1 .. n)
  <2>1. IsFiniteSet(1 .. n) /\ Cardinality(1 .. n) = n
    BY <1>1, FS_Interval
  <2> QED
    BY <1>6, <2>1, FS_Injection
<1>8. ASSUME NEW k \in 1 .. n
      PROVE  nth(k) \in gone /\ Cardinality(Older(ring, gone, nth(k))) = k - 1
  <2>1. PICK i \in gone : rank[i] = k
    BY <1>7 DEF Surjection
  <2>2. Cardinality(Older(ring, gone, i)) = k - 1
    BY <1>4, <2>1
  <2> QED
    BY <2>2
<1>9. p = [k \in 1 .. n |-> Verdict(ring[nth(k)])]
  BY DEF PurgedVerdicts, gone, Older
<1> HIDE DEF p, nth, rank, n
<1>10. p \in Seq({Verdict(ring[i]) : i \in gone}) /\ Len(p) = n /\ DOMAIN p = 1 .. n
  <2>1. p \in [1 .. n -> {Verdict(ring[i]) : i \in gone}]
    BY <1>8, <1>9
  <2> QED
    BY <1>1, <2>1
<1>11. Range(p) = {Verdict(ring[i]) : i \in gone}
  <2>1. ASSUME NEW i \in gone
        PROVE  \E k \in 1 .. n : p[k] = Verdict(ring[i])
    <3> DEFINE k == Cardinality(Older(ring, gone, i)) + 1
    <3>1. k \in 1 .. n /\ k - 1 = Cardinality(Older(ring, gone, i))
      BY <1>1, <1>4
    <3> HIDE DEF k
    <3>2. nth(k) \in gone /\ Cardinality(Older(ring, gone, nth(k))) = k - 1
      BY <1>8, <3>1
    <3>3. ~ (s(i) < s(nth(k))) /\ ~ (s(nth(k)) < s(i))
      BY <1>4, <1>5, <3>1, <3>2
    <3>4. nth(k) = i
      BY <1>2, <1>3, <3>2, <3>3
    <3> QED
      BY <1>9, <3>1, <3>4
  <2>2. \A k \in 1 .. n : p[k] \in {Verdict(ring[i]) : i \in gone}
    BY <1>8, <1>9
  <2> QED
    BY <1>10, <2>1, <2>2 DEF Range
<1>12. ASSUME NEW k \in 1 .. n, NEW l \in 1 .. n, k < l
       PROVE  p[k].session < p[l].session
  <2>1. /\ nth(k) \in gone /\ nth(l) \in gone
        /\ Cardinality(Older(ring, gone, nth(k))) < Cardinality(Older(ring, gone, nth(l)))
    BY <1>8, <1>12
  <2>2. ~ (s(nth(l)) < s(nth(k))) /\ s(nth(l)) # s(nth(k))
    <3>1. ~ (s(nth(l)) < s(nth(k)))
      BY <1>4, <1>5, <2>1
    <3>2. nth(l) # nth(k)
      BY <1>4, <2>1
    <3> QED
      BY <1>3, <2>1, <3>1, <3>2
  <2>3. p[k].session = s(nth(k)) /\ p[l].session = s(nth(l))
    BY <1>9 DEF Verdict
  <2> QED
    BY <1>2, <2>1, <2>2, <2>3
<1> QED
  BY <1>10, <1>11, <1>12 DEF gone, p

-----------------------------------------------------------------------------
VerdictType == [session : Nat, decoded : BOOLEAN]

(* The flags of a frame in the ring say the same: decoded, handed over.    *)
FlagsAgree(ring, sessions) ==
  \A i \in Slots : ring[i].occupied =>
    /\ ring[i].is_decoded = ring[i].delivered
    /\ ring[i].delivered => ring[i].session_index \in sessions

(* So they will when the frames that are recovered have been handed over.  *)
FlagsReady(ring, bc, sessions) ==
  \A i \in Slots : ring[i].occupied =>
    /\ ring[i].is_decoded = (ring[i].delivered \/ i \in Deliverable(ring, bc))
    /\ ring[i].delivered => ring[i].session_index \in sessions

InSessionOrder(seq) ==
  \A k, l \in 1 .. Len(seq) : k < l => seq[k].session < seq[l].session

Before(verdicts, seq) ==
  \A v \in verdicts : \A k \in 1 .. Len(seq) : v.session < seq[k].session

(* drain_recovered leaves nothing to hand over and the flags in agreement. *)
LEMMA EmitKeepsFlags ==
  ASSUME NEW ring, NEW bc, NEW feedback, NEW due, NEW last \in Nat, RingOK(ring, last),
         FlagsReady(ring, bc, Sessions(delivered)), EmitPending(ring, bc, feedback, due)
  PROVE  /\ FlagsAgree(frames_ring', Sessions(delivered'))
         /\ Deliverable(frames_ring', bc) = {}
<1>1. ASSUME NEW i \in Slots
      PROVE  /\ frames_ring'[i].occupied = ring[i].occupied
             /\ frames_ring'[i].session_index = ring[i].session_index
             /\ frames_ring'[i].frame_size = ring[i].frame_size
             /\ frames_ring'[i].is_decoded = ring[i].is_decoded
             /\ frames_ring'[i].delivered = (ring[i].delivered \/ i \in Deliverable(ring, bc))
  <2>1. IsFrame(ring[i])
    BY DEF RingOK
  <2>2. CASE i \in Deliverable(ring, bc)
    <3>1. frames_ring'[i] = [ring[i] EXCEPT !.delivered = TRUE]
      BY <2>2 DEF EmitPending
    <3> QED
      BY <2>1, <2>2, <3>1 DEF IsFrame, Vacant
  <2>3. CASE i \notin Deliverable(ring, bc)
    <3>1. frames_ring'[i] = ring[i]
      BY <2>3 DEF EmitPending
    <3> QED
      BY <2>1, <2>3, <3>1 DEF IsFrame
  <2> QED
    BY <2>2, <2>3
<1>2. Sessions(delivered') = Sessions(delivered) \cup Sessions(Recovered(ring, bc))
  BY DEF EmitPending, Sessions
<1>3. \A i \in Deliverable(ring, bc) : ring[i].session_index \in Sessions(Recovered(ring, bc))
  <2> SUFFICES ASSUME NEW i \in Deliverable(ring, bc)
               PROVE  ring[i].session_index \in Sessions(Recovered(ring, bc))
    OBVIOUS
  <2> DEFINE e == [session |-> ring[i].session_index,
                   frame |-> FrameIn(bc, DecoderSlot(frame_num(ring[i]))),
                   intact |-> Intact(bc, DecoderSlot(frame_num(ring[i])))]
  <2>1. e \in Recovered(ring, bc) /\ e.session = ring[i].session_index
    BY DEF Recovered
  <2> HIDE DEF e
  <2> QED
    BY <2>1 DEF Sessions
<1>4. FlagsAgree(frames_ring', Sessions(delivered'))
  BY <1>1, <1>2, <1>3 DEF FlagsAgree, FlagsReady
<1>5. ASSUME NEW i \in Slots, frames_ring'[i].occupied, is_frame_recovered(bc, frames_ring'[i])
      PROVE  frames_ring'[i].delivered
  <2>1. is_frame_recovered(bc, ring[i]) /\ ring[i].occupied
    BY <1>1, <1>5 DEF is_frame_recovered, frame_num
  <2> QED
    BY <1>1, <2>1 DEF Deliverable
<1>6. Deliverable(frames_ring', bc) = {}
  BY <1>5 DEF Deliverable
<1> QED
  BY <1>4, <1>6

(* The loss report takes the verdicts over as they are.                    *)
LEMMA EmitKeepsVerdicts ==
  ASSUME NEW ring, NEW bc, NEW feedback \in Seq(VerdictType), NEW due \in BOOLEAN,
         InSessionOrder(feedback), Before(reported, feedback),
         EmitPending(ring, bc, feedback, due)
  PROVE  /\ feedback_frames' \in Seq(VerdictType) /\ InSessionOrder(feedback_frames')
         /\ Before(reported', feedback_frames')
         /\ Verdicts' = Range(feedback) \cup reported
<1>1. CASE due
  <2>1. feedback_frames' = <<>> /\ reported' = reported \cup Range(feedback)
    BY <1>1 DEF EmitPending
  <2>2. Range(<<>>) = {}
    BY DEF Range
  <2> QED
    BY <2>1, <2>2 DEF InSessionOrder, Before, Verdicts
<1>2. CASE ~ due
  <2>1. feedback_frames' = feedback /\ reported' = reported
    BY <1>2 DEF EmitPending
  <2> QED
    BY <2>1 DEF InSessionOrder, Before, Verdicts
<1> QED
  BY <1>1, <1>2

(* pending_feedback extended by the frames just purged holds the elements  *)
(* of both.                                                                *)
LEMMA RangeOfBoth ==
  ASSUME NEW S, NEW a \in Seq(S), NEW b \in Seq(S)
  PROVE  Range(a \o b) = Range(a) \cup Range(b)
<1>1. /\ Len(a) \in Nat /\ Len(b) \in Nat
      /\ DOMAIN a = 1 .. Len(a) /\ DOMAIN b = 1 .. Len(b)
      /\ DOMAIN (a \o b) = 1 .. Len(a) + Len(b)
      /\ \A k \in 1 .. Len(a) + Len(b) :
           (a \o b)[k] = IF k <= Len(a) THEN a[k] ELSE b[k - Len(a)]
  OBVIOUS
<1>2. \A k \in 1 .. Len(a) : k \in 1 .. Len(a) + Len(b) /\ (a \o b)[k] = a[k]
  BY <1>1
<1>3. \A k \in 1 .. Len(b) : k + Len(a) \in 1 .. Len(a) + Len(b) /\ (a \o b)[k + Len(a)] = b[k]
  BY <1>1
<1>4. \A k \in 1 .. Len(a) + Len(b) : k \in 1 .. Len(a) \/ k - Len(a) \in 1 .. Len(b)
  BY <1>1
<1>5. ASSUME NEW x \in Range(a \o b)
      PROVE  x \in Range(a) \cup Range(b)
  <2>1. PICK k \in 1 .. Len(a) + Len(b) : x = (a \o b)[k]
    BY <1>1 DEF Range
  <2> QED
    BY <1>1, <1>4, <2>1 DEF Range
<1>6. ASSUME NEW x \in Range(a) \cup Range(b)
      PROVE  x \in Range(a \o b)
  <2>1. CASE x \in Range(a)
    <3>1. PICK k \in 1 .. Len(a) : x = a[k]
      BY <1>1, <2>1 DEF Range
    <3> QED
      BY <1>1, <1>2, <3>1 DEF Range
  <2>2. CASE x \in Range(b)
    <3>1. PICK k \in 1 .. Len(b) : x = b[k]
      BY <1>1, <2>2 DEF Range
    <3> QED
      BY <1>1, <1>3, <3>1 DEF Range
  <2> QED
    BY <1>6, <2>1, <2>2
<1> QED
  BY <1>5, <1>6

-----------------------------------------------------------------------------
(* purge_expired, fill_missing_frames and frame_mut open frames with both  *)
(* flags down.                                                             *)
LEMMA OpenedKeepsFlags ==
  ASSUME TrackingOK, NEW session \in Nat, NEW S, FlagsAgree(frames_ring, S)
  PROVE  FlagsAgree(Opened(session), S)
<1> SUFFICES ASSUME NEW i \in Slots, Opened(session)[i].occupied
             PROVE  /\ Opened(session)[i].is_decoded = Opened(session)[i].delivered
                    /\ Opened(session)[i].delivered => Opened(session)[i].session_index \in S
  BY DEF FlagsAgree
<1>1. \A s, b : /\ reset_for(s, b).is_decoded = FALSE
                /\ reset_for(s, b).delivered = FALSE
  BY DEF reset_for, Vacant
<1>2. CASE Opened(session)[i] = Vacant
  BY <1>2, VacantIsFrame
<1>3. CASE Opened(session)[i] = frames_ring[i]
  BY <1>3 DEF FlagsAgree
<1>4. CASE \E s, b : Opened(session)[i] = reset_for(s, b)
  BY <1>1, <1>4
<1> QED
  BY <1>2, <1>3, <1>4, OpenedCases

(* The sizes and the packet leave the flags alone.                         *)
LEMMA AddedKeepsFlags ==
  ASSUME NEW d, NEW session \in Nat, NEW sizes, NEW last, RingOK(Opened(session), last),
         NEW S, FlagsAgree(Opened(session), S)
  PROVE  FlagsAgree(Added(d, session, sizes), S)
<1> DEFINE opened == Opened(session)
           sized == UpdateSizes(opened, sizes)
           added == Added(d, session, sizes)
           Same(f, g) == /\ g.occupied = f.occupied /\ g.session_index = f.session_index
                         /\ g.delivered = f.delivered /\ g.is_decoded = f.is_decoded
<1>1. added = [sized EXCEPT ![slot_index(session)] = add_pkt(@, d)] /\ DOMAIN sized = Slots
  BY DEF Added, UpdateSizes
<1>2. ASSUME NEW i \in Slots
      PROVE  IsFrame(sized[i]) /\ Same(opened[i], sized[i])
  <2> DEFINE size == (CHOOSE h \in sizes : h.session = opened[i].session_index).size
  <2>1. IsFrame(opened[i])
    BY DEF RingOK
  <2>2. sized[i] = opened[i] \/ sized[i] = [opened[i] EXCEPT !.frame_size = size]
    BY DEF UpdateSizes
  <2> HIDE DEF size, sized, opened
  <2> QED
    BY <2>1, <2>2 DEF IsFrame, Vacant
<1>3. \A f : IsFrame(f) => Same(f, add_pkt(f, d))
  BY DEF IsFrame, Vacant, add_pkt
<1>4. FlagsAgree(opened, S)
  OBVIOUS
<1> HIDE DEF sized, opened, added, Same
<1>5. ASSUME NEW i \in Slots
      PROVE  added[i] = sized[i] \/ added[i] = add_pkt(sized[i], d)
  BY <1>1
<1>6. FlagsAgree(added, S)
  BY <1>2, <1>3, <1>4, <1>5 DEF FlagsAgree, Same
<1> QED
  BY <1>6 DEF added

(* MarkDecoded raises the one flag for the frames that drain_recovered     *)
(* raises the other for.                                                   *)
LEMMA MarkedIsReady ==
  ASSUME NEW ring, NEW last, RingOK(ring, last), NEW S, FlagsAgree(ring, S), NEW bc
  PROVE  FlagsReady(MarkDecoded(ring, bc), bc, S)
<1> DEFINE marked == MarkDecoded(ring, bc)
<1>1. ASSUME NEW i \in Slots
      PROVE  /\ marked[i].occupied = ring[i].occupied
             /\ marked[i].session_index = ring[i].session_index
             /\ marked[i].frame_size = ring[i].frame_size
             /\ marked[i].delivered = ring[i].delivered
             /\ marked[i].is_decoded = IF ring[i].occupied /\ is_frame_recovered(bc, ring[i])
                                       THEN TRUE ELSE ring[i].is_decoded
  <2>1. IsFrame(ring[i])
    BY DEF RingOK
  <2>2. marked[i] = IF ring[i].occupied /\ is_frame_recovered(bc, ring[i])
                    THEN [ring[i] EXCEPT !.is_decoded = TRUE] ELSE ring[i]
    BY DEF MarkDecoded
  <2> HIDE DEF marked
  <2> QED
    BY <2>1, <2>2 DEF IsFrame, Vacant
<1> HIDE DEF marked
<1>2. ASSUME NEW i \in Slots, marked[i].occupied
      PROVE  /\ marked[i].is_decoded = (marked[i].delivered \/ i \in Deliverable(marked, bc))
             /\ marked[i].delivered => marked[i].session_index \in S
  <2>1. ring[i].occupied /\ ring[i].is_decoded = ring[i].delivered
        /\ (ring[i].delivered => ring[i].session_index \in S)
    BY <1>1, <1>2 DEF FlagsAgree
  <2>2. is_frame_recovered(bc, marked[i]) <=> is_frame_recovered(bc, ring[i])
    BY <1>1 DEF is_frame_recovered, frame_num
  <2>3. i \in Deliverable(marked, bc) <=> ~ marked[i].delivered /\ is_frame_recovered(bc, ring[i])
    BY <1>2, <2>2 DEF Deliverable
  <2>4. ring[i].delivered \in BOOLEAN
    BY DEF RingOK, IsFrame
  <2> QED
    BY <1>1, <2>1, <2>3, <2>4
<1>3. FlagsReady(marked, bc, S)
  BY <1>2 DEF FlagsReady
<1> QED
  BY <1>3 DEF marked

(* What is_decoded says when a frame is purged is what the application     *)
(* saw.                                                                    *)
LEMMA VerdictIsTrue ==
  ASSUME CompleteInLap, FlagsAgree(frames_ring, Sessions(delivered)),
         NEW i \in Slots, frames_ring[i].occupied
  PROVE  LET v == Verdict(frames_ring[i])
         IN  /\ v \in VerdictType /\ v.session = frames_ring[i].session_index
             /\ v.decoded <=> v.session \in Sessions(delivered)
<1> DEFINE f == frames_ring[i]
           s == f.session_index
           size == SizeOf(s)
<1>1. /\ TrackingOK /\ SizesKnown(frames_ring) /\ HoldsArrived(frames_ring, code)
      /\ DeliveriesOK(frames_ring, last_session_index, Sessions(delivered))
      /\ CompleteIsDelivered
  BY DEF CompleteInLap, InLap, Remembering
<1>2. /\ s \in Nat /\ slot_index(s) = i /\ InWindow(s, last_session_index)
      /\ f.delivered \in BOOLEAN /\ last_session_index \in Nat
  BY <1>1 DEF TrackingOK, RingOK, IsFrame
<1>3. f.is_decoded = f.delivered /\ (f.delivered => s \in Sessions(delivered))
  BY DEF FlagsAgree
<1>4. ASSUME s \in Sessions(delivered) PROVE f.delivered
  <2>1. Remembered(s, frames_ring, last_session_index)
    BY <1>1, <1>4 DEF DeliveriesOK
  <2>2. ~ (s + NumFrames <= last_session_index)
    BY <1>2, NumFramesPositive DEF InWindow
  <2> QED
    BY <1>2, <2>1, <2>2 DEF Remembered
<1>5. ASSUME all_data_received(f) PROVE f.delivered
  <2>1. /\ f.frame_size \in {NoSize, size} /\ f.frame_size \in Nat
        /\ f.data # {} => size \in 1 .. MAX_DATA
        /\ \A p \in f.data : p \in 0 .. size - 1
    BY <1>1 DEF HoldsArrived, SizesKnown
  <2>2. /\ f.frame_size = size /\ size # 0 /\ size \in Nat /\ Cardinality(f.data) >= size
    BY <1>5, <2>1 DEF all_data_received, NoSize
  <2> HIDE DEF f, size
  <2>3. f.data \in SUBSET (0 .. size - 1)
    BY <2>1
  <2>4. IsFiniteSet(0 .. size - 1) /\ Cardinality(0 .. size - 1) = size
    BY <2>2, FS_Interval
  <2>5. IsFiniteSet(f.data) /\ Cardinality(f.data) <= size
    BY <2>3, <2>4, FS_Subset
  <2>6. Cardinality(f.data) = size
    BY <2>2, <2>5, FS_CardinalityType
  <2>7. f.data # {}
    BY <2>2, <2>6, FS_EmptySet
  <2> QED
    BY <1>1, <2>6, <2>7 DEF CompleteIsDelivered, f, size
<1>6. Verdict(f) = [session |-> s, decoded |-> f.is_decoded \/ all_data_received(f)]
  BY DEF Verdict
<1> HIDE DEF f, s
<1>7. (f.is_decoded \/ all_data_received(f)) = f.delivered
  BY <1>2, <1>3, <1>5
<1>8. Verdict(f) \in VerdictType /\ Verdict(f).session = s /\ Verdict(f).decoded = f.delivered
  BY <1>2, <1>6, <1>7 DEF VerdictType
<1> QED
  BY <1>2, <1>3, <1>4, <1>8 DEF f, s

-----------------------------------------------------------------------------
(***************************************************************************)
(* The inductive invariant of the verdicts.  A verdict is true for good    *)
(* because its frame has left the window, where nothing is handed over,    *)
(* and because a frame's two flags agree when it goes; the verdicts are in *)
(* order because the window only moves up; and a frame handed over that    *)
(* has left the window got one.                                            *)
(***************************************************************************)
Closing(verdicts, last, sessions) ==
  /\ \A v \in verdicts : /\ v \in VerdictType /\ v.session + NumFrames <= last
                         /\ v.decoded <=> v.session \in sessions
  /\ \A s \in sessions : s + NumFrames <= last => \E v \in verdicts : v.session = s

VerdictsInLap ==
  /\ CompleteInLap
  /\ FlagsAgree(frames_ring, Sessions(delivered))
  /\ Deliverable(frames_ring, code) = {}
  /\ feedback_frames \in Seq(VerdictType) /\ InSessionOrder(feedback_frames)
  /\ Before(reported, feedback_frames)
  /\ Closing(Verdicts, last_session_index, Sessions(delivered))

(* Nothing is decided.                                                     *)
LEMMA InitVerdicts ==
  ASSUME FirstLap, Init
  PROVE  VerdictsInLap
<1>1. CompleteInLap
  BY InitComplete
<1>2. \A i \in Slots : ~ frames_ring[i].occupied
  BY VacantIsFrame DEF Init
<1>3. /\ feedback_frames = <<>> /\ reported = {} /\ delivered = {}
      /\ Range(<<>>) = {}
  BY DEF Init, Range
<1>4. Verdicts = {} /\ Sessions(delivered) = {}
  BY <1>3 DEF Verdicts, Sessions
<1> QED
  BY <1>1, <1>2, <1>3, <1>4
  DEF VerdictsInLap, FlagsAgree, Deliverable, InSessionOrder, Before, Closing

(* What leaves the ring for good, when the window moves.                   *)
LEMMA ExpiredLeaves ==
  ASSUME TrackingOK, NEW session \in Nat, NEW i \in Expired(frames_ring, session)
  PROVE  LET s == frames_ring[i].session_index
         IN  /\ i \in Slots /\ frames_ring[i].occupied /\ s \in Nat /\ received_first
             /\ slot_index(s) = i
             /\ s <= last_session_index /\ last_session_index < s + NumFrames
             /\ s + NumFrames <= LastAfter(session)
<1> DEFINE s == frames_ring[i].session_index
<1>1. i \in Slots /\ frames_ring[i].occupied /\ frame_expired(session, s)
  BY DEF Expired
<1>2. /\ s \in Nat /\ slot_index(s) = i /\ InWindow(s, last_session_index)
      /\ received_first /\ last_session_index \in Nat
  BY <1>1 DEF TrackingOK, RingOK, IsFrame
<1> HIDE DEF s
<1>3. session - s >= NumFrames
  BY <1>1, <1>2, NumFramesPositive DEF frame_expired, frame_expired_session, saturating_sub
<1> QED
  BY <1>1, <1>2, <1>3, NumFramesPositive DEF InWindow, LastAfter, s

(* A call that only emits changes nothing that is decided.                 *)
LEMMA EmitVerdicts ==
  ASSUME VerdictsInLap, CompleteInLap', NEW due \in BOOLEAN,
         EmitPending(frames_ring, code, feedback_frames, due),
         UNCHANGED <<encoder_vars, received_first, last_session_index, code_vars>>
  PROVE  /\ VerdictsInLap'
         /\ Verdicts' = Verdicts /\ Sessions(delivered') = Sessions(delivered)
<1>1. /\ RingOK(frames_ring, last_session_index) /\ last_session_index \in Nat
      /\ FlagsAgree(frames_ring, Sessions(delivered)) /\ Deliverable(frames_ring, code) = {}
  BY DEF VerdictsInLap, CompleteInLap, InLap, Remembering, TrackingOK
<1>2. FlagsReady(frames_ring, code, Sessions(delivered))
  <2>1. \A i \in Slots : frames_ring[i].delivered \in BOOLEAN
    BY <1>1 DEF RingOK, IsFrame
  <2> QED
    BY <1>1, <2>1 DEF FlagsReady, FlagsAgree
<1>3. /\ FlagsAgree(frames_ring', Sessions(delivered'))
      /\ Deliverable(frames_ring', code) = {}
  BY <1>1, <1>2, EmitKeepsFlags
<1>4. /\ feedback_frames' \in Seq(VerdictType) /\ InSessionOrder(feedback_frames')
      /\ Before(reported', feedback_frames') /\ Verdicts' = Verdicts
  BY EmitKeepsVerdicts DEF VerdictsInLap, Verdicts
<1>5. Sessions(delivered') = Sessions(delivered)
  BY <1>1 DEF EmitPending, Recovered, Sessions
<1>6. code' = code /\ last_session_index' = last_session_index
  BY DEF code_vars
<1>7. Closing(Verdicts', last_session_index', Sessions(delivered'))
  BY <1>4, <1>5, <1>6 DEF VerdictsInLap
<1> QED
  BY <1>3, <1>4, <1>5, <1>6, <1>7 DEF VerdictsInLap

(* ingest_datagram of a datagram that is not refused: the frames that left *)
(* the window get their verdicts, others are handed over.                  *)
LEMMA AcceptVerdicts ==
  ASSUME FirstLap, VerdictsInLap, CompleteInLap', NEW d \in InFlight, NEW due \in BOOLEAN,
         Accept(d, d.frame, due)
  PROVE  VerdictsInLap' /\ Delivery!Advance
<1> DEFINE session == d.frame
           last == LastAfter(session)
           opened == Opened(session)
           header == ReceiveHeader(header_code, d, session)
           ring == Added(d, session, header.sizes)
           bc == DecodeFrames(AddPacket(code, d), ring)
           marked == MarkDecoded(ring, bc)
           purged == PurgedVerdicts(frames_ring, session)
           gone == Expired(frames_ring, session)
           feedback == feedback_frames \o purged
           closed == {Verdict(frames_ring[i]) : i \in gone}
           before == Sessions(delivered)
           now == Sessions(Recovered(marked, bc))
<1>1. /\ ~ OutOfWindow(session)
      /\ received_first' = TRUE /\ last_session_index' = last /\ code' = bc
      /\ EmitPending(marked, bc, feedback, due)
      /\ next_session_index' = next_session_index
  BY DEF Accept, LastAfter, encoder_vars
<1>2. /\ SentInLap /\ TrackingOK /\ SizesKnown(frames_ring)
      /\ last_session \in Nat \cup {NoSession}
      /\ received_first => Occupied(frames_ring, last_session_index)
      /\ RingOK(frames_ring, last_session_index) /\ last_session_index \in Nat
      /\ DeliveriesOK(frames_ring, last_session_index, before)
      /\ CompleteInLap /\ FlagsAgree(frames_ring, before)
      /\ Closing(Verdicts, last_session_index, before)
  BY DEF VerdictsInLap, CompleteInLap, InLap, Remembering, InputOK, TrackingOK
<1>3. d \in sent /\ session \in Nat
  BY <1>2 DEF InFlight, SentInLap
<1>4. last \in Nat /\ last_session_index <= last /\ last < next_session_index
      /\ next_session_index \in Nat
  <2>1. last \in Nat /\ last_session_index <= last
    BY <1>2, <1>3 DEF LastAfter
  <2>2. last_session_index' < next_session_index' /\ next_session_index \in Nat
    BY <1>1, <1>2 DEF CompleteInLap, InLap, SentInLap
  <2> QED
    BY <1>1, <2>1, <2>2
<1>5. /\ RingOK(opened, last) /\ SizesKnown(opened) /\ Occupied(opened, last)
      /\ FlagsAgree(opened, before)
  BY <1>1, <1>2, <1>3, OpenedKeepsRing, OpenedSizes, OpenedHoldsNewest, OpenedKeepsFlags
<1>6. \A h \in header.sizes : h.size \in Nat
  BY <1>2, <1>3, HeaderSizes
<1> HIDE DEF last, opened, header
<1>7. RingOK(ring, last) /\ FlagsAgree(ring, before)
  BY <1>3, <1>4, <1>5, <1>6, AddedKeeps, AddedKeepsFlags DEF opened
<1>8. SizesKnown(ring) /\ Occupied(ring, last)
  BY <1>3, <1>4, <1>5, <1>6, AddedKeeps DEF opened
<1> HIDE DEF ring, bc
<1>9. RingOK(marked, last) /\ FlagsReady(marked, bc, before)
  BY <1>4, <1>7, <1>8, MarkDecodedKeeps, MarkedIsReady
<1> HIDE DEF marked, before, now, purged, gone, closed
<1>10. FlagsAgree(frames_ring', Sessions(delivered')) /\ Deliverable(frames_ring', bc) = {}
  BY <1>1, <1>4, <1>9, EmitKeepsFlags DEF before
<1>11. Sessions(delivered') = before \cup now
  BY <1>1 DEF EmitPending, Sessions, before, now
(* Handed over now: frames of the new window.                              *)
<1>12. \A s \in now : s \in Nat /\ s <= last /\ last < s + NumFrames
  <2> SUFFICES ASSUME NEW s \in now PROVE s \in Nat /\ s <= last /\ last < s + NumFrames
    OBVIOUS
  <2>1. PICK i \in Deliverable(marked, bc) : s = marked[i].session_index
    BY DEF now, Sessions, Recovered
  <2>2. i \in Slots /\ marked[i].occupied
    BY <2>1 DEF Deliverable
  <2> QED
    BY <1>4, <1>9, <2>1, <2>2, NumFramesPositive DEF RingOK, IsFrame, InWindow
(* Closed now: frames of the old window that are not in the new one.       *)
<1>13. ASSUME NEW i \in gone
       PROVE  LET v == Verdict(frames_ring[i])
              IN  /\ v \in VerdictType
                  /\ v.decoded <=> v.session \in before
                  /\ slot_index(v.session) = i /\ received_first
                  /\ v.session <= last_session_index
                  /\ last_session_index < v.session + NumFrames
                  /\ v.session + NumFrames <= last
  <2>1. /\ i \in Slots /\ frames_ring[i].occupied /\ received_first
        /\ slot_index(frames_ring[i].session_index) = i
        /\ frames_ring[i].session_index <= last_session_index
        /\ last_session_index < frames_ring[i].session_index + NumFrames
        /\ frames_ring[i].session_index + NumFrames <= last
    BY <1>2, <1>3, ExpiredLeaves DEF gone, last
  <2> QED
    BY <1>2, <2>1, VerdictIsTrue DEF before
<1>14. \A v \in closed : /\ v \in VerdictType
                         /\ v.decoded <=> v.session \in before
                         /\ v.session <= last_session_index /\ received_first
                         /\ last_session_index < v.session + NumFrames
                         /\ v.session + NumFrames <= last
  BY <1>13 DEF closed
<1>15. \A v, w \in closed : v.session = w.session => v = w
  BY <1>13 DEF closed
<1>16. /\ purged \in Seq(closed) /\ Range(purged) = closed /\ InSessionOrder(purged)
  BY <1>2, PurgedInOrder DEF purged, closed, gone, InSessionOrder
<1>17. /\ feedback_frames \in Seq(VerdictType) /\ InSessionOrder(feedback_frames)
       /\ Before(reported, feedback_frames)
       /\ Verdicts = Range(feedback_frames) \cup reported
  BY DEF VerdictsInLap, Verdicts
<1>18. purged \in Seq(VerdictType)
  <2>1. closed \subseteq VerdictType
    BY <1>14
  <2> QED
    BY <1>16, <2>1
<1>19. \A v \in Verdicts : v.session \in Nat /\ v.session + NumFrames <= last_session_index
  BY <1>2 DEF Closing, VerdictType
<1>20. \A v \in Verdicts, w \in closed : v.session < w.session
  BY <1>2, <1>14, <1>19, NumFramesPositive DEF VerdictType
<1> HIDE DEF feedback
<1>21. feedback \in Seq(VerdictType) /\ Range(feedback) = Range(feedback_frames) \cup closed
  BY <1>16, <1>17, <1>18, RangeOfBoth DEF feedback
<1>22. InSessionOrder(feedback) /\ Before(reported, feedback)
  <2> DEFINE m == Len(feedback_frames)
             n == Len(purged)
  <2>1. /\ m \in Nat /\ n \in Nat /\ Len(feedback) = m + n
        /\ \A k \in 1 .. m + n :
             feedback[k] = IF k <= m THEN feedback_frames[k] ELSE purged[k - m]
    BY <1>17, <1>18 DEF feedback
  <2>2. \A k \in 1 .. m : feedback_frames[k] \in Verdicts
    BY <1>17 DEF Range
  <2>3. \A k \in 1 .. n : purged[k] \in closed
    BY <1>16, ElementOfSeq
  <2>4. \A v \in reported : v \in Verdicts
    BY <1>17
  <2> HIDE DEF m, n
  <2>5. ASSUME NEW k \in 1 .. m + n, NEW l \in 1 .. m + n, k < l
        PROVE  feedback[k].session < feedback[l].session
    <3>1. CASE l <= m
      <4>1. k \in 1 .. m /\ l \in 1 .. m
        BY <2>1, <2>5, <3>1
      <4>2. feedback_frames[k].session < feedback_frames[l].session
        BY <1>17, <2>5, <4>1 DEF InSessionOrder, m
      <4> QED
        BY <2>1, <4>1, <4>2
    <3>2. CASE k <= m /\ ~ (l <= m)
      <4>1. k \in 1 .. m /\ l - m \in 1 .. n
        BY <2>1, <2>5, <3>2
      <4> QED
        BY <1>20, <2>1, <2>2, <2>3, <3>2, <4>1
    <3>3. CASE ~ (k <= m)
      <4>1. k - m \in 1 .. n /\ l - m \in 1 .. n /\ k - m < l - m /\ ~ (l <= m)
        BY <2>1, <2>5, <3>3
      <4>2. purged[k - m].session < purged[l - m].session
        BY <1>16, <4>1 DEF InSessionOrder, n
      <4> QED
        BY <2>1, <3>3, <4>1, <4>2
    <3> QED
      BY <2>1, <2>5, <3>1, <3>2, <3>3
  <2>6. ASSUME NEW v \in reported, NEW k \in 1 .. m + n
        PROVE  v.session < feedback[k].session
    <3>1. CASE k <= m
      <4>1. k \in 1 .. m
        BY <2>1, <3>1
      <4> QED
        BY <1>17, <2>1, <4>1, <3>1 DEF Before, m
    <3>2. CASE ~ (k <= m)
      <4>1. k - m \in 1 .. n
        BY <2>1, <3>2
      <4> QED
        BY <1>20, <2>1, <2>3, <2>4, <3>2, <4>1
    <3> QED
      BY <2>1, <3>1, <3>2
  <2> QED
    BY <2>1, <2>5, <2>6 DEF InSessionOrder, Before
<1>23. /\ feedback_frames' \in Seq(VerdictType) /\ InSessionOrder(feedback_frames')
       /\ Before(reported', feedback_frames') /\ Verdicts' = Verdicts \cup closed
  <2>1. /\ feedback_frames' \in Seq(VerdictType) /\ InSessionOrder(feedback_frames')
        /\ Before(reported', feedback_frames')
        /\ Verdicts' = Range(feedback) \cup reported
    BY <1>1, <1>21, <1>22, EmitKeepsVerdicts
  <2> QED
    BY <1>17, <1>21, <2>1
<1>24. ASSUME NEW v \in Verdicts \cup closed
       PROVE  /\ v \in VerdictType /\ v.session + NumFrames <= last
              /\ v.decoded <=> v.session \in before \cup now
  <2>1. v \in VerdictType /\ (v.decoded <=> v.session \in before)
    BY <1>2, <1>14 DEF Closing
  <2>2. v.session \in Nat /\ v.session + NumFrames <= last
    BY <1>2, <1>4, <1>14, <1>19, <2>1, NumFramesPositive DEF VerdictType
  <2>3. v.session \notin now
    BY <1>4, <1>12, <2>2, NumFramesPositive
  <2> QED
    BY <2>1, <2>2, <2>3
<1>25. ASSUME NEW s \in before \cup now, s + NumFrames <= last
       PROVE  \E v \in Verdicts \cup closed : v.session = s
  <2>1. s \in before
    BY <1>4, <1>12, <1>25, NumFramesPositive
  <2>2. s \in Nat /\ Remembered(s, frames_ring, last_session_index)
    BY <1>2, <2>1 DEF DeliveriesOK
  <2>3. CASE s + NumFrames <= last_session_index
    BY <1>2, <2>1, <2>3 DEF Closing
  <2>4. CASE ~ (s + NumFrames <= last_session_index)
    <3> DEFINE i == slot_index(s)
    <3>1. i \in Slots /\ frames_ring[i].occupied /\ frames_ring[i].session_index = s
      BY <2>2, <2>4, SlotIsSlot DEF Remembered, Occupied
    <3>2. last = session /\ session - s >= NumFrames
      BY <1>2, <1>3, <1>25, <2>2, <2>4, NumFramesPositive DEF last, LastAfter
    <3>3. frame_expired(session, s)
      BY <1>3, <2>2, <3>2, NumFramesPositive
      DEF frame_expired, frame_expired_session, saturating_sub
    <3>4. i \in gone
      BY <3>1, <3>3 DEF gone, Expired
    <3>5. Verdict(frames_ring[i]) \in closed /\ Verdict(frames_ring[i]).session = s
      BY <3>1, <3>4 DEF closed, Verdict
    <3> QED
      BY <3>5
  <2> QED
    BY <2>3, <2>4
<1>26. Closing(Verdicts', last_session_index', Sessions(delivered'))
  <2>1. Closing(Verdicts \cup closed, last, before \cup now)
    BY <1>24, <1>25 DEF Closing
  <2> QED
    BY <1>1, <1>11, <1>23, <2>1
<1>27. VerdictsInLap'
  BY <1>1, <1>10, <1>23, <1>26 DEF VerdictsInLap
<1>28. ASSUME NEW x \in Verdicts' \ Verdicts
       PROVE  /\ x.session \in 0 .. next_session_index - 1
              /\ x.decoded <=> x.session \in before
              /\ \A y \in Verdicts : y.session < x.session
              /\ \A y \in Verdicts' : y.session = x.session => y = x
  <2>1. x \in closed
    BY <1>23, <1>28
  <2>2. x \in VerdictType /\ (x.decoded <=> x.session \in before) /\ x.session <= last_session_index
    BY <1>14, <2>1
  <2>3. x.session \in 0 .. next_session_index - 1
    BY <1>2, <1>4, <2>2 DEF VerdictType
  <2>4. \A y \in Verdicts : y.session \in Nat /\ y.session < x.session
    BY <1>19, <1>20, <2>1
  <2>5. \A y \in Verdicts' : y.session = x.session => y = x
    <3> SUFFICES ASSUME NEW y \in Verdicts', y.session = x.session PROVE y = x
      OBVIOUS
    <3>1. y \notin Verdicts
      BY <2>2, <2>4 DEF VerdictType
    <3> QED
      BY <1>15, <1>23, <2>1, <3>1
  <2> QED
    BY <2>2, <2>3, <2>4, <2>5
<1>29. ASSUME NEW s \in Sessions(delivered') \ before
       PROVE  s \in (0 .. next_session_index - 1) \ {x.session : x \in Verdicts'}
  <2>1. s \in now /\ s \in Nat /\ s <= last /\ last < s + NumFrames
    BY <1>11, <1>12, <1>29
  <2>2. \A x \in Verdicts' : x.session # s
    BY <1>4, <1>23, <1>24, <2>1, NumFramesPositive DEF VerdictType
  <2> QED
    BY <1>4, <2>1, <2>2
<1>30. Delivery!Advance
  BY <1>1, <1>11, <1>23, <1>28, <1>29 DEF Delivery!Advance, Delivery!Closed, before
<1> QED
  BY <1>27, <1>30

(* Every step of the sender, the channel and the receiver keeps the        *)
(* verdicts, and is a step of FrameDelivery.                               *)
LEMMA NextVerdicts ==
  ASSUME FirstLap, VerdictsInLap, [Next]_vars
  PROVE  VerdictsInLap' /\ [Delivery!Next]_(Delivery!vars)
<1>1. CompleteInLap'
  BY NextComplete DEF VerdictsInLap
<1>2. ASSUME NEW due \in BOOLEAN, EmitPending(frames_ring, code, feedback_frames, due),
             UNCHANGED <<encoder_vars, received_first, last_session_index, code_vars>>
      PROVE  VerdictsInLap' /\ UNCHANGED Delivery!vars
  <2>1. /\ VerdictsInLap'
        /\ Verdicts' = Verdicts /\ Sessions(delivered') = Sessions(delivered)
    BY <1>1, <1>2, EmitVerdicts
  <2>2. Sessions(delivered)' = Sessions(delivered)
    BY <2>1 DEF Sessions
  <2> QED
    BY <1>2, <2>1, <2>2 DEF Delivery!vars, encoder_vars
<1>3. CASE \E shape \in Shapes : Encode(shape)
  <2>1. PICK shape \in Shapes : Encode(shape)
    BY <1>3
  <2>2. UNCHANGED <<last_session_index, frames_ring, code, feedback_frames, delivered, reported>>
    BY <2>1 DEF Encode, tracking_vars, code_vars, history_vars
  <2>3. next_session_index' = next_session_index + 1
    BY <2>1 DEF Encode
  <2>4. Verdicts' = Verdicts /\ Sessions(delivered)' = Sessions(delivered)
    BY <2>2 DEF Verdicts, Sessions
  <2>5. VerdictsInLap'
    BY <1>1, <2>2 DEF VerdictsInLap, Closing, FlagsAgree, Deliverable, Verdicts, Sessions
  <2> QED
    BY <2>3, <2>4, <2>5 DEF Delivery!Next, Delivery!Offer
<1>4. CASE \E d \in InFlight, due \in BOOLEAN : Receive(d, due)
  <2>1. PICK d \in InFlight, due \in BOOLEAN : Receive(d, due)
    BY <1>4
  <2>2. resolve_wire(last_session, d.wire) = d.frame
    BY ResolvesItself DEF VerdictsInLap, CompleteInLap, InLap, Remembering, InputOK
  <2>3. CASE Duplicate(d, due)
    BY <1>2, <2>3 DEF Duplicate, tracking_vars
  <2>4. CASE Refuse(d, d.frame, due)
    BY <1>2, <2>4 DEF Refuse
  <2>5. CASE Accept(d, d.frame, due)
    BY <1>1, <2>5, AcceptVerdicts DEF Delivery!Next
  <2> QED
    BY <2>1, <2>2, <2>3, <2>4, <2>5 DEF Receive
<1>5. CASE \E due \in BOOLEAN : Poll(due)
  BY <1>2, <1>5 DEF Poll, tracking_vars
<1>6. CASE UNCHANGED vars
  <2>1. UNCHANGED <<next_session_index, last_session_index, frames_ring, code, feedback_frames,
                    delivered, reported>>
    BY <1>6 DEF vars, encoder_vars, tracking_vars, code_vars, history_vars
  <2>2. Verdicts' = Verdicts /\ Sessions(delivered)' = Sessions(delivered)
    BY <2>1 DEF Verdicts, Sessions
  <2>3. VerdictsInLap'
    BY <1>1, <2>1 DEF VerdictsInLap, Closing, FlagsAgree, Deliverable, Verdicts, Sessions
  <2> QED
    BY <2>1, <2>2, <2>3 DEF Delivery!vars
<1> QED
  BY <1>3, <1>4, <1>5, <1>6 DEF Next

(***************************************************************************)
(* THEOREM.  purge_expired and take_into_feedback decide the frames in the *)
(* order of their sessions, each at most once and only when the frame has  *)
(* left the ring; is_decoded, which LossInfo is computed from, says of     *)
(* each what the application saw, then and for good; and every frame       *)
(* handed over is still in the ring or has had its verdict.  Late and      *)
(* repeated datagrams, poll_feedback before or after drain_recovered, and  *)
(* jumps of the window change none of it.                                  *)
(***************************************************************************)
THEOREM VerdictsAreFinalInFirstLap ==
  ASSUME FirstLap
  PROVE  Spec => []VerdictsAreFinal
<1>1. Init => VerdictsInLap
  BY InitVerdicts
<1>2. VerdictsInLap /\ [Next]_vars => VerdictsInLap'
  BY NextVerdicts
<1>3. VerdictsInLap => VerdictsAreFinal
  <2> SUFFICES ASSUME VerdictsInLap PROVE VerdictsAreFinal
    OBVIOUS
  <2>1. /\ feedback_frames \in Seq(VerdictType) /\ InSessionOrder(feedback_frames)
        /\ Before(reported, feedback_frames)
        /\ Closing(Verdicts, last_session_index, Sessions(delivered))
        /\ RingOK(frames_ring, last_session_index) /\ last_session_index \in Nat
        /\ DeliveriesOK(frames_ring, last_session_index, Sessions(delivered))
    BY DEF VerdictsInLap, CompleteInLap, InLap, Remembering, TrackingOK
  <2>2. DOMAIN feedback_frames = 1 .. Len(feedback_frames)
    BY <2>1
  <2>3. \A i, j \in DOMAIN feedback_frames :
          i < j => feedback_frames[i].session < feedback_frames[j].session
    BY <2>1, <2>2 DEF InSessionOrder
  <2>4. \A v \in reported, w \in Range(feedback_frames) : v.session < w.session
    BY <2>1, <2>2 DEF Before, Range
  <2>5. ASSUME NEW v \in Verdicts
        PROVE  ~ InRing(v.session) /\ (v.decoded <=> v.session \in Sessions(delivered))
    <3>1. /\ v.session \in Nat /\ v.session + NumFrames <= last_session_index
          /\ v.decoded <=> v.session \in Sessions(delivered)
      BY <2>1 DEF Closing, VerdictType
    <3>2. ~ InWindow(v.session, last_session_index)
      BY <2>1, <3>1, NumFramesPositive DEF InWindow
    <3>3. slot_index(v.session) \in Slots
      BY <3>1, SlotIsSlot
    <3> QED
      BY <2>1, <3>1, <3>2, <3>3 DEF InRing, Occupied, RingOK
  <2>6. ASSUME NEW s \in Sessions(delivered)
        PROVE  InRing(s) \/ \E v \in Verdicts : v.session = s
    BY <2>1 DEF DeliveriesOK, Remembered, Closing, InRing
  <2> QED
    BY <2>3, <2>4, <2>5, <2>6 DEF VerdictsAreFinal
<1> QED
  BY <1>1, <1>2, <1>3, PTL DEF Spec

(***************************************************************************)
(* THEOREM.  The receiver session and its channel implement FrameDelivery: *)
(* each ingest_datagram, drain_recovered and poll_feedback hands over      *)
(* frames that were sent and are not decided, each once, decides frames in *)
(* the order of their sessions by what was handed over, or does neither.   *)
(***************************************************************************)
THEOREM ImplementsDeliveryInFirstLap ==
  ASSUME FirstLap
  PROVE  Spec => ImplementsDelivery
<1>1. Init => VerdictsInLap
  BY InitVerdicts
<1>2. VerdictsInLap /\ [Next]_vars => VerdictsInLap' /\ [Delivery!Next]_(Delivery!vars)
  BY NextVerdicts
<1>3. Init => Delivery!Init
  <2> SUFFICES ASSUME Init PROVE Delivery!Init
    OBVIOUS
  <2>1. Range(<<>>) = {} /\ feedback_frames = <<>> /\ reported = {} /\ delivered = {}
        /\ next_session_index = FIRST_FRAME
    BY DEF Init, Range
  <2>2. Verdicts = {} /\ Sessions(delivered) = {}
    BY <2>1 DEF Verdicts, Sessions
  <2> QED
    BY <2>1, <2>2, DecoderAssumption DEF Delivery!Init
<1> QED
  BY <1>1, <1>2, <1>3, PTL DEF Spec, ImplementsDelivery, Delivery!Spec

-----------------------------------------------------------------------------
(***************************************************************************)
(* THE DUPLICATE FILTER                                                    *)
(***************************************************************************)

(* The assumption on the length of the stream: the window of the duplicate *)
(* filter covers all of it, so that compact_to is never called.            *)
InFilter == MAX_FRAMES * (MAX_DATA + MAX_FEC) <= TRACK_BITS

(* A filter whose window has not moved.                                    *)
IsFilter(filter) ==
  /\ DOMAIN filter = DOMAIN EmptyDedup
  /\ filter.base = 0 /\ filter.bits \subseteq 0 .. TRACK_BITS - 1

(* insert below TRACK_BITS sets the bit of seq, also when it was set.      *)
LEMMA InsertInPlace ==
  ASSUME NEW filter, IsFilter(filter), NEW seq \in 0 .. TRACK_BITS - 1
  PROVE  /\ insert(filter, seq).ok <=> seq \notin filter.bits
         /\ IsFilter(insert(filter, seq).state)
         /\ insert(filter, seq).state.bits = filter.bits \cup {seq}
<1> DEFINE len == IF filter.len <= WordOf(seq) THEN WordOf(seq) + 1 ELSE filter.len
           grown == [filter EXCEPT !.len = len]
<1>1. TRACK_BITS \in Nat /\ SEQ_SPACE \in Nat /\ SEQ_SPACE > 0 /\ TRACK_BITS < SEQ_SPACE
  BY DedupAssumption
<1>2. /\ DOMAIN filter = {"base", "len", "bits"}
      /\ filter.base = 0 /\ filter.bits \subseteq 0 .. TRACK_BITS - 1
  BY DEF IsFilter, EmptyDedup
<1>3. ~ (seq >= WrappingAdd(0, TRACK_BITS)) /\ ~ (WrappingAdd(seq, TRACK_BITS) < 0)
  <2>1. (0 + TRACK_BITS) % SEQ_SPACE = TRACK_BITS
    BY <1>1, Z3
  <2>2. (seq + TRACK_BITS) % SEQ_SPACE >= 0
    BY <1>1, Z3
  <2> QED
    BY <1>1, <2>1, <2>2 DEF WrappingAdd
<1>4. seq - 0 = seq /\ ~ (seq < 0)
  OBVIOUS
<1>5. insert(filter, seq) =
        IF seq \in filter.bits
        THEN [ok |-> FALSE, state |-> grown]
        ELSE [ok |-> TRUE, state |-> [grown EXCEPT !.bits = grown.bits \cup {seq}]]
  BY <1>2, <1>3, <1>4, Zenon DEF insert
<1> HIDE DEF len
<1>6. DOMAIN grown = DOMAIN filter /\ grown.base = 0 /\ grown.bits = filter.bits
  BY <1>2
<1> HIDE DEF grown
<1>7. CASE seq \in filter.bits
  <2>0. insert(filter, seq) = [ok |-> FALSE, state |-> grown]
    BY <1>5, <1>7, Zenon
  <2>1. insert(filter, seq).state = grown /\ insert(filter, seq).ok = FALSE
    BY <2>0
  <2>2. filter.bits \cup {seq} = filter.bits
    BY <1>7
  <2> QED
    BY <1>2, <1>6, <1>7, <2>1, <2>2 DEF IsFilter, EmptyDedup
<1>8. CASE seq \notin filter.bits
  <2> DEFINE new == [grown EXCEPT !.bits = grown.bits \cup {seq}]
  <2>0. insert(filter, seq) = [ok |-> TRUE, state |-> new]
    BY <1>5, <1>8, Zenon
  <2>1. insert(filter, seq).state = new /\ insert(filter, seq).ok = TRUE
    BY <2>0
  <2>2. DOMAIN new = DOMAIN filter /\ new.base = 0 /\ new.bits = filter.bits \cup {seq}
    BY <1>2, <1>6
  <2> HIDE DEF new
  <2> QED
    BY <1>2, <1>8, <2>1, <2>2 DEF IsFilter, EmptyDedup
<1> QED
  BY <1>7, <1>8

(* remove clears the bits of the numbers it is given.                      *)
LEMMA RemoveInPlace ==
  ASSUME NEW filter, IsFilter(filter), NEW seqs \in SUBSET Nat
  PROVE  /\ IsFilter(RemoveAll(filter, seqs))
         /\ RemoveAll(filter, seqs).bits = filter.bits \ seqs
<1> DEFINE gone == {seq - filter.base : seq \in {s \in seqs : /\ s >= filter.base
                                                             /\ s - filter.base < TRACK_BITS}}
<1>1. /\ DOMAIN filter = {"base", "len", "bits"}
      /\ filter.base = 0 /\ filter.bits \subseteq 0 .. TRACK_BITS - 1
      /\ TRACK_BITS \in Nat
  BY DedupAssumption DEF IsFilter, EmptyDedup
<1>2. ASSUME NEW b \in filter.bits
      PROVE  b \in gone <=> b \in seqs
  <2>1. b \in 0 .. TRACK_BITS - 1
    BY <1>1
  <2>2. ASSUME b \in seqs PROVE b \in gone
    <3>1. b >= filter.base /\ b - filter.base < TRACK_BITS /\ b - filter.base = b
      BY <1>1, <2>1
    <3> QED
      BY <2>2, <3>1
  <2>3. ASSUME b \in gone PROVE b \in seqs
    BY <1>1, <2>1, <2>3
  <2> QED
    BY <2>2, <2>3
<1>3. RemoveAll(filter, seqs) = [filter EXCEPT !.bits = filter.bits \ gone]
  BY <1>1 DEF RemoveAll
<1> HIDE DEF gone
<1>4. filter.bits \ gone = filter.bits \ seqs
  BY <1>2
<1> QED
  BY <1>1, <1>3, <1>4 DEF IsFilter, EmptyDedup

-----------------------------------------------------------------------------
(* The numbers the sender gives: one run of them per frame.                *)
Numbered ==
  /\ sqn \in Nat
  /\ next_session_index - FIRST_FRAME \in 0 .. MAX_FRAMES
  /\ sqn <= (next_session_index - FIRST_FRAME) * (MAX_DATA + MAX_FEC)
  /\ \A d \in sent : d.pos \in Nat /\ d.seq \in Nat /\ d.pos <= d.seq /\ d.seq < sqn
  /\ \A d, e \in sent : d.frame = e.frame => d.seq - d.pos = e.seq - e.pos
  /\ \A d, e \in sent : d.seq = e.seq => d.frame = e.frame

(* The packets of a frame under reception are packets sent for its session *)
(* and first_sqn is the number of the first one.                           *)
PacketsSent(f) ==
  /\ f.first_sqn \in Nat
  /\ \A p \in f.data \cup f.parity :
       \E d \in sent : d.frame = f.session_index /\ d.pos = p /\ d.seq = f.first_sqn + p

RingSent(ring) == \A i \in Slots : ring[i].occupied => PacketsSent(ring[i])

(* The numbers of the packets in the ring.                                 *)
Held(ring) == UNION {seq_nums(ring[i]) : i \in {j \in Slots : ring[j].occupied}}

(* g is f with other flags or another size.                                *)
SamePackets(f, g) ==
  /\ g.occupied = f.occupied /\ g.session_index = f.session_index
  /\ g.first_sqn = f.first_sqn /\ g.data = f.data /\ g.parity = f.parity

(***************************************************************************)
(* The inductive invariant.  What purge_frame removes are the numbers of   *)
(* the purged frame and no other's: the frames' runs of numbers are apart, *)
(* and first_sqn, which every packet overwrites, is always the same.       *)
(***************************************************************************)
DedupInLap ==
  /\ InLap /\ Numbered
  /\ RingSent(frames_ring)
  /\ IsFilter(seen_seq) /\ seen_seq.bits = Held(frames_ring)

(* Other flags and other sizes change nothing of it.                       *)
LEMMA SamePacketsHold ==
  ASSUME NEW ring, NEW new, \A i \in Slots : SamePackets(ring[i], new[i]), RingSent(ring)
  PROVE  RingSent(new) /\ Held(new) = Held(ring)
<1>1. ASSUME NEW i \in Slots
      PROVE  /\ new[i].occupied = ring[i].occupied
             /\ seq_nums(new[i]) = seq_nums(ring[i])
             /\ PacketsSent(ring[i]) => PacketsSent(new[i])
  BY <1>1 DEF SamePackets, seq_nums, PacketsSent
<1>2. RingSent(new)
  BY <1>1 DEF RingSent
<1>3. {j \in Slots : new[j].occupied} = {j \in Slots : ring[j].occupied}
  BY <1>1
<1>4. Held(new) = Held(ring)
  BY <1>1, <1>3 DEF Held
<1> QED
  BY <1>2, <1>4

(* No number is in two frames of the ring.                                 *)
LEMMA HeldApart ==
  ASSUME Numbered, NEW ring, NEW last, RingOK(ring, last), RingSent(ring),
         NEW i \in Slots, NEW j \in Slots, ring[i].occupied, ring[j].occupied,
         NEW seq \in seq_nums(ring[i]), seq \in seq_nums(ring[j])
  PROVE  i = j
<1>1. PICK d \in sent : d.frame = ring[i].session_index /\ d.seq = seq
  BY DEF RingSent, PacketsSent, seq_nums
<1>2. PICK e \in sent : e.frame = ring[j].session_index /\ e.seq = seq
  BY DEF RingSent, PacketsSent, seq_nums
<1>3. d.frame = e.frame
  BY <1>1, <1>2 DEF Numbered
<1> QED
  BY <1>1, <1>2, <1>3 DEF RingOK

(* A frame whose slot is taken over has left the window.                   *)
LEMMA OverwrittenIsExpired ==
  ASSUME TrackingOK, NEW session \in Nat, ~ OutOfWindow(session),
         NEW i \in Slots, frames_ring[i].occupied
  PROVE  \/ i \in Expired(frames_ring, session)
         \/ i \notin Expired(frames_ring, session) /\ Opened(session)[i] = frames_ring[i]
<1> DEFINE t == frames_ring[i].session_index
<1>1. /\ t \in Nat /\ slot_index(t) = i /\ t <= last_session_index /\ received_first
      /\ last_session_index \in Nat
  BY DEF TrackingOK, RingOK, IsFrame, InWindow
<1>2. NumFrames \in Nat /\ NumFrames > 0
  BY NumFramesPositive
<1>3. ASSUME session - t >= NumFrames
      PROVE  i \in Expired(frames_ring, session)
  <2>1. frame_expired(session, t)
    BY <1>1, <1>2, <1>3 DEF frame_expired, frame_expired_session, saturating_sub
  <2> QED
    BY <2>1 DEF Expired
<1>4. ASSUME NEW s \in Skipped(Purge(frames_ring, session), session), slot_index(s) = i
      PROVE  i \in Expired(frames_ring, session)
  <2>1. s \in Nat /\ s > last_session_index /\ s < session
    BY <1>1 DEF Skipped
  <2> HIDE DEF t
  <2>2. s - t >= NumFrames
    BY <1>1, <1>4, <2>1, SameSlotFarApart
  <2> QED
    BY <1>1, <1>2, <1>3, <2>1, <2>2
<1>5. ASSUME i = slot_index(session), ~ Occupied(frames_ring, session)
      PROVE  i \in Expired(frames_ring, session)
  <2>1. t # session
    BY <1>5 DEF Occupied
  <2>2. ~ (session < t)
    BY <1>1, <1>5 DEF OutOfWindow
  <2> HIDE DEF t
  <2>3. session - t >= NumFrames
    BY <1>1, <1>5, <2>1, <2>2, SameSlotFarApart
  <2> QED
    BY <1>3, <2>3
<1>6. \/ i \in Expired(frames_ring, session)
      \/ /\ Opened(session)[i] = frames_ring[i]
         /\ i \notin Expired(frames_ring, session)
      \/ \E s \in Skipped(Purge(frames_ring, session), session) : slot_index(s) = i
      \/ i = slot_index(session) /\ ~ Occupied(frames_ring, session)
  BY OpenedCases, Zenon
<1> QED
  BY <1>4, <1>5, <1>6, Zenon

(* purge_expired, fill_missing_frames and frame_mut: what is lost from the *)
(* ring is what purge_frame tells the filter to forget.                    *)
LEMMA OpenedHeld ==
  ASSUME TrackingOK, Numbered, RingSent(frames_ring),
         NEW session \in Nat, ~ OutOfWindow(session)
  PROVE  /\ RingSent(Opened(session))
         /\ Held(Opened(session)) = Held(frames_ring) \ PurgedSeqs(frames_ring, session)
<1> DEFINE opened == Opened(session)
           gone == Expired(frames_ring, session)
<1>0. \A i \in gone : i \in Slots /\ frames_ring[i].occupied
  BY DEF Expired
<1>1. ASSUME NEW i \in Slots, opened[i].occupied
      PROVE  \/ i \notin gone /\ opened[i] = frames_ring[i]
             \/ opened[i].data = {} /\ opened[i].parity = {} /\ opened[i].first_sqn = 0
  <2>1. CASE opened[i] = Vacant
    BY <1>1, <2>1, VacantIsFrame
  <2>2. CASE \E s, b : opened[i] = reset_for(s, b)
    <3>1. \A s, b : /\ reset_for(s, b).data = {} /\ reset_for(s, b).parity = {}
                    /\ reset_for(s, b).first_sqn = 0
      BY DEF reset_for, Vacant
    <3> HIDE DEF opened
    <3> QED
      BY <2>2, <3>1
  <2>3. \/ opened[i] = Vacant
        \/ opened[i] = frames_ring[i] /\ i \notin gone
        \/ \E s, b : opened[i] = reset_for(s, b)
    BY OpenedCases, Zenon
  <2> HIDE DEF opened, gone
  <2> QED
    BY <2>1, <2>2, <2>3, Zenon
<1>2. ASSUME NEW i \in Slots, frames_ring[i].occupied, i \notin gone
      PROVE  opened[i] = frames_ring[i]
  BY <1>2, OverwrittenIsExpired
<1> HIDE DEF opened
<1>3. ASSUME NEW i \in Slots, opened[i].occupied
      PROVE  PacketsSent(opened[i])
  <2>1. CASE opened[i] = frames_ring[i]
    BY <1>3, <2>1 DEF RingSent
  <2>2. CASE opened[i].data = {} /\ opened[i].parity = {} /\ opened[i].first_sqn = 0
    BY <2>2 DEF PacketsSent
  <2> QED
    BY <1>1, <1>3, <2>1, <2>2
<1>4. ASSUME NEW seq \in Held(opened)
      PROVE  seq \in Held(frames_ring) /\ seq \notin PurgedSeqs(frames_ring, session)
  <2>1. PICK i \in Slots : opened[i].occupied /\ seq \in seq_nums(opened[i])
    BY <1>4 DEF Held
  <2>2. ~ (opened[i].data = {} /\ opened[i].parity = {})
    BY <2>1 DEF seq_nums
  <2>3. i \notin gone /\ opened[i] = frames_ring[i]
    BY <1>1, <2>1, <2>2
  <2>4. seq \in Held(frames_ring)
    BY <2>1, <2>3 DEF Held
  <2>5. ASSUME seq \in PurgedSeqs(frames_ring, session) PROVE FALSE
    <3>1. PICK j \in gone : seq \in seq_nums(frames_ring[j])
      BY <2>5 DEF PurgedSeqs
    <3>2. RingOK(frames_ring, last_session_index)
      BY DEF TrackingOK
    <3> HIDE DEF gone
    <3>3. i = j
      BY <1>0, <2>1, <2>3, <3>1, <3>2, HeldApart
    <3> QED
      BY <2>3, <3>1, <3>3
  <2> QED
    BY <2>4, <2>5
<1>5. ASSUME NEW seq \in Held(frames_ring), seq \notin PurgedSeqs(frames_ring, session)
      PROVE  seq \in Held(opened)
  <2>1. PICK i \in Slots : frames_ring[i].occupied /\ seq \in seq_nums(frames_ring[i])
    BY <1>5 DEF Held
  <2>2. i \notin gone
    BY <1>5, <2>1 DEF PurgedSeqs
  <2> QED
    BY <1>2, <2>1, <2>2 DEF Held
<1> QED
  BY <1>3, <1>4, <1>5 DEF RingSent, opened

(* add_pkt                                                                 *)
LEMMA PacketAdded ==
  ASSUME Numbered, NEW d \in sent, NEW f, IsFrame(f), PacketsSent(f), f.session_index = d.frame
  PROVE  PacketsSent(add_pkt(f, d)) /\ seq_nums(add_pkt(f, d)) = seq_nums(f) \cup {d.seq}
<1> DEFINE g == add_pkt(f, d)
           all == f.data \cup f.parity
<1>1. d.pos \in Nat /\ d.seq \in Nat /\ d.pos <= d.seq
  BY DEF Numbered
<1>2. /\ g.session_index = f.session_index /\ g.first_sqn = d.seq - d.pos
      /\ g.data \cup g.parity = all \cup {d.pos}
  <2>1. saturating_sub(d.seq, d.pos) = d.seq - d.pos
    BY <1>1 DEF saturating_sub
  <2>2. /\ g.session_index = f.session_index /\ g.first_sqn = saturating_sub(d.seq, d.pos)
        /\ g.data = IF d.is_parity THEN f.data ELSE f.data \cup {d.pos}
        /\ g.parity = IF d.is_parity THEN f.parity \cup {d.pos} ELSE f.parity
    BY DEF IsFrame, add_pkt, Vacant
  <2> HIDE DEF g
  <2> QED
    BY <2>1, <2>2
<1>3. ASSUME NEW p \in all
      PROVE  \E e \in sent : e.frame = d.frame /\ e.pos = p /\ e.seq = f.first_sqn + p
                              /\ p \in Nat /\ f.first_sqn = d.seq - d.pos
  <2>1. PICK e \in sent : e.frame = f.session_index /\ e.pos = p /\ e.seq = f.first_sqn + p
    BY DEF PacketsSent
  <2>2. e.seq - e.pos = d.seq - d.pos /\ e.pos \in Nat /\ f.first_sqn \in Nat
    BY <2>1 DEF Numbered, PacketsSent
  <2> QED
    BY <1>1, <2>1, <2>2
<1>4. ASSUME NEW p \in all \cup {d.pos}
      PROVE  \E e \in sent : e.frame = g.session_index /\ e.pos = p /\ e.seq = g.first_sqn + p
  <2>1. CASE p = d.pos
    <3>1. d.seq = (d.seq - d.pos) + d.pos
      BY <1>1
    <3> HIDE DEF g
    <3> QED
      BY <1>2, <2>1, <3>1
  <2>2. CASE p \in all
    <3> HIDE DEF g, all
    <3> QED
      BY <1>2, <1>3, <2>2
  <2> QED
    BY <2>1, <2>2
<1>5. PacketsSent(g)
  <2> HIDE DEF g, all
  <2> QED
    BY <1>1, <1>2, <1>4 DEF PacketsSent
<1>6. seq_nums(f) = {(d.seq - d.pos) + p : p \in all}
  <2>1. \A p \in all : f.first_sqn + p = (d.seq - d.pos) + p
    BY <1>3
  <2> QED
    BY <2>1 DEF seq_nums
<1>7. seq_nums(g) = {(d.seq - d.pos) + p : p \in all \cup {d.pos}}
  <2> HIDE DEF g, all
  <2> QED
    BY <1>2 DEF seq_nums
<1>8. (d.seq - d.pos) + d.pos = d.seq
  BY <1>1
<1>9. {(d.seq - d.pos) + p : p \in all \cup {d.pos}}
        = {(d.seq - d.pos) + p : p \in all} \cup {(d.seq - d.pos) + d.pos}
  OBVIOUS
<1> HIDE DEF g, all
<1> QED
  BY <1>5, <1>6, <1>7, <1>8, <1>9 DEF g

(* The sizes of the headers and the datagram itself.                       *)
LEMMA AddedHeld ==
  ASSUME Numbered, NEW d \in sent, d.frame \in Nat, NEW last, NEW ring, RingOK(ring, last),
         RingSent(ring), Occupied(ring, d.frame), NEW sizes
  PROVE  LET added == [UpdateSizes(ring, sizes) EXCEPT ![slot_index(d.frame)] = add_pkt(@, d)]
         IN  RingSent(added) /\ Held(added) = Held(ring) \cup {d.seq}
<1> DEFINE sized == UpdateSizes(ring, sizes)
           own == slot_index(d.frame)
           added == [sized EXCEPT ![own] = add_pkt(@, d)]
<1>1. \A i \in Slots : IsFrame(ring[i])
  BY DEF RingOK
<1>2. ASSUME NEW i \in Slots
      PROVE  SamePackets(ring[i], sized[i])
  <2> DEFINE size == (CHOOSE h \in sizes : h.session = ring[i].session_index).size
  <2>1. sized[i] = ring[i] \/ sized[i] = [ring[i] EXCEPT !.frame_size = size]
    BY DEF UpdateSizes
  <2> HIDE DEF size, sized
  <2> QED
    BY <1>1, <2>1 DEF SamePackets, IsFrame, Vacant
<1>3. RingSent(sized) /\ Held(sized) = Held(ring)
  <2> HIDE DEF sized
  <2> QED
    BY <1>2, SamePacketsHold
<1>4. /\ DOMAIN sized = Slots /\ own \in Slots
      /\ IsFrame(sized[own]) /\ sized[own].occupied /\ sized[own].session_index = d.frame
  <2>1. own \in Slots /\ DOMAIN sized = Slots
    BY SlotIsSlot DEF UpdateSizes
  <2>2. ring[own].occupied /\ ring[own].session_index = d.frame
    BY DEF Occupied
  <2>3. SameFrame(ring[own], sized[own]) /\ IsFrame(ring[own])
    BY <1>1, <2>1, UpdateSizesKeepsFrames
  <2> HIDE DEF sized, own
  <2> QED
    BY <2>1, <2>2, <2>3 DEF SameFrame, IsFrame
<1>5. \A i \in Slots : added[i] = IF i = own THEN add_pkt(sized[i], d) ELSE sized[i]
  BY <1>4
<1> HIDE DEF sized, own, added
<1>6. /\ PacketsSent(added[own]) /\ seq_nums(added[own]) = seq_nums(sized[own]) \cup {d.seq}
      /\ added[own].occupied
  <2>1. PacketsSent(sized[own])
    BY <1>3, <1>4 DEF RingSent
  <2>2. PacketsSent(add_pkt(sized[own], d))
        /\ seq_nums(add_pkt(sized[own], d)) = seq_nums(sized[own]) \cup {d.seq}
    BY <1>4, <2>1, PacketAdded
  <2>3. SameFrame(sized[own], add_pkt(sized[own], d))
    BY <1>4, AddPktKeepsFrame
  <2> QED
    BY <1>4, <1>5, <2>2, <2>3 DEF SameFrame
<1>7. RingSent(added)
  BY <1>3, <1>5, <1>6 DEF RingSent
<1>8. \A seq : seq \in Held(added) <=> \E i \in Slots : added[i].occupied /\ seq \in seq_nums(added[i])
  BY DEF Held
<1>9. \A seq : seq \in Held(sized) <=> \E i \in Slots : sized[i].occupied /\ seq \in seq_nums(sized[i])
  BY DEF Held
<1>10. Held(added) \subseteq Held(sized) \cup {d.seq}
  BY <1>4, <1>5, <1>6, <1>8, <1>9
<1>11. Held(sized) \cup {d.seq} \subseteq Held(added)
  BY <1>4, <1>5, <1>6, <1>8, <1>9
<1> QED
  BY <1>3, <1>7, <1>10, <1>11 DEF added, sized, own

(* drain_recovered touches only the delivered flags.                       *)
LEMMA EmitHeld ==
  ASSUME NEW ring, NEW bc, NEW feedback, NEW due, NEW last, RingOK(ring, last),
         RingSent(ring), EmitPending(ring, bc, feedback, due), sent' = sent
  PROVE  RingSent(frames_ring)' /\ Held(frames_ring') = Held(ring)
<1>1. ASSUME NEW i \in Slots
      PROVE  SamePackets(ring[i], frames_ring'[i])
  <2>1. frames_ring'[i] = ring[i] \/ frames_ring'[i] = [ring[i] EXCEPT !.delivered = TRUE]
    BY DEF EmitPending
  <2>2. IsFrame(ring[i])
    BY DEF RingOK
  <2> QED
    BY <2>1, <2>2 DEF SamePackets, IsFrame, Vacant
<1>2. RingSent(frames_ring') /\ Held(frames_ring') = Held(ring)
  BY <1>1, SamePacketsHold
<1>3. RingSent(frames_ring)'
  BY <1>2 DEF RingSent, PacketsSent
<1> QED
  BY <1>2, <1>3

-----------------------------------------------------------------------------
(* Nothing has arrived.                                                    *)
LEMMA InitDedup ==
  ASSUME FirstLap, Init
  PROVE  DedupInLap
<1>1. InLap /\ sqn = 0 /\ sent = {} /\ next_session_index = FIRST_FRAME /\ seen_seq = EmptyDedup
  BY InitInLap DEF Init
<1>2. \A i \in Slots : ~ frames_ring[i].occupied
  BY VacantIsFrame DEF Init
<1>3. RingSent(frames_ring) /\ Held(frames_ring) = {}
  BY <1>2 DEF RingSent, Held
<1>4. IsFilter(seen_seq) /\ seen_seq.bits = {}
  BY <1>1 DEF IsFilter, EmptyDedup
<1>5. Numbered
  <2>1. FIRST_FRAME \in Nat /\ MAX_FRAMES \in Nat /\ MAX_DATA + MAX_FEC \in Nat
    BY DecoderAssumption
  <2>2. next_session_index - FIRST_FRAME = 0
    BY <1>1, <2>1
  <2>3. 0 * (MAX_DATA + MAX_FEC) = 0
    BY <2>1
  <2>4. /\ next_session_index - FIRST_FRAME \in 0 .. MAX_FRAMES
        /\ sqn <= (next_session_index - FIRST_FRAME) * (MAX_DATA + MAX_FEC)
    BY <1>1, <2>1, <2>2, <2>3
  <2> QED
    BY <1>1, <2>4 DEF Numbered
<1> QED
  BY <1>1, <1>3, <1>4, <1>5 DEF DedupInLap

(* encode_payload takes the next numbers for the new frame.                *)
LEMMA EncodeDedup ==
  ASSUME DedupInLap, InLap', NEW shape \in Shapes, Encode(shape)
  PROVE  DedupInLap'
<1> DEFINE next == next_session_index
           new == Datagrams(next, sqn, shape)
           unit == MAX_DATA + MAX_FEC
           n == next - FIRST_FRAME
<1>1. /\ sent' = sent \cup new /\ next \in Nat /\ next < FIRST_FRAME + MAX_FRAMES
      /\ next' = next + 1 /\ sqn' = sqn + shape.data + shape.parity
      /\ \A d \in sent : d.frame < next /\ d.frame \in Nat
  BY DEF Encode, DedupInLap, InLap, SentInLap
<1>2. /\ shape.data \in 1 .. MAX_DATA /\ shape.parity \in 0 .. MAX_FEC
      /\ MAX_DATA \in Nat /\ MAX_FEC \in Nat /\ FIRST_FRAME \in Nat /\ MAX_FRAMES \in Nat
  BY DecoderAssumption
<1>3. /\ sqn \in Nat /\ n \in 0 .. MAX_FRAMES /\ sqn <= n * unit
      /\ \A d \in sent : d.pos \in Nat /\ d.seq \in Nat /\ d.pos <= d.seq /\ d.seq < sqn
      /\ \A d, e \in sent : d.frame = e.frame => d.seq - d.pos = e.seq - e.pos
      /\ \A d, e \in sent : d.seq = e.seq => d.frame = e.frame
  BY DEF DedupInLap, Numbered
<1>4. ASSUME NEW d \in new
      PROVE  /\ d.frame = next /\ d.pos \in Nat /\ d.seq \in Nat /\ d.pos <= d.seq
             /\ d.seq - d.pos = sqn /\ d.seq >= sqn /\ d.seq < sqn'
  <2>1. PICK pos \in 0 .. shape.data + shape.parity - 1 :
          d.frame = next /\ d.pos = pos /\ d.seq = sqn + pos
    BY DEF Datagrams
  <2> HIDE DEF new, next
  <2> QED
    BY <1>1, <1>2, <1>3, <2>1
<1>5. sqn' \in Nat /\ sqn' >= sqn
  BY <1>1, <1>2, <1>3
<1>6. (next - FIRST_FRAME)' \in 0 .. MAX_FRAMES /\ sqn' <= (next - FIRST_FRAME)' * unit
  <2>1. (next - FIRST_FRAME)' = n + 1 /\ n + 1 \in 0 .. MAX_FRAMES
    BY <1>1, <1>2, <1>3
  <2>2. unit \in Nat /\ sqn' <= sqn + unit
    BY <1>1, <1>2, <1>3
  <2>3. n \in Nat
    BY <1>2, <1>3
  <2> HIDE DEF n, unit
  <2>4. (n + 1) * unit = n * unit + unit /\ n * unit \in Nat
    BY <2>2, <2>3
  <2>5. sqn' <= (n + 1) * unit
    BY <1>3, <1>5, <2>2, <2>4
  <2> QED
    BY <2>1, <2>5
<1> HIDE DEF new, next, unit, n
<1>7. Numbered'
  <2>1. \A d \in sent' : d.pos \in Nat /\ d.seq \in Nat /\ d.pos <= d.seq /\ d.seq < sqn'
    BY <1>1, <1>3, <1>4, <1>5
  <2>2. ASSUME NEW d \in sent', NEW e \in sent', d.frame = e.frame
        PROVE  d.seq - d.pos = e.seq - e.pos
    BY <1>1, <1>3, <1>4, <2>2
  <2>3. ASSUME NEW d \in sent', NEW e \in sent', d.seq = e.seq
        PROVE  d.frame = e.frame
    BY <1>1, <1>3, <1>4, <2>3
  <2> QED
    BY <1>5, <1>6, <2>1, <2>2, <2>3 DEF Numbered, next, unit
<1>8. frames_ring' = frames_ring /\ seen_seq' = seen_seq
  BY DEF Encode
<1>9. RingSent(frames_ring)'
  <2>1. RingSent(frames_ring)
    BY DEF DedupInLap
  <2> QED
    BY <1>1, <1>8, <2>1 DEF RingSent, PacketsSent
<1> QED
  BY <1>7, <1>8, <1>9 DEF DedupInLap

(* Every datagram is in the filter's window.                               *)
LEMMA SeqInFilter ==
  ASSUME InFilter, Numbered, NEW d \in sent
  PROVE  d.seq \in 0 .. TRACK_BITS - 1
<1> DEFINE n == next_session_index - FIRST_FRAME
           unit == MAX_DATA + MAX_FEC
<1>1. /\ n \in 0 .. MAX_FRAMES /\ MAX_FRAMES \in Nat /\ unit \in Nat /\ TRACK_BITS \in Nat
      /\ sqn \in Nat /\ sqn <= n * unit /\ d.seq \in Nat /\ d.seq < sqn
      /\ MAX_FRAMES * unit <= TRACK_BITS
  BY DecoderAssumption, DedupAssumption DEF Numbered, InFilter
<1> HIDE DEF n, unit
<1>2. n * unit <= MAX_FRAMES * unit /\ n * unit \in Nat /\ MAX_FRAMES * unit \in Nat
  <2>1. n \in Nat /\ n <= MAX_FRAMES
    BY <1>1
  <2> QED
    BY <1>1, <2>1, Z3
<1> QED
  BY <1>1, <1>2

(* A call that only emits.                                                 *)
LEMMA EmitDedup ==
  ASSUME DedupInLap, InLap', NEW due,
         EmitPending(frames_ring, code, feedback_frames, due), UNCHANGED encoder_vars,
         IsFilter(seen_seq'), seen_seq'.bits = seen_seq.bits
  PROVE  DedupInLap'
<1>1. RingOK(frames_ring, last_session_index) /\ RingSent(frames_ring)
  BY DEF DedupInLap, InLap, Remembering, TrackingOK
<1>2. UNCHANGED <<next_session_index, sqn, sent>>
  BY DEF encoder_vars
<1>3. RingSent(frames_ring)' /\ Held(frames_ring') = Held(frames_ring)
  BY <1>1, <1>2, EmitHeld
<1>4. Numbered'
  BY <1>2 DEF DedupInLap, Numbered
<1>5. seen_seq'.bits = Held(frames_ring')
  BY <1>3 DEF DedupInLap
<1> QED
  BY <1>3, <1>4, <1>5 DEF DedupInLap, IsFilter

(* ingest_datagram of a datagram that is not refused.                      *)
LEMMA AcceptDedup ==
  ASSUME FirstLap, InFilter, DedupInLap, InLap', NEW d \in InFlight, NEW due,
         insert(seen_seq, d.seq).ok, Accept(d, d.frame, due)
  PROVE  DedupInLap'
<1> DEFINE session == d.frame
           last == LastAfter(session)
           opened == Opened(session)
           header == ReceiveHeader(header_code, d, session)
           ring == Added(d, session, header.sizes)
           bc == DecodeFrames(AddPacket(code, d), ring)
           marked == MarkDecoded(ring, bc)
           feedback == feedback_frames \o PurgedVerdicts(frames_ring, session)
           purged == PurgedSeqs(frames_ring, session)
<1>1. /\ ~ OutOfWindow(session)
      /\ seen_seq' = RemoveAll(insert(seen_seq, d.seq).state, purged)
      /\ EmitPending(marked, bc, feedback, due)
      /\ UNCHANGED <<next_session_index, sqn, sent>>
  BY DEF Accept, encoder_vars
<1>2. /\ SentInLap /\ TrackingOK /\ Numbered /\ RingSent(frames_ring) /\ IsFilter(seen_seq)
      /\ seen_seq.bits = Held(frames_ring) /\ CodeOK(code) /\ CodeOK(header_code)
      /\ last_session \in Nat \cup {NoSession} /\ SizesKnown(frames_ring)
      /\ received_first => Occupied(frames_ring, last_session_index)
  BY DEF DedupInLap, InLap, Remembering, InputOK
<1>3. d \in sent /\ session \in Nat
  BY <1>2 DEF InFlight, SentInLap
<1>4. last \in Nat
  BY <1>2, <1>3 DEF LastAfter, SentInLap
<1>5. RingOK(opened, last) /\ RingSent(opened) /\ Held(opened) = Held(frames_ring) \ purged
  BY <1>1, <1>2, <1>3, OpenedKeepsRing, OpenedHeld
<1>6. Occupied(opened, session)
  <2>1. slot_index(session) \in Slots
    BY <1>3, SlotIsSlot
  <2> DEFINE i == slot_index(session)
  <2>2. \/ opened[i] = frames_ring[i] /\ Occupied(frames_ring, session)
        \/ opened[i] = reset_for(session, FALSE)
    <3> HIDE DEF opened
    <3> QED
      BY <1>2, <1>3, <2>1, OpenedCases DEF opened
  <2> QED
    BY <1>3, <2>2, ResetIsFrame DEF Occupied
<1>7. RingSent(ring) /\ Held(ring) = Held(opened) \cup {d.seq}
  <2>1. ring = [UpdateSizes(opened, header.sizes) EXCEPT ![slot_index(d.frame)] = add_pkt(@, d)]
    BY DEF Added
  <2> HIDE DEF opened, header, ring, last
  <2> QED
    BY <1>2, <1>3, <1>5, <1>6, <2>1, AddedHeld
<1>8. RingOK(ring, last)
  <2>1. \A h \in header.sizes : h.size \in Nat
    BY <1>2, <1>3, HeaderSizes
  <2>2. SizesKnown(opened) /\ Occupied(opened, last)
    BY <1>1, <1>2, <1>3, OpenedSizes, OpenedHoldsNewest
  <2> HIDE DEF last, header
  <2> QED
    BY <1>3, <1>4, <1>5, <2>1, <2>2, AddedKeeps
<1> HIDE DEF opened, header, ring, last
<1>9. ASSUME NEW i \in Slots
      PROVE  SamePackets(ring[i], marked[i])
  <2>1. marked[i] = ring[i] \/ marked[i] = [ring[i] EXCEPT !.is_decoded = TRUE]
    BY DEF MarkDecoded
  <2>2. IsFrame(ring[i])
    BY <1>8 DEF RingOK
  <2> HIDE DEF marked
  <2> QED
    BY <2>1, <2>2 DEF SamePackets, IsFrame, Vacant
<1>10. RingOK(marked, last)
  <2>1. DOMAIN marked = Slots /\ \A i \in Slots : SameFrame(ring[i], marked[i])
    BY <1>8, MarkDecodedKeepsFrames DEF RingOK
  <2> HIDE DEF marked
  <2> QED
    BY <1>8, <2>1 DEF RingOK, SameFrame, IsFrame
<1> HIDE DEF marked, bc, feedback
<1>11. RingSent(marked) /\ Held(marked) = Held(ring)
  BY <1>7, <1>9, SamePacketsHold
<1>12. RingSent(frames_ring)' /\ Held(frames_ring') = Held(ring)
  BY <1>1, <1>10, <1>11, EmitHeld
<1>13. purged \subseteq Held(frames_ring) /\ purged \subseteq Nat
  <2>1. purged \subseteq Held(frames_ring)
    BY DEF PurgedSeqs, Held, Expired
  <2> HIDE DEF purged
  <2> QED
    BY <1>2, <2>1 DEF IsFilter
<1>14. /\ IsFilter(seen_seq') /\ d.seq \notin seen_seq.bits
       /\ seen_seq'.bits = (seen_seq.bits \cup {d.seq}) \ purged
  <2>1. d.seq \in 0 .. TRACK_BITS - 1
    BY <1>2, <1>3, SeqInFilter
  <2>2. /\ IsFilter(insert(seen_seq, d.seq).state) /\ d.seq \notin seen_seq.bits
        /\ insert(seen_seq, d.seq).state.bits = seen_seq.bits \cup {d.seq}
    BY <1>2, <2>1, InsertInPlace
  <2> HIDE DEF purged
  <2> QED
    BY <1>1, <1>13, <2>2, RemoveInPlace
<1> HIDE DEF purged, session
<1>15. seen_seq'.bits = Held(frames_ring')
  BY <1>2, <1>5, <1>7, <1>12, <1>13, <1>14
<1>16. Numbered'
  BY <1>1, <1>2 DEF Numbered
<1> QED
  BY <1>12, <1>14, <1>15, <1>16 DEF DedupInLap, IsFilter

(* Every step of the sender, the channel and the receiver.                 *)
LEMMA NextDedup ==
  ASSUME FirstLap, InFilter, DedupInLap, [Next]_vars
  PROVE  DedupInLap'
<1>1. InLap'
  BY NextInLap DEF DedupInLap
<1>2. CASE \E shape \in Shapes : Encode(shape)
  BY <1>1, <1>2, EncodeDedup
<1>3. CASE \E d \in InFlight, due \in BOOLEAN : Receive(d, due)
  <2>1. PICK d \in InFlight, due \in BOOLEAN : Receive(d, due)
    BY <1>3
  <2>2. resolve_wire(last_session, d.wire) = d.frame
    BY ResolvesItself DEF DedupInLap, InLap, Remembering, InputOK
  <2>3. d.seq \in 0 .. TRACK_BITS - 1 /\ IsFilter(seen_seq)
    BY SeqInFilter DEF DedupInLap, InFlight
  <2>4. /\ insert(seen_seq, d.seq).ok <=> d.seq \notin seen_seq.bits
        /\ IsFilter(insert(seen_seq, d.seq).state)
        /\ insert(seen_seq, d.seq).state.bits = seen_seq.bits \cup {d.seq}
    BY <2>3, InsertInPlace
  <2>5. CASE Duplicate(d, due)
    <3>1. seen_seq' = insert(seen_seq, d.seq).state /\ d.seq \in seen_seq.bits
      BY <2>4, <2>5 DEF Duplicate
    <3>2. IsFilter(seen_seq') /\ seen_seq'.bits = seen_seq.bits
      BY <2>4, <3>1
    <3> QED
      BY <1>1, <2>5, <3>2, EmitDedup DEF Duplicate
  <2>6. CASE insert(seen_seq, d.seq).ok /\ Refuse(d, d.frame, due)
    <3>1. seen_seq' = RemoveAll(insert(seen_seq, d.seq).state, {d.seq})
      BY <2>6 DEF Refuse, remove
    <3>2. IsFilter(seen_seq') /\ seen_seq'.bits = (seen_seq.bits \cup {d.seq}) \ {d.seq}
      BY <2>3, <2>4, <3>1, RemoveInPlace
    <3>3. seen_seq'.bits = seen_seq.bits
      BY <2>4, <2>6, <3>2
    <3> QED
      BY <1>1, <2>6, <3>2, <3>3, EmitDedup DEF Refuse
  <2>7. CASE insert(seen_seq, d.seq).ok /\ Accept(d, d.frame, due)
    BY <1>1, <2>7, AcceptDedup
  <2> QED
    BY <2>1, <2>2, <2>5, <2>6, <2>7 DEF Receive
<1>4. CASE \E due \in BOOLEAN : Poll(due)
  BY <1>1, <1>4, EmitDedup DEF Poll, DedupInLap
<1>5. CASE UNCHANGED vars
  <2>1. UNCHANGED <<next_session_index, sqn, sent, seen_seq, frames_ring>>
    BY <1>5 DEF vars, encoder_vars
  <2> QED
    BY <1>1, <2>1 DEF DedupInLap, Numbered, RingSent, PacketsSent
<1> QED
  BY <1>2, <1>3, <1>4, <1>5 DEF Next

(***************************************************************************)
(* THEOREM.  While the window of the duplicate filter has not moved, what  *)
(* it holds are the numbers of the packets of the frames in the ring:      *)
(* purge_frame forgets the packets of the frames it drops and those only,  *)
(* a refused datagram leaves no trace, and no accepted one is ever taken   *)
(* for new again (ingest_datagram, seq_dedup.rs).                          *)
(***************************************************************************)
THEOREM DedupMatchesRingInFirstLap ==
  ASSUME FirstLap, InFilter
  PROVE  Spec => []DedupMatchesRing
<1>1. Init => DedupInLap
  BY InitDedup
<1>2. DedupInLap /\ [Next]_vars => DedupInLap'
  BY NextDedup
<1>3. DedupInLap => DedupMatchesRing
  <2> SUFFICES ASSUME DedupInLap PROVE DedupMatchesRing
    OBVIOUS
  <2>1. /\ seen_seq.base = 0 /\ seen_seq.bits \subseteq Nat
        /\ seen_seq.bits = Held(frames_ring)
    BY DEF DedupInLap, IsFilter
  <2>2. {0 + o : o \in seen_seq.bits} = seen_seq.bits
    BY <2>1
  <2> QED
    BY <2>1, <2>2 DEF DedupMatchesRing, Held
<1> QED
  BY <1>1, <1>2, <1>3, PTL DEF Spec

=============================================================================
