# TLA+ models of tambur-rs

tambur-rs is a sans-I/O streaming forward error correction library. A sender
session turns each video frame into data and parity stripes, one or more per
datagram; a receiver session rebuilds frames from whatever datagrams arrive,
in whatever order, and reports losses, from which a predictor chooses how much
parity the sender adds next. The caller owns sockets, clocks and threads.

This directory holds TLA+ models of the library, the TLC configurations that
check them on small instances, and TLAPS proofs of the theorems that hold for
every value of the constants. `PROJECT.json` lists the components, the runs,
the hazards each property is aimed at, the lines of source each definition
stands for, and for each property a mutant of the code that breaks it.

## 1. Inventory

| Component (src/src/) | State it keeps | Operations | Hard because |
|---|---|---|---|
| Session index, `codec/session.rs` | `last_session` | `resolve_wire`; `is_out_of_window_session`, `frame_expired_session` | 15-bit wire numbers wrap; each resolution is the base of the next, late datagrams included |
| Duplicate filter, `codec/seq_dedup.rs` | `base`, bitmap of `TRACK_BITS` | `insert`, `remove`, `compact_to` | Window compaction shifts a vector of words by any number of bits; u32 arithmetic at the end of the space |
| Receiver session, `codec/decoder.rs` | ring of frames, dedup filter, tracker, both codes, feedback frames, timer | `receive_datagram`, `poll`, events | Four structures move with every datagram; datagrams are lost, repeated, late and reordered; slots are reused |
| Frame under reception, `codec/receive_frame.rs` | packets, size, flags of one slot | `add_pkt`, `reset_for`, `take_into_feedback` | Packets before data size, data before headers, marks for packets not seen yet |
| Sender session, `codec/encoder.rs` | session counter, sequence number, feedback, packetization, both codes | `encode_payload`, `apply_feedback` | Numbers run through their widths; the header code and the sequence number move before the code may refuse the plan |
| Recovery decision, `fec/streaming/theoretical.rs`, `flow_decode.rs`, `recovery.rs`, `reorder.rs` | none between calls (it is recomputed from the erasures) | `add_frames`, `maxflow`, `recoverable_data` | Two passes of combinatorial search over a sliding window; must neither use a row that covers an unknown column nor claim what is not determined |
| Sliding block code, `fec/block_code.rs`, `fec/streaming/mod.rs`, `stripes.rs` | ring of columns and rows, erasure flags, `ts` | `place_payload`, `update_timeslot`, `pad_frames`, `encode`, `decode` | Slot of a frame is its number modulo an odd window; numbers have two widths |
| Frame-size code, `fec/header.rs` | a second, one-column code | `encode_sizes_of_frames`, `decode_sizes_of_frames` | Sizes are recovered before or after the data they describe |
| Loss report, `loss/*.rs` | none (a report is computed from the purged frames) | `LossComputer::new`, metrics | Verdicts are final; reordering looks like loss |
| Packetization, `packetization.rs` | window of (data, parity), two u16 sums, queue of delayed parity | `plan_frame` | Running sums, a floor, a clamp and a delay interact over a window |
| Feedback and predictors, `feedback.rs`, `predictor.rs` | last feedback, report history | `handle_report`, `apply_feedback` | Feedback is late, lost and reordered; must calm down after losses end |
| Configuration, `config.rs`, `codec/mod.rs` | the builder | setters, `build`, the opening of `Encoder` and `Decoder` | Bounds that other parts rely on; what `build` accepts and what the constructors can open are two different sets; products of two u16 |
| Datagram format, `datagram.rs` | none | `to_bytes`, `from_bytes` | Flag and frame number share a word |
| Coding matrices, `fec/matrix/`, `fec/puncture.rs` | the generator matrix, byte matrices | encode, `invert_matrix_impl`, `matrix_decode_payloads` | Row selection, pivoting and singular submatrices |
| Field arithmetic, `fec/gf/` | tables | multiply, invert, `region_mul_add` | Two fields, three ways to multiply, portable and vector kernels that must agree between machines |

How they interact. `Decoder::receive_datagram` calls, in this order and in one
call: the duplicate filter; the tracker; the window test (a refusal undoes the
filter, not the tracker); `purge_expired` on the ring, which also removes the
purged frames' numbers from the filter and appends their verdicts to the
feedback frames; `fill_missing_frames`; the header code, whose recovered sizes
go to the ring; the packet to its frame; the packet to the payload code; padding
of the columns that known sizes leave empty; decoding; marking decoded frames;
draining recovered frames; and the loss report, when the timer has expired.
`Encoder::encode_payload` asks `plan_frame` for the packet plan at the current
feedback, places the frame in both codes and emits data and parity datagrams.
There are no threads and no callbacks in the library: the interleavings are
those of the channel, the caller's `poll` and the timer.

What makes each component correct, in a sentence:
the tracker gives each frame its own session index; the filter refuses what it
has seen and nothing else; the receiver's windows are one window; deliveries are
intact, unique and not withheld; verdicts are final, ordered and truthful, one
for every frame; the recovery decision is sound and complete enough to be worth
its parity; what it claims is then solved to the byte, on whatever machine; what
`build` accepts and the constructors open never fails afterwards (but for a floor that overflows
u16, section 4.6), and the payload handed over is the one given to the sender, whatever the stripe and packet sizes; the
credit accounting is exact, keeps the configured floor and stays within the rows of
the code; the loss metrics count what was lost; the redundancy follows the losses.

## 2. Modules

```
Recovery          pure: which erased stripes of a window a decode solves
Session           pure: wire numbers, session indices, window tests
  BlockCode       the sliding window of a code  (EXTENDS Recovery, Session)
SeqDedup          the duplicate filter as a record and its operations
    Decoder       the receiver session, with sender and channel
                  (EXTENDS BlockCode, SeqDedup; refines FrameDelivery)
      MCDecoder   model values: shapes of frames
FrameDelivery     abstract: what a receiver session promises
ErasureWindow     the erasures of one window over time (EXTENDS Recovery)
SessionTracker    the tracker over a stream            (EXTENDS Session)
SeqFilter         the filter against a reference set   (EXTENDS SeqDedup)
PacketPlan        pure: parity of a feedback level, split into packets
  Packetization   the sender's parity window and packet plan
  Configuration   pure: the builder, what build accepts, what can be opened
    Transmission  a session from its configuration to the bytes handed over
                  (instantiates Recovery)
      MCTransmission  model values: the builder's settings
LossMetrics       pure: the bitmaps of a loss report and its metrics
  LossReport      the frames that collect for a report
    FeedbackLoop    report, predictor, feedback byte, channel, sender
                  (EXTENDS LossReport and implements it)
      MCFeedbackLoop  model values: ways a frame can end
GaloisField       pure: GF(2^8) and GF(2^32)
  RegionMultiply  pure: stripes times an element, with and without vectors
    CodingMatrix  pure: generator matrix, row selection  (EXTENDS Recovery too)
      MatrixDecode  one decode, round by round, down to the bytes
        MCMatrixDecode  model values: losses, arrivals, machines
CommonLemmas      lemmas about finite sets, sums, counting and division
X_proofs          theorems about X  (EXTENDS X, and CommonLemmas where it needs them)
Numbering_proofs  theorems about SessionTracker and SeqFilter
MCParts           SessionTracker, SeqFilter, Packetization and LossReport in one
                  run: Init chooses the part that moves
```

Names of operators follow the code where TLA+ allows it (`resolve_wire`,
`compact_to`, `add_pkt`, `reset_for`, `is_frame_recovered`, `specs_for_stripes`).
Operators marked *Mutant* are not used by any specification: each is a definition
changed the way a plausible bug would change it, and shows that the property
named with it in `PROJECT.json` notices.

**Session, SessionTracker.** `resolve_wire` is translated with its three
branches. `SessionTracker` gives it a stream: frames come in order with gaps of at
most `MAX_GAP`, or late by at most `MAX_LATE`. `newest` and `arrived` are history.

**SeqDedup, SeqFilter.** The bitmap is the set of bits set; `ShiftedBits` is the
loop of `compact_to` over words, carry included, with `WORD_BITS` and
`TRACK_BITS` as parameters (64 and 8192 in the code); `u32` arithmetic wraps at
`SEQ_SPACE`. `SeqFilter` keeps the set of numbers it should know next to it.

**Recovery.** A window is a function from positions (1 the oldest) to numbers of
missing data stripes and of received parity stripes. `Theoretical` adds the
frames one by one as `StreamingCodeTheoretical::add_frames` does, with the
unusable-slot marking; `MaxFlow` is the augmenting-path search of
`FlowGraph::maxflow`, on the graph `construct_graph` builds, including the double
call of `augment` per edge; `Decode` puts both together as `BlockCode::decode`
does, and solves what the zero pattern of the generator matrix allows
(`Solvable`, Hall's condition).

**ErasureWindow.** One action per arrival: a new frame slides the window, a data
stripe or a parity row arrives; every action ends in `DecodeWindow`, as every
accepted datagram ends in a decode. `before` is history.

**BlockCode.** A code is a record: newest timeslot, unknown columns and known rows
per slot. Three history fields say what the bytes are without having bytes: the
frames whose stripes are in a slot (`owner`), the slots whose solved bytes come
from rows and columns that do not belong together (`damaged`), the frame that
moved the window (`newest`).

**Decoder.** `Encode` is one `encode_payload`; `sent` is the set of datagrams given
to the channel, from which `Receive` takes any member that is at most `MAX_LAG`
frames late, any number of times, or never. `Receive` is `receive_datagram`,
split by the status it returns (`Duplicate`, `Refuse`, `Accept`); `Poll` is
`poll`. Each ends in `EmitPending`. `due` is the feedback timer: it is independent
of everything in the model because the caller's clock is. `delivered`, `again` and
`reported` are history.

**FrameDelivery.** The abstract specification: two actions, `Offer` and `Advance`.
The refinement maps `offered` to the session counter, `delivered` to the
sessions of the `FrameRecovered` events, and `verdicts` to the verdicts of the
feedback frames and of past reports.

**PacketPlan, Packetization.** `PacketPlan` has what `packetization.rs` computes of one frame:
`ParityStripes`, `k_min` of `target_burst_protection`, `TopUp` to the floor of a window,
`specs_for_stripes`. `TopUp` wraps in u16 as a build without overflow checks does;
`TopUpOverflows` and `PacketSumOverflows` say when a build with them panics.
`PlanWithFloor` and `PlanByRatio` are `plan_frame` with and without a `min_window_parity`; both
end in `Emit`, the parity queue and `specs_for_stripes`. Feedback is a parameter any value of
which may come with any frame, a frame is its number of data stripes, and the configuration is
chosen in `Init`. `plan` is the result of the call, `on_wire` history.

**Configuration, Transmission.** `Configuration` is the builder as a record: `Refusal` has the
checks of `build` in their order, `Built` the record it returns, `Opened` what becomes of it in
`Encoder::new` and `Decoder::new`, with the u16 products and the size of the header code's
matrix, in a build with overflow checks and in one without. `Transmission` goes through it all:
the setters in any order (`Set`), `Build`, `Open`, then frames. `encode_payload` plans the frame
(`planner` is the encoder's packetization: `Produced` is the parity planned, `Emitted` what the
delay lets out) and panics in a build with overflow checks if a sum of the plan does not fit
u16 (`PlanOverflows`); a panic ends the session. Otherwise `Encode` is the rest of it, on both
codes of the sender: the header code moves on, the payload is cut into datagrams, the
frame is put together from them and placed stripe by stripe, parity rows are cut and
interleaved; `Refuse` is its early return, and the branch in which the code refuses the plan
keeps what had moved by then. `Receive` is `receive_datagram` in a first lap without
reordering: the datagram through `to_bytes` and `from_bytes`, the header code, the packet into
the grid, padding, decoding, and the frame joined from its stripes. Bytes are told apart by
where they come from: a source, an offset and a length, with zeros behind; so a stripe in the
wrong place, a wrong cut or a wrong length is another value. `sent`, `lost` and `out` are
history.

**LossMetrics, LossReport.** A purged frame is a record: how many packets it had,
which of them arrived, in order of arrival, and whether it was decoded.
`is_missing` replays `add_pkt` with its padding, so that marks for packets that came
later are there, as in the code; `loss_info` is `LossComputer`, `compute_loss_metrics`
the metrics, as ratios of counts (the code divides in `f32`). The loops over bitmaps are
recursive functions and folds (`get_bursts_and_guardspaces`, `get_burst_indices`,
`get_positions_consecutive_losses`); the properties compare them with definitions by
sets of runs. `LossReport` lets frames of every kind collect (`collect_frame`) until the report
is due.

**FeedbackLoop.** `purge_frame` is `collect_frame` of `LossReport` for the frames of this stream
(`FrameEndings`), so that every report is one of `LossReport`; `Report` is the timer:
`maybe_emit_loss_report`, `handle_report` with the history and the wire byte that is put
into the report, and the feedback byte that is sent, or lost; `in_flight` is a bag, so
bytes overtake each other; `apply_feedback` decodes one. The codec's three bytes are
computed from the configuration as `Config::low_redundancy_byte` does. `weather`
restricts what is purged, for liveness only: mixed, then calm or stormy for ever.

**GaloisField, RegionMultiply.** An element is the set of the positions of its one bits;
a byte is a set of bits, a stripe a function from offsets to bytes. `gf_mul_bit` is the
shift-and-add loop, `mul_word` the product by eight tables of nibbles, `gf32_mul_clmul`
the carry-less product with its four folds, `Inverted` the search for w = 8 and the
Euclidean loop for w = 32. `ShuffledByte` and `ShuffledWords` are the vector kernels:
the 64-bit shift that drags bits of the next byte along, the transposition of sixteen
words by packs and unpacks, the lookups, and the transposition back. NEON and SSSE3
kernels move the same bytes to the same places by other instructions, and are the
same definition.

**CodingMatrix, MatrixDecode.** `Generator` is `set_cauchy_matrix`; `RetainedRows` and
`RecoverableCols` are the row selection of `recovery.rs` on top of `Recovery`. `MatrixDecode`
is one call of `BlockCode::decode`: `Select` chooses unknowns and equations,
`Eliminate`, `Singular` and `Substitute` are rounds of `invert_matrix_impl`, `Subtract` and
`RecoverStripe` rounds of `matrix_decode_payloads_impl`, `Unmark` the update of `erased`.
The sender's machine is portable, the receiver's is part of the setup.

### Abstractions

- A datagram of `Decoder` carries one stripe; payload bytes are represented by the frame they
  belong to. `Transmission` has datagrams of several stripes and says of each byte where it
  comes from; `MatrixDecode` has the arithmetic on the bytes.
- The channel of `Transmission` loses datagrams and keeps their order, and its session ends
  before the wire numbers repeat: duplicates, delay, reordering and wraps are in `Decoder`.
- `Packetization` keeps the running sums of the window and wraps as a build without overflow
  checks does; `Transmission` sums the window anew, which is the same (`SumsMatchHistory`), and
  has both builds.
- In `Recovery`, what a set of rows can solve is decided by the zero pattern (Hall's
  condition); `MatrixDecode` shows where the coefficients disagree (section 4).
- All codes are built with the ratio (v, u) = (1, 0), as every caller in `src/` does; the u
  stripes are left out.
- In `Decoder` the packet list of a `ReceiveFrame` is the set of positions received, a vacated
  slot has one form, and a purged frame is its verdict: session and whether it was decoded. The
  marks for missing packets are in `LossMetrics`.
- A predictor sees of a report the wire byte, whether anything was lost and whether guard space
  was short: that is all the two predictors of the library read.
- `MatrixDecode` reads the matrix directly: the punctured copies and the caches of coefficients
  and tables hold the same values. A stripe is one block of 64 bytes.
- The columns of a frame-size code damaged by a bad solve hold `WrongSize`, one size outside
  the legal range.
- The datagrams `pad` invents for frames with no packets carry no sequence numbers.
- Order of events within one call, and the error returns of `add_packet` (which validated input
  never reaches), are left out.

## 3. Runs

All runs but `matrix_decode`, `transmission` and `floor_overflow` check deadlock: these systems never stop, a
receiver can always be polled. `MatrixDecode` is one call, which ends; a session of `Transmission`
ends when its configuration is refused or cannot be opened, or with a panic.

| Run | Bounds | What it shows |
|---|---|---|
| `erasure_window` | tau = 2 (5 frames), 1-2 data and 0-2 parity stripes | Over every erasure pattern a receiver can get into: what is solved is determined by what arrived (`SolvedIsDetermined`, against an independent definition by subsets), retained rows cover no unknown column, a frame that a decode finds alone in missing data is solved as soon as the parities over it suffice |
| `decoder` | tau = 1 (ring of 3), 5 frames, the second of 2 data and 1 parity stripes, the others of 1 and 1; wire space 16 | The receiver under every loss, duplication, delay and reordering of the datagrams: the windows of ring, filter, tracker and codes are one; deliveries are intact, unique and not withheld; verdicts are final; skipped frames are counted; `ImplementsDelivery` |
| `parts`, tracker | wire space 32, gaps to 16, five laps | The tracker follows, gap of half a lap included |
| `parts`, filter | 8 bits in words of 2, numbers 0-13 | The bitmap is the reference set through every compaction, when the stream has no jump |
| `parts`, plan | window of 3 frames of 1-8 data stripes, 5 rows, floor 0, 4 or 65535, delay 0 or 1 | The sums are exact, the floor holds in the plan and on the wire, any tau + 1 frames are planned a parity stripe for each packet of the burst that `target_burst_protection` was told of, the plan fits the code, the packets carry the plan |
| `parts`, report | up to 4 frames of up to 2 packets in every order of arrival | The bitmaps hold the losses a receiver can notice; histograms, densities and multi-frame bursts are what independent definitions give |
| `feedback_loop` | up to 2 frames between reports, of four kinds (complete, lost, last packet lost, out of order), 2 feedback bytes on their way, history of 2 | The sender uses only levels that were recommended, the history is a chain, a report raises the level exactly when a loss was noticed or packets came out of order; after the losses it returns to none, while they last it stays up |
| `matrix_decode` | tau = 1, 4 data and 2 parity stripes; 128 patterns of losses and arrivals, 24 machines and alignments, one case of four unknowns | The inversion is exact round by round in both fields and with every multiplication; a stripe called solved is what was sent, between machines with different kernels; a frame's own parity never leads to a singular system |
| `transmission` | up to 3 settings away from the defaults, with tau 0, 1, 3, 7, 8, stripes of 32 to 1536 bytes, up to 65535 of them a frame; 2 frames of 300 or 2048 bytes in stripes of 256, 2 losses | What `build` accepts and the constructors open never fails to encode, but for the panic of 4.6; the two sides hold the same bytes in the same places of both codes; every frame is handed over as the payload that was given, with its length; direct reception is reported exactly when no data was lost |
| `wrap` (violation) | wire space 8, frames 10-12 | see 4.1 |
| `seq_filter_gap` (violation) | as the filter of `parts`, with jumps of 2 | see 4.2 |
| `tracker_late` (violation) | as the tracker of `parts`, lateness to 2 | see 4.3 |
| `fixed_point` (violation) | tau = 3, one data and one parity stripe a frame | see 4.4 |
| `burst` (violation) | tau = 1, frames of up to 10 data stripes, two stripes a packet, floor 6 | see 4.5 |
| `floor_overflow` (violation) | the default configuration with a floor of 65535, one frame of 300 bytes | see 4.6 |

Why these bounds are enough. The window of the receiver is 3 with tau = 1 and five frames are
sent, so that slots are taken over twice, with late datagrams of the old frame still on their
way, and a gap may fill the whole ring; all slot reuse in the receiver is of this kind. All
three ways to deliver occur (complete, recovered by own parity, recovered by a later one), and
the larger frame makes the others leave a column empty, which padding may declare zero only
once their size is known. In `ErasureWindow` tau = 2 gives interior positions, whose parities
overlap on both sides; frames of two data stripes can lose one and keep one, and can have fewer
parities than losses. The parts of `parts` do not interact: the run is one only because each of
them is small, and its states are the sum of theirs. `SeqFilter` compacts several times over words of two bits. In
`Packetization` the window slides over frames of every size with both values of feedback, and
the floor 4 is below the 5 rows while floor plus ratio is above them, so that the clamp acts; with
the floor 65535 the target wraps.
`LossReport` has bitmaps of up to eight packets and four frames, with runs at both ends and in
the middle and thresholds of one and two. In `FeedbackLoop` two bytes on their way overtake
each other, and a history of two is trimmed. In `Transmission` the sizes are an empty payload,
one that ends inside a stripe, the largest and one more; a floor (65535, or one for a burst) and
a delay are among the settings, so that plans are topped up, delayed and overflow; packets carry one
stripe or two (with a `max_pkt_size` of 600), tau = 0 takes the one slot over again, and a lost
first packet takes the frame's size along with its data, so that both codes solve. `MAX_GRID`
bounds what is run, not what is built and opened: frames are sent for tau 0, 1 and 3 with
stripe counts up to 8. In `MatrixDecode` the losses lie in two overlapping frames, so that
equations of both are needed; every byte of every stripe is different.

Bounds with a name: `MAX_FRAMES`, `MAX_LAG` (Decoder), `MAX_SESSION`, `MAX_GAP`, `MAX_LATE`
(SessionTracker), `MAX_SEQ`, `MAX_SKIP` (SeqFilter), `MAX_PACKETS`, `MAX_WINDOW` (LossReport),
`MAX_IN_FLIGHT` (FeedbackLoop, with the two of LossReport), `MAX_SETTINGS`, `MAX_FRAMES`, `MAX_LOST`,
`MAX_GRID` (Transmission), `Setups` (MatrixDecode), `StripeBytes` (RegionMultiply). `SizedSpec`
of `MCDecoder` fixes which frame is large. `ErasureWindow` and `Packetization` have finitely
many states without a bound. The passing run of `Decoder` stays in the first lap of the wire
numbers, because past it the finding of 4.1 breaks delivery; in `parts` `MAX_SKIP` is 1
because of 4.2 and `MAX_LATE` is 0 because of 4.3. `SkippedAreCounted` speaks
of gaps up to the ring's length; longer ones are an observation of section 4.

Fairness. Only `FeedbackLoop` assumes any: weak fairness of frames leaving the window
(a running stream), strong fairness of the reports whose feedback is not lost (the
timer expires again and again, and the network does not lose every datagram) and of
the delivery of feedback on its way. The library justifies none of this by itself, as
it has no clock and no socket; it is the environment its README describes. `ReactsToLoss` is
about a storm in which between any two reports some frame with a loss the receiver can
notice leaves the window. Elsewhere nothing is assumed: the receiver acts only when it is
called and each call does all its work before it returns. What would be liveness in
another design is safety there: `CompleteIsDelivered` and `LoneLossSolved` say that a
call does not return with something deliverable withheld.

## 4. Disagreements between code and documentation

Each is a run whose one property TLC finds violated.

1. `wrap`: the sender places a frame by a u16 timeslot, the receiver by the 15-bit wire
   number. The window length is odd, so in every odd lap of 32768 frames the two
   disagree about the slot, hence about matrix coefficients, and a frame
   recovered from parity has other bytes than were sent.
2. `seq_filter_gap`: a compaction that is not by a multiple of the word size carries
   bits into the wrong neighbouring word; a number never seen is then refused as
   a duplicate.
3. `tracker_late`: the branch of `resolve_wire` for a datagram of the previous lap
   requires the tracker to be at wire number 0 exactly; one that comes after wire
   number 1 moves the tracker ahead by almost a lap, where the comment promises the
   closest index.
4. `fixed_point`: `decode_until_fixed_point` makes two passes. With tau = 3, the default, there
   are windows in which the second pass makes a third worth while; the frame it would solve
   stays erased until another datagram comes.
5. `burst`: `target_burst_protection` promises parity to recover a burst of that many lost
   packets. The floor it sets counts one stripe for each packet, while `plan_frame` puts several
   stripes into a packet where they divide the frame's data and parity. In the run, with a burst
   of 4, a frame of ten data stripes in packets of two loses eight of them, and tau + 1 frames
   have four parity stripes. With the default tau = 3, a burst of 8, no feedback and frames of 20
   data stripes, eight lost packets are 16 stripes against 8 of parity.
6. `floor_overflow`: `min_window_parity` may be any u16, and is documented as capped at
   `max_fec_stripes`. The cap comes after a u16 addition (`packetization.rs:123-124`): with
   65535 and a feedback of Low or High the first `encode_payload` panics in a build with overflow
   checks. `AcceptedNeverFails` says that nothing else makes an opened session fail, and bounds
   the floors that can.

Further observations that no run states:

- Packets are marked missing only before one that arrived, so when the last packets of a frame
  are lost no lost packet is in the report, and the high-bandwidth predictor, whose comment
  promises High for any loss in the window, recommends nothing. `NoticedLossRaises` speaks of
  the losses a report can show, and of frames out of order, which always show one.
- `Tau::MAX` is 8 and the repository README gives the range 1 to 8, but no session opens with
  tau = 8: the header code has 255 elements for rows and columns, and 17 frames leave no row.
- `build` accepts what the constructors cannot open: `(max_data_stripes + max_fec_stripes) * (2
  tau + 1)` must not exceed 256 for `W8` or 65536 for `W32`, the packet size must be a multiple
  of 8, and there must be a parity row. With overflow checks a stripe count whose product
  passes u16 panics in the constructor; without, the wrapped product is no multiple of the
  window length and the constructor ends in an `expect` or an error. Never does a session open
  with a wrapped product: `AcceptedNeverFails`.
- `ParityCapacityOverflow` is unreachable: its check is in u32, where its comment speaks of
  u16.
- `target_burst_protection` casts to u16, so that a huge burst leaves a small floor, and a
  burst of 0 resets the floor.
- When the code refuses a plan, `encode_payload` has moved its sequence number and its header
  code already. No configuration that opens gets there (`AcceptedNeverFails`).
- A frame lost as a whole before the first datagram that arrives is never in the ring, so it is
  in no loss report.
- `decode_frame` in `theoretical.rs` counts a frame as decoded by its own parity although
  `set_unusable` rules that parity out because it covers an older frame that is lost for good;
  `decode` then finds no row for it and solves nothing until that frame leaves the window.
- A mark for a packet that has not come yet is not removed when it comes, so a frame received
  in full but out of order is reported with losses. `LossesAreMarked` therefore asks for exact
  marks only of frames whose packets arrived in order.
- When more frames are skipped than the ring has slots, the placeholders overwrite each other
  before they are purged, and the overwritten frames are in no loss report.
- The guard space at either end of a bitmap is counted as short although what lies beyond the
  report is unknown; a report of no frames at all is one without losses.
- `build` accepts configurations in which feedback bytes collide (a step factor of 1, a high byte
  of 0 or 255). The sender then hears the first level with that byte: `LevelWasRecommended`
  speaks of the byte, and of the level only if the three differ, which `BytesUsuallyDiffer` proves
  of all the other settings. With a high byte of 0 every level is heard as none, so `ReactsToLoss`
  is about a high byte other than 0.
- In a build without overflow checks a floor whose target wraps still gives each frame its even
  share, so that `WindowFloor` holds all the same; only in a window of one frame (tau = 0), where
  the share is added to the ratio in the same sum, is it lost (`FloorFits`).
- The submatrix of chosen equations can be singular: with tau = 1, four data and two parity
  stripes and timeslot 0, columns 1, 8 and 11 lost and rows 0, 1 and 5 arrived, its determinant
  over GF(2^8) is zero. `matrix_decode` reaches `Singular` there; the call returns that nothing
  was recovered. Three equations for three unknowns were there, so `Solvable` in `Recovery` is
  optimistic in such cases.
- The four-word kernel of `x86_gf32_split4.rs`, for the tail of a region, keeps three bytes of
  a word where one is meant; the surplus lookups are of entry 0, which is 0.
- `FlowGraph::maxflow` calls `augment` for an edge and for its reverse; with two data stripes a
  frame the residual capacities move twice and the flow can stop early.
- At the 15-bit wrap `updated_ts` walks u16 timeslots and clears the whole window.
- `packetization.rs` promises ratio(total data) + K_min in the window at all times; the clamp
  to `max_fec_stripes` can leave less. `WindowFloor` states what holds: the floor itself, or
  `max_fec_stripes` when that is less.
- The repository README says of `min_window_parity` that the parity is in flight at any time;
  with a `parity_delay` the first frames carry none. `WireFloor` is the statement from the
  first planned frame on.

## 5. Proofs

Checked by tlapm 1.4.5, for every value of the constants that the named
assumptions allow; no obligation is left open.

| Module | Theorem | Says |
|---|---|---|
| `Numbering_proofs` | `ResolveInOrder`, `TypeCorrect`, `TrackerFollowsStream` | `resolve_wire` is right for every frame at most half a lap ahead, in every lap, for every even wire space; the tracked index never underflows; without late datagrams it is the stream's |
| `Numbering_proofs` | `BitmapIsKnownWithoutGaps`, `BitmapIsKnownByWords` | The duplicate filter's bitmap is the set of accepted numbers through every compaction, when no number is skipped, or when each move of its window is by whole words |
| `Decoder_proofs` | `DeliveredOnceAlways`, `RingWithinWindowAlways`, `SkippedAreCountedAlways` | No frame is handed over twice; every occupied slot is in the window and is its session's own slot; the frames a burst skips, if the ring has room for them, are in the ring afterwards |
| `Decoder_proofs` | `WindowsAgreeInFirstLap`, `SlotsUnmixedInFirstLap`, `DeliveredIntactInFirstLap`, `CompleteIsDeliveredInFirstLap`, `VerdictsAreFinalInFirstLap`, `ImplementsDeliveryInFirstLap` | Until the wire numbers repeat: ring, codes and tracker are at one frame; no slot mixes frames; what is handed over is what was sent; nothing complete is withheld; verdicts are ordered, single, true and final; the receiver session implements `FrameDelivery` |
| `Decoder_proofs` | `DedupMatchesRingInFirstLap` | While the stream has not outrun the numbers the duplicate filter tracks, the filter knows the packets of the frames in the ring and no others |
| `Transmission_proofs` | `AcceptedNeverFailsAlways`, `GridsAgreeAlways`, `PayloadReassembledAlways`, `DirectMeansCompleteAlways` | For every setter value the types allow, every sequence of payloads and every loss: a session that opens never returns an error for a payload it admits, panics only with overflow checks and a floor too large for u16, and its codes fit their indices; sender and receiver hold the same bytes in the same places; what is handed over is what was given to `encode_payload`, and is called direct exactly when no data datagram of it was lost |
| `ErasureWindow_proofs` | `TypeCorrect`, `RetainedCoversNoUnknownAlways`, `SolvedIsDeterminedAlways`, `LoneLossSolvedAlways` | Missing and received counts stay within what a frame has; a parity that may be retained covers no frame that stays unknown; both passes solve only what the stripes that arrived determine; a frame alone in missing data is solved as soon as the parities over it hold enough stripes |
| `FeedbackLoop_proofs` | `LevelWasRecommendedAlways`, `BytesUsuallyDiffer`, `HistoryIsChainAlways` | For every high byte and step factor that `build` accepts and whatever the channel does, the sender's level has the byte of none or of one that was recommended, and is that level when the three bytes differ, as they do for a high byte from 1 to 254 and a step factor above 1; each report a predictor learns from carries the byte of the level the one before it led to |
| `FeedbackLoop_proofs` | `LoopDrivesReport`, `LoopReportsAreTrue`, `NoticedLossRaisesAlways` | The loop implements `LossReport`, so that every report in it has the properties proved there; a report asks for no redundancy exactly when every frame came in order and without a loss the receiver can notice |
| `Packetization_proofs` | `SumsStayInU16`, `SumsMatchHistoryAlways`, `WindowFloorAlways`, `StripeBurstIsCoveredAlways`, `WireFloorAlways`, `ParityFitsCodeAlways`, `PacketsCarryPlanAlways` | The u16 sums neither under- nor overflow and are those of the window; the floor holds, on the wire too; any tau + 1 frames are planned a parity stripe for each packet of the burst the floor was computed for, which covers the burst if a packet carries one stripe (4.5); no plan exceeds the rows of the code; packets carry each stripe once and fit |
| `LossReport_proofs` | `LossesAreMarkedAlways`, `BurstsSpanFramesAlways`, `HistogramsAreRunsAlways`, `DensitiesMatchRfcAlways` | Whatever arrived of the frames and in whatever order: the report's bitmap marks what a receiver can notice; the bursts over several frames are the runs of lossy frames; the histograms count each run of losses and of receptions once; the densities are those of RFC 3611's bursts and of what lies between them |

*Assumptions.* `FrameSpaceAssumption` (the wire space is even and not empty),
`DelayAssumption`, `DecoderAssumption`, `DedupAssumption`, `StripesAssumption`,
`TrackerAssumption`, `LoopAssumption`, `TransmissionAssumption`, `PacketizationAssumption`,
`MetricsAssumption`, `ReportAssumption`: the ranges of the constants, as the types of the code,
`ConfigBuilder::build` and the constructors give them.
`PacketizationAssumption` contains the answer of `build` to the largest frame
and the rows and columns that the constructors admit (`WINDOW * (MAX_DATA + MAX_FEC)` is at most
the size of the field); the floors are all of u16. `LoopAssumption` allows every byte and every
step factor. Only `PositionsAssumption` is not checked by the code:
the metrics count positions in u16, so the theorems of the loss report are about
reports of fewer than 2^16 positions. TLC evaluates each of them in a run. The
theorems of `Decoder_proofs` named *InFirstLap* have one more, `FirstLap`, in their statements: the stream ends
before the wire numbers repeat (`FIRST_FRAME + MAX_FRAMES <= FRAME_SPACE`) and no datagram is
late by more than half the wire space. The run `decoder` satisfies it; the run `wrap` does not,
and shows that the intactness of deliveries ends there. `DedupMatchesRingInFirstLap` also has
`InFilter`: the stream is no longer than what the filter tracks (8192 datagrams in the code), so
that `compact_to` is never called; beyond that `Numbering_proofs` says when a move of the
filter's window is exact, and the run `seq_filter_gap` shows one that misplaces what the filter knows. The run `decoder` satisfies it too. `GridsAgreeAlways`,
`PayloadReassembledAlways` and `DirectMeansCompleteAlways` assume `MAX_FRAMES <= WIRE_FRAMES`: the receiver of `Transmission`
takes the 15 bits of a datagram for the frame number, and leaves the laps to `SessionTracker`.

*Tracker.* `TrackerFollows` (the tracked index is the last frame's) is strengthened
to `Following`: the last frame is also the newest, since a step compares the next
frame with the newest. The step is `ResolveInOrder`, whose heart is `NextLapOrSame`:
a frame at most half a lap ahead is of this lap or the next, so that the
comparison of wire numbers decides which.

*Filter's window.* `BitmapIsKnown` needs that a bit is never set outside the tracked numbers and
that a compaction moves every bit to the place of its number. The words of `compact_to` carry
the wrong way, so the second holds only of moves by whole words; for these `MovesByWords` is a
hypothesis on the step. Without gaps it need not be assumed: a window moves when the newest number
is one past its end, and it moves by half its length (`BitmapIsKnownWithoutGaps` shows that every
step of such a stream moves by words). Its two hypotheses, `MAX_SKIP = 1` and a length of an even
number of words, are those of the run `parts`; the second holds of the code's 8192 bits in
words of 64.

*Receiver.* `DeliveredOnce` is not inductive. What prevents a second delivery is
the flag in the ring entry while the entry lives, and the window afterwards. The
invariant `Remembering` says so: every frame handed over is at most
`last_session_index`, and is either still in its slot with the flag set or
has left the window for good. It includes `RingOK` (each entry in its own slot
and within the window). Its preservation is one lemma per action; the heart is
`OpenedRemembers`, that purging, filling and occupying never open an entry for a
session that had been delivered: two sessions of one slot are at least
`NumFrames` apart, so the older is out of the window. The recovery decision, the
codes, the filter and the channel are left opaque: the theorem holds whatever
they do, across laps, and when the tracker resolves wrongly. `SkippedAreCountedAlways` is of the
same kind: `OpenedHoldsSkipped` gives each skipped frame a slot of its own
(`AcceptKeepsPlaces`: nothing after the opening moves a frame).

*Receiver in the first lap.* Here the two codes are opened. A frame is its own wire number and
its own timeslot, so each code gives every frame of its window a slot of its own: `InStep` says
that a slot holds stripes of its frame or none, that nothing in it was solved wrongly, and that
a column not erased belongs to a frame of the window. `InLap` joins it with `Remembering`, with
the sizes the ring holds (a known size is the one that was sent) and with the deliveries. Each
of the moves of a code (advance, place, pad, decode) keeps `InStep` by a lemma of its own, for
any window length, any frame shapes and any order of arrival; the recovery decision stays
opaque but for what it returns: erased columns of the window. Completeness needs the converse,
that what arrived is still there: `HoldsArrived` ties the positions in the ring to the columns
known in the payload code and the size in the header code, and `CompleteInLap` carries it
through the purge, the padding and the drain at the end of the call.

*Verdicts and refinement.* `VerdictsInLap` adds to `CompleteInLap` that nothing recovered is
left to hand over between calls, that the two flags of a frame in the ring agree with each
other and with what was handed over, and that the verdicts (`Closing`) are of frames that have
left the window, are true, and include every delivered frame that left it. A verdict is final because a frame
that left the window is never opened again; it is true because the flags agree when the frame
is purged, and what is handed over in the same call lies in the new window. The verdicts are in order because
those of one purge are (`PurgedInOrder`: the k-th has k - 1 expired frames before it) and the
window only moves up. The same step lemma (`NextVerdicts`) shows that `Encode` is an `Offer`
and every other step an `Advance` or a stutter of `FrameDelivery`, which with the initial states gives
`ImplementsDeliveryInFirstLap`.

*Duplicate filter.* The filter and the ring are two records of the same thing, and the danger is
that a path updates one of them only: a datagram refused after its number was inserted, a frame
purged, a number that is in the filter for another frame. `DedupInLap` adds to `InLap` that the
filter's window starts at 0 (`IsFilter`), that its bits are the numbers the ring holds (`Held`),
and what makes a number the name of one packet: `Numbered` says of the sender that the numbers of
a frame are a run of their own, `RingSent` of the ring that `first_sqn` of a frame is the number
of its first packet, whichever packet of it came first. With it `purge_frame` clears the numbers
of its own frame and of no other, and the rollback of a refused datagram takes back the one bit
that this datagram had set.

*Opened sessions.* `AcceptedNeverFailsAlways` rests on three facts. `WrappedIsNoMultiple`: an
odd window length below 18 shares no factor with 65536, so a product that wrapped is no
multiple of it, and such a configuration does not open. The data stripes of a payload grow with
its size, and the parity of a level with the data, so that the two questions `build` asks about
the largest frame answer for every frame. And `build` is the only way to `Open`. With a floor
the plan is `TopUp`, cut to `max_fec_stripes`, and what the delay lets out was planned so for an
earlier frame (`PlannerHolds`, which also bounds the window that is summed; `PlannerKeeps`). The
sums: rows and columns of a window fit the field, hence u16 (`WindowFitsCode`), so that only a
sum with the floor in it can be too large, and then the floor is that large. The packets of a
frame, summed in u16 too, are no more than its stripes (`PacketsAtMostStripes`), which without a
floor are fewer than the field has elements (`OverflowNeedsFloor`).

*Bytes.* `GridsAgree` speaks of the moment when the receiver is at the sender's frame;
`SessionHolds` says what holds between such moments. The sender's grids hold the payload and the
size of each frame of the last window, cut into stripes, in a slot that no other frame of the
window has (`SenderHolds`; `RegionsApart` is the arithmetic of it). A datagram in the channel
holds positions of those grids: the payload was cut into packets and the packets' join cut into
stripes, and both cuts meet at the same places because a packet holds whole stripes (`Carries`,
`DataPayloads`, `ParityIsCarried`). The receiver agrees with the sender, on what it knows, for
the frames that both have (`ReceiverHolds`). When the sender writes a frame it disturbs only the
slot of a frame that leaves the window (`SenderKeeps`); when the receiver enters that frame it
clears the slots of all it skipped, and from then on agrees everywhere (`GridAdvances`). Every
later step of the call places or solves what the sender has, so that `Agree`, on which solving
depends, is never false. A frame all of whose columns are known is then joined to its payload,
with the length of the last stripe computed from a size that is the one sent. The recovery
decision is opaque here too: whatever columns it says can be solved.

*Direct reception.* `all_data_received` compares bytes received, filling zeros included, with the
frame's size, and the answer is given when the frame is handed over. `SessionCounts` counts them.
The data packets of a frame are of one size and are just enough for it (`SentOnWire`), so the
bytes reach the size with the last packet and not before (`AllArrived`): for a frame that is no
longer the sender's last, that settles it. For the last frame the danger is that it is handed
over while data packets of it are on their way, and called indirect although they arrive. It is
not, because then no parity of it has come, its last column is unknown, and the recovery decision
does not solve it (`DecodeTwiceSkipsNewest`): without a parity of its own the newest frame is
never a step of the search, and no earlier step changes what it misses. This is the one place
where the theorems of the session look into the decision.

*Sums, counts and recursion.* The library's induction theorems take an operator as a
parameter, which the provers here cannot instantiate. `CommonLemmas` goes around them: the
finite subsets of a finite set are well-founded under removal of an element, so that a statement
about sets of sets can be proved by `SetInduction`; a recursive function over finite sets exists
(`RecursionExists`) and has its unfolding equation, from which the sums of the community modules
(`SumFunctionOnSet`, folds over a set) are shown to be sums: adding and removing an element,
splitting, shifting, bounding and comparing them.

*Packetization.* The invariant is `Accounted`: types, floor, and that the two running sums are
the sums over the history; a slide of the window takes the first term from each and adds the
last. From it follow the u16 bounds, in particular that the subtraction of the leaving
frame does not underflow, and the floor (`AdjustedIsEnough`: a frame
brings the window to the floor or carries all the rows there are). When the target wraps, the
floor is so large that the even share alone fills the frame's rows (`LargeFloor`), if the window
has more than one frame. The burst, counted in stripes, rests on even
shares: every frame of the window is planned at least its share of the floor when it could carry
more, so any tau + 1 of them hold tau + 1 shares, and `k_min` was computed so that they suffice.
For the wire, the frames planned and those sent form one line, the queue between the two windows
(`WireFed`): the wire window is the part of the line `parity_delay` frames earlier, and the floor
holds along the whole line (`FloorAlongLine`), not only for its newest window. `PacketsCarryPlan`
needs that the common divisor `specs_for_stripes` looks for exists: among the divisors, finitely
many and not none, one has none above it (`LargestOf`, by counting those above each).

*Recovery decision.* The decision is a search with early exits, then two passes of a flow. What
the proof needs of it is little, and holds at every step of the search: a parity that is not
marked unusable covers no missing frame outside the recovered ones, since a frame is recovered or
marked in the same step as the parities that could not help it; and the flow, in which an edge
may be augmented twice, never takes more from a parity node than the excess it was given,
whatever path the breadth-first search finds. With it the second pass uses only stripes that the
first left, and a demand that both passes fill is filled by the parities that `Determined` allows.

*Lone loss.* `LoneLossSolved` asks the converse, that the decision finds what there is, where the
loss is one frame's. The early exits of the simulation are followed frame by frame (`LoneAfter`):
until the parities over the loss have come nothing changes, then the frame is called recovered and
no parity is disabled (`LoneTheory`). In the flow, an edge augmented twice could end up without the
capacity that is left in it. `LoneFlow` shows why it does not: the breadth-first search visits all parity
nodes with an excess before anything else, so it ends after one edge (`SearchFinds`), and each
augmentation either takes the whole of its parity node, whose edges are used no more, or meets the
demand (`FlowStep`). Every augmentation takes at least one stripe, so the demand is met within as
many rounds as there are stripes missing (`LoneFlowFills`).

*Feedback.* `LevelWasRecommended` is strengthened to say that whatever is on its way, too, is
the byte of a level that was recommended (`Advertised`); the step of delivery is
`CodecKeepsByte`, that what `decode` makes of an encoded level is one level with the same byte,
also where two levels share one. `HistoryIsChain` is strengthened by the types (`Chained`): a recommendation
does not read the byte that `handle_report` puts into the report (`ByteIsNotRead`).

*Loss report.* The frames collect and are handed over whole, so the invariant (`Collected`) is
only that they are frames that were purged; the content is in the operators. A packet that
arrives ahead of its position brings one mark for each position skipped, and no mark is taken
back, so that the marks of a frame are counted arrival by arrival (`MissingCounts`); the
frames' marks lie behind each other in the bitmap, where `indices` says (`Flattened`). The
search for bursts over several frames goes forward from each frame and jumps over what it found:
by induction from the last frame down, what it lists from a frame on are the long runs that begin
there or later (`SearchFinds`). The histograms are compared with the runs by weights: whatever a
length weighs, the sum over the histogram is the sum over the runs (`HistogramOf`), of which the
mean length, the number and the share of short ones are instances. The pass keeps, at each
position, that the runs that ended are counted, and where the one in progress began (`ScanOK`).
For the densities, a burst of RFC 3611 is a cluster of losses. The search never stands inside a
cluster (`Closed`), so its list from a position on is, by induction downward from the end of the
bitmap, the clusters that begin there or later (`ClustersFound`); dropping the lone losses
(`EliminateSingles`) leaves the bursts, and the ranges between them are the rest of the bitmap
(`GapsAreRest`), so that both densities count over the sets the definition names.

*Reports in the loop.* `FeedbackLoop` extends `LossReport` and maps to it by its own variable:
purging a frame is `collect_frame`, a report empties the collection, everything else stutters
(`LoopDrivesReport`). So whatever is proved of the reports of `LossReport` is true of those the
predictors learn from (`LoopReportsAreTrue`). `NoticedLossRaises` is the count of marks again: a
report shows no loss exactly when no frame has a mark (`MarkedIffSeen`, `LossIsSeen`), and an
out-of-order frame always has one, since the packet that came too early marked those before it.

*Only model-checked.* The violations of section 4; the receiver's windows, intactness, completeness and verdicts beyond the first lap, and its filter once the
window of that moves; the duplicate filter once the stream has gaps and its window moves by
parts of words; the liveness of the feedback loop; the byte-level decode. Out of the prover's reach by
nature: liveness and ENABLED, induction over data in its library form, and RECURSIVE operators;
the recursive definitions are in modules whose theorems leave them opaque or are written as
recursive functions.

## 6. Not modelled

- `datagram.rs`, `util/serialization.rs`: the big-endian bytes of each field, and the refusal
  of a header cut short, which changes nothing.
- `fec/gf/`: the tails of stripes shorter than a vector (no stripe has one, a packet size is a
  multiple of 8 bytes) with their four-word kernels, the gather kernels that the dispatch does
  not use, the caches of tables, the detection of CPU features.
- `fec/matrix/`: the `parallel` feature (off by default) with its own inversion; dimension
  checks and accessors.
- Predictors given by the caller; the `f32` rounding of metrics.
- `config.rs`: the feedback interval, which is the nondeterministic timer of `Decoder`; errors,
  plain types, benches.
- The end of the u32 sequence space, and what a receiver does that joins a running stream long
  after its first frame.

## 7. Plan

Done, in this order: `Session` and `SessionTracker`; `SeqDedup` and `SeqFilter`; `Recovery`
and `ErasureWindow`; `BlockCode`, `Decoder` and `FrameDelivery`, the receiver session
being the most important behaviour; `Packetization`; `LossMetrics` and `LossReport`;
`FeedbackLoop`; the field, the matrices and `MatrixDecode`; `PacketPlan`, `Configuration` and
`Transmission`; the theorems of section 5, those of the first lap and of opened sessions last.

Next:

1. The end of the u32 sequence space in `SeqFilter`, and a run of `Decoder` across laps
   restricted to what holds there.
2. Composition of `FeedbackLoop` with `Packetization` through the feedback parameter.
3. Proofs: of the inversion in `MatrixDecode`, round by round; of the transpositions, that one
   undoes the other, and that `FromNextByte` never reaches a result.
