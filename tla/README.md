# TLA+ model of steganographer

`steganographer` signs media, hides the signed packet inside the media itself (pixels,
samples, text, documents), and verifies such packets. This directory models the parts of
it whose correctness depends on order (threads, tasks, callbacks, cancelled requests, lost
and repeated messages, other processes on the same files) and the algorithms with many
corner cases (placement, framing, budgeted parsers). Everything is translated from the
sources; `PROJECT.json` maps each definition to the lines it stands for.

## The system

| component | source | state | operations | hard behaviour |
|---|---|---|---|---|
| Live frame pipeline | dashboard `ws_handler.rs` | two artifact caches, a revision counter, the verification queue, a `VerifySlot` per artifact | encode a frame or an audio chunk, verify, poll, read the newest digest | four kinds of actor on three locks, a condition variable and a notification; eviction from a full queue |
| GStreamer elements | gst `elements.rs`, `audio_element.rs` | one stream record: packet, key, bits, frame counter, two generations, delivery flag | setters, start/stop, caps, transform | a buffer is processed on a snapshot without the lock while setters run |
| GStreamer bridge and file filters | gst `lib.rs`, `video_filter.rs`, `audio_filter.rs`; cli `cmd_video.rs`, `cmd_audio.rs` | two pipelines, their queues and buses | pull, sign, embed, read back, push, drain | bounded waits on two sides that may fail, stall or end at any time |
| Data-channel framing | dashboard `webrtc.rs` | partial messages of a peer, retained bytes | push a chunk, expire | chunks lost, repeated, reordered; four budgets; an absolute lifetime |
| WebRTC sessions | dashboard `webrtc.rs` | registry, publisher table, per peer: stop flag, two drain gates, permit | offer, events, frame pump, media pump, remove, sweep | cancellation at any await, removal while work runs, partial failure of the negotiation |
| Browser client | dashboard `static/*.js` | camera, microphone, sockets, signing request, displayed verdict, archives, panels | start, stop, sign, poll, reconnect, fall back, save, refresh | continuations that find the page changed since their await |
| Dashboard API | dashboard `lib.rs` | config, metrics, OTS receipt and outcome | config, metrics reset, stamp, verify, status | answers of calendars arrive late, newer media is cached meanwhile |
| OTS client | core `ots_client.rs`, `ots_handler.rs`; cli `cmd_ots.rs` | rate limiter, receipt | submit, upgrade, verify | partial calendar failure, late answers, restarts |
| Proof store | core `ots_client.rs` | proof files | save, load | no-clobber publication, a crash between link and unlink |
| Packet format and transforms | core `packet.rs`, `transforms.rs`, `encryption.rs`, ... | none between calls | apply and reverse five optional transforms, frame, decode, nest | order of the layers, descriptors of other writers, damage, limits; fail closed |
| Packet commands | cli `cmd_packet.rs`, `media_io.rs`, `key_policy.rs` | carrier and payload files, the revocation list | encode, decode, extract, revoke | several processes on the same files; candidate strengths and placements; trust |
| Legacy commands | cli `cmd_encode.rs`, `cmd_verify.rs` | media, sidecars, shard groups, key files | encode, verify, keygen, derive | groups of files published one by one, damage and substitution in between |
| Carriers and placement | core `carrier.rs`, `placement.rs`, `lsb_*.rs`, `carrier_binding.rs` | none | embed, extract, clear, capacity | slot arithmetic, keyed permutation, what a binding covers |
| Hash chain | core `hash_chain.rs` | frames and segments of a stream | add, finalise, root, verify | segment borders, Merkle levels of odd length |
| Multi-frame payloads | core `multi_frame.rs` | none | split, reconstruct | lost, repeated and foreign shards |
| Forensics | core `forensics*`, `unicode_text.rs` | budgets, findings | inspect ZIP packages, PDF, markup, text, embedded magics | parsers of foreign input that must stay bounded and say what they left out |
| Scan command | cli `cmd_scan.rs` | a directory walk | scan a file or a tree | files that change under the walk, limits, exit status |
| Config, metrics | core `config.rs`, `metrics.rs` | a record each | load, count, reset | reset while counting |
| Signing backends, facade, drawing, arguments | core, wasm, cli | none | wrappers | - |

How they interact: the WebSocket and WebRTC front ends of the dashboard both end in
`process_encode_frame`, `process_audio_frame` and the poll handlers, that is, in the
frame pipeline. A WebRTC peer reaches it through its reassembler and frame pump; its
media pump reads the same video cache. The browser client is the peer of both front ends.
`ots_stamp` reads the digest of the newest cached artifact; the dashboard and the command
line share the proof store. The GStreamer elements, the bridge, the CLI and the dashboard
use the same core carriers; `scan` and `info` use the same detectors.

What makes each correct: a poll is always answered with the verdict of the artifact it
was asked about, and the digest stamped is that of the newest artifact (pipeline); the
receiver of a stream can count frames to derive keys, and a payload is cleared only after
it was carried (elements); a filter that reports success has delivered every frame
(bridge); a message that is delivered is one that was sent, and memory is bounded and
comes back (framing); a removed session does no work, and nothing of it is left
(sessions); the page never shows the verdict of something else (client); what is said to
be timestamped is in a block (OTS); an existing proof or output is never overwritten or
half written (proof store, CLI); a changed, reordered or foreign packet is never reported
authentic (packets, chain, shards); a report says so when something was not examined
(forensics, scan).

## Modules

| module | role |
|---|---|
| `MediaCache` | what the live pipeline promises its clients: artifacts are published with growing revisions, resolved at most once or evicted, and a poll is told the state of the artifact it asked about |
| `FramePipeline` | the pipeline in detail, at the granularity of locks and awaits; refines `MediaCache` |
| `StegoElement` | the in-place elements; `kind` is the element the behaviour is of |
| `GstBridge` | the bridge, the filters and the capture commands over it |
| `Reassembler` | framing and reassembly of messages |
| `WebrtcSession` | sessions, pumps, jobs and removals |
| `VideoTab`, `AudioTab`, `PagePanels` | the page: the two live tabs, and the configuration and timestamp panels; `DashboardPage` joins them |
| `OtsService` | stamping, verification and status of timestamps, in the dashboard and the command line |
| `WriteOnce` | what the proof directory promises: a name is bound once, to a whole proof |
| `ProofStore` | publication and loading of OpenTimestamps proofs, with crashes; refines `WriteOnce` |
| `Packet` | the packet as a term: transforms, framing checks, reversal; pure operators |
| `Envelope` | the decoders of fields and of nested packets under their limits |
| `PacketWire` | locator, envelope and body as they are written and read, under the limits of either side |
| `ReedSolomon` | the error-correcting code, computed in a small field, and its chunks |
| `PacketCli` | the packet commands and `revoke` on shared files; composes `Packet` |
| `MultiFrame` | splitting of a payload into shards |
| `LegacyCli` | encode, verify, keygen and derive on shared files; composes `MultiFrame` |
| `Kernels` | where each carrier puts bits, and the canonical form a binding hashes |
| `SpreadSpectrum` | the watermark that is spread over many values and read by majority |
| `HashChain` | the chain over frames and its verifier |
| `XmlText`, `OoxmlScan`, `PdfScan`, `TextChannels` | the analysers of document parts, ZIP packages, PDF documents and text |
| `ForensicScan` | `scan_bytes`, which makes one verdict of them; composes `OoxmlScan` and `PdfScan` |
| `ScanCommand` | the walk of `scan` |
| `MC*` | instances for TLC: payloads, inputs, symmetry sets; `MCArtifacts`, `MCIncoming`, `MCWebrtcSession`, `MCProofStore`, `MCLive` and `MCOffline` put parts that share no state side by side, a behaviour follows one of them |
| `*_proofs` | theorems about `StegoElement`, `OtsService`, `DashboardPage`, `ScanCommand`; `Pipelines_proofs` about `FramePipeline` and `GstBridge`; `Packet_proofs` about `PacketCli` and `Envelope`; `Webrtc_proofs` about `Reassembler` and `WebrtcSession`; `Evidence_proofs` about `ProofStore`, `HashChain`, `MultiFrame` and `LegacyCli` |

### FramePipeline

An artifact (bytes, digest, `VerifySlot`) is its revision number. One `pc` per encoder
goes through `process_encode_frame` / `process_audio_frame`: admission, an encoding
phase that may fail, the cache lock, the revision, the store, the enqueue. `push_verify`
takes two steps when the queue is full, because the evicted slot is marked and its
waiters are woken by two operations a poll may run between. `VerifySlot::wait_for` is
cut at every point where another thread can run: registration, the look at the outcome,
the look at `dropped`, the sleep. `waiters` is the list inside `Notify`.

### StegoElement and GstBridge

`stream` is `StreamState`; the methods of `StreamState` are functions of the record.
`frame` is the buffer in flight with its snapshot. `carries[g]` is a history variable:
what each buffer of placement generation `g` carried. The two elements share the record
and differ in the checks before the embedding (`Unsupported`, `BadLength`, `SetCaps`).

In `GstBridge` a frame is its number in the source. One thread pulls from the appsink of
the source pipeline, embeds, reads back, pushes into the appsrc of the sink pipeline,
then waits until that has drained; each wait polls the bus, the state and a deadline in
the order of the code. Both pipelines are external: they make and consume frames, post
an error or an end of stream to their bus, or do nothing. `filter`, `file` and `extract`
are the three uses: frame by frame, a whole sound file, and reading only.

### Reassembler and WebrtcSession

`reassembler` holds the partial messages of one peer, a chunk is `Missing` until it is
stored, `age` replaces the `Instant` of a partial message. Any chunk of the sent
messages, and chunks no sender makes, may arrive at any time and any number of times. Two
assumptions say what the traffic is: chunks are those `frame_chunks` makes, and an id is
given to one message only; a stray chunk neither takes a place of a sent message nor do
strays make up a whole message (`TrafficAssumption`, `StrayAssumption`). The code cannot
tell a peer that breaks the second from one that does not.

One record of program counters per session: the offer handler, the frame pump, its
encode job, the media pump, the data channel and connection events of the library, and
any number of concurrent `remove_session` calls. A request may be dropped at each of its
awaits. A tokio mutex is the holder of it. The permit is not a variable: a session holds
it as long as a task that owns its `SessionControl` exists (`HoldsSlot`), which is the
reference count of the code.

### VideoTab, AudioTab, PagePanels

The page has one thread: what it runs between two awaits, a handler or a timer is one
action. Continuations that own a camera stream or a peer connection are kept after the
page has moved on; those that find their generation out of date and end are not. The
server is a cache that other clients fill too, and the network loses what it likes.
`PagePanels` is the loop that saves one edit of the configuration at a time and the
merged refreshes of the timestamp panel.

### OtsService and ProofStore

A proof is its digest and its attestations: pending at the calendar, or a Bitcoin block
that the operations reach or do not. A call is a process with the steps of
`ots_stamp` / `ots_verify` (dashboard) or of the command: admission by the rate limiter,
submission, save, upgrade, the look at the block, the outcome that is stored for
`/ots/status`. Calendars may answer anything and late, a client may leave, the dashboard
may restart. Saving is one step here, that of `WriteOnce`.

In `ProofStore`, `dir` is the directory (name to file), `content` the bytes of a file,
`synced` the files `sync_all` has returned for. A writer is one call of `publish` on a
blocking thread, of any process; its temporary file carries its name. The steps are those
of the code: reserve the temporary, write, sync, link under the final name, and if that is
taken compare, link under the alternate name, compare again; whatever the way out, `Drop`
removes the temporary name and may fail unseen. A caller may give up on its deadline
while the blocking call goes on, a process may be killed between any two steps, and one
loss of power tears what was not synced and may lose directory entries.

Two behaviours the model shows and the code accepts: a call that publishes the same bytes
while the first publisher still has its second link does not recognise the proof (a file
with two links is refused), so it goes to the alternate name, or fails if that one is in
the same state; and a process killed between link and removal leaves a proof with two
links, which `load_proof` refuses from then on (`Loadable` states exactly this exception).

### Packet, Envelope, PacketWire, ReedSolomon and PacketCli

A payload is a value; the body of a packet is that value under layers (`Deflated`,
`Sealed`, `Coded`), the outermost first, with a count of wrong symbols per Reed-Solomon
chunk. A signature names its key and payload, a ciphertext its key and associated data,
so the libraries behind them are ideal. `NewPacket` is what `apply_with_password` and
`cmd_packet.rs` build from the options; `Framing` is what `GenericPacket::decode` checks,
`Reversed` what `reverse_with_password` may return: it is a set, because a damaged body
without authentication may decode or inflate to other bytes of the right length.

`Envelope` is the other half of the decoder: `PacketEnvelope::decode` takes tagged fields
into slots and lists, field by field, and `decode_nested` opens packets inside packets.
What the next field or packet is, is chosen when the decoder comes to it.

`PacketWire` is a packet as a sequence of symbols, a field of the envelope or a byte of the
body each. A writer has made it (`WrittenPacket`, `EncodePacket`) under one of several
policies; then other programs flip flags, change lengths and versions, insert, remove and
replace symbols, cut it short, or write a fitting locator with the right checksum
(`Relocate`). Integers have digits to a small base, and the largest `usize` is smaller than
the largest length that can be written, as on a 32-bit machine. `WireIsExact`: whatever is
decoded encodes to the bytes it came from and may be embedded; a packet can be written
under limits exactly if it can be read under them; a plain body is the one its digest is of.
The limits on single fields, names and extensions have no counterpart in it.

`ReedSolomon` computes: products and inverses in the field of 2^`FieldBits` elements,
codewords, interpolation, elimination and division as in `error_correction.rs`, and the
chunks, the descriptor and its geometry as in `transforms.rs`. Symbols are damaged and the
descriptor is replaced. `Packet` takes from it that a chunk with at most half its parity in
errors is repaired; `DamageIsRepaired` is that claim, and that what is returned beyond it is
as close to a codeword, of the length and the chunks the descriptor says.

A command of `PacketCli` is a process. encode looks at its output, makes the packet, and
publishes without replacing; with `--verify-write` it reads the file back. decode and
extract look at the output, load the revocation list, read the carrier once, try every
strength with and without the placement key, and write the payload. revoke reads the
list and replaces the file in a second step. `ForeignPackets` are carriers of other
writers, with descriptors no encode makes. `origin` is a history variable: the options of
the encode that made a carrier. The prose of a report is left out, what it claims
(`told`) is not. A carrier holds one packet: the magic, or the keyed tag, is in the first
units, which each embedding writes, so an older packet at another strength loses its magic.

### LegacyCli and MultiFrame

A medium is the image that is left when the kernel's positions are cleared, and what the
kernel finds there. encode admits its options, looks at all outputs, signs, embeds, and
publishes one file or a group of shard files one after the other, then reads back what it
has published; verify reads the files, tries one or every strength, judges. The user
damages, swaps, copies and adds files between any two steps. A byte string of `MultiFrame`
is the set of atoms (payloads and random masks) it is the exclusive or of. A request has its
defaults filled in: `RequestsAssumption` says which ones the command line lets through.

### Kernels, SpreadSpectrum, HashChain and the analysers

`Kernels` has the slot arithmetic of every spatial-LSB carrier, the Feistel permutation
with cycle walking, the interleaved schedule, the search over strengths and the canonical
form, over scaled-down lengths; ciphers and tags are constants that depend on the key.
`SpreadSpectrum` has the integer quantizer, its two lattices and the majority, with the
units of a frame, of sound and of a raw file; an embedding may go over another, and values
are disturbed. `Info` and `PayloadsHeld` are what `info` reports of capacities.
`HashChain` hashes are terms. The analysers (`XmlText`, `OoxmlScan`, `PdfScan`,
`TextChannels`) take their input token by token, entry by entry or character by character,
chosen when they come to it, with every budget scaled down to where it is met.
`ForensicScan` combines their reports, `ScanCommand` walks a tree that others change: one
step per entry of a directory, per open, per read, with the calls of `walk` as a stack; what
a tree is says `IsTree` (a link leads to a file or directory of the tree).

## Runs

| run | checks | bounds |
|---|---|---|
| `artifacts` | commands: `RoundTrip`, `DeliveredIntact`, `TrustedMeansSigned`, `NoClobber`; element: `DeliveredMeansCarried`, `DecodableTimeline`, `DeliversOnce`; pipeline: `NoLostWakeup`, `DigestIsNewest`, `OnePlace`, refinement of `MediaCache` | 2 commands on 3 files, 7 encode and 6 decode options, 10 foreign packets, 2 chunks with parity 2 and up to 2 errors each: one error is repaired, two are not; 1 key, 2 packets, 2 depths, 2 resets, 2 packet replacements, 2 buffers a generation; 3 video + 1 audio encoder, 2 permits, a queue of 2, 1 poll, 1 digest reader, 3 revisions: enough to evict while a poll sleeps and to enqueue out of order |
| `incoming` | chunks: `BudgetsHold`, `DeliveredIntact`, `EventuallyReleased`; pipeline: `EverySlotResolved`, `CallsReturn` | 5 messages of up to 3 chunks of 2 bytes, one of them empty and one too long; 4 stray chunks; 3 partial messages; a lifetime of 2 ticks; 1 video and 1 audio encoder, 3 artifacts, a queue of 2, 1 poll, 1 digest reader |
| `webrtc_session` | server: `RemovalIsFinal`, `EveryPeerOwned`, `PermitsAccounted`; page: `SessionsAreWhole`, `VerdictsAreOfShown`, `ArchivesAreKept`, `RepliesAreOfRequest`, `PanelsAreCurrent` | 2 offers for 1 permit, 2 concurrent removers; 2 cameras or microphone sessions, 2 transports, 2 artifacts of the server, 2 unanswered frames, archives of 1 entry, 3 edits, 3 status changes |
| `live` | `StoppedFreesSlot` (sessions), `SuccessIsComplete`, `BridgeReturns` (bridge) | 2 offers for 1 permit, 1 remover; 2 frames, queues of 1, a patience of 1 round |
| `ots_service` | `VerifiedIsConfirmed`, `ReportedIsStored`, `AdmissionRate`, `VerdictsChangeOnSuccess` | 2 requests and 1 command, 2 media, 2 commitments, 3 kinds of answers, an interval of 1 tick, 2 starts |
| `proof_store` | proofs: `ReportedIsStored`, `Loadable`, refinement of `WriteOnce`; commands and shards: `GroupsAreRight` | 3 callers, 2 proofs, 1 loss of power; 2 encoders and 1 verifier over 2 names, 3 media, 2 strengths, 1 change by the user; 4 groups, 4 shards |
| `packet_revoke` | violated: a recorded revocation stays | the commands of `artifacts` |
| `offline` | `AcceptsExactlyTheSegment` (chain), `DecodersAreExact` (envelope, nested packets), `WrittenComesBack` (wire, error correction, kernels, watermark), `ReportsAreTrue` (markup, text, packages, PDF, one file), `ExitIsWarranted` (scan) | 4 frames in segments of 1 or 3; 13 field ids, 10 fields, depth 3; 9 shapes of media, 2 keys, strengths 0 to 5, 2 embeddings; packets of up to 2 bytes and 2 transforms, 5 policies, 14 symbols, 1 change and a new locator; 8 field elements, bodies of up to 3 symbols, parity 1, 2 and 4, 2 errors, 9 descriptors; 23 watermarked media of 16 or 8 values, 8 jobs, 2 embeddings, 1 disturbance; 5 markup tokens of 22, 5 characters of 4 alphabets, 4 directory entries of 9 kinds, PDF documents of 6 to 13 tokens, files of 4 units, a tree of 7 names with 1 change |
| `bridge_extraction` | violated: an extraction that returns is whole (`ExtractionIsWhole`) | the bridge of `live` |
| `bridge_drain` | violated: a filter that returns has drained its output (`SinkIsDrained`) | the same |
| `markup` | violated: a run is in one piece of text (`RunsWithinMarkup`) | the markup of `offline` |
| `summary` | violated: a summary names every family that fired (`SummaryNamesFamilies`) | the files of `offline` |

The properties that join several questions are conjunctions of named parts:
`BudgetsHold` (`Accounted`, `WithinBudget`), `CallsReturn` (`PollsAnswered`,
`DigestsRead`), `PermitsAccounted` (`SlotsBounded`, `NothingLeft`), `GroupsAreRight` (`VerdictIsRight`, `OneCommandPerGroup`,
`RecoversExactly`), `DecodersAreExact` (`DecodedReencodes`, `NestingIsBounded`),
`WrittenComesBack` (`WireIsExact`, `DamageIsRepaired`, `CarriersRoundTrip`, that is
`EmbeddedIsExtracted` and `BindingSurvives`, `WatermarkHolds`), `ReportsAreTrue` (one part
per analyser, the first two `XmlIsExact` and `OffsetsAreExact`).

Every budget, queue and lifetime is scaled down to where its limit is met and passed
within the run. The bounds that stop what the program lets grow are named in comments
(`BOUND`). The type invariants of `FramePipeline`, `StegoElement`, `WebrtcSession`,
`OtsService`, `ProofStore` and `PacketCli` are in no run: they are theorems.
Deadlock is not checked where clients may stop offering work (setters run out of
generations; an offer, a call or a command is made once; an input is read to its end).

Five runs end in a violation.

* `packet_revoke`: `revoke_key` is documented to add a key to the list
  (`cmd_encode.rs:1237`), but reads it and replaces it without a lock, so of two
  concurrent revokes one is lost after both reported success.
* `bridge_extraction`: `pull` looks at the bus and then at the appsink (gst
  `lib.rs:118-126`). A source that fails and ends in between makes an extraction return
  what it has, while `video_filter.rs:242` and `audio_filter.rs:219` say that errors are
  never a partial success.
* `bridge_drain`: `finish` takes any end of stream of the sink for that of the drain (gst
  `lib.rs:214`), so a sink that ends of itself with frames still queued is a success;
  `docs/gstreamer.md:73` says to wait for the drain, and `pull` and `push` refuse such an end.
* `markup`: "never invent a long run across markup" (`ooxml.rs:1163`) holds for tags. The
  text on both sides of a comment, an instruction or the start of a CDATA section is
  joined, so two runs that are each too short to be reported are one that is.
* `summary`: "the summary must reflect every non-statistical family that fired"
  (`forensics.rs:505`), but the families are those of the findings that were kept, and the
  sentinel of a full list takes the place of the last of them (`ooxml.rs:1384`): the
  verdict stays positive and its summary names no family.

The passing properties next to them say how far the code goes. `SuccessIsComplete`: an
extraction is short only when the error still lies unread on the bus, and what a filter
calls a success was all handed to the sink, with nothing left in it unless the sink had
ended. `XmlIsExact`: no run is missed, none reaches
over a tag, and where only tags cut the text all are counted. `VerdictIsWarranted`: the
summary names the families that fired and no other whenever all findings fit.

## Fairness

`FramePipeline!Fairness`: the verification thread is an OS thread in an endless loop; an
encoder past its cache lock runs straight-line code; one that waits for a mutex which
stays free gets it, as does a reader of the digest, who holds the video cache while it
waits for the audio cache; a poll that is woken is polled by tokio. No fairness for
clients, for decoding, or for the poll's one-second timer, so `PollsAnswered` does not hold
because of the timer, and `DigestsRead` rests on the order in which locks are taken. `WebrtcSession!Fairness`: spawned
tasks are polled, a spawned blocking job runs, a tokio mutex is handed over in FIFO
order, and `close` of a peer returns. None for the peer, the network or removers.
`GstBridge!BridgeFairness`: the calling thread runs; none for the two pipelines, so
`BridgeReturns` rests on the deadlines of the code alone. `Reassembler`: the maintenance
tick of the pump and the clock.

## Proofs

Each `*_proofs` module proves its properties for every value of the constants.

* `Pipelines_proofs`, live pipeline: type correctness first; then `LocksHeld` (who is between a
  lock and its unlock holds it), `RevisionsKept` (a cache holds the largest revision
  stored under its lock) give `DigestIsNewest`; `RevisionsFresh` (the revision an encoder
  holds is not yet queued, resolved or asked for) and `WakeupsPending` (a poll asleep on a
  resolved slot has a notification on its way) give `NoLostWakeup`. None of the
  properties is inductive alone: that a poll is not registered too late is only true
  because of who still has to notify. `ArtifactsAreInOnePlace`: an artifact is in the
  hands of one encoder, in the queue at one position, with the verifier, or resolved or
  evicted; the invariant says so of each pair of places. `PipelineIsAMediaCache` is the
  refinement: each action is a step of `MediaCache` or a stutter. What makes it work is
  that the newest entry of a cache stays the largest of its medium between the revision
  and the store (`NewestKept`), so that the abstract publication can be the concrete
  store.
* `StegoElement_proofs`: one inductive invariant; a lemma per method of `StreamState`
  says what it keeps, and the step lemmas combine them. The strengthening relates a
  snapshot to the record: same generation means same key and bits, same payload
  generation means same packet.
* `Webrtc_proofs`, sessions: the invariant `Inv` adds where each actor may be (`HandlerPlaces`),
  which actor holds which gate (`GatesHeld`) and what a removal in progress has done so
  far (`Calls`). `PermitsAreAccounted` adds a cardinality argument: a session holds the
  permit from its admission on as long as one of its tasks exists, and one that holds it
  is counted.
* `Pipelines_proofs`, bridge: a frame is in the source, in the appsink's queue, held by the
  thread, in the appsrc's queue, or consumed. The invariant says that each place holds an
  interval of the frame numbers and each interval begins where the one before it ends;
  so when the drain has seen the end of stream, what was handed over is everything that was
  selected, and it was consumed unless the sink had ended of itself. Failures are in it too:
  an error is either on the bus still, or was seen and ended the call, so an extraction that
  is short has its error unread (`SuccessMeansDelivered`). The two ways to be short are those
  of the runs `bridge_extraction` and `bridge_drain`.
* `Webrtc_proofs`, reassembly: `BudgetsAreKept` needs the sum of what is retained over a set of
  partial messages, and the sum over the chunks of each. The library's induction theorems
  take a predicate, which the provers cannot instantiate; here induction is over a set
  that stands for the predicate (`NatInductionSet`, `SubsetInduction`), and from it come
  the laws of sums (`SumRemove`, `SumSame`, `SumSplit`). The invariant (`Sound`) says that
  every partial message is charged exactly what it keeps, and that an open one is not
  complete. `MessagesAreIntact` adds that a stored chunk of a sent message is in its place
  (`Held`), that the pieces of a message in their order make the message
  (`PiecesMakeTheMessage`, by the recursion of `FlattenSeq`), and what the two
  assumptions on traffic say of an id.
* `DashboardPage_proofs`: each tab is one record, a handler is a composition of functions
  on it, so the invariants (`VideoInv`, `AudioInv`, `PanelsInv`) are conjunctions of
  predicates of a record, each over a few of its fields, and there is one lemma per
  function and predicate. None of the properties is inductive: that a reply is the one of
  the pending request needs which continuations of a closed channel are still to run and
  that they find their channel replaced; that a verdict is of what is shown needs that the
  canvas, the request and its generation change together; that nothing is left open needs
  who owns a track between the permission and the start of a session. The page's three
  parts share no state, so the properties that join the two tabs follow from the
  conjunction of their specifications.
* `OtsService_proofs`: a proof holds commitments of its own digest only, an attestation
  that was confirmed is one whose root was reached, and what an outcome says was stored
  before; `RateKept` relates the limiter's clock to the time of every admission, and
  `VerdictKept` is the action property that a failed check changes no outcome.
* `Packet_proofs`, commands: lemmas about the operators of `Packet` (reversal yields the payload
  under the layers or nothing, a surviving body carries the signature its descriptor
  claims, the writer's descriptors name the signer) are combined in `RecoverFacts`, what
  a successful recovery implies for any file a reader may meet. The invariant then says
  what a command holds at each of its steps; type correctness, `DeliveredIntact`,
  `TrustedMeansSigned` and `NoClobber` follow. `EncodedRoundTrips` is about success: the
  invariant relates every carrier an encode made to the options in `origin`, and
  `WrittenIsReversed` shows that reversal of what those options build, damaged within
  what the code corrects, gives the payload and nothing else.
* `Packet_proofs`, decoders: `decode` collects fields by kind and `encode` writes the kinds
  in seven parts (`Parts`), so that what was accepted encodes to what was read because the
  fields come in the order of their identifiers. `ReadsWhatItWrites` says it of every
  prefix: what has been read is what would be written, nothing has an identifier beyond
  the last one, so the parts after the next field's are empty (`PartsEmpty`), and a
  field appended to its part is appended to the whole (`JoinAt`). `Nested` says that the
  chain of opened packets is one short of the depth, each in the one before, no
  identifier twice, with both limits checked before the next is opened.
* `Evidence_proofs`, proof store: the invariant says of each place in `publish` what the writer's
  temporary file holds and whether it is synced, and that a published name is bound only
  to a file that was synced first; `ReportedIsStored`, `Loadable` and the step simulation
  of `WriteOnce` follow, so the refinement itself is a theorem. `Loadable` needs that a
  second link of a published file is the temporary name of a writer between its link and
  its drop, or of one that was killed there.
* `Evidence_proofs`, hash chain: `ChainInv` says that every hash is of its frame and the
  hash before it, that the first of a segment follows the last of the segment before, and
  that the newest root is the Merkle root of the hashes of the frames it is of. That the
  property needs more than that is in the lemmas: two sequences of equal length with
  equal roots are equal, which goes up the levels, odd ones included. The levels have no
  number to do induction on in the operator, so the induction is over the set of
  lengths for which it holds. Hash terms are distinct from `Zero` and injective, which is
  the assumption of ideal hashes, built into the terms.
* `Evidence_proofs`, shards: `PileInv` says that what is collected are shards of groups
  that may be split. From it, and from counting how often an atom occurs: a mask
  occurs in the first shard and in its own, so it cancels in the exclusive or exactly if
  both are there once; hence the payload is what is left exactly of a whole group.
* `Evidence_proofs`, commands: `CliInv` has three parts. `Shaped`: which steps a command may be
  at with which request, and that the payload in a carrier is of a command that encodes.
  `Filed`: what a command has written, or reported, is on disk and is what it made, except
  for errors, unless the user has touched it (`Kept`); a file of a group is of a command
  that has won the group, by publishing its first file (`Owned`), and nobody else won it
  (`WonAlone`). No property alone is inductive: that groups do not mix is true only
  because publication of the first file does not replace, and every command writes
  it first. `Judges`: what a reader has read so far is a file, with no more errors than
  that file has by now (`ReadsOk`), so that damage between two reads cannot make what is
  judged worse than what is there; and the verdicts already given are right. The step
  lemmas for `Judges` are about the operators of `verify`: what the extracted shards join
  to, which strengths are tried, what is judged of the outcome. `CommandsStayRight` puts
  the commands and the shards together, which share no variable.
* `ScanCommand_proofs`: `WalkInv` says that there is a set of names the walk has come to
  (`Reach`), each but the first with its directory and all in scope; that each directory
  of it is listed at most once and what is left of a listing is not in it (`CallsOK`);
  that its files are counted and examined once each (`Counted`); and that, while there
  is no error and no limit was met, every name below it is in it or still to come
  (`Covered`). The property is about the last state only, and nothing about the exit
  status is inductive. When the calls have all returned, the set is closed but for what
  others changed, so it is the whole scope; a finding is of a file nobody changes any more
  (`Truthful`), so what was seen is what is there. A tree has any depth, the order of
  entries is any, and no directory is in itself is what the assumption says of it.

The assumptions are the named `ASSUME`s of the modules: types of constants, finiteness of
sets that are counted, that field identifiers, lengths and limits are natural numbers, the limits of a scan
positive where `run` insists on it, that what is scanned is a finite tree,
the two on the traffic of a peer, positive segment sizes and shard
counts, and for the commands that they are asked what the argument parser and the checks
before it admit: strengths `--bits` admits, at most the eight shards the code allows, a
signer and, for the kernels that place by a key, a placement key. TLC evaluates each in a run.

Only model-checked:

* the liveness properties (`EverySlotResolved`, `CallsReturn`, `EventuallyReleased`,
  `StoppedFreesSlot`, `BridgeReturns`): fairness and ENABLED are beyond the prover;
* `WrittenComesBack`: `PacketWire` decodes integers by a fold over their digits,
  `ReedSolomon` computes with polynomials over a field given by a table; both are
  induction over data; the permutation of `Kernels` and the majority of `SpreadSpectrum`
  are arithmetic of recursive functions over the carrier's values;
* `ReportsAreTrue`: the analysers are folds over tokens, and each
  part of it compares one with a second definition over the whole input. Theorems about
  them would be about the definitions of sequences rather than about the scanners.

## Seen while modelling

Left to the code, beyond the five violations:

* `reverse` is documented to compare the content digest and does not, each caller does;
  sequential extraction ignores `FLAG_KEYED_LOCATOR`, which embedding enforces; an output
  whose post-write verification fails stays in place (the command still fails).
* `embedded_frames` is said to count the frames that carried the full packet
  (`elements.rs:82`); with `clear-payload` it also counts those that were only cleared
  (`elements.rs:521`). Only the key of the frame timeline depends on it, and that is
  unaffected (`DecodableTimeline`), because keyed streams are never cleared.
* `batch_process` says "Encodes or verifies" (`cmd_encode.rs:1463`) and only encodes.
* The page: the decode socket's close clears the signing request while the encode request
  is still on the wire (`app.js:346`), so the late first reply is taken for the second
  one's, though `docs/architecture.md:74` allows one outstanding request. A reply names no
  request, so the page cannot tell; `VerdictsAreOfShown` only says that a verdict is of the
  artifact on the canvas, whichever frame that was made from. After a
  restart of the server its revisions begin again, so an old canvas can get another
  artifact's verdict; under "auto" a lost WebRTC peer falls back without clearing the displayed
  verdict, which the close of a WebSocket does.
* `cmd_encode.rs:962` and `cmd_verify.rs:981` call the watermark host-canceling differential
  pairs; `spread_spectrum.rs` moves each value to a lattice of its own.
* Metrics: an audio chunk adds its signing time but no frame.
* Forensics: up to 18 distinct reasons share a list of 16; comments after the last `%%EOF`
  count as appended bytes.
* Scan: the size of a file is taken when it is opened; a file that grows after that is not
  called truncated.

## Not modelled

The signal transforms (DCT, MDCT, adaptive embedding) and the statistics of steganalysis
are floating point. Inflate, CRC, hashes, signatures and ciphers are
ideal or chosen. Drawing, argument parsing, report layout, static pages, the
configuration record and the WebAssembly facade have no behaviour beyond single calls.

## Plan

Done: every module of the first plan; the proofs of every safety property of the pipeline,
the elements, the bridge, the reassembler, the sessions, the page, the OTS service, the
proof store, the hash chain, the shards, both families of commands, the packet decoders and
the walk of the scan; both refinements.

Left: the HTTP configuration endpoints and the WebSocket accept loop.
