---------------------------- MODULE StegoElement ----------------------------
(***************************************************************************)
(* The in-place GStreamer elements stegovideo (elements.rs) and stegoaudio *)
(* (audio_element.rs): one state record behind a mutex, property setters   *)
(* on any application thread, and one streaming thread that takes a        *)
(* snapshot of the record, works on a buffer WITHOUT the lock and reports  *)
(* back under it.  The two elements have the same record and differ in     *)
(* the checks between the snapshot and the embedding; `kind` says which    *)
(* element the behaviour is of.                                            *)
(*                                                                         *)
(* GStreamer itself is external: activation calls start and stop with no   *)
(* buffer in flight, and a caps event and the buffers of a pad come one at *)
(* a time on the streaming thread (the stream lock of the base class).     *)
(* skipped_frames, which nothing reads, and the log texts are left out.    *)
(***************************************************************************)
EXTENDS Naturals, Sequences

CONSTANTS
  Keys,           \* the 32-byte keys an application sets
  LivePackets,    \* the packets it sets
  Bits,           \* the bits-per-unit values it sets; 1 is the default
  Unset,          \* no key, no packet
  MaxGeneration,  \* bound on placement generations
  MaxPayload,     \* bound on payload generations
  MaxFrames       \* bound on the frames counted in one generation

ASSUME UnsetAssumption == Unset \notin Keys \cup LivePackets
ASSUME BitsAssumption == Bits \subseteq 1..4 /\ 1 \in Bits
ASSUME BoundAssumption ==
  MaxGeneration \in Nat /\ MaxPayload \in Nat /\ MaxFrames \in Nat

VARIABLES
  kind,     \* which element: "video" or "audio"
  running,  \* started by the base class and not yet stopped
  stream,   \* StreamState, behind its mutex
  info,     \* the negotiated caps, behind a mutex of their own
  frame,    \* the buffer the streaming thread is working on
  carries   \* history: the embeddings done in each placement generation

elementVars == <<kind, running, stream, info, frame, carries>>

Reasons == {"UnsupportedFormat", "FrameSize", "UnalignedBuffer", "Capacity",
            "KeyedClear"}

StreamState ==
  [packet : LivePackets \cup {Unset}, key : Keys \cup {Unset}, bits : Bits,
   clear : BOOLEAN, embedded : Nat, generation : Nat, payloadGen : Nat,
   delivered : BOOLEAN, warned : SUBSET Reasons]

\* One full embedding: the snapshot's parameters and the frame index that
\* the key derivation was given.
Carry == [packet : LivePackets, key : Keys \cup {Unset}, bits : Bits,
          clear : BOOLEAN, payloadGen : Nat, index : Nat]

\* Where a buffer is: taken with a snapshot, past the layout checks, past
\* the keyed clear-payload warning, or leaving through note_skip.
NoBuffer == [at |-> "idle"]
Frames ==
  {NoBuffer}
    \cup [at : {"snapped", "mapped", "placing"}, snap : StreamState]
    \cup [at : {"skipping"}, snap : StreamState, reason : Reasons]

ElementInit ==
  /\ kind \in {"video", "audio"}
  /\ running = FALSE
  /\ stream = [packet |-> Unset, key |-> Unset, bits |-> 1, clear |-> FALSE,
               embedded |-> 0, generation |-> 0, payloadGen |-> 0,
               delivered |-> FALSE, warned |-> {}]
  /\ info = "none"
  /\ frame = NoBuffer
  /\ carries = [g \in 0..MaxGeneration |-> <<>>]

(***************************************************************************)
(* The methods of StreamState, as functions of the record.                 *)
(***************************************************************************)
NoteSkip(s, reason) == [s EXCEPT !.warned = @ \cup {reason}]

ResetProgressSameGeneration(s) ==
  [s EXCEPT !.delivered = FALSE, !.embedded = 0, !.warned = {}]

ResetProgress(s) ==
  [s EXCEPT !.generation = @ + 1, !.delivered = FALSE,
            !.embedded = 0, !.warned = {}]

ReplacePacket(s, packet) ==
  [s EXCEPT !.packet = packet, !.payloadGen = @ + 1, !.delivered = FALSE]

StreamCompleteAnyPayload(s, snap, delivered) ==
  IF s.generation # snap.generation THEN s
  ELSE [s EXCEPT !.embedded = @ + 1, !.delivered = @ \/ delivered]

StreamComplete(s, snap, delivered) ==
  IF s.generation # snap.generation THEN s
  ELSE [s EXCEPT !.embedded = @ + 1,
                 !.delivered =
                   @ \/ (delivered /\ s.payloadGen = snap.payloadGen)]

(***************************************************************************)
(* set_property, on an application thread at any time.  A value that is    *)
(* not hex of the right length keeps the previous one and is no step.      *)
(***************************************************************************)
CanReset == stream.generation < MaxGeneration
CanReplace == stream.payloadGen < MaxPayload

SetKey(key) ==
  /\ stream.key # key
  /\ CanReset
  /\ stream' = ResetProgress([stream EXCEPT !.key = key])
  /\ UNCHANGED <<kind, running, info, frame, carries>>

ClearKey ==
  /\ stream.key # Unset
  /\ CanReset
  /\ stream' = ResetProgress([stream EXCEPT !.key = Unset])
  /\ UNCHANGED <<kind, running, info, frame, carries>>

\* The same bytes set again are a replacement too; Unset is the empty string.
SetPacket(packet) ==
  /\ CanReplace
  /\ stream' = ReplacePacket(stream, packet)
  /\ UNCHANGED <<kind, running, info, frame, carries>>

SetClearPayload ==
  /\ stream' = [stream EXCEPT !.clear = ~ @]
  /\ UNCHANGED <<kind, running, info, frame, carries>>

SetBitsInPlace(bits) ==
  /\ stream.bits # bits
  /\ stream' = [stream EXCEPT !.bits = bits]
  /\ UNCHANGED <<kind, running, info, frame, carries>>

SetBits(bits) ==
  /\ stream.bits # bits
  /\ CanReset
  /\ stream' = ResetProgress([stream EXCEPT !.bits = bits])
  /\ UNCHANGED <<kind, running, info, frame, carries>>

(***************************************************************************)
(* Activation and caps, with no buffer in flight.  The audio element       *)
(* refuses caps that are not interleaved S16LE; the video element accepts  *)
(* any raw video and meets an unpacked format again at each buffer.        *)
(***************************************************************************)
Start ==
  /\ ~ running /\ CanReset
  /\ running' = TRUE
  /\ stream' = ResetProgress(stream)
  /\ UNCHANGED <<kind, info, frame, carries>>

Stop ==
  /\ running /\ frame = NoBuffer /\ CanReset
  /\ running' = FALSE
  /\ stream' = ResetProgress(stream)
  /\ info' = "none"
  /\ UNCHANGED <<kind, frame, carries>>

SetAnyCaps(caps) ==
  /\ running /\ frame = NoBuffer
  /\ info' = caps
  /\ UNCHANGED <<kind, running, stream, frame, carries>>

SetCaps(caps) ==
  /\ running /\ frame = NoBuffer
  /\ kind = "audio" => caps = "packed"
  /\ info' = caps
  /\ UNCHANGED <<kind, running, stream, frame, carries>>

(***************************************************************************)
(* transform_ip, on the streaming thread.  A buffer that meets no packet   *)
(* passes through and is no step.                                          *)
(***************************************************************************)
TransformIp ==
  /\ running /\ frame = NoBuffer
  /\ stream.packet # Unset
  /\ stream.embedded < MaxFrames
  /\ frame' = [at |-> "snapped", snap |-> stream]
  /\ UNCHANGED <<kind, running, stream, info, carries>>

Leave(reason) ==
  frame' = [at |-> "skipping", snap |-> frame.snap, reason |-> reason]

\* No caps pass through, a buffer that does not map or whose layout is
\* wrong fails, and neither touches the record.
PassOrFail ==
  /\ frame.at = "snapped"
  /\ frame' = NoBuffer
  /\ UNCHANGED <<kind, running, stream, info, carries>>

Unsupported ==
  /\ frame.at = "snapped" /\ kind = "video" /\ info = "unsupported"
  /\ Leave("UnsupportedFormat")
  /\ UNCHANGED <<kind, running, stream, info, carries>>

\* The plane is smaller than its layout, or the samples are not whole.
BadLength ==
  /\ frame.at = "snapped" /\ info = "packed"
  /\ Leave(IF kind = "video" THEN "FrameSize" ELSE "UnalignedBuffer")
  /\ UNCHANGED <<kind, running, stream, info, carries>>

Map ==
  /\ frame.at = "snapped" /\ info = "packed"
  /\ frame' = [frame EXCEPT !.at = "mapped"]
  /\ UNCHANGED <<kind, running, stream, info, carries>>

Skip ==
  /\ frame.at = "skipping"
  /\ stream' = NoteSkip(stream, frame.reason)
  /\ frame' = NoBuffer
  /\ UNCHANGED <<kind, running, info, carries>>

\* Decided on the snapshot, reported in the record.
AlreadyDelivered(snap) == snap.clear /\ snap.delivered

WarnKeyedClear ==
  /\ frame.at = "mapped"
  /\ AlreadyDelivered(frame.snap) /\ frame.snap.key # Unset
  /\ stream' = NoteSkip(stream, "KeyedClear")
  /\ frame' = [frame EXCEPT !.at = "placing"]
  /\ UNCHANGED <<kind, running, info, carries>>

\* The buffer is private until transform_ip returns, so writing it and
\* completing under the lock are one step.
ClearSlots ==
  /\ frame.at = "mapped"
  /\ AlreadyDelivered(frame.snap) /\ frame.snap.key = Unset
  /\ stream' = StreamComplete(stream, frame.snap, FALSE)
  /\ frame' = NoBuffer
  /\ UNCHANGED <<kind, running, info, carries>>

Placing ==
  \/ frame.at = "placing"
  \/ frame.at = "mapped" /\ ~ AlreadyDelivered(frame.snap)

CarryOf(s) ==
  [packet |-> s.packet, key |-> s.key, bits |-> s.bits, clear |-> s.clear,
   payloadGen |-> s.payloadGen, index |-> s.embedded]

Embed ==
  /\ Placing
  /\ stream' = StreamComplete(stream, frame.snap, TRUE)
  /\ carries' = [carries EXCEPT ![frame.snap.generation] =
                                  Append(@, CarryOf(frame.snap))]
  /\ frame' = NoBuffer
  /\ UNCHANGED <<kind, running, info>>

TooSmall ==
  /\ Placing
  /\ Leave("Capacity")
  /\ UNCHANGED <<kind, running, stream, info, carries>>

\* Any other carrier error fails the pipeline.
Refused ==
  /\ Placing
  /\ frame' = NoBuffer
  /\ UNCHANGED <<kind, running, stream, info, carries>>

SetProperty ==
  \/ \E key \in Keys : SetKey(key)
  \/ ClearKey
  \/ \E packet \in LivePackets \cup {Unset} : SetPacket(packet)
  \/ SetClearPayload
  \/ \E bits \in Bits : SetBits(bits)

Lifecycle ==
  \/ Start \/ Stop
  \/ \E caps \in {"packed", "unsupported"} : SetCaps(caps)

Transform ==
  \/ TransformIp \/ PassOrFail \/ Unsupported \/ BadLength \/ Map \/ Skip
  \/ WarnKeyedClear \/ ClearSlots \/ Embed \/ TooSmall \/ Refused

ElementNext == SetProperty \/ Lifecycle \/ Transform

ElementSpec == ElementInit /\ [][ElementNext]_elementVars

(***************************************************************************)
(* Properties.                                                             *)
(***************************************************************************)
\* The variables keep their types; bits-per-unit never leaves 1..4, and the
\* audio element never holds caps it cannot address.
ElementTypeOK ==
  /\ kind \in {"video", "audio"}
  /\ running \in BOOLEAN
  /\ stream \in StreamState
  /\ stream.generation <= MaxGeneration
  /\ info \in {"none", "packed", "unsupported"}
  /\ kind = "audio" => info # "unsupported"
  /\ frame \in Frames
  /\ frame # NoBuffer => /\ frame.snap.generation <= MaxGeneration
                     /\ frame.snap.packet # Unset
  /\ carries \in [0..MaxGeneration -> Seq(Carry)]

\* The parameters s was delivered under were carried by some buffer.
CarriedUnder(s) ==
  \E i \in DOMAIN carries[s.generation] :
    LET c == carries[s.generation][i]
    IN c.packet = s.packet /\ c.key = s.key /\ c.bits = s.bits

\* A record, or a snapshot of it, that says its payload was delivered says
\* the truth: this packet, not the one it replaced, went out in some buffer
\* with this key and these bits.  Otherwise clear-payload would erase
\* buffers of a packet no receiver was ever sent.  A setter may run between
\* the snapshot and its completion, which is what the two generations of
\* StreamState::complete are for.
DeliveredMeansCarried ==
  /\ stream.delivered => CarriedUnder(stream)
  /\ frame # NoBuffer /\ frame.snap.delivered => CarriedUnder(frame.snap)

\* The n-th keyed embedding of a placement generation derives its key for
\* frame n-1: none is skipped or used twice, whatever setter runs while a
\* buffer is in flight and however many buffers are skipped, so a decoder
\* that counts the frames it decodes derives the same keys.
FrameTimeline ==
  \A g \in 0..MaxGeneration : \A i \in DOMAIN carries[g] :
    carries[g][i].key # Unset => carries[g][i].index + 1 = i

\* All embeddings of one placement generation share key and bits-per-unit:
\* the frame timeline of a generation can be walked with one key.
OnePlacement ==
  \A g \in 0..MaxGeneration : \A i, j \in DOMAIN carries[g] :
    /\ carries[g][i].key = carries[g][j].key
    /\ carries[g][i].bits = carries[g][j].bits

\* Both together are what a decoder needs to walk the frames of a generation:
\* one key, one depth, and an index that is the number of frames before.
DecodableTimeline == FrameTimeline /\ OnePlacement

\* With clear-payload set and sequential placement a payload is carried at
\* most once in a placement generation: after it, buffers are cleared.
DeliversOnce ==
  \A g \in 0..MaxGeneration : \A i, j \in DOMAIN carries[g] :
    LET c == carries[g][i]
        d == carries[g][j]
    IN (/\ c.key = Unset /\ c.clear /\ d.clear
        /\ c.payloadGen = d.payloadGen) => i = j
=============================================================================
