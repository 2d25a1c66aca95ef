------------------------------- MODULE Kernels -------------------------------
(***************************************************************************)
(* The spatial-LSB kernels: where each of them puts a message in a medium, *)
(* and how it finds it again.  Packets go into the bytes of a carrier one  *)
(* after the other, at places permuted under a key, or spread with a       *)
(* stride under a key (carrier.rs, placement.rs); signature payloads go    *)
(* into the colour bytes of a frame (lsb_video.rs) or into permuted audio  *)
(* samples (lsb_audio.rs).  carrier_binding.rs hashes what they leave.     *)
(*                                                                         *)
(* The lengths are small and the cipher's rounds, the schedule's constants *)
(* and the recognition tags are whatever the key makes of them.  A medium  *)
(* is a function from byte (or sample) numbers to values: the four low     *)
(* bits can be written and one higher bit stands for all the others.       *)
(***************************************************************************)
EXTENDS Naturals, Sequences
LOCAL INSTANCE FiniteSetsExt
LOCAL INSTANCE Bitwise

CONSTANTS
  Shapes,               \* BOUND: the media: byte carriers, frames, sample buffers
  Covers,               \* BOUND: what the bytes of a medium hold at first
  Packets,              \* BOUND: packets, with what their envelope and flags say
  Payloads,             \* BOUND: serialized signature payloads
  Prefix,               \* the length prefix of a payload: the bits of its length
  LocatorBits,          \* 8 * LOCATOR_SIZE, scaled down
  ByteBits,             \* 8, scaled down
  Keys, Depths,      \* BOUND: keys; bits per unit asked for
  MaxEmbeds,            \* BOUND: calls of the embedders
  Rounds,               \* ROUNDS of the Feistel network
  RoundFn(_, _, _),     \* (key, round, half) -> Nat: keyed BLAKE3
  RawStride(_), RawPhase(_), \* key -> Nat: keyed BLAKE3
  Tag(_, _)             \* (key, strength) -> bits of the recognition tag

\* What a packet's bits say is what its envelope says.
ASSUME KernelsAssumption == \A p, q \in Packets : p.bits = q.bits => p = q

VARIABLES medium, written, embeds
kernelVars == <<medium, written, embeds>>

Ceil(a, b) == (a + b - 1) \div b

-----------------------------------------------------------------------------
(* placement.rs *)

CeilLog2(n) == IF n <= 1 THEN 1 ELSE CHOOSE k \in 1..n : 2^(k - 1) < n /\ n <= 2^k

\* The width of the network: even, so that its halves are equal.
Bits(n) == LET b == Max({2, CeilLog2(n)}) IN b + (b % 2)

Feistel(x, bits, key) ==
  LET half == 2^(bits \div 2)
      side[r \in 0..Rounds] ==
        IF r = 0 THEN <<x \div half, x % half>>
        ELSE LET p == side[r - 1] IN <<p[2], p[1] ^^ (RoundFn(key, r - 1, p[2]) % half)>>
  IN side[Rounds][1] * half + side[Rounds][2]

\* Mutant of Permute: folded into the range in place of walking the cycle.
PermuteFolds(i, n, key) == Feistel(i, Bits(n), key) % n

\* Cycle walking: again until the result is below n.
RECURSIVE Permute(_, _, _)
Permute(i, n, key) ==
  LET y == Feistel(i, Bits(n), key) IN IF y < n THEN y ELSE Permute(y, n, key)

RECURSIVE Gcd(_, _)
Gcd(a, b) == IF b = 0 THEN a ELSE Gcd(b, a % b)

\* Mutant of Stride: taken as the key gives it.
StrideRaw(n, key) == IF n = 1 THEN 1 ELSE 1 + (RawStride(key) % (n - 1))

\* The first coprime stride from the key's on, wrapping to 1 at n.
Stride(n, key) ==
  LET candidate(k) == 1 + ((RawStride(key) + k) % (n - 1))
  IN IF n = 1 THEN 1
     ELSE candidate(Min({k \in 0..(n - 2) : Gcd(candidate(k), n) = 1}))

Slot(logical, n, key) == (logical * Stride(n, key) + RawPhase(key)) % n

-----------------------------------------------------------------------------
(* Media and what a kernel makes of them. *)

\* A job: kernel, key, strength and message (a packet or a payload).
IsKeyed(job) == job.kernel \in {"keyed", "interleaved"}
IsLegacy(job) == job.kernel \in {"lsb_video", "lsb_audio"}

Units(shape) ==
  CASE shape.kind = "bytes" -> shape.len \div shape.stride
    [] shape.kind = "frame" -> shape.width * shape.height * 3
    [] OTHER -> shape.len

\* Colour bytes in rows: never padding, never the fourth byte of a pixel.
ByteOffset(shape, logical) ==
  LET column == logical % (shape.width * 3)
  IN (logical \div (shape.width * 3)) * shape.row + (column \div 3) * shape.bpp + (column % 3)

UnitAt(shape, unit) ==
  CASE shape.kind = "bytes" -> unit * shape.stride
    [] shape.kind = "frame" -> ByteOffset(shape, unit)
    [] OTHER -> unit

TagUnits(job) == IF IsKeyed(job) THEN Ceil(Len(Tag(job.key, job.strength)), job.strength) ELSE 0

BodyUnits(shape, job) == IF Units(shape) < TagUnits(job) THEN 0 ELSE Units(shape) - TagUnits(job)

Place(job, n, u) ==
  CASE job.kernel \in {"keyed", "lsb_audio"} -> Permute(u, n, job.key)
    [] job.kernel = "interleaved" -> Slot(u, n, job.key)
    [] OTHER -> u

TagAt(shape, job) == [u \in 0..(TagUnits(job) - 1) |-> UnitAt(shape, u)]

\* Mutant of BodyAt: the body starts where the tag does.
BodyAtZero(shape, job) ==
  LET n == BodyUnits(shape, job) IN [u \in 0..(n - 1) |-> UnitAt(shape, Place(job, n, u))]

BodyAt(shape, job) ==
  LET n == BodyUnits(shape, job)
  IN [u \in 0..(n - 1) |-> UnitAt(shape, TagUnits(job) + Place(job, n, u))]

\* The bits of one unit, the first one highest; zeros after the last.
LowBits(stream, unit, s) ==
  LET bit(j) == IF unit * s + j + 1 <= Len(stream) THEN stream[unit * s + j + 1] ELSE 0
  IN MapThenSumSet(LAMBDA j : bit(j) * 2^(s - 1 - j), 0..(s - 1))

\* Mutant of Put: one bit more is cleared than is written.
PutWider(bytes, at, stream, s) ==
  [i \in DOMAIN bytes |->
    LET us == {u \in 0..(Ceil(Len(stream), s) - 1) : at[u] = i}
    IN IF us = {} THEN bytes[i]
       ELSE (bytes[i] \div 2^(s + 1)) * 2^(s + 1) + LowBits(stream, Max(us), s)]

\* Write a stream of bits, unit after unit: the last write to a unit stays.
Put(bytes, at, stream, s) ==
  [i \in DOMAIN bytes |->
    LET us == {u \in 0..(Ceil(Len(stream), s) - 1) : at[u] = i}
    IN IF us = {} THEN bytes[i]
       ELSE (bytes[i] \div 2^s) * 2^s + LowBits(stream, Max(us), s)]

Get(bytes, at, count, s) ==
  [k \in 1..count |-> (bytes[at[(k - 1) \div s]] \div 2^(s - 1 - ((k - 1) % s))) % 2]

Stream(job) == IF IsLegacy(job) THEN Prefix \o job.message.bits ELSE job.message.bits

-----------------------------------------------------------------------------
(* Embedding. *)

IsAligned(shape) == shape.kind # "bytes" \/ shape.len % shape.stride = 0

\* Mutant of Described: the strength in the envelope is not looked at.
DescribedAnyStrength(job) ==
  /\ job.message.placement = job.kernel
  /\ job.kernel = "sequential" => job.message.plain /\ ~job.message.flagged

\* What the envelope says must be what the kernel will do: an artifact that no
\* extractor accepts is not made.
Described(job) ==
  /\ job.message.placement = job.kernel /\ job.message.strength = job.strength
  /\ job.kernel = "sequential" => job.message.plain /\ ~job.message.flagged

\* Every early return of the embedders.
Takes(shape, job) ==
  /\ job.strength \in 1..4
  /\ IsAligned(shape)
  /\ ~IsLegacy(job) => Described(job)
  /\ Ceil(Len(Stream(job)), job.strength) <= BodyUnits(shape, job)

Embedded(shape, bytes, job) ==
  Put(IF IsKeyed(job) THEN Put(bytes, TagAt(shape, job), Tag(job.key, job.strength), job.strength)
      ELSE bytes,
      BodyAt(shape, job), Stream(job), job.strength)

\* CapacityReport.max_packet_bytes.
MaxPacketBytes(shape, job) == (BodyUnits(shape, job) * job.strength) \div ByteBits

\* info: how many signature payloads, and how long a packet, a file has room for.
Info(shape, job) ==
  [payloads |-> (Units(shape) * job.strength) \div Len(Stream(job)),
   packetBytes |-> MaxPacketBytes(shape, job)]

-----------------------------------------------------------------------------
(* Extraction. *)

NotFound == [kind |-> "none", bits |-> <<>>]     \* Ok(NotFound), or NoPacket
Refused == [kind |-> "error", bits |-> <<>>]
MessageOf(bits) == [kind |-> "message", bits |-> bits]

\* The number a sequence of bits stands for, the first one highest.
Number(bits) == MapThenSumSet(LAMBDA j : bits[j] * 2^(Len(bits) - j), 1..Len(bits))

\* The lengths in a locator: what follows it, in bytes.
PacketBits(locator) == LocatorBits + ByteBits * Number(locator)

LegacyFound(shape, bytes, job) ==
  LET s == job.strength
      at == BodyAt(shape, job)
      total == Len(Prefix) + Number(Prefix)
  IN IF \/ Units(shape) < Ceil(Len(Prefix), s)
        \/ Get(bytes, at, Len(Prefix), s) # Prefix
        \/ Units(shape) < Ceil(total, s)
     THEN NotFound
     ELSE MessageOf(SubSeq(Get(bytes, at, total, s), Len(Prefix) + 1, total))

NoTag(shape, bytes, job) ==
  LET tag == Tag(job.key, job.strength)
  IN \/ Units(shape) <= TagUnits(job)
     \/ Get(bytes, TagAt(shape, job), Len(tag), job.strength) # tag

PacketFound(shape, bytes, job) ==
  LET s == job.strength
      at == BodyAt(shape, job)
      room == BodyUnits(shape, job) * s
      length == PacketBits(Get(bytes, at, LocatorBits, s))
      bits == Get(bytes, at, length, s)
  IN IF IsKeyed(job) /\ NoTag(shape, bytes, job) THEN NotFound
     ELSE IF \/ room < LocatorBits
             \/ length > room
             \/ ~\E p \in Packets : /\ p.bits = bits /\ p.placement = job.kernel
                                    /\ p.strength = s
                                    /\ job.kernel = "sequential" => p.plain
     THEN Refused
     ELSE MessageOf(bits)

Found(shape, bytes, job) ==
  IF job.strength \notin 1..4 \/ ~IsAligned(shape) THEN Refused
  ELSE IF IsLegacy(job) THEN LegacyFound(shape, bytes, job)
  ELSE PacketFound(shape, bytes, job)

\* canonicalize: a packed frame (no padding) or samples, without the low bits
\* a kernel may change; alpha stays.
Canonical(shape, bytes, s) ==
  LET clear(v) == (v \div 2^s) * 2^s
      pixel(k) == (k \div (shape.width * shape.bpp)) * shape.row + (k % (shape.width * shape.bpp))
  IN IF shape.kind = "samples" THEN [i \in DOMAIN bytes |-> clear(bytes[i])]
     ELSE [k \in 0..(shape.width * shape.height * shape.bpp - 1) |->
            IF shape.bpp = 4 /\ k % 4 = 3 THEN bytes[pixel(k)] ELSE clear(bytes[pixel(k)])]

-----------------------------------------------------------------------------
(* One medium, and callers that embed in it and read from it. *)

Size(shape) == IF shape.kind = "frame" THEN shape.row * shape.height ELSE shape.len

KernelsOf(shape) ==
  CASE shape.kind = "bytes" -> {"sequential", "keyed", "interleaved"}
    [] shape.kind = "frame" -> {"lsb_video"}
    [] OTHER -> {"lsb_audio"}

Jobs(shape) ==
  [kernel : KernelsOf(shape), key : Keys, strength : Depths,
   message : IF shape.kind = "bytes" THEN Packets ELSE Payloads]

NotWritten == [done |-> FALSE]

NoMedium == [shape |-> [kind |-> "none"], bytes |-> <<>>]

KernelInit == medium = NoMedium /\ written = NotWritten /\ embeds = 0

\* The caller decoded a media file, or a frame arrived.
Load ==
  /\ medium = NoMedium
  /\ \E shape \in Shapes, cover \in Covers :
       medium' = [shape |-> shape, bytes |-> [i \in 0..(Size(shape) - 1) |-> cover]]
  /\ UNCHANGED <<written, embeds>>

\* embed_packet, embed: a refused call leaves the medium as it was.
Embed ==
  /\ medium # NoMedium /\ embeds < MaxEmbeds
  /\ embeds' = embeds + 1
  /\ \E job \in Jobs(medium.shape) :
       IF Takes(medium.shape, job)
       THEN /\ medium' = [medium EXCEPT !.bytes = Embedded(medium.shape, @, job)]
            /\ written' = [done |-> TRUE, job |-> job, before |-> medium.bytes]
       ELSE UNCHANGED <<medium, written>>

KernelNext == Load \/ Embed

-----------------------------------------------------------------------------
(* Properties. *)

\* A signature payload is taken exactly if info counts one, and a packet
\* described as it should be if it is not longer than what info reports.
CapacityIsExact ==
  medium # NoMedium =>
    \A job \in Jobs(medium.shape) :
      LET info == Info(medium.shape, job)
      IN job.strength \in 1..4 /\ IsAligned(medium.shape) =>
           IF IsLegacy(job) THEN Takes(medium.shape, job) <=> info.payloads >= 1
           ELSE Described(job) =>
                  (Takes(medium.shape, job)
                     <=> Len(job.message.bits) \div ByteBits <= info.packetBytes)

\* What fits the reported capacity is taken, and whatever the medium held
\* before, what was embedded last is found again with the same key and
\* strength, to the bit: no two units share a place, the body leaves the tag
\* alone, the last unit may be partial, nothing accepted is unextractable
\* (capacity, embed_packet and extract_packet of each carrier; LsbVideo and
\* LsbAudio likewise).
EmbeddedIsExtracted ==
  /\ CapacityIsExact
  /\ written.done =>
       Found(medium.shape, medium.bytes, written.job) = MessageOf(written.job.message.bits)

\* What the signature covers is the same before and after embedding, and no
\* embedding touches padding, alpha or a bit above its strength (canonicalize
\* against LsbVideo::embed and LsbAudio::embed).
BindingSurvives ==
  written.done =>
    LET s == written.job.strength
    IN /\ \A i \in DOMAIN medium.bytes :
            /\ medium.bytes[i] \div 2^s = written.before[i] \div 2^s
            /\ medium.bytes[i] # written.before[i] =>
                 \E u \in 0..(Units(medium.shape) - 1) : i = UnitAt(medium.shape, u)
       /\ IsLegacy(written.job) =>
            Canonical(medium.shape, medium.bytes, s) = Canonical(medium.shape, written.before, s)

\* A carrier gives back what was put in it and is otherwise the medium it was
\* (embed and extract of each carrier, canonicalize).
CarriersRoundTrip == EmbeddedIsExtracted /\ BindingSurvives
=============================================================================
