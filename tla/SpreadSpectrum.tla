--------------------------- MODULE SpreadSpectrum ---------------------------
(***************************************************************************)
(* The spread-spectrum watermark (spread_spectrum.rs): every bit of a      *)
(* payload is spread over many values of a medium, each moved to the       *)
(* nearest value of the class that the bit and a keyed chip ask for, and   *)
(* read back by majority.  The signature goes into the green bytes of a    *)
(* frame or the first channel of sound; the commands encode and verify put *)
(* a length and a payload into the bytes of an image (cmd_encode.rs,       *)
(* cmd_verify.rs).                                                         *)
(*                                                                         *)
(* Values are small: 0..MaxByte for bytes, their double range around zero  *)
(* for samples.  The chips are whatever the key makes of them.             *)
(***************************************************************************)
EXTENDS Integers, Sequences, FiniteSets
LOCAL INSTANCE FiniteSetsExt

CONSTANTS
  SpreadMedia,       \* BOUND: [shape, cover]: a medium, and the value it begins with
  SpreadJobs,        \* BOUND: [key, amplitude, spread, bits]
  MaxByte,           \* 255, scaled down
  MIN_SPREAD,        \* 8, scaled down
  BitsPerByte,       \* 8, scaled down
  RawLengthBits,     \* 32, scaled down
  SignatureMagic,    \* the bits a signature begins with
  Chip(_, _, _),     \* (key, bit position, i) -> 0 or 1: the keyed noise
  Noise(_),          \* BOUND: value -> what it may be disturbed to
  MaxNoise,          \* BOUND: disturbances
  MaxMarks           \* BOUND: embeddings, one over the other

VARIABLES
  host,      \* [shape, values]
  marks,     \* the embeddings: [job, before, after], values before and after
  noise

spreadVars == <<host, marks, noise>>

-----------------------------------------------------------------------------
(* Quantization. *)

Lowest(shape) == IF shape.kind = "sound" THEN -(MaxByte + 1) ELSE 0
DomainOf(shape) == Lowest(shape)..MaxByte

\* validate, with the largest amplitude the values have room for.
SpreadValid(job) == job.amplitude \in 1..MaxByte /\ job.spread >= MIN_SPREAD

\* quantization_step: at most half of what a value may move.
Step(amplitude) == (amplitude + 1) \div 2

\* Which of the two interleaved lattices a value belongs to.
Class(value, amplitude) == (value \div Step(amplitude)) % 2

\* Mutant of Projected: clipped to the domain, not moved to the other side.
ProjectedClipped(value, amplitude, shape, chip) ==
  LET step == Step(amplitude)
      residue == chip * step + (step - 1) \div 2
      lower == residue + ((value - residue) \div (2 * step)) * 2 * step
      nearest == IF value - lower <= lower + 2 * step - value THEN lower ELSE lower + 2 * step
  IN Max({Lowest(shape), Min({nearest, MaxByte})})

\* project: the nearest centre of the chip's class inside of the domain.
Projected(value, amplitude, shape, chip) ==
  LET step == Step(amplitude)
      residue == chip * step + (step - 1) \div 2
      lower == residue + ((value - residue) \div (2 * step)) * 2 * step
      upper == lower + 2 * step
  IN IF lower < Lowest(shape) THEN upper
     ELSE IF upper > MaxByte \/ value - lower <= upper - value THEN lower
     ELSE upper

-----------------------------------------------------------------------------
(* Where the values are. *)

\* Frames: the green byte of a pixel, no padding; sound: the first channel; raw:
\* every byte of the file.
EligibleUnits(shape) ==
  CASE shape.kind = "frame" -> shape.width * shape.height
    [] shape.kind = "sound" -> shape.len \div shape.channels
    [] OTHER -> shape.len

Offset(shape, unit) ==
  CASE shape.kind = "frame" ->
         (unit \div shape.width) * shape.row + (unit % shape.width) * shape.bpp + 1
    [] shape.kind = "sound" -> unit * shape.channels
    [] OTHER -> unit

SizeOf(shape) == IF shape.kind = "frame" THEN shape.row * shape.height ELSE shape.len

\* embed_raw_spread_spectrum_video: the length in bytes, then the payload.
LengthPrefix(bits) ==
  [i \in 1..RawLengthBits |-> ((Len(bits) \div BitsPerByte) \div 2^(RawLengthBits - i)) % 2]
Message(shape, job) == IF shape.kind = "raw" THEN LengthPrefix(job.bits) \o job.bits ELSE job.bits

SpreadTakes(shape, job) ==
  SpreadValid(job) /\ Len(Message(shape, job)) * job.spread <= EligibleUnits(shape)

\* spread_spectrum::capacity, and what info calls the payloads an image can hold.
CapacityBytes(shape, job) ==
  IF job.spread < MIN_SPREAD THEN 0 ELSE (EligibleUnits(shape) \div job.spread) \div BitsPerByte
PayloadsHeld(shape, job) == (shape.len \div job.spread) \div (RawLengthBits + Len(job.bits))

-----------------------------------------------------------------------------
(* Embedding and majority detection. *)

\* write_chips: unit u of the eligible ones carries a chip of one bit.
WrittenChip(message, job, u) ==
  LET position == u \div job.spread
  IN (message[position + 1] + Chip(job.key, position, u % job.spread)) % 2

Watermarked(shape, values, job) ==
  LET message == Message(shape, job)
      units == 0..(Len(message) * job.spread - 1)
  IN [at \in DOMAIN values |->
       LET us == {u \in units : Offset(shape, u) = at}
       IN IF us = {} THEN values[at]
          ELSE Projected(values[at], job.amplitude, shape, WrittenChip(message, job, Max(us)))]

\* correlation: the chips of a bit that say one less those that say zero.
Correlation(shape, values, job, position) ==
  LET one(i) ==
        Class(values[Offset(shape, position * job.spread + i)], job.amplitude)
          # Chip(job.key, position, i)
      ones == Cardinality({i \in 0..(job.spread - 1) : one(i)})
  IN 2 * ones - job.spread

Decision(correlation) == IF correlation > 0 THEN 1 ELSE 0

ReadBits(shape, values, job, from, count) ==
  [k \in 1..count |-> Decision(Correlation(shape, values, job, from + k - 1))]

NoMark == <<>>

\* extract: the payload has one length and a magic; and extract_raw_ss_video,
\* which reads the length.
ReadMark(shape, values, job) ==
  LET prefix == ReadBits(shape, values, job, 0, RawLengthBits)
      bytes == MapThenSumSet(LAMBDA i : prefix[i] * 2^(RawLengthBits - i), 1..RawLengthBits)
      fits(bits) == bits * job.spread <= EligibleUnits(shape)
      signature == ReadBits(shape, values, job, 0, Len(job.bits))
  IN CASE shape.kind # "raw" ->
            IF fits(Len(job.bits)) /\ SubSeq(signature, 1, Len(SignatureMagic)) = SignatureMagic THEN signature
            ELSE NoMark
       [] OTHER ->
            IF fits(RawLengthBits) /\ bytes # 0 /\ fits(RawLengthBits + bytes * BitsPerByte)
            THEN ReadBits(shape, values, job, RawLengthBits, bytes * BitsPerByte)
            ELSE NoMark

-----------------------------------------------------------------------------

\* A medium of all the values there are, from its cover on.
SpreadInit ==
  /\ \E m \in SpreadMedia :
       host = [shape |-> m.shape,
               values |-> [at \in 0..(SizeOf(m.shape) - 1) |->
                             Lowest(m.shape) + ((m.cover + at) % Cardinality(DomainOf(m.shape)))]]
  /\ marks = <<>> /\ noise = 0

\* A call that is refused leaves the medium as it was.
EmbedMark ==
  /\ Len(marks) < MaxMarks
  /\ \E job \in {j \in SpreadJobs : SpreadTakes(host.shape, j)} :
       /\ host' = [host EXCEPT !.values = Watermarked(host.shape, @, job)]
       /\ marks' = Append(marks, [job |-> job, before |-> host.values, after |-> host'.values])
  /\ UNCHANGED noise

\* What happens to a medium on its way.
Disturb ==
  /\ marks # <<>> /\ noise < MaxNoise
  /\ \E at \in DOMAIN host.values : \E v \in Noise(host.values[at]) \cap DomainOf(host.shape) :
       host' = [host EXCEPT !.values[at] = v]
  /\ noise' = noise + 1
  /\ UNCHANGED marks

SpreadNext == EmbedMark \/ Disturb

-----------------------------------------------------------------------------
(* Properties. *)

LastMark == marks[Len(marks)]

\* "Projection stays within the configured amplitude even at unsigned-video and
\* signed-PCM extrema": at any value, and nothing but the units that carry chips
\* moves (project, embed).
DistortionIsBounded ==
  \A n \in DOMAIN marks :
    LET m == marks[n]
        shape == host.shape
        carriers == {Offset(shape, u) : u \in 0..(Len(Message(shape, m.job)) * m.job.spread - 1)}
    IN \A at \in DOMAIN m.after :
         /\ m.after[at] \in DomainOf(shape)
         /\ m.after[at] - m.before[at] \in (-m.job.amplitude)..m.job.amplitude
         /\ at \notin carriers => m.after[at] = m.before[at]

\* "Majority detection reads the lattice class": the last mark is read back as
\* long as, for every bit, fewer than half of its chips have changed their class
\* since; "with the default amplitude 3 [...] toggling the delivered byte's LSB
\* preserves its chip class" (correlation, decision).
MajorityIsRead ==
  marks # <<>> =>
    LET shape == host.shape
        job == LastMark.job
        at(position, i) == Offset(shape, position * job.spread + i)
        flipped(position) ==
          {i \in 0..(job.spread - 1) :
             Class(host.values[at(position, i)], job.amplitude)
               # Class(LastMark.after[at(position, i)], job.amplitude)}
        overwritten(lsb) == [x \in DOMAIN host.values |-> 2 * (LastMark.after[x] \div 2) + lsb]
    IN /\ (\A position \in 0..(Len(Message(shape, job)) - 1) :
              2 * Cardinality(flipped(position)) < job.spread)
            => ReadMark(shape, host.values, job) = job.bits
       /\ job.amplitude = 3 =>
            \A lsb \in {0, 1} : ReadMark(shape, overwritten(lsb), job) = job.bits

\* A payload is taken exactly if the capacity that is reported has room for it
\* (spread_spectrum::capacity, cmd_encode::info).
SpreadCapacityIsExact ==
  \A job \in SpreadJobs :
    LET room == IF host.shape.kind = "raw" THEN PayloadsHeld(host.shape, job) >= 1
                ELSE CapacityBytes(host.shape, job) * BitsPerByte >= Len(job.bits)
    IN SpreadTakes(host.shape, job) <=> room /\ SpreadValid(job)

\* A watermark moves little, is read back, and fits where it is said to fit.
WatermarkHolds == DistortionIsBounded /\ MajorityIsRead /\ SpreadCapacityIsExact
=============================================================================
