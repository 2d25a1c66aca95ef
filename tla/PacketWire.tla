----------------------------- MODULE PacketWire -----------------------------
(***************************************************************************)
(* A packet on the wire (packet.rs): the locator, the envelope, the body,  *)
(* and whatever follows.  GenericPacket::encode writes it under the        *)
(* writer's limits, GenericPacket::decode reads it under the reader's, and *)
(* validate_encoded_packet looks at it once more before it is embedded.    *)
(* The post-write check of packet encode compares what it decodes and      *)
(* encodes again with what was embedded.                                   *)
(*                                                                         *)
(* A field of the envelope and a byte of the body are one symbol each; the *)
(* order, critical bits and repetition of fields are in Envelope.  The     *)
(* checksum of an envelope is the envelope and a digest what it was        *)
(* computed from: neither collides.  Anybody may rewrite a packet, and     *)
(* compute the checksum again.                                             *)
(***************************************************************************)
EXTENDS Naturals, Sequences, FiniteSets
LOCAL INSTANCE FiniteSetsExt
LOCAL INSTANCE SequencesExt

CONSTANTS
  Base, WordBytes,   \* of an integer: 256 and 8
  MaxUsize,          \* the largest usize: less than Base^WordBytes where it is 32 bits
  LOCATOR_SIZE,      \* in symbols
  BodiesOnWire,      \* BOUND: bodies, sequences of symbols
  Pipelines,         \* BOUND: the descriptors a writer's transforms leave
  LimitProfiles,     \* BOUND: [envelope, body, packet, fields, transforms, original]
  WireSymbols,       \* BOUND: what is written over or into a packet
  MaxTampers         \* BOUND: how often

VARIABLES
  packet,      \* the packet that was encoded
  onWire,      \* [locator, rest: symbols, cut: the locator is not whole]
  tampers

wireVars == <<packet, onWire, tampers>>

NotAPacket == [error |-> TRUE]

PROTOCOL_MAJOR == 1
PROTOCOL_MINOR == 0
PayloadKinds == 1..5
DigestAlgorithms == {"blake3", "sha256", "sha3_256"}
\* The locator's flag for an algorithm; Argon2id has none.
FlagFor == [deflate |-> "compressed", aead |-> "encrypted", rs |-> "corrected", sign |-> "signed"]
KnownFlags == {FlagFor[a] : a \in DOMAIN FlagFor} \cup {"keyed"}

WireField(id, content) == [id |-> id, content |-> content]

-----------------------------------------------------------------------------
(* Integers, descriptors, digests. *)

\* encode_minimal_u64: big endian, no leading zero, one digit for zero.
EncodeMinimal(v) ==
  LET len == Min({n \in 1..WordBytes : v < Base^n})
  IN [i \in 1..len |-> (v \div Base^(len - i)) % Base]

NoInteger == Base^WordBytes

\* Mutant of DecodeMinimal: leading zeros are read.
DecodeMinimalPadded(digits) ==
  IF Len(digits) \notin 1..WordBytes THEN NoInteger
  ELSE FoldLeft(LAMBDA v, d : v * Base + d, 0, digits)

\* decode_minimal_u64.
DecodeMinimal(digits) ==
  IF Len(digits) \notin 1..WordBytes \/ (Len(digits) > 1 /\ digits[1] = 0) THEN NoInteger
  ELSE FoldLeft(LAMBDA v, d : v * Base + d, 0, digits)

\* encode_algorithm, and what decode_descriptor reads: an algorithm and a
\* version at least.
EncodeDescriptor(d) == <<d.algorithm, d.version>> \o d.parameters
DescriptorWhole(value) == Len(value) >= 2
DecodeDescriptor(value) ==
  [algorithm |-> value[1], version |-> value[2], parameters |-> SubSeq(value, 3, Len(value))]

\* ContentDigest: the algorithm it says, the one it was computed with, of what.
DigestOf(body) == <<"blake3", "blake3", body>>
DigestVerifies(digest, body) == digest[1] = digest[2] /\ digest[3] = body

-----------------------------------------------------------------------------
(* The envelope: what the locator and the body depend on. *)

\* PacketEnvelope::for_payload.
EnvelopeFor(payload, kind, placement) ==
  [kind |-> kind, length |-> Len(payload), digest |-> DigestOf(payload),
   transforms |-> <<>>, placement |-> placement]

\* validate_envelope.
EnvelopeValid(e, limits) ==
  /\ e.length <= MaxUsize /\ e.length <= limits.original
  /\ Len(e.transforms) <= limits.transforms
  /\ e.placement.algorithm # "zero"
  /\ \A i \in DOMAIN e.transforms : e.transforms[i].algorithm # "zero"

EncodeFields(e, limits) ==
  LET fields ==
           <<WireField("kind", EncodeMinimal(e.kind)), WireField("length", EncodeMinimal(e.length)),
             WireField("digest", e.digest)>>
        \o [i \in DOMAIN e.transforms |-> WireField("transform", EncodeDescriptor(e.transforms[i]))]
        \o <<WireField("placement", EncodeDescriptor(e.placement))>>
  IN IF EnvelopeValid(e, limits) /\ Len(fields) <= limits.fields /\ Len(fields) <= limits.envelope
     THEN fields ELSE NotAPacket

\* The fields in the order of their identifiers, each of a value its parser takes.
FieldsRead(fields) ==
  LET count == Len(fields) - 4
  IN /\ count >= 0
     /\ [i \in DOMAIN fields |-> fields[i].id] =
          <<"kind", "length", "digest">> \o [i \in 1..count |-> "transform"] \o <<"placement">>
     /\ DecodeMinimal(fields[1].content) \in PayloadKinds
     /\ DecodeMinimal(fields[2].content) # NoInteger
     /\ fields[3].content[1] \in DigestAlgorithms
     /\ \A i \in 4..(4 + count) : DescriptorWhole(fields[i].content)

\* PacketEnvelope::decode.
DecodeFields(fields, limits) ==
  LET count == Len(fields) - 4
      e == [kind |-> DecodeMinimal(fields[1].content), length |-> DecodeMinimal(fields[2].content),
            digest |-> fields[3].content,
            transforms |-> [i \in 1..count |-> DecodeDescriptor(fields[3 + i].content)],
            placement |-> DecodeDescriptor(fields[4 + count].content)]
  IN IF ~(Len(fields) <= limits.envelope /\ Len(fields) <= limits.fields /\ FieldsRead(fields))
     THEN NotAPacket
     ELSE IF EnvelopeValid(e, limits) THEN e ELSE NotAPacket

-----------------------------------------------------------------------------
(* The locator. *)

\* validate_flags.
FlagsKnown(flags) == flags \subseteq KnownFlags

\* validate_flag_transform_consistency.
FlagsMirror(flags, transforms) ==
  \A a \in DOMAIN FlagFor :
    FlagFor[a] \in flags <=> \E i \in DOMAIN transforms : transforms[i].algorithm = a

\* packet_len, where it does not overflow.
PacketLen(locator) == LOCATOR_SIZE + locator.envelopeLen + locator.bodyLen

\* validate_lengths.
LengthsFit(envelopeLen, bodyLen, limits) ==
  LET whole == LOCATOR_SIZE + envelopeLen + bodyLen
  IN /\ envelopeLen <= limits.envelope /\ bodyLen <= limits.body
     /\ whole <= MaxUsize /\ whole <= limits.packet

\* Locator::new.
NewLocator(flags, fields, body, limits) ==
  IF FlagsKnown(flags) /\ LengthsFit(Len(fields), Len(body), limits)
  THEN [magic |-> TRUE, major |-> PROTOCOL_MAJOR, minor |-> PROTOCOL_MINOR, flags |-> flags,
        envelopeLen |-> Len(fields), bodyLen |-> Len(body), crc |-> fields]
  ELSE NotAPacket

\* Locator::from_bytes.
LocatorReads(bytes, limits) ==
  LET l == bytes.locator
  IN /\ ~bytes.cut /\ l.magic
     /\ l.major = PROTOCOL_MAJOR /\ l.minor <= PROTOCOL_MINOR
     /\ FlagsKnown(l.flags)
     /\ l.bodyLen <= MaxUsize
     /\ LengthsFit(l.envelopeLen, l.bodyLen, limits)

-----------------------------------------------------------------------------
(* The packet. *)

\* validate_untransformed_body: only a body that is the payload is compared.
BodyMatches(e, body) ==
  e.transforms = <<>> => e.length = Len(body) /\ DigestVerifies(e.digest, body)

\* GenericPacket::encode.
EncodePacket(p, limits) ==
  LET fields == EncodeFields(p.envelope, limits)
      l == p.locator
  IN IF /\ l.major = PROTOCOL_MAJOR /\ l.minor <= PROTOCOL_MINOR
        /\ FlagsKnown(l.flags) /\ FlagsMirror(l.flags, p.envelope.transforms)
        /\ fields # NotAPacket
        /\ LengthsFit(Len(fields), Len(p.body), limits)
        /\ l.envelopeLen = Len(fields) /\ l.bodyLen = Len(p.body) /\ l.crc = fields
        /\ BodyMatches(p.envelope, p.body)
     THEN [locator |-> l, cut |-> FALSE,
           rest |-> fields \o p.body]
     ELSE NotAPacket

\* The first symbols after the locator, and the body behind them.
FieldsOf(bytes) == SubSeq(bytes.rest, 1, bytes.locator.envelopeLen)
BodyOf(bytes) ==
  SubSeq(bytes.rest, bytes.locator.envelopeLen + 1, bytes.locator.envelopeLen + bytes.locator.bodyLen)

\* decode_packet_envelope.
EnvelopeOf(bytes, limits) ==
  LET e == DecodeFields(FieldsOf(bytes), limits)
  IN IF /\ LOCATOR_SIZE + Len(bytes.rest) >= PacketLen(bytes.locator)
        /\ bytes.locator.crc = FieldsOf(bytes)
        /\ e # NotAPacket
        /\ FlagsMirror(bytes.locator.flags, e.transforms)
     THEN e ELSE NotAPacket

\* GenericPacket::decode: what follows the packet is not looked at.
DecodePacket(bytes, limits) ==
  LET e == EnvelopeOf(bytes, limits)
  IN IF ~LocatorReads(bytes, limits) THEN NotAPacket
     ELSE IF e = NotAPacket THEN NotAPacket
     ELSE IF BodyMatches(e, BodyOf(bytes))
     THEN [locator |-> bytes.locator, envelope |-> e, body |-> BodyOf(bytes)]
     ELSE NotAPacket

Unlimited(len) ==
  [envelope |-> len, body |-> len, packet |-> len, fields |-> len, transforms |-> len,
   original |-> MaxUsize]

\* validate_encoded_packet: bounded by what is there, by no policy.
Embeddable(bytes) ==
  ~bytes.cut /\ DecodePacket(bytes, Unlimited(LOCATOR_SIZE + Len(bytes.rest))) # NotAPacket

-----------------------------------------------------------------------------
(* Writing (cmd_packet::encode). *)

\* new_untransformed, to which the transforms are applied; synchronize_locator.
WrittenPacket(payload, body, transforms, flags, placement, limits) ==
  LET plain == EnvelopeFor(payload, 1, placement)
      e == [plain EXCEPT !.transforms = transforms]
      fields == EncodeFields(e, limits)
  IN IF \/ Len(payload) > limits.body \/ EncodeFields(plain, limits) = NotAPacket
        \/ NewLocator({}, EncodeFields(plain, limits), payload, limits) = NotAPacket
        \/ fields = NotAPacket
     THEN NotAPacket
     ELSE IF NewLocator(flags, fields, body, limits) = NotAPacket THEN NotAPacket
     ELSE [locator |-> NewLocator(flags, fields, body, limits), envelope |-> e, body |-> body]

FlagsFor(transforms) ==
  {FlagFor[transforms[i].algorithm] : i \in {j \in DOMAIN transforms : transforms[j].algorithm \in DOMAIN FlagFor}}

WireInit ==
  /\ \E payload, body \in BodiesOnWire, transforms \in Pipelines, limits \in LimitProfiles,
        keyed \in SUBSET {"keyed"} :
       /\ transforms = <<>> => body = payload
       /\ LET placement == [algorithm |-> IF keyed = {} THEN "sequential" ELSE "keyed",
                            version |-> 1, parameters |-> <<>>]
              p == WrittenPacket(payload, body, transforms, FlagsFor(transforms) \cup keyed,
                                 placement, limits)
          IN /\ p # NotAPacket
             /\ packet = p /\ onWire = EncodePacket(p, limits)
  /\ tampers = 0

-----------------------------------------------------------------------------
(* Others write over a packet. *)

Tampered(bytes) ==
  /\ tampers < MaxTampers /\ tampers' = tampers + 1
  /\ onWire' = bytes
  /\ UNCHANGED packet

TamperLocator ==
  LET l == onWire.locator
      lengths(n) == {n + 1, MaxUsize, NoInteger - 1} \cup {n - 1 : k \in 1..Min({1, n})}
  IN \E changed \in
          {[l EXCEPT !.magic = FALSE], [l EXCEPT !.major = 2], [l EXCEPT !.minor = 1]}
            \cup {[l EXCEPT !.flags = (@ \ {f}) \cup ({f} \ @)] : f \in KnownFlags \cup {"unknown"}}
            \cup {[l EXCEPT !.envelopeLen = n] : n \in lengths(l.envelopeLen)}
            \cup {[l EXCEPT !.bodyLen = n] : n \in lengths(l.bodyLen)} :
       Tampered([onWire EXCEPT !.locator = changed])

TamperSymbol ==
  \E i \in DOMAIN onWire.rest :
    \/ \E s \in WireSymbols : Tampered([onWire EXCEPT !.rest[i] = s])
    \/ \E s \in WireSymbols : Tampered([onWire EXCEPT !.rest = InsertAt(@, i, s)])
    \/ Tampered([onWire EXCEPT !.rest = RemoveAt(@, i)])

\* The end is missing, or more follows.
Resize ==
  \/ \E s \in WireSymbols : Tampered([onWire EXCEPT !.rest = Append(@, s)])
  \/ Tampered([onWire EXCEPT !.rest = <<>>, !.cut = TRUE])

\* Another program's locator for the fields and the body that are there.
Relocate ==
  LET fields == SelectSeq(onWire.rest, LAMBDA s : s.id # "byte")
      used == {a \in DOMAIN FlagFor :
                 \E i \in DOMAIN fields : fields[i].id = "transform" /\ fields[i].content[1] = a}
      mirrored == (onWire.locator.flags \cap {"keyed"}) \cup {FlagFor[a] : a \in used}
  IN /\ \E flags \in {onWire.locator.flags, mirrored} :
          onWire' = [onWire EXCEPT !.locator.envelopeLen = Len(fields),
                                   !.locator.bodyLen = Len(onWire.rest) - Len(fields),
                                   !.locator.crc = fields, !.locator.flags = flags]
     /\ UNCHANGED <<packet, tampers>>

WireNext == TamperLocator \/ TamperSymbol \/ Resize \/ Relocate

-----------------------------------------------------------------------------
(* Properties. *)

\* Whatever is decoded encodes to the bytes it was decoded from, and may be
\* embedded: "Embedding is not a second decode-policy boundary"
\* (GenericPacket::decode and encode, validate_encoded_packet).
DecodedIsEncoded ==
  \A limits \in LimitProfiles :
    LET p == DecodePacket(onWire, limits)
        len == onWire.locator.envelopeLen + onWire.locator.bodyLen
    IN p # NotAPacket =>
         /\ EncodePacket(p, limits) = [onWire EXCEPT !.rest = SubSeq(@, 1, len)]
         /\ Embeddable(onWire)

\* "The configured limits are enforced on encode, symmetric with the limits
\* passed to decode": a packet can be written under limits exactly if what was
\* written can be read under them (GenericPacketCodec).
LimitsAreSymmetric ==
  tampers = 0 =>
    \A limits \in LimitProfiles :
      LET written == EncodePacket(packet, Unlimited(MaxUsize))
      IN IF EncodePacket(packet, limits) = NotAPacket
         THEN DecodePacket(written, limits) = NotAPacket
         ELSE EncodePacket(packet, limits) = written /\ DecodePacket(written, limits) = packet

\* A body that was not transformed is the one its envelope was made for,
\* whatever is rewritten outside of the envelope (validate_untransformed_body).
PlainBodyIsIntact ==
  LET p == DecodePacket(onWire, Unlimited(MaxUsize))
  IN p # NotAPacket /\ p.envelope = packet.envelope /\ packet.envelope.transforms = <<>>
       => p.body = packet.body

\* Reading and writing of packets agree on bytes, limits and bodies.
WireIsExact == DecodedIsEncoded /\ LimitsAreSymmetric /\ PlainBodyIsIntact
=============================================================================
