------------------------------ MODULE Envelope ------------------------------
(***************************************************************************)
(* The decoders of packet.rs, field by field and level by level.           *)
(* PacketEnvelope::decode reads tagged fields into slots and lists, and    *)
(* encode writes them again; GenericPacket::decode_nested opens packets    *)
(* inside packets.  What a field or a packet is, is chosen when the        *)
(* decoder comes to it: any bytes may be there.                            *)
(*                                                                         *)
(* A value is what the checks make of it: "ok"; "malformed", which its     *)
(* field's own parser refuses; "reserved", which only validate_envelope    *)
(* refuses; "long", longer than a limit or than the bytes left.            *)
(***************************************************************************)
EXTENDS Naturals, Sequences, FiniteSets

CONSTANTS
  FieldIds,      \* BOUND: field identifiers on the wire
  MaxMissing,    \* BOUND: required fields left out
  MAX_FIELDS, MAX_TRANSFORMS, MAX_EXTENSIONS,   \* DecodeLimits
  PacketIds, Lengths,                           \* BOUND: of nested packets
  MAX_NESTING_DEPTH, MAX_AGGREGATE_NESTED       \* DecodeLimits

ASSUME EnvelopeAssumption ==
  /\ FieldIds \subseteq Nat /\ Lengths \subseteq Nat
  /\ MAX_NESTING_DEPTH \in Nat /\ MAX_AGGREGATE_NESTED \in Nat

VARIABLES envelope, wire, nest
envelopeVars == <<envelope, wire>>
decoderVars == <<envelopeVars, nest>>

-----------------------------------------------------------------------------
(* Fields.                                                                 *)

Required == {1, 2, 3, 4, 6, 7, 8}   \* critical, once: packet identifier to created version
Transform == 5                      \* any number, critical or not
Optional == {16, 17, 18, 19}        \* not critical, once: MIME type to parent identifier
FirstExtension == 128

Singles == Required \cup Optional
InGap(id) == id \in 9..15 \/ id \in 20..127

\* Values that validate_envelope refuses: a length over the limit, algorithm
\* zero, a created version that is not ours.
Reservable == {3, Transform, 6, 7, 8}

WireFields ==
  {f \in [id : FieldIds, critical : BOOLEAN, value : {"ok", "malformed", "reserved", "long"}] :
     /\ f.value = "reserved" => f.id \in Reservable
     /\ f.value = "malformed" => f.id \in Singles \cup {Transform}}

Field(id, critical, value) == [id |-> id, critical |-> critical, value |-> value]

Empty(pc) == [pc |-> pc, single |-> [id \in Singles |-> "none"], transforms |-> <<>>,
              unknown |-> <<>>, extensions |-> <<>>]

\* Mutant of BadHeader: fields may come in any order.
BadHeaderUnordered(f) ==
  \/ Len(wire) >= MAX_FIELDS
  \/ f.id = 0
  \/ f.value = "long"
  \/ f.id \in Required /\ ~f.critical
  \/ f.id \in Optional /\ f.critical

\* What the loop refuses before it looks at the field's value.
BadHeader(f) ==
  \/ Len(wire) >= MAX_FIELDS
  \/ f.id = 0 \/ (wire # <<>> /\ f.id < wire[Len(wire)].id)
  \/ f.value = "long"
  \/ f.id \in Required /\ ~f.critical
  \/ f.id \in Optional /\ f.critical

BadField(f) ==
  \/ f.id \in Singles /\ envelope.single[f.id] # "none"
  \/ f.value = "malformed"
  \/ f.id = Transform /\ Len(envelope.transforms) >= MAX_TRANSFORMS
  \/ f.id \notin Singles \cup {Transform} /\ f.critical
  \/ f.id >= FirstExtension /\ Len(envelope.extensions) >= MAX_EXTENSIONS
  \/ InGap(f.id) /\ Len(envelope.unknown) >= MAX_EXTENSIONS

\* Mutant of With: a transform's critical bit is taken for granted.
WithCritical(e, f) ==
  CASE f.id \in Singles -> [e EXCEPT !.single[f.id] = f.value]
    [] f.id = Transform -> [e EXCEPT !.transforms = Append(@, [f EXCEPT !.critical = TRUE])]
    [] f.id >= FirstExtension -> [e EXCEPT !.extensions = Append(@, f)]
    [] OTHER -> [e EXCEPT !.unknown = Append(@, f)]

With(e, f) ==
  CASE f.id \in Singles -> [e EXCEPT !.single[f.id] = f.value]
    [] f.id = Transform -> [e EXCEPT !.transforms = Append(@, f)]
    [] f.id >= FirstExtension -> [e EXCEPT !.extensions = Append(@, f)]
    [] OTHER -> [e EXCEPT !.unknown = Append(@, f)]

\* validate_envelope: extensions may repeat an identifier, preserved fields not.
Valid(e) ==
  /\ \A id \in Singles : e.single[id] # "reserved"
  /\ \A i \in DOMAIN e.transforms : e.transforms[i].value # "reserved"
  /\ Len(e.transforms) <= MAX_TRANSFORMS
  /\ Len(e.extensions) <= MAX_EXTENSIONS /\ Len(e.unknown) <= MAX_EXTENSIONS
  /\ \A i \in DOMAIN e.extensions : e.extensions[i].id >= FirstExtension
  /\ \A i \in 1..(Len(e.extensions) - 1) : e.extensions[i].id <= e.extensions[i + 1].id
  /\ \A i \in DOMAIN e.unknown : InGap(e.unknown[i].id)
  /\ \A i \in 1..(Len(e.unknown) - 1) : e.unknown[i].id < e.unknown[i + 1].id

\* Those of s[1] to s[n] whose places are in S, in order.
Picked(s, n, S) ==
  LET picked[i \in 0..n] ==
        IF i = 0 THEN <<>>
        ELSE IF i \in S THEN Append(picked[i - 1], s[i])
        ELSE picked[i - 1]
  IN picked[n]

\* The fixed slots that hold something, of those in ids.
Slots(e, ids) ==
  Picked([id \in Singles |-> Field(id, id \in Required, e.single[id])], 19,
         {id \in ids : e.single[id] # "none"})

\* The preserved fields with an identifier in ids.
Preserved(e, ids) ==
  Picked(e.unknown, Len(e.unknown), {i \in DOMAIN e.unknown : e.unknown[i].id \in ids})

\* encode: fixed slots in order, the preserved fields in their two gaps.  Its
\* sort of the extensions finds them in order (validate_envelope).
EncodeEnvelope(e) ==
  Slots(e, 1..4) \o e.transforms \o Slots(e, 6..8) \o Preserved(e, 0..15)
    \o Slots(e, Optional) \o Preserved(e, FieldIds \ (0..19)) \o e.extensions

\* An error: nothing of what was read is returned.
Refuse == envelope' = Empty("refused") /\ wire' = <<>>

\* One turn of the loop of PacketEnvelope::decode.
TakeField ==
  /\ envelope.pc = "reading"
  /\ \E f \in WireFields :
       /\ Cardinality({r \in Required : r < f.id /\ envelope.single[r] = "none"}) <= MaxMissing
       /\ IF BadHeader(f) \/ BadField(f)
          THEN Refuse
          ELSE envelope' = With(envelope, f) /\ wire' = Append(wire, f)
  /\ UNCHANGED nest

\* The bytes end: every required field must be there.
EndOfFields ==
  /\ envelope.pc = "reading" /\ wire # <<>>
  /\ IF Valid(envelope) /\ \A id \in Required : envelope.single[id] # "none"
     THEN envelope' = [envelope EXCEPT !.pc = "accepted"] /\ UNCHANGED wire
     ELSE Refuse
  /\ UNCHANGED nest

-----------------------------------------------------------------------------
(* Packets in packets.                                                     *)

NoParent == 0

\* What may be where a packet is looked for: whether its locator, checksum and
\* envelope pass (framed), whether it fills the payload it is in (whole), and
\* whether its body does for its envelope (sound).
Nestable == [framed : BOOLEAN, whole : BOOLEAN, sound : BOOLEAN, id : PacketIds,
             parent : PacketIds \cup {NoParent}, len : Lengths]

Closed == [pc |-> "idle", chain |-> <<>>, current |-> [id |-> 0, parent |-> NoParent],
           depth |-> 0, aggregate |-> 0]

\* Mutant of NestingFits: checks the level the child is in, not the child's.
NestingFitsLate(depth, aggregate) ==
  depth <= MAX_NESTING_DEPTH + 1 /\ aggregate <= MAX_AGGREGATE_NESTED

\* check_nesting.
NestingFits(depth, aggregate) == depth <= MAX_NESTING_DEPTH /\ aggregate <= MAX_AGGREGATE_NESTED

NestTo(pc) == nest' = [nest EXCEPT !.pc = pc]

\* The packet's body is copied: from here it counts.
OpenPacket(p, chain) ==
  nest' = [pc |-> "level", chain |-> chain, current |-> [id |-> p.id, parent |-> p.parent],
           depth |-> nest.depth + 1, aggregate |-> nest.aggregate + p.len]

\* The limits are checked on the locator's lengths, before the envelope is read.
OpenRoot ==
  /\ nest.pc = "idle"
  /\ \E p \in Nestable :
       IF NestingFits(1, p.len) /\ p.framed /\ p.sound
       THEN OpenPacket(p, <<>>) ELSE NestTo("refused")
  /\ UNCHANGED envelopeVars

SeenBefore(id) == \E i \in DOMAIN nest.chain : nest.chain[i].id = id

\* One turn of the loop: the current packet joins the chain, its transforms are
\* reversed, and what comes out is or is not a packet linked to it.
Descend ==
  /\ nest.pc = "level"
  /\ LET chain == Append(nest.chain, nest.current)
         ends(pc) == nest' = [nest EXCEPT !.pc = pc, !.chain = chain]
     IN IF SeenBefore(nest.current.id) THEN NestTo("refused")
        ELSE \/ ends("refused")                 \* a transform or the digest fails
             \/ ends("returned")                \* the payload is no packet
             \/ \E p \in Nestable :
                  IF ~p.framed THEN ends("refused")
                  ELSE IF p.parent = NoParent THEN ends("returned")
                  ELSE IF /\ p.parent = nest.current.id /\ p.whole
                          /\ NestingFits(nest.depth + 1, nest.aggregate + p.len)
                          /\ p.sound
                  THEN OpenPacket(p, chain)
                  ELSE ends("refused")
  /\ UNCHANGED envelopeVars

-----------------------------------------------------------------------------

EnvelopeInit ==
  /\ envelope = Empty("reading")
  /\ wire = <<>> /\ nest = Closed

\* The two decoders have nothing to do with each other.
EnvelopeNext ==
  \/ nest = Closed /\ (TakeField \/ EndOfFields)
  \/ wire = <<>> /\ envelope.pc = "reading" /\ (OpenRoot \/ Descend)

EnvelopeSpec == EnvelopeInit /\ [][EnvelopeNext]_decoderVars

-----------------------------------------------------------------------------
(* Properties. *)

\* "decode→encode round-trips stay byte-exact across forward-compatible minor
\* versions": an envelope that is accepted is the only reading of its bytes,
\* whichever optional, unknown and repeated fields they hold
\* (PacketEnvelope::decode, encode and validate_envelope).
DecodedReencodes == envelope.pc = "accepted" => EncodeEnvelope(envelope) = wire

\* "Every expansion is bounded": no body is opened past the depth or the
\* aggregate limit, and a chain that is returned has each packet once, each
\* linked to the one that carries it (GenericPacket::decode_nested).
NestingIsBounded ==
  /\ nest.depth <= MAX_NESTING_DEPTH /\ nest.aggregate <= MAX_AGGREGATE_NESTED
  /\ nest.pc = "returned" =>
       /\ Len(nest.chain) = nest.depth
       /\ \A i, j \in DOMAIN nest.chain : nest.chain[i].id = nest.chain[j].id => i = j
       /\ \A i \in 2..Len(nest.chain) : nest.chain[i].parent = nest.chain[i - 1].id

\* The two decoders lose nothing of the bytes they accept, and stop
\* (PacketEnvelope::decode, GenericPacket::decode_nested).
DecodersAreExact == DecodedReencodes /\ NestingIsBounded
=============================================================================
