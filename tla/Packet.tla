------------------------------- MODULE Packet -------------------------------
(***************************************************************************)
(* The generic packet as a term: what apply_with_password makes of a       *)
(* payload, what GenericPacket::decode accepts and what                    *)
(* reverse_with_password recovers (packet.rs, transforms.rs, encryption.rs,*)
(* error_correction.rs).                                                   *)
(*                                                                         *)
(* A digest is the payload it was computed from, a signature names its key *)
(* and the payload it was made over, a ciphertext its key and associated   *)
(* data.  A body is the payload under layers, the outermost first, with    *)
(* the number of wrong symbols in each Reed-Solomon chunk of the outermost *)
(* layer.  The primitives (Ed25519, ChaCha20-Poly1305,       *)
(* Argon2id, DEFLATE, BLAKE3) are libraries and ideal: what was not made   *)
(* with a key does not verify under it.                                    *)
(***************************************************************************)
EXTENDS Naturals, Sequences

CONSTANTS
  Payloads,
  Shrinks,         \* the payloads that DEFLATE makes smaller
  Size,            \* length of a payload
  Chunks,          \* chunks of a Reed-Solomon body
  SigningKeys,
  EncryptionKeys,
  Passwords,
  None,            \* an option that is not given
  Junk             \* bytes that are no payload anybody embedded

ASSUME PacketAssumption ==
  /\ Shrinks \subseteq Payloads
  /\ Size \in [Payloads -> Nat]
  /\ Chunks # {}
  /\ None \notin Payloads \cup SigningKeys \cup EncryptionKeys \cup Passwords
  /\ Junk \notin Payloads \cup {None}

-----------------------------------------------------------------------------
(* Layers of the encoded body.                                             *)

Deflated == [op |-> "deflate"]
Sealed(key, aad) == [op |-> "seal", key |-> key, aad |-> aad]
Coded(parity) == [op |-> "rs", parity |-> parity]

\* Argon2id of a password and the salt the descriptor carries.
Derived(password, salt) == [password |-> password, salt |-> salt]
Aad(id, len) == <<id, len>>

NoErrors == [c \in Chunks |-> 0]
Body(payload, layers, errors) ==
  [payload |-> payload, layers |-> layers, errors |-> errors]
Clean(b) == b.errors = NoErrors
Topped(b, layer) == b.layers # <<>> /\ Head(b.layers) = layer
Peel(b) == Body(b.payload, Tail(b.layers), NoErrors)

\* No body at all, and one that is wrong everywhere.
Lost == Body(None, <<>>, NoErrors)
Garbled(b) == Body(b.payload, b.layers, [c \in Chunks |-> 1])

\* The payload bytes a body without layers stands for.
Value(b) == IF b.layers = <<>> /\ Clean(b) THEN b.payload ELSE Junk

-----------------------------------------------------------------------------
(* Descriptors.  The stages of the pipeline are fixed.                     *)

Signature(key, payload) == [alg |-> "sign", by |-> key, of |-> payload]
Deflate == [alg |-> "deflate"]
Kdf(salt) == [alg |-> "kdf", salt |-> salt]
Aead == [alg |-> "aead"]
Rs(parity) == [alg |-> "rs", parity |-> parity]

Stage == [sign |-> 1, deflate |-> 2, kdf |-> 3, aead |-> 4, rs |-> 5]
Flagged == {"sign", "deflate", "aead", "rs"}

Uses(transforms, alg) == \E i \in DOMAIN transforms : transforms[i].alg = alg
DescriptorOf(transforms, alg) ==
  transforms[CHOOSE i \in DOMAIN transforms : transforms[i].alg = alg]

-----------------------------------------------------------------------------
(* Encoding.  `o` holds what the command line asks for: a signer, whether  *)
(* to compress, a raw key or a password (cmd_packet.rs refuses both) and   *)
(* the parity, 0 without error correction.                                 *)

When(condition, element) == IF condition THEN <<element>> ELSE <<>>

Compressing(p, o) == o.compress /\ p \in Shrinks
Encrypting(o) == o.password # None \/ o.key # None
SealingKey(id, o) == IF o.password # None THEN Derived(o.password, id) ELSE o.key

\* Mutant: sealed over the error correction.
LayersSealedLast(p, id, o) ==
     When(Encrypting(o), Sealed(SealingKey(id, o), Aad(id, Size[p])))
  \o When(o.parity > 0, Coded(o.parity))
  \o When(Compressing(p, o), Deflated)

Layers(p, id, o) ==
     When(o.parity > 0, Coded(o.parity))
  \o When(Encrypting(o), Sealed(SealingKey(id, o), Aad(id, Size[p])))
  \o When(Compressing(p, o), Deflated)

Transforms(p, id, o) ==
     When(o.signer # None, Signature(o.signer, p))
  \o When(Compressing(p, o), Deflate)
  \o When(o.password # None, Kdf(id))
  \o When(Encrypting(o), Aead)
  \o When(o.parity > 0, Rs(o.parity))

FlagsOf(transforms) == {alg \in Flagged : Uses(transforms, alg)}

NewPacket(p, id, o) ==
  [id |-> id, len |-> Size[p], digest |-> p,
   transforms |-> Transforms(p, id, o),
   flags |-> FlagsOf(Transforms(p, id, o)),
   keyed |-> o.place # None, bits |-> o.bits,
   payload |-> p, layers |-> Layers(p, id, o)]

-----------------------------------------------------------------------------
(* Decoding a packet whose body was received with these wrong symbols.     *)
(* Framing is what GenericPacket::decode checks once the envelope's        *)
(* checksum holds; Preflight is preflight_transforms.                      *)

Received(packet, errors) == Body(packet.payload, packet.layers, errors)

Framing(packet, errors) ==
  /\ packet.flags = FlagsOf(packet.transforms)
  /\ packet.transforms = <<>> => Value(Received(packet, errors)) = packet.digest

Preflight(transforms) ==
  /\ \A i \in DOMAIN transforms : transforms[i].alg \in DOMAIN Stage
  /\ \A i, j \in DOMAIN transforms :
       i < j => Stage[transforms[i].alg] < Stage[transforms[j].alg]
  /\ Uses(transforms, "kdf") => Uses(transforms, "aead")

\* The chunks decode if none has more wrong symbols than half the parity; one
\* that has more is refused, or taken for another codeword.
Correct(b, parity) ==
  IF Topped(b, Coded(parity)) /\ \A c \in Chunks : 2 * b.errors[c] <= parity
  THEN {Peel(b)} ELSE {Lost, Garbled(b)}

Open(b, key, aad) ==
  IF Topped(b, Sealed(key, aad)) /\ Clean(b) THEN {Peel(b)} ELSE {Lost}

\* A damaged stream may inflate to other bytes of the declared length.
Inflate(b) ==
  IF Topped(b, Deflated) /\ Clean(b) THEN {Peel(b)}
  ELSE IF b = Lost THEN {Lost} ELSE {Lost, Garbled(b)}

\* A packet of a password takes the password and no raw key.
KeysFit(transforms, cred) ==
  IF Uses(transforms, "kdf")
  THEN cred.key = None /\ cred.password # None
  ELSE Uses(transforms, "aead") => cred.key # None

OpeningKey(transforms, cred) ==
  IF Uses(transforms, "kdf")
  THEN Derived(cred.password, DescriptorOf(transforms, "kdf").salt)
  ELSE cred.key

Corrected(packet, errors) ==
  IF Uses(packet.transforms, "rs")
  THEN Correct(Received(packet, errors), DescriptorOf(packet.transforms, "rs").parity)
  ELSE {Received(packet, errors)}

Opened(packet, errors, cred) ==
  IF Uses(packet.transforms, "aead")
  THEN UNION {Open(b, OpeningKey(packet.transforms, cred), Aad(packet.id, packet.len)) :
                b \in Corrected(packet, errors)}
  ELSE Corrected(packet, errors)

Inflated(packet, errors, cred) ==
  IF Uses(packet.transforms, "deflate")
  THEN UNION {Inflate(b) : b \in Opened(packet, errors, cred)}
  ELSE Opened(packet, errors, cred)

\* verify_strict against the key and signature the descriptor carries.
SignatureHolds(packet, b) ==
  Uses(packet.transforms, "sign") =>
    DescriptorOf(packet.transforms, "sign").of = Value(b)

LengthHolds(packet, b) == Value(b) \in Payloads => Size[Value(b)] = packet.len

\* The bodies reverse_with_password may return: none is an error, and a
\* damaged body may have more than one outcome.
Reversed(packet, errors, cred) ==
  IF Preflight(packet.transforms) /\ KeysFit(packet.transforms, cred)
  THEN {IF SignatureHolds(packet, b) /\ LengthHolds(packet, b) THEN b ELSE Lost :
          b \in Inflated(packet, errors, cred)}
  ELSE {Lost}

\* The key named by the signature descriptor.
SignerOf(packet) ==
  IF Uses(packet.transforms, "sign")
  THEN DescriptorOf(packet.transforms, "sign").by ELSE None
=============================================================================
