------------------------------ MODULE PacketCli ------------------------------
(***************************************************************************)
(* The packet commands of the CLI (cmd_packet.rs): encode puts a packet    *)
(* into a new carrier file, decode and extract recover its payload into a  *)
(* file; revoke (cmd_encode.rs) adds a key to the revocation list.         *)
(* Commands of several processes work on the same files, carriers are      *)
(* damaged on their way, and other writers of the format leave their own.  *)
(*                                                                         *)
(* A carrier holds at most one packet a reader can recognise: the magic or *)
(* the keyed tag lies in its first units, which every embedding overwrites *)
(* (carrier.rs).  Image and sound differ only in the stride of a unit.     *)
(***************************************************************************)
EXTENDS Packet

CONSTANTS
  Commands,        \* one process each
  Files,
  EmbeddingKeys,
  Compromised,     \* the signing key revoked in the program itself
  EncodeOptions, DecodeOptions,
  CoverFiles,      \* the files there are before any command
  ForeignPackets,  \* packets of other writers of the format
  MaxErrors,       \* BOUND on the wrong symbols of a chunk
  NoList           \* the revocation list does not exist

EncodeOption ==
  [in : Files, out : Files, payload : Payloads, signer : SigningKeys \cup {None},
   compress : BOOLEAN, key : EncryptionKeys \cup {None},
   password : Passwords \cup {None}, parity : Nat,
   place : EmbeddingKeys \cup {None}, bits : 1..4, verify : BOOLEAN]

DecodeOption ==
  [in : Files, out : Files, force : BOOLEAN, key : EncryptionKeys \cup {None},
   password : Passwords \cup {None}, place : EmbeddingKeys \cup {None},
   strengths : SUBSET (1..4), trusted : SigningKeys \cup {None}, explicit : BOOLEAN]

ASSUME CliAssumption ==
  /\ EncodeOptions \subseteq EncodeOption
  /\ DecodeOptions \subseteq DecodeOption
  /\ CoverFiles \subseteq Files
  /\ Compromised \in SigningKeys
  /\ None \notin EmbeddingKeys
  /\ MaxErrors \in Nat
  /\ \A o \in EncodeOptions, c \in Commands : NewPacket(o.payload, c, o) # None

ASSUME ForeignAssumption ==
  \A p \in ForeignPackets : /\ p.digest \in Payloads
                            /\ SignerOf(p) \in SigningKeys \cup {None}
                            /\ p.bits \in Nat

VARIABLES
  files,
  origin,          \* history: the options of the encode that made a carrier
  registry,        \* keys/revoked.json
  at, opt,         \* where each command is, and its options
  revoked,         \* the revocation list a command has loaded
  packet,          \* the packet an encode writes, or a decode has read
  told             \* what the command reports

commandVars == <<files, origin, registry, at, opt, revoked, packet, told>>

Absent == [kind |-> "absent"]
PayloadFile(p) == [kind |-> "payload", payload |-> p]
\* The packet `p` in the low `bits` bits of a carrier, placed with `key`; the
\* front is its magic or tag, the head the rest of its locator and envelope,
\* and the errors are the wrong symbols of its body.
Carrier(p, key, bits) ==
  [kind |-> "carrier", packet |-> p, key |-> key, bits |-> bits,
   front |-> TRUE, head |-> TRUE, errors |-> NoErrors]
Blank == Carrier(None, None, 0)

\* What a command may have to report: a success of the tool, or nothing.
Success(tool, payload, signer) ==
  [of |-> tool, payload |-> payload, signer |-> signer]
Failure == [of |-> "nothing", payload |-> None, signer |-> None]

CommandInit ==
  /\ \E made \in [CoverFiles -> {Blank} \cup {Carrier(p, None, p.bits) : p \in ForeignPackets}] :
       files = [x \in Files |-> IF x \in CoverFiles THEN made[x] ELSE Absent]
  /\ origin = [x \in Files |-> None]
  /\ registry \in {NoList, {}}
  /\ at = [c \in Commands |-> "idle"]
  /\ opt = [c \in Commands |-> None]
  /\ revoked = [c \in Commands |-> {}]
  /\ packet = [c \in Commands |-> None]
  /\ told = [c \in Commands |-> Failure]

To(c, l) == at' = [at EXCEPT ![c] = l]
Tell(c, r) == told' = [told EXCEPT ![c] = r]
Fail(c) == To(c, "done") /\ Tell(c, Failure)

Exists(x) == files[x].kind # "absent"

-----------------------------------------------------------------------------
(* encode.  The media is read, and the output looked at, before the packet *)
(* is made; write_output looks again and publishes without replacing.  The *)
(* packet identifier and the salt are random, so each command has its own. *)

OneKey(o) == o.password = None \/ o.key = None

EncodeAdmitted(o) ==
  /\ OneKey(o)
  /\ files[o.in].kind = "carrier"
  /\ ~Exists(o.out)
  /\ o.signer # Compromised

StartEncode(c) ==
  /\ at[c] = "idle"
  /\ \E o \in EncodeOptions :
       /\ EncodeAdmitted(o)
       /\ opt' = [opt EXCEPT ![c] = o]
       /\ packet' = [packet EXCEPT ![c] = NewPacket(o.payload, c, o)]
  /\ To(c, "publish")
  /\ UNCHANGED <<files, origin, registry, revoked, told>>

\* An option that is refused, or a carrier too small for the packet.
RefuseEncode(c) ==
  /\ at[c] = "idle"
  /\ \E o \in EncodeOptions : opt' = [opt EXCEPT ![c] = o]
  /\ Fail(c)
  /\ UNCHANGED <<files, origin, registry, revoked, packet>>

EncodeDone(c) == Success("encode", opt[c].payload, opt[c].signer)

\* Mutant: published with force.
PublishOver(c) ==
  /\ at[c] = "publish"
  /\ files' = [files EXCEPT ![opt[c].out] =
                 Carrier(packet[c], opt[c].place, opt[c].bits)]
  /\ origin' = [origin EXCEPT ![opt[c].out] = opt[c]]
  /\ To(c, "done") /\ Tell(c, EncodeDone(c))
  /\ UNCHANGED <<registry, opt, revoked, packet>>

PublishCarrier(c) ==
  /\ at[c] = "publish"
  /\ ~Exists(opt[c].out)
  /\ files' = [files EXCEPT ![opt[c].out] =
                 Carrier(packet[c], opt[c].place, opt[c].bits)]
  /\ origin' = [origin EXCEPT ![opt[c].out] = opt[c]]
  /\ IF opt[c].verify
     THEN To(c, "verify") /\ UNCHANGED told
     ELSE To(c, "done") /\ Tell(c, EncodeDone(c))
  /\ UNCHANGED <<registry, opt, revoked, packet>>

\* Another process made the output first.
PublishRefused(c) ==
  /\ at[c] = "publish"
  /\ Exists(opt[c].out)
  /\ Fail(c)
  /\ UNCHANGED <<files, origin, registry, opt, revoked, packet>>

\* What an extractor finds with a placement key, or None, at one strength.
Recognised(file, key, bits) ==
  /\ file.kind = "carrier" /\ file.packet # None
  /\ file.front /\ file.key = key /\ file.bits = bits

\* Checksum, framing, and the placement and strength the envelope declares.
Extracted(file, key, bits) ==
  /\ Recognised(file, key, bits)
  /\ file.head
  /\ Framing(file.packet, file.errors)
  /\ file.packet.keyed = (key # None) /\ file.packet.bits = bits

\* verify_written_carrier: the file is read back and must yield the packet.
VerifyWrite(c) ==
  /\ at[c] = "verify"
  /\ LET file == files[opt[c].out]
     IN  IF /\ Extracted(file, opt[c].place, opt[c].bits)
            /\ file.packet = packet[c] /\ file.errors = NoErrors
         THEN To(c, "done") /\ Tell(c, EncodeDone(c))
         ELSE Fail(c)
  /\ UNCHANGED <<files, origin, registry, opt, revoked, packet>>

-----------------------------------------------------------------------------
(* decode and extract.  The revocation list is loaded, then the carrier is *)
(* read once, then the payload is written.                                 *)

IsRevoked(key, list) == key = Compromised \/ key \in list

\* Only the default list may be missing.
Listed == IF registry = NoList THEN {} ELSE registry

DecodeAdmitted(o) ==
  /\ o.in # o.out
  /\ o.force \/ ~Exists(o.out)
  /\ OneKey(o)
  /\ o.explicit => registry # NoList
  /\ o.trusted # None => ~IsRevoked(o.trusted, Listed)

StartDecode(c) ==
  /\ at[c] = "idle"
  /\ \E o \in DecodeOptions :
       DecodeAdmitted(o) /\ opt' = [opt EXCEPT ![c] = o]
  /\ revoked' = [revoked EXCEPT ![c] = Listed]
  /\ To(c, "read")
  /\ UNCHANGED <<files, origin, registry, packet, told>>

RefuseDecode(c) ==
  /\ at[c] = "idle"
  /\ \E o \in DecodeOptions :
       ~DecodeAdmitted(o) /\ opt' = [opt EXCEPT ![c] = o]
  /\ Fail(c)
  /\ UNCHANGED <<files, origin, registry, revoked, packet>>

\* Mutant: the digest is not compared.
AcceptedUnread(p, b, o, list) ==
  /\ SignerOf(p) # None => ~IsRevoked(SignerOf(p), list)
  /\ o.trusted # None => SignerOf(p) = o.trusted

\* Mutant: any signer that is not revoked satisfies --trusted-signer.
AcceptedAnySigner(p, b, o, list) ==
  /\ Value(b) = p.digest
  /\ SignerOf(p) # None => ~IsRevoked(SignerOf(p), list)
  /\ o.trusted # None => SignerOf(p) # None

\* reverse_packet after the transforms: digest, revocation, trusted signer.
Accepted(p, b, o, list) ==
  /\ Value(b) = p.digest
  /\ SignerOf(p) # None => ~IsRevoked(SignerOf(p), list)
  /\ o.trusted # None => SignerOf(p) = o.trusted

ReversePacket(p, errors, o, list) ==
  {IF b # Lost /\ Accepted(p, b, o, list)
   THEN Success("decode", Value(b), SignerOf(p)) ELSE Failure : b \in Reversed(p, errors, o)}

\* Each strength, with the placement key and without one.  No more than one
\* candidate is recognised, so its answer is the answer.
Candidates(o) == {o.place, None} \X o.strengths

RecoverPacket(file, o, list) ==
  IF \E k \in Candidates(o) : Extracted(file, k[1], k[2])
  THEN ReversePacket(file.packet, file.errors, o, list)
  ELSE {Failure}

Recover(c) ==
  /\ at[c] = "read"
  /\ LET file == files[opt[c].in]
     IN  \E r \in RecoverPacket(file, opt[c], revoked[c]) :
           IF r # Failure
           THEN /\ To(c, "write") /\ Tell(c, r)
                /\ packet' = [packet EXCEPT ![c] = file.packet]
           ELSE Fail(c) /\ UNCHANGED packet
  /\ UNCHANGED <<files, origin, registry, opt, revoked>>

WritePayload(c) ==
  /\ at[c] = "write"
  /\ opt[c].force \/ ~Exists(opt[c].out)
  /\ files' = [files EXCEPT ![opt[c].out] = PayloadFile(told[c].payload)]
  /\ origin' = [origin EXCEPT ![opt[c].out] = None]
  /\ To(c, "done")
  /\ UNCHANGED <<registry, opt, revoked, packet, told>>

WriteRefused(c) ==
  /\ at[c] = "write"
  /\ ~opt[c].force /\ Exists(opt[c].out)
  /\ Fail(c)
  /\ UNCHANGED <<files, origin, registry, opt, revoked, packet>>

-----------------------------------------------------------------------------
(* revoke.  The list is read, the key added, and the file replaced.        *)

StartRevoke(c) ==
  /\ at[c] = "idle"
  /\ \E key \in SigningKeys :
       /\ opt' = [opt EXCEPT ![c] = [key |-> key]]
       /\ IF key \in Listed
          THEN To(c, "done") /\ Tell(c, Success("revoke", None, key))
          ELSE To(c, "record") /\ UNCHANGED told
  /\ revoked' = [revoked EXCEPT ![c] = Listed]
  /\ UNCHANGED <<files, origin, registry, packet>>

RecordRevocation(c) ==
  /\ at[c] = "record"
  /\ registry' = revoked[c] \cup {opt[c].key}
  /\ To(c, "done") /\ Tell(c, Success("revoke", None, opt[c].key))
  /\ UNCHANGED <<files, origin, opt, revoked, packet>>

-----------------------------------------------------------------------------
(* What happens around the commands.                                       *)

Embedded(x) == files[x].kind = "carrier" /\ files[x].packet # None

\* BOUND: an unreadable carrier is not damaged further, nor made unreadable
\* after other damage; no reader can tell.
Readable(x) == Embedded(x) /\ files[x].front /\ files[x].head

\* One more wrong symbol in a chunk of the body.
DamageBody(x, chunk) ==
  /\ Readable(x)
  /\ files[x].errors[chunk] < MaxErrors
  /\ files' = [files EXCEPT ![x].errors[chunk] = @ + 1]
  /\ UNCHANGED <<origin, registry, at, opt, revoked, packet, told>>

\* The magic or tag is lost, or the envelope's CRC32C notices a change.
DamageFront(x) ==
  /\ Readable(x) /\ Clean(files[x])
  /\ files' = [files EXCEPT ![x].front = FALSE]
  /\ UNCHANGED <<origin, registry, at, opt, revoked, packet, told>>

DamageHead(x) ==
  /\ Readable(x) /\ Clean(files[x])
  /\ files' = [files EXCEPT ![x].head = FALSE]
  /\ UNCHANGED <<origin, registry, at, opt, revoked, packet, told>>

CommandNext ==
  \/ \E c \in Commands :
       \/ StartEncode(c) \/ RefuseEncode(c)
       \/ PublishCarrier(c) \/ PublishRefused(c) \/ VerifyWrite(c)
       \/ StartDecode(c) \/ RefuseDecode(c) \/ Recover(c)
       \/ WritePayload(c) \/ WriteRefused(c)
       \/ StartRevoke(c) \/ RecordRevocation(c)
  \/ \E x \in Files : \/ \E chunk \in Chunks : DamageBody(x, chunk)
                      \/ DamageFront(x) \/ DamageHead(x)

CommandSpec == CommandInit /\ [][CommandNext]_commandVars

-----------------------------------------------------------------------------
(* Properties.                                                             *)

\* The packets there can be: those of the options given and of other writers.
Packets == ForeignPackets \cup
             {NewPacket(o.payload, c, o) : o \in EncodeOptions, c \in Commands}

Carriers == [kind : {"carrier"}, packet : Packets \cup {None},
             key : EmbeddingKeys \cup {None}, bits : Nat,
             front : BOOLEAN, head : BOOLEAN, errors : [Chunks -> 0..MaxErrors]]
Contents == {Absent} \cup {PayloadFile(p) : p \in Payloads} \cup Carriers

Options == EncodeOptions \cup DecodeOptions \cup [key : SigningKeys] \cup {None}

Reports == [of : {"nothing", "encode", "decode", "revoke"},
            payload : Payloads \cup {None}, signer : SigningKeys \cup {None}]

\* Types; a payload file holds a payload somebody embedded and never junk.
CommandTypeOK ==
  /\ files \in [Files -> Contents]
  /\ origin \in [Files -> EncodeOptions \cup {None}]
  /\ registry \in {NoList} \cup SUBSET SigningKeys
  /\ at \in [Commands -> {"idle", "publish", "verify", "read", "write", "record", "done"}]
  /\ opt \in [Commands -> Options]
  /\ revoked \in [Commands -> SUBSET SigningKeys]
  /\ packet \in [Commands -> Packets \cup {None}]
  /\ told \in [Commands -> Reports]

Pristine(file) ==
  [file EXCEPT !.front = TRUE, !.head = TRUE, !.errors = NoErrors]

\* Damage changes symbols and not what was put into a carrier.
OnlyDamaged(x) ==
  /\ Embedded(x) /\ Embedded(x)'
  /\ Pristine(files[x]) = Pristine(files'[x])

\* A decode that was told to replace its output.
Forced(x) == \E c \in Commands : /\ at[c] = "write" /\ opt[c].force
                                 /\ opt[c].out = x /\ at'[c] = "done"

\* No command replaces a file that exists, whoever made it after the command
\* looked, except for a decode with --force.
NoClobber ==
  [][\A x \in Files :
       Exists(x) => files'[x] = files[x] \/ OnlyDamaged(x) \/ Forced(x)]_commandVars

\* The receiver has what the sender used, at a strength that is tried.
Matches(e, o) ==
  /\ OneKey(o)
  /\ e.password # None => o.password = e.password
  /\ e.key # None => o.key = e.key
  /\ e.place # None => o.place = e.place
  /\ e.bits \in o.strengths
  /\ o.trusted \in {None, e.signer}

Repairable(file, parity) ==
  /\ file.front /\ file.head
  /\ \A chunk \in Chunks : 2 * file.errors[chunk] <= parity

\* Whatever an encode published, with any combination of transforms, comes back
\* out with its signer for every receiver that has the keys, as long as no chunk
\* has lost more than half the parity and the signer is not revoked.
RoundTrip ==
  \A x \in {y \in Files : origin[y] # None} :
    LET e == origin[x]
    IN Repairable(files[x], e.parity) =>
         \A o \in DecodeOptions, list \in SUBSET SigningKeys :
           /\ Matches(e, o)
           /\ e.signer # None => ~IsRevoked(e.signer, list)
           => RecoverPacket(files[x], o, list) = {Success("decode", e.payload, e.signer)}

\* A decode never writes anything but the payload that was put into the packet
\* it read: damage is repaired or reported.
DeliveredIntact ==
  \A c \in Commands :
    told[c].of = "decode" => told[c].payload = packet[c].payload

\* A signer is reported, and a trusted one accepted, only for a signature of
\* that key over the payload delivered, and not if the list loaded revokes it.
TrustedMeansSigned ==
  \A c \in Commands :
    told[c].of = "decode" =>
      /\ opt[c].trusted # None => told[c].signer = opt[c].trusted
      /\ told[c].signer # None =>
           /\ \E i \in DOMAIN packet[c].transforms :
                LET d == packet[c].transforms[i]
                IN  d.alg = "sign" /\ d.by = told[c].signer /\ d.of = told[c].payload
           /\ ~IsRevoked(told[c].signer, revoked[c])

\* What a revoke has recorded stays on the list.
RevocationsStay ==
  \A c \in Commands : told[c].of = "revoke" => told[c].signer \in Listed
=============================================================================
