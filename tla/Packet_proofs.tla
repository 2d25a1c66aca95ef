--------------------------- MODULE Packet_proofs ---------------------------
(***************************************************************************)
(* Proofs about packets.  The packet commands, for any number of commands, *)
(* files, keys, payloads and chunks: types, what a decode may deliver and  *)
(* which signer it may report, and that no file is replaced unasked.  The  *)
(* decoders of envelopes and of packets in packets, for any identifiers,   *)
(* lengths and limits: an envelope is accepted only from the fields it is  *)
(* encoded to, and the packets in packets are bounded.                     *)
(***************************************************************************)
EXTENDS PacketCli, Envelope, SequenceTheorems, NaturalsInduction, WellFoundedInduction, TLAPS

-----------------------------------------------------------------------------
(* The operators of Packet.                                                *)

\* The writer's descriptors name the signer it was given.
LEMMA WriterSigns ==
  ASSUME NEW o \in EncodeOption, NEW id
  PROVE  SignerOf(NewPacket(o.payload, id, o)) \in SigningKeys \cup {None}
<1> DEFINE p == NewPacket(o.payload, id, o)
           sig == Signature(o.signer, o.payload)
           others == {Deflate, Kdf(id), Aead, Rs(o.parity)}
           D == others \cup (IF o.signer # None THEN {sig} ELSE {})
<1>1. /\ When(o.signer # None, sig) \in Seq(D)
      /\ When(Compressing(o.payload, o), Deflate) \in Seq(D)
      /\ When(o.password # None, Kdf(id)) \in Seq(D)
      /\ When(Encrypting(o), Aead) \in Seq(D)
      /\ When(o.parity > 0, Rs(o.parity)) \in Seq(D)
  <2>1. ASSUME NEW b \in BOOLEAN, NEW d, b => d \in D
        PROVE  When(b, d) \in Seq(D)
    <3> HIDE DEF D
    <3>1. CASE b
      <4>1. <<d>> \in Seq(D)
        BY <2>1, <3>1
      <4> QED BY <3>1, <4>1 DEF When
    <3>2. CASE ~b
      <4>1. << >> \in Seq(D)
        OBVIOUS
      <4> QED BY <3>2, <4>1 DEF When
    <3> QED BY <3>1, <3>2
  <2>2. /\ (o.signer # None) \in BOOLEAN /\ Compressing(o.payload, o) \in BOOLEAN
        /\ (o.password # None) \in BOOLEAN /\ Encrypting(o) \in BOOLEAN
        /\ (o.parity > 0) \in BOOLEAN
    BY DEF Compressing, Encrypting, EncodeOption
  <2>3. /\ o.signer # None => sig \in D
        /\ Deflate \in D /\ Kdf(id) \in D /\ Aead \in D /\ Rs(o.parity) \in D
    OBVIOUS
  <2> QED BY <2>1, <2>2, <2>3
<1>2. Transforms(o.payload, id, o) \in Seq(D)
  <2> HIDE DEF D
  <2> QED BY <1>1 DEF Transforms
<1>3. p.transforms \in Seq(D)
  BY <1>2 DEF NewPacket
<1>4. CASE Uses(p.transforms, "sign")
  <2>1. DescriptorOf(p.transforms, "sign") \in D
        /\ DescriptorOf(p.transforms, "sign").alg = "sign"
    <3> HIDE DEF p, D
    <3>1. PICK i \in DOMAIN p.transforms : p.transforms[i].alg = "sign"
      BY <1>4 DEF Uses
    <3> QED BY <1>3, <3>1 DEF DescriptorOf
  <2>2. \A d \in others : d.alg # "sign"
    BY DEF Deflate, Kdf, Aead, Rs
  <2>3. DescriptorOf(p.transforms, "sign") = sig /\ o.signer # None
    <3> HIDE DEF p, sig, others
    <3> QED BY <2>1, <2>2
  <2>4. SignerOf(p) = o.signer
    BY <1>4, <2>3 DEF SignerOf, Signature
  <2> QED BY <2>4 DEF EncodeOption
<1>5. CASE ~Uses(p.transforms, "sign")
  BY <1>5 DEF SignerOf
<1> QED BY <1>4, <1>5

\* Correcting, opening and inflating yield the payload under the layers or
\* nothing: none of them invents a payload.
LEMMA ReversedKeepsPayload ==
  ASSUME NEW p, NEW errors, NEW o, NEW b \in Reversed(p, errors, o)
  PROVE  b = Lost \/ b.payload = p.payload
<1> DEFINE Ours(x) == x = Lost \/ x.payload = p.payload
<1>1. Received(p, errors).payload = p.payload
  BY DEF Received, Body
<1>2. ASSUME NEW x, x.payload = p.payload, NEW parity, NEW y \in Correct(x, parity)
      PROVE  Ours(y)
  BY <1>2 DEF Correct, Peel, Garbled, Body
<1>3. ASSUME NEW x, Ours(x), NEW key, NEW aad, NEW y \in Open(x, key, aad)
      PROVE  Ours(y)
  BY <1>3 DEF Open, Peel, Lost, Body, Topped
<1>4. ASSUME NEW x, Ours(x), NEW y \in Inflate(x)
      PROVE  Ours(y)
  BY <1>4 DEF Inflate, Peel, Garbled, Lost, Body, Topped
<1>5. \A y \in Corrected(p, errors) : Ours(y)
  BY <1>1, <1>2 DEF Corrected
<1>6. \A y \in Opened(p, errors, o) : Ours(y)
  BY <1>3, <1>5 DEF Opened
<1>7. \A y \in Inflated(p, errors, o) : Ours(y)
  BY <1>4, <1>6 DEF Inflated
<1> QED BY <1>7 DEF Reversed

\* A body that survives carries the signature its descriptor claims.
LEMMA ReversedIsSigned ==
  ASSUME NEW p, NEW errors, NEW o, NEW b \in Reversed(p, errors, o), b # Lost
  PROVE  SignatureHolds(p, b)
BY DEF Reversed

-----------------------------------------------------------------------------
(* What the options, packets and files are.                                *)

LEMMA PacketFacts ==
  ASSUME NEW p \in Packets
  PROVE  p.digest \in Payloads /\ SignerOf(p) \in SigningKeys \cup {None}
<1>1. CASE p \in ForeignPackets
  BY <1>1, ForeignAssumption
<1>2. CASE p \notin ForeignPackets
  <2>1. PICK o \in EncodeOptions, c \in Commands : p = NewPacket(o.payload, c, o)
    BY <1>2 DEF Packets
  <2>2. o \in EncodeOption
    BY CliAssumption
  <2>3. p.digest = o.payload
    BY <2>1 DEF NewPacket
  <2> QED BY <2>1, <2>2, <2>3, WriterSigns DEF EncodeOption
<1> QED BY <1>1, <1>2

LEMMA CarrierFacts ==
  ASSUME NEW f \in Contents, f.kind = "carrier"
  PROVE  f \in Carriers
BY DEF Contents, Absent, PayloadFile

\* The answer of a reader that recovers something.
LEMMA RecoverFacts ==
  ASSUME NEW f \in Contents, NEW o, NEW list,
         NEW r \in RecoverPacket(f, o, list), r # Failure
  PROVE  /\ f.packet \in Packets
         /\ r \in Reports
         /\ r.of = "decode"
         /\ r.payload = f.packet.payload
         /\ r.payload \in Payloads
         /\ o.trusted # None => r.signer = o.trusted
         /\ r.signer # None =>
              /\ \E i \in DOMAIN f.packet.transforms :
                   LET d == f.packet.transforms[i]
                   IN  d.alg = "sign" /\ d.by = r.signer /\ d.of = r.payload
              /\ ~IsRevoked(r.signer, list)
<1> DEFINE p == f.packet
<1>1. f.kind = "carrier" /\ p # None
  BY DEF RecoverPacket, Extracted, Recognised
<1>2. p \in Packets
  BY <1>1, CarrierFacts DEF Carriers
<1>3. PICK b \in Reversed(p, f.errors, o) :
        b # Lost /\ Accepted(p, b, o, list) /\ r = Success("decode", Value(b), SignerOf(p))
  BY DEF RecoverPacket, ReversePacket
<1>4. /\ r.of = "decode" /\ r.payload = Value(b) /\ r.signer = SignerOf(p)
  BY <1>3 DEF Success
<1>5. Value(b) \in Payloads
  BY <1>2, <1>3, PacketFacts DEF Accepted
<1>6. Value(b) = b.payload
  BY <1>5, PacketAssumption DEF Value
<1>7. r \in Reports
  BY <1>2, <1>3, <1>5, PacketFacts DEF Success, Reports
<1>8. r.payload = p.payload
  BY <1>3, <1>4, <1>6, ReversedKeepsPayload
<1>9. o.trusted # None => r.signer = o.trusted
  BY <1>3, <1>4 DEF Accepted
<1>10. ASSUME r.signer # None
       PROVE  /\ \E i \in DOMAIN p.transforms :
                   LET d == p.transforms[i]
                   IN  d.alg = "sign" /\ d.by = r.signer /\ d.of = r.payload
              /\ ~IsRevoked(r.signer, list)
  <2>1. Uses(p.transforms, "sign")
    BY <1>4, <1>10 DEF SignerOf
  <2>2. PICK i \in DOMAIN p.transforms :
          p.transforms[i].alg = "sign" /\ p.transforms[i] = DescriptorOf(p.transforms, "sign")
    BY <2>1 DEF Uses, DescriptorOf
  <2>3. p.transforms[i].by = r.signer
    BY <1>4, <2>1, <2>2 DEF SignerOf
  <2>4. p.transforms[i].of = r.payload
    BY <1>3, <1>4, <2>1, <2>2, ReversedIsSigned DEF SignatureHolds
  <2>5. ~IsRevoked(r.signer, list)
    BY <1>3, <1>4, <1>10 DEF Accepted
  <2> QED BY <2>2, <2>3, <2>4, <2>5
<1> QED BY <1>2, <1>4, <1>5, <1>7, <1>8, <1>9, <1>10

-----------------------------------------------------------------------------
(* The inductive invariant: what a command holds at each of its steps.     *)

StageOK(a, o, p, t) ==
  /\ a \in {"publish", "verify"} => o \in EncodeOptions /\ p \in Packets
  /\ a \in {"read", "write"} => o \in DecodeOptions
  /\ a = "record" => o \in [key : SigningKeys]
  /\ a \in {"idle", "publish", "verify", "read", "record"} => t.of = "nothing"
  /\ a = "write" => t.of = "decode"
  /\ t.of = "decode" => t.payload \in Payloads

\* What a decode has to report about the packet it has read.
ReportOK(o, list, p, t) ==
  t.of = "decode" =>
    /\ t.payload = p.payload
    /\ o.trusted # None => t.signer = o.trusted
    /\ t.signer # None =>
         /\ \E i \in DOMAIN p.transforms :
              LET d == p.transforms[i]
              IN  d.alg = "sign" /\ d.by = t.signer /\ d.of = t.payload
         /\ ~IsRevoked(t.signer, list)

CommandOK(c) ==
  /\ StageOK(at[c], opt[c], packet[c], told[c])
  /\ ReportOK(opt[c], revoked[c], packet[c], told[c])

IInv == CommandTypeOK /\ \A c \in Commands : CommandOK(c)

LEMMA InvInit == CommandInit => IInv
<1> SUFFICES ASSUME CommandInit PROVE IInv
  OBVIOUS
<1>1. NoErrors \in [Chunks -> 0..MaxErrors]
  BY CliAssumption DEF NoErrors
<1>2. \A p \in ForeignPackets : Carrier(p, None, p.bits) \in Contents
  BY <1>1, ForeignAssumption DEF Contents, Carriers, Carrier, Packets
<1>3. Blank \in Contents /\ Absent \in Contents
  BY <1>1 DEF Contents, Carriers, Carrier, Blank
<1>4. files \in [Files -> Contents]
  BY <1>2, <1>3 DEF CommandInit
<1>5. Failure \in Reports
  BY DEF Failure, Reports
<1>6. CommandTypeOK
  BY <1>4, <1>5 DEF CommandInit, CommandTypeOK, Options
<1>7. \A c \in Commands : CommandOK(c)
  BY DEF CommandInit, CommandOK, StageOK, ReportOK, Failure
<1> QED BY <1>6, <1>7 DEF IInv

\* The other commands do not notice a step of one.
LEMMA Others ==
  ASSUME IInv, NEW c \in Commands,
         \A d \in Commands \ {c} : /\ at'[d] = at[d] /\ opt'[d] = opt[d]
                                  /\ revoked'[d] = revoked[d]
                                  /\ packet'[d] = packet[d] /\ told'[d] = told[d],
         StageOK(at'[c], opt'[c], packet'[c], told'[c]),
         ReportOK(opt'[c], revoked'[c], packet'[c], told'[c])
  PROVE  \A d \in Commands : CommandOK(d)'
<1> SUFFICES ASSUME NEW d \in Commands PROVE CommandOK(d)'
  OBVIOUS
<1>1. CASE d = c
  BY <1>1 DEF CommandOK
<1>2. CASE d # c
  BY <1>2 DEF CommandOK, IInv
<1> QED BY <1>1, <1>2

\* A command that ends without success.
LEMMA FailStep ==
  ASSUME IInv, NEW c \in Commands, Fail(c),
         files' = files, origin' = origin, registry' = registry,
         opt' \in [Commands -> Options], \A d \in Commands \ {c} : opt'[d] = opt[d],
         revoked' = revoked, packet' = packet
  PROVE  IInv'
<1>1. CommandTypeOK'
  BY DEF IInv, CommandTypeOK, Fail, To, Tell, Failure, Reports
<1>2. at'[c] = "done" /\ told'[c] = Failure
  BY DEF IInv, CommandTypeOK, Fail, To, Tell
<1>3. \A d \in Commands \ {c} : at'[d] = at[d] /\ told'[d] = told[d]
  BY DEF IInv, CommandTypeOK, Fail, To, Tell
<1>4. StageOK(at'[c], opt'[c], packet'[c], told'[c]) /\ ReportOK(opt'[c], revoked'[c], packet'[c], told'[c])
  BY <1>2 DEF StageOK, ReportOK, Failure
<1>5. \A d \in Commands : CommandOK(d)'
  BY <1>3, <1>4, Others
<1> QED BY <1>1, <1>5 DEF IInv

-----------------------------------------------------------------------------
(* encode.                                                                 *)

LEMMA StartEncodeStep ==
  ASSUME IInv, NEW c \in Commands, StartEncode(c)
  PROVE  IInv'
<1>1. PICK o \in EncodeOptions :
        /\ opt' = [opt EXCEPT ![c] = o]
        /\ packet' = [packet EXCEPT ![c] = NewPacket(o.payload, c, o)]
  BY DEF StartEncode
<1>2. NewPacket(o.payload, c, o) \in Packets
  BY DEF Packets
<1>3. CommandTypeOK'
  BY <1>1, <1>2 DEF IInv, CommandTypeOK, StartEncode, To, Options
<1>4. /\ at[c] = "idle" /\ at'[c] = "publish" /\ opt'[c] = o
      /\ packet'[c] \in Packets /\ told'[c] = told[c]
  BY <1>1, <1>2 DEF IInv, CommandTypeOK, StartEncode, To
<1>5. told'[c].of = "nothing"
  BY <1>4 DEF IInv, CommandOK, StageOK
<1>6. StageOK(at'[c], opt'[c], packet'[c], told'[c]) /\ ReportOK(opt'[c], revoked'[c], packet'[c], told'[c])
  BY <1>4, <1>5 DEF StageOK, ReportOK
<1>7. \A d \in Commands \ {c} : /\ at'[d] = at[d] /\ opt'[d] = opt[d]
                               /\ revoked'[d] = revoked[d]
                               /\ packet'[d] = packet[d] /\ told'[d] = told[d]
  BY <1>1 DEF IInv, CommandTypeOK, StartEncode, To
<1> QED BY <1>3, <1>6, <1>7, Others DEF IInv

\* What an encode puts into its output is a carrier.
LEMMA NewCarrier ==
  ASSUME IInv, NEW c \in Commands, at[c] = "publish"
  PROVE  /\ opt[c] \in EncodeOptions /\ opt[c] \in EncodeOption
         /\ Carrier(packet[c], opt[c].place, opt[c].bits) \in Contents
         /\ EncodeDone(c) \in Reports
<1>1. opt[c] \in EncodeOptions /\ packet[c] \in Packets
  BY DEF IInv, CommandOK, StageOK
<1>2. opt[c] \in EncodeOption
  BY <1>1, CliAssumption
<1>3. NoErrors \in [Chunks -> 0..MaxErrors]
  BY CliAssumption DEF NoErrors
<1>4. Carrier(packet[c], opt[c].place, opt[c].bits) \in Contents
  BY <1>1, <1>2, <1>3 DEF Contents, Carriers, Carrier, EncodeOption
<1>5. EncodeDone(c) \in Reports
  BY <1>2 DEF EncodeDone, Success, Reports, EncodeOption
<1> QED BY <1>1, <1>2, <1>4, <1>5

LEMMA PublishCarrierStep ==
  ASSUME IInv, NEW c \in Commands, PublishCarrier(c)
  PROVE  IInv'
<1>1. at[c] = "publish" /\ opt' = opt /\ packet' = packet /\ revoked' = revoked
  BY DEF PublishCarrier
<1>2. opt[c] \in EncodeOptions /\ opt[c].out \in Files
  BY <1>1, NewCarrier DEF EncodeOption
<1>3. \/ at' = [at EXCEPT ![c] = "verify"] /\ told' = told
      \/ at' = [at EXCEPT ![c] = "done"] /\ told' = [told EXCEPT ![c] = EncodeDone(c)]
  BY DEF PublishCarrier, To, Tell
<1>4. CommandTypeOK'
  BY <1>1, <1>2, <1>3, NewCarrier DEF IInv, CommandTypeOK, PublishCarrier
<1>5. \/ at'[c] = "verify" /\ told'[c] = told[c]
      \/ at'[c] = "done" /\ told'[c] = EncodeDone(c)
  BY <1>3 DEF IInv, CommandTypeOK
<1>6. told[c].of = "nothing" /\ EncodeDone(c).of = "encode" /\ packet[c] \in Packets
  BY <1>1 DEF IInv, CommandOK, StageOK, EncodeDone, Success
<1>7. StageOK(at'[c], opt'[c], packet'[c], told'[c]) /\ ReportOK(opt'[c], revoked'[c], packet'[c], told'[c])
  BY <1>1, <1>2, <1>5, <1>6 DEF StageOK, ReportOK
<1>8. \A d \in Commands \ {c} : at'[d] = at[d] /\ told'[d] = told[d]
  BY <1>3 DEF IInv, CommandTypeOK
<1> QED BY <1>1, <1>4, <1>7, <1>8, Others DEF IInv

LEMMA VerifyWriteStep ==
  ASSUME IInv, NEW c \in Commands, VerifyWrite(c)
  PROVE  IInv'
<1>1. /\ at[c] = "verify" /\ opt' = opt /\ packet' = packet /\ revoked' = revoked
      /\ files' = files /\ origin' = origin /\ registry' = registry
  BY DEF VerifyWrite
<1>2. CASE Fail(c)
  BY <1>1, <1>2, FailStep DEF IInv, CommandTypeOK
<1>3. CASE To(c, "done") /\ Tell(c, EncodeDone(c))
  <2>1. opt[c] \in EncodeOption
    BY <1>1, CliAssumption DEF IInv, CommandOK, StageOK
  <2>2. EncodeDone(c) \in Reports /\ EncodeDone(c).of = "encode"
    BY <2>1 DEF EncodeDone, Success, Reports, EncodeOption
  <2>3. CommandTypeOK'
    BY <1>1, <1>3, <2>2 DEF IInv, CommandTypeOK, To, Tell
  <2>4. at'[c] = "done" /\ told'[c].of = "encode"
    BY <1>3, <2>2 DEF IInv, CommandTypeOK, To, Tell
  <2>5. StageOK(at'[c], opt'[c], packet'[c], told'[c]) /\ ReportOK(opt'[c], revoked'[c], packet'[c], told'[c])
    BY <2>4 DEF StageOK, ReportOK
  <2>6. \A d \in Commands \ {c} : at'[d] = at[d] /\ told'[d] = told[d]
    BY <1>3 DEF IInv, CommandTypeOK, To, Tell
  <2> QED BY <1>1, <2>3, <2>5, <2>6, Others DEF IInv
<1> QED BY <1>2, <1>3 DEF VerifyWrite

-----------------------------------------------------------------------------
(* decode and revoke.                                                      *)

LEMMA ListedIsSet == ASSUME CommandTypeOK PROVE Listed \in SUBSET SigningKeys
BY DEF CommandTypeOK, Listed

LEMMA StartDecodeStep ==
  ASSUME IInv, NEW c \in Commands, StartDecode(c)
  PROVE  IInv'
<1>1. PICK o \in DecodeOptions : opt' = [opt EXCEPT ![c] = o]
  BY DEF StartDecode
<1>2. CommandTypeOK'
  BY <1>1, ListedIsSet DEF IInv, CommandTypeOK, StartDecode, To, Options
<1>3. at[c] = "idle" /\ at'[c] = "read" /\ opt'[c] = o /\ told'[c] = told[c]
  BY <1>1 DEF IInv, CommandTypeOK, StartDecode, To
<1>4. told'[c].of = "nothing"
  BY <1>3 DEF IInv, CommandOK, StageOK
<1>5. StageOK(at'[c], opt'[c], packet'[c], told'[c]) /\ ReportOK(opt'[c], revoked'[c], packet'[c], told'[c])
  BY <1>3, <1>4 DEF StageOK, ReportOK
<1>6. \A d \in Commands \ {c} : /\ at'[d] = at[d] /\ opt'[d] = opt[d]
                               /\ revoked'[d] = revoked[d]
                               /\ packet'[d] = packet[d] /\ told'[d] = told[d]
  BY <1>1 DEF IInv, CommandTypeOK, StartDecode, To
<1> QED BY <1>2, <1>5, <1>6, Others DEF IInv

LEMMA RecoverStep ==
  ASSUME IInv, NEW c \in Commands, Recover(c)
  PROVE  IInv'
<1> DEFINE f == files[opt[c].in]
<1>1. /\ at[c] = "read" /\ opt' = opt /\ revoked' = revoked
      /\ files' = files /\ origin' = origin /\ registry' = registry
  BY DEF Recover
<1>2. opt[c] \in DecodeOptions /\ f \in Contents
  <2>1. opt[c] \in DecodeOptions
    BY <1>1 DEF IInv, CommandOK, StageOK
  <2>2. opt[c].in \in Files
    BY <2>1, CliAssumption DEF DecodeOption
  <2> QED BY <2>1, <2>2 DEF IInv, CommandTypeOK
<1>3. PICK r \in RecoverPacket(f, opt[c], revoked[c]) :
        IF r # Failure
        THEN To(c, "write") /\ Tell(c, r) /\ packet' = [packet EXCEPT ![c] = f.packet]
        ELSE Fail(c) /\ UNCHANGED packet
  BY DEF Recover
<1>4. CASE r = Failure
  BY <1>1, <1>3, <1>4, FailStep DEF IInv, CommandTypeOK
<1>5. CASE r # Failure
  <2>1. /\ f.packet \in Packets /\ r \in Reports
        /\ r.of = "decode" /\ r.payload \in Payloads
        /\ ReportOK(opt[c], revoked[c], f.packet, r)
    <3> HIDE DEF f
    <3> QED BY <1>2, <1>3, <1>5, RecoverFacts DEF ReportOK
  <2>2. /\ at' = [at EXCEPT ![c] = "write"] /\ told' = [told EXCEPT ![c] = r]
        /\ packet' = [packet EXCEPT ![c] = f.packet]
    BY <1>3, <1>5 DEF To, Tell
  <2> HIDE DEF f
  <2>3. CommandTypeOK'
    BY <1>1, <2>1, <2>2 DEF IInv, CommandTypeOK
  <2>4. /\ at'[c] = "write" /\ told'[c] = r /\ packet'[c] = f.packet
    BY <2>2 DEF IInv, CommandTypeOK
  <2>5. StageOK(at'[c], opt'[c], packet'[c], told'[c]) /\ ReportOK(opt'[c], revoked'[c], packet'[c], told'[c])
    BY <1>1, <1>2, <2>1, <2>4 DEF StageOK
  <2>6. \A d \in Commands \ {c} : at'[d] = at[d] /\ told'[d] = told[d] /\ packet'[d] = packet[d]
    BY <2>2 DEF IInv, CommandTypeOK
  <2> QED BY <1>1, <2>3, <2>5, <2>6, Others DEF IInv
<1> QED BY <1>4, <1>5

LEMMA WritePayloadStep ==
  ASSUME IInv, NEW c \in Commands, WritePayload(c)
  PROVE  IInv'
<1>1. /\ at[c] = "write" /\ at' = [at EXCEPT ![c] = "done"] /\ opt' = opt
      /\ told' = told /\ packet' = packet /\ revoked' = revoked
  BY DEF WritePayload, To
<1>2. opt[c] \in DecodeOptions /\ told[c].payload \in Payloads
  BY <1>1 DEF IInv, CommandOK, StageOK
<1>3. opt[c].out \in Files
  BY <1>2, CliAssumption DEF DecodeOption
<1>4. PayloadFile(told[c].payload) \in Contents
  BY <1>2 DEF Contents
<1>5. CommandTypeOK'
  BY <1>1, <1>3, <1>4 DEF IInv, CommandTypeOK, WritePayload
<1>6. at'[c] = "done" /\ StageOK(at[c], opt[c], packet[c], told[c]) /\ ReportOK(opt[c], revoked[c], packet[c], told[c])
  BY <1>1 DEF IInv, CommandTypeOK, CommandOK
<1>7. StageOK(at'[c], opt'[c], packet'[c], told'[c]) /\ ReportOK(opt'[c], revoked'[c], packet'[c], told'[c])
  BY <1>1, <1>6 DEF StageOK
<1>8. \A d \in Commands \ {c} : at'[d] = at[d]
  BY <1>1 DEF IInv, CommandTypeOK
<1> QED BY <1>1, <1>5, <1>7, <1>8, Others DEF IInv

\* A revoke that finds the key on the list, reads the list, or replaces it.
LEMMA RevokeStep ==
  ASSUME IInv, NEW c \in Commands, StartRevoke(c) \/ RecordRevocation(c)
  PROVE  IInv'
<1>1. CASE StartRevoke(c)
  <2>1. PICK key \in SigningKeys :
          /\ opt' = [opt EXCEPT ![c] = [key |-> key]]
          /\ \/ To(c, "done") /\ Tell(c, Success("revoke", None, key))
             \/ To(c, "record") /\ told' = told
    BY <1>1 DEF StartRevoke
  <2>2. Success("revoke", None, key) \in Reports
    BY DEF Success, Reports
  <2>3. CommandTypeOK'
    BY <1>1, <2>1, <2>2, ListedIsSet DEF IInv, CommandTypeOK, StartRevoke, To, Tell, Options
  <2>4. told[c].of = "nothing"
    BY <1>1 DEF IInv, CommandOK, StageOK, StartRevoke
  <2>5. /\ opt'[c] = [key |-> key]
        /\ \/ at'[c] = "done" /\ told'[c].of = "revoke"
           \/ at'[c] = "record" /\ told'[c].of = "nothing"
    BY <2>1, <2>4 DEF IInv, CommandTypeOK, To, Tell, Success
  <2>6. StageOK(at'[c], opt'[c], packet'[c], told'[c]) /\ ReportOK(opt'[c], revoked'[c], packet'[c], told'[c])
    BY <2>5 DEF StageOK, ReportOK
  <2>7. \A d \in Commands \ {c} : /\ at'[d] = at[d] /\ opt'[d] = opt[d]
                                 /\ revoked'[d] = revoked[d]
                                 /\ packet'[d] = packet[d] /\ told'[d] = told[d]
    BY <1>1, <2>1 DEF IInv, CommandTypeOK, StartRevoke, To, Tell
  <2> QED BY <2>3, <2>6, <2>7, Others DEF IInv
<1>2. CASE RecordRevocation(c)
  <2>1. opt[c] \in [key : SigningKeys]
    BY <1>2 DEF IInv, CommandOK, StageOK, RecordRevocation
  <2>2. Success("revoke", None, opt[c].key) \in Reports
    BY <2>1 DEF Success, Reports
  <2>3. CommandTypeOK'
    BY <1>2, <2>1, <2>2 DEF IInv, CommandTypeOK, RecordRevocation, To, Tell
  <2>4. at'[c] = "done" /\ told'[c].of = "revoke"
    BY <1>2 DEF IInv, CommandTypeOK, RecordRevocation, To, Tell, Success
  <2>5. StageOK(at'[c], opt'[c], packet'[c], told'[c]) /\ ReportOK(opt'[c], revoked'[c], packet'[c], told'[c])
    BY <2>4 DEF StageOK, ReportOK
  <2>6. \A d \in Commands \ {c} : /\ at'[d] = at[d] /\ opt'[d] = opt[d]
                                 /\ revoked'[d] = revoked[d]
                                 /\ packet'[d] = packet[d] /\ told'[d] = told[d]
    BY <1>2 DEF IInv, CommandTypeOK, RecordRevocation, To, Tell
  <2> QED BY <2>3, <2>5, <2>6, Others DEF IInv
<1> QED BY <1>1, <1>2

-----------------------------------------------------------------------------
(* Damage, and the theorems.                                               *)

\* Damage leaves a carrier of the same packet.
LEMMA DamageFacts ==
  ASSUME CommandTypeOK, NEW x \in Files,
         \/ \E chunk \in Chunks : DamageBody(x, chunk)
         \/ DamageFront(x) \/ DamageHead(x)
  PROVE  /\ files' \in [Files -> Contents]
         /\ \A y \in Files \ {x} : files'[y] = files[y]
         /\ OnlyDamaged(x)
<1>1. files[x].kind = "carrier" /\ files[x].packet # None
  BY DEF DamageBody, DamageFront, DamageHead, Readable, Embedded
<1>2. files[x] \in Carriers
  BY <1>1, CarrierFacts DEF CommandTypeOK
<1>3. PICK f \in Carriers :
        /\ files' = [files EXCEPT ![x] = f]
        /\ f.kind = "carrier" /\ f.packet = files[x].packet
        /\ f.key = files[x].key /\ f.bits = files[x].bits
  <2>1. CASE \E chunk \in Chunks : DamageBody(x, chunk)
    <3>1. PICK chunk \in Chunks : DamageBody(x, chunk)
      BY <2>1
    <3>2. files[x].errors[chunk] + 1 \in 0..MaxErrors
      BY <1>2, <3>1, CliAssumption DEF DamageBody, Carriers
    <3>3. [files[x] EXCEPT !.errors[chunk] = @ + 1] \in Carriers
      BY <1>2, <3>2 DEF Carriers
    <3>4. files' = [files EXCEPT ![x] = [files[x] EXCEPT !.errors[chunk] = @ + 1]]
      BY <3>1 DEF DamageBody
    <3> QED BY <1>2, <3>3, <3>4 DEF Carriers
  <2>2. CASE DamageFront(x)
    <3> DEFINE g == [files[x] EXCEPT !.front = FALSE]
    <3>1. files' = [files EXCEPT ![x] = g]
      BY <2>2 DEF DamageFront
    <3>2. g \in Carriers /\ g.kind = "carrier" /\ g.packet = files[x].packet
          /\ g.key = files[x].key /\ g.bits = files[x].bits
      BY <1>2 DEF Carriers
    <3> HIDE DEF g
    <3> QED BY <3>1, <3>2
  <2>3. CASE DamageHead(x)
    <3> DEFINE g == [files[x] EXCEPT !.head = FALSE]
    <3>1. files' = [files EXCEPT ![x] = g]
      BY <2>3 DEF DamageHead
    <3>2. g \in Carriers /\ g.kind = "carrier" /\ g.packet = files[x].packet
          /\ g.key = files[x].key /\ g.bits = files[x].bits
      BY <1>2 DEF Carriers
    <3> HIDE DEF g
    <3> QED BY <3>1, <3>2
  <2> QED BY <2>1, <2>2, <2>3
<1>4. files'[x] = f /\ \A y \in Files \ {x} : files'[y] = files[y]
  BY <1>3 DEF CommandTypeOK
<1>5. files' \in [Files -> Contents]
  BY <1>3 DEF CommandTypeOK, Contents
<1>6. Pristine(f) = Pristine(files[x])
  BY <1>2, <1>3 DEF Pristine, Carriers
<1>7. OnlyDamaged(x)
  BY <1>1, <1>3, <1>4, <1>6 DEF OnlyDamaged, Embedded, Pristine
<1> QED BY <1>4, <1>5, <1>7

LEMMA DamageStep ==
  ASSUME IInv, NEW x \in Files,
         \/ \E chunk \in Chunks : DamageBody(x, chunk)
         \/ DamageFront(x) \/ DamageHead(x)
  PROVE  IInv'
<1>1. UNCHANGED <<origin, registry, at, opt, revoked, packet, told>>
  BY DEF DamageBody, DamageFront, DamageHead
<1>2. CommandTypeOK'
  BY <1>1, DamageFacts DEF IInv, CommandTypeOK
<1> QED BY <1>1, <1>2 DEF IInv, CommandOK

LEMMA InvStep == IInv /\ [CommandNext]_commandVars => IInv'
<1> SUFFICES ASSUME IInv, [CommandNext]_commandVars PROVE IInv'
  OBVIOUS
<1>1. ASSUME NEW c \in Commands, RefuseEncode(c) PROVE IInv'
  <2>1. opt' \in [Commands -> Options] /\ \A d \in Commands \ {c} : opt'[d] = opt[d]
    BY <1>1 DEF IInv, CommandTypeOK, RefuseEncode, Options
  <2> QED BY <1>1, <2>1, FailStep DEF RefuseEncode
<1>2. ASSUME NEW c \in Commands, RefuseDecode(c) PROVE IInv'
  <2>1. opt' \in [Commands -> Options] /\ \A d \in Commands \ {c} : opt'[d] = opt[d]
    BY <1>2 DEF IInv, CommandTypeOK, RefuseDecode, Options
  <2> QED BY <1>2, <2>1, FailStep DEF RefuseDecode
<1>3. ASSUME NEW c \in Commands, PublishRefused(c) \/ WriteRefused(c) PROVE IInv'
  BY <1>3, FailStep DEF IInv, CommandTypeOK, PublishRefused, WriteRefused
<1>4. CASE UNCHANGED commandVars
  BY <1>4 DEF commandVars, IInv, CommandTypeOK, CommandOK
<1> QED
  BY <1>1, <1>2, <1>3, <1>4, StartEncodeStep, PublishCarrierStep, VerifyWriteStep,
     StartDecodeStep, RecoverStep, WritePayloadStep, RevokeStep, DamageStep DEF CommandNext

\* Every value of the model stays in its type: what is written to a payload
\* file is a payload somebody embedded, never bytes that damage made.
THEOREM TypeCorrect == CommandSpec => []CommandTypeOK
<1>1. IInv => CommandTypeOK
  BY DEF IInv
<1> QED BY <1>1, InvInit, InvStep, PTL DEF CommandSpec

\* decode and extract deliver the payload that was put into the packet they
\* read, or nothing (recover_packet, reverse_packet).
THEOREM DeliveryIsIntact == CommandSpec => []DeliveredIntact
<1>1. IInv => DeliveredIntact
  BY DEF IInv, CommandOK, ReportOK, DeliveredIntact
<1> QED BY <1>1, InvInit, InvStep, PTL DEF CommandSpec

\* --trusted-signer accepts only a signature of that key over the payload that
\* is delivered, and no signer is reported that the loaded list revokes.
THEOREM TrustIsEarned == CommandSpec => []TrustedMeansSigned
<1>1. IInv => TrustedMeansSigned
  BY DEF IInv, CommandOK, ReportOK, TrustedMeansSigned
<1> QED BY <1>1, InvInit, InvStep, PTL DEF CommandSpec

LEMMA ClobberStep ==
  ASSUME IInv, [CommandNext]_commandVars, NEW x \in Files, Exists(x)
  PROVE  files'[x] = files[x] \/ OnlyDamaged(x) \/ Forced(x)
<1>1. CASE files' = files
  BY <1>1
<1>2. ASSUME NEW c \in Commands, PublishCarrier(c) PROVE files'[x] = files[x]
  <2>1. x # opt[c].out
    BY <1>2 DEF PublishCarrier
  <2> QED BY <1>2, <2>1 DEF PublishCarrier, IInv, CommandTypeOK
<1>3. ASSUME NEW c \in Commands, WritePayload(c) PROVE files'[x] = files[x] \/ Forced(x)
  <2>1. at[c] = "write" /\ at'[c] = "done"
    BY <1>3 DEF WritePayload, To, IInv, CommandTypeOK
  <2>2. CASE opt[c].out = x
    BY <1>3, <2>1, <2>2 DEF WritePayload, Forced
  <2>3. CASE opt[c].out # x
    BY <1>3, <2>3 DEF WritePayload, IInv, CommandTypeOK
  <2> QED BY <2>2, <2>3
<1>4. ASSUME NEW y \in Files,
             \/ \E chunk \in Chunks : DamageBody(y, chunk)
             \/ DamageFront(y) \/ DamageHead(y)
      PROVE  files'[x] = files[x] \/ OnlyDamaged(x)
  BY <1>4, DamageFacts DEF IInv
<1> QED BY <1>1, <1>2, <1>3, <1>4 DEF CommandNext, commandVars, StartEncode, RefuseEncode, PublishRefused,
     VerifyWrite, StartDecode, RefuseDecode, Recover, WriteRefused, StartRevoke,
     RecordRevocation

\* Outputs are published without replacing: only --force replaces a file.
THEOREM NothingClobbered == CommandSpec => NoClobber
<1>1. IInv /\ [CommandNext]_commandVars =>
        [\A x \in Files : Exists(x) => files'[x] = files[x] \/ OnlyDamaged(x) \/ Forced(x)]_commandVars
  BY ClobberStep
<1> QED BY <1>1, InvInit, InvStep, PTL DEF CommandSpec, NoClobber
-----------------------------------------------------------------------------
(* What apply_with_password builds, reverse_with_password takes apart.     *)

LEMMA WhenFacts ==
  ASSUME NEW D, NEW cond \in BOOLEAN, NEW d, cond => d \in D
  PROVE  When(cond, d) \in Seq(D) /\ When(cond, d) = IF cond THEN <<d>> ELSE << >>
<1>1. CASE cond
  <2>1. <<d>> \in Seq(D)
    BY <1>1
  <2> QED BY <1>1, <2>1 DEF When
<1>2. CASE ~cond
  <2>1. << >> \in Seq(D)
    OBVIOUS
  <2> QED BY <1>2, <2>1 DEF When
<1> QED BY <1>1, <1>2

\* A layer at the front is on top of the others.
Above(d, t) == <<d>> \o t

LEMMA FrontLayer ==
  ASSUME NEW D, NEW d \in D, NEW t \in Seq(D)
  PROVE  Above(d, t) # << >> /\ Head(Above(d, t)) = d /\ Tail(Above(d, t)) = t
<1> DEFINE u == Above(d, t)
<1>1. <<d>> \in Seq(D) /\ Len(<<d>>) = 1 /\ <<d>>[1] = d
  OBVIOUS
<1>2. /\ u \in Seq(D) /\ Len(t) \in Nat /\ Len(u) = 1 + Len(t)
      /\ \A i \in 1..(1 + Len(t)) : u[i] = IF i <= 1 THEN <<d>>[i] ELSE t[i - 1]
  BY <1>1, ConcatProperties DEF Above
<1> HIDE DEF u
<1>3. u # << >>
  BY <1>2
<1>4. Head(u) = d
  BY <1>1, <1>2, <1>3
<1>5. /\ Tail(u) \in Seq(D) /\ Len(Tail(u)) = Len(u) - 1
      /\ \A i \in 1..Len(Tail(u)) : Tail(u)[i] = u[i + 1]
  BY <1>2, <1>3, HeadTailProperties
<1>6. Len(Tail(u)) = Len(t) /\ \A i \in 1..Len(Tail(u)) : Tail(u)[i] = t[i]
  BY <1>2, <1>5
<1>7. Tail(u) = t
  BY <1>5, <1>6, SeqEqual
<1> QED BY <1>3, <1>4, <1>7 DEF u

\* A descriptor list with just these descriptors, in the order of their stages.
Lists(t, A) ==
  /\ t \in Seq(A)
  /\ \A d \in A : \E i \in DOMAIN t : t[i] = d
  /\ \A i, j \in DOMAIN t : i < j => Stage[t[i].alg] < Stage[t[j].alg]

LEMMA ListExtends ==
  ASSUME NEW A, NEW t, Lists(t, A), NEW cond \in BOOLEAN, NEW d,
         \A a \in A : Stage[a.alg] < Stage[d.alg]
  PROVE  Lists(t \o When(cond, d), IF cond THEN A \cup {d} ELSE A)
<1>1. t \in Seq(A)
  BY DEF Lists
<1>2. CASE cond
  <2> DEFINE B == A \cup {d}
             u == t \o <<d>>
  <2>1. t \in Seq(B) /\ <<d>> \in Seq(B) /\ Len(<<d>>) = 1 /\ <<d>>[1] = d
    BY <1>1, SeqMonotonic
  <2>2. /\ u \in Seq(B) /\ Len(t) \in Nat /\ Len(u) = Len(t) + 1
        /\ \A i \in 1..(Len(t) + 1) : u[i] = IF i <= Len(t) THEN t[i] ELSE <<d>>[i - Len(t)]
    BY <2>1, ConcatProperties
  <2>3. \A i \in 1..Len(t) : u[i] = t[i] /\ t[i] \in A
    BY <1>1, <2>2
  <2>4. u[Len(t) + 1] = d
    BY <2>1, <2>2
  <2>5. DOMAIN u = 1..(Len(t) + 1) /\ DOMAIN t = 1..Len(t)
    BY <1>1, <2>2, LenProperties
  <2> HIDE DEF u
  <2>6. \A a \in B : \E i \in DOMAIN u : u[i] = a
    <3>1. \A a \in A : \E i \in DOMAIN u : u[i] = a
      <4> SUFFICES ASSUME NEW a \in A PROVE \E i \in DOMAIN u : u[i] = a
        OBVIOUS
      <4>1. PICK i \in DOMAIN t : t[i] = a
        BY DEF Lists
      <4>2. i \in DOMAIN u /\ u[i] = a
        BY <2>2, <2>3, <2>5, <4>1
      <4> QED BY <4>2
    <3>2. Len(t) + 1 \in DOMAIN u
      BY <2>2, <2>5
    <3> QED BY <2>4, <3>1, <3>2
  <2>7. ASSUME NEW i \in DOMAIN u, NEW j \in DOMAIN u, i < j
        PROVE  Stage[u[i].alg] < Stage[u[j].alg]
    <3>1. i \in 1..Len(t)
      BY <2>2, <2>5, <2>7
    <3>2. CASE j \in 1..Len(t)
      BY <2>3, <2>5, <2>7, <3>1, <3>2 DEF Lists
    <3>3. CASE j = Len(t) + 1
      BY <2>3, <2>4, <3>1, <3>3
    <3> QED BY <2>2, <2>5, <3>2, <3>3
  <2>8. When(cond, d) = <<d>>
    BY <1>2 DEF When
  <2>9. Lists(u, B)
    BY <2>2, <2>6, <2>7 DEF Lists
  <2> QED BY <1>2, <2>8, <2>9 DEF u
<1>3. CASE ~cond
  <2>1. When(cond, d) = << >>
    BY <1>3 DEF When
  <2>2. t \o << >> = t
    BY <1>1, ConcatEmptySeq
  <2> QED BY <1>3, <2>1, <2>2
<1> QED BY <1>2, <1>3

\* What readers ask of a list, in terms of the set it lists.
LEMMA ListAnswers ==
  ASSUME NEW A, NEW t, Lists(t, A), NEW alg
  PROVE  /\ Uses(t, alg) <=> \E a \in A : a.alg = alg
         /\ Uses(t, alg) => DescriptorOf(t, alg) \in A /\ DescriptorOf(t, alg).alg = alg
         /\ t = << >> <=> A = {}
<1>1. t \in Seq(A) /\ DOMAIN t = 1..Len(t) /\ Len(t) \in Nat
  BY LenProperties DEF Lists
<1>2. \A i \in DOMAIN t : t[i] \in A
  BY <1>1
<1>3. Uses(t, alg) <=> \E a \in A : a.alg = alg
  BY <1>2 DEF Lists, Uses
<1>4. ASSUME Uses(t, alg)
      PROVE  DescriptorOf(t, alg) \in A /\ DescriptorOf(t, alg).alg = alg
  <2>1. PICK i \in DOMAIN t : t[i].alg = alg
    BY <1>4 DEF Uses
  <2> QED BY <1>2, <2>1 DEF DescriptorOf
<1>5. t = << >> <=> A = {}
  <2>1. CASE t = << >>
    <3>1. DOMAIN t = {}
      BY <1>1, <2>1
    <3> QED BY <2>1, <3>1 DEF Lists
  <2>2. CASE t # << >>
    <3>1. Len(t) # 0
      BY <1>1, <2>2, EmptySeq
    <3>2. 1 \in DOMAIN t
      BY <1>1, <3>1
    <3> QED BY <1>2, <2>2, <3>2
  <2> QED BY <2>1, <2>2
<1> QED BY <1>3, <1>4, <1>5

LEMMA DescriptorFacts ==
  ASSUME NEW key, NEW p, NEW id, NEW parity
  PROVE  /\ Signature(key, p).alg = "sign" /\ Deflate.alg = "deflate" /\ Kdf(id).alg = "kdf"
         /\ Aead.alg = "aead" /\ Rs(parity).alg = "rs"
         /\ Signature(key, p).by = key /\ Signature(key, p).of = p
         /\ Kdf(id).salt = id /\ Rs(parity).parity = parity
         /\ Stage["sign"] = 1 /\ Stage["deflate"] = 2 /\ Stage["kdf"] = 3 /\ Stage["aead"] = 4
         /\ Stage["rs"] = 5
         /\ {"sign", "deflate", "kdf", "aead", "rs"} \subseteq DOMAIN Stage
BY DEF Signature, Deflate, Kdf, Aead, Rs, Stage

\* The descriptors a writer lists say what was asked of it, in a legal order.
LEMMA WriterTransforms ==
  ASSUME NEW o \in EncodeOption, NEW id, NEW p \in Payloads
  PROVE  LET t == Transforms(p, id, o)
         IN  /\ Preflight(t)
             /\ Uses(t, "sign") <=> o.signer # None
             /\ Uses(t, "deflate") <=> Compressing(p, o)
             /\ Uses(t, "kdf") <=> o.password # None
             /\ Uses(t, "aead") <=> Encrypting(o)
             /\ Uses(t, "rs") <=> o.parity > 0
             /\ o.signer # None => DescriptorOf(t, "sign") = Signature(o.signer, p)
             /\ o.password # None => DescriptorOf(t, "kdf") = Kdf(id)
             /\ o.parity > 0 => DescriptorOf(t, "rs") = Rs(o.parity)
             /\ t = << >> => ~Compressing(p, o) /\ ~Encrypting(o) /\ ~(o.parity > 0)
<1> DEFINE d1 == Signature(o.signer, p)
           d3 == Kdf(id)
           d5 == Rs(o.parity)
           A1 == IF o.signer # None THEN {} \cup {d1} ELSE {}
           A2 == IF Compressing(p, o) THEN A1 \cup {Deflate} ELSE A1
           A3 == IF o.password # None THEN A2 \cup {d3} ELSE A2
           A4 == IF Encrypting(o) THEN A3 \cup {Aead} ELSE A3
           A5 == IF o.parity > 0 THEN A4 \cup {d5} ELSE A4
           t == Transforms(p, id, o)
<1>1. /\ (o.signer # None) \in BOOLEAN /\ Compressing(p, o) \in BOOLEAN
      /\ (o.password # None) \in BOOLEAN /\ Encrypting(o) \in BOOLEAN
      /\ (o.parity > 0) \in BOOLEAN
  BY DEF Compressing, Encrypting, EncodeOption
<1>2. /\ d1.alg = "sign" /\ Deflate.alg = "deflate" /\ d3.alg = "kdf" /\ Aead.alg = "aead"
      /\ d5.alg = "rs"
  BY DescriptorFacts
<1>3. /\ Stage["sign"] = 1 /\ Stage["deflate"] = 2 /\ Stage["kdf"] = 3 /\ Stage["aead"] = 4
      /\ Stage["rs"] = 5
      /\ {"sign", "deflate", "kdf", "aead", "rs"} \subseteq DOMAIN Stage
  BY DescriptorFacts
<1> HIDE DEF d1, d3, d5
<1>4. /\ \A a \in A1 : Stage[a.alg] < Stage[Deflate.alg]
      /\ \A a \in A2 : Stage[a.alg] < Stage[d3.alg]
      /\ \A a \in A3 : Stage[a.alg] < Stage[Aead.alg]
      /\ \A a \in A4 : Stage[a.alg] < Stage[d5.alg]
  BY <1>2, <1>3
<1>5. Lists(t, A5)
  <2>1. Lists(<< >>, {})
    BY DEF Lists
  <2>2. When(o.signer # None, d1) = << >> \o When(o.signer # None, d1)
    <3>1. When(o.signer # None, d1) \in Seq({d1})
      BY <1>1, WhenFacts
    <3> QED BY <3>1, ConcatEmptySeq
  <2>3. Lists(When(o.signer # None, d1), A1)
    <3>1. Lists(<< >> \o When(o.signer # None, d1), A1)
      BY <1>1, <2>1, ListExtends
    <3> QED BY <2>2, <3>1
  <2>4. Lists(When(o.signer # None, d1) \o When(Compressing(p, o), Deflate), A2)
    BY <1>1, <1>4, <2>3, ListExtends
  <2>5. Lists(When(o.signer # None, d1) \o When(Compressing(p, o), Deflate)
                \o When(o.password # None, d3), A3)
    <3> HIDE DEF A2
    <3> QED BY <1>1, <1>4, <2>4, ListExtends
  <2>6. Lists(When(o.signer # None, d1) \o When(Compressing(p, o), Deflate)
                \o When(o.password # None, d3) \o When(Encrypting(o), Aead), A4)
    <3> HIDE DEF A3
    <3> QED BY <1>1, <1>4, <2>5, ListExtends
  <2>7. Lists(When(o.signer # None, d1) \o When(Compressing(p, o), Deflate)
                \o When(o.password # None, d3) \o When(Encrypting(o), Aead)
                \o When(o.parity > 0, d5), A5)
    <3> HIDE DEF A4
    <3> QED BY <1>1, <1>4, <2>6, ListExtends
  <2> QED BY <2>7 DEF Transforms, d1, d3, d5
<1> HIDE DEF t
<1>6. /\ (\E a \in A5 : a.alg = "sign") <=> o.signer # None
      /\ (\E a \in A5 : a.alg = "deflate") <=> Compressing(p, o)
      /\ (\E a \in A5 : a.alg = "kdf") <=> o.password # None
      /\ (\E a \in A5 : a.alg = "aead") <=> Encrypting(o)
      /\ (\E a \in A5 : a.alg = "rs") <=> o.parity > 0
      /\ \A a \in A5 : /\ a.alg \in {"sign", "deflate", "kdf", "aead", "rs"}
                       /\ a.alg = "sign" => a = d1
                       /\ a.alg = "kdf" => a = d3
                       /\ a.alg = "rs" => a = d5
  BY <1>2
<1> HIDE DEF A5
<1>7. /\ Uses(t, "sign") <=> o.signer # None
      /\ Uses(t, "deflate") <=> Compressing(p, o)
      /\ Uses(t, "kdf") <=> o.password # None
      /\ Uses(t, "aead") <=> Encrypting(o)
      /\ Uses(t, "rs") <=> o.parity > 0
  BY <1>5, <1>6, ListAnswers
<1>8. /\ o.signer # None => DescriptorOf(t, "sign") = d1
      /\ o.password # None => DescriptorOf(t, "kdf") = d3
      /\ o.parity > 0 => DescriptorOf(t, "rs") = d5
  BY <1>5, <1>6, <1>7, ListAnswers
<1>9. t = << >> => ~Compressing(p, o) /\ ~Encrypting(o) /\ ~(o.parity > 0)
  BY <1>5, <1>6, ListAnswers
<1>10. Preflight(t)
  <2>1. \A i \in DOMAIN t : t[i].alg \in DOMAIN Stage
    <3>1. \A i \in DOMAIN t : t[i] \in A5
      BY <1>5, LenProperties DEF Lists
    <3> QED BY <1>3, <1>6, <3>1
  <2>2. \A i, j \in DOMAIN t : i < j => Stage[t[i].alg] < Stage[t[j].alg]
    BY <1>5 DEF Lists
  <2>3. Uses(t, "kdf") => Uses(t, "aead")
    BY <1>7 DEF Encrypting
  <2> QED BY <2>1, <2>2, <2>3 DEF Preflight
<1> QED BY <1>7, <1>8, <1>9, <1>10 DEF t, d1, d3, d5

\* The layers a writer puts on, the outermost first.
LEMMA WriterLayers ==
  ASSUME NEW o \in EncodeOption, NEW id, NEW p \in Payloads
  PROVE  \E outer, middle, inner :
           /\ outer = Layers(p, id, o)
           /\ o.parity > 0 => outer # << >> /\ Head(outer) = Coded(o.parity) /\ Tail(outer) = middle
           /\ ~(o.parity > 0) => outer = middle
           /\ Encrypting(o) =>
                /\ middle # << >> /\ Tail(middle) = inner
                /\ Head(middle) = Sealed(SealingKey(id, o), Aad(id, Size[p]))
           /\ ~Encrypting(o) => middle = inner
           /\ Compressing(p, o) => inner # << >> /\ Head(inner) = Deflated /\ Tail(inner) = << >>
           /\ ~Compressing(p, o) => inner = << >>
<1> DEFINE s1 == Coded(o.parity)
           s2 == Sealed(SealingKey(id, o), Aad(id, Size[p]))
           D == {s1, s2, Deflated}
           w1 == When(o.parity > 0, s1)
           w2 == When(Encrypting(o), s2)
           w3 == When(Compressing(p, o), Deflated)
<1>1. /\ Compressing(p, o) \in BOOLEAN /\ Encrypting(o) \in BOOLEAN
      /\ (o.parity > 0) \in BOOLEAN
  BY DEF Compressing, Encrypting, EncodeOption
<1>2. s1 \in D /\ s2 \in D /\ Deflated \in D
  OBVIOUS
<1> HIDE DEF s1, s2, D
<1>3. w1 \in Seq(D) /\ w2 \in Seq(D) /\ w3 \in Seq(D) /\ << >> \in Seq(D)
  BY <1>1, <1>2, WhenFacts
<1> HIDE DEF w1, w2, w3
<1>4. Layers(p, id, o) = w1 \o (w2 \o w3)
  <2>1. Layers(p, id, o) = (w1 \o w2) \o w3
    BY DEF Layers, w1, w2, w3, s1, s2
  <2> QED BY <1>3, <2>1, ConcatAssociative
<1>5. w3 = w3 \o << >>
  BY <1>3, ConcatEmptySeq
<1>6. w2 \o w3 \in Seq(D)
  BY <1>3, ConcatProperties
<1>7. \A u \in Seq(D) : << >> \o u = u
  BY ConcatEmptySeq
<1>8. /\ o.parity > 0 => w1 \o (w2 \o w3) = Above(s1, w2 \o w3)
      /\ ~(o.parity > 0) => w1 \o (w2 \o w3) = w2 \o w3
      /\ Encrypting(o) => w2 \o w3 = Above(s2, w3)
      /\ ~Encrypting(o) => w2 \o w3 = w3
      /\ Compressing(p, o) => w3 \o << >> = Above(Deflated, << >>)
      /\ ~Compressing(p, o) => w3 = << >>
  <2>1. /\ o.parity > 0 => w1 = << s1 >>
        /\ ~(o.parity > 0) => w1 = << >>
        /\ Encrypting(o) => w2 = << s2 >>
        /\ ~Encrypting(o) => w2 = << >>
        /\ Compressing(p, o) => w3 = << Deflated >>
        /\ ~Compressing(p, o) => w3 = << >>
    BY Zenon DEF w1, w2, w3, When
  <2>2. \A d, u : Above(d, u) = << d >> \o u
    BY Zenon DEF Above
  <2>3. o.parity > 0 => w1 \o (w2 \o w3) = Above(s1, w2 \o w3)
    BY <2>1, <2>2, Zenon
  <2>4. ~(o.parity > 0) => w1 \o (w2 \o w3) = w2 \o w3
    BY <2>1, <1>6, <1>7, Zenon
  <2>5. Encrypting(o) => w2 \o w3 = Above(s2, w3)
    BY <2>1, <2>2, Zenon
  <2>6. ~Encrypting(o) => w2 \o w3 = w3
    BY <2>1, <1>3, <1>7, Zenon
  <2>7. Compressing(p, o) => w3 \o << >> = Above(Deflated, << >>)
    BY <2>1, <2>2, Zenon
  <2> QED BY <2>1, <2>3, <2>4, <2>5, <2>6, <2>7
<1>9. /\ o.parity > 0 => /\ w1 \o (w2 \o w3) # << >> /\ Head(w1 \o (w2 \o w3)) = s1
                         /\ Tail(w1 \o (w2 \o w3)) = w2 \o w3
      /\ Encrypting(o) => w2 \o w3 # << >> /\ Head(w2 \o w3) = s2 /\ Tail(w2 \o w3) = w3
      /\ Compressing(p, o) => w3 # << >> /\ Head(w3) = Deflated /\ Tail(w3) = << >>
  <2>1. /\ Above(s1, w2 \o w3) # << >> /\ Head(Above(s1, w2 \o w3)) = s1
        /\ Tail(Above(s1, w2 \o w3)) = w2 \o w3
    BY <1>2, <1>6, FrontLayer
  <2>2. Above(s2, w3) # << >> /\ Head(Above(s2, w3)) = s2 /\ Tail(Above(s2, w3)) = w3
    BY <1>2, <1>3, FrontLayer
  <2>3. /\ Above(Deflated, << >>) # << >> /\ Head(Above(Deflated, << >>)) = Deflated
        /\ Tail(Above(Deflated, << >>)) = << >>
    BY <1>2, <1>3, FrontLayer
  <2>4. Compressing(p, o) => w3 = Above(Deflated, << >>)
    BY <1>5, <1>8, Zenon
  <2> QED BY <1>8, <2>1, <2>2, <2>3, <2>4, Zenon
<1> QED BY <1>4, <1>8, <1>9 DEF s1, s2

\* The wrong symbols of a carrier that is no more damaged than its parity repairs.
Damage == [Chunks -> 0..MaxErrors]

LEMMA NoParityNoErrors ==
  ASSUME NEW errors \in Damage, \A chunk \in Chunks : 2 * errors[chunk] <= 0
  PROVE  errors = NoErrors
<1>1. \A chunk \in Chunks : errors[chunk] = 0
  BY CliAssumption DEF Damage
<1> QED BY <1>1 DEF Damage, NoErrors

\* Undoing the transforms with the credentials they were made with.
LEMMA WrittenIsReversed ==
  ASSUME NEW e \in EncodeOption, OneKey(e), NEW id, NEW errors \in Damage,
         \A chunk \in Chunks : 2 * errors[chunk] <= e.parity,
         NEW o, OneKey(o), e.password # None => o.password = e.password,
         e.key # None => o.key = e.key
  PROVE  LET p == NewPacket(e.payload, id, e)
         IN  /\ Reversed(p, errors, o) = {Body(e.payload, << >>, NoErrors)}
             /\ SignerOf(p) = e.signer /\ Framing(p, errors)
<1> DEFINE pay == e.payload
           t == Transforms(pay, id, e)
           p == NewPacket(pay, id, e)
<1>1. pay \in Payloads /\ e.parity \in Nat
  BY DEF EncodeOption
<1>2. /\ p.id = id /\ p.len = Size[pay] /\ p.digest = pay /\ p.transforms = t
      /\ p.flags = FlagsOf(t) /\ p.payload = pay /\ p.layers = Layers(pay, id, e)
  BY DEF NewPacket
<1>3. /\ Preflight(t)
      /\ Uses(t, "sign") <=> e.signer # None
      /\ Uses(t, "deflate") <=> Compressing(pay, e)
      /\ Uses(t, "kdf") <=> e.password # None
      /\ Uses(t, "aead") <=> Encrypting(e)
      /\ Uses(t, "rs") <=> e.parity > 0
      /\ e.signer # None => DescriptorOf(t, "sign") = Signature(e.signer, pay)
      /\ e.password # None => DescriptorOf(t, "kdf") = Kdf(id)
      /\ e.parity > 0 => DescriptorOf(t, "rs") = Rs(e.parity)
      /\ t = << >> => ~Compressing(pay, e) /\ ~Encrypting(e) /\ ~(e.parity > 0)
  BY <1>1, WriterTransforms
<1>4. PICK outer, middle, inner :
        /\ outer = Layers(pay, id, e)
        /\ e.parity > 0 => outer # << >> /\ Head(outer) = Coded(e.parity) /\ Tail(outer) = middle
        /\ ~(e.parity > 0) => outer = middle
        /\ Encrypting(e) =>
             /\ middle # << >> /\ Tail(middle) = inner
             /\ Head(middle) = Sealed(SealingKey(id, e), Aad(id, Size[pay]))
        /\ ~Encrypting(e) => middle = inner
        /\ Compressing(pay, e) => inner # << >> /\ Head(inner) = Deflated /\ Tail(inner) = << >>
        /\ ~Compressing(pay, e) => inner = << >>
  BY <1>1, WriterLayers
<1> HIDE DEF p, t
<1> DEFINE B(layers) == Body(pay, layers, NoErrors)
<1>5. \A layers : /\ B(layers).payload = pay /\ B(layers).layers = layers /\ Clean(B(layers))
                  /\ B(layers) # Lost
  <2>1. pay # None
    BY <1>1, PacketAssumption
  <2> QED BY <2>1 DEF Body, Clean, Lost
<1>6. Received(p, errors) = Body(pay, outer, errors)
  BY <1>2, <1>4 DEF Received
<1>7. Corrected(p, errors) = {B(middle)}
  <2>1. CASE e.parity > 0
    <3>1. Topped(Received(p, errors), Coded(e.parity)) /\ Received(p, errors).errors = errors
          /\ Peel(Received(p, errors)) = B(middle)
      BY <1>4, <1>6, <2>1 DEF Topped, Peel, Body
    <3>2. DescriptorOf(t, "rs").parity = e.parity
      BY <1>3, <2>1, DescriptorFacts
    <3> QED BY <1>2, <1>3, <2>1, <3>1, <3>2 DEF Corrected, Correct
  <2>2. CASE ~(e.parity > 0)
    <3>1. errors = NoErrors
      BY <1>1, <2>2, NoParityNoErrors
    <3> QED BY <1>2, <1>3, <1>4, <1>6, <2>2, <3>1 DEF Corrected
  <2> QED BY <2>1, <2>2
<1>8. Opened(p, errors, o) = {B(inner)}
  <2>1. CASE Encrypting(e)
    <3>1. OpeningKey(t, o) = SealingKey(id, e)
      <4>1. CASE e.password # None
        BY <1>3, <4>1, DescriptorFacts DEF OpeningKey, SealingKey
      <4>2. CASE e.password = None
        BY <1>3, <2>1, <4>2 DEF OpeningKey, SealingKey, Encrypting
      <4> QED BY <4>1, <4>2
    <3>2. Open(B(middle), SealingKey(id, e), Aad(id, Size[pay])) = {B(inner)}
      <4>1. Topped(B(middle), Sealed(SealingKey(id, e), Aad(id, Size[pay])))
        BY <1>4, <1>5, <2>1 DEF Topped
      <4>2. Peel(B(middle)) = B(inner)
        BY <1>4, <1>5, <2>1 DEF Peel
      <4> QED BY <1>5, <4>1, <4>2 DEF Open
    <3>3. Opened(p, errors, o)
            = UNION {Open(b, SealingKey(id, e), Aad(id, Size[pay])) : b \in {B(middle)}}
      BY <1>2, <1>3, <1>7, <2>1, <3>1 DEF Opened
    <3> QED BY <3>2, <3>3
  <2>2. CASE ~Encrypting(e)
    BY <1>2, <1>3, <1>4, <1>7, <2>2 DEF Opened
  <2> QED BY <2>1, <2>2
<1>9. Inflated(p, errors, o) = {B(<< >>)}
  <2>1. CASE Compressing(pay, e)
    <3>1. Topped(B(inner), Deflated) /\ Peel(B(inner)) = B(<< >>)
      BY <1>4, <1>5, <2>1 DEF Topped, Peel
    <3>2. Inflate(B(inner)) = {B(<< >>)}
      BY <1>5, <3>1 DEF Inflate
    <3>3. Inflated(p, errors, o) = UNION {Inflate(b) : b \in {B(inner)}}
      BY <1>2, <1>3, <1>8, <2>1 DEF Inflated
    <3> QED BY <3>2, <3>3
  <2>2. CASE ~Compressing(pay, e)
    BY <1>2, <1>3, <1>4, <1>8, <2>2 DEF Inflated
  <2> QED BY <2>1, <2>2
<1>10. Value(B(<< >>)) = pay
  BY <1>5 DEF Value
<1>11. SignatureHolds(p, B(<< >>)) /\ LengthHolds(p, B(<< >>))
  BY <1>2, <1>3, <1>10, DescriptorFacts DEF SignatureHolds, LengthHolds
<1>12. KeysFit(t, o)
  BY <1>3 DEF KeysFit, OneKey, Encrypting
<1>13. Reversed(p, errors, o) = {B(<< >>)}
  <2>1. Reversed(p, errors, o)
          = {IF SignatureHolds(p, b) /\ LengthHolds(p, b) THEN b ELSE Lost : b \in {B(<< >>)}}
    BY <1>2, <1>3, <1>9, <1>12 DEF Reversed
  <2> QED BY <1>11, <2>1
<1>14. SignerOf(p) = e.signer
  BY <1>2, <1>3, DescriptorFacts DEF SignerOf
<1>15. Framing(p, errors)
  <2>1. ASSUME t = << >> PROVE Value(Received(p, errors)) = pay
    <3>1. errors = NoErrors /\ outer = << >>
      BY <1>1, <1>3, <1>4, <2>1, NoParityNoErrors
    <3> QED BY <1>6, <1>10, <3>1
  <2> QED BY <1>2, <2>1 DEF Framing
<1> QED BY <1>13, <1>14, <1>15 DEF p

-----------------------------------------------------------------------------
(* What an encode made stays what it made, whatever damages it.            *)

\* A carrier an encode published: its packet, where it lies, and its options.
\* Only its front, its head and the symbols of its body ever change.
MadeBy(file, e) ==
  /\ OneKey(e)
  /\ file.kind = "carrier" /\ file.key = e.place /\ file.bits = e.bits
  /\ \E c \in Commands : file.packet = NewPacket(e.payload, c, e)

WritesItsPacket(c) ==
  at[c] \in {"publish", "verify"} =>
    OneKey(opt[c]) /\ packet[c] = NewPacket(opt[c].payload, c, opt[c])

OriginInv ==
  /\ IInv
  /\ \A c \in Commands : WritesItsPacket(c)
  /\ \A x \in Files : origin[x] # None => MadeBy(files[x], origin[x])

LEMMA OriginInit == CommandInit => OriginInv
BY InvInit DEF CommandInit, OriginInv, WritesItsPacket

\* A command writes the packet it made from its own options.
LEMMA WritesStep ==
  ASSUME OriginInv, [CommandNext]_commandVars, NEW c \in Commands
  PROVE  WritesItsPacket(c)'
<1> SUFFICES ASSUME at'[c] \in {"publish", "verify"}
             PROVE  OneKey(opt'[c]) /\ packet'[c] = NewPacket(opt'[c].payload, c, opt'[c])
  BY DEF WritesItsPacket
<1>1. CommandTypeOK
  BY DEF OriginInv, IInv
<1>2. CASE StartEncode(c)
  <2>1. PICK o \in EncodeOptions :
          /\ OneKey(o) /\ opt' = [opt EXCEPT ![c] = o]
          /\ packet' = [packet EXCEPT ![c] = NewPacket(o.payload, c, o)]
    BY <1>2 DEF StartEncode, EncodeAdmitted
  <2>2. opt'[c] = o /\ packet'[c] = NewPacket(o.payload, c, o)
    BY <1>1, <2>1 DEF CommandTypeOK
  <2> QED BY <2>1, <2>2
<1>3. CASE at[c] \in {"publish", "verify"} /\ opt'[c] = opt[c] /\ packet'[c] = packet[c]
  BY <1>3 DEF OriginInv, WritesItsPacket
<1>4. CASE PublishCarrier(c)
  BY <1>3, <1>4 DEF PublishCarrier
<1>5. ASSUME NEW l, l \notin {"publish", "verify"}, To(c, l)
      PROVE  FALSE
  BY <1>1, <1>5 DEF CommandTypeOK, To
<1>6. ASSUME RefuseEncode(c) \/ PublishRefused(c) \/ VerifyWrite(c) \/ StartDecode(c)
               \/ RefuseDecode(c) \/ Recover(c) \/ WritePayload(c) \/ WriteRefused(c)
               \/ StartRevoke(c) \/ RecordRevocation(c)
      PROVE  FALSE
  <2>1. To(c, "done") \/ To(c, "read") \/ To(c, "write") \/ To(c, "record")
    BY <1>6 DEF RefuseEncode, PublishRefused, VerifyWrite, StartDecode, RefuseDecode, Recover,
       WritePayload, WriteRefused, StartRevoke, RecordRevocation, Fail
  <2> QED BY <1>5, <2>1
<1>7. ASSUME NEW d \in Commands \ {c},
             StartEncode(d) \/ RefuseEncode(d) \/ PublishCarrier(d) \/ PublishRefused(d)
               \/ VerifyWrite(d) \/ StartDecode(d) \/ RefuseDecode(d) \/ Recover(d)
               \/ WritePayload(d) \/ WriteRefused(d) \/ StartRevoke(d) \/ RecordRevocation(d)
      PROVE  at'[c] = at[c] /\ opt'[c] = opt[c] /\ packet'[c] = packet[c]
  <2>1. \A l : To(d, l) => at'[c] = at[c]
    BY <1>1, <1>7 DEF CommandTypeOK, To
  <2>2. \A o : opt' = [opt EXCEPT ![d] = o] => opt'[c] = opt[c]
    BY <1>1, <1>7 DEF CommandTypeOK
  <2>3. \A p : packet' = [packet EXCEPT ![d] = p] => packet'[c] = packet[c]
    BY <1>1, <1>7 DEF CommandTypeOK
  <2>4. CASE StartEncode(d) \/ RefuseEncode(d) \/ PublishCarrier(d) \/ PublishRefused(d)
               \/ VerifyWrite(d)
    BY <2>1, <2>2, <2>3, <2>4 DEF StartEncode, RefuseEncode, PublishCarrier, PublishRefused,
       VerifyWrite, Fail
  <2>5. CASE StartDecode(d) \/ RefuseDecode(d) \/ Recover(d) \/ WritePayload(d) \/ WriteRefused(d)
    BY <2>1, <2>2, <2>3, <2>5 DEF StartDecode, RefuseDecode, Recover, WritePayload,
       WriteRefused, Fail
  <2>6. CASE StartRevoke(d) \/ RecordRevocation(d)
    BY <2>1, <2>2, <2>6 DEF StartRevoke, RecordRevocation
  <2> QED BY <1>7, <2>4, <2>5, <2>6
<1>8. CASE \/ UNCHANGED commandVars
           \/ \E x \in Files : \/ \E chunk \in Chunks : DamageBody(x, chunk)
                               \/ DamageFront(x) \/ DamageHead(x)
  BY <1>3, <1>8 DEF commandVars, DamageBody, DamageFront, DamageHead
<1> QED BY <1>2, <1>3, <1>4, <1>6, <1>7, <1>8 DEF CommandNext

\* A carrier is an encode's until it is replaced by a payload or another encode.
LEMMA MadeStep ==
  ASSUME OriginInv, [CommandNext]_commandVars, NEW x \in Files, origin'[x] # None
  PROVE  MadeBy(files'[x], origin'[x])
<1>1. CommandTypeOK /\ IInv
  BY DEF OriginInv, IInv
<1>2. ASSUME files'[x] = files[x] /\ origin'[x] = origin[x]
      PROVE  MadeBy(files'[x], origin'[x])
  BY <1>2 DEF OriginInv
<1>3. ASSUME NEW c \in Commands, PublishCarrier(c)
      PROVE  MadeBy(files'[x], origin'[x])
  <2>1. /\ files' = [files EXCEPT ![opt[c].out] = Carrier(packet[c], opt[c].place, opt[c].bits)]
        /\ origin' = [origin EXCEPT ![opt[c].out] = opt[c]]
        /\ at[c] = "publish"
    BY <1>3 DEF PublishCarrier
  <2>2. CASE opt[c].out = x
    <3>1. /\ files'[x] = Carrier(packet[c], opt[c].place, opt[c].bits)
          /\ origin'[x] = opt[c]
      BY <1>1, <2>1, <2>2 DEF CommandTypeOK
    <3>2. OneKey(opt[c]) /\ packet[c] = NewPacket(opt[c].payload, c, opt[c])
      BY <2>1 DEF OriginInv, WritesItsPacket
    <3>3. /\ files'[x].kind = "carrier" /\ files'[x].packet = packet[c]
          /\ files'[x].key = opt[c].place /\ files'[x].bits = opt[c].bits
      BY <3>1 DEF Carrier
    <3> QED BY <3>1, <3>2, <3>3 DEF MadeBy
  <2>3. CASE opt[c].out # x
    BY <1>1, <1>2, <2>1, <2>3 DEF CommandTypeOK
  <2> QED BY <2>2, <2>3
<1>4. ASSUME NEW c \in Commands, WritePayload(c)
      PROVE  MadeBy(files'[x], origin'[x])
  <2>1. /\ files' = [files EXCEPT ![opt[c].out] = PayloadFile(told[c].payload)]
        /\ origin' = [origin EXCEPT ![opt[c].out] = None]
    BY <1>4 DEF WritePayload
  <2>2. opt[c].out # x
    BY <1>1, <2>1 DEF CommandTypeOK
  <2> QED BY <1>1, <1>2, <2>1, <2>2 DEF CommandTypeOK
<1>5. ASSUME NEW y \in Files,
             \/ \E chunk \in Chunks : DamageBody(y, chunk)
             \/ DamageFront(y) \/ DamageHead(y)
      PROVE  MadeBy(files'[x], origin'[x])
  <2>1. origin' = origin
    BY <1>5 DEF DamageBody, DamageFront, DamageHead
  <2>2. CASE x = y
    <3>1. OnlyDamaged(x)
      BY <1>1, <1>5, <2>2, DamageFacts
    <3>2. files[x] \in Carriers /\ files'[x] \in Carriers
      <4>1. files'[x] \in Contents /\ files[x] \in Contents
        BY <1>1, <1>5, DamageFacts DEF CommandTypeOK
      <4> QED BY <3>1, <4>1, CarrierFacts DEF OnlyDamaged, Embedded
    <3>3. /\ files'[x].kind = files[x].kind /\ files'[x].packet = files[x].packet
          /\ files'[x].key = files[x].key /\ files'[x].bits = files[x].bits
      <4>1. ASSUME NEW f \in Carriers
            PROVE  /\ Pristine(f).kind = f.kind /\ Pristine(f).packet = f.packet
                   /\ Pristine(f).key = f.key /\ Pristine(f).bits = f.bits
        BY DEF Carriers, Pristine
      <4> QED BY <3>1, <3>2, <4>1 DEF OnlyDamaged
    <3>4. MadeBy(files[x], origin[x])
      BY <2>1 DEF OriginInv
    <3> QED BY <2>1, <3>3, <3>4 DEF MadeBy
  <2>3. CASE x # y
    BY <1>1, <1>2, <1>5, <2>1, <2>3, DamageFacts
  <2> QED BY <2>2, <2>3
<1>6. CASE files' = files /\ origin' = origin
  BY <1>2, <1>6
<1> QED BY <1>3, <1>4, <1>5, <1>6 DEF CommandNext, commandVars, StartEncode, RefuseEncode, PublishRefused,
     VerifyWrite, StartDecode, RefuseDecode, Recover, WriteRefused, StartRevoke,
     RecordRevocation

LEMMA OriginStep == OriginInv /\ [CommandNext]_commandVars => OriginInv'
<1> SUFFICES ASSUME OriginInv, [CommandNext]_commandVars PROVE OriginInv'
  OBVIOUS
<1>1. IInv'
  BY InvStep DEF OriginInv
<1>2. \A c \in Commands : WritesItsPacket(c)'
  BY WritesStep
<1>3. \A x \in Files : origin'[x] # None => MadeBy(files'[x], origin'[x])
  BY MadeStep
<1> QED BY <1>1, <1>2, <1>3 DEF OriginInv

\* Reading a carrier an encode made, with what it was made with.
LEMMA MadeIsRecovered ==
  ASSUME NEW f \in Carriers, NEW e \in EncodeOptions, MadeBy(f, e), Repairable(f, e.parity),
         NEW o, Matches(e, o), NEW list, e.signer # None => ~IsRevoked(e.signer, list)
  PROVE  RecoverPacket(f, o, list) = {Success("decode", e.payload, e.signer)}
<1> DEFINE body == Body(e.payload, << >>, NoErrors)
<1>0. e \in EncodeOption
  BY CliAssumption
<1>1. PICK c \in Commands : f.packet = NewPacket(e.payload, c, e)
  BY DEF MadeBy
<1>2. f.errors \in Damage /\ \A chunk \in Chunks : 2 * f.errors[chunk] <= e.parity
  BY DEF Carriers, Damage, Repairable
<1>3. /\ OneKey(e) /\ OneKey(o)
      /\ e.password # None => o.password = e.password
      /\ e.key # None => o.key = e.key
      /\ e.place # None => o.place = e.place
      /\ e.bits \in o.strengths /\ o.trusted \in {None, e.signer}
  BY DEF MadeBy, Matches
<1>4. /\ Reversed(f.packet, f.errors, o) = {body}
      /\ SignerOf(f.packet) = e.signer /\ Framing(f.packet, f.errors)
  <2>1. PICK errors : errors = f.errors
    OBVIOUS
  <2>2. errors \in Damage /\ \A chunk \in Chunks : 2 * errors[chunk] <= e.parity
    BY <1>2, <2>1
  <2>3. LET p == NewPacket(e.payload, c, e)
        IN  /\ Reversed(p, errors, o) = {body}
            /\ SignerOf(p) = e.signer /\ Framing(p, errors)
    BY <1>0, <1>3, <2>2, WrittenIsReversed
  <2> QED BY <1>1, <2>1, <2>3
<1>5. /\ f.packet.digest = e.payload /\ f.packet.keyed = (e.place # None)
      /\ f.packet.bits = e.bits
  BY <1>1 DEF NewPacket
<1>6. f.packet # None
  BY <1>1, CliAssumption
<1>7. body # Lost
  BY <1>0, PacketAssumption DEF Body, Lost, EncodeOption
<1>8. Value(body) = e.payload
  BY DEF Value, Clean, Body
<1>9. \E k \in Candidates(o) : Extracted(f, k[1], k[2])
  <2>1. <<e.place, e.bits>> \in Candidates(o)
    BY <1>3 DEF Candidates
  <2>2. Extracted(f, e.place, e.bits)
    BY <1>4, <1>5, <1>6 DEF Extracted, Recognised, MadeBy, Repairable
  <2> QED BY <2>1, <2>2
<1>10. Accepted(f.packet, body, o, list)
  BY <1>3, <1>4, <1>5, <1>8 DEF Accepted
<1>11. RecoverPacket(f, o, list) = ReversePacket(f.packet, f.errors, o, list)
  BY <1>9 DEF RecoverPacket
<1> HIDE DEF body
<1> QED BY <1>4, <1>7, <1>8, <1>10, <1>11 DEF ReversePacket

\* Every packet an encode published, whatever transforms it combines, comes back
\* with its signer for a receiver with the right keys, for any payload, options
\* and damage that the parity covers (apply_with_password, reverse_packet).
THEOREM EncodedRoundTrips == CommandSpec => []RoundTrip
<1>1. OriginInv => RoundTrip
  <2> SUFFICES ASSUME OriginInv, NEW x \in Files, NEW o \in DecodeOptions,
                      NEW list \in SUBSET SigningKeys, origin[x] # None,
                      Repairable(files[x], origin[x].parity), Matches(origin[x], o),
                      origin[x].signer # None => ~IsRevoked(origin[x].signer, list)
               PROVE  RecoverPacket(files[x], o, list)
                        = {Success("decode", origin[x].payload, origin[x].signer)}
    BY DEF RoundTrip
  <2>1. MadeBy(files[x], origin[x]) /\ origin[x] \in EncodeOptions /\ files[x] \in Contents
    BY DEF OriginInv, IInv, CommandTypeOK
  <2>2. files[x] \in Carriers
    BY <2>1, CarrierFacts DEF MadeBy
  <2> QED BY <2>1, <2>2, MadeIsRecovered
<1> QED BY <1>1, OriginInit, OriginStep, PTL DEF CommandSpec

-----------------------------------------------------------------------------
(* Sequences picked by place.                                              *)

\* Induction on the natural numbers, of a set of them.
LEMMA NatInductionSet ==
  ASSUME NEW G, 0 \in G, \A n \in Nat : n \in G => n + 1 \in G
  PROVE  Nat \subseteq G
<1> SUFFICES ASSUME Nat \ G # {} PROVE FALSE
  OBVIOUS
<1>1. PICK n \in Nat \ G : \A m \in Nat \ G : ~ (<<m, n>> \in OpToRel(<, Nat))
  <2>1. Nat \ G \subseteq Nat
    OBVIOUS
  <2> HIDE DEF OpToRel
  <2> QED BY <2>1, NatLessThanWellFounded, WFMin
<1>2. \A m \in Nat : m < n => m \in G
  BY <1>1 DEF OpToRel
<1>3. n # 0 /\ n - 1 \in Nat /\ n - 1 < n /\ (n - 1) + 1 = n
  OBVIOUS
<1>4. n - 1 \in G
  BY <1>2, <1>3
<1> QED BY <1>3, <1>4

\* g[i] is what is picked of the first i.
Picks(g, s, n, S) ==
  \A i \in 0..n : g[i] = IF i = 0 THEN <<>>
                         ELSE IF i \in S THEN Append(g[i - 1], s[i]) ELSE g[i - 1]

\* What Picks says, as an equation.
PicksOf(g, s, n, S) ==
  [i \in 0..n |-> IF i = 0 THEN <<>>
                  ELSE IF i \in S THEN Append(g[i - 1], s[i]) ELSE g[i - 1]]

\* There is such a function, however many there are to pick from.
LEMMA PicksExists ==
  ASSUME NEW s, NEW S, NEW n \in Nat
  PROVE  \E g : g = PicksOf(g, s, n, S)
<1> DEFINE G == {k \in Nat : \E g : Picks(g, s, k, S)}
<1>1. 0 \in G
  <2>1. PICK g : g = [i \in 0..0 |-> <<>>]
    OBVIOUS
  <2>2. Picks(g, s, 0, S)
    BY <2>1 DEF Picks
  <2> QED BY <2>2
<1>2. \A k \in Nat : k \in G => k + 1 \in G
  <2> TAKE k \in Nat
  <2> HAVE k \in G
  <2>1. PICK g : Picks(g, s, k, S)
    OBVIOUS
  <2>2. PICK x : x = IF k + 1 \in S THEN Append(g[k], s[k + 1]) ELSE g[k]
    OBVIOUS
  <2>3. PICK h : h = [i \in 0..(k + 1) |-> IF i \in 0..k THEN g[i] ELSE x]
    OBVIOUS
  <2>4. ASSUME NEW i \in 0..(k + 1)
        PROVE  h[i] = IF i = 0 THEN <<>> ELSE IF i \in S THEN Append(h[i - 1], s[i]) ELSE h[i - 1]
    <3>1. CASE i \in 0..k
      <4>1. h[i] = g[i] /\ (i # 0 => i - 1 \in 0..k /\ h[i - 1] = g[i - 1])
        BY <2>3, <3>1
      <4> QED BY <2>1, <3>1, <4>1 DEF Picks
    <3>2. CASE i \notin 0..k
      <4>1. i = k + 1 /\ i # 0 /\ i - 1 = k /\ k \in 0..k
        BY <3>2
      <4>2. h[i] = x /\ h[i - 1] = g[k]
        BY <2>3, <3>2, <4>1
      <4> QED BY <2>2, <4>1, <4>2
    <3> QED BY <3>1, <3>2
  <2>5. Picks(h, s, k + 1, S)
    BY <2>4 DEF Picks
  <2> QED BY <2>5
<1>3. n \in G
  <2>1. Nat \subseteq G
    <3> HIDE DEF G
    <3> QED BY <1>1, <1>2, NatInductionSet
  <2> HIDE DEF G
  <2> QED BY <2>1
<1>4. PICK g : Picks(g, s, n, S)
  BY <1>3
<1>5. PICK h : h = [i \in 0..n |-> g[i]]
  OBVIOUS
<1>6. \A i \in 0..n : h[i] = IF i = 0 THEN <<>>
                             ELSE IF i \in S THEN Append(h[i - 1], s[i]) ELSE h[i - 1]
  <2>1. \A i \in 0..n : i # 0 => i - 1 \in 0..n
    OBVIOUS
  <2> QED BY <1>4, <1>5, <2>1 DEF Picks
<1>7. h = PicksOf(h, s, n, S)
  BY <1>5, <1>6 DEF PicksOf
<1> QED BY <1>7

\* The function that Picked defines is one.
LEMMA PickedIs ==
  ASSUME NEW s, NEW S, NEW n \in Nat
  PROVE  \E g : Picks(g, s, n, S) /\ Picked(s, n, S) = g[n]
<1>1. PICK g : g = (CHOOSE x : x = PicksOf(x, s, n, S))
  OBVIOUS
<1>2. g = PicksOf(g, s, n, S)
  <2>1. n \in Nat
    OBVIOUS
  <2>2. \E x : x = PicksOf(x, s, n, S)
    BY <2>1, PicksExists
  <2> QED BY <1>1, <2>2
<1>3. Picked(s, n, S) = g[n]
  BY <1>1 DEF Picked, PicksOf
<1>4. Picks(g, s, n, S)
  BY <1>2 DEF Picks, PicksOf
<1> QED BY <1>3, <1>4

\* Two of them agree up to the place up to which what they pick from does.
LEMMA PicksAgree ==
  ASSUME NEW g, NEW s, NEW n \in Nat, NEW S, Picks(g, s, n, S),
         NEW h, NEW t, NEW m \in Nat, NEW T, Picks(h, t, m, T),
         NEW k \in Nat, k <= n, k <= m,
         \A i \in 1..k : (i \in S <=> i \in T) /\ (i \in S => s[i] = t[i])
  PROVE  g[k] = h[k]
<1> DEFINE G == {j \in Nat : j <= k => g[j] = h[j]}
<1>1. 0 \in G
  <2>1. g[0] = <<>> /\ h[0] = <<>>
    BY DEF Picks
  <2> QED BY <2>1
<1>2. \A j \in Nat : j \in G => j + 1 \in G
  <2> TAKE j \in Nat
  <2> HAVE j \in G
  <2> SUFFICES ASSUME j + 1 <= k PROVE g[j + 1] = h[j + 1]
    OBVIOUS
  <2>1. j + 1 \in 0..n /\ j + 1 \in 0..m /\ j + 1 \in 1..k /\ j + 1 # 0 /\ (j + 1) - 1 = j /\ j <= k
    OBVIOUS
  <2>2. g[j] = h[j]
    BY <2>1
  <2>3. g[j + 1] = IF j + 1 \in S THEN Append(g[j], s[j + 1]) ELSE g[j]
    BY <2>1 DEF Picks
  <2>4. h[j + 1] = IF j + 1 \in T THEN Append(h[j], t[j + 1]) ELSE h[j]
    BY <2>1 DEF Picks
  <2> QED BY <2>1, <2>2, <2>3, <2>4
<1>3. Nat \subseteq G
  <2> HIDE DEF G
  <2> QED BY <1>1, <1>2, NatInductionSet
<1> QED BY <1>3

\* What is picked depends on what is picked from, up to the last place.
LEMMA PickedSame ==
  ASSUME NEW s, NEW S, NEW t, NEW T, NEW n \in Nat,
         \A i \in 1..n : (i \in S <=> i \in T) /\ (i \in S => s[i] = t[i])
  PROVE  Picked(s, n, S) = Picked(t, n, T)
<1>1. PICK g : Picks(g, s, n, S) /\ Picked(s, n, S) = g[n]
  BY PickedIs
<1>2. PICK h : Picks(h, t, n, T) /\ Picked(t, n, T) = h[n]
  BY PickedIs
<1>3. n <= n
  OBVIOUS
<1>4. g[n] = h[n]
  BY <1>1, <1>2, <1>3, PicksAgree
<1> QED BY <1>1, <1>2, <1>4

\* The last place is picked or not.
LEMMA PickedNext ==
  ASSUME NEW s, NEW S, NEW n \in Nat
  PROVE  /\ Picked(s, 0, S) = <<>>
         /\ Picked(s, n + 1, S) =
              IF n + 1 \in S THEN Append(Picked(s, n, S), s[n + 1]) ELSE Picked(s, n, S)
<1>0. PICK m \in Nat : m = n + 1
  OBVIOUS
<1>1. PICK g : Picks(g, s, m, S) /\ Picked(s, m, S) = g[m]
  BY PickedIs
<1>2. PICK h : Picks(h, s, n, S) /\ Picked(s, n, S) = h[n]
  BY PickedIs
<1>3. g[n] = h[n]
  <2>1. n <= m /\ n <= n
    BY <1>0
  <2> QED BY <1>1, <1>2, <2>1, PicksAgree
<1>4. g[m] = IF m \in S THEN Append(g[n], s[m]) ELSE g[n]
  <2>1. m \in 0..m /\ m # 0 /\ m - 1 = n
    BY <1>0
  <2> QED BY <1>1, <2>1 DEF Picks
<1>5. Picked(s, 0, S) = <<>>
  <2>1. PICK f : Picks(f, s, 0, S) /\ Picked(s, 0, S) = f[0]
    BY PickedIs
  <2>2. 0 \in 0..0
    OBVIOUS
  <2> QED BY <2>1, <2>2 DEF Picks
<1> QED BY <1>0, <1>1, <1>2, <1>3, <1>4, <1>5

\* Nothing is picked after place m.
LEMMA PickedSkip ==
  ASSUME NEW s, NEW S, NEW n \in Nat, NEW m \in Nat, m <= n, \A i \in S : ~ (m < i /\ i <= n)
  PROVE  Picked(s, n, S) = Picked(s, m, S)
<1> DEFINE G == {d \in Nat : m + d <= n => Picked(s, m + d, S) = Picked(s, m, S)}
<1>1. 0 \in G
  <2>1. m + 0 = m
    OBVIOUS
  <2> QED BY <2>1
<1>2. \A d \in Nat : d \in G => d + 1 \in G
  <2> TAKE d \in Nat
  <2> HAVE d \in G
  <2> SUFFICES ASSUME m + (d + 1) <= n PROVE Picked(s, m + (d + 1), S) = Picked(s, m, S)
    OBVIOUS
  <2>1. /\ m + (d + 1) = (m + d) + 1 /\ m + d \in Nat /\ m + d <= n
        /\ m < (m + d) + 1 /\ (m + d) + 1 <= n
    OBVIOUS
  <2>2. (m + d) + 1 \notin S
    BY <2>1
  <2>3. Picked(s, (m + d) + 1, S) = Picked(s, m + d, S)
    BY <2>1, <2>2, PickedNext
  <2> QED BY <2>1, <2>3
<1>3. n - m \in G
  <2>1. Nat \subseteq G
    <3> HIDE DEF G
    <3> QED BY <1>1, <1>2, NatInductionSet
  <2>2. n - m \in Nat
    OBVIOUS
  <2> HIDE DEF G
  <2> QED BY <2>1, <2>2
<1>4. m + (n - m) = n
  OBVIOUS
<1> QED BY <1>3, <1>4

\* What is picked is a sequence of what is picked from.
LEMMA PickedSeq ==
  ASSUME NEW s, NEW S, NEW n \in Nat, NEW R, \A i \in 1..n : i \in S => s[i] \in R
  PROVE  Picked(s, n, S) \in Seq(R)
<1> DEFINE G == {k \in Nat : k <= n => Picked(s, k, S) \in Seq(R)}
<1>1. 0 \in G
  <2>1. Picked(s, 0, S) = <<>> /\ <<>> \in Seq(R)
    BY PickedNext
  <2> QED BY <2>1
<1>2. \A k \in Nat : k \in G => k + 1 \in G
  <2> TAKE k \in Nat
  <2> HAVE k \in G
  <2> SUFFICES ASSUME k + 1 <= n PROVE Picked(s, k + 1, S) \in Seq(R)
    OBVIOUS
  <2>1. Picked(s, k, S) \in Seq(R) /\ k + 1 \in 1..n
    OBVIOUS
  <2>2. Picked(s, k + 1, S) =
          IF k + 1 \in S THEN Append(Picked(s, k, S), s[k + 1]) ELSE Picked(s, k, S)
    BY PickedNext
  <2>3. k + 1 \in S => s[k + 1] \in R
    BY <2>1
  <2>4. PICK p \in Seq(R) : p = Picked(s, k, S)
    BY <2>1
  <2>5. \A x \in R : Append(p, x) \in Seq(R)
    BY AppendProperties
  <2> HIDE DEF G
  <2> QED BY <2>2, <2>3, <2>4, <2>5
<1>3. Nat \subseteq G
  <2> HIDE DEF G
  <2> QED BY <1>1, <1>2, NatInductionSet
<1> QED BY <1>3
-----------------------------------------------------------------------------
(* The fields of an envelope.                                              *)

\* What a field's value may be like.
Values == {"ok", "malformed", "reserved", "long"}

\* The fields of any identifier.
Fields == [id : Nat, critical : BOOLEAN, value : Values]

\* A field of the wire is one of them, and is its three parts.
LEMMA FieldIs ==
  ASSUME NEW f \in WireFields
  PROVE  /\ f \in Fields
         /\ f.id \in FieldIds /\ f.id \in Nat /\ f.critical \in BOOLEAN /\ f.value \in Values
         /\ f.value # "none" /\ f = Field(f.id, f.critical, f.value)
<1>1. f \in [id : FieldIds, critical : BOOLEAN, value : Values]
  BY DEF WireFields, Values
<1>2. f = [id |-> f.id, critical |-> f.critical, value |-> f.value]
  BY <1>1
<1> QED BY <1>1, <1>2, EnvelopeAssumption DEF Field, Fields, Values

\* Seven sequences one after the other, and where one more element goes.
Seven(q) == q[1] \o q[2] \o q[3] \o q[4] \o q[5] \o q[6] \o q[7]

\* Appending to the second of two joined sequences appends to both.
LEMMA AppendLast ==
  ASSUME NEW S, NEW x \in S, NEW p \in Seq(S), NEW a \in Seq(S)
  PROVE  /\ p \o a \in Seq(S)
         /\ p \o Append(a, x) = Append(p \o a, x)
         /\ p \o <<>> = p /\ Append(p, x) \o <<>> = Append(p, x)
<1>1. p \o a \in Seq(S)
  BY ConcatProperties
<1>2. <<x>> \in Seq(S)
  OBVIOUS
<1>3. p \o (a \o <<x>>) = (p \o a) \o <<x>>
  BY <1>2, ConcatAssociative
<1>4. Append(a, x) = a \o <<x>> /\ Append(p \o a, x) = (p \o a) \o <<x>>
  BY <1>1, AppendIsConcat
<1>5. p \o <<>> = p /\ Append(p, x) \o <<>> = Append(p, x)
  BY ConcatEmptySeq, AppendProperties
<1> QED BY <1>1, <1>3, <1>4, <1>5

\* u and v are the first i of both joined, the element is at place j.
Joins(i, j, S, x, u, v) == /\ u \in Seq(S) /\ v \in Seq(S)
                           /\ i < j => v = u
                           /\ j <= i => v = Append(u, x)

\* How the k-th of both are related.
Grown(k, j, S, x, a, b) ==
  /\ a \in Seq(S) /\ b \in Seq(S)
  /\ k < j => b = a
  /\ k = j => b = Append(a, x)
  /\ j < k => a = <<>> /\ b = <<>>

\* If the first i joined are related so, the first i + 1 are.
LEMMA JoinNext ==
  ASSUME NEW S, NEW x \in S, NEW i \in Nat, NEW j \in Nat, NEW u, NEW v, Joins(i, j, S, x, u, v),
         NEW k \in Nat, k = i + 1, NEW a, NEW b, Grown(k, j, S, x, a, b)
  PROVE  Joins(k, j, S, x, u \o a, v \o b)
<1>1. u \in Seq(S) /\ v \in Seq(S) /\ a \in Seq(S) /\ b \in Seq(S)
  BY DEF Joins, Grown
<1>2. /\ u \o a \in Seq(S) /\ v \o b \in Seq(S)
      /\ u \o Append(a, x) = Append(u \o a, x)
      /\ u \o <<>> = u /\ Append(u, x) \o <<>> = Append(u, x)
  <2>1. v \o b \in Seq(S)
    BY <1>1, ConcatProperties
  <2> QED BY <1>1, <2>1, AppendLast
<1>3. CASE k < j
  <2>1. u = v /\ a = b /\ ~ j <= k
    BY <1>3 DEF Joins, Grown
  <2> QED BY <1>2, <2>1 DEF Joins
<1>4. CASE k = j
  <2>1. u = v /\ b = Append(a, x) /\ ~ k < j
    BY <1>4 DEF Joins, Grown
  <2> QED BY <1>2, <2>1 DEF Joins
<1>5. CASE j < k
  <2>1. v = Append(u, x) /\ a = <<>> /\ b = <<>> /\ ~ k < j
    BY <1>5 DEF Joins, Grown
  <2>2. v \o b = Append(u \o a, x)
    BY <1>2, <2>1
  <2> QED BY <1>2, <2>1, <2>2 DEF Joins
<1> QED BY <1>3, <1>4, <1>5

\* What is appended to one of them is appended to them all if those after it are
\* empty.
LEMMA JoinAt ==
  ASSUME NEW S, NEW x \in S, NEW p, NEW q, NEW j \in Nat, 1 <= j, j <= 7,
         \A k \in 1..7 : Grown(k, j, S, x, p[k], q[k])
  PROVE  Seven(q) = Append(Seven(p), x)
<1>1. Joins(1, j, S, x, p[1], q[1])
  <2>1. 1 \in 1..7 /\ (j <= 1 => j = 1)
    OBVIOUS
  <2> QED BY <2>1 DEF Joins, Grown
<1>2. ASSUME NEW i \in 1..6, NEW u, NEW v, Joins(i, j, S, x, u, v)
      PROVE  Joins(i + 1, j, S, x, u \o p[i + 1], v \o q[i + 1])
  <2>1. PICK k \in 1..7 : k = i + 1 /\ k \in Nat /\ i \in Nat
    OBVIOUS
  <2>2. Grown(k, j, S, x, p[k], q[k])
    BY <2>1
  <2> QED BY <1>2, <2>1, <2>2, JoinNext
<1>3. PICK p2, q2 : p2 = p[1] \o p[2] /\ q2 = q[1] \o q[2]
  OBVIOUS
<1>4. Joins(2, j, S, x, p2, q2)
  <2>1. 1 \in 1..6 /\ 1 + 1 = 2
    OBVIOUS
  <2> QED BY <1>1, <1>2, <1>3, <2>1
<1>5. PICK p3, q3 : p3 = p2 \o p[3] /\ q3 = q2 \o q[3]
  OBVIOUS
<1>6. Joins(3, j, S, x, p3, q3)
  <2>1. 2 \in 1..6 /\ 2 + 1 = 3
    OBVIOUS
  <2> QED BY <1>4, <1>2, <1>5, <2>1
<1>7. PICK p4, q4 : p4 = p3 \o p[4] /\ q4 = q3 \o q[4]
  OBVIOUS
<1>8. Joins(4, j, S, x, p4, q4)
  <2>1. 3 \in 1..6 /\ 3 + 1 = 4
    OBVIOUS
  <2> QED BY <1>6, <1>2, <1>7, <2>1
<1>9. PICK p5, q5 : p5 = p4 \o p[5] /\ q5 = q4 \o q[5]
  OBVIOUS
<1>10. Joins(5, j, S, x, p5, q5)
  <2>1. 4 \in 1..6 /\ 4 + 1 = 5
    OBVIOUS
  <2> QED BY <1>8, <1>2, <1>9, <2>1
<1>11. PICK p6, q6 : p6 = p5 \o p[6] /\ q6 = q5 \o q[6]
  OBVIOUS
<1>12. Joins(6, j, S, x, p6, q6)
  <2>1. 5 \in 1..6 /\ 5 + 1 = 6
    OBVIOUS
  <2> QED BY <1>10, <1>2, <1>11, <2>1
<1>13. PICK p7, q7 : p7 = p6 \o p[7] /\ q7 = q6 \o q[7]
  OBVIOUS
<1>14. Joins(7, j, S, x, p7, q7)
  <2>1. 6 \in 1..6 /\ 6 + 1 = 7
    OBVIOUS
  <2> QED BY <1>12, <1>2, <1>13, <2>1
<1>15. Seven(p) = p7 /\ Seven(q) = q7
  BY <1>3, <1>5, <1>7, <1>9, <1>11, <1>13 DEF Seven
<1> QED BY <1>14, <1>15 DEF Joins

\* What the loop keeps of the fields it has read.
Shape(e) ==
  /\ DOMAIN e = {"pc", "single", "transforms", "unknown", "extensions"}
  /\ e.single \in [Singles -> Values \cup {"none"}]
  /\ e.transforms \in Seq(Fields) /\ e.unknown \in Seq(Fields) /\ e.extensions \in Seq(Fields)
  /\ \A i \in DOMAIN e.unknown : InGap(e.unknown[i].id) /\ e.unknown[i].id \in FieldIds

\* No field has an identifier beyond the last one.
Upto(e, last) ==
  /\ \A id \in Singles : e.single[id] # "none" => id <= last
  /\ e.transforms # <<>> => Transform <= last
  /\ \A i \in DOMAIN e.unknown : e.unknown[i].id <= last
  /\ e.extensions # <<>> => FirstExtension <= last

\* The fields in the fixed slots, and which of the slots ids are filled.
SlotFields(e) == [id \in Singles |-> Field(id, id \in Required, e.single[id])]
Filled(e, ids) == {id \in ids : e.single[id] # "none"}

\* The fixed slots make fields.
LEMMA SlotsSeq ==
  ASSUME NEW e, Shape(e), NEW ids, ids \subseteq Singles
  PROVE  Slots(e, ids) \in Seq(Fields)
<1>1. ASSUME NEW i \in 1..19, i \in Filled(e, ids) PROVE SlotFields(e)[i] \in Fields
  <2>1. i \in Singles /\ e.single[i] \in Values
    BY <1>1 DEF Shape, Filled
  <2> QED BY <1>1, <2>1 DEF SlotFields, Field, Fields
<1>2. 19 \in Nat
  OBVIOUS
<1>3. Picked(SlotFields(e), 19, Filled(e, ids)) \in Seq(Fields)
  BY <1>1, <1>2, PickedSeq
<1> QED BY <1>3 DEF Slots, SlotFields, Filled

\* Slots that are all empty make no field.
LEMMA SlotsNone ==
  ASSUME NEW e, NEW ids, \A id \in ids : e.single[id] = "none"
  PROVE  Slots(e, ids) = <<>>
<1>1. Filled(e, ids) = {}
  BY DEF Filled
<1>2. 19 \in Nat /\ 0 \in Nat /\ 0 <= 19
  OBVIOUS
<1>3. Picked(SlotFields(e), 19, Filled(e, ids)) = Picked(SlotFields(e), 0, Filled(e, ids))
  BY <1>1, <1>2, PickedSkip
<1>4. Picked(SlotFields(e), 0, Filled(e, ids)) = <<>>
  BY <1>2, PickedNext
<1> QED BY <1>3, <1>4 DEF Slots, SlotFields, Filled

\* A slot is filled, the last one so far.
LEMMA SlotsSet ==
  ASSUME NEW e, Shape(e), NEW ids, ids \subseteq Singles, NEW k \in Singles, NEW v \in Values,
         e.single[k] = "none", \A j \in Singles : k < j => e.single[j] = "none",
         NEW d, d.single = [e.single EXCEPT ![k] = v]
  PROVE  Slots(d, ids) = IF k \in ids THEN Append(Slots(e, ids), Field(k, k \in Required, v))
                                      ELSE Slots(e, ids)
<1> DEFINE F == SlotFields(e)  G == SlotFields(d)  T == Filled(e, ids)  U == Filled(d, ids)
<1>1. Slots(e, ids) = Picked(F, 19, T) /\ Slots(d, ids) = Picked(G, 19, U)
  BY DEF Slots, SlotFields, Filled
<1>2. /\ \A j \in Singles : d.single[j] = IF j = k THEN v ELSE e.single[j]
      /\ v # "none"
  BY DEF Shape, Values
<1>3. \A j : j # k => (j \in T <=> j \in U) /\ (j \in T => F[j] = G[j])
  BY <1>2 DEF SlotFields, Filled
<1>4. k \notin T /\ (k \in U <=> k \in ids) /\ G[k] = Field(k, k \in Required, v)
  BY <1>2 DEF SlotFields, Filled
<1>5. \A j \in T : j < k
  <2> TAKE j \in T
  <2>1. j \in Singles /\ j # k /\ ~ k < j
    BY <1>4 DEF Filled
  <2>2. Singles \subseteq Nat
    BY DEF Singles, Required, Optional
  <2> QED BY <2>1, <2>2
<1>6. PICK n \in Nat : k = n + 1 /\ n + 1 <= 19 /\ n <= 19
  BY DEF Singles, Required, Optional
<1>9. (\A j \in T : j \in Nat) /\ (\A j \in U : j \in Nat)
  BY DEF Filled, Singles, Required, Optional
<1> HIDE DEF F, G, T, U
<1>7. CASE k \notin ids
  <2>1. \A i \in 1..19 : (i \in T <=> i \in U) /\ (i \in T => F[i] = G[i])
    BY <1>3, <1>4, <1>7
  <2>2. 19 \in Nat
    OBVIOUS
  <2>3. Picked(F, 19, T) = Picked(G, 19, U)
    BY <2>1, <2>2, PickedSame
  <2> QED BY <1>1, <1>7, <2>3
<1>8. CASE k \in ids
  <2>1. 19 \in Nat /\ n + 1 \in Nat
    OBVIOUS
  <2>2. Picked(G, 19, U) = Picked(G, n + 1, U)
    <3>1. \A i \in U : ~ (n + 1 < i /\ i <= 19)
      <4> TAKE i \in U
      <4>1. i = k \/ i < k
        BY <1>3, <1>5
      <4>2. i \in Nat
        BY <1>9
      <4> QED BY <1>6, <4>1, <4>2
    <3> QED BY <1>6, <2>1, <3>1, PickedSkip
  <2>3. Picked(G, n + 1, U) = Append(Picked(G, n, U), G[n + 1])
    BY <1>4, <1>6, <1>8, PickedNext
  <2>4. Picked(F, n, T) = Picked(G, n, U)
    <3>1. \A i \in 1..n : (i \in T <=> i \in U) /\ (i \in T => F[i] = G[i])
      <4> TAKE i \in 1..n
      <4>1. i # k
        BY <1>6
      <4> QED BY <1>3, <4>1
    <3> QED BY <3>1, PickedSame
  <2>5. Picked(F, 19, T) = Picked(F, n, T)
    <3>1. \A i \in T : ~ (n < i /\ i <= 19)
      <4> TAKE i \in T
      <4>1. i < n + 1
        BY <1>5, <1>6
      <4>2. i \in Nat
        BY <1>9
      <4> QED BY <4>1, <4>2
    <3> QED BY <1>6, <2>1, <3>1, PickedSkip
  <2> QED BY <1>1, <1>4, <1>6, <1>8, <2>2, <2>3, <2>4, <2>5
<1> QED BY <1>7, <1>8

\* The places of the preserved fields with an identifier in ids.
InPlaces(u, ids) == {i \in DOMAIN u : u[i].id \in ids}

\* The preserved fields are fields.
LEMMA PreservedSeq ==
  ASSUME NEW e, e.unknown \in Seq(Fields), NEW ids
  PROVE  Preserved(e, ids) \in Seq(Fields)
<1> DEFINE u == e.unknown
<1>1. Len(u) \in Nat /\ \A i \in 1..Len(u) : i \in InPlaces(u, ids) => u[i] \in Fields
  <2>1. PICK s \in Seq(Fields) : s = u
    OBVIOUS
  <2>2. Len(s) \in Nat /\ \A i \in 1..Len(s) : s[i] \in Fields
    BY ElementOfSeq
  <2> QED BY <2>1, <2>2
<1> HIDE DEF u
<1>2. Picked(u, Len(u), InPlaces(u, ids)) \in Seq(Fields)
  BY <1>1, PickedSeq
<1> QED BY <1>2 DEF Preserved, InPlaces, u

\* None is written if none has such an identifier.
LEMMA PreservedNone ==
  ASSUME NEW e, e.unknown \in Seq(Fields), NEW ids, \A i \in DOMAIN e.unknown : e.unknown[i].id \notin ids
  PROVE  Preserved(e, ids) = <<>>
<1> DEFINE u == e.unknown
<1>1. InPlaces(u, ids) = {}
  BY DEF InPlaces
<1>2. Len(u) \in Nat /\ 0 \in Nat /\ 0 <= Len(u)
  BY LenProperties
<1> HIDE DEF u
<1>3. Picked(u, Len(u), InPlaces(u, ids)) = Picked(u, 0, InPlaces(u, ids))
  BY <1>1, <1>2, PickedSkip
<1>4. Picked(u, 0, InPlaces(u, ids)) = <<>>
  BY <1>2, PickedNext
<1> QED BY <1>3, <1>4 DEF Preserved, InPlaces, u

\* A preserved field more is written last, if it has such an identifier.
LEMMA PreservedAdd ==
  ASSUME NEW e, e.unknown \in Seq(Fields), NEW f \in Fields, NEW d, d.unknown = Append(e.unknown, f), NEW ids
  PROVE  Preserved(d, ids) = IF f.id \in ids THEN Append(Preserved(e, ids), f) ELSE Preserved(e, ids)
<1>1. PICK u \in Seq(Fields) : u = e.unknown
  OBVIOUS
<1>2. PICK w : w = d.unknown
  OBVIOUS
<1>3. PICK n \in Nat : n = Len(u) /\ DOMAIN u = 1..n
  BY LenProperties
<1>4. /\ w = Append(u, f) /\ w \in Seq(Fields) /\ Len(w) = n + 1 /\ w[n + 1] = f
      /\ DOMAIN w = 1..(n + 1)
      /\ \A i \in 1..n : w[i] = u[i]
  <2>1. w = Append(u, f)
    BY <1>1, <1>2
  <2>2. w \in Seq(Fields) /\ Len(w) = n + 1 /\ w[n + 1] = f /\ \A i \in 1..n : w[i] = u[i]
    BY <1>3, <2>1, AppendProperties
  <2>3. DOMAIN w = 1..Len(w)
    BY <2>2, LenProperties
  <2> QED BY <2>1, <2>2, <2>3
<1> DEFINE T == InPlaces(u, ids)  U == InPlaces(w, ids)
<1>5. Preserved(e, ids) = Picked(u, n, T) /\ Preserved(d, ids) = Picked(w, n + 1, U)
  BY <1>1, <1>2, <1>3, <1>4 DEF Preserved, InPlaces
<1>6. Picked(w, n + 1, U) = IF n + 1 \in U THEN Append(Picked(w, n, U), f) ELSE Picked(w, n, U)
  BY <1>4, PickedNext
<1>7. n + 1 \in U <=> f.id \in ids
  BY <1>4 DEF InPlaces
<1>8. \A i \in 1..n : (i \in T <=> i \in U) /\ (i \in T => u[i] = w[i])
  <2> TAKE i \in 1..n
  <2>1. i \in 1..(n + 1) /\ w[i] = u[i]
    BY <1>4
  <2> QED BY <1>3, <1>4, <2>1 DEF InPlaces
<1> HIDE DEF T, U
<1>9. Picked(u, n, T) = Picked(w, n, U)
  BY <1>8, PickedSame
<1> QED BY <1>5, <1>6, <1>7, <1>9

\* What encode writes, part by part.
Parts(e) ==
  <<Slots(e, 1..4), e.transforms, Slots(e, 6..8), Preserved(e, 0..15),
    Slots(e, Optional), Preserved(e, FieldIds \ (0..19)), e.extensions>>

\* They are what it writes, one after the other.
LEMMA EncodeIs == ASSUME NEW e PROVE EncodeEnvelope(e) = Seven(Parts(e))
BY DEF EncodeEnvelope, Seven, Parts

\* Each of them is a sequence of fields.
LEMMA PartsSeq ==
  ASSUME NEW e, Shape(e), NEW k \in 1..7
  PROVE  Parts(e)[k] \in Seq(Fields)
<1>1. 1..4 \subseteq Singles /\ 6..8 \subseteq Singles /\ Optional \subseteq Singles
  BY DEF Singles, Required, Optional
<1>2. Slots(e, 1..4) \in Seq(Fields) /\ Slots(e, 6..8) \in Seq(Fields) /\ Slots(e, Optional) \in Seq(Fields)
  BY <1>1, SlotsSeq
<1>3. e.transforms \in Seq(Fields) /\ e.unknown \in Seq(Fields) /\ e.extensions \in Seq(Fields)
  BY DEF Shape
<1>4. Preserved(e, 0..15) \in Seq(Fields) /\ Preserved(e, FieldIds \ (0..19)) \in Seq(Fields)
  BY <1>3, PreservedSeq
<1>5. k = 1 \/ k = 2 \/ k = 3 \/ k = 4 \/ k = 5 \/ k = 6 \/ k = 7
  OBVIOUS
<1> QED BY <1>2, <1>3, <1>4, <1>5 DEF Parts

\* A field goes to the part of its identifier.
PartOf(id) ==
  IF id < 5 THEN 1 ELSE IF id = 5 THEN 2 ELSE IF id < 9 THEN 3 ELSE IF id < 16 THEN 4
  ELSE IF id < 20 THEN 5 ELSE IF id < 128 THEN 6 ELSE 7

\* The parts after the last field's are empty.
LEMMA PartsEmpty ==
  ASSUME NEW e, Shape(e), NEW last \in Nat, Upto(e, last), NEW k \in 1..7, PartOf(last) < k
  PROVE  Parts(e)[k] = <<>>
<1>1. k = 1 \/ k = 2 \/ k = 3 \/ k = 4 \/ k = 5 \/ k = 6 \/ k = 7
  OBVIOUS
<1>2. ASSUME NEW ids, ids \subseteq Singles, \A id \in ids : id \in Nat /\ last < id
      PROVE  Slots(e, ids) = <<>>
  <2>1. \A id \in ids : e.single[id] = "none"
    BY <1>2 DEF Upto
  <2> QED BY <2>1, SlotsNone
<1>3. ASSUME NEW ids, \A id \in ids : id \in Nat /\ last < id
      PROVE  Preserved(e, ids) = <<>>
  <2>1. \A i \in DOMAIN e.unknown : e.unknown[i].id \notin ids
    <3> TAKE i \in DOMAIN e.unknown
    <3>1. e.unknown[i].id <= last
      BY DEF Upto
    <3> QED BY <1>3, <3>1
  <2> QED BY <2>1, PreservedNone DEF Shape
<1>4. CASE k = 1
  BY <1>4 DEF PartOf
<1>5. CASE k = 2
  <2>1. ~ Transform <= last
    BY <1>5 DEF PartOf, Transform
  <2> QED BY <1>5, <2>1 DEF Parts, Upto
<1>6. CASE k = 3
  <2>1. last < 6
    BY <1>6 DEF PartOf
  <2>2. 6..8 \subseteq Singles /\ \A id \in 6..8 : id \in Nat /\ last < id
    BY <2>1 DEF Singles, Required
  <2> QED BY <1>2, <1>6, <2>2 DEF Parts
<1>7. CASE k = 4
  <2>1. last < 9
    BY <1>7 DEF PartOf
  <2>2. Preserved(e, 0..15) = <<>>
    <3>1. \A i \in DOMAIN e.unknown : e.unknown[i].id \notin 0..15
      <4> TAKE i \in DOMAIN e.unknown
      <4>1. InGap(e.unknown[i].id) /\ e.unknown[i].id <= last
        BY DEF Shape, Upto
      <4> QED BY <2>1, <4>1 DEF InGap
    <3> QED BY <3>1, PreservedNone DEF Shape
  <2> QED BY <1>7, <2>2 DEF Parts
<1>8. CASE k = 5
  <2>1. last < 16
    BY <1>8 DEF PartOf
  <2>2. Optional \subseteq Singles /\ \A id \in Optional : id \in Nat /\ last < id
    BY <2>1 DEF Singles, Optional
  <2> QED BY <1>2, <1>8, <2>2 DEF Parts
<1>9. CASE k = 6
  <2>1. last < 20
    BY <1>9 DEF PartOf
  <2>2. \A id \in FieldIds \ (0..19) : id \in Nat /\ last < id
    BY <2>1, EnvelopeAssumption
  <2> QED BY <1>3, <1>9, <2>2 DEF Parts
<1>10. CASE k = 7
  <2>1. ~ FirstExtension <= last
    BY <1>10 DEF PartOf, FirstExtension
  <2> QED BY <1>10, <2>1 DEF Parts, Upto
<1> QED BY <1>1, <1>4, <1>5, <1>6, <1>7, <1>8, <1>9, <1>10

\* A field the loop accepts after fields up to last.
Fits(e, f, last) ==
  /\ f.id # 0 /\ last <= f.id
  /\ f.id \in Required => f.critical
  /\ f.id \in Optional => ~ f.critical
  /\ f.id \in Singles => e.single[f.id] = "none"

\* Where decode keeps a field of an identifier.
Kind(id) == IF id \in Singles THEN "single" ELSE IF id = Transform THEN "transform"
            ELSE IF id >= FirstExtension THEN "extension" ELSE "unknown"

\* By the ranges of the identifiers.
LEMMA KindIs ==
  ASSUME NEW id \in Nat, id # 0
  PROVE  /\ Kind(id) = "single" <=> id \in Singles
         /\ Kind(id) = "transform" <=> id = 5
         /\ Kind(id) = "extension" <=> id >= 128
         /\ Kind(id) = "unknown" <=> InGap(id)
         /\ Kind(id) \in {"single", "transform", "extension", "unknown"}
         /\ id \in Singles => (id \in Required <=> id \notin Optional)
BY DEF Kind, Singles, Required, Optional, Transform, FirstExtension, InGap

\* What decode keeps of one more field, by its kind.
LEMMA WithIs ==
  ASSUME NEW e, Shape(e), NEW f \in WireFields, f.id # 0, NEW d, d = With(e, f)
  PROVE  /\ Kind(f.id) = "single" => d = [e EXCEPT !.single = [e.single EXCEPT ![f.id] = f.value]]
         /\ Kind(f.id) = "transform" => d = [e EXCEPT !.transforms = Append(e.transforms, f)]
         /\ Kind(f.id) = "extension" => d = [e EXCEPT !.extensions = Append(e.extensions, f)]
         /\ Kind(f.id) = "unknown" => d = [e EXCEPT !.unknown = Append(e.unknown, f)]
<1>1. f.id \in Nat
  BY FieldIs
<1>2. CASE f.id \in Singles
  <2>1. Kind(f.id) = "single"
    BY <1>2 DEF Kind
  <2>2. d = [e EXCEPT !.single = [e.single EXCEPT ![f.id] = f.value]]
    <3>1. f.id # Transform /\ ~ f.id >= FirstExtension
      BY <1>1, <1>2 DEF Singles, Required, Optional, Transform, FirstExtension
    <3> QED BY <1>2, <3>1 DEF With
  <2> QED BY <2>1, <2>2
<1>3. CASE f.id = Transform
  <2>1. f.id \notin Singles
    BY <1>3 DEF Singles, Required, Optional, Transform
  <2>2. Kind(f.id) = "transform"
    BY <1>3, <2>1 DEF Kind
  <2>3. d = [e EXCEPT !.transforms = Append(e.transforms, f)]
    <3>1. ~ f.id >= FirstExtension
      BY <1>3 DEF Transform, FirstExtension
    <3> QED BY <1>3, <2>1, <3>1 DEF With
  <2> QED BY <2>2, <2>3
<1>4. CASE f.id >= FirstExtension
  <2>1. f.id \notin Singles /\ f.id # Transform
    BY <1>1, <1>4 DEF Singles, Required, Optional, Transform, FirstExtension
  <2> QED BY <1>4, <2>1 DEF With, Kind
<1>5. CASE f.id \notin Singles /\ f.id # Transform /\ ~ f.id >= FirstExtension
  BY <1>5 DEF With, Kind
<1> QED BY <1>2, <1>3, <1>4, <1>5

\* Each field of d, by the kind of f.
LEMMA WithFields ==
  ASSUME NEW e, Shape(e), NEW f \in WireFields, f.id # 0, NEW d, d = With(e, f)
  PROVE  /\ DOMAIN d = DOMAIN e /\ d.pc = e.pc
         /\ d.single = IF Kind(f.id) = "single" THEN [e.single EXCEPT ![f.id] = f.value] ELSE e.single
         /\ d.transforms = IF Kind(f.id) = "transform" THEN Append(e.transforms, f) ELSE e.transforms
         /\ d.extensions = IF Kind(f.id) = "extension" THEN Append(e.extensions, f) ELSE e.extensions
         /\ d.unknown = IF Kind(f.id) = "unknown" THEN Append(e.unknown, f) ELSE e.unknown
<1>1. f.id \in Nat
  BY FieldIs
<1>2. Kind(f.id) \in {"single", "transform", "extension", "unknown"}
  BY <1>1, KindIs
<1>3. DOMAIN e = {"pc", "single", "transforms", "unknown", "extensions"}
  BY DEF Shape
<1>4. PICK x : x = [e.single EXCEPT ![f.id] = f.value]
  OBVIOUS
<1>5. PICK y : y = Append(e.transforms, f)
  OBVIOUS
<1>6. PICK z : z = Append(e.extensions, f)
  OBVIOUS
<1>7. PICK w : w = Append(e.unknown, f)
  OBVIOUS
<1>8. /\ Kind(f.id) = "single" => d = [e EXCEPT !.single = x]
      /\ Kind(f.id) = "transform" => d = [e EXCEPT !.transforms = y]
      /\ Kind(f.id) = "extension" => d = [e EXCEPT !.extensions = z]
      /\ Kind(f.id) = "unknown" => d = [e EXCEPT !.unknown = w]
  BY <1>4, <1>5, <1>6, <1>7, WithIs
<1> QED BY <1>2, <1>3, <1>4, <1>5, <1>6, <1>7, <1>8

\* One more field that fits keeps the shape, and is the last one.
LEMMA WithShape ==
  ASSUME NEW e, Shape(e), NEW f \in WireFields, NEW last \in Nat, Upto(e, last), Fits(e, f, last),
         NEW d, d = With(e, f)
  PROVE  Shape(d) /\ Upto(d, f.id)
<1>0. f \in Fields /\ f.id \in FieldIds /\ f.id \in Nat /\ f.value \in Values /\ f.id # 0 /\ last <= f.id
  BY FieldIs DEF Fits
<1>1. /\ DOMAIN d = DOMAIN e
      /\ d.single = IF Kind(f.id) = "single" THEN [e.single EXCEPT ![f.id] = f.value] ELSE e.single
      /\ d.transforms = IF Kind(f.id) = "transform" THEN Append(e.transforms, f) ELSE e.transforms
      /\ d.extensions = IF Kind(f.id) = "extension" THEN Append(e.extensions, f) ELSE e.extensions
      /\ d.unknown = IF Kind(f.id) = "unknown" THEN Append(e.unknown, f) ELSE e.unknown
  BY <1>0, WithFields
<1>2. /\ d.single \in [Singles -> Values \cup {"none"}]
      /\ \A id \in Singles : d.single[id] # "none" => id <= f.id
  <2>1. e.single \in [Singles -> Values \cup {"none"}]
    BY DEF Shape
  <2>2. \A id \in Singles : id \in Nat /\ (e.single[id] # "none" => id <= last)
    BY DEF Upto, Singles, Required, Optional
  <2>3. \A id \in Singles : e.single[id] # "none" => id <= f.id
    BY <1>0, <2>2
  <2>4. CASE Kind(f.id) = "single"
    <3>1. d.single = [e.single EXCEPT ![f.id] = f.value]
      BY <1>1, <2>4
    <3>2. \A id \in Singles : d.single[id] # e.single[id] => id = f.id
      BY <2>1, <3>1
    <3>3. d.single \in [Singles -> Values \cup {"none"}]
      BY <1>0, <2>1, <3>1
    <3>4. f.id <= f.id
      BY <1>0
    <3> QED BY <2>3, <3>2, <3>3, <3>4
  <2>5. CASE Kind(f.id) # "single"
    BY <1>1, <2>1, <2>3, <2>5
  <2> QED BY <2>4, <2>5
<1>3. d.transforms \in Seq(Fields) /\ (d.transforms # <<>> => Transform <= f.id)
  <2>1. e.transforms \in Seq(Fields) /\ (e.transforms # <<>> => Transform <= last)
    BY DEF Shape, Upto
  <2>2. Kind(f.id) = "transform" => f.id = 5
    BY <1>0, KindIs
  <2>3. Append(e.transforms, f) \in Seq(Fields)
    BY <1>0, <2>1, AppendProperties
  <2> QED BY <1>0, <1>1, <2>1, <2>2, <2>3 DEF Transform
<1>4. d.extensions \in Seq(Fields) /\ (d.extensions # <<>> => FirstExtension <= f.id)
  <2>1. e.extensions \in Seq(Fields) /\ (e.extensions # <<>> => FirstExtension <= last)
    BY DEF Shape, Upto
  <2>2. Kind(f.id) = "extension" => f.id >= 128
    BY <1>0, KindIs
  <2>3. Append(e.extensions, f) \in Seq(Fields)
    BY <1>0, <2>1, AppendProperties
  <2> QED BY <1>0, <1>1, <2>1, <2>2, <2>3 DEF FirstExtension
<1>5. /\ d.unknown \in Seq(Fields)
      /\ \A i \in DOMAIN d.unknown :
           InGap(d.unknown[i].id) /\ d.unknown[i].id \in FieldIds /\ d.unknown[i].id <= f.id
  <2>1. e.unknown \in Seq(Fields)
    BY DEF Shape
  <2>2. \A i \in DOMAIN e.unknown :
          InGap(e.unknown[i].id) /\ e.unknown[i].id \in FieldIds /\ e.unknown[i].id <= f.id
    <3> TAKE i \in DOMAIN e.unknown
    <3>1. InGap(e.unknown[i].id) /\ e.unknown[i].id \in FieldIds /\ e.unknown[i].id <= last
      BY DEF Shape, Upto
    <3>2. e.unknown[i].id \in Nat
      BY <3>1, EnvelopeAssumption
    <3> QED BY <1>0, <3>1, <3>2
  <2>3. CASE Kind(f.id) = "unknown"
    <3>1. PICK u \in Seq(Fields) : u = e.unknown
      BY <2>1
    <3>2. PICK n \in Nat : n = Len(u) /\ DOMAIN u = 1..n
      BY LenProperties
    <3>3. PICK w : w = d.unknown
      OBVIOUS
    <3>4. w = Append(u, f)
      BY <1>1, <2>3, <3>1, <3>3
    <3>5. /\ w \in Seq(Fields) /\ Len(w) = n + 1 /\ w[n + 1] = f /\ \A i \in 1..n : w[i] = u[i]
      BY <1>0, <3>2, <3>4, AppendProperties
    <3>6. DOMAIN w = 1..(n + 1)
      BY <3>5, LenProperties
    <3>7. InGap(f.id) /\ f.id <= f.id
      BY <1>0, <2>3, KindIs
    <3>8. \A i \in 1..(n + 1) : i = n + 1 \/ i \in 1..n
      OBVIOUS
    <3> QED BY <1>0, <2>2, <3>1, <3>2, <3>3, <3>5, <3>6, <3>7, <3>8
  <2>4. CASE Kind(f.id) # "unknown"
    BY <1>1, <2>1, <2>2, <2>4
  <2> QED BY <2>3, <2>4
<1> QED BY <1>0, <1>1, <1>2, <1>3, <1>4, <1>5 DEF Shape, Upto

\* The part of a field's identifier is the one it goes to.
LEMMA WithParts ==
  ASSUME NEW e, Shape(e), NEW f \in WireFields, NEW last \in Nat, Upto(e, last), Fits(e, f, last),
         NEW d, d = With(e, f), NEW k \in 1..7
  PROVE  Parts(d)[k] = IF k = PartOf(f.id) THEN Append(Parts(e)[k], f) ELSE Parts(e)[k]
<1>0. /\ f \in Fields /\ f.id \in FieldIds /\ f.id \in Nat /\ f.value \in Values /\ f.id # 0
      /\ last <= f.id /\ f = Field(f.id, f.critical, f.value) /\ f.critical \in BOOLEAN
  BY FieldIs DEF Fits
<1>1. /\ d.single = IF Kind(f.id) = "single" THEN [e.single EXCEPT ![f.id] = f.value] ELSE e.single
      /\ d.transforms = IF Kind(f.id) = "transform" THEN Append(e.transforms, f) ELSE e.transforms
      /\ d.extensions = IF Kind(f.id) = "extension" THEN Append(e.extensions, f) ELSE e.extensions
      /\ d.unknown = IF Kind(f.id) = "unknown" THEN Append(e.unknown, f) ELSE e.unknown
  BY <1>0, WithFields
<1>2. ASSUME NEW ids, ids \subseteq Singles
      PROVE  Slots(d, ids) = IF f.id \in ids THEN Append(Slots(e, ids), f) ELSE Slots(e, ids)
  <2>1. CASE f.id \in Singles
    <3>1. Kind(f.id) = "single"
      BY <1>0, <2>1, KindIs
    <3>2. d.single = [e.single EXCEPT ![f.id] = f.value]
      BY <1>1, <3>1
    <3>3. e.single[f.id] = "none"
      BY <2>1 DEF Fits
    <3>4. \A j \in Singles : f.id < j => e.single[j] = "none"
      <4> TAKE j \in Singles
      <4>1. j \in Nat /\ (e.single[j] # "none" => j <= last)
        BY DEF Upto, Singles, Required, Optional
      <4> QED BY <1>0, <4>1
    <3>5. f = Field(f.id, f.id \in Required, f.value)
      <4>1. f.critical = (f.id \in Required)
        BY <1>0, <2>1, KindIs DEF Fits
      <4> QED BY <1>0, <4>1
    <3> QED BY <1>0, <1>2, <2>1, <3>2, <3>3, <3>4, <3>5, SlotsSet
  <2>2. CASE f.id \notin Singles
    <3>1. d.single = e.single
      BY <1>0, <1>1, <2>2, KindIs
    <3>2. Slots(d, ids) = Slots(e, ids)
      BY <3>1 DEF Slots
    <3> QED BY <1>2, <2>2, <3>2
  <2> QED BY <2>1, <2>2
<1>3. ASSUME NEW ids
      PROVE  Preserved(d, ids) = IF InGap(f.id) /\ f.id \in ids THEN Append(Preserved(e, ids), f)
                                                                ELSE Preserved(e, ids)
  <2>1. CASE InGap(f.id)
    <3>1. d.unknown = Append(e.unknown, f)
      BY <1>0, <1>1, <2>1, KindIs
    <3>2. e.unknown \in Seq(Fields)
      BY DEF Shape
    <3> QED BY <1>0, <2>1, <3>1, <3>2, PreservedAdd
  <2>2. CASE ~ InGap(f.id)
    <3>1. d.unknown = e.unknown
      BY <1>0, <1>1, <2>2, KindIs
    <3> QED BY <2>2, <3>1 DEF Preserved
  <2> QED BY <2>1, <2>2
<1>4. k = 1 \/ k = 2 \/ k = 3 \/ k = 4 \/ k = 5 \/ k = 6 \/ k = 7
  OBVIOUS
<1>5. /\ f.id \in 1..4 <=> PartOf(f.id) = 1
      /\ Kind(f.id) = "transform" <=> PartOf(f.id) = 2
      /\ f.id \in 6..8 <=> PartOf(f.id) = 3
      /\ InGap(f.id) /\ f.id \in 0..15 <=> PartOf(f.id) = 4
      /\ f.id \in Optional <=> PartOf(f.id) = 5
      /\ InGap(f.id) /\ f.id \in FieldIds \ (0..19) <=> PartOf(f.id) = 6
      /\ Kind(f.id) = "extension" <=> PartOf(f.id) = 7
  <2>1. (Kind(f.id) = "transform" <=> f.id = 5) /\ (Kind(f.id) = "extension" <=> f.id >= 128)
    BY <1>0, KindIs
  <2> QED BY <1>0, <2>1 DEF PartOf, InGap, Optional
<1>6. 1..4 \subseteq Singles /\ 6..8 \subseteq Singles /\ Optional \subseteq Singles
  BY DEF Singles, Required, Optional
<1>7. /\ Slots(d, 1..4) = IF f.id \in 1..4 THEN Append(Slots(e, 1..4), f) ELSE Slots(e, 1..4)
      /\ Slots(d, 6..8) = IF f.id \in 6..8 THEN Append(Slots(e, 6..8), f) ELSE Slots(e, 6..8)
      /\ Slots(d, Optional) = IF f.id \in Optional THEN Append(Slots(e, Optional), f) ELSE Slots(e, Optional)
  BY <1>2, <1>6
<1>8. ASSUME NEW x
      PROVE  /\ Parts(x)[1] = Slots(x, 1..4) /\ Parts(x)[2] = x.transforms
             /\ Parts(x)[3] = Slots(x, 6..8) /\ Parts(x)[4] = Preserved(x, 0..15)
             /\ Parts(x)[5] = Slots(x, Optional) /\ Parts(x)[6] = Preserved(x, FieldIds \ (0..19))
             /\ Parts(x)[7] = x.extensions
  BY DEF Parts
<1>9. CASE k = 1
  BY <1>5, <1>7, <1>8, <1>9
<1>10. CASE k = 2
  BY <1>1, <1>5, <1>8, <1>10
<1>11. CASE k = 3
  BY <1>5, <1>7, <1>8, <1>11
<1>12. CASE k = 4
  <2>1. Parts(d)[4] = IF PartOf(f.id) = 4 THEN Append(Parts(e)[4], f) ELSE Parts(e)[4]
    <3>1. PICK ids : ids = 0..15
      OBVIOUS
    <3>2. Preserved(d, ids) = IF InGap(f.id) /\ f.id \in ids THEN Append(Preserved(e, ids), f)
                                                              ELSE Preserved(e, ids)
      BY <1>3
    <3>3. InGap(f.id) /\ f.id \in ids <=> PartOf(f.id) = 4
      BY <1>5, <3>1
    <3>4. Parts(d)[4] = Preserved(d, ids) /\ Parts(e)[4] = Preserved(e, ids)
      BY <1>8, <3>1
    <3> QED BY <3>2, <3>3, <3>4
  <2> QED BY <1>12, <2>1
<1>13. CASE k = 5
  BY <1>5, <1>7, <1>8, <1>13
<1>14. CASE k = 6
  <2>1. Parts(d)[6] = IF PartOf(f.id) = 6 THEN Append(Parts(e)[6], f) ELSE Parts(e)[6]
    <3>1. PICK ids : ids = FieldIds \ (0..19)
      OBVIOUS
    <3>2. Preserved(d, ids) = IF InGap(f.id) /\ f.id \in ids THEN Append(Preserved(e, ids), f)
                                                              ELSE Preserved(e, ids)
      BY <1>3
    <3>3. InGap(f.id) /\ f.id \in ids <=> PartOf(f.id) = 6
      BY <1>5, <3>1
    <3>4. Parts(d)[6] = Preserved(d, ids) /\ Parts(e)[6] = Preserved(e, ids)
      BY <1>8, <3>1
    <3> QED BY <3>2, <3>3, <3>4
  <2> QED BY <1>14, <2>1
<1>15. CASE k = 7
  BY <1>1, <1>5, <1>8, <1>15
<1> QED BY <1>4, <1>9, <1>10, <1>11, <1>12, <1>13, <1>14, <1>15

\* Every identifier has a part.
LEMMA PartOfIs ==
  ASSUME NEW id \in Nat
  PROVE  PartOf(id) \in Nat /\ 1 <= PartOf(id) /\ PartOf(id) <= 7
BY DEF PartOf

\* One more field of the wire is one more field of what encode would write.
LEMMA WithEncodes ==
  ASSUME NEW e, Shape(e), NEW f \in WireFields, NEW last \in Nat, Upto(e, last), Fits(e, f, last),
         NEW d, d = With(e, f)
  PROVE  EncodeEnvelope(d) = Append(EncodeEnvelope(e), f)
<1>1. f \in Fields /\ f.id \in Nat /\ last <= f.id
  BY FieldIs DEF Fits
<1>2. Shape(d) /\ Upto(d, f.id)
  BY WithShape
<1>3. PICK j : j = PartOf(f.id)
  OBVIOUS
<1>4. j \in Nat /\ 1 <= j /\ j <= 7
  BY <1>1, <1>3, PartOfIs
<1>5. ASSUME NEW k \in 1..7 PROVE Grown(k, j, Fields, f, Parts(e)[k], Parts(d)[k])
  <2>1. Parts(e)[k] \in Seq(Fields) /\ Parts(d)[k] \in Seq(Fields)
    BY <1>2, PartsSeq
  <2>2. Parts(d)[k] = IF k = j THEN Append(Parts(e)[k], f) ELSE Parts(e)[k]
    BY <1>3, WithParts
  <2>3. j < k => Parts(e)[k] = <<>> /\ Parts(d)[k] = <<>>
    <3> HAVE j < k
    <3>1. PartOf(last) < k
      BY <1>1, <1>3 DEF PartOf
    <3> QED BY <1>1, <1>2, <1>3, <3>1, PartsEmpty
  <2>4. k < j => k # j
    BY <1>4
  <2> QED BY <2>1, <2>2, <2>3, <2>4 DEF Grown
<1>6. Seven(Parts(d)) = Append(Seven(Parts(e)), f)
  BY <1>1, <1>4, <1>5, JoinAt
<1> QED BY <1>6, EncodeIs

-----------------------------------------------------------------------------
(* The two decoders.                                                       *)

\* What has been read is what would be written.
ReadsWhatItWrites ==
  envelope.pc # "refused" =>
    /\ Shape(envelope) /\ wire \in Seq(Fields)
    /\ Upto(envelope, IF wire = <<>> THEN 0 ELSE wire[Len(wire)].id)
    /\ EncodeEnvelope(envelope) = wire

\* Packets in packets, all distinct, each one in the one before.
Links(chain) ==
  /\ \A i, j \in DOMAIN chain : chain[i].id = chain[j].id => i = j
  /\ \A i \in 2..Len(chain) : chain[i].parent = chain[i - 1].id

\* The packet in hand is of the last one of the chain, the chain is one short of
\* the depth until it ends.
Nested ==
  /\ nest.depth \in Nat /\ nest.aggregate \in Nat
  /\ nest.depth <= MAX_NESTING_DEPTH /\ nest.aggregate <= MAX_AGGREGATE_NESTED
  /\ \E R : nest.chain \in Seq(R)
  /\ DOMAIN nest = {"pc", "chain", "current", "depth", "aggregate"}
  /\ nest.pc = "idle" => nest.depth = 0 /\ nest.aggregate = 0
  /\ nest.pc = "level" =>
       /\ Len(nest.chain) + 1 = nest.depth
       /\ Links(nest.chain)
       /\ nest.chain # <<>> => nest.current.parent = nest.chain[Len(nest.chain)].id
  /\ nest.pc = "returned" => Len(nest.chain) = nest.depth /\ Links(nest.chain)

\* What holds of both decoders.
DecoderInv == ReadsWhatItWrites /\ Nested

\* Before the first field there is nothing to write.
LEMMA EmptyIs ==
  ASSUME NEW e, e = Empty("reading")
  PROVE  Shape(e) /\ Upto(e, 0) /\ EncodeEnvelope(e) = <<>> /\ e.pc = "reading"
<1>1. /\ DOMAIN e = {"pc", "single", "transforms", "unknown", "extensions"} /\ e.pc = "reading"
      /\ e.single = [id \in Singles |-> "none"] /\ e.transforms = <<>> /\ e.unknown = <<>>
      /\ e.extensions = <<>>
  BY DEF Empty
<1>2. Shape(e)
  <2>1. <<>> \in Seq(Fields) /\ DOMAIN <<>> = {}
    OBVIOUS
  <2> QED BY <1>1, <2>1 DEF Shape
<1>3. Upto(e, 0)
  <2>1. DOMAIN <<>> = {}
    OBVIOUS
  <2> QED BY <1>1, <2>1 DEF Upto
<1>4. ASSUME NEW ids, ids \subseteq Singles PROVE Slots(e, ids) = <<>>
  <2>1. \A id \in ids : e.single[id] = "none"
    BY <1>1, <1>4
  <2> QED BY <2>1, SlotsNone
<1>5. ASSUME NEW ids PROVE Preserved(e, ids) = <<>>
  <2>1. DOMAIN <<>> = {} /\ <<>> \in Seq(Fields)
    OBVIOUS
  <2>2. DOMAIN e.unknown = {} /\ e.unknown \in Seq(Fields)
    BY <1>1, <2>1
  <2> QED BY <2>2, PreservedNone
<1>6. 1..4 \subseteq Singles /\ 6..8 \subseteq Singles /\ Optional \subseteq Singles
  BY DEF Singles, Required, Optional
<1>7. <<>> \o <<>> = <<>>
  OBVIOUS
<1>8. EncodeEnvelope(e) = <<>>
  BY <1>1, <1>4, <1>5, <1>6, <1>7 DEF EncodeEnvelope
<1> QED BY <1>1, <1>2, <1>3, <1>8

\* The decoders begin so.
LEMMA DecoderInitInv == EnvelopeInit => DecoderInv
<1> SUFFICES ASSUME EnvelopeInit PROVE DecoderInv
  OBVIOUS
<1>1. envelope = Empty("reading") /\ wire = <<>> /\ nest = Closed
  BY DEF EnvelopeInit
<1>2. ReadsWhatItWrites
  <2>1. <<>> \in Seq(Fields)
    OBVIOUS
  <2> QED BY <1>1, <2>1, EmptyIs DEF ReadsWhatItWrites
<1>3. Nested
  <2>1. <<>> \in Seq({})
    OBVIOUS
  <2> QED BY <1>1, <2>1, EnvelopeAssumption DEF Nested, Closed
<1> QED BY <1>2, <1>3 DEF DecoderInv

\* A refused envelope is of no concern.
LEMMA RefuseInv == Refuse => ReadsWhatItWrites'
<1>1. Refuse => envelope'.pc = "refused"
  BY DEF Refuse, Empty
<1> QED BY <1>1 DEF ReadsWhatItWrites

\* A field that is neither bad in its header nor in its value fits.
LEMMA TakeFieldInv == ReadsWhatItWrites /\ TakeField => ReadsWhatItWrites'
<1> SUFFICES ASSUME ReadsWhatItWrites, TakeField PROVE ReadsWhatItWrites'
  OBVIOUS
<1>1. PICK f \in WireFields :
        IF BadHeader(f) \/ BadField(f) THEN Refuse
        ELSE envelope' = With(envelope, f) /\ wire' = Append(wire, f)
  BY DEF TakeField
<1>2. CASE BadHeader(f) \/ BadField(f)
  BY <1>1, <1>2, RefuseInv
<1>3. CASE ~ (BadHeader(f) \/ BadField(f))
  <2>1. PICK last : last = IF wire = <<>> THEN 0 ELSE wire[Len(wire)].id
    OBVIOUS
  <2>2. envelope.pc = "reading"
    BY DEF TakeField
  <2>3. /\ Shape(envelope) /\ wire \in Seq(Fields) /\ Upto(envelope, last)
        /\ EncodeEnvelope(envelope) = wire
    BY <2>1, <2>2 DEF ReadsWhatItWrites
  <2>4. f \in Fields /\ f.id \in Nat
    BY FieldIs
  <2>5. last \in Nat
    <3>1. CASE wire = <<>>
      BY <2>1, <3>1
    <3>2. CASE wire # <<>>
      <4>1. wire[Len(wire)] \in Fields
        BY <2>3, <3>2, LenProperties
      <4> QED BY <2>1, <3>2, <4>1 DEF Fields
    <3> QED BY <3>1, <3>2
  <2>6. Fits(envelope, f, last)
    <3>1. f.id # 0 /\ (wire # <<>> => ~ f.id < wire[Len(wire)].id)
      BY <1>3 DEF BadHeader
    <3>2. last <= f.id
      BY <2>1, <2>4, <2>5, <3>1
    <3>3. /\ f.id \in Required => f.critical
          /\ f.id \in Optional => ~ f.critical
      BY <1>3 DEF BadHeader
    <3>4. f.id \in Singles => envelope.single[f.id] = "none"
      BY <1>3 DEF BadField
    <3> QED BY <3>1, <3>2, <3>3, <3>4 DEF Fits
  <2>7. envelope' = With(envelope, f) /\ wire' = Append(wire, f)
    BY <1>1, <1>3
  <2>8. Shape(envelope') /\ Upto(envelope', f.id)
    BY <2>3, <2>5, <2>6, <2>7, WithShape
  <2>9. EncodeEnvelope(envelope') = Append(EncodeEnvelope(envelope), f)
    BY <2>3, <2>5, <2>6, <2>7, WithEncodes
  <2>10. wire' \in Seq(Fields) /\ wire' # <<>> /\ wire'[Len(wire')] = f
    BY <2>3, <2>4, <2>7, AppendProperties
  <2> QED BY <2>3, <2>7, <2>8, <2>9, <2>10 DEF ReadsWhatItWrites
<1> QED BY <1>2, <1>3

\* What is read does not depend on how far the decoder is.
LEMMA PcOnly ==
  ASSUME NEW e, Shape(e), NEW d, NEW pc, d = [e EXCEPT !.pc = pc]
  PROVE  /\ Shape(d) /\ EncodeEnvelope(d) = EncodeEnvelope(e)
         /\ \A last : Upto(e, last) => Upto(d, last)
<1>1. DOMAIN e = {"pc", "single", "transforms", "unknown", "extensions"}
  BY DEF Shape
<1>2. /\ DOMAIN d = DOMAIN e /\ d.single = e.single /\ d.transforms = e.transforms
      /\ d.unknown = e.unknown /\ d.extensions = e.extensions
  BY <1>1
<1>3. Shape(d)
  BY <1>2 DEF Shape
<1>4. EncodeEnvelope(d) = EncodeEnvelope(e)
  <2>1. ASSUME NEW ids PROVE Slots(d, ids) = Slots(e, ids)
    BY <1>2 DEF Slots
  <2>2. ASSUME NEW ids PROVE Preserved(d, ids) = Preserved(e, ids)
    BY <1>2 DEF Preserved
  <2> QED BY <1>2, <2>1, <2>2 DEF EncodeEnvelope
<1>5. \A last : Upto(e, last) => Upto(d, last)
  BY <1>2 DEF Upto
<1> QED BY <1>3, <1>4, <1>5

\* The end of the fields changes nothing that was read.
LEMMA EndOfFieldsInv == ReadsWhatItWrites /\ EndOfFields => ReadsWhatItWrites'
<1> SUFFICES ASSUME ReadsWhatItWrites, EndOfFields PROVE ReadsWhatItWrites'
  OBVIOUS
<1>1. envelope.pc = "reading"
  BY DEF EndOfFields
<1>2. CASE Refuse
  BY <1>2, RefuseInv
<1>3. CASE envelope' = [envelope EXCEPT !.pc = "accepted"] /\ wire' = wire
  BY <1>1, <1>3, PcOnly DEF ReadsWhatItWrites
<1> QED BY <1>2, <1>3 DEF EndOfFields

-----------------------------------------------------------------------------
(* Packets in packets.                                                     *)

\* A chain goes on with a packet that is not in it, in its last one.
LEMMA LinksAppend ==
  ASSUME NEW R, NEW chain \in Seq(R), Links(chain), NEW p,
         \A i \in DOMAIN chain : chain[i].id # p.id,
         chain # <<>> => p.parent = chain[Len(chain)].id
  PROVE  /\ Append(chain, p) \in Seq(R \cup {p}) /\ Links(Append(chain, p))
         /\ Len(Append(chain, p)) = Len(chain) + 1 /\ Append(chain, p)[Len(chain) + 1] = p
<1>1. PICK n \in Nat : n = Len(chain) /\ DOMAIN chain = 1..n
  BY LenProperties
<1>2. chain \in Seq(R \cup {p})
  BY SeqMonotonic
<1>3. PICK c : c = Append(chain, p)
  OBVIOUS
<1>4. c \in Seq(R \cup {p}) /\ Len(c) = n + 1 /\ c[n + 1] = p /\ \A i \in 1..n : c[i] = chain[i]
  BY <1>1, <1>2, <1>3, AppendProperties
<1>5. DOMAIN c = 1..(n + 1)
  BY <1>4, LenProperties
<1>6. \A i \in 1..(n + 1) : i = n + 1 \/ i \in 1..n
  OBVIOUS
<1>7. ASSUME NEW i \in 1..(n + 1), NEW j \in 1..(n + 1), c[i].id = c[j].id PROVE i = j
  <2>1. CASE i \in 1..n /\ j \in 1..n
    <3>1. chain[i].id = chain[j].id
      BY <1>4, <1>7, <2>1
    <3> QED BY <1>1, <2>1, <3>1 DEF Links
  <2>2. CASE i = n + 1 /\ j \in 1..n
    <3>1. chain[j].id = p.id
      BY <1>4, <1>7, <2>2
    <3> QED BY <1>1, <2>2, <3>1
  <2>3. CASE i \in 1..n /\ j = n + 1
    <3>1. chain[i].id = p.id
      BY <1>4, <1>7, <2>3
    <3> QED BY <1>1, <2>3, <3>1
  <2> QED BY <1>6, <2>1, <2>2, <2>3
<1>8. ASSUME NEW i \in 2..(n + 1) PROVE c[i].parent = c[i - 1].id
  <2>1. CASE i \in 2..n
    <3>1. i \in 1..n /\ i - 1 \in 1..n
      BY <2>1
    <3>2. chain[i].parent = chain[i - 1].id
      BY <1>1, <2>1 DEF Links
    <3> QED BY <1>4, <3>1, <3>2
  <2>2. CASE i = n + 1
    <3>1. n \in 1..n /\ i - 1 = n
      BY <2>2
    <3>2. chain # <<>>
      BY <1>1, <3>1
    <3> QED BY <1>1, <1>4, <2>2, <3>1, <3>2
  <2>3. i \in 2..n \/ i = n + 1
    OBVIOUS
  <2> QED BY <2>1, <2>2, <2>3
<1>9. Links(c)
  BY <1>4, <1>5, <1>7, <1>8 DEF Links
<1> QED BY <1>1, <1>3, <1>4, <1>9

\* A packet whose limits are checked is opened.
LEMMA OpenPacketInv ==
  ASSUME Nested, NEW p \in Nestable, NEW chain, NEW R, chain \in Seq(R),
         OpenPacket(p, chain), NestingFits(nest.depth + 1, nest.aggregate + p.len),
         Len(chain) = nest.depth, Links(chain), chain # <<>> => p.parent = chain[Len(chain)].id
  PROVE  Nested'
<1>1. p.len \in Nat
  BY EnvelopeAssumption DEF Nestable
<1>2. nest' = [pc |-> "level", chain |-> chain, current |-> [id |-> p.id, parent |-> p.parent],
               depth |-> nest.depth + 1, aggregate |-> nest.aggregate + p.len]
  BY DEF OpenPacket
<1>3. /\ nest.depth + 1 \in Nat /\ nest.aggregate + p.len \in Nat
      /\ nest.depth + 1 <= MAX_NESTING_DEPTH /\ nest.aggregate + p.len <= MAX_AGGREGATE_NESTED
  BY <1>1 DEF Nested, NestingFits
<1>4. /\ DOMAIN nest' = {"pc", "chain", "current", "depth", "aggregate"}
      /\ nest'.pc = "level" /\ nest'.chain = chain /\ nest'.current.parent = p.parent
      /\ nest'.depth = nest.depth + 1 /\ nest'.aggregate = nest.aggregate + p.len
  BY <1>2
<1> QED BY <1>3, <1>4 DEF Nested

\* Or the decoder stops, and returns a chain as long as the depth.
LEMMA StopInv ==
  ASSUME Nested, NEW pc \in {"refused", "returned"}, NEW chain, NEW R, chain \in Seq(R),
         nest' = [nest EXCEPT !.pc = pc, !.chain = chain],
         pc = "returned" => Len(chain) = nest.depth /\ Links(chain)
  PROVE  Nested'
<1>1. DOMAIN nest = {"pc", "chain", "current", "depth", "aggregate"}
  BY DEF Nested
<1>2. /\ DOMAIN nest' = DOMAIN nest /\ nest'.pc = pc /\ nest'.chain = chain
      /\ nest'.depth = nest.depth /\ nest'.aggregate = nest.aggregate
  BY <1>1
<1> QED BY <1>2 DEF Nested

\* Or it refuses.
LEMMA NestToRefused == Nested /\ NestTo("refused") => Nested'
<1> SUFFICES ASSUME Nested, NestTo("refused") PROVE Nested'
  OBVIOUS
<1>1. DOMAIN nest = {"pc", "chain", "current", "depth", "aggregate"}
  BY DEF Nested
<1>2. /\ DOMAIN nest' = DOMAIN nest /\ nest'.pc = "refused" /\ nest'.chain = nest.chain
      /\ nest'.depth = nest.depth /\ nest'.aggregate = nest.aggregate
  BY <1>1 DEF NestTo
<1> QED BY <1>2 DEF Nested

\* The outermost packet is opened within the limits or refused.
LEMMA OpenRootInv == Nested /\ OpenRoot => Nested'
<1> SUFFICES ASSUME Nested, OpenRoot PROVE Nested'
  OBVIOUS
<1>1. PICK p \in Nestable :
        IF NestingFits(1, p.len) /\ p.framed /\ p.sound THEN OpenPacket(p, <<>>) ELSE NestTo("refused")
  BY DEF OpenRoot
<1>2. CASE NestTo("refused")
  BY <1>2, NestToRefused
<1>3. CASE NestingFits(1, p.len) /\ OpenPacket(p, <<>>)
  <2>1. nest.depth = 0 /\ nest.aggregate = 0
    BY DEF OpenRoot, Nested
  <2>2. p.len \in Nat
    BY EnvelopeAssumption DEF Nestable
  <2>3. NestingFits(nest.depth + 1, nest.aggregate + p.len)
    BY <1>3, <2>1, <2>2
  <2>4. <<>> \in Seq({}) /\ Len(<<>>) = nest.depth /\ Links(<<>>)
    BY <2>1 DEF Links
  <2> QED BY <1>3, <2>3, <2>4, OpenPacketInv
<1> QED BY <1>1, <1>2, <1>3

\* So is the next one, unless the chain ends or has it.
LEMMA DescendInv == Nested /\ Descend => Nested'
<1> SUFFICES ASSUME Nested, Descend PROVE Nested'
  OBVIOUS
<1>1. PICK chain : chain = Append(nest.chain, nest.current)
  OBVIOUS
<1>2. nest.pc = "level"
  BY DEF Descend
<1>3. CASE SeenBefore(nest.current.id)
  <2>1. NestTo("refused")
    BY <1>3 DEF Descend
  <2> QED BY <2>1, NestToRefused
<1>4. CASE ~ SeenBefore(nest.current.id)
  <2>1. PICK R : nest.chain \in Seq(R)
    BY DEF Nested
  <2>2. /\ Len(nest.chain) + 1 = nest.depth /\ Links(nest.chain)
        /\ nest.chain # <<>> => nest.current.parent = nest.chain[Len(nest.chain)].id
        /\ nest.depth \in Nat
    BY <1>2 DEF Nested
  <2>3. \A i \in DOMAIN nest.chain : nest.chain[i].id # nest.current.id
    BY <1>4 DEF SeenBefore
  <2>4. PICK c \in Seq(R) : c = nest.chain
    BY <2>1
  <2>5. PICK p : p = nest.current
    OBVIOUS
  <2>6. /\ Links(c) /\ \A i \in DOMAIN c : c[i].id # p.id
        /\ c # <<>> => p.parent = c[Len(c)].id
    BY <2>2, <2>3, <2>4, <2>5
  <2>7. /\ Append(c, p) \in Seq(R \cup {p}) /\ Links(Append(c, p))
        /\ Len(Append(c, p)) = Len(c) + 1 /\ Append(c, p)[Len(c) + 1] = p
    BY <2>6, LinksAppend
  <2>8. /\ Links(chain) /\ Len(chain) = nest.depth /\ chain[Len(chain)] = nest.current
        /\ chain \in Seq(R \cup {p})
    BY <1>1, <2>2, <2>4, <2>5, <2>7
  <2>10. ASSUME NEW pc \in {"refused", "returned"}, nest' = [nest EXCEPT !.pc = pc, !.chain = chain]
         PROVE  Nested'
    BY <2>8, <2>10, StopInv
  <2>11. ASSUME NEW q \in Nestable, q.parent = nest.current.id,
                NestingFits(nest.depth + 1, nest.aggregate + q.len), OpenPacket(q, chain)
         PROVE  Nested'
    BY <2>8, <2>11, OpenPacketInv
  <2>12. \/ nest' = [nest EXCEPT !.pc = "refused", !.chain = chain]
         \/ nest' = [nest EXCEPT !.pc = "returned", !.chain = chain]
         \/ \E q \in Nestable :
              /\ q.parent = nest.current.id
              /\ NestingFits(nest.depth + 1, nest.aggregate + q.len)
              /\ OpenPacket(q, chain)
    BY <1>1, <1>4 DEF Descend
  <2> QED BY <2>10, <2>11, <2>12
<1> QED BY <1>3, <1>4

\* Every step of either decoder keeps the invariant.
LEMMA DecoderStepInv == DecoderInv /\ [EnvelopeNext]_decoderVars => DecoderInv'
<1> SUFFICES ASSUME DecoderInv, [EnvelopeNext]_decoderVars PROVE DecoderInv'
  OBVIOUS
<1>1. ReadsWhatItWrites /\ Nested
  BY DEF DecoderInv
<1>2. ASSUME UNCHANGED envelopeVars PROVE ReadsWhatItWrites'
  BY <1>1, <1>2 DEF ReadsWhatItWrites, envelopeVars
<1>3. ASSUME UNCHANGED nest PROVE Nested'
  BY <1>1, <1>3 DEF Nested
<1>4. CASE UNCHANGED decoderVars
  BY <1>2, <1>3, <1>4 DEF decoderVars, DecoderInv
<1>5. CASE TakeField
  <2>1. UNCHANGED nest
    BY <1>5 DEF TakeField
  <2> QED BY <1>1, <1>3, <1>5, <2>1, TakeFieldInv DEF DecoderInv
<1>6. CASE EndOfFields
  <2>1. UNCHANGED nest
    BY <1>6 DEF EndOfFields
  <2> QED BY <1>1, <1>3, <1>6, <2>1, EndOfFieldsInv DEF DecoderInv
<1>7. CASE OpenRoot
  <2>1. UNCHANGED envelopeVars
    BY <1>7 DEF OpenRoot
  <2> QED BY <1>1, <1>2, <1>7, <2>1, OpenRootInv DEF DecoderInv
<1>8. CASE Descend
  <2>1. UNCHANGED envelopeVars
    BY <1>8 DEF Descend
  <2> QED BY <1>1, <1>2, <1>8, <2>1, DescendInv DEF DecoderInv
<1> QED BY <1>4, <1>5, <1>6, <1>7, <1>8 DEF EnvelopeNext

\* The invariant is as strong as what the run checks.
LEMMA InvIsExact == DecoderInv => DecodersAreExact
<1>1. DecoderInv => DecodedReencodes
  BY DEF DecoderInv, ReadsWhatItWrites, DecodedReencodes
<1>2. DecoderInv => NestingIsBounded
  BY DEF DecoderInv, Nested, Links, NestingIsBounded
<1> QED BY <1>1, <1>2 DEF DecodersAreExact

\* What the envelope decoder has read is what encode would write, and the packets
\* in packets are a chain within the limits (PacketEnvelope::decode, decode_body).
THEOREM DecoderCorrect == EnvelopeSpec => []DecoderInv
<1>1. EnvelopeInit => DecoderInv
  BY DecoderInitInv
<1>2. DecoderInv /\ [EnvelopeNext]_decoderVars => DecoderInv'
  BY DecoderStepInv
<1> QED BY <1>1, <1>2, PTL DEF EnvelopeSpec

\* An envelope is accepted only from the fields it encodes to, and the packets in
\* packets are no more, no larger and no other than the limits allow, for any
\* identifiers, lengths and limits (PacketEnvelope::decode, decode_body).
THEOREM DecodersStayExact == EnvelopeSpec => []DecodersAreExact
BY DecoderCorrect, InvIsExact, PTL

=============================================================================
