------------------------------ MODULE LegacyCli ------------------------------
(***************************************************************************)
(* The commands encode, verify, keygen and derive (cmd_encode.rs,          *)
(* cmd_verify.rs), several of them at a time over one directory.  Encode   *)
(* signs the carrier without the positions its kernel writes to, embeds    *)
(* the signature in one file or in a group of shard files, and reads back  *)
(* what it has published; verify reads the files, finds the signature and  *)
(* judges it.  Between any two steps other commands run, the process may   *)
(* die, and the user damages, swaps and adds files.                        *)
(*                                                                         *)
(* A carrier is the image (or sound) that is left when the kernel's        *)
(* positions are cleared, and what the kernel finds there.  The transformed*)
(* payload of command c is the atom Payload(c); cryptography is ideal.     *)
(***************************************************************************)
EXTENDS MultiFrame

CONSTANTS
  Encoders, Verifiers,  \* the processes that encode or make keys, and that verify
  Bases, Images,
  Sounds,       \* the Images that are sound
  Signers,
  Compromised,  \* the Signers on the built-in revocation list
  Strengths,    \* BOUND: the LSB strengths --bits auto tries; 1..4 in the code
  EncodeRequests, VerifyRequests,  \* BOUND: what the commands may be asked
  KeyRequests,
  MaxShards,    \* BOUND: the shards of a group; 8 in the code
  MaxTouches    \* BOUND: what the user does to the files and the revocation list

ASSUME CliAssumption ==
  "altered" \notin Images /\ Strengths \subseteq 1..4 /\ MaxShards \in 1..8 /\ Encoders \cap Verifiers = {}

\* A key is a name and encode has one; a strength outside 1..4 is refused before
\* anything is done; encode makes a key for the kernels that place by one when it
\* is given none.
ASSUME RequestsAssumption ==
  /\ \A r \in EncodeRequests :
       /\ r.cmd = "encode" /\ r.base \in Bases /\ r.bits \in Strengths /\ r.signer # "none"
       /\ r.kernel \in {"lsb_audio", "spread_spectrum_video"} => r.place # "none"
  /\ \A r \in KeyRequests : r.cmd \in {"keygen", "derive"} /\ r.base \in Bases
  /\ \A r \in VerifyRequests : r.cmd = "verify" /\ r.base \in Bases /\ r.bits \in 0..4

Commands == Encoders \cup Verifiers

VARIABLES files, touched, touches, revoked, cmds
cliVars == <<files, touched, touches, revoked, cmds>>

\* RS corrects half as many bytes as the parity it adds; one in the model.
Correctable == 1

\* File 0 of a base is `output`, 1..8 are `output_001`.. `output_008`, 11..14 the
\* private, public, encryption and embedding key files.
Parts(r) ==
  CASE r.cmd = "encode" -> IF r.spread = 1 THEN <<0>> ELSE [i \in 1..r.spread |-> i]
    [] r.cmd = "verify" -> IF r.spread = 1 THEN <<0>> ELSE [i \in 1..r.spread |-> i]
    [] r.cmd = "keygen" -> <<11, 12>>
    [] r.cmd = "derive" -> <<11, 12, 13, 14>>

FileNames == Bases \X ({0} \cup 1..MaxShards \cup 11..14)
Absent == [is |-> "absent"]
Carrier(image, kernel, place, bits) ==
  [is |-> "carrier", image |-> image, kernel |-> kernel, place |-> place, bits |-> bits,
   data |-> {}, len |-> 0, errs |-> 0, front |-> TRUE, by |-> "user"]

Idle == [pc |-> "idle", req |-> [cmd |-> "none"], part |-> 0, reads |-> <<>>, revoked |-> {},
         saw |-> {}, status |-> "none"]

CliInit ==
  /\ files = [n \in FileNames |-> Absent]
  /\ touched = {} /\ touches = 0
  /\ revoked = Compromised
  /\ cmds = [c \in Commands |-> Idle]

Step(c, s) == cmds' = [cmds EXCEPT ![c] = s]
Quit(c, status) ==
  Step(c, [cmds[c] EXCEPT !.pc = "done", !.status = status, !.reads = IF @ = <<>> THEN @ ELSE <<Head(@)>>])

-----------------------------------------------------------------------------
(* Encode, keygen and derive. *)

\* The options the legacy kernels refuse.
Admitted(r) ==
  /\ r.spread \in 1..MaxShards
  /\ r.spread > 1 => r.kernel = "lsb_video"
  /\ r.place # "none" => r.kernel \in {"lsb_audio", "spread_spectrum_video"}
  /\ r.bits # 1 /\ r.bits # 0 => r.kernel \in {"lsb_video", "lsb_audio"}
  /\ r.kernel = "dct_video" => r.encrypt = "none" /\ ~ r.ecc

\* Every output is looked at before the first is written.
Preflight(r) == \A i \in DOMAIN Parts(r) : files[<<r.base, Parts(r)[i]>>] = Absent

StartWriting(c) ==
  /\ cmds[c].pc = "idle"
  /\ \E r \in EncodeRequests \cup KeyRequests :
       LET may == /\ r.cmd = "encode" =>
                       /\ Admitted(r) /\ r.signer \notin Compromised
                       /\ (r.image \in Sounds) <=> (r.kernel = "lsb_audio")
                  /\ Preflight(r)
       IN Step(c, [cmds[c] EXCEPT !.req = r, !.part = 1,
                                  !.pc = IF may THEN "write" ELSE "done",
                                  !.status = IF may THEN "none" ELSE "error"])
  /\ UNCHANGED <<files, touched, touches, revoked>>

\* SignaturePayload, LEGACY_ENCRYPTION_OVERHEAD, --ecc-parity.
Length(r) == 109 + (IF r.encrypt = "none" THEN 0 ELSE 28) + (IF r.ecc THEN 4 ELSE 0)

Encoded(c, i) ==
  LET r == cmds[c].req
      len == Length(r)
  IN [Carrier(r.image, r.kernel, r.place, r.bits) EXCEPT
        !.data = IF r.spread = 1 THEN {Payload(c)} ELSE Split(c, r.spread, len)[i].data,
        !.len = len, !.by = c]

Output(c, i) == IF cmds[c].req.cmd = "encode" THEN Encoded(c, i) ELSE [is |-> "key", by |-> c]

NextPart(c) ==
  IF cmds[c].part < Len(Parts(cmds[c].req)) THEN Step(c, [cmds[c] EXCEPT !.part = @ + 1])
  ELSE IF cmds[c].req.cmd = "encode" THEN Step(c, [cmds[c] EXCEPT !.pc = "read"])
  ELSE Quit(c, "ok")

\* Mutant of WritePart: the temporary file is renamed over what is there.
WritePartForce(c) ==
  /\ cmds[c].pc = "write"
  /\ files' = [files EXCEPT ![<<cmds[c].req.base, Parts(cmds[c].req)[cmds[c].part]>>] =
                 Output(c, cmds[c].part)]
  /\ NextPart(c)
  /\ UNCHANGED <<touched, touches, revoked>>

\* write_output, atomic_write: a temporary file takes its name if that is free.
WritePart(c) ==
  /\ cmds[c].pc = "write"
  /\ LET n == <<cmds[c].req.base, Parts(cmds[c].req)[cmds[c].part]>>
     IN IF files[n] = Absent
          THEN files' = [files EXCEPT ![n] = Output(c, cmds[c].part)] /\ NextPart(c)
          ELSE Quit(c, "error") /\ UNCHANGED files
  /\ UNCHANGED <<touched, touches, revoked>>

\* A carrier without room, a full disk, the end of the process: what is already
\* published stays.
Dies(c) ==
  /\ cmds[c].pc \in {"write", "read"}
  /\ Quit(c, "error")
  /\ UNCHANGED <<files, touched, touches, revoked>>

-----------------------------------------------------------------------------
(* Extraction, and what a decoded payload is worth. *)

Nothing == [is |-> "nothing"]
Noise == [is |-> "bytes", data |-> {<<"noise">>}, len |-> 1, errs |-> 0]

\* What a kernel finds in a file: the payload where it was embedded, elsewhere
\* nothing or whatever the length prefix happens to say.
Extracts(f, r, bits) ==
  LET found == [is |-> "bytes", data |-> f.data, len |-> f.len, errs |-> f.errs] IN
  IF f.kernel = r.kernel /\ f.place = r.place /\ f.bits = bits /\ f.front
    THEN {found} \cup (IF r.kernel = "dct_video" /\ f.errs > 0 THEN {Nothing} ELSE {})
    ELSE {Nothing} \cup (IF r.kernel = "dct_video" THEN {} ELSE {Noise})

Total(errs) == LET sum[i \in 0..Len(errs)] == IF i = 0 THEN 0 ELSE sum[i - 1] + errs[i] IN sum[Len(errs)]

\* A spread group: the shards' bytes put together, or nothing if one is missing
\* or they do not fit.
Joined(fs, r, bits) ==
  LET whole == Reconstruct([i \in DOMAIN fs |->
                 [index |-> i - 1, total |-> r.spread, len |-> fs[i].len, data |-> fs[i].data]])
  IN IF \E i \in DOMAIN fs : Extracts(fs[i], r, bits) = {Nothing, Noise} THEN {Nothing, Noise}
     ELSE IF whole.failed THEN {Nothing}
     ELSE {[is |-> "bytes", data |-> whole.data, len |-> fs[1].len,
            errs |-> Total([i \in DOMAIN fs |-> fs[i].errs])]}

Undecodable == [is |-> "undecodable"]

\* Error correction, decryption and the strict parser, with the options of r.
DecodedFrom(x, r) ==
  LET owner == {c \in Commands : x.data = {Payload(c)}} IN
  IF x = Nothing THEN {Nothing}
  ELSE IF owner = {} THEN {Undecodable}
  ELSE LET c == CHOOSE d \in owner : TRUE
           q == cmds[c].req
           intact == x.errs <= IF q.ecc THEN Correctable ELSE 0
       IN IF q.ecc # r.ecc \/ q.encrypt # r.encrypt THEN {Undecodable}
          ELSE IF intact THEN {[is |-> "payload", of |-> c, intact |-> TRUE]}
          ELSE {Undecodable} \cup
               (IF q.encrypt = "none" THEN {[is |-> "payload", of |-> c, intact |-> FALSE]} ELSE {})

\* Mutant of Accepts: the strength the carrier is cleared with does not matter.
AcceptsAnyBits(p, key, f, bits) ==
  p.is = "payload" /\ p.intact /\ cmds[p.of].req.signer = key

\* Verifier::verify over canonicalize(carrier, strength).
Accepts(p, key, f, bits) ==
  /\ p.is = "payload" /\ p.intact
  /\ LET q == cmds[p.of].req IN q.signer = key /\ q.image = f.image /\ q.bits = bits

\* The candidates a command extracts and decodes, one possibility for each strength.
ShardsOf(c) == IF cmds[c].req.cmd = "encode" THEN cmds[c].reads ELSE Tail(cmds[c].reads)
Possible(c, bits) ==
  LET r == cmds[c].req
      xs == IF r.spread = 1 THEN Extracts(cmds[c].reads[1], r, bits) ELSE Joined(ShardsOf(c), r, bits)
  IN UNION {DecodedFrom(x, r) : x \in xs}

-----------------------------------------------------------------------------
(* Reading back, and verify. *)

\* Verify reads the first shard twice: for the binding, then with the group.
Reads(r) == IF r.cmd = "verify" /\ r.spread > 1 THEN <<1>> \o Parts(r) ELSE Parts(r)

StartVerify(c) ==
  /\ cmds[c].pc = "idle"
  /\ \E r \in VerifyRequests :
       Step(c, [cmds[c] EXCEPT !.req = r, !.revoked = revoked,
                               !.pc = IF Admitted(r) THEN "read" ELSE "done",
                               !.status = IF Admitted(r) THEN "none" ELSE "error",
                               !.saw = {e \in Commands : cmds[e].req.cmd = "encode" /\ cmds[e].status = "ok"}])
  /\ UNCHANGED <<files, touched, touches, revoked>>

CanRead(f, r) == f.is = "carrier" /\ ((f.image \in Sounds) <=> (r.kernel = "lsb_audio"))

ReadPart(c) ==
  LET r == cmds[c].req
      all == Reads(r)
      i == Len(cmds[c].reads) + 1
  IN /\ cmds[c].pc = "read" /\ i <= Len(all)
     /\ LET f == files[<<r.base, all[i]>>]
        IN IF CanRead(f, r) THEN Step(c, [cmds[c] EXCEPT !.reads = Append(@, f)])
                             ELSE Quit(c, "error")
     /\ UNCHANGED <<files, touched, touches, revoked>>

ReadAll(c) == cmds[c].pc = "read" /\ Len(cmds[c].reads) = Len(Reads(cmds[c].req))

\* authenticate_written_output, at the very strength of the embedding.
Authenticate(c) ==
  /\ ReadAll(c) /\ cmds[c].req.cmd = "encode"
  /\ LET r == cmds[c].req IN
     \E p \in Possible(c, r.bits) :
       Quit(c, IF Accepts(p, r.signer, cmds[c].reads[1], r.bits) THEN "ok" ELSE "error")
  /\ UNCHANGED <<files, touched, touches, revoked>>

AutoBits(r) == r.bits = 0 /\ r.kernel \in {"lsb_video", "lsb_audio"}
Tried(r) == IF AutoBits(r) THEN Strengths ELSE IF r.bits = 0 THEN {1} ELSE {r.bits}
Least(S) == CHOOSE b \in S : \A a \in S : b <= a

\* finish_verification.
Judged(c, p, bits) ==
  LET r == cmds[c].req IN
  IF p.is # "payload" THEN "error"
  ELSE IF r.key = "none" THEN "not_verified"
  ELSE IF ~ Accepts(p, r.key, cmds[c].reads[1], bits) THEN "invalid"
  ELSE IF r.key \in cmds[c].revoked THEN "valid_revoked" ELSE "valid"

\* Mutant of Chosen: the first strength that yields bytes is taken.
ChosenFirst(c, d) ==
  LET found == {b \in DOMAIN d : d[b] # Nothing}
  IN IF found = {} THEN "no_signature" ELSE Judged(c, d[Least(found)], Least(found))

\* extract_payload, select_candidate, verify_multi_frame: the candidate that
\* verifies (or, without a key, that decodes) wins.
Chosen(c, d) ==
  LET r == cmds[c].req
      found == {b \in DOMAIN d : d[b] # Nothing}
      verified == {b \in found : Judged(c, d[b], b) \in {"not_verified", "valid", "valid_revoked"}}
  IN IF verified # {} THEN Judged(c, d[Least(verified)], Least(verified))
     ELSE IF found = {} THEN IF r.spread > 1 THEN "error" ELSE "no_signature"
     ELSE IF AutoBits(r) /\ r.spread = 1 THEN "error"
     ELSE Judged(c, d[Least(found)], Least(found))

NeedsPlace(r) == r.kernel \in {"lsb_audio", "spread_spectrum_video"} /\ r.place = "none"

FinishVerify(c) ==
  /\ ReadAll(c) /\ cmds[c].req.cmd = "verify"
  /\ LET r == cmds[c].req IN
     IF NeedsPlace(r) THEN Quit(c, "error")
     ELSE \E d \in [Tried(r) -> UNION {Possible(c, b) : b \in Tried(r)}] :
            /\ \A b \in Tried(r) : d[b] \in Possible(c, b)
            /\ Quit(c, Chosen(c, d))
  /\ UNCHANGED <<files, touched, touches, revoked>>

\* main: the exit code of verify.
ExitCode(status) ==
  CASE status \in {"invalid", "valid_revoked"} -> 3
    [] status = "no_signature" -> 2
    [] status \in {"valid", "not_verified"} -> 0
    [] OTHER -> 6

-----------------------------------------------------------------------------
(* The user. *)

Touch(n) == touched' = touched \cup {n} /\ touches' = touches + 1

\* A few payload bytes change: still what the command wrote, as far as the error
\* correction goes.
DamagePayload(n) ==
  /\ files[n].is = "carrier" /\ touches < MaxTouches
  /\ files' = [files EXCEPT ![n].errs = @ + 1]
  /\ touches' = touches + 1
  /\ UNCHANGED <<touched, revoked, cmds>>

\* The length prefix, which no error correction covers, or signed pixels.
DamageCarrier(n) ==
  /\ files[n].is = "carrier" /\ touches < MaxTouches
  /\ \/ files' = [files EXCEPT ![n].front = FALSE]
     \/ files' = [files EXCEPT ![n].image = "altered"]
  /\ Touch(n)
  /\ UNCHANGED <<revoked, cmds>>

\* A file copied over another, or an ordinary image put where there was none.
CopyOver(n) ==
  /\ touches < MaxTouches /\ n[2] < 10
  /\ \E f \in {files[m] : m \in FileNames \ {n}} \cup {Carrier(i, "none", "none", 1) : i \in Images} :
       f.is = "carrier" /\ files' = [files EXCEPT ![n] = f]
  /\ Touch(n)
  /\ UNCHANGED <<revoked, cmds>>

\* revoke adds a key to the list.
Revoke(s) ==
  /\ s \notin revoked /\ touches < MaxTouches
  /\ revoked' = revoked \cup {s}
  /\ touches' = touches + 1
  /\ UNCHANGED <<files, touched, cmds>>

CliNext ==
  \/ \E c \in Encoders : StartWriting(c) \/ WritePart(c) \/ ReadPart(c) \/ Authenticate(c) \/ Dies(c)
  \/ \E c \in Verifiers : StartVerify(c) \/ ReadPart(c) \/ FinishVerify(c)
  \/ \E n \in FileNames : DamagePayload(n) \/ DamageCarrier(n) \/ CopyOver(n)
  \/ \E s \in Signers : Revoke(s)

CliSpec == CliInit /\ [][CliNext]_cliVars

-----------------------------------------------------------------------------
(* Properties. *)

Verified(c) == cmds[c].req.cmd = "verify" /\ cmds[c].pc = "done"

\* Verify exits with 0 for a key only when a command signed, with that key, the
\* carrier that verify read, at a strength it tried, and the key was not on the
\* list it loaded; whatever was damaged or swapped between its reads
\* (run_with_key, verify_multi_frame and the exit codes in main).
ValidIsSigned ==
  \A v \in Commands :
    Verified(v) /\ cmds[v].req.key # "none" /\ ExitCode(cmds[v].status) = 0 =>
      /\ cmds[v].req.key \notin cmds[v].revoked
      /\ \E c \in Encoders :
           LET q == cmds[c].req IN
           /\ q.cmd = "encode" /\ q.signer = cmds[v].req.key
           /\ q.image = cmds[v].reads[1].image /\ q.bits \in Tried(cmds[v].req)

Own(c) == {<<cmds[c].req.base, Parts(cmds[c].req)[i]>> : i \in DOMAIN Parts(cmds[c].req)}
Matches(r, q) ==
  /\ r.base = q.base /\ r.kernel = q.kernel /\ r.place = q.place /\ r.spread = q.spread
  /\ r.ecc = q.ecc /\ r.encrypt = q.encrypt /\ r.bits \in {0, q.bits}
Errors(c) == Total([i \in DOMAIN Parts(cmds[c].req) |->
                      files[<<cmds[c].req.base, Parts(cmds[c].req)[i]>>].errs])

\* What encode has reported verifies with the signer's key and the same options,
\* --bits auto included, as long as its files are its own and have no more errors
\* than the error correction asked for corrects.
EncodedVerifies ==
  \A v \in Commands : Verified(v) =>
    \A c \in cmds[v].saw :
      LET q == cmds[c].req IN
      /\ Matches(cmds[v].req, q) /\ cmds[v].req.key = q.signer
      /\ Own(c) \cap touched = {}
      /\ Errors(c) <= IF q.ecc THEN Correctable ELSE 0
      => cmds[v].status \in {"valid", "valid_revoked"}

\* The shards of a group, and the files of a key set, are all of one command:
\* two commands with one output never mix, even when one dies on its way; and
\* what a command reports is there, all of it, and its own (encode_multi_frame,
\* keygen, write_derived_keys over preflight_output and publish_output).
OneCommandPerGroup ==
  /\ \A n, m \in FileNames \ touched :
       /\ n[1] = m[1] /\ n[2] # 0 /\ m[2] # 0 /\ (n[2] > 10 <=> m[2] > 10)
       /\ files[n] # Absent /\ files[m] # Absent
       => files[n].by = files[m].by
  /\ \A c \in Commands :
       cmds[c].status = "ok" => \A n \in Own(c) \ touched : files[n] # Absent /\ files[n].by = c

\* A verdict is right either way: no key is confirmed that did not sign, and
\* nothing signed is refused (run_with_key in encode and in verify).
VerdictIsRight == ValidIsSigned /\ EncodedVerifies

\* What encode leaves under a group of names is of one command, verify's verdict
\* on it is right either way, and shards in any order, repeated or mixed, give
\* the whole payload or nothing (cmd_encode, cmd_verify, FrameCollector).
GroupsAreRight == VerdictIsRight /\ OneCommandPerGroup /\ RecoversExactly

=============================================================================
