------------------------------ MODULE OtsService ------------------------------
(***************************************************************************)
(* OpenTimestamps in the dashboard (/ots/stamp, /ots/verify, /ots/status)  *)
(* and in the command line (ots stamp, ots verify), over one proof         *)
(* directory.  A call waits for a calendar, a Bitcoin explorer and the     *)
(* disk, each of which may fail or answer after another call; a client may *)
(* leave, and the dashboard may restart.                                   *)
(*                                                                         *)
(* A proof is its digest and its attestations.  An attestation is of a     *)
(* commitment, the hash of the digest and a fresh nonce: it is pending at  *)
(* the configured calendar, or names a Bitcoin block whose Merkle root the *)
(* operations reach ("block") or do not ("forged").  Operations are        *)
(* evaluated from the digest, so a proof of d holds commitments of d only. *)
(* The calendar may answer anything; the explorer's headers are trusted.   *)
(* Publication is the one of WriteOnce, which ProofStore implements.       *)
(***************************************************************************)
EXTENDS Naturals, FiniteSets

CONSTANTS
  Requests,     \* POST requests to the dashboard, each used once
  Commands,     \* runs of the command line, each a process of its own
  MaxMedia,     \* bound: media delivered; the digest of the n-th is n
  Commitments,  \* bound: blinded commitments
  Trees,        \* bound: the kinds of attestations a proof has of one commitment
  Interval,     \* ticks between two submissions of one client
  MaxTicks,     \* bound: ticks between two starts of the dashboard
  MaxStarts,    \* bound: starts of the dashboard
  None

ASSUME OtsParameters ==
  /\ Interval \in Nat \ {0}
  /\ {MaxMedia, MaxTicks, MaxStarts} \subseteq Nat
  /\ Requests \cap Commands = {}
  /\ Trees \subseteq SUBSET {"pending", "block", "forged"} \ {{}}
  /\ None \notin Nat

VARIABLES
  newest,     \* digest of the latest delivered signed artifact, 0 for none
  blinds,     \* commitment -> the digest it was made of, None while unused
  anchored,   \* commitments a Bitcoin block holds
  wait,       \* ticks until the dashboard's client admits a submission
  outcome,    \* DashboardState::ots_outcome: the verdict and the last error
  published,  \* proofs in the directory, under any name
  cached,     \* digest -> the proof under the digest's own name
  late,       \* proofs a blocking thread still publishes, nobody waiting
  pc, digest, proof, todo, given,  \* a call: where it is and what it holds
  reply,      \* what the call's caller was told
  ticks, submissions, starts

disk == <<published, cached, late>>
world == <<newest, blinds, anchored>>
clock == <<ticks, submissions, starts>>
vars == <<world, wait, outcome, disk, pc, digest, proof, todo, given, reply, clock>>

Calls == Requests \cup Commands
Digests == 1..MaxMedia
Kinds == {"pending", "block", "forged"}
Attestations == [of : Commitments, kind : Kinds]
Proofs == [digest : Digests, atts : SUBSET Attestations]
NoProof == [digest |-> 0, atts |-> {}]

Pendings(p) == {a \in p.atts : a.kind = "pending"}
Bitcoins(p) == p.atts \ Pendings(p)

\* The verdict fields of an outcome: "none" is null, a stamp says "receipt", or
\* "stamped" when the calendar named a block at once, a verification the others.
Verdicts == [digest : Digests \cup {0}, says : {"none", "receipt", "stamped", "pending", "verified"}]
Nothing == [digest |-> 0, says |-> "none"]
Verdict(d, what) == [digest |-> d, says |-> what]

Init ==
  /\ newest = 0
  /\ blinds = [c \in Commitments |-> None]
  /\ anchored = {}
  /\ wait = 0
  /\ outcome = [verdict |-> Nothing, error |-> FALSE]
  /\ published = {}
  /\ cached = [d \in Digests |-> NoProof]
  /\ late = {}
  /\ pc = [x \in Calls |-> "idle"]
  /\ digest = [x \in Calls |-> 0]
  /\ proof = [x \in Calls |-> NoProof]
  /\ todo = [x \in Calls |-> {}]
  /\ given = [x \in Calls |-> NoProof]
  /\ reply = [x \in Calls |-> Nothing]
  /\ ticks = 0 /\ submissions = 0 /\ starts = 1

At(x, l) == pc[x] = l
To(x, l) == pc' = [pc EXCEPT ![x] = l]

(* What a proof may hold: a block only once the commitment is in one. *)
Answers(c) ==
  {{[of |-> c, kind |-> k] : k \in t} : t \in {u \in Trees : "block" \in u => c \in anchored}}
Bodies(d) ==
  LET used == {c \in Commitments : blinds[c] = d}
  IN  {[digest |-> d, atts |-> s] :
         s \in {UNION {f[c] : c \in used} :
                 f \in {g \in [used -> {{}} \cup UNION {Answers(c) : c \in used}] :
                         \A c \in used : g[c] \in Answers(c) \cup {{}}}} \ {{}}}

-----------------------------------------------------------------------------
(* How a call ends.  The dashboard's handlers keep the outcome, a command  *)
(* only prints.                                                            *)

\* Mutant of RecordError: the error takes the receipt's place.
RecordErrorOnly(d) ==
  outcome' = [verdict |-> Verdict(d, "none"), error |-> TRUE]

\* record_ots_error: the verdict of an earlier call stays, beside the error.
RecordError(d) ==
  outcome' = [verdict |-> IF outcome.verdict = Nothing THEN Verdict(d, "none") ELSE outcome.verdict,
              error |-> TRUE]

\* The future and what it holds are dropped.
Drops(x) ==
  /\ To(x, "over")
  /\ digest' = [digest EXCEPT ![x] = 0]
  /\ proof' = [proof EXCEPT ![x] = NoProof]
  /\ todo' = [todo EXCEPT ![x] = {}]
  /\ UNCHANGED <<world, wait, clock>>

Fails(x) ==
  /\ Drops(x)
  /\ IF x \in Requests THEN RecordError(digest[x]) ELSE UNCHANGED outcome
  /\ UNCHANGED <<given, reply>>

Succeeds(x, what) ==
  /\ Drops(x)
  /\ reply' = [reply EXCEPT ![x] = Verdict(digest[x], what)]
  /\ IF x \in Requests
       THEN outcome' = [verdict |-> Verdict(digest[x], what), error |-> FALSE]
       ELSE UNCHANGED outcome
  /\ UNCHANGED <<disk, given>>

-----------------------------------------------------------------------------
(* POST /ots/stamp.  Refusals before the digest is read change nothing.    *)

Select(x) ==
  /\ x \in Requests
  /\ At(x, "idle")
  /\ newest # 0
  /\ digest' = [digest EXCEPT ![x] = newest]
  /\ To(x, "admission")
  /\ UNCHANGED <<world, wait, outcome, disk, proof, todo, given, reply, clock>>

\* The nonce submit draws makes a commitment nobody used.
Blind(x, d) ==
  \E c \in Commitments :
    /\ blinds[c] = None
    /\ blinds' = [blinds EXCEPT ![c] = d]
    /\ todo' = [todo EXCEPT ![x] = {[of |-> c, kind |-> "pending"]}]

\* Mutant of Admit: can_stamp is asked before, not under the lock.
AdmitAnyway(x) ==
  /\ At(x, "admission")
  /\ wait' = Interval
  /\ submissions' = submissions + 1
  /\ Blind(x, digest[x])
  /\ To(x, "submitting")
  /\ UNCHANGED <<newest, anchored, outcome, disk, digest, proof, given, reply, ticks, starts>>

\* admit(false): the attempt is reserved before any I/O.
Admit(x) ==
  /\ At(x, "admission")
  /\ wait = 0
  /\ wait' = Interval
  /\ submissions' = submissions + 1
  /\ Blind(x, digest[x])
  /\ To(x, "submitting")
  /\ UNCHANGED <<newest, anchored, outcome, disk, digest, proof, given, reply, ticks, starts>>

RateLimited(x) ==
  /\ At(x, "admission")
  /\ wait > 0
  /\ Fails(x)
  /\ UNCHANGED disk

\* Mutant of Submitted: the receipt is reported without being saved.
SubmittedUnsaved(x) ==
  /\ At(x, "submitting")
  /\ \E a \in todo[x] : \E s \in Answers(a.of) :
       proof' = [proof EXCEPT ![x] = [digest |-> digest[x], atts |-> s]]
  /\ To(x, "saved")
  /\ UNCHANGED <<world, wait, outcome, disk, digest, todo, given, reply, clock>>

\* The calendar's tree parses; the handler goes on to save_proof.
Submitted(x) ==
  /\ At(x, "submitting")
  /\ \E a \in todo[x] : \E s \in Answers(a.of) :
       proof' = [proof EXCEPT ![x] = [digest |-> digest[x], atts |-> s]]
  /\ To(x, "saving")
  /\ UNCHANGED <<world, wait, outcome, disk, digest, todo, given, reply, clock>>

-----------------------------------------------------------------------------
(* save_proof: publish runs on a blocking thread and the call waits for it *)
(* up to the timeout.                                                      *)

Store(p) ==
  /\ published' = published \cup {p}
  /\ cached' = IF cached[p.digest] = NoProof
                 THEN [cached EXCEPT ![p.digest] = p] ELSE cached

Publish(x) ==
  /\ At(x, "saving")
  /\ Store(proof[x])
  /\ To(x, "saved")
  /\ UNCHANGED <<world, wait, outcome, late, digest, proof, todo, given, reply, clock>>

PublishLate(p) ==
  /\ p \in late
  /\ Store(p)
  /\ late' = late \ {p}
  /\ UNCHANGED <<world, wait, outcome, pc, digest, proof, todo, given, reply, clock>>

\* The publication fails, or it goes on while the call gives up.
SaveFails(x) ==
  /\ At(x, "saving")
  /\ late' \in {late, late \cup {proof[x]}}
  /\ Fails(x)
  /\ UNCHANGED <<published, cached>>

Unverified(p) == IF Bitcoins(p) = {} THEN "receipt" ELSE "stamped"
Checked(p) == IF Bitcoins(p) = {} THEN "pending" ELSE "verified"

\* A stamp has no given proof; ots verify of the command line had one.
Saved(x) ==
  /\ At(x, "saved")
  /\ Succeeds(x, IF given[x] = NoProof THEN Unverified(proof[x]) ELSE Checked(proof[x]))

-----------------------------------------------------------------------------
(* POST /ots/verify, and ots verify: upgrade what is pending, then check   *)
(* every Bitcoin attestation.                                              *)

Start(x, p, phase, left) ==
  /\ proof' = [proof EXCEPT ![x] = p]
  /\ digest' = [digest EXCEPT ![x] = p.digest]
  /\ todo' = [todo EXCEPT ![x] = left]
  /\ To(x, phase)
  /\ UNCHANGED <<world, wait, outcome, disk, reply, clock>>

\* OTSClient::verify: a completed proof needs no calendar.
Verify(x) ==
  /\ x \in Requests
  /\ At(x, "idle")
  /\ \E d \in Digests : \E p \in Bodies(d) :
       IF Bitcoins(p) # {} THEN Start(x, p, "checking", Bitcoins(p))
                           ELSE Start(x, p, "upgrading", Pendings(p))
  /\ UNCHANGED given

\* A body that does not parse, or whose digest is not the expected one.
VerifyRefused(x) ==
  /\ x \in Requests
  /\ At(x, "idle")
  /\ \E d \in Digests : RecordError(d)
  /\ To(x, "over")
  /\ UNCHANGED <<world, wait, disk, digest, proof, todo, given, reply, clock>>

\* ots verify loads the proof of its file and always asks the calendar.
VerifyFile(x) ==
  /\ x \in Commands
  /\ At(x, "idle")
  /\ \E p \in published :
       /\ given' = [given EXCEPT ![x] = p]
       /\ Start(x, p, "upgrading", Pendings(p))

\* ots stamp: without --force a cached proof is reported and nothing is sent.
StampCached(x) ==
  /\ x \in Commands
  /\ At(x, "idle")
  /\ \E d \in Digests :
       /\ cached[d] # NoProof
       /\ reply' = [reply EXCEPT ![x] = Verdict(d, Unverified(cached[d]))]
  /\ To(x, "over")
  /\ UNCHANGED <<world, wait, outcome, disk, digest, proof, todo, given, clock>>

\* The client of a command is new: it has no earlier attempt.
StampFile(x, force) ==
  /\ x \in Commands
  /\ At(x, "idle")
  /\ \E d \in Digests :
       /\ force \/ cached[d] = NoProof
       /\ digest' = [digest EXCEPT ![x] = d]
       /\ Blind(x, d)
  /\ To(x, "submitting")
  /\ UNCHANGED <<newest, anchored, wait, outcome, disk, proof, given, reply, clock>>

\* merge: the calendar's branches are added at the commitment they are of.
Merge(p, a, s) == [p EXCEPT !.atts = @ \cup s]

\* One calendar answer of upgrade_inner; 404 leaves the attestation pending.
Upgrade(x, a) ==
  /\ At(x, "upgrading")
  /\ a \in todo[x]
  /\ \E s \in Answers(a.of) \cup {{}} :
       proof' = [proof EXCEPT ![x] = IF s = {} THEN @ ELSE Merge(@, a, s)]
  /\ todo' = [todo EXCEPT ![x] = @ \ {a}]
  /\ UNCHANGED <<world, wait, outcome, disk, pc, digest, given, reply, clock>>

Upgraded(x) ==
  /\ At(x, "upgrading")
  /\ todo[x] = {}
  /\ todo' = [todo EXCEPT ![x] = Bitcoins(proof[x])]
  /\ To(x, "checking")
  /\ UNCHANGED <<world, wait, outcome, disk, digest, proof, given, reply, clock>>

\* Mutant of CheckBlock: the header's Merkle root is not compared.
CheckAnyBlock(x, a) ==
  /\ At(x, "checking")
  /\ a \in todo[x]
  /\ todo' = [todo EXCEPT ![x] = @ \ {a}]
  /\ UNCHANGED <<world, wait, outcome, disk, pc, digest, proof, given, reply, clock>>

\* verify_bitcoin: validate_header passes only the header the operations reach.
CheckBlock(x, a) ==
  /\ At(x, "checking")
  /\ a \in todo[x]
  /\ a.kind = "block"
  /\ todo' = [todo EXCEPT ![x] = @ \ {a}]
  /\ UNCHANGED <<world, wait, outcome, disk, pc, digest, proof, given, reply, clock>>

\* One failing attestation fails the call.
CheckForged(x) ==
  /\ At(x, "checking")
  /\ \E a \in todo[x] : a.kind = "forged"
  /\ Fails(x)
  /\ UNCHANGED disk

\* verify_node's result, recorded by the dashboard.
Report(x) ==
  /\ x \in Requests
  /\ At(x, "checking")
  /\ todo[x] = {}
  /\ Succeeds(x, Checked(proof[x]))

\* ots verify saves the upgraded proof, when it differs, before it reports.
Keep(x) ==
  /\ x \in Commands
  /\ At(x, "checking")
  /\ todo[x] = {}
  /\ To(x, IF proof[x] = given[x] THEN "saved" ELSE "saving")
  /\ UNCHANGED <<world, wait, outcome, disk, digest, proof, todo, given, reply, clock>>

-----------------------------------------------------------------------------
(* Failures anybody may meet: a calendar or explorer that answers with an  *)
(* error, too much, or nothing before the deadline; a request or           *)
(* attestation budget; a client that leaves.                               *)

Networking == {"submitting", "upgrading", "checking"}

NetworkFails(x) ==
  /\ pc[x] \in Networking
  /\ Fails(x)
  /\ UNCHANGED disk

\* The client disconnects or the command is killed: the future is dropped.
Leave(x) ==
  /\ pc[x] \in Networking \cup {"saving"}
  /\ Drops(x)
  /\ late' \in {late, IF At(x, "saving") /\ x \in Requests THEN late \cup {proof[x]} ELSE late}
  /\ UNCHANGED <<outcome, published, cached, given, reply>>

\* The limiter, the outcome and the media are memory only.
Restart ==
  /\ starts < MaxStarts
  /\ starts' = starts + 1
  /\ wait' = 0 /\ ticks' = 0 /\ submissions' = 0 /\ newest' = 0
  /\ outcome' = [verdict |-> Nothing, error |-> FALSE]
  /\ late' = {}
  /\ LET lost == {x \in Requests : ~ At(x, "idle")}
         Without(f, v) == [x \in Calls |-> IF x \in lost THEN v ELSE f[x]]
     IN  /\ pc' = Without(pc, "over")
         /\ digest' = Without(digest, 0)
         /\ proof' = Without(proof, NoProof)
         /\ todo' = Without(todo, {})
  /\ UNCHANGED <<blinds, anchored, published, cached, given, reply>>

-----------------------------------------------------------------------------
(* GET /ots/status reads the newest digest, later the outcome, and changes *)
(* nothing: for the digest d it read, it answers this.                     *)

Status(d) == IF outcome.verdict.digest = d THEN outcome.verdict ELSE Verdict(d, "none")

-----------------------------------------------------------------------------
(* The environment: media is delivered, commitments get into blocks, time. *)

Deliver ==
  /\ newest < MaxMedia
  /\ newest' \in (newest + 1)..MaxMedia
  /\ UNCHANGED <<blinds, anchored, wait, outcome, disk, pc, digest, proof, todo, given, reply, clock>>

Anchor(c) ==
  /\ blinds[c] # None
  /\ c \notin anchored
  /\ anchored' = anchored \cup {c}
  /\ UNCHANGED <<newest, blinds, wait, outcome, disk, pc, digest, proof, todo, given, reply, clock>>

Tick ==
  /\ ticks < MaxTicks
  /\ ticks' = ticks + 1
  /\ wait' = IF wait = 0 THEN 0 ELSE wait - 1
  /\ UNCHANGED <<world, outcome, disk, pc, digest, proof, todo, given, reply, submissions, starts>>

Step(x) ==
  \/ Select(x) \/ Admit(x) \/ RateLimited(x) \/ Submitted(x)
  \/ Publish(x) \/ SaveFails(x) \/ Saved(x)
  \/ Verify(x) \/ VerifyRefused(x) \/ VerifyFile(x) \/ StampCached(x)
  \/ \E force \in BOOLEAN : StampFile(x, force)
  \/ \E a \in todo[x] : Upgrade(x, a) \/ CheckBlock(x, a)
  \/ Upgraded(x) \/ CheckForged(x) \/ Report(x) \/ Keep(x)
  \/ NetworkFails(x) \/ Leave(x)

Next ==
  \/ \E x \in Calls : Step(x)
  \/ \E p \in late : PublishLate(p)
  \/ Restart \/ Deliver \/ Tick
  \/ \E c \in Commitments : Anchor(c)

Spec == Init /\ [][Next]_vars

-----------------------------------------------------------------------------
(* Properties. *)

\* The values the state takes.
TypeOK ==
  /\ newest \in Digests \cup {0}
  /\ blinds \in [Commitments -> Digests \cup {None}]
  /\ anchored \subseteq Commitments
  /\ wait \in 0..Interval
  /\ outcome \in [verdict : Verdicts, error : BOOLEAN]
  /\ published \subseteq Proofs /\ late \subseteq Proofs
  /\ cached \in [Digests -> Proofs \cup {NoProof}]
  /\ pc \in [Calls -> {"idle", "admission", "submitting", "saving", "saved", "upgrading",
                       "checking", "over"}]
  /\ digest \in [Calls -> Digests \cup {0}]
  /\ {proof, given} \subseteq [Calls -> Proofs \cup {NoProof}]
  /\ todo \in [Calls -> SUBSET Attestations]
  /\ reply \in [Calls -> Verdicts]
  /\ ticks \in Nat /\ submissions \in Nat /\ starts \in Nat

Confirmed(d) == \E c \in anchored : blinds[c] = d
Told == {Status(d) : d \in Digests} \cup {reply[x] : x \in Calls}

\* Whatever is said to be verified, by the recorded outcome, by a status
\* report about the newest media or by an answer, is about a digest a Bitcoin
\* block commits to (ots_verify, ots_status, verify_node; docs/ots-integration.md
\* "Pending is not confirmed").
VerifiedIsConfirmed ==
  \A v \in Told : v.says = "verified" => Confirmed(v.digest)

\* A receipt somebody was told is saved is in the proof directory, and a
\* verification the command line reported left a completed proof there
\* (handle_stamp_digest and cmd_ots save before they answer).
ReportedIsStored ==
  /\ \A v \in Told :
       v.says \in {"receipt", "stamped"} => \E p \in published : p.digest = v.digest
  /\ \A x \in Commands :
       reply[x] # Nothing => \E p \in published :
         /\ p.digest = reply[x].digest
         /\ reply[x].says = "verified" => Bitcoins(p) # {}
         /\ given[x].atts \subseteq p.atts

\* Since its start the dashboard asked for no more stamps than its interval
\* allows, however its requests interleave, fail or are dropped (admit; "failed
\* attempts also consume the interval").
AdmissionRate == Interval * submissions <= ticks + Interval

\* Only a call that succeeds changes the verdict the dashboard shows, and it
\* shows the one the caller got: an error never takes the place of a receipt
\* (record_ots_error; a restart forgets).
VerdictsChangeOnSuccess ==
  [][ \/ outcome'.verdict = outcome.verdict
      \/ \E x \in Requests : ~ At(x, "over") /\ At(x, "over")' /\ outcome'.verdict = reply'[x]
      \/ outcome.verdict = Nothing /\ outcome'.verdict.says = "none"
      \/ starts' # starts ]_vars

=============================================================================
