-------------------------- MODULE OtsService_proofs --------------------------
(***************************************************************************)
(* Proofs about timestamps, for any number of requests, commands, media    *)
(* and commitments, and any interval: what is said to be verified is in a  *)
(* block, what is said to be stored is stored, and the interval holds.     *)
(***************************************************************************)
EXTENDS OtsService, TLAPS

USE DEF At, To

\* What a call holds, by where it is.
Holding ==
  \A x \in Calls :
    /\ pc[x] \in {"admission", "submitting", "saving", "saved", "upgrading", "checking"} =>
         digest[x] \in Digests
    /\ pc[x] \in {"saving", "saved", "upgrading", "checking"} => proof[x] \in Proofs

-----------------------------------------------------------------------------
(* Types. *)

LEMMA AnswerType ==
  ASSUME TypeOK, NEW c \in Commitments, NEW s \in Answers(c)
  PROVE  /\ s \in SUBSET Attestations
         /\ \A a \in s : a.of = c /\ (a.kind = "block" => c \in anchored)
  BY OtsParameters DEF TypeOK, Answers, Attestations, Kinds

LEMMA BodyType ==
  ASSUME TypeOK, NEW d \in Digests, NEW p \in Bodies(d)
  PROVE  /\ p \in Proofs /\ p.digest = d
         /\ \A a \in p.atts : blinds[a.of] = d /\ (a.kind = "block" => a.of \in anchored)
<1> DEFINE used == {c \in Commitments : blinds[c] = d}
<1>1. PICK s \in {UNION {f[c] : c \in used} :
                 f \in {g \in [used -> {{}} \cup UNION {Answers(c) : c \in used}] :
                         \A c \in used : g[c] \in Answers(c) \cup {{}}}} :
           p = [digest |-> d, atts |-> s]
  BY DEF Bodies
<1>2. PICK f \in [used -> {{}} \cup UNION {Answers(c) : c \in used}] :
           /\ \A c \in used : f[c] \in Answers(c) \cup {{}}
           /\ s = UNION {f[c] : c \in used}
  BY <1>1
<1>3. ASSUME NEW a \in s
      PROVE  a \in Attestations /\ blinds[a.of] = d /\ (a.kind = "block" => a.of \in anchored)
  <2>1. PICK c \in used : a \in f[c]
    BY <1>2, <1>3
  <2>2. f[c] \in Answers(c)
    BY <1>2, <2>1
  <2>. QED
    BY <2>1, <2>2, AnswerType
<1>. QED
  BY <1>1, <1>3 DEF Proofs

LEMMA PartsType ==
  ASSUME NEW p \in Proofs \cup {NoProof}
  PROVE  /\ p.atts \in SUBSET Attestations
         /\ Pendings(p) \in SUBSET Attestations /\ Bitcoins(p) \in SUBSET Attestations
         /\ Pendings(p) \subseteq p.atts /\ Bitcoins(p) \subseteq p.atts
         /\ Pendings(p) \cup Bitcoins(p) = p.atts
  BY DEF Proofs, NoProof, Pendings, Bitcoins

LEMMA TypeInit == Init => TypeOK /\ Holding
  BY OtsParameters DEF Init, TypeOK, Holding, Verdicts, Nothing, NoProof, Calls, Digests, Kinds, Attestations, Proofs

USE DEF world, disk, clock

LEMMA DropsType ==
  ASSUME TypeOK, NEW x \in Calls, Drops(x)
  PROVE  /\ newest' \in Digests \cup {0} /\ blinds' \in [Commitments -> Digests \cup {None}]
         /\ anchored' \subseteq Commitments /\ wait' \in 0..Interval
         /\ pc' \in [Calls -> {"idle", "admission", "submitting", "saving", "saved", "upgrading",
                       "checking", "over"}]
         /\ digest' \in [Calls -> Digests \cup {0}]
         /\ proof' \in [Calls -> Proofs \cup {NoProof}]
         /\ todo' \in [Calls -> SUBSET Attestations]
         /\ ticks' \in Nat /\ submissions' \in Nat /\ starts' \in Nat
  BY DEF TypeOK, Drops

LEMMA ErrorType ==
  ASSUME TypeOK, NEW d \in Digests \cup {0}, RecordError(d)
  PROVE  outcome' \in [verdict : Verdicts, error : BOOLEAN]
  BY DEF TypeOK, RecordError, Verdicts, Verdict, Nothing

LEMMA FailsType ==
  ASSUME TypeOK, NEW x \in Calls, Fails(x),
         published' \subseteq Proofs, late' \subseteq Proofs,
         cached' \in [Digests -> Proofs \cup {NoProof}]
  PROVE  TypeOK'
<1>1. digest[x] \in Digests \cup {0}
  BY DEF TypeOK
<1>2. outcome' \in [verdict : Verdicts, error : BOOLEAN]
  BY <1>1, ErrorType DEF Fails, TypeOK
<1>. QED
  BY <1>2, DropsType DEF TypeOK, Fails

LEMMA SucceedsType ==
  ASSUME TypeOK, NEW x \in Calls,
         NEW what \in {"receipt", "stamped", "pending", "verified"}, Succeeds(x, what)
  PROVE  TypeOK'
<1>1. Verdict(digest[x], what) \in Verdicts
  BY DEF TypeOK, Verdicts, Verdict
<1>2. outcome' \in [verdict : Verdicts, error : BOOLEAN]
  <2>1. CASE x \in Requests
    <3>. DEFINE v == Verdict(digest[x], what)
    <3>1. outcome' = [verdict |-> v, error |-> FALSE]
      BY <2>1 DEF Succeeds
    <3>. HIDE DEF v
    <3>. QED
      BY <1>1, <3>1 DEF v
  <2>. QED
    BY <2>1 DEF TypeOK, Succeeds
<1>3. reply' \in [Calls -> Verdicts]
  BY <1>1 DEF TypeOK, Succeeds
<1>. QED
  BY <1>2, <1>3, DropsType DEF TypeOK, Succeeds

LEMMA StoreType ==
  ASSUME TypeOK, NEW p \in Proofs, Store(p)
  PROVE  published' \subseteq Proofs /\ cached' \in [Digests -> Proofs \cup {NoProof}]
  BY DEF TypeOK, Store, Proofs

LEMMA BlindType ==
  ASSUME TypeOK, NEW x \in Calls, NEW d \in Digests, Blind(x, d)
  PROVE  /\ blinds' \in [Commitments -> Digests \cup {None}]
         /\ todo' \in [Calls -> SUBSET Attestations]
  BY DEF TypeOK, Blind, Attestations, Kinds

LEMMA StartType ==
  ASSUME TypeOK, NEW x \in Calls, NEW p \in Proofs,
         NEW phase \in {"upgrading", "checking"}, NEW left \in SUBSET Attestations,
         Start(x, p, phase, left), given' \in [Calls -> Proofs \cup {NoProof}]
  PROVE  TypeOK'
<1>1. p.digest \in Digests
  BY DEF Proofs
<1>. QED
  BY <1>1 DEF TypeOK, Start

LEMMA TypeStep == TypeOK /\ Holding /\ [Next]_vars => TypeOK'
<1>. SUFFICES ASSUME TypeOK, Holding, [Next]_vars PROVE TypeOK'
  OBVIOUS
<1>1. ASSUME NEW x \in Calls, Step(x) PROVE TypeOK'
  <2>1. CASE Select(x)
    BY <2>1 DEF TypeOK, Select
  <2>2. CASE Admit(x)
    <3>1. digest[x] \in Digests
      BY <2>2 DEF Admit, Holding
    <3>. QED
      BY <2>2, <3>1, BlindType, OtsParameters DEF TypeOK, Admit
  <2>3. CASE RateLimited(x)
    BY <2>3, FailsType DEF TypeOK, RateLimited
  <2>4. CASE Submitted(x)
    <3>1. PICK a \in todo[x] : \E s \in Answers(a.of) :
            proof' = [proof EXCEPT ![x] = [digest |-> digest[x], atts |-> s]]
      BY <2>4 DEF Submitted
    <3>2. PICK s \in Answers(a.of) :
            proof' = [proof EXCEPT ![x] = [digest |-> digest[x], atts |-> s]]
      BY <3>1
    <3>3. a.of \in Commitments
      BY <3>1 DEF TypeOK, Attestations
    <3>4. s \in SUBSET Attestations
      BY <3>2, <3>3, AnswerType
    <3>. QED
      BY <2>4, <3>2, <3>4 DEF TypeOK, Holding, Submitted, Proofs, NoProof
  <2>5. CASE Publish(x)
    BY <2>5, StoreType DEF TypeOK, Holding, Publish
  <2>6. CASE SaveFails(x)
    BY <2>6, FailsType DEF TypeOK, Holding, SaveFails
  <2>7. CASE Saved(x)
    <3>1. PICK what \in {"receipt", "stamped", "pending", "verified"} : Succeeds(x, what)
      BY <2>7 DEF Saved, Unverified, Checked
    <3>. QED
      BY <3>1, SucceedsType
  <2>8. CASE Verify(x)
    <3>1. PICK d \in Digests : \E p \in Bodies(d) :
             IF Bitcoins(p) # {} THEN Start(x, p, "checking", Bitcoins(p))
                                 ELSE Start(x, p, "upgrading", Pendings(p))
      BY <2>8 DEF Verify
    <3>2. PICK p \in Bodies(d) :
             IF Bitcoins(p) # {} THEN Start(x, p, "checking", Bitcoins(p))
                                 ELSE Start(x, p, "upgrading", Pendings(p))
      BY <3>1
    <3>3. p \in Proofs
      BY <3>2, BodyType
    <3>4. Bitcoins(p) \in SUBSET Attestations /\ Pendings(p) \in SUBSET Attestations
      BY <3>3, PartsType
    <3>5. given' \in [Calls -> Proofs \cup {NoProof}]
      BY <2>8 DEF TypeOK, Verify
    <3>. QED
      BY <3>2, <3>3, <3>4, <3>5, StartType
  <2>9. CASE VerifyRefused(x)
    BY <2>9, ErrorType DEF TypeOK, VerifyRefused
  <2>10. CASE VerifyFile(x)
    <3>1. PICK p \in published :
            /\ given' = [given EXCEPT ![x] = p]
            /\ Start(x, p, "upgrading", Pendings(p))
      BY <2>10 DEF VerifyFile
    <3>2. p \in Proofs
      BY <3>1 DEF TypeOK
    <3>3. Pendings(p) \in SUBSET Attestations
      BY <3>2, PartsType
    <3>4. given' \in [Calls -> Proofs \cup {NoProof}]
      BY <3>1, <3>2 DEF TypeOK
    <3>. QED
      BY <3>1, <3>2, <3>3, <3>4, StartType
  <2>11. CASE StampCached(x)
    <3>1. PICK d \in Digests : reply' = [reply EXCEPT ![x] = Verdict(d, Unverified(cached[d]))]
      BY <2>11 DEF StampCached
    <3>2. Verdict(d, Unverified(cached[d])) \in Verdicts
      BY <3>1 DEF Verdicts, Verdict, Unverified
    <3>3. reply' \in [Calls -> Verdicts]
      BY <3>1, <3>2 DEF TypeOK
    <3>. QED
      BY <2>11, <3>3 DEF TypeOK, StampCached
  <2>12. ASSUME NEW force \in BOOLEAN, StampFile(x, force) PROVE TypeOK'
    <3>1. PICK d \in Digests : digest' = [digest EXCEPT ![x] = d] /\ Blind(x, d)
      BY <2>12 DEF StampFile
    <3>. QED
      BY <2>12, <3>1, BlindType DEF TypeOK, StampFile
  <2>13. ASSUME NEW a \in todo[x], Upgrade(x, a) PROVE TypeOK'
    <3>1. PICK s \in Answers(a.of) \cup {{}} :
            proof' = [proof EXCEPT ![x] = IF s = {} THEN @ ELSE Merge(@, a, s)]
      BY <2>13 DEF Upgrade
    <3>2. a.of \in Commitments
      BY <2>13 DEF TypeOK, Attestations
    <3>3. s \in SUBSET Attestations
      BY <3>1, <3>2, AnswerType
    <3>4. proof[x] \in Proofs
      BY <2>13 DEF Holding, Upgrade
    <3>5. Merge(proof[x], a, s) \in Proofs
      BY <3>3, <3>4 DEF Merge, Proofs
    <3>. QED
      BY <2>13, <3>1, <3>4, <3>5 DEF TypeOK, Upgrade
  <2>14. ASSUME NEW a \in todo[x], CheckBlock(x, a) PROVE TypeOK'
    BY <2>14 DEF TypeOK, CheckBlock
  <2>15. CASE Upgraded(x)
    <3>1. Bitcoins(proof[x]) \in SUBSET Attestations
      BY PartsType DEF TypeOK
    <3>. QED
      BY <2>15, <3>1 DEF TypeOK, Upgraded
  <2>16. CASE CheckForged(x)
    BY <2>16, FailsType DEF TypeOK, CheckForged
  <2>17. CASE Report(x)
    BY <2>17, SucceedsType DEF Report, Checked
  <2>18. CASE Keep(x)
    BY <2>18 DEF TypeOK, Keep
  <2>19. CASE NetworkFails(x)
    BY <2>19, FailsType DEF TypeOK, NetworkFails
  <2>20. CASE Leave(x)
    BY <2>20, DropsType DEF TypeOK, Holding, Leave
  <2>. QED
    BY <1>1, <2>1, <2>2, <2>3, <2>4, <2>5, <2>6, <2>7, <2>8, <2>9, <2>10, <2>11, <2>12,
       <2>13, <2>14, <2>15, <2>16, <2>17, <2>18, <2>19, <2>20 DEF Step
<1>2. ASSUME NEW p \in late, PublishLate(p) PROVE TypeOK'
  BY <1>2, StoreType DEF TypeOK, PublishLate
<1>3. CASE Restart
  BY <1>3, OtsParameters DEF TypeOK, Restart, Verdicts, Nothing
<1>4. CASE Deliver
  BY <1>4, OtsParameters DEF TypeOK, Deliver, Digests
<1>5. CASE Tick
  BY <1>5, OtsParameters DEF TypeOK, Tick
<1>6. ASSUME NEW c \in Commitments, Anchor(c) PROVE TypeOK'
  BY <1>6 DEF TypeOK, Anchor
<1>7. CASE UNCHANGED vars
  BY <1>7 DEF TypeOK, vars
<1>. QED
  BY <1>1, <1>2, <1>3, <1>4, <1>5, <1>6, <1>7 DEF Next

LEMMA HoldingStep == TypeOK /\ Holding /\ [Next]_vars => Holding'
<1>. SUFFICES ASSUME TypeOK, Holding, [Next]_vars PROVE Holding'
  OBVIOUS
<1>1. ASSUME NEW x \in Calls, Step(x) PROVE Holding'
  <2>1. CASE Select(x)
    BY <2>1 DEF TypeOK, Holding, Select
  <2>2. CASE Admit(x)
    BY <2>2 DEF TypeOK, Holding, Admit
  <2>3. CASE Fails(x)
    BY <2>3 DEF TypeOK, Holding, Fails, Drops
  <2>4. CASE Submitted(x)
    <3>1. PICK a \in todo[x] : \E s \in Answers(a.of) :
            proof' = [proof EXCEPT ![x] = [digest |-> digest[x], atts |-> s]]
      BY <2>4 DEF Submitted
    <3>2. PICK s \in Answers(a.of) :
            proof' = [proof EXCEPT ![x] = [digest |-> digest[x], atts |-> s]]
      BY <3>1
    <3>3. a.of \in Commitments
      BY <3>1 DEF TypeOK, Attestations
    <3>4. [digest |-> digest[x], atts |-> s] \in Proofs
      BY <2>4, <3>2, <3>3, AnswerType DEF Holding, Submitted, Proofs
    <3>. QED
      BY <2>4, <3>2, <3>4 DEF TypeOK, Holding, Submitted
  <2>5. CASE Publish(x)
    BY <2>5 DEF TypeOK, Holding, Publish
  <2>6. ASSUME NEW what, Succeeds(x, what) PROVE Holding'
    BY <2>6 DEF TypeOK, Holding, Succeeds, Drops
  <2>7. ASSUME NEW p \in Proofs, NEW phase \in {"upgrading", "checking"}, NEW left,
               Start(x, p, phase, left)
        PROVE  Holding'
    BY <2>7 DEF TypeOK, Holding, Start, Proofs
  <2>8. CASE Verify(x)
    BY <2>7, <2>8, BodyType DEF Verify
  <2>9. CASE VerifyRefused(x) \/ StampCached(x)
    BY <2>9 DEF TypeOK, Holding, VerifyRefused, StampCached
  <2>10. CASE VerifyFile(x)
    BY <2>7, <2>10 DEF TypeOK, VerifyFile
  <2>11. ASSUME NEW force \in BOOLEAN, StampFile(x, force) PROVE Holding'
    BY <2>11 DEF TypeOK, Holding, StampFile
  <2>12. ASSUME NEW a \in todo[x], Upgrade(x, a) PROVE Holding'
    <3>1. PICK s \in Answers(a.of) \cup {{}} :
            proof' = [proof EXCEPT ![x] = IF s = {} THEN @ ELSE Merge(@, a, s)]
      BY <2>12 DEF Upgrade
    <3>2. s \in SUBSET Attestations
      <4>1. a.of \in Commitments
        BY <2>12 DEF TypeOK, Attestations
      <4>. QED
        BY <3>1, <4>1, AnswerType
    <3>3. proof[x] \in Proofs
      BY <2>12 DEF Holding, Upgrade
    <3>4. Merge(proof[x], a, s) \in Proofs
      BY <3>2, <3>3 DEF Merge, Proofs
    <3>. QED
      BY <2>12, <3>1, <3>3, <3>4 DEF TypeOK, Holding, Upgrade
  <2>13. ASSUME NEW a \in todo[x], CheckBlock(x, a) PROVE Holding'
    BY <2>13 DEF TypeOK, Holding, CheckBlock
  <2>14. CASE Upgraded(x) \/ Keep(x)
    BY <2>14 DEF TypeOK, Holding, Upgraded, Keep
  <2>15. CASE Leave(x)
    BY <2>15 DEF TypeOK, Holding, Leave, Drops
  <2>. QED
    BY <1>1, <2>1, <2>2, <2>3, <2>4, <2>5, <2>6, <2>8, <2>9, <2>10, <2>11, <2>12, <2>13,
       <2>14, <2>15
    DEF Step, RateLimited, SaveFails, CheckForged, NetworkFails, Saved, Report
<1>2. ASSUME NEW p \in late, PublishLate(p) PROVE Holding'
  BY <1>2 DEF Holding, PublishLate
<1>3. CASE Restart
  BY <1>3 DEF TypeOK, Holding, Restart
<1>4. CASE Deliver \/ Tick
  BY <1>4 DEF Holding, Deliver, Tick
<1>5. ASSUME NEW c \in Commitments, Anchor(c) PROVE Holding'
  BY <1>5 DEF Holding, Anchor
<1>6. CASE UNCHANGED vars
  BY <1>6 DEF Holding, vars
<1>. QED
  BY <1>1, <1>2, <1>3, <1>4, <1>5, <1>6 DEF Next

\* The variables of the timestamp calls keep their types.
THEOREM TypeCorrect == Spec => []TypeOK
  BY TypeInit, TypeStep, HoldingStep, PTL DEF Spec

-----------------------------------------------------------------------------
(* Evidence: what proofs hold, and what was said about them. *)

\* The operations of a proof start at its digest, and a block it names holds
\* the commitment unless the attestation is forged.
Bound(p) ==
  \A a \in p.atts : blinds[a.of] = p.digest /\ (a.kind = "block" => a.of \in anchored)

ProofsBound ==
  /\ \A p \in published \cup late : Bound(p)
  /\ \A d \in Digests : cached[d] # NoProof => cached[d] \in published /\ cached[d].digest = d

\* How far a call is: what it still has to ask or check is of its proof, and
\* what it checked is no forgery.
CallOK(x) ==
  /\ pc[x] = "submitting" => \A a \in todo[x] : blinds[a.of] = digest[x]
  /\ pc[x] \in {"saving", "saved", "upgrading", "checking"} =>
       Bound(proof[x]) /\ proof[x].digest = digest[x] /\ given[x].atts \subseteq proof[x].atts
  /\ pc[x] = "upgrading" => todo[x] \subseteq proof[x].atts
  /\ pc[x] = "checking" => \A a \in Bitcoins(proof[x]) : a \in todo[x] \/ a.kind = "block"
  /\ pc[x] \in {"saving", "saved"} /\ given[x] # NoProof =>
       \A a \in Bitcoins(proof[x]) : a.kind = "block"
  /\ pc[x] = "saved" => proof[x] \in published
  /\ given[x] # NoProof => x \in Commands /\ given[x] \in published
       /\ pc[x] \notin {"idle", "admission", "submitting"}

\* What a verdict says is so.
Earned(v) ==
  /\ v.says = "verified" => Confirmed(v.digest)
  /\ v.says \in {"receipt", "stamped"} => \E p \in published : p.digest = v.digest

\* What a command reported is in the directory.
Kept(x) ==
  reply[x] # Nothing =>
    /\ pc[x] = "over"
    /\ \E p \in published :
         /\ p.digest = reply[x].digest
         /\ reply[x].says = "verified" => Bitcoins(p) # {}
         /\ given[x].atts \subseteq p.atts

Said == /\ Earned(outcome.verdict)
        /\ \A x \in Calls : Earned(reply[x])
        /\ \A x \in Commands : Kept(x)

Evidence == ProofsBound /\ (\A x \in Calls : CallOK(x)) /\ Said

\* The world only gains: a commitment keeps its digest, a block its
\* commitments, the directory its proofs.
Gains ==
  /\ \A c \in Commitments : blinds[c] # None => blinds'[c] = blinds[c]
  /\ anchored \subseteq anchored'
  /\ published \subseteq published'

LEMMA BlindGains ==
  ASSUME TypeOK, NEW x \in Calls, NEW d \in Digests, Blind(x, d), UNCHANGED <<anchored, published>>
  PROVE  Gains /\ \A a \in todo'[x] : a.of \in Commitments /\ blinds'[a.of] = d
  BY DEF TypeOK, Blind, Gains

LEMMA StepGains == TypeOK /\ Holding /\ [Next]_vars => Gains
<1>. SUFFICES ASSUME TypeOK, Holding, [Next]_vars PROVE Gains
  OBVIOUS
<1>1. ASSUME NEW x \in Calls, Admit(x) PROVE Gains
  BY <1>1, BlindGains DEF Admit, Holding
<1>2. ASSUME NEW x \in Calls, NEW force \in BOOLEAN, StampFile(x, force) PROVE Gains
  BY <1>2, BlindGains DEF StampFile
<1>3. ASSUME NEW x \in Calls, Step(x), ~ Admit(x), \A force \in BOOLEAN : ~ StampFile(x, force)
      PROVE  Gains
  BY <1>3 DEF Gains, Step, Select, RateLimited, Submitted, Publish, Store, SaveFails, Saved, Verify,
     VerifyRefused, VerifyFile, StampCached, Upgrade, CheckBlock, Upgraded, CheckForged, Report, Keep,
     NetworkFails, Leave, Fails, Succeeds, Drops, Start
<1>4. ASSUME NEW p \in late, PublishLate(p) PROVE Gains
  BY <1>4 DEF Gains, PublishLate, Store
<1>5. CASE Restart \/ Deliver \/ Tick
  BY <1>5 DEF Gains, Restart, Deliver, Tick
<1>6. ASSUME NEW c \in Commitments, Anchor(c) PROVE Gains
  BY <1>6 DEF Gains, Anchor
<1>7. CASE UNCHANGED vars
  BY <1>7 DEF Gains, vars
<1>. QED
  BY <1>1, <1>2, <1>3, <1>4, <1>5, <1>6, <1>7 DEF Next

LEMMA BoundGains ==
  ASSUME TypeOK, Gains, NEW p \in Proofs, Bound(p)
  PROVE  \A a \in p.atts : blinds'[a.of] = p.digest /\ (a.kind = "block" => a.of \in anchored')
  BY OtsParameters DEF TypeOK, Gains, Bound, Proofs, Attestations, Digests

LEMMA EarnedGains ==
  ASSUME TypeOK, Gains, NEW v \in Verdicts, Earned(v)
  PROVE  /\ v.says = "verified" => \E c \in anchored' : blinds'[c] = v.digest
         /\ v.says \in {"receipt", "stamped"} => \E p \in published' : p.digest = v.digest
<1>1. v.digest # None
  BY OtsParameters DEF Verdicts, Digests
<1>2. ASSUME v.says = "verified" PROVE \E c \in anchored' : blinds'[c] = v.digest
  <2>1. PICK c \in anchored : blinds[c] = v.digest
    BY <1>2 DEF Earned, Confirmed
  <2>. QED
    BY <1>1, <2>1 DEF TypeOK, Gains
<1>3. ASSUME v.says \in {"receipt", "stamped"} PROVE \E p \in published' : p.digest = v.digest
  BY <1>3 DEF Gains, Earned
<1>. QED
  BY <1>2, <1>3

\* A call that a step does not touch stays right.
LEMMA CallGains ==
  ASSUME TypeOK, Holding, Gains, NEW x \in Calls, CallOK(x),
         pc'[x] = pc[x], digest'[x] = digest[x], proof'[x] = proof[x], todo'[x] = todo[x],
         given'[x] = given[x]
  PROVE  CallOK(x)'
<1>1. pc[x] = "submitting" => \A a \in todo[x] : blinds'[a.of] = digest[x]
  BY OtsParameters DEF TypeOK, Holding, Gains, CallOK, Attestations, Digests
<1>2. pc[x] \in {"saving", "saved", "upgrading", "checking"} => Bound(proof[x])'
  BY BoundGains DEF Holding, CallOK, Bound
<1>. QED
  BY <1>1, <1>2 DEF CallOK, Gains, Bitcoins, Pendings

LEMMA KeptGains ==
  ASSUME Gains, NEW x \in Commands, Kept(x),
         reply'[x] = reply[x], given'[x] = given[x] \/ reply[x] = Nothing, pc[x] = "over" => pc'[x] = "over"
  PROVE  Kept(x)'
  BY DEF Gains, Kept, Bitcoins, Pendings

\* Proofs already in the directory, and what was said, stay right.
LEMMA OldGains ==
  ASSUME TypeOK, Gains, Evidence
  PROVE  /\ \A p \in published \cup late : Bound(p)'
         /\ outcome' = outcome => Earned(outcome.verdict)'
<1>1. \A p \in published \cup late : p \in Proofs /\ Bound(p)
  BY DEF TypeOK, Evidence, ProofsBound
<1>2. \A p \in published \cup late : Bound(p)'
  BY <1>1, BoundGains DEF Bound
<1>3. outcome.verdict \in Verdicts /\ Earned(outcome.verdict)
  BY DEF TypeOK, Evidence, Said
<1>. QED
  BY <1>2, <1>3, EarnedGains DEF Earned, Confirmed

-----------------------------------------------------------------------------
(* The invariant holds of every step. *)

LEMMA EvidenceInit == Init => Evidence
<1>. SUFFICES ASSUME Init PROVE Evidence
  OBVIOUS
<1>1. ProofsBound
  BY DEF Init, ProofsBound
<1>2. \A x \in Calls : CallOK(x)
  BY DEF Init, CallOK
<1>3. Earned(Nothing)
  BY DEF Earned, Nothing
<1>4. Said
  BY <1>3 DEF Init, Said, Kept, Calls
<1>. QED
  BY <1>1, <1>2, <1>4 DEF Evidence

\* A step of one call leaves the others as they are.
LEMMA OneCall ==
  ASSUME TypeOK, Holding, Gains, Evidence, NEW x \in Calls,
         \A y \in Calls \ {x} :
           /\ pc'[y] = pc[y] /\ digest'[y] = digest[y] /\ proof'[y] = proof[y]
           /\ todo'[y] = todo[y] /\ given'[y] = given[y] /\ reply'[y] = reply[y],
         CallOK(x)', Earned(reply[x])', x \in Commands => Kept(x)',
         Earned(outcome.verdict)', ProofsBound'
  PROVE  Evidence'
<1>1. ASSUME NEW y \in Calls \ {x} PROVE CallOK(y)'
  BY <1>1, CallGains DEF Evidence
<1>2. ASSUME NEW y \in Calls \ {x} PROVE Earned(reply[y])'
  <2>1. reply[y] \in Verdicts /\ Earned(reply[y]) /\ reply'[y] = reply[y]
    BY <1>2 DEF TypeOK, Evidence, Said
  <2>. QED
    BY <2>1, EarnedGains DEF Earned, Confirmed
<1>3. ASSUME NEW y \in Commands \ {x} PROVE Kept(y)'
  BY <1>3, KeptGains DEF Evidence, Said, Calls
<1>4. Said'
  BY <1>2, <1>3 DEF Said
<1>. QED
  BY <1>1, <1>4 DEF Evidence

LEMMA DiskKept ==
  ASSUME TypeOK, Gains, Evidence, UNCHANGED <<published, cached>>, late' \subseteq late
  PROVE  ProofsBound'
  BY OldGains DEF Evidence, ProofsBound

LEMMA DropsOK ==
  ASSUME TypeOK, Holding, Gains, Evidence, NEW x \in Calls, Drops(x), pc[x] # "over", UNCHANGED given
  PROVE  CallOK(x)'
  BY DEF TypeOK, Drops, Evidence, CallOK, Gains

LEMMA ErrorEarned ==
  ASSUME TypeOK, Gains, Evidence, NEW d \in Digests \cup {0}, RecordError(d)
  PROVE  Earned(outcome.verdict)'
<1>1. CASE outcome.verdict = Nothing
  BY <1>1 DEF RecordError, Earned, Verdict
<1>2. CASE outcome.verdict # Nothing
  <2>1. outcome'.verdict = outcome.verdict
    BY <1>2 DEF RecordError
  <2>2. outcome.verdict \in Verdicts /\ Earned(outcome.verdict)
    BY DEF TypeOK, Evidence, Said
  <2>. QED
    BY <2>1, <2>2, EarnedGains DEF Earned, Confirmed
<1>. QED
  BY <1>1, <1>2

LEMMA FailsEvidence ==
  ASSUME TypeOK, Holding, Gains, Evidence, NEW x \in Calls, Fails(x), pc[x] # "over", ProofsBound'
  PROVE  Evidence'
<1>1. CallOK(x)'
  BY DropsOK DEF Fails
<1>2. Earned(outcome.verdict)'
  <2>1. digest[x] \in Digests \cup {0}
    BY DEF TypeOK
  <2>2. CASE RecordError(digest[x])
    BY <2>1, <2>2, ErrorEarned
  <2>3. CASE outcome' = outcome
    BY <2>3, OldGains
  <2>. QED
    BY <2>2, <2>3 DEF Fails
<1>3. Earned(reply[x])' /\ reply'[x] = reply[x]
  <2>1. reply[x] \in Verdicts /\ Earned(reply[x]) /\ reply'[x] = reply[x]
    BY DEF TypeOK, Evidence, Said, Fails
  <2>. QED
    BY <2>1, EarnedGains DEF Earned, Confirmed
<1>4. x \in Commands => Kept(x)'
  BY <1>3 DEF Kept, Evidence, Said
<1>5. \A y \in Calls \ {x} :
           /\ pc'[y] = pc[y] /\ digest'[y] = digest[y] /\ proof'[y] = proof[y]
           /\ todo'[y] = todo[y] /\ given'[y] = given[y] /\ reply'[y] = reply[y]
  BY DEF TypeOK, Fails, Drops
<1>. QED
  BY <1>1, <1>2, <1>3, <1>4, <1>5, OneCall

LEMMA SucceedsEvidence ==
  ASSUME TypeOK, Holding, Gains, Evidence, NEW x \in Calls, NEW what, Succeeds(x, what),
         pc[x] \in {"saved", "checking"},
         Earned(Verdict(digest[x], what)),
         x \in Commands => \E p \in published :
                             /\ p.digest = digest[x]
                             /\ what = "verified" => Bitcoins(p) # {}
                             /\ given[x].atts \subseteq p.atts,
         Verdict(digest[x], what) \in Verdicts
  PROVE  Evidence'
<1>1. CallOK(x)'
  BY DropsOK DEF Succeeds
<1>2. PICK v \in Verdicts : v = Verdict(digest[x], what)
  OBVIOUS
<1>3. reply'[x] = v /\ pc'[x] = "over"
  BY <1>2 DEF TypeOK, Succeeds, Drops
<1>4. Earned(reply[x])'
  BY <1>2, <1>3, EarnedGains DEF Earned, Confirmed
<1>5. Earned(outcome.verdict)'
  <2>1. CASE outcome' = outcome
    BY <2>1, OldGains
  <2>2. CASE outcome' = [verdict |-> v, error |-> FALSE]
    <3>1. outcome'.verdict = v
      BY <2>2
    <3>. QED
      BY <1>2, <3>1, EarnedGains DEF Earned, Confirmed
  <2>. QED
    BY <1>2, <2>1, <2>2 DEF Succeeds
<1>6. x \in Commands => Kept(x)'
  BY <1>2, <1>3 DEF Kept, Succeeds, Verdict, Bitcoins, Pendings
<1>7. \A y \in Calls \ {x} :
           /\ pc'[y] = pc[y] /\ digest'[y] = digest[y] /\ proof'[y] = proof[y]
           /\ todo'[y] = todo[y] /\ given'[y] = given[y] /\ reply'[y] = reply[y]
  BY DEF TypeOK, Succeeds, Drops
<1>8. ProofsBound'
  BY DiskKept DEF Succeeds
<1>. QED
  BY <1>1, <1>4, <1>5, <1>6, <1>7, <1>8, OneCall

LEMMA StoreOK ==
  ASSUME TypeOK, Gains, Evidence, NEW p \in Proofs, Bound(p), Store(p), late' \subseteq late
  PROVE  ProofsBound'
<1>1. \A q \in published \cup late \cup {p} : Bound(q)'
  BY OldGains, BoundGains DEF Bound
<1>2. \A d \in Digests : cached'[d] # NoProof => cached'[d] \in published' /\ cached'[d].digest = d
  BY DEF Store, TypeOK, Evidence, ProofsBound
<1>. QED
  BY <1>1, <1>2 DEF Store, ProofsBound

\* One step of a call: what changes is the call's own.
LEMMA CallStep ==
  ASSUME TypeOK, Holding, Gains, Evidence, NEW x \in Calls, pc[x] # "over",
         \A y \in Calls \ {x} :
           /\ pc'[y] = pc[y] /\ digest'[y] = digest[y] /\ proof'[y] = proof[y]
           /\ todo'[y] = todo[y] /\ given'[y] = given[y],
         UNCHANGED <<outcome, reply>>, CallOK(x)', ProofsBound'
  PROVE  Evidence'
<1>1. Earned(reply[x])' /\ Earned(outcome.verdict)'
  <2>1. reply[x] \in Verdicts /\ Earned(reply[x])
    BY DEF TypeOK, Evidence, Said
  <2>. QED
    BY <2>1, OldGains, EarnedGains DEF Earned, Confirmed
<1>2. x \in Commands => Kept(x)'
  BY DEF Kept, Evidence, Said
<1>. QED
  BY <1>1, <1>2, OneCall

\* Before its answer arrives, a call has said nothing and was given nothing.
LEMMA StampEvidence ==
  ASSUME TypeOK, Holding, Gains, Evidence, NEW x \in Calls,
         Select(x) \/ Admit(x) \/ (\E force \in BOOLEAN : StampFile(x, force))
  PROVE  Evidence'
<1>1. CASE Select(x)
  <2>1. CallOK(x)'
    BY <1>1 DEF TypeOK, Select, Evidence, CallOK
  <2>2. ProofsBound'
    BY <1>1, DiskKept DEF Select
  <2>. QED
    BY <1>1, <2>1, <2>2, CallStep DEF Select, TypeOK
<1>2. CASE Admit(x)
  <2>1. digest[x] \in Digests /\ Blind(x, digest[x])
    BY <1>2 DEF Admit, Holding
  <2>2. \A a \in todo'[x] : blinds'[a.of] = digest[x]
    BY <1>2, <2>1, BlindGains DEF Admit
  <2>3. CallOK(x)'
    BY <1>2, <2>2 DEF TypeOK, Admit, Evidence, CallOK
  <2>4. ProofsBound'
    BY <1>2, DiskKept DEF Admit
  <2>. QED
    BY <1>2, <2>3, <2>4, CallStep DEF Admit, Blind, TypeOK
<1>3. ASSUME NEW force \in BOOLEAN, StampFile(x, force) PROVE Evidence'
  <2>1. PICK d \in Digests : digest' = [digest EXCEPT ![x] = d] /\ Blind(x, d)
    BY <1>3 DEF StampFile
  <2>2. \A a \in todo'[x] : blinds'[a.of] = d
    BY <1>3, <2>1, BlindGains DEF StampFile
  <2>3. CallOK(x)'
    BY <1>3, <2>1, <2>2 DEF TypeOK, StampFile, Evidence, CallOK
  <2>4. ProofsBound'
    BY <1>3, DiskKept DEF StampFile
  <2>. QED
    BY <1>3, <2>1, <2>3, <2>4, CallStep DEF StampFile, Blind, TypeOK
<1>. QED
  BY <1>1, <1>2, <1>3

LEMMA SubmittedEvidence ==
  ASSUME TypeOK, Holding, Gains, Evidence, NEW x \in Calls, Submitted(x)
  PROVE  Evidence'
<1>1. PICK a \in todo[x] : \E s \in Answers(a.of) :
        proof' = [proof EXCEPT ![x] = [digest |-> digest[x], atts |-> s]]
  BY DEF Submitted
<1>2. PICK s \in Answers(a.of) :
        proof' = [proof EXCEPT ![x] = [digest |-> digest[x], atts |-> s]]
  BY <1>1
<1>3. a.of \in Commitments /\ blinds[a.of] = digest[x]
  BY <1>1 DEF Submitted, TypeOK, Attestations, Evidence, CallOK
<1>4. \A b \in s : b.of = a.of /\ (b.kind = "block" => b.of \in anchored)
  BY <1>2, <1>3, AnswerType
<1>5. proof'[x] = [digest |-> digest[x], atts |-> s]
  BY <1>2 DEF TypeOK
<1>6. Bound(proof[x])'
  BY <1>3, <1>4, <1>5 DEF Bound, Submitted
<1>7. given[x] = NoProof
  BY DEF Evidence, CallOK, Submitted
<1>8. CallOK(x)'
  BY <1>5, <1>6, <1>7 DEF Submitted, CallOK, NoProof, TypeOK
<1>9. ProofsBound'
  BY DiskKept DEF Submitted
<1>. QED
  BY <1>8, <1>9, CallStep DEF Submitted, TypeOK

LEMMA SaveEvidence ==
  ASSUME TypeOK, Holding, Gains, Evidence, NEW x \in Calls, Publish(x) \/ SaveFails(x)
  PROVE  Evidence'
<1>1. proof[x] \in Proofs /\ Bound(proof[x])
  BY DEF Publish, SaveFails, Holding, Evidence, CallOK
<1>2. CASE Publish(x)
  <2>1. ProofsBound'
    BY <1>1, <1>2, StoreOK DEF Publish
  <2>2. Bound(proof[x])'
    BY <1>1, <1>2, BoundGains DEF Publish, Bound
  <2>3. CallOK(x)'
    BY <1>2, <2>2 DEF TypeOK, Publish, Store, Evidence, CallOK, Bitcoins, Pendings
  <2>. QED
    BY <1>2, <2>1, <2>3, CallStep DEF Publish, TypeOK
<1>3. CASE SaveFails(x)
  <2>1. ProofsBound'
    <3>1. \A p \in published \cup late \cup {proof[x]} : Bound(p)'
      BY <1>1, OldGains, BoundGains DEF Bound
    <3>. QED
      BY <1>3, <3>1 DEF SaveFails, ProofsBound, Evidence
  <2>. QED
    BY <1>3, <2>1, FailsEvidence DEF SaveFails
<1>. QED
  BY <1>2, <1>3

\* A proof whose attestations are all checked confirms its digest.
LEMMA CheckedEarned ==
  ASSUME TypeOK, NEW p \in Proofs, Bound(p), \A a \in Bitcoins(p) : a.kind = "block"
  PROVE  Earned(Verdict(p.digest, Checked(p))) /\ Verdict(p.digest, Checked(p)) \in Verdicts
<1>1. CASE Bitcoins(p) = {}
  BY <1>1 DEF Earned, Verdict, Checked, Verdicts, Proofs
<1>2. CASE Bitcoins(p) # {}
  <2>1. PICK a \in Bitcoins(p) : TRUE
    BY <1>2
  <2>2. a.of \in anchored /\ blinds[a.of] = p.digest
    BY <2>1, PartsType DEF Bound
  <2>. QED
    BY <1>2, <2>2 DEF Earned, Confirmed, Verdict, Checked, Verdicts, Proofs
<1>. QED
  BY <1>1, <1>2

LEMMA SavedEvidence ==
  ASSUME TypeOK, Holding, Gains, Evidence, NEW x \in Calls, Saved(x)
  PROVE  Evidence'
<1>1. /\ proof[x] \in published /\ proof[x] \in Proofs /\ Bound(proof[x])
      /\ proof[x].digest = digest[x] /\ given[x].atts \subseteq proof[x].atts
      /\ given[x] # NoProof => \A a \in Bitcoins(proof[x]) : a.kind = "block"
      /\ pc[x] = "saved"
  BY DEF Saved, Holding, Evidence, CallOK
<1>2. CASE given[x] = NoProof
  <2>. DEFINE what == Unverified(proof[x])
  <2>1. what \in {"receipt", "stamped"} /\ Succeeds(x, what)
    BY <1>2 DEF Saved, Unverified
  <2>2. Earned(Verdict(digest[x], what)) /\ Verdict(digest[x], what) \in Verdicts
    BY <1>1, <2>1 DEF Earned, Verdict, Verdicts, Proofs
  <2>. HIDE DEF what
  <2>. QED
    BY <1>1, <2>1, <2>2, SucceedsEvidence
<1>3. CASE given[x] # NoProof
  <2>. DEFINE what == Checked(proof[x])
  <2>1. Succeeds(x, what) /\ (what = "verified" => Bitcoins(proof[x]) # {})
    BY <1>3 DEF Saved, Checked
  <2>2. Earned(Verdict(digest[x], what)) /\ Verdict(digest[x], what) \in Verdicts
    BY <1>1, <1>3, CheckedEarned
  <2>. HIDE DEF what
  <2>. QED
    BY <1>1, <2>1, <2>2, SucceedsEvidence
<1>. QED
  BY <1>2, <1>3

LEMMA ReportEvidence ==
  ASSUME TypeOK, Holding, Gains, Evidence, NEW x \in Calls, Report(x)
  PROVE  Evidence'
<1>1. /\ proof[x] \in Proofs /\ Bound(proof[x]) /\ proof[x].digest = digest[x]
      /\ \A a \in Bitcoins(proof[x]) : a.kind = "block"
      /\ pc[x] = "checking" /\ x \notin Commands
  BY OtsParameters DEF Report, Holding, Evidence, CallOK
<1>. DEFINE what == Checked(proof[x])
<1>2. Succeeds(x, what)
  BY DEF Report
<1>3. Earned(Verdict(digest[x], what)) /\ Verdict(digest[x], what) \in Verdicts
  BY <1>1, CheckedEarned
<1>. HIDE DEF what
<1>. QED
  BY <1>1, <1>2, <1>3, SucceedsEvidence

LEMMA StartEvidence ==
  ASSUME TypeOK, Holding, Gains, Evidence, NEW x \in Calls, NEW p \in Proofs, Bound(p),
         NEW phase, NEW left, Start(x, p, phase, left), pc[x] = "idle",
         \/ phase = "upgrading" /\ left = Pendings(p)
         \/ phase = "checking" /\ left = Bitcoins(p),
         \/ UNCHANGED given
         \/ x \in Commands /\ p \in published /\ given' = [given EXCEPT ![x] = p]
  PROVE  Evidence'
<1>1. proof'[x] = p /\ digest'[x] = p.digest /\ todo'[x] = left /\ pc'[x] = phase
  BY DEF Start, TypeOK
<1>2. Bound(p)'
  BY BoundGains DEF Bound
<1>3. Bound(proof[x])'
  BY <1>1, <1>2 DEF Bound
<1>4. given[x] = NoProof
  BY DEF Evidence, CallOK
<1>5. given'[x] = NoProof \/ (given'[x] = p /\ x \in Commands /\ p \in published)
  BY <1>4 DEF TypeOK
<1>6. Pendings(p) \subseteq p.atts
  BY PartsType
<1>7. given'[x].atts \subseteq p.atts
  BY <1>5 DEF NoProof
<1>8. published' = published
  BY DEF Start
<1>9. CallOK(x)'
  BY <1>1, <1>3, <1>5, <1>6, <1>7, <1>8 DEF CallOK
<1>10. ProofsBound'
  BY DiskKept DEF Start
<1>. QED
  BY <1>9, <1>10, CallStep DEF Start, TypeOK

LEMMA BodyEvidence ==
  ASSUME TypeOK, Holding, Gains, Evidence, NEW x \in Calls, Verify(x) \/ VerifyFile(x)
  PROVE  Evidence'
<1>1. CASE Verify(x)
  <2>1. PICK d \in Digests : \E p \in Bodies(d) :
             IF Bitcoins(p) # {} THEN Start(x, p, "checking", Bitcoins(p))
                                 ELSE Start(x, p, "upgrading", Pendings(p))
    BY <1>1 DEF Verify
  <2>2. PICK p \in Bodies(d) :
             IF Bitcoins(p) # {} THEN Start(x, p, "checking", Bitcoins(p))
                                 ELSE Start(x, p, "upgrading", Pendings(p))
    BY <2>1
  <2>3. p \in Proofs /\ Bound(p)
    BY <2>2, BodyType DEF Bound
  <2>. QED
    BY <1>1, <2>2, <2>3, StartEvidence DEF Verify
<1>2. CASE VerifyFile(x)
  <2>1. PICK p \in published :
          /\ given' = [given EXCEPT ![x] = p]
          /\ Start(x, p, "upgrading", Pendings(p))
    BY <1>2 DEF VerifyFile
  <2>2. p \in Proofs /\ Bound(p)
    BY <2>1 DEF TypeOK, Evidence, ProofsBound
  <2>. QED
    BY <1>2, <2>1, <2>2, StartEvidence DEF VerifyFile
<1>. QED
  BY <1>1, <1>2

LEMMA UpgradeEvidence ==
  ASSUME TypeOK, Holding, Gains, Evidence, NEW x \in Calls, NEW a \in todo[x], Upgrade(x, a)
  PROVE  Evidence'
<1>1. PICK s \in Answers(a.of) \cup {{}} :
        proof' = [proof EXCEPT ![x] = IF s = {} THEN @ ELSE Merge(@, a, s)]
  BY DEF Upgrade
<1>2. /\ proof[x] \in Proofs /\ Bound(proof[x]) /\ proof[x].digest = digest[x]
      /\ given[x].atts \subseteq proof[x].atts /\ todo[x] \subseteq proof[x].atts
      /\ pc[x] = "upgrading"
  BY DEF Upgrade, Holding, Evidence, CallOK
<1>3. blinds[a.of] = digest[x] /\ a.of \in Commitments
  BY <1>2 DEF Bound, TypeOK, Attestations
<1>4. /\ proof'[x].digest = proof[x].digest
      /\ proof'[x].atts = proof[x].atts \cup s
  BY <1>1, <1>2 DEF Merge, TypeOK, Proofs
<1>5. \A b \in s : b.of = a.of /\ (b.kind = "block" => b.of \in anchored)
  BY <1>1, <1>3, AnswerType
<1>6. Bound(proof[x])'
  BY <1>2, <1>3, <1>4, <1>5 DEF Bound, Upgrade
<1>7. /\ todo'[x] = todo[x] \ {a} /\ pc'[x] = "upgrading" /\ digest'[x] = digest[x]
      /\ given'[x] = given[x] /\ published' = published
  BY <1>2 DEF Upgrade, TypeOK
<1>8. CallOK(x)'
  <2>1. given[x] # NoProof => x \in Commands /\ given[x] \in published
    BY DEF Evidence, CallOK
  <2>. QED
    BY <1>2, <1>4, <1>6, <1>7, <2>1 DEF CallOK
<1>9. ProofsBound'
  BY DiskKept DEF Upgrade
<1>. QED
  BY <1>2, <1>8, <1>9, CallStep DEF Upgrade, TypeOK

LEMMA CheckEvidence ==
  ASSUME TypeOK, Holding, Gains, Evidence, NEW x \in Calls,
         Upgraded(x) \/ Keep(x) \/ (\E a \in todo[x] : CheckBlock(x, a))
  PROVE  Evidence'
<1>1. /\ UNCHANGED <<blinds, anchored, published, cached, late, outcome, reply, digest, proof, given>>
      /\ pc[x] \in {"upgrading", "checking"}
      /\ \A y \in Calls \ {x} : pc'[y] = pc[y] /\ todo'[y] = todo[y]
  BY DEF Upgraded, Keep, CheckBlock, TypeOK
<1>2. Bound(proof[x])' /\ Bitcoins(proof[x])' = Bitcoins(proof[x])
  BY <1>1 DEF Evidence, CallOK, Bound, Bitcoins, Pendings
<1>3. CASE Upgraded(x)
  <2>1. pc'[x] = "checking" /\ todo'[x] = Bitcoins(proof[x])
    BY <1>3 DEF Upgraded, TypeOK
  <2>. QED
    BY <1>1, <1>2, <2>1, CallStep, DiskKept DEF Evidence, CallOK
<1>4. CASE Keep(x)
  <2>1. \A a \in Bitcoins(proof[x]) : a.kind = "block"
    BY <1>4 DEF Keep, Evidence, CallOK
  <2>2. pc'[x] = "saving" \/ (pc'[x] = "saved" /\ proof[x] = given[x])
    BY <1>4 DEF Keep, TypeOK
  <2>3. proof[x] # NoProof
    BY <1>1 DEF Holding, NoProof, Proofs, Digests
  <2>4. CallOK(x)'
    BY <1>1, <1>2, <2>1, <2>2, <2>3 DEF Evidence, CallOK
  <2>. QED
    BY <1>1, <1>4, <2>4, CallStep, DiskKept DEF Keep
<1>5. ASSUME NEW a \in todo[x], CheckBlock(x, a) PROVE Evidence'
  <2>1. pc[x] = "checking" /\ pc'[x] = "checking" /\ todo'[x] = todo[x] \ {a} /\ a.kind = "block"
    BY <1>5 DEF CheckBlock, TypeOK
  <2>2. CallOK(x)'
    BY <1>1, <1>2, <2>1 DEF Evidence, CallOK
  <2>. QED
    BY <1>1, <2>2, CallStep, DiskKept
<1>. QED
  BY <1>3, <1>4, <1>5

LEMMA QuietEvidence ==
  ASSUME TypeOK, Holding, Gains, Evidence, NEW x \in Calls,
         VerifyRefused(x) \/ StampCached(x) \/ Leave(x)
  PROVE  Evidence'
<1>1. CASE VerifyRefused(x)
  <2>1. Earned(outcome.verdict)'
    BY <1>1, ErrorEarned DEF VerifyRefused
  <2>2. CallOK(x)'
    BY <1>1 DEF TypeOK, VerifyRefused, Evidence, CallOK
  <2>3. reply'[x] = reply[x] /\ Earned(reply[x])' /\ x \notin Commands
    <3>1. reply[x] \in Verdicts /\ Earned(reply[x])
      BY DEF TypeOK, Evidence, Said
    <3>. QED
      BY <1>1, <3>1, EarnedGains, OtsParameters DEF VerifyRefused, Earned, Confirmed
  <2>4. ProofsBound'
    BY <1>1, DiskKept DEF VerifyRefused
  <2>. QED
    BY <1>1, <2>1, <2>2, <2>3, <2>4, OneCall DEF VerifyRefused, TypeOK
<1>2. CASE StampCached(x)
  <2>1. PICK d \in Digests : /\ cached[d] # NoProof
                             /\ reply' = [reply EXCEPT ![x] = Verdict(d, Unverified(cached[d]))]
    BY <1>2 DEF StampCached
  <2>2. cached[d] \in published /\ cached[d].digest = d
    BY <2>1 DEF Evidence, ProofsBound
  <2>3. reply'[x] = Verdict(d, Unverified(cached[d])) /\ pc'[x] = "over" /\ UNCHANGED <<given, published>>
    BY <1>2, <2>1 DEF StampCached, TypeOK
  <2>4. Unverified(cached[d]) \in {"receipt", "stamped"}
    BY DEF Unverified
  <2>5. reply'[x].digest = d /\ reply'[x].says \in {"receipt", "stamped"}
    BY <2>3, <2>4 DEF Verdict
  <2>6. given[x] = NoProof
    BY <1>2 DEF StampCached, Evidence, CallOK
  <2>7. Earned(reply[x])' /\ Kept(x)'
    BY <2>2, <2>3, <2>5, <2>6 DEF Earned, Kept, NoProof
  <2>8. CallOK(x)'
    BY <2>3, <2>6 DEF CallOK
  <2>9. ProofsBound' /\ Earned(outcome.verdict)'
    BY <1>2, DiskKept, OldGains DEF StampCached
  <2>. QED
    BY <1>2, <2>7, <2>8, <2>9, OneCall DEF StampCached, TypeOK
<1>3. CASE Leave(x)
  <2>1. CallOK(x)'
    BY <1>3, DropsOK DEF Leave, Networking
  <2>2. ProofsBound'
    <3>1. At(x, "saving") => proof[x] \in Proofs /\ Bound(proof[x])
      BY DEF Holding, Evidence, CallOK
    <3>2. \A p \in late' : p \in late \/ (At(x, "saving") /\ p = proof[x])
      BY <1>3 DEF Leave
    <3>3. \A p \in published \cup late' : Bound(p)'
      BY <3>1, <3>2, OldGains, BoundGains DEF Bound
    <3>. QED
      BY <1>3, <3>3 DEF Leave, ProofsBound, Evidence
  <2>. QED
    BY <1>3, <2>1, <2>2, CallStep DEF Leave, Drops, TypeOK, Networking
<1>. QED
  BY <1>1, <1>2, <1>3

LEMMA WorldEvidence ==
  ASSUME TypeOK, Holding, Gains, Evidence,
         \/ \E p \in late : PublishLate(p)
         \/ Deliver \/ Tick \/ UNCHANGED vars
         \/ \E c \in Commitments : Anchor(c)
  PROVE  Evidence'
<1>1. UNCHANGED <<outcome, pc, digest, proof, todo, given, reply>>
  BY DEF PublishLate, Deliver, Tick, Anchor, vars
<1>2. ProofsBound'
  <2>1. ASSUME NEW p \in late, PublishLate(p) PROVE ProofsBound'
    <3>1. p \in Proofs /\ Bound(p)
      BY <2>1 DEF TypeOK, Evidence, ProofsBound
    <3>. QED
      BY <2>1, <3>1, StoreOK DEF PublishLate
  <2>. QED
    BY <2>1, DiskKept DEF Deliver, Tick, Anchor, vars
<1>3. \A x \in Calls : CallOK(x)'
  BY <1>1, CallGains DEF Evidence
<1>4. \A x \in Calls : Earned(reply[x])'
  <2>1. ASSUME NEW x \in Calls PROVE Earned(reply[x])'
    <3>1. reply[x] \in Verdicts /\ Earned(reply[x])
      BY DEF TypeOK, Evidence, Said
    <3>. QED
      BY <1>1, <3>1, EarnedGains DEF Earned, Confirmed
  <2>. QED
    BY <2>1
<1>5. \A x \in Commands : Kept(x)'
  BY <1>1, KeptGains DEF Evidence, Said
<1>. QED
  BY <1>1, <1>2, <1>3, <1>4, <1>5, OldGains DEF Evidence, Said

LEMMA RestartEvidence ==
  ASSUME TypeOK, Holding, Gains, Evidence, Restart
  PROVE  Evidence'
<1>1. ProofsBound'
  BY DiskKept DEF Restart
<1>2. ASSUME NEW x \in Calls PROVE CallOK(x)'
  <2>1. CASE x \in Requests /\ ~ At(x, "idle")
    <3>1. given[x] = NoProof
      BY <2>1, OtsParameters DEF Evidence, CallOK
    <3>. QED
      BY <2>1, <3>1 DEF Restart, CallOK
  <2>2. CASE ~ (x \in Requests /\ ~ At(x, "idle"))
    <3>1. /\ pc'[x] = pc[x] /\ digest'[x] = digest[x] /\ proof'[x] = proof[x]
          /\ todo'[x] = todo[x] /\ given'[x] = given[x]
      BY <2>2 DEF Restart, TypeOK
    <3>. QED
      BY <3>1, CallGains DEF Evidence
  <2>. QED
    BY <2>1, <2>2
<1>3. Said'
  <2>1. Earned(outcome.verdict)'
    BY DEF Restart, Earned, Nothing
  <2>2. ASSUME NEW x \in Calls PROVE Earned(reply[x])'
    <3>1. reply[x] \in Verdicts /\ Earned(reply[x])
      BY DEF TypeOK, Evidence, Said
    <3>. QED
      BY <3>1, EarnedGains DEF Restart, Earned, Confirmed
  <2>3. ASSUME NEW x \in Commands PROVE Kept(x)'
    BY KeptGains DEF Restart, Evidence, Said, Calls
  <2>. QED
    BY <2>1, <2>2, <2>3 DEF Said
<1>. QED
  BY <1>1, <1>2, <1>3 DEF Evidence

LEMMA EvidenceStep == TypeOK /\ Holding /\ Evidence /\ [Next]_vars => Evidence'
<1>. SUFFICES ASSUME TypeOK, Holding, Evidence, [Next]_vars PROVE Evidence'
  OBVIOUS
<1>1. Gains
  BY StepGains
<1>2. ASSUME NEW x \in Calls, Fails(x), pc[x] # "over", UNCHANGED disk PROVE Evidence'
  BY <1>1, <1>2, DiskKept, FailsEvidence
<1>3. ASSUME NEW x \in Calls, Step(x) PROVE Evidence'
  <2>1. CASE RateLimited(x) \/ CheckForged(x) \/ NetworkFails(x)
    BY <1>2, <2>1 DEF RateLimited, CheckForged, NetworkFails, Networking
  <2>. QED
    BY <1>1, <1>3, <2>1, StampEvidence, SubmittedEvidence, SaveEvidence, SavedEvidence,
       ReportEvidence, BodyEvidence, UpgradeEvidence, CheckEvidence, QuietEvidence DEF Step
<1>. QED
  BY <1>1, <1>3, WorldEvidence, RestartEvidence DEF Next

LEMMA Always == Spec => [](TypeOK /\ Holding /\ Evidence)
<1>1. Init => TypeOK /\ Holding /\ Evidence
  BY TypeInit, EvidenceInit
<1>2. TypeOK /\ Holding /\ Evidence /\ [Next]_vars => (TypeOK /\ Holding /\ Evidence)'
  BY TypeStep, HoldingStep, EvidenceStep
<1>. QED
  BY <1>1, <1>2, PTL DEF Spec

LEMMA ToldEarned ==
  ASSUME TypeOK, Evidence, NEW v \in Told
  PROVE  v.says # "none" => Earned(v)
<1>1. CASE \E x \in Calls : v = reply[x]
  BY <1>1 DEF Evidence, Said
<1>2. ASSUME NEW d \in Digests, v = Status(d) PROVE v.says # "none" => Earned(v)
  BY <1>2 DEF Status, Verdict, Evidence, Said
<1>. QED
  BY <1>1, <1>2 DEF Told

\* Nothing is said to be verified that no Bitcoin block commits to.
THEOREM NoFalseTimestamp == Spec => []VerifiedIsConfirmed
<1>1. TypeOK /\ Evidence => VerifiedIsConfirmed
  BY ToldEarned DEF VerifiedIsConfirmed, Earned
<1>. QED
  BY <1>1, Always, PTL

\* A receipt somebody was told of is in the proof directory.
THEOREM ReceiptsKept == Spec => []ReportedIsStored
<1>1. TypeOK /\ Evidence => ReportedIsStored
  BY ToldEarned DEF ReportedIsStored, Earned, Evidence, Said, Kept
<1>. QED
  BY <1>1, Always, PTL

-----------------------------------------------------------------------------
(* The interval. *)

\* What was spent is covered by the time that passed and the time still owed.
Credit == Interval * submissions <= ticks + wait

LEMMA CreditStep == TypeOK /\ Credit /\ [Next]_vars => Credit'
<1>. SUFFICES ASSUME TypeOK, Credit, [Next]_vars PROVE Credit'
  OBVIOUS
<1>1. Interval \in Nat /\ submissions \in Nat /\ ticks \in Nat /\ wait \in Nat /\ wait <= Interval
  BY OtsParameters DEF TypeOK
<1>2. ASSUME NEW x \in Calls, Admit(x) PROVE Credit'
  <2>1. wait = 0 /\ wait' = Interval /\ submissions' = submissions + 1 /\ ticks' = ticks
    BY <1>2 DEF Admit
  <2>2. Interval * (submissions + 1) = Interval * submissions + Interval
    BY <1>1
  <2>3. Interval * submissions \in Nat
    BY <1>1
  <2>. QED
    BY <1>1, <2>1, <2>2, <2>3 DEF Credit
<1>3. ASSUME NEW x \in Calls, Step(x), ~ Admit(x) PROVE Credit'
  BY <1>3 DEF Credit, Step, Select, RateLimited, Submitted, Publish, SaveFails, Saved, Verify,
     VerifyRefused, VerifyFile, StampCached, StampFile, Upgrade, CheckBlock, Upgraded, CheckForged,
     Report, Keep, NetworkFails, Leave, Fails, Succeeds, Drops, Start
<1>4. CASE Tick
  <2>1. ticks' + wait' >= ticks + wait /\ submissions' = submissions
    BY <1>1, <1>4 DEF Tick
  <2>2. Interval * submissions \in Nat /\ ticks' + wait' \in Nat
    BY <1>1, <1>4 DEF Tick
  <2>. QED
    BY <1>1, <2>1, <2>2 DEF Credit
<1>5. CASE Restart
  BY <1>1, <1>5 DEF Restart, Credit
<1>6. CASE \/ \E p \in late : PublishLate(p)
          \/ Deliver \/ UNCHANGED vars
          \/ \E c \in Commitments : Anchor(c)
  BY <1>6 DEF Credit, PublishLate, Deliver, Anchor, vars
<1>. QED
  BY <1>2, <1>3, <1>4, <1>5, <1>6 DEF Next

\* The dashboard never submits more often than its interval allows.
THEOREM RateKept == Spec => []AdmissionRate
<1>1. Init => Credit
  BY OtsParameters DEF Init, Credit
<1>2. TypeOK /\ Credit => AdmissionRate
  <2>. SUFFICES ASSUME TypeOK, Credit PROVE AdmissionRate
    OBVIOUS
  <2>1. Interval \in Nat /\ submissions \in Nat /\ ticks \in Nat /\ wait \in Nat /\ wait <= Interval
    BY OtsParameters DEF TypeOK
  <2>2. Interval * submissions \in Nat
    BY <2>1
  <2>. QED
    BY <2>1, <2>2 DEF Credit, AdmissionRate
<1>. QED
  BY <1>1, <1>2, CreditStep, TypeCorrect, PTL DEF Spec

-----------------------------------------------------------------------------
(* The verdict shown. *)

LEMMA ErrorKeepsVerdict ==
  ASSUME NEW d, RecordError(d)
  PROVE  \/ outcome'.verdict = outcome.verdict
         \/ outcome.verdict = Nothing /\ outcome'.verdict.says = "none"
  BY DEF RecordError, Verdict

LEMMA SuccessShown ==
  ASSUME TypeOK, NEW x \in Calls, NEW what, Succeeds(x, what), pc[x] # "over"
  PROVE  \/ outcome'.verdict = outcome.verdict
         \/ \E y \in Requests : ~ At(y, "over") /\ At(y, "over")' /\ outcome'.verdict = reply'[y]
  BY DEF TypeOK, Succeeds, Drops

\* What VerdictsChangeOnSuccess allows a step.
Shown ==
  \/ outcome'.verdict = outcome.verdict
  \/ \E x \in Requests : ~ At(x, "over") /\ At(x, "over")' /\ outcome'.verdict = reply'[x]
  \/ outcome.verdict = Nothing /\ outcome'.verdict.says = "none"
  \/ starts' # starts

LEMMA FailureShown == ASSUME NEW x \in Calls, Fails(x) PROVE Shown
<1>1. CASE x \in Requests
  <2>1. RecordError(digest[x])
    BY <1>1 DEF Fails
  <2>. QED
    BY <2>1, ErrorKeepsVerdict DEF Shown
<1>2. CASE x \notin Requests
  BY <1>2 DEF Fails, Shown
<1>. QED
  BY <1>1, <1>2

LEMMA StepShown == ASSUME TypeOK, NEW x \in Calls, Step(x) PROVE Shown
<1>1. CASE RateLimited(x) \/ CheckForged(x) \/ NetworkFails(x) \/ SaveFails(x)
  BY <1>1, FailureShown DEF RateLimited, CheckForged, NetworkFails, SaveFails
<1>2. CASE Saved(x) \/ Report(x)
  <2>1. PICK what : Succeeds(x, what)
    BY <1>2 DEF Saved, Report
  <2>2. pc[x] # "over"
    BY <1>2 DEF Saved, Report, At
  <2>. QED
    BY <2>1, <2>2, SuccessShown DEF Shown
<1>3. CASE VerifyRefused(x)
  <2>1. PICK d \in Digests : RecordError(d)
    BY <1>3 DEF VerifyRefused
  <2>. QED
    BY <2>1, ErrorKeepsVerdict DEF Shown
<1>4. ASSUME ~ RateLimited(x), ~ CheckForged(x), ~ NetworkFails(x), ~ SaveFails(x),
             ~ Saved(x), ~ Report(x), ~ VerifyRefused(x)
      PROVE  outcome' = outcome
  BY <1>4 DEF Step, Select, Admit, Submitted, Publish, Verify, VerifyFile,
     StampCached, StampFile, Upgrade, CheckBlock, Upgraded, Keep, Leave, Start
<1>. QED
  BY <1>1, <1>2, <1>3, <1>4 DEF Shown

\* Only success changes the verdict the dashboard shows.
THEOREM VerdictKept == Spec => VerdictsChangeOnSuccess
<1>1. TypeOK /\ [Next]_vars => [Shown]_vars
  <2>. SUFFICES ASSUME TypeOK, Next PROVE Shown
    OBVIOUS
  <2>1. CASE Restart
    <3>1. starts' = starts + 1 /\ starts \in Nat
      BY <2>1 DEF Restart, TypeOK
    <3>2. starts' # starts
      BY <3>1
    <3>. QED
      BY <3>2 DEF Shown
  <2>2. CASE \/ \E p \in late : PublishLate(p)
            \/ Deliver \/ Tick
            \/ \E c \in Commitments : Anchor(c)
    BY <2>2 DEF PublishLate, Deliver, Tick, Anchor, Shown
  <2>3. CASE \E x \in Calls : Step(x)
    BY <2>3, StepShown
  <2>. QED
    BY <2>1, <2>2, <2>3 DEF Next
<1>. QED
  BY <1>1, TypeCorrect, PTL DEF Spec, VerdictsChangeOnSuccess, Shown

=============================================================================
