--------------------------- MODULE Pipelines_proofs ---------------------------
(***************************************************************************)
(* Proofs about the two pipelines.  The live one, for every number of      *)
(* encoders, polls and digest readers, every queue capacity and every      *)
(* bound on the artifacts.  The GStreamer bridge, for any number of        *)
(* frames, any queue length and any patience: a call that reports success  *)
(* has delivered every selected frame, whatever happens in between.        *)
(***************************************************************************)
EXTENDS FramePipeline, GstBridge, FiniteSetTheorems, SequenceTheorems, TLAPS

-----------------------------------------------------------------------------
(* The live pipeline.                                                      *)

TypeInv == TypeOK /\ Locals

\* The types hold together with what each position says of the actor's locals: a pushed
\* job carries a revision only because it was taken before the job was made.
LEMMA TypeInvHolds == Spec => []TypeInv
<1> USE ActorsAssumption, BoundsAssumption
    DEF TypeInv, TypeOK, Locals, Encoders, Media, Revisions, Verdicts, NoReply
<1>1. Init => TypeInv
  BY DEF Init
<1>2. TypeInv /\ [Next]_vars => TypeInv'
  <2> SUFFICES ASSUME TypeInv, [Next]_vars PROVE TypeInv'
    OBVIOUS
  <2> USE DEF encoderVars, verifyVars, pollVars, Goto, StepPoll
  <2>1. ASSUME NEW e \in Encoders, Admit(e) PROVE TypeInv'
    BY <2>1 DEF Admit
  <2>2. ASSUME NEW e \in Encoders, FailEncode(e) PROVE TypeInv'
    BY <2>2 DEF FailEncode
  <2>3. ASSUME NEW e \in Encoders, LockCache(e) PROVE TypeInv'
    BY <2>3 DEF LockCache, Medium
  <2>4. ASSUME NEW e \in Encoders, TakeRevision(e) PROVE TypeInv'
    BY <2>4 DEF TakeRevision
  <2>5. ASSUME NEW e \in Encoders, StoreFrame(e) PROVE TypeInv'
    BY <2>5 DEF StoreFrame
  <2>6. ASSUME NEW e \in Encoders, StoreAudio(e) PROVE TypeInv'
    BY <2>6 DEF StoreAudio
  <2>7. ASSUME NEW e \in Encoders, Enqueue(e) PROVE TypeInv'
    BY <2>7 DEF Enqueue, PushJob
  <2>8. ASSUME NEW e \in Encoders, EvictOldest(e) PROVE TypeInv'
    <3>1. queue # <<>> /\ Head(queue) \in Revisions
      BY <2>8 DEF EvictOldest
    <3>2. Tail(queue) \in Seq(Revisions) /\ Len(Tail(queue)) < VERIFY_QUEUE_CAP
      BY <3>1
    <3>3. QED
      BY <2>8, <3>1, <3>2 DEF EvictOldest
  <2>9. ASSUME NEW e \in Encoders, EnqueueAfterEvict(e) PROVE TypeInv'
    BY <2>9 DEF EnqueueAfterEvict, PushJob, Notify
  <2>10. ASSUME NEW e \in Encoders, Reply(e) PROVE TypeInv'
    BY <2>10 DEF Reply
  <2>11. CASE TakeJob
    <3>1. Head(queue) \in Revisions
      BY <2>11 DEF TakeJob
    <3>2. Tail(queue) \in Seq(Revisions) /\ Len(Tail(queue)) < Len(queue)
      BY <2>11 DEF TakeJob
    <3>3. QED
      BY <2>11, <3>1, <3>2 DEF TakeJob
  <2>12. CASE WaitForJob \/ SpuriousWake \/ RunVerify \/ NotifyPublished
    <3>1. CASE WaitForJob
      BY <3>1 DEF WaitForJob
    <3>2. CASE SpuriousWake
      BY <3>2 DEF SpuriousWake
    <3>3. CASE RunVerify
      BY <3>3 DEF RunVerify
    <3>4. CASE NotifyPublished
      BY <3>4 DEF NotifyPublished, Notify
    <3>5. QED
      BY <2>12, <3>1, <3>2, <3>3, <3>4
  <2>13. ASSUME NEW p \in Pollers, PollClone(p) PROVE TypeInv'
    BY <2>13 DEF PollClone
  <2>14. ASSUME NEW p \in Pollers, Register(p) \/ InspectEmpty(p) \/ Sleep(p) \/ Wake(p)
         PROVE TypeInv'
    <3>1. CASE Register(p)
      BY <3>1 DEF Register
    <3>2. CASE InspectEmpty(p)
      BY <3>2 DEF InspectEmpty
    <3>3. CASE Sleep(p)
      BY <3>3 DEF Sleep
    <3>4. CASE Wake(p)
      BY <3>4 DEF Wake
    <3>5. QED
      BY <2>14, <3>1, <3>2, <3>3, <3>4
  <2>15. ASSUME NEW p \in Pollers, InspectOutcome(p) \/ InspectDropped(p) \/ Timeout(p)
         PROVE TypeInv'
    <3>1. PICK v \in Verdicts \cup {"stale"} : Answer(p, v)
      BY <2>15 DEF InspectOutcome, InspectDropped, Timeout
    <3>2. [rev |-> asked[p], verdict |-> v]
            \in [rev : 0..MaxRevision, verdict : Verdicts \cup {"stale"}]
      BY <3>1
    <3>3. answer' \in [Pollers -> [rev : 0..MaxRevision, verdict : Verdicts \cup {"stale"}]]
      BY <3>1, <3>2 DEF Answer
    <3>4. /\ UNCHANGED <<encoderVars, verifyVars, dpc>>
          /\ waiters' = waiters \ {p}
          /\ asked' = [asked EXCEPT ![p] = 0]
          /\ known' = [known EXCEPT ![p] = "none"]
          /\ ppc' = [ppc EXCEPT ![p] = "idle"]
      BY <3>1 DEF Answer
    <3>5. /\ asked' \in [Pollers -> 0..MaxRevision]
          /\ known' \in [Pollers -> Verdicts]
          /\ ppc' \in [Pollers -> {"idle", "register", "inspect", "inspectDropped", "sleeping"}]
      BY <3>4
    <3>6. TypeOK'
      BY <3>3, <3>4, <3>5
    <3>7. Locals'
      BY <3>4, <3>5
    <3>8. QED
      BY <3>6, <3>7
  <2>16. ASSUME NEW d \in DigestReaders, ReadDigest(d) PROVE TypeInv'
    <3>1. PICK m \in Media, to \in {"video", "both"} :
            \/ DigestLock(d, "idle", m, to)
            \/ DigestLock(d, "video", m, to)
            \/ DigestRead(d)
      BY <2>16 DEF ReadDigest, DigestLockVideo, DigestLockAudio
    <3>2. CASE DigestRead(d)
      BY <3>2 DEF DigestRead
    <3>3. CASE ~DigestRead(d)
      <4>1. /\ cacheLock' = [cacheLock EXCEPT ![m] = d]
            /\ dpc' = [dpc EXCEPT ![d] = to]
            /\ UNCHANGED <<pc, rev, cacheRev, last, verifyVars, pollVars>>
        BY <3>1, <3>3 DEF DigestLock
      <4>2. cacheLock' \in [Media -> {NoOne} \cup Encoders \cup DigestReaders]
        BY <4>1
      <4>3. dpc' \in [DigestReaders -> {"idle", "video", "both"}]
        BY <4>1
      <4>4. QED
        BY <4>1, <4>2, <4>3
    <3>4. QED
      BY <3>2, <3>3
  <2>17. CASE UNCHANGED vars
    BY <2>17 DEF vars
  <2>18. QED
    BY <2>1, <2>2, <2>3, <2>4, <2>5, <2>6, <2>7, <2>8, <2>9, <2>10, <2>11, <2>12, <2>13,
       <2>14, <2>15, <2>16, <2>17 DEF Next, Encode, Worker, Poll, PollStep
<1>3. QED
  BY <1>1, <1>2, PTL DEF Spec

\* Type correctness: every variable keeps its type, and the verification queue never
\* exceeds VERIFY_QUEUE_CAP (push_verify evicts before it pushes).
THEOREM TypeCorrect == Spec => []TypeOK
  BY TypeInvHolds, PTL DEF TypeInv

-----------------------------------------------------------------------------
(* The mutexes and the shared revision counter.                            *)

\* The steps that leave encoders, caches and digest readers alone.
LEMMA VerifyAndPollFrame ==
  ASSUME Worker \/ (\E p \in Pollers : Poll(p)) \/ UNCHANGED vars
  PROVE  UNCHANGED <<encoderVars, dpc>>
  BY DEF Worker, TakeJob, WaitForJob, SpuriousWake, RunVerify, NotifyPublished, Poll,
     PollClone, PollStep, Register, InspectOutcome, InspectEmpty, InspectDropped, Sleep,
     Wake, Timeout, Answer, vars

\* Mutual exclusion of the two caches: an encoder between lock and store, and a digest
\* reader that holds a guard, own the mutex of the cache they are at.
LEMMA LocksHeldHolds == Spec => []LocksHeld
<1> USE ActorsAssumption DEF LocksHeld, TypeInv, TypeOK, Encoders, Media, Medium
<1>1. Init => LocksHeld
  BY DEF Init
<1>2. TypeInv /\ LocksHeld /\ [Next]_vars => LocksHeld'
  <2> SUFFICES ASSUME TypeInv, LocksHeld, [Next]_vars PROVE LocksHeld'
    OBVIOUS
  <2> USE DEF Goto
  <2>1. ASSUME NEW e \in Encoders, LockCache(e) PROVE LocksHeld'
    BY <2>1 DEF LockCache
  <2>2. ASSUME NEW e \in Encoders, StoreFrame(e) PROVE LocksHeld'
    BY <2>2 DEF StoreFrame
  <2>3. ASSUME NEW e \in Encoders, Reply(e) PROVE LocksHeld'
    BY <2>3 DEF Reply
  <2>4. ASSUME NEW e \in Encoders, Admit(e) \/ FailEncode(e) \/ TakeRevision(e) \/ StoreAudio(e)
        PROVE LocksHeld'
    BY <2>4 DEF Admit, FailEncode, TakeRevision, StoreAudio
  <2>5. ASSUME NEW e \in Encoders, Enqueue(e) \/ EvictOldest(e) \/ EnqueueAfterEvict(e)
        PROVE LocksHeld'
    BY <2>5 DEF Enqueue, EvictOldest, EnqueueAfterEvict, PushJob
  <2>6. ASSUME NEW d \in DigestReaders, DigestLockVideo(d) PROVE LocksHeld'
    BY <2>6 DEF DigestLockVideo, DigestLock
  <2>7. ASSUME NEW d \in DigestReaders, DigestLockAudio(d) PROVE LocksHeld'
    BY <2>7 DEF DigestLockAudio, DigestLock
  <2>8. ASSUME NEW d \in DigestReaders, DigestRead(d) PROVE LocksHeld'
    BY <2>8 DEF DigestRead
  <2>9. CASE Worker \/ (\E p \in Pollers : Poll(p)) \/ UNCHANGED vars
    BY <2>9, VerifyAndPollFrame DEF encoderVars
  <2>10. QED
    BY <2>1, <2>2, <2>3, <2>4, <2>5, <2>6, <2>7, <2>8, <2>9 DEF Next, Encode, ReadDigest
<1>3. QED
  BY <1>1, <1>2, TypeInvHolds, PTL DEF Spec

\* The encoders between taking and storing a revision are the same, with the same ones.
SameRevised ==
  \A e \in Encoders : /\ pc'[e] = "revised" <=> pc[e] = "revised"
                      /\ pc[e] = "revised" => rev'[e] = rev[e]

\* Only taking and storing a revision touches what RevisionsKept speaks of.
LEMMA RevisedFrame ==
  ASSUME TypeOK, [Next]_vars
  PROVE  \/ UNCHANGED <<cacheRev, last>> /\ SameRevised
         \/ \E e \in Encoders : TakeRevision(e) \/ StoreFrame(e) \/ StoreAudio(e)
<1> USE DEF TypeOK, SameRevised, Goto
<1>1. ASSUME NEW e \in Encoders, Admit(e) \/ FailEncode(e) \/ LockCache(e)
      PROVE UNCHANGED <<cacheRev, last>> /\ SameRevised
  BY <1>1 DEF Admit, FailEncode, LockCache
<1>2. ASSUME NEW e \in Encoders, Reply(e)
      PROVE UNCHANGED <<cacheRev, last>> /\ SameRevised
  BY <1>2 DEF Reply
<1>3. ASSUME NEW e \in Encoders, Enqueue(e) \/ EvictOldest(e) \/ EnqueueAfterEvict(e)
      PROVE UNCHANGED <<cacheRev, last>> /\ SameRevised
  BY <1>3 DEF Enqueue, EvictOldest, EnqueueAfterEvict, PushJob
<1>4. ASSUME NEW d \in DigestReaders, ReadDigest(d)
      PROVE UNCHANGED <<cacheRev, last>> /\ SameRevised
  BY <1>4 DEF ReadDigest, DigestLockVideo, DigestLockAudio, DigestLock, DigestRead
<1>5. CASE Worker \/ (\E p \in Pollers : Poll(p)) \/ UNCHANGED vars
  BY <1>5, VerifyAndPollFrame DEF encoderVars
<1>6. QED
  BY <1>1, <1>2, <1>3, <1>4, <1>5 DEF Next, Encode

\* No revision is ever lost between CACHE_REVISION and the caches.
LEMMA RevisionsKeptHolds == Spec => []RevisionsKept
<1> USE ActorsAssumption, BoundsAssumption
    DEF RevisionsKept, TypeInv, TypeOK, Encoders, Media, Medium
<1>1. Init => RevisionsKept
  BY DEF Init
<1>2. TypeInv /\ LocksHeld /\ RevisionsKept /\ [Next]_vars => RevisionsKept'
  <2> SUFFICES ASSUME TypeInv, LocksHeld, RevisionsKept, [Next]_vars PROVE RevisionsKept'
    OBVIOUS
  <2> USE DEF Goto
  <2>1. ASSUME NEW e \in Encoders, TakeRevision(e) PROVE RevisionsKept'
    BY <2>1 DEF TakeRevision
  <2>2. ASSUME NEW e \in Encoders, StoreFrame(e) PROVE RevisionsKept'
    BY <2>2 DEF StoreFrame, LocksHeld
  <2>3. ASSUME NEW e \in Encoders, StoreAudio(e) PROVE RevisionsKept'
    BY <2>3 DEF StoreAudio, LocksHeld
  <2>4. ASSUME UNCHANGED <<cacheRev, last>>, SameRevised PROVE RevisionsKept'
    <3>1. /\ \A m \in Media : last'[m] <= cacheRev'
          /\ \A e \in Encoders : pc'[e] = "revised" =>
               rev'[e] <= cacheRev' /\ rev'[e] > last'[Medium(e)]
      BY <2>4 DEF SameRevised
    <3>2. \/ cacheRev' \in {last'["video"], last'["audio"]}
          \/ \E e \in Encoders : pc'[e] = "revised" /\ rev'[e] = cacheRev'
      BY <2>4 DEF SameRevised
    <3>3. QED
      BY <3>1, <3>2
  <2>5. CASE UNCHANGED <<cacheRev, last>> /\ SameRevised
    BY <2>4, <2>5
  <2>6. QED
    BY <2>1, <2>2, <2>3, <2>5, RevisedFrame DEF TypeInv
<1>3. QED
  BY <1>1, <1>2, TypeInvHolds, LocksHeldHolds, PTL DEF Spec

\* latest_media_digest returns the newest artifact of both media: while it holds both
\* mutexes no encoder is between fetch_add and the store, so the counter is cached.
THEOREM DigestReadsNewest == Spec => []DigestIsNewest
<1>1. TypeInv /\ LocksHeld /\ RevisionsKept => DigestIsNewest
  <2> SUFFICES ASSUME TypeInv, LocksHeld, RevisionsKept,
                      NEW d \in DigestReaders, dpc[d] = "both"
               PROVE NewestArtifact = cacheRev
    BY DEF DigestIsNewest
  <2>1. \A e \in Encoders : pc[e] # "revised"
    BY ActorsAssumption DEF LocksHeld, Medium, Encoders
  <2>2. /\ cacheRev \in {last["video"], last["audio"]}
        /\ last["video"] <= cacheRev /\ last["audio"] <= cacheRev
    BY <2>1 DEF RevisionsKept, Media
  <2>3. last["video"] \in Nat /\ last["audio"] \in Nat /\ cacheRev \in Nat
    BY BoundsAssumption DEF TypeInv, TypeOK, Media
  <2>4. QED
    BY <2>2, <2>3 DEF NewestArtifact
<1>2. QED
  BY <1>1, TypeInvHolds, LocksHeldHolds, RevisionsKeptHolds, PTL

-----------------------------------------------------------------------------
(* Notifications.                                                          *)

\* Only cloning the cache and leaving wait_for change what a poll asks about.
LEMMA AskedFrame ==
  ASSUME TypeOK, [Next]_vars
  PROVE  \/ asked' = asked
         \/ /\ UNCHANGED encoderVars
            /\ \/ \E p \in Pollers : PollClone(p)
               \/ \E p \in Pollers : asked' = [asked EXCEPT ![p] = 0]
<1>1. ASSUME NEW e \in Encoders, Encode(e) PROVE asked' = asked
  BY <1>1 DEF Encode, Admit, FailEncode, LockCache, TakeRevision, StoreFrame, StoreAudio,
     Enqueue, EvictOldest, EnqueueAfterEvict, Reply, pollVars
<1>2. CASE Worker
  BY <1>2 DEF Worker, TakeJob, WaitForJob, SpuriousWake, RunVerify, NotifyPublished, pollVars
<1>3. ASSUME NEW d \in DigestReaders, ReadDigest(d) PROVE asked' = asked
  BY <1>3 DEF ReadDigest, DigestLockVideo, DigestLockAudio, DigestLock, DigestRead, pollVars
<1>4. ASSUME NEW p \in Pollers, Poll(p)
      PROVE asked' = asked \/ PollClone(p)
            \/ (asked' = [asked EXCEPT ![p] = 0] /\ UNCHANGED encoderVars)
  BY <1>4 DEF Poll, PollStep, Register, InspectOutcome, InspectEmpty, InspectDropped,
     Sleep, Wake, Timeout, Answer
<1>5. ASSUME NEW p \in Pollers, PollClone(p) PROVE UNCHANGED encoderVars
  BY <1>5 DEF PollClone
<1>6. CASE UNCHANGED vars
  BY <1>6 DEF vars, pollVars
<1>7. QED
  BY <1>1, <1>2, <1>3, <1>4, <1>5, <1>6 DEF Next

\* Nobody can ask about an artifact before its encoder cached it.
LEMMA RevisionsFreshHolds == Spec => []RevisionsFresh
<1> USE ActorsAssumption, BoundsAssumption
    DEF RevisionsFresh, TypeInv, TypeOK, Encoders, Media, Medium
<1>1. Init => RevisionsFresh
  BY DEF Init
<1>2. TypeInv /\ RevisionsKept /\ RevisionsFresh /\ [Next]_vars => RevisionsFresh'
  <2> SUFFICES ASSUME TypeInv, RevisionsKept, RevisionsFresh, [Next]_vars
               PROVE RevisionsFresh'
    OBVIOUS
  <2> USE DEF Goto
  <2>1. ASSUME NEW e \in Encoders, TakeRevision(e) PROVE RevisionsFresh'
    BY <2>1 DEF TakeRevision, pollVars, RevisionsKept
  <2>2. ASSUME NEW e \in Encoders, StoreFrame(e) \/ StoreAudio(e) PROVE RevisionsFresh'
    <3>1. asked' = asked /\ rev' = rev /\ cacheRev' = cacheRev
      BY <2>2 DEF StoreFrame, StoreAudio, pollVars
    <3>2. \A f \in Encoders : pc'[f] = "revised" => f # e /\ pc[f] = "revised"
      BY <2>2 DEF StoreFrame, StoreAudio
    <3>3. \A m \in Media : last'[m] \in {last[m], rev[e]}
      BY <2>2 DEF StoreFrame, StoreAudio
    <3>4. pc[e] = "revised"
      BY <2>2 DEF StoreFrame, StoreAudio
    <3>5. QED
      BY <3>1, <3>2, <3>3, <3>4
  <2>3. CASE UNCHANGED <<cacheRev, last>> /\ SameRevised /\ asked' = asked
    BY <2>3 DEF SameRevised
  <2>4. ASSUME NEW p \in Pollers, PollClone(p) PROVE RevisionsFresh'
    <3>1. PICK m \in Media : asked' = [asked EXCEPT ![p] = last[m]]
      BY <2>4 DEF PollClone
    <3>2. QED
      BY <2>4, <3>1 DEF PollClone, encoderVars, RevisionsKept
  <2>5. ASSUME NEW p \in Pollers, asked' = [asked EXCEPT ![p] = 0], UNCHANGED encoderVars
        PROVE RevisionsFresh'
    BY <2>5 DEF encoderVars, Locals, Revisions
  <2>6. QED
    BY <2>1, <2>2, <2>3, <2>4, <2>5, RevisedFrame, AskedFrame
       DEF encoderVars
<1>3. QED
  BY <1>1, <1>2, TypeInvHolds, RevisionsKeptHolds, PTL DEF Spec

\* The notification discipline of VerifySlot, as a property of every registered poll.
LEMMA WakeupsPendingHolds == Spec => []WakeupsPending
<1> USE ActorsAssumption, BoundsAssumption
    DEF WakeupsPending, TypeInv, TypeOK, Encoders, Revisions
<1>1. Init => WakeupsPending
  BY DEF Init
<1>2. TypeInv /\ RevisionsFresh /\ WakeupsPending /\ [Next]_vars => WakeupsPending'
  <2> SUFFICES ASSUME TypeInv, RevisionsFresh, WakeupsPending, [Next]_vars
               PROVE WakeupsPending'
    OBVIOUS
  <2> USE DEF Goto, StepPoll, pollVars, verifyVars, encoderVars
  <2>a. ASSUME UNCHANGED <<verifyVars, pollVars>>,
               \A f \in Encoders : pc[f] = "evicting" => pc'[f] = "evicting"
        PROVE WakeupsPending'
    BY <2>a
  <2>1. ASSUME NEW e \in Encoders,
               Admit(e) \/ FailEncode(e) \/ LockCache(e) \/ TakeRevision(e) \/ StoreFrame(e)
               \/ Reply(e)
        PROVE WakeupsPending'
    <3>1. UNCHANGED <<verifyVars, pollVars>>
      BY <2>1 DEF Admit, FailEncode, LockCache, TakeRevision, StoreFrame, Reply
    <3>2. \A f \in Encoders : pc[f] = "evicting" => pc'[f] = "evicting"
      BY <2>1 DEF Admit, FailEncode, LockCache, TakeRevision, StoreFrame, Reply
    <3>3. QED
      BY <3>1, <3>2, <2>a
  <2>2. ASSUME NEW e \in Encoders, StoreAudio(e) PROVE WakeupsPending'
    BY <2>2 DEF StoreAudio, RevisionsFresh
  <2>3. ASSUME NEW e \in Encoders, Enqueue(e) PROVE WakeupsPending'
    BY <2>3 DEF Enqueue, PushJob
  <2>4. ASSUME NEW e \in Encoders, EvictOldest(e) PROVE WakeupsPending'
    <3>1. \A f \in Encoders : pc[f] # "evicting"
      BY <2>4 DEF EvictOldest, Locals
    <3>2. Head(queue) \in Revisions /\ e \in VideoEncoders
      BY <2>4 DEF EvictOldest, Locals
    <3>3. QED
      BY <2>4, <3>1, <3>2 DEF EvictOldest
  <2>5. ASSUME NEW e \in Encoders, EnqueueAfterEvict(e) PROVE WakeupsPending'
    BY <2>5 DEF EnqueueAfterEvict, PushJob, Notify
  <2>6. CASE TakeJob \/ WaitForJob \/ SpuriousWake
    BY <2>6 DEF TakeJob, WaitForJob, SpuriousWake
  <2>7. CASE RunVerify
    BY <2>7 DEF RunVerify
  <2>8. CASE NotifyPublished
    BY <2>8 DEF NotifyPublished, Notify
  <2>9. ASSUME NEW p \in Pollers, PollClone(p) \/ Register(p) \/ Wake(p) PROVE WakeupsPending'
    <3>1. /\ UNCHANGED <<encoderVars, verifyVars>>
          /\ \A q \in Pollers \ {p} :
               /\ ppc'[q] = ppc[q]
               /\ asked'[q] = asked[q]
               /\ q \in waiters' => q \in waiters
          /\ ppc'[p] \in {"register", "inspect"}
          /\ waiters' \subseteq Pollers
      <4>1. CASE PollClone(p)
        BY <4>1 DEF PollClone
      <4>2. CASE Register(p)
        BY <4>2 DEF Register
      <4>3. CASE Wake(p)
        BY <4>3 DEF Wake
      <4>4. QED
        BY <2>9, <4>1, <4>2, <4>3
    <3>2. /\ UNCHANGED <<pc, wpc, job, victim, outcome, dropped>>
          /\ \A q \in waiters' : q # p =>
               q \in waiters /\ ppc'[q] = ppc[q] /\ asked'[q] = asked[q]
      BY <3>1
    <3>3. QED
      BY <3>1, <3>2
  <2>10. ASSUME NEW p \in Pollers, InspectEmpty(p) \/ Sleep(p) PROVE WakeupsPending'
    <3>1. /\ UNCHANGED <<encoderVars, verifyVars, asked, waiters>>
          /\ \A q \in Pollers \ {p} : ppc'[q] = ppc[q]
          /\ \/ ppc'[p] = "inspectDropped" /\ outcome[asked[p]] = "none"
             \/ /\ ppc[p] = "inspectDropped" /\ ppc'[p] = "sleeping"
                /\ ~dropped[asked[p]]
      BY <2>10 DEF InspectEmpty, Sleep
    <3>2. QED
      BY <3>1
  <2>11. ASSUME NEW p \in Pollers, InspectOutcome(p) \/ InspectDropped(p) \/ Timeout(p)
         PROVE WakeupsPending'
    <3>1. /\ UNCHANGED <<encoderVars, verifyVars>>
          /\ waiters' = waiters \ {p}
          /\ asked' = [asked EXCEPT ![p] = 0]
          /\ ppc' = [ppc EXCEPT ![p] = "idle"]
      BY <2>11 DEF InspectOutcome, InspectDropped, Timeout, Answer
    <3>2. QED
      BY <3>1
  <2>12. ASSUME NEW d \in DigestReaders, ReadDigest(d) PROVE WakeupsPending'
    <3>1. UNCHANGED <<pc, verifyVars, pollVars>>
      BY <2>12 DEF ReadDigest, DigestLockVideo, DigestLockAudio, DigestLock, DigestRead
    <3>2. QED
      BY <3>1, <2>a
  <2>13. CASE UNCHANGED vars
    BY <2>13 DEF vars
  <2>14. QED
    BY <2>1, <2>2, <2>3, <2>4, <2>5, <2>6, <2>7, <2>8, <2>9, <2>10, <2>11, <2>12, <2>13
       DEF Next, Encode, Worker, Poll, PollStep
<1>3. QED
  BY <1>1, <1>2, TypeInvHolds, RevisionsFreshHolds, PTL DEF Spec

\* No notification is lost: a poll asleep on a resolved slot has its wake-up under way,
\* because wait_for registers before it inspects.
THEOREM NoWakeupIsLost == Spec => []NoLostWakeup
<1>1. TypeInv /\ WakeupsPending => NoLostWakeup
  BY DEF WakeupsPending, NoLostWakeup
<1>2. QED
  BY <1>1, TypeInvHolds, WakeupsPendingHolds, PTL

-----------------------------------------------------------------------------
(* Where an artifact is.                                                   *)

Holding(e) == pc[e] \in {"revised", "stored", "evicting"}
Held(r) == \E e \in Encoders : Holding(e) /\ rev[e] = r
Queued(r) == \E i \in 1..Len(queue) : queue[i] = r
Verifying(r) == wpc = "verifying" /\ job = r

\* No artifact is in two places of one kind, or of two kinds.
Apart ==
  /\ \A e, f \in Encoders : Holding(e) /\ Holding(f) /\ rev[e] = rev[f] => e = f
  /\ \A i, j \in 1..Len(queue) : queue[i] = queue[j] => i = j
  /\ \A r \in Revisions :
       /\ ~(Held(r) /\ Queued(r)) /\ ~(Held(r) /\ Verifying(r)) /\ ~(Queued(r) /\ Verifying(r))
       /\ Resolved(r) => ~Held(r) /\ ~Queued(r) /\ ~Verifying(r)
       /\ outcome[r] # "none" => ~dropped[r]

\* An artifact is somewhere from the moment its revision is taken.
Somewhere ==
  \A r \in Revisions : r <= cacheRev <=> Held(r) \/ Queued(r) \/ Verifying(r) \/ Resolved(r)

PlaceInv == Apart /\ Somewhere

LEMMA TailFacts ==
  ASSUME NEW q \in Seq(Revisions), q # <<>>
  PROVE  /\ Len(q) \in Nat \ {0} /\ Head(q) = q[1] /\ Head(q) \in Revisions
         /\ Tail(q) \in Seq(Revisions) /\ Len(Tail(q)) = Len(q) - 1
         /\ \A i \in 1..Len(Tail(q)) : Tail(q)[i] = q[i + 1]
<1>1. Len(q) \in Nat \ {0}
  OBVIOUS
<1>2. Head(q) = q[1] /\ q[1] \in Revisions
  BY <1>1
<1>3. Tail(q) \in Seq(Revisions) /\ Len(Tail(q)) = Len(q) - 1
  BY <1>1
<1>4. \A i \in 1..Len(Tail(q)) : Tail(q)[i] = q[i + 1]
  BY <1>1, <1>3
<1>5. QED
  BY <1>1, <1>2, <1>3, <1>4

LEMMA AppendFacts ==
  ASSUME NEW q \in Seq(Revisions), NEW r \in Revisions
  PROVE  /\ Append(q, r) \in Seq(Revisions) /\ Len(Append(q, r)) = Len(q) + 1
         /\ \A i \in 1..Len(q) : Append(q, r)[i] = q[i]
         /\ Append(q, r)[Len(q) + 1] = r
BY DEF Revisions

\* What the steps do to the places, one lemma for each way an artifact moves.
LEMMA PlacesStay ==
  ASSUME PlaceInv, UNCHANGED <<cacheRev, queue, wpc, job, outcome, dropped>>,
         \A e \in Encoders : (Holding(e)' <=> Holding(e)) /\ (Holding(e) => rev'[e] = rev[e])
  PROVE  PlaceInv'
<1>1. \A r : (Held(r)' <=> Held(r)) /\ (Queued(r)' <=> Queued(r)) /\ (Verifying(r)' <=> Verifying(r))
             /\ (Resolved(r)' <=> Resolved(r))
  BY DEF Held, Queued, Verifying, Resolved
<1> QED BY <1>1 DEF PlaceInv, Apart, Somewhere

LEMMA RevisionTaken ==
  ASSUME TypeInv, PlaceInv, NEW e \in Encoders, TakeRevision(e)
  PROVE  PlaceInv'
<1> USE BoundsAssumption DEF TypeInv, TypeOK, PlaceInv, Revisions
<1>1. /\ cacheRev' = cacheRev + 1 /\ cacheRev + 1 \in Revisions
      /\ UNCHANGED <<queue, wpc, job, outcome, dropped>>
      /\ ~Holding(e) /\ Holding(e)' /\ rev'[e] = cacheRev + 1
      /\ \A f \in Encoders \ {e} : (Holding(f)' <=> Holding(f)) /\ rev'[f] = rev[f]
  BY DEF TakeRevision, Goto, verifyVars, Holding
<1>2. \A r \in Revisions : /\ Held(r)' <=> Held(r) \/ r = cacheRev + 1
                           /\ Queued(r)' <=> Queued(r)
                           /\ Verifying(r)' <=> Verifying(r)
                           /\ Resolved(r)' <=> Resolved(r)
  BY <1>1 DEF Held, Queued, Verifying, Resolved
<1>3. ~Held(cacheRev + 1) /\ ~Queued(cacheRev + 1) /\ ~Verifying(cacheRev + 1) /\ ~Resolved(cacheRev + 1)
  BY <1>1 DEF Somewhere
<1>4. Somewhere'
  BY <1>1, <1>2 DEF Somewhere
<1>5. Apart'
  <2>1. \A f \in Encoders : Holding(f) => rev[f] # cacheRev + 1
    BY <1>3 DEF Held
  <2>2. \A f, g \in Encoders : Holding(f)' /\ Holding(g)' /\ rev'[f] = rev'[g] => f = g
    BY <1>1, <2>1 DEF Apart
  <2> QED BY <1>1, <1>2, <1>3, <2>2 DEF Apart
<1> QED BY <1>4, <1>5

LEMMA VerdictGiven ==
  ASSUME TypeInv, PlaceInv, (\E e \in Encoders : StoreAudio(e)) \/ RunVerify
  PROVE  PlaceInv'
<1> USE BoundsAssumption DEF TypeInv, TypeOK, PlaceInv, Revisions, Verdicts
<1>1. PICK r \in Revisions, v \in {"ok", "fail"} :
        /\ outcome' = [outcome EXCEPT ![r] = v]
        /\ Held(r) \/ Verifying(r)
        /\ ~Held(r)' /\ ~Verifying(r)'
        /\ \A s \in Revisions \ {r} : (Held(s)' <=> Held(s)) /\ (Verifying(s)' <=> Verifying(s))
        /\ \A f \in Encoders : Holding(f)' => Holding(f) /\ rev'[f] = rev[f]
        /\ UNCHANGED <<cacheRev, queue, dropped>>
  <2>1. ASSUME NEW e \in Encoders, StoreAudio(e)
        PROVE \E r \in Revisions : 
        /\ outcome' = [outcome EXCEPT ![r] = "ok"]
        /\ Held(r) \/ Verifying(r)
        /\ ~Held(r)' /\ ~Verifying(r)'
        /\ \A s \in Revisions \ {r} : (Held(s)' <=> Held(s)) /\ (Verifying(s)' <=> Verifying(s))
        /\ \A f \in Encoders : Holding(f)' => Holding(f) /\ rev'[f] = rev[f]
        /\ UNCHANGED <<cacheRev, queue, dropped>>
    <3>1. /\ Holding(e) /\ ~Holding(e)' /\ rev' = rev /\ rev[e] \in Revisions
          /\ \A f \in Encoders \ {e} : Holding(f)' <=> Holding(f)
          /\ outcome' = [outcome EXCEPT ![rev[e]] = "ok"]
          /\ UNCHANGED <<cacheRev, queue, dropped, wpc, job>>
      BY <2>1 DEF StoreAudio, Goto, Holding, Locals
    <3>2. Held(rev[e]) /\ ~Verifying(rev[e])
      BY <3>1 DEF Held, Apart
    <3>3. ~Held(rev[e])' /\ \A s \in Revisions \ {rev[e]} : Held(s)' <=> Held(s)
      BY <3>1 DEF Held, Apart
    <3> QED BY <3>1, <3>2, <3>3 DEF Verifying
  <2>2. ASSUME RunVerify
        PROVE \E v \in {"ok", "fail"} : 
        /\ outcome' = [outcome EXCEPT ![job] = v]
        /\ job \in Revisions /\ Verifying(job)
        /\ UNCHANGED <<pc, rev, cacheRev, queue, dropped, job>>
        /\ wpc' = "notifying"
    BY <2>2 DEF RunVerify, encoderVars, Verifying, Locals
  <2>3. ASSUME RunVerify PROVE
        /\ ~Held(job)' /\ ~Verifying(job)'
        /\ \A s \in Revisions \ {job} : (Held(s)' <=> Held(s)) /\ (Verifying(s)' <=> Verifying(s))
        /\ \A f \in Encoders : Holding(f)' => Holding(f) /\ rev'[f] = rev[f]
    BY <2>2, <2>3 DEF Held, Holding, Verifying, Apart
  <2> QED BY <2>1, <2>2, <2>3
<1>2. /\ \A s \in Revisions : Queued(s)' <=> Queued(s)
      /\ \A s \in Revisions : Resolved(s)' <=> Resolved(s) \/ s = r
  BY <1>1 DEF Queued, Resolved
<1>3. ~Queued(r) /\ ~Resolved(r) /\ ~dropped[r] /\ r <= cacheRev
  BY <1>1 DEF Apart, Somewhere, Resolved
<1>4. Somewhere'
  BY <1>1, <1>2, <1>3 DEF Somewhere
<1>5. Apart'
  <2>1. \A s \in Revisions : outcome'[s] # "none" => ~dropped'[s]
    BY <1>1, <1>3 DEF Apart
  <2>2. \A s \in Revisions :
          /\ ~(Held(s)' /\ Queued(s)') /\ ~(Held(s)' /\ Verifying(s)') /\ ~(Queued(s)' /\ Verifying(s)')
          /\ Resolved(s)' => ~Held(s)' /\ ~Queued(s)' /\ ~Verifying(s)'
    BY <1>1, <1>2, <1>3 DEF Apart
  <2>3. \A f, g \in Encoders : Holding(f)' /\ Holding(g)' /\ rev'[f] = rev'[g] => f = g
    BY <1>1 DEF Apart
  <2>4. \A i, j \in 1..Len(queue') : queue'[i] = queue'[j] => i = j
    BY <1>1 DEF Apart
  <2> QED BY <2>1, <2>2, <2>3, <2>4 DEF Apart
<1> QED BY <1>4, <1>5

LEMMA JobQueued ==
  ASSUME TypeInv, PlaceInv, NEW e \in Encoders, Enqueue(e) \/ EnqueueAfterEvict(e)
  PROVE  PlaceInv'
<1> USE BoundsAssumption DEF TypeInv, TypeOK, PlaceInv, Revisions
<1> DEFINE r == rev[e]
<1>1. /\ Holding(e) /\ ~Holding(e)' /\ rev' = rev /\ r \in Revisions
      /\ \A f \in Encoders \ {e} : Holding(f)' <=> Holding(f)
      /\ queue' = Append(queue, r)
      /\ UNCHANGED <<cacheRev, job, outcome, dropped>>
      /\ wpc' = "verifying" <=> wpc = "verifying"
  BY DEF Enqueue, EnqueueAfterEvict, PushJob, Goto, Holding, Locals
<1>2. Held(r) /\ ~Queued(r) /\ ~Verifying(r) /\ ~Resolved(r)
  BY <1>1 DEF Held, Apart
<1>3. /\ Len(queue') = Len(queue) + 1 /\ Len(queue) \in Nat
      /\ \A i \in 1..Len(queue) : queue'[i] = queue[i]
      /\ queue'[Len(queue) + 1] = r
  BY <1>1, AppendFacts
<1>4. \A s \in Revisions : Queued(s)' <=> Queued(s) \/ s = r
  <2> HIDE DEF r
  <2>1. \A i \in 1..Len(queue') : i \in 1..Len(queue) \/ i = Len(queue) + 1
    BY <1>3
  <2>2. \A i \in 1..Len(queue) : i \in 1..Len(queue')
    BY <1>3
  <2>3. Len(queue) + 1 \in 1..Len(queue')
    BY <1>3
  <2> QED BY <1>3, <2>1, <2>2, <2>3 DEF Queued
<1>5. \A i, j \in 1..Len(queue') : queue'[i] = queue'[j] => i = j
  <2>1. \A i \in 1..Len(queue) : queue[i] # r
    BY <1>2 DEF Queued
  <2>2. \A i, j \in 1..Len(queue) : queue[i] = queue[j] => i = j
    BY DEF Apart
  <2>3. \A i \in 1..Len(queue') : i \in 1..Len(queue) \/ i = Len(queue) + 1
    BY <1>3
  <2> HIDE DEF r
  <2> QED BY <1>3, <2>1, <2>2, <2>3
<1>6. \A s \in Revisions : /\ Held(s)' <=> Held(s) /\ s # r
                           /\ Verifying(s)' <=> Verifying(s)
                           /\ Resolved(s)' <=> Resolved(s)
  BY <1>1 DEF Held, Verifying, Resolved, Apart
<1>7. Somewhere'
  BY <1>1, <1>2, <1>4, <1>6 DEF Somewhere
<1>8. \A f, g \in Encoders : Holding(f)' /\ Holding(g)' /\ rev'[f] = rev'[g] => f = g
  BY <1>1 DEF Apart
<1>9. Apart'
  BY <1>1, <1>2, <1>4, <1>5, <1>6, <1>8 DEF Apart
<1> QED BY <1>7, <1>9

\* The head of the queue leaves it, and nothing else does.
LEMMA HeadLeaves ==
  ASSUME TypeInv, PlaceInv, queue # <<>>, queue' = Tail(queue)
  PROVE  /\ Head(queue) \in Revisions /\ Queued(Head(queue))
         /\ \A s \in Revisions : Queued(s)' <=> Queued(s) /\ s # Head(queue)
         /\ \A i, j \in 1..Len(queue') : queue'[i] = queue'[j] => i = j
<1>1. /\ Len(queue) \in Nat \ {0} /\ Head(queue) = queue[1] /\ Head(queue) \in Revisions
      /\ Len(queue') = Len(queue) - 1
      /\ \A i \in 1..Len(queue') : queue'[i] = queue[i + 1]
  BY TailFacts DEF TypeInv, TypeOK
<1>2. \A i, j \in 1..Len(queue) : queue[i] = queue[j] => i = j
  BY DEF PlaceInv, Apart
<1>3. Queued(Head(queue))
  BY <1>1 DEF Queued
<1>4. \A s \in Revisions : Queued(s)' <=> Queued(s) /\ s # Head(queue)
  <2> SUFFICES ASSUME NEW s \in Revisions PROVE Queued(s)' <=> Queued(s) /\ s # Head(queue)
    OBVIOUS
  <2>1. ASSUME Queued(s)' PROVE Queued(s) /\ s # Head(queue)
    BY <1>1, <1>2, <2>1 DEF Queued
  <2>2. ASSUME Queued(s), s # Head(queue) PROVE Queued(s)'
    <3>1. PICK i \in 1..Len(queue) : queue[i] = s /\ i # 1
      BY <1>1, <2>2 DEF Queued
    <3>2. i - 1 \in 1..Len(queue') /\ queue'[i - 1] = queue[(i - 1) + 1]
      BY <1>1, <3>1
    <3> QED BY <3>1, <3>2 DEF Queued
  <2> QED BY <2>1, <2>2
<1>5. \A i, j \in 1..Len(queue') : queue'[i] = queue'[j] => i = j
  BY <1>1, <1>2
<1> QED BY <1>1, <1>3, <1>4, <1>5

LEMMA JobTaken ==
  ASSUME TypeInv, PlaceInv, TakeJob
  PROVE  PlaceInv'
<1> USE DEF PlaceInv
<1> DEFINE r == Head(queue)
<1>1. /\ queue # <<>> /\ queue' = Tail(queue) /\ job' = r
      /\ wpc = "locking" /\ wpc' = "verifying"
      /\ UNCHANGED <<pc, rev, cacheRev, outcome, dropped>>
  BY DEF TakeJob, encoderVars
<1>2. /\ r \in Revisions /\ Queued(r)
      /\ \A s \in Revisions : Queued(s)' <=> Queued(s) /\ s # r
      /\ \A i, j \in 1..Len(queue') : queue'[i] = queue'[j] => i = j
  BY <1>1, HeadLeaves
<1> HIDE DEF r
<1>3. \A s \in Revisions : /\ Held(s)' <=> Held(s)
                           /\ ~Verifying(s) /\ (Verifying(s)' <=> s = r)
                           /\ Resolved(s)' <=> Resolved(s)
  BY <1>1 DEF Held, Holding, Verifying, Resolved
<1>4. Somewhere'
  BY <1>1, <1>2, <1>3 DEF Somewhere
<1>5. \A e \in Encoders : (Holding(e)' <=> Holding(e)) /\ rev'[e] = rev[e]
  BY <1>1 DEF Holding
<1>6. Apart'
  BY <1>1, <1>2, <1>3, <1>5 DEF Apart
<1> QED BY <1>4, <1>6

LEMMA JobEvicted ==
  ASSUME TypeInv, PlaceInv, NEW e \in Encoders, EvictOldest(e)
  PROVE  PlaceInv'
<1> USE DEF PlaceInv
<1> DEFINE r == Head(queue)
<1>1. /\ queue # <<>> /\ queue' = Tail(queue) /\ dropped' = [dropped EXCEPT ![r] = TRUE]
      /\ UNCHANGED <<rev, cacheRev, wpc, job, outcome>>
  BY BoundsAssumption DEF EvictOldest, TypeInv, TypeOK
<1>2. \A f \in Encoders : (Holding(f)' <=> Holding(f)) /\ rev'[f] = rev[f]
  BY DEF EvictOldest, Goto, Holding, TypeInv, TypeOK
<1>3. /\ r \in Revisions /\ Queued(r)
      /\ \A s \in Revisions : Queued(s)' <=> Queued(s) /\ s # r
      /\ \A i, j \in 1..Len(queue') : queue'[i] = queue'[j] => i = j
  BY <1>1, HeadLeaves
<1>4. dropped \in [Revisions -> BOOLEAN]
  BY DEF TypeInv, TypeOK
<1> HIDE DEF r
<1>5. \A s \in Revisions : /\ Held(s)' <=> Held(s)
                           /\ Verifying(s)' <=> Verifying(s)
                           /\ Resolved(s)' <=> Resolved(s) \/ s = r
                           /\ dropped'[s] <=> dropped[s] \/ s = r
  BY <1>1, <1>2, <1>3, <1>4 DEF Held, Verifying, Resolved
<1>6. ~Resolved(r) /\ outcome[r] = "none"
  BY <1>3 DEF Apart, Resolved
<1>7. Somewhere'
  BY <1>1, <1>3, <1>5 DEF Somewhere
<1>8. Apart'
  BY <1>1, <1>2, <1>3, <1>5, <1>6 DEF Apart
<1> QED BY <1>7, <1>8

LEMMA PlaceInvHolds == Spec => []PlaceInv
<1>1. Init => PlaceInv
  BY BoundsAssumption DEF Init, PlaceInv, Apart, Somewhere, Holding, Held, Queued, Verifying,
     Resolved, Revisions
<1>2. TypeInv /\ PlaceInv /\ [Next]_vars => PlaceInv'
  <2> SUFFICES ASSUME TypeInv, PlaceInv, [Next]_vars PROVE PlaceInv'
    OBVIOUS
  <2>1. ASSUME NEW e \in Encoders, Admit(e) \/ FailEncode(e) \/ LockCache(e) \/ StoreFrame(e)
                                   \/ Reply(e)
        PROVE PlaceInv'
    <3>1. UNCHANGED <<cacheRev, queue, wpc, job, outcome, dropped>>
      BY <2>1 DEF Admit, FailEncode, LockCache, StoreFrame, Reply, verifyVars
    <3>2. \A f \in Encoders : (Holding(f)' <=> Holding(f)) /\ (Holding(f) => rev'[f] = rev[f])
      BY <2>1 DEF Admit, FailEncode, LockCache, StoreFrame, Reply, Goto, Holding, TypeInv, TypeOK
    <3> QED BY <3>1, <3>2, PlacesStay
  <2>2. CASE WaitForJob \/ SpuriousWake \/ NotifyPublished
    <3>1. UNCHANGED <<pc, rev, cacheRev, queue, outcome, dropped>>
      BY <2>2 DEF WaitForJob, SpuriousWake, NotifyPublished, encoderVars
    <3>2. wpc # "verifying" /\ wpc' # "verifying"
      BY <2>2 DEF WaitForJob, SpuriousWake, NotifyPublished
    <3>3. /\ \A r : (Held(r)' <=> Held(r)) /\ (Queued(r)' <=> Queued(r))
                    /\ (Verifying(r)' <=> Verifying(r)) /\ (Resolved(r)' <=> Resolved(r))
          /\ \A f : Holding(f)' <=> Holding(f)
      BY <3>1, <3>2 DEF Held, Holding, Queued, Verifying, Resolved
    <3> QED BY <3>1, <3>3 DEF PlaceInv, Apart, Somewhere
  <2>3. CASE (\E p \in Pollers : Poll(p)) \/ (\E d \in DigestReaders : ReadDigest(d))
             \/ UNCHANGED vars
    <3>1. UNCHANGED <<pc, rev, cacheRev, queue, wpc, job, outcome, dropped>>
      BY <2>3 DEF Poll, PollClone, PollStep, Register, InspectOutcome, InspectEmpty,
         InspectDropped, Sleep, Wake, Timeout, Answer, ReadDigest, DigestLockVideo,
         DigestLockAudio, DigestLock, DigestRead, vars, encoderVars, verifyVars
    <3> QED BY <3>1, PlacesStay DEF Holding
  <2> QED
    BY <2>1, <2>2, <2>3, RevisionTaken, VerdictGiven, JobQueued, JobTaken, JobEvicted
       DEF Next, Encode, Worker
<1>3. QED
  BY <1>1, <1>2, TypeInvHolds, PTL DEF Spec

\* No verdict is lost, given twice, or given to an artifact reported evicted: whatever
\* the encoders, the verification thread and an overloaded queue do, an artifact that has
\* a revision is in exactly one place.
THEOREM ArtifactsAreInOnePlace == Spec => []OnePlace
<1>1. TypeInv /\ PlaceInv => OnePlace
  <2> SUFFICES ASSUME TypeInv, PlaceInv, NEW r \in Revisions
               PROVE Cardinality(Places(r)) = IF r <= cacheRev THEN 1 ELSE 0
    BY DEF OnePlace
  <2> USE DEF PlaceInv
  <2>1. CASE ~(r <= cacheRev)
    <3>1. ~Held(r) /\ ~Queued(r) /\ ~Verifying(r) /\ ~Resolved(r)
      BY <2>1 DEF Somewhere
    <3>2. Places(r) = {}
      BY <3>1 DEF Places, Held, Holding, Queued, Verifying, Resolved
    <3> QED BY <2>1, <3>2, FS_EmptySet
  <2>2. CASE r <= cacheRev
    <3>1. Held(r) \/ Queued(r) \/ Verifying(r) \/ Resolved(r)
      BY <2>2 DEF Somewhere
    <3>2. \E x : Places(r) = {x}
      <4>1. CASE Held(r)
        <5>1. PICK e \in Encoders : Holding(e) /\ rev[e] = r
          BY <4>1 DEF Held
        <5>2. \A f \in Encoders : Holding(f) /\ rev[f] = r => f = e
          BY <5>1 DEF Apart
        <5>3. ~Queued(r) /\ ~Verifying(r) /\ ~Resolved(r)
          BY <4>1 DEF Apart
        <5>4. Places(r) = {<<"encoder", e>>}
          BY <5>1, <5>2, <5>3 DEF Places, Holding, Queued, Verifying, Resolved
        <5> QED BY <5>4
      <4>2. CASE Queued(r)
        <5>1. PICK i \in 1..Len(queue) : queue[i] = r
          BY <4>2 DEF Queued
        <5>2. \A j \in 1..Len(queue) : queue[j] = r => j = i
          BY <5>1 DEF Apart
        <5>3. ~Held(r) /\ ~Verifying(r) /\ ~Resolved(r)
          BY <4>2 DEF Apart
        <5>4. Places(r) = {<<"queue", i>>}
          BY <5>1, <5>2, <5>3 DEF Places, Holding, Held, Verifying, Resolved
        <5> QED BY <5>4
      <4>3. CASE Verifying(r)
        <5>1. ~Held(r) /\ ~Queued(r) /\ ~Resolved(r)
          BY <4>3 DEF Apart
        <5>2. Places(r) = {<<"worker", 0>>}
          BY <4>3, <5>1 DEF Places, Holding, Held, Queued, Verifying, Resolved
        <5> QED BY <5>2
      <4>4. CASE Resolved(r)
        <5>1. ~Held(r) /\ ~Queued(r) /\ ~Verifying(r)
          BY <4>4 DEF Apart
        <5>2. outcome[r] # "none" => ~dropped[r]
          BY DEF Apart
        <5>3. Places(r) = IF dropped[r] THEN {<<"evicted", 0>>} ELSE {<<"verdict", 0>>}
          BY <4>4, <5>1, <5>2 DEF Places, Holding, Held, Queued, Verifying, Resolved
        <5> QED BY <5>3
      <4> QED BY <3>1, <4>1, <4>2, <4>3, <4>4
    <3> QED BY <2>2, <3>2, FS_Singleton
  <2> QED BY <2>1, <2>2
<1>2. QED
  BY <1>1, TypeInvHolds, PlaceInvHolds, PTL

-----------------------------------------------------------------------------
(* The pipeline implements MediaCache.                                     *)

\* What a poll knows of the artifact it asks about: a verdict it saw does not change,
\* and it only waits if it saw none.
PollsKnow ==
  \A p \in Pollers :
    /\ ppc[p] = "idle" <=> asked[p] = 0
    /\ known[p] # "none" => asked[p] # 0 /\ outcome[asked[p]] = known[p]
    /\ ppc[p] \in {"inspectDropped", "sleeping"} => known[p] = "none"

LEMMA PollsKnowHolds == Spec => []PollsKnow
<1> USE DEF PollsKnow, TypeInv, TypeOK, Revisions, Verdicts
<1>1. Init => PollsKnow
  BY DEF Init
<1>2. TypeInv /\ RevisionsFresh /\ PlaceInv /\ PollsKnow /\ [Next]_vars => PollsKnow'
  <2> SUFFICES ASSUME TypeInv, RevisionsFresh, PlaceInv, PollsKnow, [Next]_vars PROVE PollsKnow'
    OBVIOUS
  <2> USE DEF Goto, StepPoll, pollVars, verifyVars, encoderVars
  <2>1. ASSUME NEW e \in Encoders, Encode(e), ~StoreAudio(e) PROVE PollsKnow'
    <3>1. UNCHANGED <<ppc, asked, known, outcome>>
      BY <2>1 DEF Encode, Admit, FailEncode, LockCache, TakeRevision, StoreFrame, Enqueue,
         EvictOldest, EnqueueAfterEvict, Reply, PushJob
    <3> QED BY <3>1
  <2>2. ASSUME NEW e \in Encoders, StoreAudio(e) PROVE PollsKnow'
    <3>1. \A p \in Pollers : asked[p] # rev[e]
      BY <2>2 DEF StoreAudio, RevisionsFresh
    <3> QED BY <2>2, <3>1, BoundsAssumption DEF StoreAudio
  <2>3. CASE Worker /\ ~RunVerify
    <3>1. UNCHANGED <<ppc, asked, known, outcome>>
      BY <2>3 DEF Worker, TakeJob, WaitForJob, SpuriousWake, NotifyPublished
    <3> QED BY <3>1
  <2>4. CASE RunVerify
    <3>1. job \in Revisions /\ outcome[job] = "none"
      <4>1. job \in Revisions /\ Verifying(job)
        BY <2>4 DEF RunVerify, Verifying, Locals
      <4> QED BY <4>1 DEF PlaceInv, Apart, Resolved
    <3>2. PICK v \in {"ok", "fail"} : outcome' = [outcome EXCEPT ![job] = v]
      BY <2>4 DEF RunVerify
    <3>3. UNCHANGED <<ppc, asked, known>>
      BY <2>4 DEF RunVerify
    <3>4. \A r \in Revisions : outcome[r] # "none" => outcome'[r] = outcome[r]
      BY <3>1, <3>2
    <3> QED BY <3>3, <3>4, BoundsAssumption
  <2>5. ASSUME NEW p \in Pollers, PollClone(p) PROVE PollsKnow'
    <3>1. PICK m \in Media : /\ last[m] # 0
                             /\ asked' = [asked EXCEPT ![p] = last[m]]
                             /\ known' = [known EXCEPT ![p] = outcome[last[m]]]
      BY <2>5 DEF PollClone
    <3> QED BY <2>5, <3>1, BoundsAssumption DEF PollClone
  <2>6. ASSUME NEW p \in Pollers, PollStep(p) \/ Timeout(p) PROVE PollsKnow'
    <3>1. CASE Register(p)
      BY <3>1 DEF Register
    <3>2. CASE InspectEmpty(p)
      BY <3>2 DEF InspectEmpty
    <3>3. CASE Sleep(p)
      BY <3>3 DEF Sleep
    <3>4. CASE Wake(p)
      BY <3>4 DEF Wake
    <3>5. ASSUME NEW v, Answer(p, v) PROVE PollsKnow'
      <4>1. /\ UNCHANGED outcome
            /\ asked' = [asked EXCEPT ![p] = 0]
            /\ known' = [known EXCEPT ![p] = "none"]
            /\ ppc' = [ppc EXCEPT ![p] = "idle"]
        BY <3>5 DEF Answer
      <4> QED BY <4>1
    <3> QED BY <2>6, <3>1, <3>2, <3>3, <3>4, <3>5
          DEF PollStep, InspectOutcome, InspectDropped, Timeout
  <2>7. ASSUME NEW d \in DigestReaders, ReadDigest(d) PROVE PollsKnow'
    <3>1. UNCHANGED <<ppc, asked, known, outcome>>
      BY <2>7 DEF ReadDigest, DigestLockVideo, DigestLockAudio, DigestLock, DigestRead
    <3> QED BY <3>1
  <2>8. CASE UNCHANGED vars
    BY <2>8 DEF vars
  <2> QED BY <2>1, <2>2, <2>3, <2>4, <2>5, <2>6, <2>7, <2>8 DEF Next, Poll
<1>3. QED
  BY <1>1, <1>2, TypeInvHolds, RevisionsFreshHolds, PlaceInvHolds, PTL DEF Spec

\* The semaphore: no more encoders are past admission than it has permits.
PermitsHeld == IsFiniteSet(Admitted) /\ Cardinality(Admitted) <= ENCODE_ADMISSION

LEMMA PermitsHeldHolds == Spec => []PermitsHeld
<1> USE ActorsAssumption, BoundsAssumption DEF PermitsHeld
<1>1. Init => PermitsHeld
  <2>1. Init => Admitted = {}
    BY DEF Init, Admitted
  <2> QED BY <2>1, FS_EmptySet
<1>2. TypeInv /\ PermitsHeld /\ [Next]_vars => PermitsHeld'
  <2> SUFFICES ASSUME TypeInv, PermitsHeld, [Next]_vars PROVE PermitsHeld'
    OBVIOUS
  <2>1. ASSUME NEW e \in Encoders, Admit(e) PROVE PermitsHeld'
    <3>1. Admitted' = Admitted \cup {e}
      BY <2>1 DEF Admit, Goto, Admitted, TypeInv, TypeOK
    <3>2. Cardinality(Admitted) < ENCODE_ADMISSION /\ Cardinality(Admitted) \in Nat
      BY <2>1, FS_CardinalityType DEF Admit
    <3>3. /\ IsFiniteSet(Admitted \cup {e})
          /\ Cardinality(Admitted \cup {e}) \in {Cardinality(Admitted), Cardinality(Admitted) + 1}
      BY FS_AddElement
    <3> QED BY <3>1, <3>2, <3>3
  <2>2. ASSUME Admitted' \subseteq Admitted PROVE PermitsHeld'
    <3>1. IsFiniteSet(Admitted') /\ Cardinality(Admitted') <= Cardinality(Admitted)
      BY <2>2, FS_Subset
    <3> QED BY <3>1, FS_CardinalityType
  <2>3. ASSUME NEW e \in Encoders, Encode(e), ~Admit(e) PROVE Admitted' \subseteq Admitted
    BY <2>3 DEF Encode, FailEncode, LockCache, TakeRevision, StoreFrame, StoreAudio, Enqueue,
       EvictOldest, EnqueueAfterEvict, PushJob, Reply, Goto, Admitted, TypeInv, TypeOK
  <2>4. CASE Worker \/ (\E p \in Pollers : Poll(p)) \/ UNCHANGED vars
    BY <2>2, <2>4, VerifyAndPollFrame DEF encoderVars, Admitted
  <2>5. ASSUME NEW d \in DigestReaders, ReadDigest(d) PROVE Admitted' \subseteq Admitted
    BY <2>5 DEF ReadDigest, DigestLockVideo, DigestLockAudio, DigestLock, DigestRead, Admitted
  <2> QED BY <2>1, <2>2, <2>3, <2>4, <2>5 DEF Next
<1>3. QED
  BY <1>1, <1>2, TypeInvHolds, PTL DEF Spec

\* The encoders whose job is on its way to the queue.
Pushing == {e \in Encoders : pc[e] \in {"stored", "evicting"}}

\* The newest frame's job is so near the queue's end that the encoders still to push,
\* of which the semaphore admits at most as many as the queue holds, cannot evict it;
\* audio is verified before it is cached.
NewestKept ==
  /\ \A i \in 1..Len(queue) : queue[i] = last["video"] =>
       (Len(queue) - i) + Cardinality(Pushing) < ENCODE_ADMISSION
  /\ last["audio"] # 0 => outcome[last["audio"]] # "none"

LEMMA PushingIsAdmitted ==
  ASSUME TypeInv, PermitsHeld
  PROVE  /\ IsFiniteSet(Pushing) /\ Cardinality(Pushing) \in Nat
         /\ Cardinality(Pushing) <= ENCODE_ADMISSION
<1>1. Pushing \in SUBSET Admitted
  BY DEF Pushing, Admitted
<1>2. IsFiniteSet(Pushing) /\ Cardinality(Pushing) <= Cardinality(Admitted)
  BY <1>1, FS_Subset DEF PermitsHeld
<1> QED BY <1>2, FS_CardinalityType, BoundsAssumption DEF PermitsHeld

LEMMA NewestKeptHolds == Spec => []NewestKept
<1> USE BoundsAssumption DEF NewestKept
<1>1. Init => NewestKept
  BY DEF Init, Media
<1>2. TypeInv /\ PlaceInv /\ PlaceInv' /\ RevisionsFresh /\ PermitsHeld /\ NewestKept /\ [Next]_vars
        => NewestKept'
  <2> SUFFICES ASSUME TypeInv, PlaceInv, PlaceInv', RevisionsFresh, PermitsHeld, NewestKept,
                      [Next]_vars
               PROVE NewestKept'
    OBVIOUS
  <2> USE DEF TypeInv, TypeOK, Media, Revisions
  <2>p. /\ IsFiniteSet(Pushing) /\ Cardinality(Pushing) \in Nat
        /\ Cardinality(Pushing) <= ENCODE_ADMISSION
    BY PushingIsAdmitted
  <2>q. Len(queue) \in Nat
    OBVIOUS
  <2>1. ASSUME UNCHANGED <<last, outcome, queue>>, Pushing' = Pushing PROVE NewestKept'
    BY <2>1
  <2>2. ASSUME NEW e \in Encoders, Admit(e) \/ FailEncode(e) \/ LockCache(e) \/ TakeRevision(e)
                                   \/ Reply(e)
        PROVE NewestKept'
    <3>1. UNCHANGED <<last, outcome, queue>>
      BY <2>2 DEF Admit, FailEncode, LockCache, TakeRevision, Reply, verifyVars
    <3>2. Pushing' = Pushing
      BY <2>2 DEF Admit, FailEncode, LockCache, TakeRevision, Reply, Goto, Pushing
    <3> QED BY <2>1, <3>1, <3>2
  <2>3. ASSUME NEW e \in Encoders, StoreFrame(e) PROVE NewestKept'
    <3>1. /\ last' = [last EXCEPT !["video"] = rev[e]]
          /\ UNCHANGED <<outcome, queue>>
      BY <2>3 DEF StoreFrame, verifyVars
    <3>2. Held(rev[e]) /\ rev[e] \in Revisions
      BY <2>3 DEF StoreFrame, Held, Holding, Locals
    <3>3. ~Queued(rev[e])
      BY <3>2 DEF PlaceInv, Apart
    <3> QED BY <3>1, <3>3 DEF Queued
  <2>4. ASSUME NEW e \in Encoders, StoreAudio(e) PROVE NewestKept'
    <3>1. /\ last' = [last EXCEPT !["audio"] = rev[e]]
          /\ outcome' = [outcome EXCEPT ![rev[e]] = "ok"]
          /\ UNCHANGED queue
          /\ rev[e] \in Revisions
      BY <2>4 DEF StoreAudio, Locals
    <3>2. Pushing' = Pushing
      BY <2>4 DEF StoreAudio, Goto, Pushing
    <3> QED BY <3>1, <3>2
  <2>5. ASSUME NEW e \in Encoders, Enqueue(e) \/ EnqueueAfterEvict(e) PROVE NewestKept'
    <3>1. /\ queue' = Append(queue, rev[e]) /\ rev[e] \in Revisions
          /\ UNCHANGED <<last, outcome>>
          /\ e \in Pushing /\ Pushing' = Pushing \ {e}
      BY <2>5 DEF Enqueue, EnqueueAfterEvict, PushJob, Goto, Pushing, Locals
    <3>2. Cardinality(Pushing') = Cardinality(Pushing) - 1
      BY <3>1, <2>p, FS_RemoveElement
    <3>3. /\ Len(queue') = Len(queue) + 1
          /\ \A i \in 1..Len(queue) : queue'[i] = queue[i]
      BY <3>1, AppendFacts
    <3>4. ASSUME NEW i \in 1..Len(queue'), queue'[i] = last'["video"]
          PROVE (Len(queue') - i) + Cardinality(Pushing') < ENCODE_ADMISSION
      <4>1. CASE i = Len(queue) + 1
        BY <2>p, <2>q, <3>2, <3>3, <4>1
      <4>2. CASE i \in 1..Len(queue)
        <5>1. (Len(queue) - i) + Cardinality(Pushing) < ENCODE_ADMISSION
          BY <3>1, <3>3, <3>4, <4>2
        <5> QED BY <2>p, <2>q, <3>2, <3>3, <5>1, <4>2
      <4> QED BY <2>q, <3>3, <4>1, <4>2
    <3> QED BY <3>1, <3>4
  <2>6. ASSUME queue # <<>>, queue' = Tail(queue), Pushing' = Pushing, UNCHANGED <<last, outcome>>
        PROVE NewestKept'
    <3>1. /\ Len(queue') = Len(queue) - 1
          /\ \A i \in 1..Len(queue') : queue'[i] = queue[i + 1]
      BY <2>6, TailFacts
    <3>2. ASSUME NEW i \in 1..Len(queue'), queue'[i] = last'["video"]
          PROVE (Len(queue') - i) + Cardinality(Pushing') < ENCODE_ADMISSION
      <4>1. i + 1 \in 1..Len(queue) /\ queue[i + 1] = last["video"]
        BY <2>q, <2>6, <3>1, <3>2
      <4>2. (Len(queue) - (i + 1)) + Cardinality(Pushing) < ENCODE_ADMISSION
        BY <4>1
      <4> QED BY <2>p, <2>q, <2>6, <3>1, <4>2
    <3> QED BY <2>6, <3>2
  <2>7. ASSUME NEW e \in Encoders, EvictOldest(e) PROVE NewestKept'
    <3>1. /\ queue # <<>> /\ queue' = Tail(queue) /\ UNCHANGED <<last, outcome>>
          /\ Pushing' = Pushing
      BY <2>7 DEF EvictOldest, Goto, Pushing
    <3> QED BY <2>6, <3>1
  <2>8. CASE TakeJob
    <3>1. /\ queue # <<>> /\ queue' = Tail(queue) /\ UNCHANGED <<last, outcome>>
          /\ Pushing' = Pushing
      BY <2>8 DEF TakeJob, encoderVars, Pushing
    <3> QED BY <2>6, <3>1
  <2>9. CASE RunVerify
    <3>1. UNCHANGED <<last, queue>> /\ Pushing' = Pushing
      BY <2>9 DEF RunVerify, encoderVars, Pushing
    <3>2. \A r \in Revisions : outcome[r] # "none" => outcome'[r] # "none"
      BY <2>9 DEF RunVerify
    <3> QED BY <3>1, <3>2
  <2>10. CASE WaitForJob \/ SpuriousWake \/ NotifyPublished \/ (\E p \in Pollers : Poll(p))
              \/ (\E d \in DigestReaders : ReadDigest(d)) \/ UNCHANGED vars
    <3>1. UNCHANGED <<pc, last, outcome, queue>>
      BY <2>10 DEF WaitForJob, SpuriousWake, NotifyPublished, Poll, PollClone, PollStep, Register,
         InspectOutcome, InspectEmpty, InspectDropped, Sleep, Wake, Timeout, Answer, ReadDigest,
         DigestLockVideo, DigestLockAudio, DigestLock, DigestRead, vars, encoderVars, verifyVars
    <3> QED BY <2>1, <3>1 DEF Pushing
  <2> QED BY <2>2, <2>3, <2>4, <2>5, <2>7, <2>8, <2>9, <2>10 DEF Next, Encode, Worker
<1>3. QED
  BY <1>1, <1>2, TypeInvHolds, PlaceInvHolds, RevisionsFreshHolds, PermitsHeldHolds, PTL DEF Spec

Safe ==
  TypeInv /\ LocksHeld /\ RevisionsKept /\ RevisionsFresh /\ PlaceInv /\ PollsKnow /\ NewestKept

\* The status an artifact has for a client, from where it is.
LEMMA StatusOfPlace ==
  ASSUME Safe, NEW r \in Revisions
  PROVE  /\ Queued(r) \/ Verifying(r) => Status(r) = "pending" /\ outcome[r] = "none"
         /\ \A e \in Encoders : pc[e] = "revised" /\ rev[e] = r => Status(r) = "absent"
         /\ Status(r) \in {"ok", "fail"} <=> outcome[r] # "none"
         /\ outcome[r] # "none" => Status(r) = outcome[r]
<1> USE DEF Safe, PlaceInv
<1>1. ASSUME Queued(r) \/ Verifying(r) PROVE Status(r) = "pending" /\ outcome[r] = "none"
  <2>1. ~Held(r) /\ ~Resolved(r) /\ r <= cacheRev
    BY <1>1 DEF Apart, Somewhere
  <2>2. \A e \in Encoders : pc[e] = "revised" => rev[e] # r
    BY <2>1 DEF Held, Holding
  <2> QED
    BY <2>1, <2>2, BoundsAssumption DEF Status, Resolved, TypeInv, TypeOK, Revisions
<1>2. ASSUME NEW e \in Encoders, pc[e] = "revised", rev[e] = r PROVE Status(r) = "absent"
  <2>1. Held(r)
    BY <1>2 DEF Held, Holding
  <2> QED BY <1>2, <2>1 DEF Apart, Resolved, Status
<1>3. /\ Status(r) \in {"ok", "fail"} <=> outcome[r] # "none"
      /\ outcome[r] # "none" => Status(r) = outcome[r]
  BY DEF Status, TypeInv, TypeOK, Verdicts
<1> QED BY <1>1, <1>2, <1>3

\* A step that resolves nothing and stores nothing leaves every status alone.
LEMMA StatusStays ==
  ASSUME TypeInv, RevisionsKept, UNCHANGED <<cacheRev, outcome, dropped>>, SameRevised
  PROVE  \A r \in Revisions : Status(r)' = Status(r)
BY DEF Status, SameRevised

\* The encoder's half: numbering an artifact is invisible, storing it publishes it,
\* evicting the oldest job gives up an artifact that is not the newest.
LEMMA EncodeImplements ==
  ASSUME Safe, NEW e \in Encoders, Encode(e)
  PROVE  [Cache!Next]_(Cache!vars)
<1> USE BoundsAssumption
<1>0. UNCHANGED <<asked, known, answer>>
  BY DEF Encode, Admit, FailEncode, LockCache, TakeRevision, StoreFrame, StoreAudio, Enqueue,
     EvictOldest, EnqueueAfterEvict, Reply, pollVars
<1>1. ASSUME UNCHANGED last, \A r \in Revisions : Status(r)' = Status(r)
      PROVE UNCHANGED Cache!vars
  BY <1>0, <1>1 DEF Cache!vars
<1>2. CASE Admit(e) \/ FailEncode(e) \/ LockCache(e) \/ Enqueue(e) \/ EnqueueAfterEvict(e) \/ Reply(e)
  <2>1. UNCHANGED <<cacheRev, outcome, dropped, last>>
    BY <1>2 DEF Admit, FailEncode, LockCache, Enqueue, EnqueueAfterEvict, Reply, PushJob, verifyVars
  <2>2. SameRevised
    BY <1>2 DEF Admit, FailEncode, LockCache, Enqueue, EnqueueAfterEvict, Reply, PushJob, Goto,
       SameRevised, Safe, TypeInv, TypeOK
  <2> QED BY <1>1, <2>1, <2>2, StatusStays DEF Safe
<1>3. CASE TakeRevision(e)
  <2>1. /\ UNCHANGED <<outcome, dropped, last>>
        /\ cacheRev \in Nat /\ cacheRev' = cacheRev + 1
        /\ pc[e] = "locked" /\ pc'[e] = "revised" /\ rev'[e] = cacheRev + 1
        /\ \A f \in Encoders \ {e} : pc'[f] = pc[f] /\ rev'[f] = rev[f]
    BY <1>3 DEF TakeRevision, Goto, verifyVars, Safe, TypeInv, TypeOK
  <2>2. \A r \in Revisions : r \in Nat /\ (r > cacheRev' \/ r = cacheRev' <=> r > cacheRev)
    BY <2>1 DEF Revisions
  <2>3. ASSUME NEW r \in Revisions
        PROVE (\E f \in Encoders : pc'[f] = "revised" /\ rev'[f] = r)
              <=> (\E f \in Encoders : pc[f] = "revised" /\ rev[f] = r) \/ r = cacheRev'
    BY <2>1
  <2>4. \A r \in Revisions : Status(r)' = Status(r)
    BY <2>1, <2>2, <2>3 DEF Status
  <2> QED BY <1>1, <2>1, <2>4
<1>4. CASE StoreFrame(e) \/ StoreAudio(e)
  <2>0. PICK n \in Revisions, m \in Media : n = rev[e] /\ m = Medium(e)
    BY <1>4 DEF StoreFrame, StoreAudio, Safe, TypeInv, Locals, Medium, Media
  <2>1. /\ pc[e] = "revised"
        /\ e \in VideoEncoders <=> m = "video"
        /\ last' = [last EXCEPT ![m] = n]
        /\ outcome' = IF m = "video" THEN outcome ELSE [outcome EXCEPT ![n] = "ok"]
        /\ UNCHANGED <<rev, cacheRev, dropped>>
        /\ pc'[e] # "revised" /\ \A f \in Encoders \ {e} : pc'[f] = pc[f]
    BY <1>4, <2>0, ActorsAssumption DEF StoreFrame, StoreAudio, Goto, Medium, Media, verifyVars, Safe,
       TypeInv, TypeOK, Locals
  <2>2. n > last[m] /\ n <= cacheRev /\ Status(n) = "absent"
    BY <2>0, <2>1, StatusOfPlace DEF Safe, RevisionsKept
  <2>3. \A f \in Encoders \ {e} : ~(pc[f] = "revised" /\ rev[f] = n)
    BY <2>0, <2>1 DEF Safe, RevisionsFresh
  <2>4. outcome[n] = "none" /\ ~dropped[n]
    BY <2>1, <2>2 DEF Status, Safe, TypeInv, TypeOK, Verdicts
  <2>5. Status(n)' = IF m = "video" THEN "pending" ELSE "ok"
    <3>1. ~(n > cacheRev) /\ outcome \in [Revisions -> Verdicts]
      BY <2>1, <2>2 DEF Safe, TypeInv, TypeOK, Revisions
    <3> QED BY <2>1, <2>3, <2>4, <3>1 DEF Status
  <2>6. \A r \in Revisions \ {n} : Status(r)' = Status(r)
    <3>1. \A r \in Revisions \ {n} : outcome'[r] = outcome[r]
      BY <2>1 DEF Safe, TypeInv, TypeOK
    <3>2. \A r \in Revisions \ {n} :
            (\E f \in Encoders : pc'[f] = "revised" /\ rev'[f] = r)
            <=> (\E f \in Encoders : pc[f] = "revised" /\ rev[f] = r)
      BY <2>0, <2>1
    <3> QED BY <2>1, <3>1, <3>2 DEF Status
  <2>7. Cache!Publish(m, n)
    <3>1. [r \in Revisions |-> Status(r)']
            = [[r \in Revisions |-> Status(r)] EXCEPT ![n] = IF m = "video" THEN "pending" ELSE "ok"]
      BY <2>5, <2>6
    <3>2. [r \in Revisions |-> Status(r)][n] = "absent"
      BY <2>1, <2>2
    <3> QED BY <1>0, <2>1, <2>2, <3>1, <3>2 DEF Cache!Publish
  <2> QED BY <2>1, <2>7 DEF Cache!Next, Cache!Media, Cache!Revisions, Media, Revisions
<1>5. CASE EvictOldest(e)
  <2>0. PICK h \in Revisions : h = Head(queue)
    BY <1>5, TailFacts DEF EvictOldest, Safe, TypeInv, TypeOK
  <2>1. /\ queue # <<>> /\ pc[e] = "stored" /\ Len(queue) >= VERIFY_QUEUE_CAP
        /\ dropped' = [dropped EXCEPT ![h] = TRUE]
        /\ UNCHANGED <<cacheRev, outcome, last>>
    BY <1>5, <2>0 DEF EvictOldest, Safe, TypeInv, TypeOK
  <2>2. h = queue[1] /\ Len(queue) \in Nat \ {0}
    BY <2>0, <2>1, TailFacts DEF Safe, TypeInv, TypeOK
  <2>3. SameRevised
    BY <1>5 DEF EvictOldest, Goto, SameRevised, Safe, TypeInv, TypeOK
  <2>4. Queued(h)
    BY <2>2 DEF Queued
  <2>5. Status(h) = "pending" /\ outcome[h] = "none"
    BY <2>2, <2>4, StatusOfPlace
  <2>6. \A k \in Media : last[k] # h
    <3>1. last["video"] # h
      <4>1. IsFiniteSet(Pushing) /\ Pushing # {}
        <5>1. Pushing \in SUBSET Encoders /\ e \in Pushing
          BY <2>1 DEF Pushing
        <5> QED BY <5>1, FS_Subset, ActorsAssumption
      <4>2. Cardinality(Pushing) \in Nat \ {0}
        BY <4>1, FS_CardinalityType, FS_EmptySet
      <4>3. 1 \in 1..Len(queue) /\ ~((Len(queue) - 1) + Cardinality(Pushing) < ENCODE_ADMISSION)
        BY <2>1, <2>2, <4>2
      <4> QED BY <2>2, <4>3 DEF Safe, NewestKept
    <3>2. last["audio"] # h
      BY <2>2, <2>5 DEF Safe, NewestKept, Revisions
    <3> QED BY <3>1, <3>2 DEF Media
  <2>7. Status(h)' = "evicted" /\ \A r \in Revisions \ {h} : Status(r)' = Status(r)
    <3>1. \A r \in Revisions : dropped'[r] <=> dropped[r] \/ r = h
      BY <2>1, <2>2 DEF Safe, TypeInv, TypeOK
    <3>2. \A r \in Revisions :
            (\E f \in Encoders : pc'[f] = "revised" /\ rev'[f] = r)
            <=> (\E f \in Encoders : pc[f] = "revised" /\ rev[f] = r)
      BY <2>3 DEF SameRevised
    <3> QED BY <2>1, <2>2, <2>5, <3>1, <3>2 DEF Status
  <2>8. Cache!Evict(h)
    <3>1. [r \in Revisions |-> Status(r)']
            = [[r \in Revisions |-> Status(r)] EXCEPT ![h] = "evicted"]
      BY <2>7
    <3>2. [r \in Revisions |-> Status(r)][h] = "pending"
      BY <2>2, <2>5
    <3> QED BY <1>0, <2>1, <2>6, <3>1, <3>2 DEF Cache!Evict, Cache!Media, Media
  <2> QED BY <2>2, <2>8 DEF Cache!Next, Cache!Revisions, Revisions
<1> QED BY <1>1, <1>2, <1>3, <1>4, <1>5 DEF Encode

\* The verification thread's half: a verdict resolves a pending artifact.
LEMMA WorkerImplements ==
  ASSUME Safe, Worker
  PROVE  [Cache!Next]_(Cache!vars)
<1>1. UNCHANGED <<pc, rev, cacheRev, last, dropped, asked, known, answer>>
  BY DEF Worker, TakeJob, WaitForJob, SpuriousWake, RunVerify, NotifyPublished, encoderVars, pollVars
<1>2. CASE ~RunVerify
  <2>1. UNCHANGED outcome
    BY <1>2 DEF Worker, TakeJob, WaitForJob, SpuriousWake, NotifyPublished
  <2>2. \A r \in Revisions : Status(r)' = Status(r)
    BY <1>1, <2>1 DEF Status
  <2> QED BY <1>1, <2>2 DEF Cache!vars
<1>3. CASE RunVerify
  <2>1. PICK v \in {"ok", "fail"} : outcome' = [outcome EXCEPT ![job] = v]
    BY <1>3 DEF RunVerify
  <2>2. PICK r \in Revisions : r = job
    BY <1>3 DEF RunVerify, Safe, TypeInv, Locals
  <2>3. Status(r) = "pending"
    BY <1>3, <2>2, StatusOfPlace DEF RunVerify, Verifying
  <2>4. \A s \in Revisions : outcome'[s] = IF s = r THEN v ELSE outcome[s]
    BY <2>1, <2>2 DEF Safe, TypeInv, TypeOK
  <2>5. Status(r)' = v /\ \A s \in Revisions \ {r} : Status(s)' = Status(s)
    BY <1>1, <2>4 DEF Status
  <2>6. [s \in Revisions |-> Status(s)'] = [[s \in Revisions |-> Status(s)] EXCEPT ![r] = v]
    BY <2>5
  <2>7. [s \in Revisions |-> Status(s)][r] = "pending"
    BY <2>3
  <2>8. Cache!Resolve(r, v)
    BY <1>1, <2>6, <2>7 DEF Cache!Resolve
  <2> QED BY <2>8 DEF Cache!Next, Cache!Revisions, Revisions
<1> QED BY <1>2, <1>3

\* The poll's half: cloning the cache is asking, any return from wait_for is the answer.
LEMMA PollImplements ==
  ASSUME Safe, NEW p \in Pollers, Poll(p)
  PROVE  [Cache!Next]_(Cache!vars)
<1> DEFINE S == [r \in Revisions |-> Status(r)]
<1>1. UNCHANGED <<pc, rev, cacheRev, last, outcome, dropped>>
  BY DEF Poll, PollClone, PollStep, Register, InspectOutcome, InspectEmpty, InspectDropped, Sleep,
     Wake, Timeout, Answer, encoderVars, verifyVars
<1>2. \A r \in Revisions : Status(r)' = Status(r)
  BY <1>1 DEF Status
<1>3. S' = S
  BY <1>2
<1>4. CASE Register(p) \/ InspectEmpty(p) \/ Sleep(p) \/ Wake(p)
  <2>1. UNCHANGED <<asked, known, answer>>
    BY <1>4 DEF Register, InspectEmpty, Sleep, Wake
  <2> QED BY <1>1, <1>3, <2>1 DEF Cache!vars
<1>5. CASE PollClone(p)
  <2>1. PICK m \in Media : /\ last[m] # 0
                           /\ asked' = [asked EXCEPT ![p] = last[m]]
                           /\ known' = [known EXCEPT ![p] = outcome[last[m]]]
    BY <1>5 DEF PollClone
  <2>2. asked[p] = 0 /\ answer' = [answer EXCEPT ![p] = NoReply]
    BY <1>5 DEF PollClone, Safe, PollsKnow
  <2>3. last[m] \in Revisions
    BY <2>1, BoundsAssumption DEF Safe, TypeInv, TypeOK, Revisions
  <2>4. Cache!VerdictOf(last[m]) = outcome[last[m]]
    <3>1. S[last[m]] = Status(last[m])
      BY <2>3
    <3>2. outcome[last[m]] \in Verdicts
      BY <2>3 DEF Safe, TypeInv, TypeOK
    <3> QED BY <2>3, <3>1, <3>2, StatusOfPlace DEF Cache!VerdictOf, Verdicts
  <2>5. Cache!Ask(p, m)
    BY <1>1, <1>3, <2>1, <2>2, <2>4 DEF Cache!Ask, NoReply, Cache!NoReply
  <2> QED BY <2>5 DEF Cache!Next, Cache!Media, Media
<1>6. ASSUME NEW v \in Verdicts \cup {"stale"}, Answer(p, v), ppc[p] # "idle", v # "none",
             v = "stale" => known[p] = "none", v # "stale" => v = outcome[asked[p]]
      PROVE [Cache!Next]_(Cache!vars)
  <2>1. asked[p] \in Revisions
    BY <1>6 DEF Safe, TypeInv, Locals
  <2>2. v \in {Cache!VerdictOf(asked[p]), "stale"}
    <3>1. S[asked[p]] = Status(asked[p])
      BY <2>1
    <3>2. outcome[asked[p]] \in Verdicts
      BY <2>1 DEF Safe, TypeInv, TypeOK
    <3> QED BY <1>6, <2>1, <3>1, <3>2, StatusOfPlace DEF Cache!VerdictOf, Verdicts
  <2>3. asked[p] # 0
    BY <1>6 DEF Safe, PollsKnow
  <2>4. Cache!Tell(p)
    BY <1>1, <1>3, <1>6, <2>2, <2>3 DEF Cache!Tell, Answer
  <2> QED BY <2>4 DEF Cache!Next
<1>7. CASE InspectOutcome(p)
  <2>1. asked[p] \in Revisions
    BY <1>7 DEF InspectOutcome, Safe, TypeInv, Locals
  <2>2. outcome[asked[p]] \in Verdicts
    BY <2>1 DEF Safe, TypeInv, TypeOK
  <2> QED BY <1>6, <1>7, <2>2 DEF InspectOutcome, Verdicts
<1>8. CASE InspectDropped(p) \/ Timeout(p)
  BY <1>6, <1>8 DEF InspectDropped, Timeout, Safe, PollsKnow, Verdicts
<1> QED BY <1>4, <1>5, <1>7, <1>8 DEF Poll, PollStep

\* The pipeline refines MediaCache: whatever the locks, the queue, the thread and the
\* notifications do, a client sees artifacts that only get newer, one verdict each, never
\* an eviction of the newest one, and replies about what was newest when it asked.
THEOREM PipelineIsAMediaCache == Spec => ImplementsMediaCache
<1>1. Init => Cache!Init
  <2>1. Init => \A r \in Revisions : Status(r) = "absent"
    BY BoundsAssumption DEF Init, Status, Revisions
  <2>2. Init => [r \in Revisions |-> Status(r)] = [r \in Revisions |-> "absent"]
    BY <2>1
  <2> QED BY <2>2 DEF Init, Cache!Init, Cache!Media, Media, Cache!Revisions, Revisions, NoReply,
            Cache!NoReply
<1>2. Safe /\ [Next]_vars => [Cache!Next]_(Cache!vars)
  <2> SUFFICES ASSUME Safe, [Next]_vars PROVE [Cache!Next]_(Cache!vars)
    OBVIOUS
  <2>1. CASE (\E d \in DigestReaders : ReadDigest(d)) \/ UNCHANGED vars
    <3>1. UNCHANGED <<pc, rev, cacheRev, last, outcome, dropped, asked, known, answer>>
      BY <2>1 DEF ReadDigest, DigestLockVideo, DigestLockAudio, DigestLock, DigestRead, vars,
         encoderVars, verifyVars, pollVars
    <3>2. \A r \in Revisions : Status(r)' = Status(r)
      BY <3>1 DEF Status
    <3> QED BY <3>1, <3>2 DEF Cache!vars
  <2> QED BY <2>1, EncodeImplements, WorkerImplements, PollImplements DEF Next
<1>3. Spec => []Safe
  BY TypeInvHolds, LocksHeldHolds, RevisionsKeptHolds, RevisionsFreshHolds, PlaceInvHolds,
     PollsKnowHolds, NewestKeptHolds, PTL DEF Safe
<1>4. QED
  BY <1>1, <1>2, <1>3, PTL DEF Spec, ImplementsMediaCache, Cache!Spec

-----------------------------------------------------------------------------
(* The GStreamer bridge.  A frame is in the source, in the queue of the    *)
(* appsink, held by the thread, in the queue of the appsrc, or consumed;   *)
(* each place holds an interval of the frames and the next one continues   *)
(* where it ends.                                                          *)

Filter == run.mode = "filter"
File == run.mode = "file"
Loop == {"select", "pull", "try", "again", "eos", "frame"}
Stages == Loop \cup {"idle", "selected", "push", "room", "pushed", "drain", "publish", "over"}
Samples == [of : Seq(Nat), sig : Nat]

Types ==
  /\ run \in Requested \cup {[mode |-> "none"]}
  /\ source \in [on : BOOLEAN, made : Nat, queue : Seq(Nat), eos : BOOLEAN, failed : BOOLEAN]
  /\ sink \in [on : BOOLEAN, queue : Seq(Samples), eos : BOOLEAN, got : Seq(Samples),
               early : BOOLEAN]
  /\ sourceBus \subseteq {"eos", "error"} /\ sinkBus \subseteq {"eos", "error"}
  /\ stage \in Stages
  /\ index \in Nat /\ held \in Nat /\ wait \in Nat
  /\ collected \in Seq(Nat)
  /\ ending \in {"none", "ok", "error"}
  /\ targetFile \in {"absent", "other", "captured"}

\* The frames the thread has dealt with, and those it has taken from the source.
Done == IF Filter THEN index ELSE Len(collected)
InHand == stage = "frame" \/ (Filter /\ stage \in {"push", "room"})
Pulled == IF InHand THEN Done + 1 ELSE Done
Fed == Len(sink.got) + Len(sink.queue)

\* The i-th buffer of a complete output, and how many there are.
WantedAt(i) == IF File THEN Sample(Selection, 0) ELSE Sample(<<i>>, i - 1)
WantedLen == IF File THEN 1 ELSE Selected(run)

\* Nothing was asked for yet, or the call was refused.
Unstarted ==
  /\ stage \in {"idle", "over"}
  /\ ~ source.on /\ source.made = 0 /\ source.queue = << >> /\ ~ source.eos /\ ~ source.failed
  /\ ~ sink.on /\ sink.queue = << >> /\ ~ sink.eos /\ sink.got = << >> /\ ~ sink.early
  /\ sourceBus = {} /\ sinkBus = {}
  /\ index = 0 /\ collected = << >>
  /\ ending # "ok" /\ targetFile # "captured"
  /\ stage = "idle" => ending = "none"

\* The frames between the source and the thread.  An error of the source stays
\* on its bus, since only a poll that finds none empties it.
SourceInv ==
  /\ source.made = Pulled + Len(source.queue) /\ source.made <= run.total
  /\ \A i \in 1..Len(source.queue) : source.queue[i] = Pulled + i
  /\ InHand => held = Pulled
  /\ source.eos => source.made = run.total \/ source.failed
  /\ source.failed => "error" \in sourceBus

\* The source ended its stream because it failed.
GaveUp == source.failed /\ source.eos

\* What the thread has done when it is at a stage.
CallInv ==
  /\ run.mode = "extract" => stage \in Loop \cup {"selected", "over"}
  /\ Filter => stage # "pushed"
  /\ Done <= Selected(run)
  /\ (stage \in Loop \ {"select"}) \/ InHand => run.limit = 0 \/ Done < run.limit
  /\ ~ Filter => \A i \in 1..Len(collected) : collected[i] = i
  /\ ~ Filter /\ stage \in Loop => index = Len(collected)
  /\ File /\ stage \in {"push", "room"} => index = 0
  /\ stage \in {"selected", "drain"} \/ (File /\ stage = "push") =>
       Done = Selected(run) \/ GaveUp
  /\ File /\ stage \in {"room", "pushed", "drain"} => Done = Selected(run)

\* The frames between the thread and the end of the sink.
SinkInv ==
  /\ \A i \in 1..Len(sink.got) : sink.got[i] = WantedAt(i)
  /\ \A i \in 1..Len(sink.queue) : sink.queue[i] = WantedAt(Len(sink.got) + i)
  /\ Filter => Fed = index
  /\ File => /\ Fed <= 1
             /\ Fed = 1 => Done = Selected(run)
             /\ stage \in {"pushed", "drain", "publish"} => Fed = 1
             /\ stage \notin {"pushed", "drain", "publish", "over"} => Fed = 0
  /\ run.mode = "extract" => Fed = 0
  /\ "eos" \in sinkBus => sink.early \/ (sink.queue = << >> /\ sink.eos)
  /\ sink.eos => stage \in {"drain", "publish", "over"}
  /\ sink.early => ~ run.managed
  /\ run.managed => run.mode # "extract"

\* All of the output is in the sink, which has consumed it or ended its stream.
HandedOver == Fed = WantedLen /\ (sink.queue = << >> \/ sink.early)

\* What is true of the output once a call has ended well.
OutInv ==
  /\ stage # "over" => ending = "none" /\ targetFile # "captured"
  /\ stage = "over" => ~ source.on /\ ~ sink.on
  /\ stage = "publish" => run.managed /\ Len(sink.got) = WantedLen /\ sink.queue = << >>
  /\ ending = "ok" /\ run.mode # "extract" => HandedOver
  /\ ending = "ok" /\ run.mode = "extract" =>
       Done = Selected(run) \/ (GaveUp /\ "error" \in sourceBus)
  /\ targetFile = "captured" => ending = "ok" /\ Len(sink.got) = WantedLen

Started ==
  /\ stage # "idle"
  /\ stage # "over" => SourceInv
  /\ CallInv /\ SinkInv /\ OutInv

IInv == Types /\ IF run.mode = "none" THEN Unstarted ELSE Started

LEMMA RequestFacts ==
  ASSUME Types, run.mode # "none"
  PROVE  /\ run \in Requested
         /\ run.total \in Nat /\ run.limit \in Nat /\ run.managed \in BOOLEAN
         /\ run.mode \in {"filter", "file", "extract"}
         /\ Selected(run) \in Nat /\ Selected(run) <= run.total
         /\ run.limit # 0 => Selected(run) <= run.limit
         /\ Selected(run) = run.total \/ (run.limit # 0 /\ Selected(run) = run.limit)
<1>1. run \in Requested
  BY DEF Types
<1>2. /\ run.total \in Nat /\ run.limit \in Nat /\ run.managed \in BOOLEAN
      /\ run.mode \in {"filter", "file", "extract"}
  BY <1>1, BridgeAssumption DEF Requested
<1> QED BY <1>1, <1>2 DEF Selected

\* What a complete output is does not change during a call.
LEMMA WantedStays ==
  ASSUME run' = run
  PROVE  /\ \A i : WantedAt(i)' = WantedAt(i)
         /\ Selected(run)' = Selected(run) /\ WantedLen' = WantedLen
         /\ Filter' = Filter /\ File' = File
BY DEF WantedAt, WantedLen, Filter, File, Sample, Selection, Selected

LEMMA InvInit == BridgeInit => IInv
<1> SUFFICES ASSUME BridgeInit PROVE IInv
  OBVIOUS
<1>1. Types
  BY DEF BridgeInit, Types, Stages, Loop
<1>2. run.mode = "none"
  BY DEF BridgeInit
<1>3. Unstarted
  BY DEF BridgeInit, Unstarted
<1> QED BY <1>1, <1>2, <1>3 DEF IInv

-----------------------------------------------------------------------------
(* The pipelines.                                                          *)

\* A step of the source alone, that keeps what the thread relies on.
LEMMA SourceAlone ==
  ASSUME IInv, Started, run.mode # "none",
         UNCHANGED <<runVars, sink, sinkBus, stage, targetFile>>,
         Types', stage # "over" => SourceInv',
         GaveUp => GaveUp', source.on
  PROVE  IInv'
<1>1. run' = run /\ run'.mode # "none" /\ stage' = stage /\ sink' = sink /\ sinkBus' = sinkBus
      /\ index' = index /\ collected' = collected /\ ending' = ending /\ targetFile' = targetFile
  BY DEF runVars
<1>2. Done' = Done /\ InHand' = InHand /\ Fed' = Fed /\ Pulled' = Pulled
  BY <1>1 DEF Done, InHand, Fed, Pulled, Filter
<1>3. CallInv'
  BY <1>1, <1>2, WantedStays DEF Started, CallInv
<1>4. SinkInv'
  BY <1>1, <1>2, WantedStays DEF Started, SinkInv
<1>5. OutInv'
  <2>1. stage # "over" /\ ending' = "none"
    BY <1>1 DEF Started, OutInv
  <2> QED BY <1>1, <1>2, <2>1, WantedStays DEF Started, OutInv
<1> QED BY <1>1, <1>3, <1>4, <1>5 DEF IInv, Started

LEMMA SourceStep ==
  ASSUME IInv, SourceMakes \/ SourceEnds \/ SourceFails \/ SourceGivesUp
  PROVE  IInv'
<1>1. source.on
  BY DEF SourceMakes, SourceEnds, SourceFails, SourceGivesUp
<1>2. Types /\ run.mode # "none" /\ Started
  BY <1>1 DEF IInv, Unstarted
<1>3. stage # "over" /\ SourceInv
  BY <1>1, <1>2 DEF Started, OutInv
<1>4. UNCHANGED <<runVars, sink, sinkBus, stage, targetFile>>
  BY DEF SourceMakes, SourceEnds, SourceFails, SourceGivesUp
<1>5. /\ Done' = Done /\ InHand' = InHand /\ Pulled' = Pulled /\ run' = run
      /\ held' = held
  BY <1>4 DEF Done, InHand, Pulled, Filter, runVars
<1>6. Pulled \in Nat /\ run.total \in Nat /\ source.made \in Nat /\ source.queue \in Seq(Nat)
  BY <1>2, RequestFacts DEF Types, Pulled, Done
<1>7. CASE SourceMakes
  <2>1. source' = [source EXCEPT !.made = @ + 1, !.queue = Append(@, source.made + 1)]
        /\ sourceBus' = sourceBus /\ source.made < run.total
    BY <1>7 DEF SourceMakes
  <2>2. /\ source'.made = source.made + 1 /\ source'.queue = Append(source.queue, source.made + 1)
        /\ source'.eos = source.eos /\ source'.failed = source.failed
        /\ ~ source.eos /\ ~ source.failed /\ ~ GaveUp
    BY <1>2, <1>7, <2>1 DEF Types, SourceMakes, GaveUp
  <2>3. Types'
    <3>1. Append(source.queue, source.made + 1) \in Seq(Nat) /\ source.made + 1 \in Nat
      BY <1>6
    <3>2. source' \in [on : BOOLEAN, made : Nat, queue : Seq(Nat), eos : BOOLEAN, failed : BOOLEAN]
      BY <1>2, <2>1, <3>1 DEF Types
    <3> QED BY <1>2, <1>4, <2>1, <3>2 DEF Types, runVars
  <2>4. /\ Len(source'.queue) = Len(source.queue) + 1
        /\ \A i \in 1..Len(source.queue) : source'.queue[i] = source.queue[i]
        /\ source'.queue[Len(source.queue) + 1] = source.made + 1
    BY <1>6, <2>2
  <2>5. SourceInv'
    BY <1>3, <1>5, <1>6, <2>1, <2>2, <2>4 DEF SourceInv
  <2> QED BY <1>1, <1>2, <1>4, <2>2, <2>3, <2>5, SourceAlone
<1>8. CASE SourceEnds \/ SourceFails \/ SourceGivesUp
  <2>1. /\ source'.made = source.made /\ source'.queue = source.queue
        /\ ~ GaveUp
        /\ source'.eos => source.made = run.total \/ source'.failed
        /\ source'.failed => "error" \in sourceBus'
    BY <1>2, <1>3, <1>8 DEF Types, SourceEnds, SourceFails, SourceGivesUp, SourceInv, GaveUp
  <2>2. Types'
    BY <1>2, <1>4, <1>8 DEF Types, runVars, SourceEnds, SourceFails, SourceGivesUp
  <2>3. SourceInv'
    BY <1>3, <1>5, <2>1 DEF SourceInv
  <2> QED BY <1>1, <1>2, <1>4, <2>1, <2>2, <2>3, SourceAlone
<1> QED BY <1>7, <1>8

\* A step of the sink alone.
LEMMA SinkAlone ==
  ASSUME IInv, Started, run.mode # "none", stage # "over",
         UNCHANGED <<runVars, source, sourceBus, stage, targetFile>>,
         Types', SinkInv',
         Len(sink.got) = WantedLen /\ sink.queue = << >> =>
           Len(sink'.got) = WantedLen /\ sink'.queue = << >>
  PROVE  IInv'
<1>1. run' = run /\ run'.mode # "none" /\ stage' = stage /\ source' = source
      /\ sourceBus' = sourceBus /\ index' = index /\ held' = held /\ collected' = collected
      /\ ending' = ending /\ targetFile' = targetFile
  BY DEF runVars
<1>2. Done' = Done /\ InHand' = InHand /\ Pulled' = Pulled
  BY <1>1 DEF Done, InHand, Pulled, Filter
<1>3. CallInv'
  BY <1>1, <1>2, WantedStays DEF Started, CallInv, GaveUp
<1>4. SourceInv'
  BY <1>1, <1>2 DEF Started, SourceInv
<1>5. OutInv'
  <2>1. ending' = "none"
    BY <1>1 DEF Started, OutInv
  <2> QED BY <1>1, <1>2, <2>1, WantedStays DEF Started, OutInv
<1> QED BY <1>1, <1>3, <1>4, <1>5 DEF IInv, Started

LEMMA SinkStep ==
  ASSUME IInv, SinkTakes \/ SinkEnds \/ SinkStops \/ SinkFails
  PROVE  IInv'
<1>1. sink.on
  BY DEF SinkTakes, SinkEnds, SinkStops, SinkFails
<1>2. Types /\ run.mode # "none" /\ Started
  BY <1>1 DEF IInv, Unstarted
<1>3. stage # "over" /\ SinkInv /\ CallInv
  BY <1>1, <1>2 DEF Started, OutInv
<1>4. UNCHANGED <<runVars, source, sourceBus, stage, targetFile>>
  BY DEF SinkTakes, SinkEnds, SinkStops, SinkFails
<1>5. Done' = Done /\ run' = run /\ index' = index /\ stage' = stage
  BY <1>4 DEF Done, Filter, runVars
<1>6. CASE SinkTakes
  <2>1. sink.queue # << >> /\ sinkBus' = sinkBus
        /\ sink' = [sink EXCEPT !.queue = Tail(@), !.got = Append(@, Head(sink.queue))]
    BY <1>6 DEF SinkTakes
  <2>2. PICK got, pending : got = sink.got /\ pending = sink.queue
    OBVIOUS
  <2>3. got \in Seq(Samples) /\ pending \in Seq(Samples) /\ pending # << >>
    BY <1>2, <2>1, <2>2 DEF Types
  <2>4. /\ sink'.got = Append(got, Head(pending)) /\ sink'.queue = Tail(pending)
        /\ sink'.eos = sink.eos /\ sink'.early = sink.early
    BY <1>2, <2>1, <2>2 DEF Types
  <2>5. /\ Append(got, Head(pending)) \in Seq(Samples) /\ Tail(pending) \in Seq(Samples)
        /\ Len(Append(got, Head(pending))) = Len(got) + 1 /\ Len(pending) = Len(Tail(pending)) + 1
        /\ \A i \in 1..Len(got) : Append(got, Head(pending))[i] = got[i]
        /\ Append(got, Head(pending))[Len(got) + 1] = pending[1]
        /\ \A i \in 1..Len(Tail(pending)) : Tail(pending)[i] = pending[i + 1]
        /\ Len(got) \in Nat /\ Len(pending) \in Nat /\ Len(Tail(pending)) \in Nat
    BY <2>3
  <2>6. Types'
    BY <1>2, <1>4, <2>1, <2>2, <2>5 DEF Types, runVars
  <2>7. /\ \A i \in 1..Len(got) : got[i] = WantedAt(i)
        /\ \A i \in 1..Len(pending) : pending[i] = WantedAt(Len(got) + i)
    BY <1>3, <2>2 DEF SinkInv
  <2>8. \A i \in 1..Len(sink'.got) : sink'.got[i] = WantedAt(i)
    BY <2>4, <2>5, <2>7
  <2>9. \A i \in 1..Len(sink'.queue) : sink'.queue[i] = WantedAt(Len(sink'.got) + i)
    <3>1. \A i \in 1..Len(Tail(pending)) : i + 1 \in 1..Len(pending)
                                       /\ Len(got) + (i + 1) = Len(got) + 1 + i
      BY <2>5
    <3> QED BY <2>4, <2>5, <2>7, <3>1
  <2>10. Fed' = Fed
    <3>1. Len(sink'.got) = Len(got) + 1 /\ Len(pending) = Len(sink'.queue) + 1
          /\ Len(sink'.queue) \in Nat
      BY <2>4, <2>5
    <3>2. Len(got) \in Nat /\ Len(pending) \in Nat
      BY <2>5
    <3>3. Len(sink'.got) + Len(sink'.queue) = Len(got) + Len(pending)
      <4>1. \A m, n, k, l \in Nat : k = m + 1 /\ n = l + 1 => k + l = m + n
        OBVIOUS
      <4>2. Len(sink'.got) \in Nat
        BY <3>1, <3>2
      <4> QED BY <3>1, <3>2, <4>1, <4>2, Zenon
    <3> QED BY <2>2, <3>3 DEF Fed
  <2>11. SinkInv'
    <3>1. \A i : WantedAt(i)' = WantedAt(i)
      BY <1>5, WantedStays
    <3>2. PICK g, q : g = sink'.got /\ q = sink'.queue
      OBVIOUS
    <3>3. /\ \A i \in 1..Len(g) : g[i] = WantedAt(i)'
          /\ \A i \in 1..Len(q) : q[i] = WantedAt(Len(g) + i)'
      <4>1. /\ \A i \in 1..Len(g) : g[i] = WantedAt(i)
            /\ \A i \in 1..Len(q) : q[i] = WantedAt(Len(g) + i)
        BY <2>8, <2>9, <3>2
      <4> QED BY <3>1, <4>1, Zenon
    <3>5. "eos" \in sinkBus => sink.early
      BY <1>3, <2>1 DEF SinkInv
    <3>6. (/\ \A i \in 1..Len(sink.got) : sink.got[i] = WantedAt(i)
           /\ \A i \in 1..Len(sink.queue) : sink.queue[i] = WantedAt(Len(sink.got) + i))'
      BY <3>2, <3>3
    <3> QED BY <1>3, <1>5, <2>1, <2>4, <2>10, <3>5, <3>6, WantedStays DEF SinkInv, runVars
  <2> QED BY <1>2, <1>3, <1>4, <2>1, <2>6, <2>11, SinkAlone
<1>7. CASE SinkEnds \/ SinkStops \/ SinkFails
  <2>1. /\ sink'.got = sink.got /\ sink'.queue = sink.queue /\ sink'.eos = sink.eos
        /\ sink.early => sink'.early
        /\ sink'.early => ~ run.managed
        /\ "eos" \in sinkBus' => sink'.early \/ (sink.queue = << >> /\ sink.eos)
    BY <1>2, <1>3, <1>7 DEF Types, SinkInv, SinkEnds, SinkStops, SinkFails
  <2>2. Types'
    <3>1. /\ sink' \in [on : BOOLEAN, queue : Seq(Samples), eos : BOOLEAN, got : Seq(Samples),
                        early : BOOLEAN]
          /\ sinkBus' \subseteq {"eos", "error"}
      BY <1>2, <1>7 DEF Types, SinkEnds, SinkStops, SinkFails
    <3> QED BY <1>2, <1>4, <3>1 DEF Types, runVars
  <2>3. Fed' = Fed
    BY <2>1 DEF Fed
  <2>4. SinkInv'
    BY <1>3, <1>4, <1>5, <2>1, <2>3, WantedStays DEF SinkInv, runVars
  <2> QED BY <1>2, <1>3, <1>4, <2>1, <2>2, <2>4, SinkAlone
<1> QED BY <1>6, <1>7

\* A file of somebody else's at the output path.
LEMMA OccupiedStep ==
  ASSUME IInv, Occupied
  PROVE  IInv'
<1>1. Types /\ run.mode # "none" /\ Started /\ stage # "over"
  BY DEF IInv, Unstarted, Occupied
<1>2. /\ UNCHANGED <<run, index, held, wait, collected, ending>>
      /\ UNCHANGED <<source, sourceBus, sink, sinkBus, stage>>
      /\ targetFile' = "other"
  BY DEF Occupied, runVars
<1>3. Types'
  BY <1>1, <1>2 DEF Types
<1>4. Done' = Done /\ InHand' = InHand /\ Pulled' = Pulled /\ Fed' = Fed
  BY <1>2 DEF Done, InHand, Pulled, Filter, Fed
<1>5. SourceInv'
  BY <1>1, <1>2, <1>4 DEF Started, SourceInv
<1>6. CallInv'
  BY <1>1, <1>2, <1>4, WantedStays DEF Started, CallInv, GaveUp
<1>7. SinkInv'
  BY <1>1, <1>2, <1>4, WantedStays DEF Started, SinkInv
<1>8. OutInv'
  <2>1. ending' = "none"
    BY <1>1, <1>2 DEF Started, OutInv
  <2> QED BY <1>1, <1>2, <1>4, <2>1, WantedStays DEF Started, OutInv
<1> QED BY <1>1, <1>2, <1>3, <1>5, <1>6, <1>7, <1>8 DEF IInv, Started

-----------------------------------------------------------------------------
(* The call returns.                                                       *)

\* Returning takes nothing from what was fed, and stops both pipelines.
LEMMA ReturnStep ==
  ASSUME IInv, Started, run.mode # "none", NEW what \in {"ok", "error"}, Returns(what),
         UNCHANGED <<run, index, held, wait, collected, sourceBus, sinkBus>>,
         targetFile' = targetFile \/ (stage = "publish" /\ targetFile' = "captured" /\ what = "ok"),
         stage # "over",
         what = "ok" /\ run.mode # "extract" => HandedOver,
         what = "ok" /\ run.mode = "extract" =>
           Done = Selected(run) \/ (GaveUp /\ "error" \in sourceBus)
  PROVE  IInv'
<1>1. Types
  BY DEF IInv
<1>2. /\ source' = [source EXCEPT !.on = FALSE] /\ sink' = [sink EXCEPT !.on = FALSE]
      /\ stage' = "over" /\ ending' = what
  BY DEF Returns, Go
<1>3. /\ source'.made = source.made /\ source'.queue = source.queue /\ ~ source'.on
      /\ source'.eos = source.eos /\ source'.failed = source.failed
      /\ sink'.queue = sink.queue /\ sink'.got = sink.got /\ sink'.eos = sink.eos
      /\ sink'.early = sink.early /\ ~ sink'.on
  BY <1>1, <1>2 DEF Types
<1>4. Types'
  BY <1>1, <1>2 DEF Types, Stages
<1>5. Done' = Done /\ Fed' = Fed
  BY <1>3 DEF Done, Filter, Fed
<1>6. InHand' => FALSE
  BY <1>2 DEF InHand, Filter
<1>7. CallInv'
  BY <1>2, <1>3, <1>5, <1>6, WantedStays DEF Started, CallInv, Loop
<1>8. SinkInv'
  BY <1>2, <1>3, <1>5, WantedStays DEF Started, SinkInv
<1>9. OutInv'
  <2>1. GaveUp' = GaveUp
    BY <1>3 DEF GaveUp
  <2>2. HandedOver' = HandedOver
    BY <1>3, <1>5, WantedStays DEF HandedOver
  <2>3. targetFile' = "captured" => what = "ok" /\ Len(sink.got) = WantedLen
    BY DEF Started, OutInv
  <2> QED BY <1>2, <1>3, <1>5, <2>1, <2>2, <2>3, WantedStays DEF Started, OutInv
<1> QED BY <1>2, <1>4, <1>7, <1>8, <1>9 DEF IInv, Started

LEMMA ErrsStep ==
  ASSUME IInv, Errs, stage # "over"
  PROVE  IInv'
<1>1. CASE run.mode # "none"
  <2>1. Returns("error") /\ UNCHANGED <<run, index, held, wait, collected, sourceBus, sinkBus>>
        /\ targetFile' = targetFile
    BY DEF Errs
  <2> QED BY <1>1, <2>1, ReturnStep DEF IInv
<1>2. CASE run.mode = "none"
  <2>1. Types /\ Unstarted
    BY <1>2 DEF IInv
  <2>2. /\ source' = [source EXCEPT !.on = FALSE] /\ sink' = [sink EXCEPT !.on = FALSE]
        /\ stage' = "over" /\ ending' = "error"
        /\ UNCHANGED <<run, index, held, wait, collected, sourceBus, sinkBus, targetFile>>
    BY DEF Errs, Returns, Go
  <2>3. Types'
    BY <2>1, <2>2 DEF Types, Stages
  <2>4. Unstarted'
    BY <2>1, <2>2 DEF Types, Unstarted
  <2> QED BY <1>2, <2>2, <2>3, <2>4 DEF IInv
<1> QED BY <1>1, <1>2

LEMMA BeginStep ==
  ASSUME IInv, Begin
  PROVE  IInv'
<1>1. Types /\ Unstarted /\ stage = "idle" /\ ending = "none"
  BY DEF IInv, Begin, Started, Unstarted
<1>2. /\ run' \in Requested
      /\ run'.managed => run'.mode # "extract"
      /\ source' = [source EXCEPT !.on = TRUE]
      /\ sink' = [sink EXCEPT !.on = run'.mode = "filter"]
      /\ stage' = "select"
      /\ UNCHANGED <<index, held, wait, collected, ending, sourceBus, sinkBus, targetFile>>
  BY DEF Begin, Go
<1>3. run'.mode \in {"filter", "file", "extract"} /\ run'.total \in Nat /\ run'.limit \in Nat
  <2>1. PICK r \in Requested : r = run'
    BY <1>2
  <2>2. r.mode \in {"filter", "file", "extract"} /\ r.total \in Nat /\ r.limit \in Nat
    BY BridgeAssumption DEF Requested
  <2> QED BY <2>1, <2>2
<1>4. Types'
  <2>1. source' \in [on : BOOLEAN, made : Nat, queue : Seq(Nat), eos : BOOLEAN, failed : BOOLEAN]
    BY <1>1, <1>2 DEF Types
  <2>2. sink' \in [on : BOOLEAN, queue : Seq(Samples), eos : BOOLEAN, got : Seq(Samples),
                   early : BOOLEAN]
    BY <1>1, <1>2 DEF Types
  <2> QED BY <1>1, <1>2, <2>1, <2>2 DEF Types, Stages, Loop
<1>5. /\ source'.made = 0 /\ source'.queue = << >> /\ ~ source'.eos /\ ~ source'.failed
      /\ sink'.queue = << >> /\ ~ sink'.eos /\ sink'.got = << >> /\ ~ sink'.early
      /\ index' = 0 /\ collected' = << >> /\ Len(collected') = 0
      /\ Len(sink'.queue) = 0 /\ Len(sink'.got) = 0 /\ Len(source'.queue) = 0
  BY <1>1, <1>2 DEF Types, Unstarted
<1>6. Done' = 0 /\ ~ InHand' /\ Pulled' = 0 /\ Fed' = 0
  <2>1. Done' = 0
    BY <1>5 DEF Done
  <2>2. ~ InHand'
    BY <1>2 DEF InHand
  <2>3. Pulled' = 0
    BY <2>1, <2>2 DEF Pulled
  <2>4. Fed' = 0
    BY <1>5 DEF Fed
  <2> QED BY <2>1, <2>2, <2>3, <2>4
<1>7. SourceInv'
  BY <1>3, <1>5, <1>6 DEF SourceInv
<1>8. CallInv'
  <2>1. 0 <= Selected(run)'
    BY <1>3 DEF Selected
  <2> QED BY <1>2, <1>5, <1>6, <2>1 DEF CallInv, Loop, Filter, File
<1>9. SinkInv'
  BY <1>1, <1>2, <1>5, <1>6 DEF SinkInv, Unstarted
<1>10. OutInv'
  BY <1>1, <1>2 DEF OutInv, Unstarted
<1> QED BY <1>2, <1>3, <1>4, <1>7, <1>8, <1>9, <1>10 DEF IInv, Started

-----------------------------------------------------------------------------
(* The call goes on.                                                       *)

\* A step of the thread that moves no buffer of the sink.
LEMMA ThreadMoves ==
  ASSUME IInv, Started, run.mode # "none", stage # "over",
         Types', stage' \notin {"idle", "over"}, run' = run, SourceInv', CallInv',
         sink'.got = sink.got, sink'.queue = sink.queue, sink'.early = sink.early,
         sinkBus' \subseteq sinkBus, ending' = ending, targetFile' = targetFile,
         Filter => index' = index,
         File => \/ collected' = collected \/ Fed = 0,
         stage' \in {"pushed", "drain", "publish"} <=>
           stage \in {"pushed", "drain", "publish"} \/ (Filter /\ stage' = "drain"),
         sink.eos => sink'.eos, sink'.eos => stage' \in {"drain", "publish"},
         stage' = "publish" => run.managed /\ Len(sink.got) = WantedLen /\ sink.queue = << >>
  PROVE  IInv'
<1>1. Fed' = Fed
  BY DEF Fed
<1>2. Filter' = Filter /\ File' = File /\ Selected(run)' = Selected(run) /\ WantedLen' = WantedLen
  BY WantedStays
<1>3. File => Done' = Done \/ Fed = 0
  BY <1>2 DEF Done, File, Filter
<1>4. SinkInv'
  BY <1>1, <1>2, <1>3, WantedStays DEF Started, SinkInv, Filter, File
<1>5. OutInv'
  BY <1>2 DEF Started, OutInv
<1> QED BY <1>4, <1>5 DEF IInv, Started

LEMMA SelectStep ==
  ASSUME IInv, Select
  PROVE  IInv'
<1>1. stage = "select" /\ Types /\ run.mode # "none" /\ Started
  BY DEF Select, IInv, Unstarted
<1>2. /\ UNCHANGED <<run, index, held, collected, ending, source, sourceBus, sink, sinkBus, targetFile>>
      /\ wait' = Patience
      /\ stage' = IF run.limit # 0 /\ index = run.limit THEN "selected" ELSE "pull"
  BY DEF Select, Go
<1>3. Types'
  BY <1>1, <1>2, BridgeAssumption DEF Types, Stages, Loop
<1>4. Done' = Done /\ Pulled' = Pulled /\ ~ InHand /\ ~ InHand' /\ Fed' = Fed
  BY <1>1, <1>2 DEF Done, InHand, Pulled, Filter, Fed
<1>5. SourceInv'
  BY <1>1, <1>2, <1>4 DEF Started, SourceInv
<1>6. CallInv'
  <2>1. index = Done /\ Done \in Nat
    BY <1>1 DEF Started, CallInv, Loop, Done, Types
  <2>2. run.limit # 0 /\ index = run.limit => Done = Selected(run)
    BY <1>1, <2>1, RequestFacts DEF Started, CallInv
  <2>3. ~ (run.limit # 0 /\ index = run.limit) => run.limit = 0 \/ Done < run.limit
    BY <1>1, <2>1, RequestFacts DEF Started, CallInv
  <2> QED BY <1>1, <1>2, <1>4, <2>2, <2>3, WantedStays DEF Started, CallInv, Loop
<1> QED BY <1>1, <1>2, <1>3, <1>5, <1>6, ThreadMoves DEF Started, SinkInv

\* The looks at the buses, and the waits.
LEMMA PollRound ==
  ASSUME IInv, PullPolls \/ PushPolls \/ PushWaits \/ DrainWaits
  PROVE  IInv'
<1>1. /\ stage \in {"pull", "again", "push", "room", "drain"}
      /\ Types /\ run.mode # "none" /\ Started
  BY DEF PullPolls, PushPolls, PushWaits, DrainWaits, IInv, Unstarted
<1>2. /\ UNCHANGED <<run, index, held, collected, ending, source, sink, targetFile>>
      /\ sinkBus' \subseteq sinkBus
      /\ sourceBus' \in {sourceBus, {}}
      /\ "error" \in sourceBus => sourceBus' = sourceBus
      /\ wait' = wait \/ (wait > 0 /\ wait' = wait - 1)
  BY DEF PullPolls, PushPolls, PushWaits, DrainWaits, Quiet, Silent, runVars
<1>3. \/ stage = "pull" /\ stage' = "try"
      \/ stage = "again" /\ stage' = "eos"
      \/ stage = "push" /\ stage' = "room" /\ "error" \notin sourceBus
      \/ stage = "room" /\ stage' = "push"
      \/ stage = "drain" /\ stage' = "drain"
  BY DEF PullPolls, PushPolls, PushWaits, DrainWaits, Quiet, Go
<1>4. Types'
  BY <1>1, <1>2, <1>3 DEF Types, Stages, Loop
<1>5. Done' = Done /\ Pulled' = Pulled /\ InHand' = InHand
  BY <1>2, <1>3 DEF Done, InHand, Pulled, Filter
<1>6. SourceInv'
  BY <1>1, <1>2, <1>5 DEF Started, SourceInv
<1>7. CallInv'
  <2>1. stage = "push" /\ stage' = "room" => ~ source.failed
    BY <1>1, <1>3 DEF Started, SourceInv
  <2> QED BY <1>1, <1>2, <1>3, <1>5, <2>1, WantedStays DEF Started, CallInv, Loop, GaveUp
<1> QED BY <1>1, <1>2, <1>3, <1>4, <1>6, <1>7, ThreadMoves DEF Started, SinkInv

LEMMA TrySampleStep ==
  ASSUME IInv, TrySample
  PROVE  IInv'
<1>1. stage = "try" /\ Types /\ run.mode # "none" /\ Started
  BY DEF TrySample, IInv, Unstarted
<1>2. UNCHANGED <<run, index, wait, collected, ending, sourceBus, sink, sinkBus, targetFile>>
  BY DEF TrySample
<1>3. Done' = Done /\ ~ InHand /\ Done \in Nat
  BY <1>1, <1>2 DEF Done, InHand, Filter, Types
<1>4. CASE source.queue = << >>
  <2>1. stage' = "again" /\ held' = held /\ source' = source
    BY <1>4 DEF TrySample, Go
  <2>2. Types'
    BY <1>1, <1>2, <2>1 DEF Types, Stages, Loop
  <2>3. ~ InHand' /\ Pulled' = Pulled
    BY <1>3, <2>1 DEF InHand, Pulled
  <2>4. SourceInv'
    BY <1>1, <1>2, <2>1, <2>3, <1>3 DEF Started, SourceInv
  <2>5. CallInv'
    BY <1>1, <1>2, <1>3, <2>1, <2>3, WantedStays DEF Started, CallInv, Loop
  <2> QED BY <1>1, <1>2, <2>1, <2>2, <2>4, <2>5, ThreadMoves DEF Started, SinkInv
<1>5. CASE source.queue # << >>
  <2>1. /\ stage' = "frame" /\ held' = Head(source.queue)
        /\ source' = [source EXCEPT !.queue = Tail(@)]
    BY <1>5 DEF TrySample, Go
  <2>2. PICK pending : pending = source.queue
    OBVIOUS
  <2>3. pending \in Seq(Nat) /\ pending # << >>
    BY <1>1, <1>5, <2>2 DEF Types
  <2>4. /\ Head(pending) = pending[1] /\ Head(pending) \in Nat
        /\ Tail(pending) \in Seq(Nat) /\ Len(pending) = Len(Tail(pending)) + 1
        /\ \A i \in 1..Len(Tail(pending)) : Tail(pending)[i] = pending[i + 1]
        /\ Len(pending) \in Nat /\ Len(Tail(pending)) \in Nat
    BY <2>3
  <2>5. /\ source'.made = source.made /\ source'.queue = Tail(pending)
        /\ source'.eos = source.eos /\ source'.failed = source.failed
    BY <1>1, <2>1, <2>2 DEF Types
  <2>6. Types'
    BY <1>1, <1>2, <2>1, <2>2, <2>4 DEF Types, Stages, Loop
  <2>7. InHand' /\ Pulled = Done /\ Pulled' = Done + 1
    BY <1>3, <2>1 DEF InHand, Pulled
  <2>8. /\ source.made = Done + Len(pending) /\ source.made <= run.total
        /\ \A i \in 1..Len(pending) : pending[i] = Done + i
    BY <1>1, <2>2, <2>7 DEF Started, SourceInv
  <2>9. SourceInv'
    <3>1. source'.made = Pulled' + Len(source'.queue)
      BY <1>3, <2>4, <2>5, <2>7, <2>8
    <3>2. \A i \in 1..Len(source'.queue) : source'.queue[i] = Pulled' + i
      BY <1>3, <2>4, <2>5, <2>7, <2>8
    <3>3. held' = Pulled'
      BY <2>1, <2>2, <2>4, <2>7, <2>8
    <3> QED BY <1>1, <1>2, <2>5, <2>7, <2>8, <3>1, <3>2, <3>3 DEF Started, SourceInv
  <2>10. CallInv'
    BY <1>1, <1>2, <1>3, <2>1, <2>5, WantedStays DEF Started, CallInv, Loop
  <2> QED BY <1>1, <1>2, <2>1, <2>6, <2>9, <2>10, ThreadMoves DEF Started, SinkInv
<1> QED BY <1>4, <1>5

LEMMA CheckEosStep ==
  ASSUME IInv, CheckEos
  PROVE  IInv'
<1>1. stage = "eos" /\ Types /\ run.mode # "none" /\ Started
  BY DEF CheckEos, IInv, Unstarted
<1>2. /\ UNCHANGED <<run, index, held, collected, ending, source, sourceBus, sink, sinkBus, targetFile>>
      /\ \/ IsEos /\ stage' = "selected" /\ wait' = wait
         \/ stage' = "pull" /\ wait > 0 /\ wait' = wait - 1
  BY DEF CheckEos, Go
<1>3. Types'
  BY <1>1, <1>2 DEF Types, Stages, Loop
<1>4. Done' = Done /\ Pulled' = Pulled /\ ~ InHand /\ ~ InHand' /\ Pulled = Done /\ Done \in Nat
  BY <1>1, <1>2 DEF Done, InHand, Pulled, Filter, Types
<1>5. SourceInv'
  BY <1>1, <1>2, <1>4 DEF Started, SourceInv
<1>6. CallInv'
  <2>1. stage' = "selected" => Done = Selected(run) \/ GaveUp
    <3>1. SUFFICES ASSUME IsEos PROVE Done = Selected(run) \/ GaveUp
      BY <1>2
    <3>2. source.made = Done /\ (source.made = run.total \/ GaveUp)
      BY <1>1, <1>4, <3>1 DEF IsEos, Started, SourceInv, GaveUp
    <3> QED BY <1>1, <1>4, <3>2, RequestFacts DEF Started, CallInv
  <2> QED BY <1>1, <1>2, <1>4, <2>1, WantedStays DEF Started, CallInv, Loop, GaveUp
<1> QED BY <1>1, <1>2, <1>3, <1>5, <1>6, ThreadMoves DEF Started, SinkInv

LEMMA ProcessFrameStep ==
  ASSUME IInv, ProcessFrame
  PROVE  IInv'
<1>1. stage = "frame" /\ run.mode = "filter" /\ Types /\ run.mode # "none" /\ Started
  BY DEF ProcessFrame, IInv, Unstarted
<1>2. /\ UNCHANGED <<run, index, held, collected, ending, source, sourceBus, sink, sinkBus, targetFile>>
      /\ wait' = Patience /\ stage' = "push"
  BY DEF ProcessFrame, Go
<1>3. Types'
  BY <1>1, <1>2, BridgeAssumption DEF Types, Stages, Loop
<1>4. Done' = Done /\ Pulled' = Pulled /\ InHand /\ InHand'
  BY <1>1, <1>2 DEF Done, InHand, Pulled, Filter
<1>5. SourceInv'
  BY <1>1, <1>2, <1>4 DEF Started, SourceInv
<1>6. CallInv'
  BY <1>1, <1>2, <1>4, WantedStays DEF Started, CallInv, Loop, File, Filter
<1> QED BY <1>1, <1>2, <1>3, <1>5, <1>6, ThreadMoves DEF Started, SinkInv

LEMMA Taken ==
  ASSUME NEW d \in Nat, NEW queued \in Nat, NEW total \in Nat, NEW made,
         made = d + 1 + queued, made <= total
  PROVE  d + 1 <= total
OBVIOUS

\* One more frame of a sound file, or one more extraction.
LEMMA CollectFrameStep ==
  ASSUME IInv, CollectFrame
  PROVE  IInv'
<1>1. stage = "frame" /\ run.mode # "filter" /\ Types /\ run.mode # "none" /\ Started
  BY DEF CollectFrame, IInv, Unstarted
<1>2. /\ UNCHANGED <<run, held, wait, ending, source, sourceBus, sink, sinkBus, targetFile>>
      /\ collected' = Append(collected, held) /\ index' = index + 1 /\ stage' = "select"
  BY DEF CollectFrame, Go
<1>3. /\ collected' \in Seq(Nat) /\ Len(collected') = Len(collected) + 1
      /\ \A i \in 1..Len(collected) : collected'[i] = collected[i]
      /\ collected'[Len(collected) + 1] = held
      /\ Len(collected) \in Nat /\ index + 1 \in Nat
  BY <1>1, <1>2 DEF Types
<1>4. Types'
  BY <1>1, <1>2, <1>3 DEF Types, Stages, Loop
<1>5. /\ Done = Len(collected) /\ Done' = Done + 1 /\ InHand /\ ~ InHand'
      /\ Pulled = Done + 1 /\ Pulled' = Done + 1 /\ Done \in Nat
  BY <1>1, <1>2, <1>3 DEF Done, InHand, Pulled, Filter
<1>6. SourceInv'
  BY <1>1, <1>2, <1>5 DEF Started, SourceInv
<1>7. CallInv'
  <2>1. /\ source.made = Done + 1 + Len(source.queue) /\ source.made <= run.total
        /\ held = Done + 1 /\ Len(source.queue) \in Nat
    <3>1. SourceInv /\ source.queue \in Seq(Nat)
      BY <1>1 DEF Started, Types
    <3>2. Len(source.queue) \in Nat
      BY <3>1
    <3>3. /\ source.made = Pulled + Len(source.queue) /\ source.made <= run.total
          /\ held = Pulled
      BY <1>5, <3>1 DEF SourceInv
    <3> QED BY <1>5, <3>2, <3>3
  <2>2. Done + 1 <= run.total
    <3>1. run.total \in Nat
      BY <1>1, RequestFacts
    <3> QED BY <1>5, <2>1, <3>1, Taken
  <2>3. run.limit = 0 \/ Done + 1 <= run.limit
    BY <1>1, <1>5, RequestFacts DEF Started, CallInv
  <2>4. Done + 1 <= Selected(run)
    BY <1>1, <2>2, <2>3, RequestFacts
  <2>5. \A i \in 1..Len(collected') : collected'[i] = i
    BY <1>1, <1>3, <1>5, <2>1 DEF Started, CallInv, Filter
  <2>6. index' = Len(collected')
    BY <1>1, <1>2, <1>3 DEF Started, CallInv, Filter, Loop
  <2> QED BY <1>1, <1>2, <1>5, <2>4, <2>5, <2>6, WantedStays DEF Started, CallInv, Loop, Filter
<1>8. File => Fed = 0
  BY <1>1 DEF Started, SinkInv
<1> QED BY <1>1, <1>2, <1>4, <1>6, <1>7, <1>8, ThreadMoves DEF Started, SinkInv, Filter

LEMMA ProcessFileStep ==
  ASSUME IInv, ProcessFile
  PROVE  IInv'
<1>1. stage = "selected" /\ run.mode = "file" /\ Types /\ run.mode # "none" /\ Started
  BY DEF ProcessFile, IInv, Unstarted
<1>2. /\ UNCHANGED <<run, held, collected, ending, source, sourceBus, sinkBus, targetFile>>
      /\ index' = 0 /\ wait' = Patience /\ sink' = [sink EXCEPT !.on = TRUE] /\ stage' = "push"
  BY DEF ProcessFile, Go
<1>3. Types'
  BY <1>1, <1>2, BridgeAssumption DEF Types, Stages, Loop
<1>4. /\ sink'.got = sink.got /\ sink'.queue = sink.queue /\ sink'.early = sink.early
      /\ sink'.eos = sink.eos
  BY <1>1, <1>2 DEF Types
<1>5. Done' = Done /\ Pulled' = Pulled /\ ~ InHand /\ ~ InHand'
  BY <1>1, <1>2 DEF Done, InHand, Pulled, Filter
<1>6. SourceInv'
  BY <1>1, <1>2, <1>5 DEF Started, SourceInv
<1>7. CallInv'
  BY <1>1, <1>2, <1>5, WantedStays DEF Started, CallInv, Loop, Filter, File, GaveUp
<1>8. ~ sink.eos /\ ~ Filter
  BY <1>1 DEF Started, SinkInv, Filter
<1> QED BY <1>1, <1>2, <1>3, <1>4, <1>6, <1>7, <1>8, ThreadMoves

\* The buffer that goes into the sink is the next one of the complete output.
LEMMA PushStep ==
  ASSUME IInv, Push
  PROVE  IInv'
<1> DEFINE sample == Sample(IF run.mode = "file" THEN collected ELSE <<held>>, index)
<1>1. stage = "room" /\ Types /\ run.mode # "none" /\ Started
  BY DEF Push, IInv, Unstarted
<1>2. /\ UNCHANGED <<run, held, wait, collected, ending, source, sourceBus, sinkBus, targetFile>>
      /\ sink' = [sink EXCEPT !.queue = Append(@, sample)] /\ index' = index + 1
      /\ stage' = IF run.mode = "file" THEN "pushed" ELSE "select"
  BY DEF Push, Go
<1>3. run.mode \in {"filter", "file"} /\ (Filter \/ File)
  BY <1>1, RequestFacts DEF Started, CallInv, Loop, Filter, File
<1>4. sample \in Samples
  <2>1. sample.of \in Seq(Nat) /\ sample.sig \in Nat /\ sample \in [of : {sample.of}, sig : {sample.sig}]
    BY <1>1 DEF Sample, Types
  <2> QED BY <2>1 DEF Samples
<1>5. sample = WantedAt(Fed + 1)
  <2>1. CASE Filter
    <3>1. held = index + 1 /\ Fed = index /\ index \in Nat
      BY <1>1, <2>1 DEF Started, SourceInv, SinkInv, InHand, Pulled, Done, Types
    <3>2. ~ File /\ run.mode # "file"
      BY <2>1 DEF Filter, File
    <3>3. sample = Sample(<<held>>, index)
      BY <3>2
    <3>4. PICK n \in Nat : n = Fed + 1 /\ n = held /\ n - 1 = index
      BY <3>1
    <3>5. WantedAt(n) = Sample(<<n>>, n - 1)
      BY <3>2, Zenon DEF WantedAt
    <3> HIDE DEF sample
    <3>6. WantedAt(n) = Sample(<<held>>, index)
      BY <3>4, <3>5, Zenon
    <3> QED BY <3>3, <3>4, <3>6, Zenon
  <2>2. CASE File
    <3>1. Len(collected) = Selected(run) /\ index = 0 /\ \A i \in 1..Len(collected) : collected[i] = i
      BY <1>1, <2>2 DEF Started, CallInv, Done, Filter, File
    <3>2. collected = [i \in 1..Len(collected) |-> collected[i]]
      BY <1>1 DEF Types
    <3>3. collected = Selection
      BY <3>1, <3>2 DEF Selection
    <3> QED BY <2>2, <3>1, <3>3 DEF WantedAt, File
  <2> QED BY <1>3, <2>1, <2>2
<1> HIDE DEF sample
<1>6. PICK got, pending : got = sink.got /\ pending = sink.queue
  OBVIOUS
<1>7. got \in Seq(Samples) /\ pending \in Seq(Samples) /\ Fed = Len(got) + Len(pending)
  BY <1>1, <1>6 DEF Types, Fed
<1>8. /\ Append(pending, sample) \in Seq(Samples)
      /\ Len(Append(pending, sample)) = Len(pending) + 1
      /\ \A i \in 1..Len(pending) : Append(pending, sample)[i] = pending[i]
      /\ Append(pending, sample)[Len(pending) + 1] = sample
      /\ Len(got) \in Nat /\ Len(pending) \in Nat
  BY <1>4, <1>7
<1>9. /\ sink'.got = got /\ sink'.queue = Append(pending, sample)
      /\ sink'.early = sink.early /\ sink'.eos = sink.eos
  <2>1. sink' = [sink EXCEPT !.queue = Append(pending, sample)]
    BY <1>2, <1>6
  <2> QED BY <1>1, <1>6, <2>1 DEF Types
<1>10. Types'
  <2>1. sink' = [sink EXCEPT !.queue = Append(pending, sample)]
    BY <1>2, <1>6
  <2>2. sink' \in [on : BOOLEAN, queue : Seq(Samples), eos : BOOLEAN, got : Seq(Samples),
                   early : BOOLEAN]
    BY <1>1, <1>8, <2>1 DEF Types
  <2>3. stage' \in Stages /\ index' \in Nat
    BY <1>1, <1>2 DEF Types, Stages, Loop
  <2> QED BY <1>1, <1>2, <2>2, <2>3 DEF Types
<1>11. Fed' = Fed + 1 /\ Fed \in Nat
  <2>1. Fed' = Len(got) + Len(Append(pending, sample))
    BY <1>9, Zenon DEF Fed
  <2>2. Len(Append(pending, sample)) = Len(pending) + 1 /\ Len(got) \in Nat /\ Len(pending) \in Nat
    BY <1>8
  <2> QED BY <1>7, <2>1, <2>2
<1>12. ~ InHand' /\ Done \in Nat
  BY <1>1, <1>2 DEF InHand, Done, Types
<1>13. Filter => Done' = Done + 1 /\ Pulled = Done + 1 /\ Done = index
  BY <1>1, <1>2 DEF Done, Filter, Pulled, InHand
<1>14. File => Done' = Done /\ Pulled = Done /\ Done = Selected(run)
  BY <1>1, <1>2 DEF Done, Filter, File, Pulled, InHand, Started, CallInv
<1>15. Pulled' = Pulled
  BY <1>3, <1>12, <1>13, <1>14 DEF Pulled
<1>16. SourceInv'
  BY <1>1, <1>2, <1>12, <1>15 DEF Started, SourceInv
<1>17. CallInv'
  <2>1. CASE Filter
    <3>1. Done + 1 <= run.total
      <4>1. source.made = Done + 1 + Len(source.queue) /\ source.made <= run.total
            /\ Len(source.queue) \in Nat
        <5>1. SourceInv /\ source.queue \in Seq(Nat)
          BY <1>1 DEF Started, Types
        <5>2. Len(source.queue) \in Nat
          BY <5>1
        <5>3. source.made = Pulled + Len(source.queue) /\ source.made <= run.total
          BY <5>1 DEF SourceInv
        <5> QED BY <1>13, <2>1, <5>2, <5>3
      <4>2. run.total \in Nat
        BY <1>1, RequestFacts
      <4> QED BY <1>12, <4>1, <4>2, Taken
    <3>2. run.limit = 0 \/ Done + 1 <= run.limit
      BY <1>1, <1>12, <2>1, RequestFacts DEF Started, CallInv, InHand
    <3>3. Done + 1 <= Selected(run)
      BY <1>1, <3>1, <3>2, RequestFacts
    <3> QED BY <1>2, <1>12, <1>13, <2>1, <3>3, WantedStays DEF CallInv, Loop, Filter, File
  <2>2. CASE File
    <3>1. stage' = "pushed"
      BY <1>2, <2>2 DEF File
    <3> QED BY <1>1, <1>2, <1>12, <1>14, <2>2, <3>1, WantedStays
        DEF Started, CallInv, Loop, Filter, File
  <2> QED BY <1>3, <2>1, <2>2
<1>18. SinkInv'
  <2>1. /\ \A i \in 1..Len(got) : got[i] = WantedAt(i)
        /\ \A i \in 1..Len(pending) : pending[i] = WantedAt(Len(got) + i)
    BY <1>1, <1>6 DEF Started, SinkInv
  <2>2. PICK q : q = Append(pending, sample)
    OBVIOUS
  <2>3. \A i \in 1..Len(q) : q[i] = WantedAt(Len(got) + i)
    <3> SUFFICES ASSUME NEW i \in 1..Len(q) PROVE q[i] = WantedAt(Len(got) + i)
      OBVIOUS
    <3>1. CASE i \in 1..Len(pending)
      BY <1>8, <2>1, <2>2, <3>1
    <3>2. CASE i = Len(pending) + 1
      <4>1. Len(got) + i = Fed + 1
        BY <1>7, <1>8, <3>2
      <4> QED BY <1>5, <1>8, <2>2, <3>2, <4>1
    <3> QED BY <1>8, <2>2, <3>1, <3>2
  <2>4. \A i : WantedAt(i)' = WantedAt(i)
    BY <1>2, WantedStays
  <2>5. /\ \A i \in 1..Len(got) : got[i] = WantedAt(i)'
        /\ \A i \in 1..Len(q) : q[i] = WantedAt(Len(got) + i)'
    BY <2>1, <2>3, <2>4, Zenon
  <2>6. (/\ \A i \in 1..Len(sink.got) : sink.got[i] = WantedAt(i)
         /\ \A i \in 1..Len(sink.queue) : sink.queue[i] = WantedAt(Len(sink.got) + i))'
    BY <1>9, <2>2, <2>5
  <2>7. /\ Filter => Fed = index /\ index \in Nat
        /\ File => Fed = 0
        /\ ~ sink.eos
        /\ "eos" \in sinkBus => sink.early
        /\ sink.early => ~ run.managed
        /\ run.managed => run.mode # "extract"
    BY <1>1 DEF Started, SinkInv, Types
  <2>8. Filter => stage' = "select"
    BY <1>2 DEF Filter
  <2>9. File => stage' = "pushed"
    BY <1>2 DEF File
  <2>10. /\ "eos" \in sinkBus' => sink'.early \/ (sink'.queue = << >> /\ sink'.eos)
         /\ sink'.eos => stage' \in {"drain", "publish", "over"}
         /\ sink'.early => ~ run'.managed
         /\ run'.managed => run'.mode # "extract"
         /\ run'.mode # "extract"
    BY <1>2, <1>3, <1>9, <2>7
  <2>11. Filter => Fed' = index'
    BY <1>2, <1>11, <2>7
  <2>12. File => Fed' = 1 /\ Done' = Selected(run)
    BY <1>11, <1>14, <2>7
  <2> QED BY <1>2, <2>6, <2>9, <2>10, <2>11, <2>12, WantedStays DEF SinkInv
<1>19. OutInv'
  BY <1>1, <1>2, <1>3 DEF Started, OutInv
<1> QED BY <1>1, <1>2, <1>10, <1>16, <1>17, <1>18, <1>19 DEF IInv, Started

LEMMA EndOfStreamStep ==
  ASSUME IInv, EndOfStream
  PROVE  IInv'
<1>1. /\ IF run.mode = "filter" THEN stage = "selected" ELSE stage = "pushed"
      /\ Types /\ run.mode # "none" /\ Started
  BY DEF EndOfStream, IInv, Unstarted
<1>2. /\ UNCHANGED <<run, index, held, collected, ending, source, sourceBus, sinkBus, targetFile>>
      /\ wait' = Patience /\ sink' = [sink EXCEPT !.eos = TRUE] /\ stage' = "drain"
  BY DEF EndOfStream, Go
<1>3. Types'
  BY <1>1, <1>2, BridgeAssumption DEF Types, Stages, Loop
<1>4. /\ sink'.got = sink.got /\ sink'.queue = sink.queue /\ sink'.early = sink.early /\ sink'.eos
  BY <1>1, <1>2 DEF Types
<1>5. Done' = Done /\ Pulled' = Pulled /\ ~ InHand /\ ~ InHand'
  BY <1>1, <1>2 DEF Done, InHand, Pulled, Filter
<1>6. SourceInv'
  BY <1>1, <1>2, <1>5 DEF Started, SourceInv
<1>7. run.mode \in {"filter", "file"}
  BY <1>1, RequestFacts DEF Started, CallInv, Loop
<1>8. CallInv'
  BY <1>1, <1>2, <1>5, <1>7, WantedStays DEF Started, CallInv, Loop, Filter, File, GaveUp
<1> QED BY <1>1, <1>2, <1>3, <1>4, <1>6, <1>7, <1>8, ThreadMoves DEF Filter

\* A sink that has drained has consumed everything, or ended its stream itself.
LEMMA DrainedStep ==
  ASSUME IInv, Drained
  PROVE  IInv'
<1>1. stage = "drain" /\ Types /\ run.mode # "none" /\ Started
  BY DEF Drained, IInv, Unstarted
<1>2. UNCHANGED <<run, index, held, wait, collected, sourceBus, sinkBus, targetFile>>
      /\ "error" \notin sourceBus /\ "eos" \in sinkBus
  BY DEF Drained
<1>3. run.mode # "extract" /\ Done = Selected(run)
  BY <1>1, <1>2 DEF Started, CallInv, SourceInv, Loop, GaveUp
<1>4. HandedOver
  <2>1. sink.queue = << >> \/ sink.early
    BY <1>1, <1>2 DEF Started, SinkInv
  <2>2. File => Fed = 1
    BY <1>1 DEF Started, SinkInv
  <2>3. Filter => Fed = Selected(run)
    BY <1>1, <1>3 DEF Started, SinkInv, Done
  <2> QED BY <1>1, <1>3, <2>1, <2>2, <2>3, RequestFacts DEF HandedOver, WantedLen, Filter, File
<1>5. CASE run.managed
  <2>1. stage' = "publish" /\ UNCHANGED <<ending, source, sink>>
    BY <1>5 DEF Drained, Go
  <2>2. Types'
    BY <1>1, <1>2, <2>1 DEF Types, Stages
  <2>3. Done' = Done /\ Pulled' = Pulled /\ ~ InHand /\ ~ InHand'
    BY <1>1, <1>2, <2>1 DEF Done, InHand, Pulled, Filter
  <2>4. SourceInv'
    BY <1>1, <1>2, <2>1, <2>3 DEF Started, SourceInv
  <2>5. CallInv'
    BY <1>1, <1>2, <1>3, <2>1, <2>3, WantedStays DEF Started, CallInv, Loop
  <2>6. sink.queue = << >> /\ Len(sink.got) = WantedLen
    <3>1. sink.queue = << >> /\ Len(sink.got) \in Nat
      BY <1>1, <1>4, <1>5 DEF Started, SinkInv, HandedOver, Types
    <3> QED BY <1>4, <3>1 DEF HandedOver, Fed
  <2> QED BY <1>1, <1>2, <1>5, <2>1, <2>2, <2>4, <2>5, <2>6, ThreadMoves
<1>6. CASE ~ run.managed
  <2>1. Returns("ok")
    BY <1>6 DEF Drained
  <2> QED BY <1>1, <1>2, <1>3, <1>4, <2>1, ReturnStep
<1> QED BY <1>5, <1>6

LEMMA ReturnSteps ==
  ASSUME IInv, Extracted \/ PublishCapture
  PROVE  IInv'
<1>1. stage \in {"selected", "publish"} /\ Types /\ run.mode # "none" /\ Started
  BY DEF Extracted, PublishCapture, IInv, Unstarted
<1>2. UNCHANGED <<run, index, held, wait, collected, sourceBus, sinkBus>>
  BY DEF Extracted, PublishCapture
<1>3. CASE Extracted
  <2>1. /\ run.mode = "extract" /\ Returns("ok") /\ targetFile' = targetFile
        /\ stage = "selected"
    BY <1>3 DEF Extracted
  <2>2. Done = Selected(run) \/ (GaveUp /\ "error" \in sourceBus)
    BY <1>1, <2>1 DEF Started, CallInv, SourceInv, GaveUp
  <2> QED BY <1>1, <1>2, <2>1, <2>2, ReturnStep
<1>4. CASE PublishCapture
  <2>1. stage = "publish" /\ Len(sink.got) = WantedLen /\ HandedOver
    <3>1. stage = "publish" /\ Len(sink.got) = WantedLen /\ sink.queue = << >>
      BY <1>1, <1>4 DEF PublishCapture, Started, OutInv
    <3>2. Len(sink.got) \in Nat
      BY <1>1 DEF Types
    <3> QED BY <3>1, <3>2 DEF HandedOver, Fed
  <2>2. run.mode # "extract"
    BY <1>1, <2>1 DEF Started, CallInv, Loop
  <2>3. CASE targetFile = "absent"
    BY <1>1, <1>2, <1>4, <2>1, <2>2, <2>3, ReturnStep DEF PublishCapture
  <2>4. CASE targetFile # "absent"
    BY <1>1, <1>2, <1>4, <2>1, <2>2, <2>4, ReturnStep DEF PublishCapture
  <2> QED BY <2>3, <2>4
<1> QED BY <1>3, <1>4

LEMMA InvStep == IInv /\ [BridgeNext]_bridgeVars => IInv'
<1> SUFFICES ASSUME IInv, [BridgeNext]_bridgeVars PROVE IInv'
  OBVIOUS
<1>1. CASE BeginRefused \/ PollFails \/ TimedOut \/ FrameFails \/ FileFails \/ PushRefused
  <2>1. stage # "over" /\ Errs
    BY <1>1 DEF BeginRefused, PollFails, TimedOut, FrameFails, FileFails, PushRefused
  <2> QED BY <2>1, ErrsStep
<1>2. CASE UNCHANGED bridgeVars
  <2>1. UNCHANGED <<run, index, held, wait, collected, ending, source, sourceBus, sink, sinkBus,
                    stage, targetFile>>
    BY <1>2 DEF bridgeVars, runVars
  <2>2. /\ Types' <=> Types
        /\ Unstarted' <=> Unstarted
    BY <2>1 DEF Types, Unstarted
  <2>3. Started' <=> Started
    BY <2>1 DEF Started, SourceInv, CallInv, SinkInv, OutInv, Done, InHand, Pulled, Fed, Filter,
       File, WantedLen, WantedAt, Sample, Selection, Selected, GaveUp, HandedOver
  <2> QED BY <2>1, <2>2, <2>3 DEF IInv
<1> QED
  BY <1>1, <1>2, BeginStep, SourceStep, SinkStep, OccupiedStep, SelectStep, PollRound,
     TrySampleStep, CheckEosStep, ProcessFrameStep, CollectFrameStep, ProcessFileStep, PushStep,
     EndOfStreamStep, DrainedStep, ReturnSteps DEF BridgeNext, Call, Pipelines

-----------------------------------------------------------------------------
(* The theorem.                                                            *)

LEMMA InvComplete == IInv => SuccessIsComplete
<1> SUFFICES ASSUME IInv PROVE SuccessIsComplete
  OBVIOUS
<1>1. CASE run.mode = "none"
  <2>1. Unstarted /\ ending # "ok" /\ targetFile # "captured" /\ Len(sink.got) = 0
    BY <1>1 DEF IInv, Unstarted
  <2>2. \A i \in 1..Len(sink.got) : FALSE
    BY <2>1
  <2> QED BY <2>1, <2>2, Zenon DEF SuccessIsComplete
<1>2. CASE run.mode # "none"
  <2>1. Types /\ Started /\ CallInv /\ SinkInv /\ OutInv
    BY <1>2 DEF IInv, Started
  <2>2. PICK got : got = sink.got
    OBVIOUS
  <2>3. /\ got \in Seq(Samples) /\ Len(got) \in Nat /\ Len(sink.queue) \in Nat
        /\ Fed = Len(got) + Len(sink.queue)
    BY <2>1, <2>2 DEF Types, Fed
  <2>4. Len(got) <= WantedLen /\ WantedLen \in Nat
    <3>1. WantedLen \in Nat
      BY <1>2, <2>1, RequestFacts DEF WantedLen
    <3>2. Filter => Fed <= Selected(run)
      BY <2>1 DEF SinkInv, CallInv, Done
    <3>3. File => Fed <= 1
      BY <2>1 DEF SinkInv
    <3>4. run.mode = "extract" => Fed = 0
      BY <2>1 DEF SinkInv
    <3>5. Fed <= WantedLen
      BY <1>2, <2>1, <3>2, <3>3, <3>4, RequestFacts DEF WantedLen, Filter, File
    <3> QED BY <2>3, <3>1, <3>5
  <2>5. /\ Wanted = [i \in 1..WantedLen |-> WantedAt(i)] /\ Len(Wanted) = WantedLen
    <3>1. CASE File
      <4>1. Wanted = <<Sample(Selection, 0)>> /\ WantedLen = 1
            /\ \A i : WantedAt(i) = Sample(Selection, 0)
        BY <3>1 DEF Wanted, File, WantedLen, WantedAt
      <4> QED BY <4>1
    <3>2. CASE ~ File
      <4>1. Wanted = [i \in 1..WantedLen |-> Sample(<<i>>, i - 1)]
            /\ \A i : WantedAt(i) = Sample(<<i>>, i - 1)
        BY <3>2 DEF Wanted, File, WantedLen, WantedAt
      <4> QED BY <2>4, <4>1
    <3> QED BY <3>1, <3>2
  <2>6. \A i \in 1..Len(got) : i <= Len(Wanted) /\ got[i] = Wanted[i]
    BY <2>1, <2>2, <2>3, <2>4, <2>5 DEF SinkInv
  <2>7. Len(got) = WantedLen => got = Wanted
    <3>1. got = [i \in 1..Len(got) |-> got[i]]
      BY <2>3
    <3> QED BY <2>1, <2>2, <2>5, <3>1 DEF SinkInv
  <2>8. Fed = WantedLen => got \o sink.queue = Wanted
    <3> SUFFICES ASSUME Fed = WantedLen PROVE got \o sink.queue = Wanted
      OBVIOUS
    <3>1. PICK rest : rest = sink.queue
      OBVIOUS
    <3>2. rest \in Seq(Samples) /\ Len(rest) \in Nat /\ Len(got) + Len(rest) = WantedLen
      BY <2>1, <2>3, <3>1 DEF Types
    <3>3. /\ \A i \in 1..Len(got) : got[i] = WantedAt(i)
          /\ \A i \in 1..Len(rest) : rest[i] = WantedAt(Len(got) + i)
      BY <2>1, <2>2, <3>1 DEF SinkInv
    <3>4. got \o rest = [i \in 1..(Len(got) + Len(rest)) |->
                          IF i <= Len(got) THEN got[i] ELSE rest[i - Len(got)]]
      <4>1. got \in Seq(Samples) /\ rest \in Seq(Samples)
        BY <2>3, <3>2
      <4>2. PICK all : all = got \o rest
        OBVIOUS
      <4>3. /\ all \in Seq(Samples) /\ Len(all) = Len(got) + Len(rest)
            /\ \A i \in 1..(Len(got) + Len(rest)) :
                 all[i] = IF i <= Len(got) THEN got[i] ELSE rest[i - Len(got)]
        BY <4>1, <4>2, ConcatProperties
      <4>4. all = [i \in 1..Len(all) |-> all[i]]
        BY <4>3
      <4>5. all = [i \in 1..(Len(got) + Len(rest)) |-> all[i]]
        BY <4>3, <4>4
      <4> QED BY <4>2, <4>3, <4>5
    <3>5. \A i \in 1..WantedLen :
            (IF i <= Len(got) THEN got[i] ELSE rest[i - Len(got)]) = WantedAt(i)
      <4> TAKE i \in 1..WantedLen
      <4>1. CASE i <= Len(got)
        BY <2>3, <2>4, <3>3, <4>1
      <4>2. CASE ~ (i <= Len(got))
        <5>1. i - Len(got) \in 1..Len(rest) /\ Len(got) + (i - Len(got)) = i
          BY <2>3, <2>4, <3>2, <4>2
        <5>2. rest[i - Len(got)] = WantedAt(Len(got) + (i - Len(got)))
          BY <3>3, <5>1
        <5> QED BY <4>2, <5>1, <5>2
      <4> QED BY <4>1, <4>2
    <3> QED BY <2>5, <3>1, <3>2, <3>4, <3>5
  <2>9. ending = "ok" /\ run.mode = "extract" =>
          /\ collected = [i \in 1..Len(collected) |-> i]
          /\ collected = Selection \/ ("error" \in sourceBus /\ source.eos)
    <3> SUFFICES ASSUME ending = "ok", run.mode = "extract"
                 PROVE  /\ collected = [i \in 1..Len(collected) |-> i]
                        /\ collected = Selection \/ ("error" \in sourceBus /\ source.eos)
      OBVIOUS
    <3>1. collected = [i \in 1..Len(collected) |-> collected[i]]
      BY <2>1 DEF Types
    <3>2. \A i \in 1..Len(collected) : collected[i] = i
      BY <2>1 DEF CallInv, Filter
    <3>3. collected = [i \in 1..Len(collected) |-> i]
      BY <3>1, <3>2
    <3>4. Len(collected) = Selected(run) \/ ("error" \in sourceBus /\ source.eos)
      BY <2>1 DEF OutInv, Done, Filter, GaveUp
    <3> QED BY <3>3, <3>4 DEF Selection
  <2> QED BY <2>1, <2>2, <2>6, <2>7, <2>8, <2>9 DEF OutInv, HandedOver, SuccessIsComplete
<1> QED BY <1>1, <1>2

\* A call of the bridge that reports success has handed every selected frame to its
\* sink, in order and with the signature of its own index, and the sink has consumed
\* all it was handed or had ended its stream of itself; a capture is published only
\* when every frame is in it; an extraction has the signatures of the first frames in
\* order, and of every selected one unless the source ended its stream on an error
\* that is still on its bus, unread (run_video_filter, run_audio_filter,
\* run_audio_file, extract_from_source), however the pipelines fail, stall or end.
THEOREM SuccessMeansDelivered == BridgeSpec => []SuccessIsComplete
BY InvInit, InvStep, InvComplete, PTL DEF BridgeSpec

=============================================================================
