---------------------------- MODULE FramePipeline ----------------------------
(***************************************************************************)
(* The dashboard's live signing pipeline (steganographer-dashboard,        *)
(* ws_handler.rs): encoders sign and embed a frame or an audio chunk,      *)
(* replace the cached artifact of their medium under that cache's mutex    *)
(* and, for video, hand the artifact to one verification thread through a  *)
(* bounded queue.  Decode polls clone the cached artifact and wait on its  *)
(* VerifySlot; OTS stamping reads the digest of the newest artifact.       *)
(*                                                                         *)
(* An artifact (frame bytes, index, digest, VerifySlot) is its revision: a *)
(* slot belongs to one artifact for ever, so slots are functions of the    *)
(* revision.  0 stands for "nothing cached".                               *)
(***************************************************************************)
EXTENDS Naturals, Sequences, FiniteSets

CONSTANTS
  VideoEncoders,     \* sockets and data channels that send video frames
  AudioEncoders,     \* sockets that send PCM chunks
  Pollers,           \* sockets and data channels that ask for a verdict
  DigestReaders,     \* ots_stamp and ots_status calls
  VERIFY_QUEUE_CAP,  \* jobs the verification queue holds (4 in the code)
  ENCODE_ADMISSION,  \* permits of the encode semaphore (2 in the code)
  MaxRevision,       \* BOUND: artifacts produced in a behaviour
  NoOne              \* "this mutex is free"

Encoders == VideoEncoders \cup AudioEncoders
Media == {"video", "audio"}
Revisions == 1..MaxRevision

ASSUME ActorsAssumption ==
  /\ VideoEncoders \cap AudioEncoders = {}
  /\ Encoders \cap DigestReaders = {}
  /\ NoOne \notin Encoders \cup DigestReaders
  /\ IsFiniteSet(Encoders)

ASSUME BoundsAssumption ==
  /\ VERIFY_QUEUE_CAP \in Nat \ {0}
  /\ ENCODE_ADMISSION \in 1..VERIFY_QUEUE_CAP
  /\ MaxRevision \in Nat

VARIABLES
  pc,          \* pc[e]: where encoder e is in its handler
  rev,         \* rev[e]: the revision e took for the artifact it delivers
  cacheRev,    \* CACHE_REVISION
  cacheLock,   \* cacheLock[m]: who holds the mutex of medium m's cache
  last,        \* last[m]: the cached artifact of medium m, 0 for None
  queue,       \* VerifyEngine.queue, oldest job first
  queueLock,   \* who holds that queue's mutex across several steps
  victim,      \* push_verify's `old`: the job evicted under that mutex
  wpc, job,    \* the verification thread and the job it took
  outcome,     \* outcome[r]: VerifySlot.latest of artifact r
  dropped,     \* dropped[r]: VerifySlot.dropped of artifact r
  ppc,         \* ppc[p]: where poll p is in wait_for
  asked,       \* asked[p]: the artifact p cloned from the cache
  waiters,     \* polls whose Notified future is enabled and not yet notified
  known,       \* history: the verdict asked[p] had when p cloned it
  answer,      \* answer[p]: the last reply p sent
  dpc          \* dpc[d]: which cache mutexes latest_media_digest holds

encoderVars == <<pc, rev, cacheRev, cacheLock, last>>
verifyVars == <<queue, queueLock, victim, wpc, job, outcome, dropped>>
pollVars == <<ppc, asked, waiters, known, answer>>
vars == <<encoderVars, verifyVars, pollVars, dpc>>

Medium(e) == IF e \in VideoEncoders THEN "video" ELSE "audio"
Admitted == {e \in Encoders : pc[e] # "idle"}

NoReply == [rev |-> 0, verdict |-> "none"]

Init ==
  /\ pc = [e \in Encoders |-> "idle"]
  /\ rev = [e \in Encoders |-> 0]
  /\ cacheRev = 0
  /\ cacheLock = [m \in Media |-> NoOne]
  /\ last = [m \in Media |-> 0]
  /\ queue = <<>>
  /\ queueLock = NoOne
  /\ victim = 0
  /\ wpc = "locking"
  /\ job = 0
  /\ outcome = [r \in Revisions |-> "none"]
  /\ dropped = [r \in Revisions |-> FALSE]
  /\ ppc = [p \in Pollers |-> "idle"]
  /\ asked = [p \in Pollers |-> 0]
  /\ waiters = {}
  /\ known = [p \in Pollers |-> "none"]
  /\ answer = [p \in Pollers |-> NoReply]
  /\ dpc = [d \in DigestReaders |-> "idle"]

-----------------------------------------------------------------------------
(* Encoders: process_encode_frame and process_audio_frame.  Decoding,      *)
(* signing, embedding and re-verifying run between Admit and LockCache;    *)
(* every early return among them is FailEncode.                            *)

Goto(e, l) == pc' = [pc EXCEPT ![e] = l]

\* Mutant of Admit: the semaphore is not consulted.
AdmitUnbounded(e) ==
  /\ pc[e] = "idle"
  /\ cacheRev + Cardinality(Admitted) < MaxRevision
  /\ Goto(e, "encoding")
  /\ UNCHANGED <<rev, cacheRev, cacheLock, last, verifyVars, pollVars, dpc>>

\* ENCODE_ADMISSION.try_acquire(); a busy encoder answers an error, changing nothing.
Admit(e) ==
  /\ pc[e] = "idle"
  /\ Cardinality(Admitted) < ENCODE_ADMISSION
  /\ cacheRev + Cardinality(Admitted) < MaxRevision   \* BOUND
  /\ Goto(e, "encoding")
  /\ UNCHANGED <<rev, cacheRev, cacheLock, last, verifyVars, pollVars, dpc>>

\* Any early return after admission: the permit is dropped, nothing is cached.
FailEncode(e) ==
  /\ pc[e] = "encoding"
  /\ Goto(e, "idle")
  /\ UNCHANGED <<rev, cacheRev, cacheLock, last, verifyVars, pollVars, dpc>>

\* Mutant of LockCache: the revision is taken before the cache is locked.
LockCacheLate(e) ==
  /\ pc[e] = "encoding"
  /\ Goto(e, "locked")
  /\ UNCHANGED <<rev, cacheRev, cacheLock, last, verifyVars, pollVars, dpc>>

LockCache(e) ==
  /\ pc[e] = "encoding"
  /\ cacheLock[Medium(e)] = NoOne
  /\ cacheLock' = [cacheLock EXCEPT ![Medium(e)] = e]
  /\ Goto(e, "locked")
  /\ UNCHANGED <<rev, cacheRev, last, verifyVars, pollVars, dpc>>

\* CACHE_REVISION.fetch_add(1) + 1: one atomic counter, two cache mutexes.
TakeRevision(e) ==
  /\ pc[e] = "locked"
  /\ cacheRev < MaxRevision   \* BOUND, implied by the one of Admit
  /\ cacheRev' = cacheRev + 1
  /\ rev' = [rev EXCEPT ![e] = cacheRev + 1]
  /\ Goto(e, "revised")
  /\ UNCHANGED <<cacheLock, last, verifyVars, pollVars, dpc>>

\* *last = Some(frame); drop(last); the job is enqueued after the unlock.
StoreFrame(e) ==
  /\ pc[e] = "revised"
  /\ e \in VideoEncoders
  /\ last' = [last EXCEPT !["video"] = rev[e]]
  /\ cacheLock' = [cacheLock EXCEPT !["video"] = NoOne]
  /\ Goto(e, "stored")
  /\ UNCHANGED <<rev, cacheRev, verifyVars, pollVars, dpc>>

\* Mutant of StoreAudio: it looks at the video cache under the audio cache's mutex.
StoreAudioUnderVideo(e) ==
  /\ pc[e] = "revised"
  /\ e \in AudioEncoders
  /\ cacheLock["video"] = NoOne
  /\ last' = [last EXCEPT !["audio"] = rev[e]]
  /\ outcome' = [outcome EXCEPT ![rev[e]] = "ok"]
  /\ Goto(e, "replying")
  /\ UNCHANGED <<rev, cacheRev, cacheLock, queue, queueLock, victim, wpc, job, dropped,
                 pollVars, dpc>>

\* Audio is verified before it is cached and keeps the mutex until it returns.
StoreAudio(e) ==
  /\ pc[e] = "revised"
  /\ e \in AudioEncoders
  /\ last' = [last EXCEPT !["audio"] = rev[e]]
  /\ outcome' = [outcome EXCEPT ![rev[e]] = "ok"]
  /\ Goto(e, "replying")
  /\ UNCHANGED <<rev, cacheRev, cacheLock, queue, queueLock, victim, wpc, job, dropped,
                 pollVars, dpc>>

\* Mutant of PushJob: no notify_one.
PushJobSilently(e) ==
  /\ wpc' = wpc
  /\ Goto(e, "replying")
  /\ UNCHANGED <<rev, cacheRev, cacheLock, last, job, outcome, dropped, dpc>>

\* Queue the job and wake the verification thread if it waits on the condvar.
PushJob(e) ==
  /\ wpc' = IF wpc = "waiting" THEN "locking" ELSE wpc
  /\ Goto(e, "replying")
  /\ UNCHANGED <<rev, cacheRev, cacheLock, last, job, outcome, dropped, dpc>>

\* Mutant of Enqueue: `>` for `>=` in the test for a full queue.
EnqueueOverCap(e) ==
  /\ pc[e] = "stored"
  /\ queueLock = NoOne
  /\ Len(queue) <= VERIFY_QUEUE_CAP
  /\ queue' = Append(queue, rev[e])
  /\ PushJob(e)
  /\ UNCHANGED <<queueLock, victim, pollVars>>

\* enqueue_verify with room in the queue.
Enqueue(e) ==
  /\ pc[e] = "stored"
  /\ queueLock = NoOne
  /\ Len(queue) < VERIFY_QUEUE_CAP
  /\ queue' = Append(queue, rev[e])
  /\ PushJob(e)
  /\ UNCHANGED <<queueLock, victim, pollVars>>

\* Mutant of EvictOldest: the slot of the new job is marked, not of the popped one.
EvictMarksNew(e) ==
  /\ pc[e] = "stored"
  /\ queueLock = NoOne
  /\ Len(queue) >= VERIFY_QUEUE_CAP
  /\ queueLock' = e
  /\ victim' = rev[e]
  /\ queue' = Tail(queue)
  /\ dropped' = [dropped EXCEPT ![rev[e]] = TRUE]
  /\ Goto(e, "evicting")
  /\ UNCHANGED <<rev, cacheRev, cacheLock, last, wpc, job, outcome, pollVars, dpc>>

\* push_verify with a full queue, under its mutex: mark the oldest job's slot ...
EvictOldest(e) ==
  /\ pc[e] = "stored"
  /\ queueLock = NoOne
  /\ Len(queue) >= VERIFY_QUEUE_CAP
  /\ queueLock' = e
  /\ victim' = Head(queue)
  /\ queue' = Tail(queue)
  /\ dropped' = [dropped EXCEPT ![Head(queue)] = TRUE]
  /\ Goto(e, "evicting")
  /\ UNCHANGED <<rev, cacheRev, cacheLock, last, wpc, job, outcome, pollVars, dpc>>

Notify(r) == waiters' = {p \in waiters : asked[p] # r}

\* ... then wake that slot's waiters, push the new job and unlock.
EnqueueAfterEvict(e) ==
  /\ pc[e] = "evicting"
  /\ Notify(victim)
  /\ queue' = Append(queue, rev[e])
  /\ queueLock' = NoOne
  /\ victim' = 0
  /\ PushJob(e)
  /\ UNCHANGED <<ppc, asked, known, answer>>

\* Return: the audio mutex (if held) and the encode permit are dropped.
Reply(e) ==
  /\ pc[e] = "replying"
  /\ cacheLock' = [m \in Media |-> IF cacheLock[m] = e THEN NoOne ELSE cacheLock[m]]
  /\ rev' = [rev EXCEPT ![e] = 0]
  /\ Goto(e, "idle")
  /\ UNCHANGED <<cacheRev, last, verifyVars, pollVars, dpc>>

Encode(e) ==
  \/ Admit(e) \/ FailEncode(e) \/ LockCache(e) \/ TakeRevision(e)
  \/ StoreFrame(e) \/ StoreAudio(e)
  \/ Enqueue(e) \/ EvictOldest(e) \/ EnqueueAfterEvict(e) \/ Reply(e)

-----------------------------------------------------------------------------
(* The frame-verify-worker thread.                                         *)

TakeJob ==
  /\ wpc = "locking"
  /\ queueLock = NoOne
  /\ queue # <<>>
  /\ job' = Head(queue)
  /\ queue' = Tail(queue)
  /\ wpc' = "verifying"
  /\ UNCHANGED <<encoderVars, queueLock, victim, outcome, dropped, pollVars, dpc>>

\* cv.wait releases the mutex and sleeps in one step.
WaitForJob ==
  /\ wpc = "locking"
  /\ queueLock = NoOne
  /\ queue = <<>>
  /\ wpc' = "waiting"
  /\ UNCHANGED <<encoderVars, queue, queueLock, victim, job, outcome, dropped, pollVars, dpc>>

SpuriousWake ==
  /\ wpc = "waiting"
  /\ wpc' = "locking"
  /\ UNCHANGED <<encoderVars, queue, queueLock, victim, job, outcome, dropped, pollVars, dpc>>

\* run_verify up to the first half of VerifySlot::publish: the outcome is set.
RunVerify ==
  /\ wpc = "verifying"
  /\ \E v \in {"ok", "fail"} : outcome' = [outcome EXCEPT ![job] = v]
  /\ wpc' = "notifying"
  /\ UNCHANGED <<encoderVars, queue, queueLock, victim, job, dropped, pollVars, dpc>>

\* Mutant of NotifyPublished: the outcome is set, nobody is notified.
PublishSilently ==
  /\ wpc = "notifying"
  /\ wpc' = "locking"
  /\ job' = 0
  /\ UNCHANGED <<encoderVars, queue, queueLock, victim, outcome, dropped, pollVars, dpc>>

\* The second half: notify_waiters, then back to the queue.
NotifyPublished ==
  /\ wpc = "notifying"
  /\ Notify(job)
  /\ wpc' = "locking"
  /\ job' = 0
  /\ UNCHANGED <<encoderVars, queue, queueLock, victim, outcome, dropped,
                 ppc, asked, known, answer, dpc>>

Worker == TakeJob \/ WaitForJob \/ SpuriousWake \/ RunVerify \/ NotifyPublished

-----------------------------------------------------------------------------
(* Polls: process_decode_poll, process_audio_poll and VerifySlot::wait_for. *)

StepPoll(p, l) == ppc' = [ppc EXCEPT ![p] = l]

\* Clone the cached artifact.  An empty cache is answered "waiting", changing nothing.
PollClone(p) ==
  /\ ppc[p] = "idle"
  /\ \E m \in Media :
       /\ cacheLock[m] = NoOne
       /\ last[m] # 0
       /\ asked' = [asked EXCEPT ![p] = last[m]]
       /\ known' = [known EXCEPT ![p] = outcome[last[m]]]
  /\ answer' = [answer EXCEPT ![p] = NoReply]
  /\ StepPoll(p, "register")
  /\ UNCHANGED <<waiters, encoderVars, verifyVars, dpc>>

\* notified().enable(): registered before the slot is inspected.
Register(p) ==
  /\ ppc[p] = "register"
  /\ waiters' = waiters \cup {p}
  /\ StepPoll(p, "inspect")
  /\ UNCHANGED <<asked, known, answer, encoderVars, verifyVars, dpc>>

\* Leave wait_for with verdict v and send the reply; the Notified future is dropped.
Answer(p, v) ==
  /\ answer' = [answer EXCEPT ![p] = [rev |-> asked[p], verdict |-> v]]
  /\ waiters' = waiters \ {p}
  /\ asked' = [asked EXCEPT ![p] = 0]
  /\ known' = [known EXCEPT ![p] = "none"]
  /\ StepPoll(p, "idle")
  /\ UNCHANGED <<encoderVars, verifyVars, dpc>>

InspectOutcome(p) ==
  /\ ppc[p] = "inspect"
  /\ outcome[asked[p]] # "none"
  /\ Answer(p, outcome[asked[p]])

InspectEmpty(p) ==
  /\ ppc[p] = "inspect"
  /\ outcome[asked[p]] = "none"
  /\ StepPoll(p, "inspectDropped")
  /\ UNCHANGED <<asked, waiters, known, answer, encoderVars, verifyVars, dpc>>

InspectDropped(p) ==
  /\ ppc[p] = "inspectDropped"
  /\ dropped[asked[p]]
  /\ Answer(p, "stale")

\* Mutant of Sleep: without enable(), the registration happens at the await.
SleepRegisters(p) ==
  /\ ppc[p] = "inspectDropped"
  /\ ~dropped[asked[p]]
  /\ waiters' = waiters \cup {p}
  /\ StepPoll(p, "sleeping")
  /\ UNCHANGED <<asked, known, answer, encoderVars, verifyVars, dpc>>

Sleep(p) ==
  /\ ppc[p] = "inspectDropped"
  /\ ~dropped[asked[p]]
  /\ StepPoll(p, "sleeping")
  /\ UNCHANGED <<asked, waiters, known, answer, encoderVars, verifyVars, dpc>>

\* Notified: loop, with a new registration.
Wake(p) ==
  /\ ppc[p] = "sleeping"
  /\ p \notin waiters
  /\ StepPoll(p, "register")
  /\ UNCHANGED <<asked, waiters, known, answer, encoderVars, verifyVars, dpc>>

\* timeout_at polls the notification first, so a notified poll never times out.
Timeout(p) ==
  /\ ppc[p] = "sleeping"
  /\ p \in waiters
  /\ Answer(p, "stale")

PollStep(p) ==
  \/ Register(p) \/ InspectOutcome(p) \/ InspectEmpty(p)
  \/ InspectDropped(p) \/ Sleep(p) \/ Wake(p)

Poll(p) == PollClone(p) \/ PollStep(p) \/ Timeout(p)

-----------------------------------------------------------------------------
(* latest_media_digest: lock the video cache, then the audio cache.        *)

DigestLock(d, from, m, to) ==
  /\ dpc[d] = from
  /\ cacheLock[m] = NoOne
  /\ cacheLock' = [cacheLock EXCEPT ![m] = d]
  /\ dpc' = [dpc EXCEPT ![d] = to]
  /\ UNCHANGED <<pc, rev, cacheRev, last, verifyVars, pollVars>>

DigestLockVideo(d) == DigestLock(d, "idle", "video", "video")
DigestLockAudio(d) == DigestLock(d, "video", "audio", "both")

\* The artifact whose digest is returned.
NewestArtifact == IF last["video"] > last["audio"] THEN last["video"] ELSE last["audio"]

\* NewestArtifact is read and both guards are dropped.
DigestRead(d) ==
  /\ dpc[d] = "both"
  /\ cacheLock' = [m \in Media |-> NoOne]
  /\ dpc' = [dpc EXCEPT ![d] = "idle"]
  /\ UNCHANGED <<pc, rev, cacheRev, last, verifyVars, pollVars>>

ReadDigest(d) == DigestLockVideo(d) \/ DigestLockAudio(d) \/ DigestRead(d)

-----------------------------------------------------------------------------

Next ==
  \/ \E e \in Encoders : Encode(e)
  \/ Worker
  \/ \E p \in Pollers : Poll(p)
  \/ \E d \in DigestReaders : ReadDigest(d)

Spec == Init /\ [][Next]_vars

(* The verification thread always runs; a thread inside a handler past its *)
(* cache lock holds a mutex or a job and returns; one that waits for a     *)
(* mutex which stays free gets it; tokio polls every woken task.  None for *)
(* clients (Admit, PollClone, DigestLockVideo), decoding (LockCache,       *)
(* FailEncode), spurious wake-ups or Timeout: what is promised below does  *)
(* not lean on the poll's one-second timer.                                *)
Fairness ==
  /\ WF_vars(TakeJob \/ WaitForJob \/ RunVerify \/ NotifyPublished)
  /\ \A e \in Encoders :
       WF_vars(TakeRevision(e) \/ StoreFrame(e) \/ StoreAudio(e) \/ Enqueue(e)
               \/ EvictOldest(e) \/ EnqueueAfterEvict(e) \/ Reply(e))
  /\ \A p \in Pollers : WF_vars(PollStep(p))
  /\ \A d \in DigestReaders : WF_vars(DigestLockAudio(d) \/ DigestRead(d))

LiveSpec == Spec /\ Fairness

-----------------------------------------------------------------------------
(* Properties *)

Verdicts == {"none", "ok", "fail"}
Resolved(r) == outcome[r] # "none" \/ dropped[r]

\* Every variable has its type; the verification queue stays within VERIFY_QUEUE_CAP.
TypeOK ==
  /\ pc \in [Encoders -> {"idle", "encoding", "locked", "revised", "stored", "evicting",
                          "replying"}]
  /\ rev \in [Encoders -> 0..MaxRevision]
  /\ cacheRev \in 0..MaxRevision
  /\ cacheLock \in [Media -> {NoOne} \cup Encoders \cup DigestReaders]
  /\ last \in [Media -> 0..MaxRevision]
  /\ queue \in Seq(Revisions)
  /\ Len(queue) <= VERIFY_QUEUE_CAP
  /\ queueLock \in {NoOne} \cup Encoders
  /\ victim \in 0..MaxRevision
  /\ wpc \in {"locking", "waiting", "verifying", "notifying"}
  /\ job \in 0..MaxRevision
  /\ outcome \in [Revisions -> Verdicts]
  /\ dropped \in [Revisions -> BOOLEAN]
  /\ ppc \in [Pollers -> {"idle", "register", "inspect", "inspectDropped", "sleeping"}]
  /\ asked \in [Pollers -> 0..MaxRevision]
  /\ waiters \in SUBSET Pollers
  /\ known \in [Pollers -> Verdicts]
  /\ answer \in [Pollers -> [rev : 0..MaxRevision, verdict : Verdicts \cup {"stale"}]]
  /\ dpc \in [DigestReaders -> {"idle", "video", "both"}]

\* A poll that sleeps un-notified on a slot that has a verdict, or was evicted, is
\* one the publisher or the evicting encoder is about to notify: registering before
\* inspecting leaves no window in which a notification is lost (VerifySlot::wait_for).
NoLostWakeup ==
  \A p \in Pollers : ppc[p] = "sleeping" /\ p \in waiters =>
    /\ outcome[asked[p]] # "none" => wpc = "notifying" /\ job = asked[p]
    /\ dropped[asked[p]] =>
         victim = asked[p] /\ \E e \in VideoEncoders : pc[e] = "evicting"

\* latest_media_digest, holding both cache mutexes, sees the newest revision ever
\* issued: no artifact numbered by the counter the two caches share is missing.
DigestIsNewest ==
  \A d \in DigestReaders : dpc[d] = "both" => NewestArtifact = cacheRev

\* Every issued artifact is in exactly one place: held by its encoder, queued once,
\* at the verification thread, resolved by a verdict, or evicted.  No verdict is
\* lost, given twice, or given to an artifact already reported evicted.
Places(r) ==
  {<<"encoder", e>> : e \in {x \in Encoders :
      pc[x] \in {"revised", "stored", "evicting"} /\ rev[x] = r}}
  \cup {<<"queue", i>> : i \in {x \in 1..Len(queue) : queue[x] = r}}
  \cup (IF wpc = "verifying" /\ job = r THEN {<<"worker", 0>>} ELSE {})
  \cup (IF outcome[r] # "none" THEN {<<"verdict", 0>>} ELSE {})
  \cup (IF dropped[r] THEN {<<"evicted", 0>>} ELSE {})

OnePlace ==
  \A r \in Revisions : Cardinality(Places(r)) = IF r <= cacheRev THEN 1 ELSE 0

\* Every cached artifact ends with a verdict or an eviction: a job is never stranded in
\* the queue, whatever the interleaving of enqueue_verify with the thread's cv.wait.
EverySlotResolved ==
  \A r \in Revisions : (\E m \in Media : last[m] = r) ~> Resolved(r)

\* Every poll is answered even if its timer never fires.
PollsAnswered == \A p \in Pollers : ppc[p] # "idle" ~> ppc[p] = "idle"

\* Every latest_media_digest call returns, though it waits for the audio cache with the
\* video cache locked: an encoder that took the two in the other order would stop them
\* both, and then every encoder and poll.
DigestsRead == \A d \in DigestReaders : dpc[d] # "idle" ~> dpc[d] = "idle"

\* Nothing hangs on a Notify or on the mutex of a cache.
CallsReturn == PollsAnswered /\ DigestsRead

-----------------------------------------------------------------------------
(* The parts of the inductive invariant behind the theorems about Spec.    *)

\* What an actor's position says of its own locals.
Locals ==
  /\ \A e \in Encoders : pc[e] \in {"revised", "stored", "evicting"} => rev[e] \in Revisions
  /\ \A e \in Encoders : pc[e] \in {"stored", "evicting"} => e \in VideoEncoders
  /\ \A e \in Encoders : pc[e] = "evicting" => queueLock = e /\ Len(queue) < VERIFY_QUEUE_CAP
  /\ \A p \in Pollers : ppc[p] # "idle" => asked[p] \in Revisions
  /\ wpc \in {"verifying", "notifying"} => job \in Revisions

\* Who is inside a cache's critical section holds its mutex.
LocksHeld ==
  /\ \A e \in Encoders : pc[e] \in {"locked", "revised"} => cacheLock[Medium(e)] = e
  /\ \A d \in DigestReaders : dpc[d] \in {"video", "both"} => cacheLock["video"] = d
  /\ \A d \in DigestReaders : dpc[d] = "both" => cacheLock["audio"] = d

\* A revision is cached, or its encoder holds it and is about to cache it.
RevisionsKept ==
  /\ \A m \in Media : last[m] <= cacheRev
  /\ \A e \in Encoders : pc[e] = "revised" => rev[e] <= cacheRev /\ rev[e] > last[Medium(e)]
  /\ \/ cacheRev \in {last["video"], last["audio"]}
     \/ \E e \in Encoders : pc[e] = "revised" /\ rev[e] = cacheRev

\* A revision not cached yet is known to its encoder alone.
RevisionsFresh ==
  /\ \A p \in Pollers : asked[p] <= cacheRev
  /\ \A e \in Encoders : pc[e] = "revised" =>
       /\ \A m \in Media : last[m] # rev[e]
       /\ \A p \in Pollers : asked[p] # rev[e]
       /\ \A f \in Encoders \ {e} : pc[f] = "revised" => rev[f] # rev[e]

\* NoLostWakeup, from the moment the slot was found empty.
WakeupsPending ==
  \A p \in waiters :
    /\ ppc[p] \in {"inspectDropped", "sleeping"} /\ outcome[asked[p]] # "none" =>
         wpc = "notifying" /\ job = asked[p]
    /\ ppc[p] = "sleeping" /\ dropped[asked[p]] =>
         victim = asked[p] /\ \E e \in VideoEncoders : pc[e] = "evicting"

-----------------------------------------------------------------------------
(* The pipeline implements MediaCache, what a client may rely on.          *)

Status(r) ==
  IF outcome[r] # "none" THEN outcome[r]
  ELSE IF dropped[r] THEN "evicted"
  ELSE IF r > cacheRev \/ \E e \in Encoders : pc[e] = "revised" /\ rev[e] = r
       THEN "absent" ELSE "pending"

Cache == INSTANCE MediaCache WITH
  newest <- last,
  status <- [r \in Revisions |-> Status(r)],
  asking <- asked

\* A poll's reply is about the artifact that was newest when it was asked, its verdict is
\* that artifact's, it is stale only if there was none when it was asked; a cache never
\* moves back to an older artifact; the cached artifact itself is never evicted.
ImplementsMediaCache == Cache!Spec
=============================================================================
