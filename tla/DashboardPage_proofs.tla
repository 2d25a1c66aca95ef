------------------------ MODULE DashboardPage_proofs ------------------------
(***************************************************************************)
(* What the dashboard's page shows and owns, for every number of cameras,  *)
(* transports, microphones, artifacts and edits.  Each tab is a record s   *)
(* of its state; an invariant is a conjunction of predicates of s, each    *)
(* over fields of its own, and a lemma about a function of the page says   *)
(* which of them it keeps, so that a handler is the composition of the     *)
(* lemmas of what it calls.                                                *)
(***************************************************************************)
EXTENDS DashboardPage, FiniteSetTheorems, TLAPS

(***************************************************************************)
(* The audio tab: its microphone, its two channels, the request and the    *)
(* verdict, and the archive of signed chunks.                              *)
(***************************************************************************)
TabFields ==
  {"session", "sessions", "active", "starting", "rate", "sessionRate", "socket",
   "pendingSign", "pendingPoll", "fresh", "latestSigned", "counted", "uncounted", "verdict",
   "recording", "audioArchive", "archives", "archive", "format"}

\* The fields a state of the tab has.
Shaped(s) ==
  /\ DOMAIN s = {"tab", "hardware", "sent", "downloaded"}
  /\ DOMAIN s.tab = TabFields
  /\ DOMAIN s.tab.socket = Channels
  /\ DOMAIN s.hardware = {"tracks", "contexts", "closing"}
  /\ DOMAIN s.sent = {"chunks", "poll"}

SameSession(s, t) ==
  /\ t.tab.session = s.tab.session /\ t.tab.sessions = s.tab.sessions
  /\ t.tab.active = s.tab.active /\ t.tab.starting = s.tab.starting
  /\ t.tab.rate = s.tab.rate /\ t.tab.sessionRate = s.tab.sessionRate
SameHardware(s, t) ==
  /\ t.hardware.tracks = s.hardware.tracks /\ t.hardware.contexts = s.hardware.contexts
  /\ t.hardware.closing = s.hardware.closing
SameSigned(s, t) ==
  /\ t.tab.latestSigned = s.tab.latestSigned /\ t.tab.counted = s.tab.counted
  /\ t.tab.uncounted = s.tab.uncounted /\ t.tab.fresh = s.tab.fresh
SameArchive(s, t) ==
  /\ t.tab.recording = s.tab.recording /\ t.tab.audioArchive = s.tab.audioArchive
  /\ t.tab.archives = s.tab.archives /\ t.tab.archive = s.tab.archive
  /\ t.tab.format = s.tab.format /\ t.downloaded = s.downloaded

\* resetAudioVerification changes the verdict on display and nothing else.
LEMMA ResetFields ==
  ASSUME NEW s, Shaped(s)
  PROVE  LET t == ResetAudioVerification(s) IN
         /\ Shaped(t) /\ t.tab.verdict = NoChunk
         /\ SameSession(s, t) /\ SameHardware(s, t) /\ SameSigned(s, t) /\ SameArchive(s, t)
         /\ t.tab.socket = s.tab.socket /\ t.tab.pendingSign = s.tab.pendingSign
         /\ t.tab.pendingPoll = s.tab.pendingPoll
         /\ t.sent.chunks = s.sent.chunks /\ t.sent.poll = s.sent.poll
BY DEF ResetAudioVerification, Shaped, TabFields, SameSession, SameHardware, SameSigned, SameArchive

\* clearAudioSigning drops the request and its timer.
LEMMA ClearFields ==
  ASSUME NEW s, Shaped(s)
  PROVE  LET t == ClearAudioSigning(s) IN
         /\ Shaped(t) /\ t.tab.pendingSign = NoRequest
         /\ SameSession(s, t) /\ SameHardware(s, t) /\ SameSigned(s, t) /\ SameArchive(s, t)
         /\ t.tab.socket = s.tab.socket /\ t.tab.verdict = s.tab.verdict
         /\ t.tab.pendingPoll = s.tab.pendingPoll
         /\ t.sent.chunks = s.sent.chunks /\ t.sent.poll = s.sent.poll
BY DEF ClearAudioSigning, Shaped, TabFields, SameSession, SameHardware, SameSigned, SameArchive

\* Both channels of a session that ends are closed, with what was on its way.
LEMMA CloseFields ==
  ASSUME NEW s, Shaped(s), NEW name \in Channels
  PROVE  LET t == CloseAudioChannel(s, name) IN
         /\ Shaped(t)
         /\ SameSession(s, t) /\ SameHardware(s, t) /\ SameSigned(s, t) /\ SameArchive(s, t)
         /\ t.tab.socket = [s.tab.socket EXCEPT ![name] = "none"]
         /\ t.tab.verdict = s.tab.verdict /\ t.tab.pendingSign = s.tab.pendingSign
         /\ t.tab.pendingPoll = IF name = "decode" THEN NoChunk ELSE s.tab.pendingPoll
         /\ t.sent.chunks = IF name = "encode" THEN <<>> ELSE s.sent.chunks
         /\ t.sent.poll = IF name = "decode" THEN <<>> ELSE s.sent.poll
<1> DEFINE t == CloseAudioChannel(s, name)
           T == [s.tab EXCEPT !.socket = [@ EXCEPT ![name] = "none"],
                              !.pendingPoll = IF name = "decode" THEN NoChunk ELSE @]
           U == [s.sent EXCEPT !.chunks = IF name = "encode" THEN <<>> ELSE @,
                               !.poll = IF name = "decode" THEN <<>> ELSE @]
<1>1. t = [s EXCEPT !.tab = T, !.sent = U]
  BY DEF CloseAudioChannel, Shaped, TabFields
<1>2. t.tab = T /\ t.sent = U /\ t.hardware = s.hardware /\ t.downloaded = s.downloaded
      /\ DOMAIN t = DOMAIN s
  BY <1>1 DEF Shaped
<1>3. /\ DOMAIN T = DOMAIN s.tab /\ DOMAIN U = DOMAIN s.sent
      /\ T.socket = [s.tab.socket EXCEPT ![name] = "none"]
      /\ DOMAIN T.socket = DOMAIN s.tab.socket
  BY DEF Shaped, TabFields
<1>4. SameSession(s, t) /\ SameSigned(s, t) /\ SameArchive(s, t) /\ SameHardware(s, t)
  BY <1>2 DEF Shaped, TabFields, SameSession, SameSigned, SameArchive, SameHardware
<1>5. Shaped(t)
  BY <1>2, <1>3 DEF Shaped
<1> QED BY <1>2, <1>3, <1>4, <1>5 DEF Shaped, TabFields

\* All but the archive.
SameTraffic(s, t) ==
  /\ SameSession(s, t) /\ SameHardware(s, t) /\ SameSigned(s, t)
  /\ t.tab.socket = s.tab.socket
  /\ t.tab.verdict = s.tab.verdict /\ t.tab.pendingSign = s.tab.pendingSign
  /\ t.tab.pendingPoll = s.tab.pendingPoll
  /\ t.sent.chunks = s.sent.chunks /\ t.sent.poll = s.sent.poll

ArchiveGood(s) ==
  /\ IsFiniteSet(s.tab.archive) /\ Cardinality(s.tab.archive) <= ARCHIVE_ENTRIES
  /\ \A chunk \in s.tab.archive : chunk.asked = s.tab.audioArchive /\ chunk.rate = s.tab.format
  /\ s.tab.audioArchive = 0 => s.tab.archive = {}
  /\ s.tab.recording => s.tab.audioArchive # 0
  /\ s.tab.archives \in Nat

Keeps(s, t) == s.tab.archive \cup s.downloaded \subseteq t.tab.archive \cup t.downloaded

\* Keeping what was recorded is a preorder.
LEMMA KeepsLaws ==
  /\ \A s : Keeps(s, s)
  /\ \A s, t, u : Keeps(s, t) /\ Keeps(t, u) => Keeps(s, u)
  /\ \A s, t : SameArchive(s, t) => Keeps(s, t) /\ (ArchiveGood(s) => ArchiveGood(t))
BY DEF Keeps, SameArchive, ArchiveGood

\* finishAudioRecording downloads the archive or keeps it.
LEMMA FinishKeeps ==
  ASSUME NEW s, Shaped(s), ArchiveGood(s), NEW downloads \in BOOLEAN
  PROVE  LET t == FinishAudioRecording(s, downloads)
         IN Shaped(t) /\ ArchiveGood(t) /\ Keeps(s, t) /\ SameTraffic(s, t) /\ t.tab.recording = FALSE
<1> DEFINE t == FinishAudioRecording(s, downloads)
<1>1. /\ Shaped(t) /\ SameTraffic(s, t) /\ t.tab.recording = FALSE
      /\ t.tab.archives = s.tab.archives /\ t.tab.format = s.tab.format
  BY DEF FinishAudioRecording, Shaped, TabFields, SameTraffic, SameSession, SameHardware, SameSigned
<1>2. CASE downloads \/ s.tab.archive = {}
  <2>1. /\ t.tab.audioArchive = 0 /\ t.tab.archive = {}
        /\ t.downloaded = IF downloads THEN s.downloaded \cup s.tab.archive ELSE s.downloaded
    BY <1>2 DEF FinishAudioRecording, Shaped, TabFields
  <2> HIDE DEF t
  <2>2. Keeps(s, t)
    <3>1. CASE downloads
      BY <3>1, <2>1 DEF Keeps
    <3>2. CASE ~ downloads
      BY <3>2, <1>2, <2>1 DEF Keeps
    <3> QED BY <3>1, <3>2
  <2>3. ArchiveGood(t)
    BY <1>1, <2>1, FS_EmptySet, AudioAssumption DEF ArchiveGood
  <2> QED BY <1>1, <2>2, <2>3 DEF t
<1>3. CASE ~ (downloads \/ s.tab.archive = {})
  <2>1. /\ t.tab.audioArchive = s.tab.audioArchive /\ t.tab.archive = s.tab.archive
        /\ t.downloaded = s.downloaded
    BY <1>3 DEF FinishAudioRecording, Shaped, TabFields
  <2> HIDE DEF t
  <2>2. Keeps(s, t) /\ ArchiveGood(t)
    BY <1>1, <2>1 DEF Keeps, ArchiveGood
  <2> QED BY <1>1, <2>2 DEF t
<1> QED BY <1>2, <1>3

\* A recording that a stopped microphone ends loses nothing either.
LEMMA StopRecordingKeeps ==
  ASSUME NEW s, Shaped(s), ArchiveGood(s), NEW downloads \in BOOLEAN
  PROVE  LET t == StopRecording(s, downloads)
         IN Shaped(t) /\ ArchiveGood(t) /\ Keeps(s, t) /\ SameTraffic(s, t)
<1>1. CASE s.tab.recording
  BY <1>1, FinishKeeps DEF StopRecording
<1>2. CASE ~ s.tab.recording
  BY <1>2 DEF StopRecording, Keeps, SameTraffic, SameSession, SameHardware, SameSigned
<1> QED BY <1>1, <1>2

\* stopMicrophone leaves nothing of the session but what was recorded.
LEMMA StopFields ==
  ASSUME NEW s, Shaped(s), ArchiveGood(s), NEW downloads \in BOOLEAN
  PROVE  LET t == StopMicrophone(s, downloads) IN
         /\ Shaped(t) /\ ArchiveGood(t) /\ Keeps(s, t)
         /\ t.tab.session = 0 /\ t.tab.sessions = s.tab.sessions /\ t.tab.starting = s.tab.starting
         /\ t.tab.rate = s.tab.rate /\ t.tab.sessionRate = s.tab.sessionRate
         /\ t.tab.active = FALSE /\ t.tab.fresh = FALSE
         /\ t.tab.latestSigned = NoChunk /\ t.tab.counted = FALSE /\ t.tab.uncounted = s.tab.uncounted
         /\ t.tab.verdict = NoChunk /\ t.tab.pendingSign = NoRequest /\ t.tab.pendingPoll = NoChunk
         /\ \A name \in Channels : t.tab.socket[name] = "none"
         /\ t.sent.chunks = <<>> /\ t.sent.poll = <<>>
         /\ t.hardware.tracks = s.hardware.tracks \ {s.tab.session}
         /\ t.hardware.contexts = s.hardware.contexts \ {s.tab.session}
         /\ t.hardware.closing = s.hardware.closing \cup (s.hardware.contexts \cap {s.tab.session})
<1> DEFINE a == CloseAudioChannel(s, "encode")
           b == CloseAudioChannel(a, "decode")
           c == ClearAudioSigning(b)
           old == s.tab.session
           T == [c.tab EXCEPT !.session = 0, !.active = FALSE, !.fresh = FALSE,
                              !.latestSigned = NoChunk, !.counted = FALSE]
           H == [s.hardware EXCEPT !.tracks = @ \ {old},
                                   !.closing = @ \cup (s.hardware.contexts \cap {old}),
                                   !.contexts = @ \ {old}]
           d == [c EXCEPT !.tab = T, !.hardware = H]
           e == StopRecording(d, downloads)
           t == ResetAudioVerification(e)
<1>0. StopMicrophone(s, downloads) = t
  BY DEF StopMicrophone
<1>1. /\ Shaped(a) /\ SameSession(s, a) /\ SameHardware(s, a) /\ SameSigned(s, a) /\ SameArchive(s, a)
      /\ a.tab.socket = [s.tab.socket EXCEPT !["encode"] = "none"] /\ a.sent.chunks = <<>>
  <2>1. "encode" \in Channels
    BY DEF Channels
  <2> QED BY <2>1, CloseFields
<1> HIDE DEF a
<1>2. /\ Shaped(b) /\ SameSession(a, b) /\ SameHardware(a, b) /\ SameSigned(a, b) /\ SameArchive(a, b)
      /\ b.tab.socket = [a.tab.socket EXCEPT !["decode"] = "none"]
      /\ b.sent.chunks = a.sent.chunks /\ b.sent.poll = <<>> /\ b.tab.pendingPoll = NoChunk
  BY <1>1, CloseFields DEF Channels
<1> HIDE DEF b
<1>3. /\ Shaped(c) /\ SameSession(b, c) /\ SameHardware(b, c) /\ SameSigned(b, c) /\ SameArchive(b, c)
      /\ c.tab.socket = b.tab.socket /\ c.sent.chunks = b.sent.chunks /\ c.sent.poll = b.sent.poll
      /\ c.tab.pendingPoll = b.tab.pendingPoll /\ c.tab.pendingSign = NoRequest
  BY <1>2, ClearFields
<1> HIDE DEF c
<1>4. /\ Shaped(c) /\ SameArchive(s, c) /\ SameHardware(s, c)
      /\ c.tab.sessions = s.tab.sessions /\ c.tab.starting = s.tab.starting
      /\ c.tab.rate = s.tab.rate /\ c.tab.sessionRate = s.tab.sessionRate
      /\ c.tab.uncounted = s.tab.uncounted
      /\ \A name \in Channels : c.tab.socket[name] = "none"
      /\ c.sent.chunks = <<>> /\ c.sent.poll = <<>>
      /\ c.tab.pendingPoll = NoChunk /\ c.tab.pendingSign = NoRequest
  <2>1. \A name \in Channels : c.tab.socket[name] = "none"
    BY <1>1, <1>2, <1>3 DEF Channels, Shaped
  <2>2. SameArchive(s, c)
    BY <1>1, <1>2, <1>3 DEF SameArchive
  <2>3. SameHardware(s, c)
    BY <1>1, <1>2, <1>3 DEF SameHardware
  <2> QED BY <1>1, <1>2, <1>3, <2>1, <2>2, <2>3 DEF SameSession, SameSigned
<1>5. /\ Shaped(d) /\ SameArchive(c, d)
      /\ d.tab.session = 0 /\ d.tab.active = FALSE /\ d.tab.fresh = FALSE /\ d.tab.latestSigned = NoChunk
      /\ d.tab.counted = FALSE
      /\ d.tab.sessions = c.tab.sessions /\ d.tab.starting = c.tab.starting
      /\ d.tab.rate = c.tab.rate /\ d.tab.sessionRate = c.tab.sessionRate
      /\ d.tab.uncounted = c.tab.uncounted
      /\ d.tab.socket = c.tab.socket /\ d.sent.chunks = c.sent.chunks /\ d.sent.poll = c.sent.poll
      /\ d.tab.pendingPoll = c.tab.pendingPoll /\ d.tab.pendingSign = c.tab.pendingSign
      /\ d.hardware.tracks = c.hardware.tracks \ {old}
      /\ d.hardware.contexts = c.hardware.contexts \ {old}
      /\ d.hardware.closing = c.hardware.closing \cup (s.hardware.contexts \cap {old})
  <2>1. /\ DOMAIN T = TabFields /\ DOMAIN T.socket = Channels
        /\ T.session = 0 /\ T.active = FALSE /\ T.fresh = FALSE /\ T.latestSigned = NoChunk
        /\ T.counted = FALSE
        /\ T.sessions = c.tab.sessions /\ T.starting = c.tab.starting
        /\ T.rate = c.tab.rate /\ T.sessionRate = c.tab.sessionRate
        /\ T.uncounted = c.tab.uncounted /\ T.socket = c.tab.socket
        /\ T.pendingPoll = c.tab.pendingPoll /\ T.pendingSign = c.tab.pendingSign
        /\ T.recording = c.tab.recording /\ T.audioArchive = c.tab.audioArchive
        /\ T.archives = c.tab.archives /\ T.archive = c.tab.archive /\ T.format = c.tab.format
    BY <1>4 DEF Shaped, TabFields
  <2>2. /\ DOMAIN H = {"tracks", "contexts", "closing"}
        /\ H.tracks = c.hardware.tracks \ {old} /\ H.contexts = c.hardware.contexts \ {old}
        /\ H.closing = c.hardware.closing \cup (s.hardware.contexts \cap {old})
    BY <1>4 DEF Shaped, SameHardware
  <2> HIDE DEF T, H, old
  <2>3. /\ DOMAIN d = DOMAIN c /\ d.tab = T /\ d.hardware = H /\ d.sent = c.sent
        /\ d.downloaded = c.downloaded
    BY <1>4 DEF Shaped
  <2> HIDE DEF d
  <2>4. Shaped(d) /\ SameArchive(c, d)
    BY <1>4, <2>1, <2>2, <2>3 DEF Shaped, SameArchive
  <2> QED BY <2>1, <2>2, <2>3, <2>4
<1> HIDE DEF d
<1>6. ArchiveGood(d) /\ Keeps(s, d)
  BY <1>4, <1>5, KeepsLaws
<1>7. Shaped(e) /\ ArchiveGood(e) /\ Keeps(d, e) /\ SameTraffic(d, e)
  BY <1>5, <1>6, StopRecordingKeeps
<1> HIDE DEF e
<1>8. /\ Shaped(t) /\ t.tab.verdict = NoChunk
      /\ SameSession(e, t) /\ SameHardware(e, t) /\ SameSigned(e, t) /\ SameArchive(e, t)
      /\ t.tab.socket = e.tab.socket /\ t.tab.pendingSign = e.tab.pendingSign
      /\ t.tab.pendingPoll = e.tab.pendingPoll
      /\ t.sent.chunks = e.sent.chunks /\ t.sent.poll = e.sent.poll
  BY <1>7, ResetFields
<1> HIDE DEF t
<1>9. ArchiveGood(t) /\ Keeps(s, t)
  BY <1>6, <1>7, <1>8, KeepsLaws
<1>10. /\ t.hardware.tracks = s.hardware.tracks \ {s.tab.session}
       /\ t.hardware.contexts = s.hardware.contexts \ {s.tab.session}
       /\ t.hardware.closing = s.hardware.closing \cup (s.hardware.contexts \cap {s.tab.session})
  BY <1>4, <1>5, <1>7, <1>8 DEF SameHardware, SameTraffic
<1>11. /\ t.tab.session = 0 /\ t.tab.sessions = s.tab.sessions /\ t.tab.starting = s.tab.starting
       /\ t.tab.rate = s.tab.rate /\ t.tab.sessionRate = s.tab.sessionRate
       /\ t.tab.active = FALSE /\ t.tab.fresh = FALSE
       /\ t.tab.latestSigned = NoChunk /\ t.tab.counted = FALSE /\ t.tab.uncounted = s.tab.uncounted
  BY <1>4, <1>5, <1>7, <1>8 DEF SameSession, SameSigned, SameTraffic
<1>12. /\ \A name \in Channels : t.tab.socket[name] = "none"
       /\ t.tab.pendingSign = NoRequest /\ t.tab.pendingPoll = NoChunk
       /\ t.sent.chunks = <<>> /\ t.sent.poll = <<>>
  BY <1>4, <1>5, <1>7, <1>8 DEF SameTraffic
<1> QED BY <1>0, <1>8, <1>9, <1>10, <1>11, <1>12

Startings == [session : Nat \ {0}, at : {"closing", "resuming", "asking"}]

SessionGood(s) ==
  /\ s.tab.session \in Nat /\ s.tab.sessions \in Nat /\ s.tab.session <= s.tab.sessions
  /\ s.tab.rate \in SampleRates /\ s.tab.sessionRate \in SampleRates \cup {0}
  /\ s.tab.starting \subseteq Startings
  /\ \A x \in s.tab.starting :
       /\ x.session <= s.tab.sessions
       /\ x.session = s.tab.session => ~ s.tab.active /\ (x.at # "closing" => s.tab.sessionRate # 0)
  /\ \A x, y \in s.tab.starting : x.session = y.session => x = y
  /\ s.hardware.tracks \subseteq {s.tab.session}
  /\ s.hardware.contexts \subseteq {s.tab.session}
  /\ \A m, n \in s.hardware.contexts \cup s.hardware.closing : m = n
  /\ s.tab.active => /\ s.hardware.tracks = {s.tab.session}
                     /\ s.tab.session # 0 /\ s.tab.sessionRate # 0

ChannelsGood(s) ==
  /\ s.tab.active = (s.tab.socket["encode"] # "none")
  /\ s.tab.active = (s.tab.socket["decode"] # "none")
  /\ s.sent.chunks = <<>> \/ s.sent.chunks = <<s.sent.chunks[1]>>
  /\ (s.tab.pendingSign # NoRequest) = (s.sent.chunks # <<>>)
  /\ s.sent.chunks # <<>> => s.tab.socket["encode"] = "open"
  /\ s.sent.poll = <<>> \/ s.sent.poll = <<s.sent.poll[1]>>
  /\ s.sent.poll # <<>> => s.tab.pendingPoll # NoChunk

VerdictGood(s) ==
  /\ ~ s.tab.active => ~ s.tab.fresh /\ s.tab.latestSigned = NoChunk
  /\ s.tab.fresh \in BOOLEAN /\ s.tab.counted \in BOOLEAN
  /\ s.tab.verdict # NoChunk => s.tab.verdict = s.tab.latestSigned
  /\ s.tab.uncounted \in Nat
  /\ ~ s.tab.counted /\ s.tab.latestSigned # NoChunk => s.tab.uncounted >= 1

AudioGood(s) == Shaped(s) /\ SessionGood(s) /\ ChannelsGood(s) /\ VerdictGood(s) /\ ArchiveGood(s)

AudioInv == AudioGood(Page) /\ forgotten = FALSE

\* Each part of the invariant reads only its own fields.
LEMMA PartsKept ==
  ASSUME NEW s, NEW t
  PROVE  /\ SameSession(s, t) /\ SameHardware(s, t) /\ SessionGood(s) => SessionGood(t)
         /\ SameTraffic(s, t) /\ SessionGood(s) => SessionGood(t)
         /\ SameTraffic(s, t) /\ ChannelsGood(s) => ChannelsGood(t)
         /\ SameTraffic(s, t) /\ VerdictGood(s) => VerdictGood(t)
<1>1. SameSession(s, t) /\ SameHardware(s, t) /\ SessionGood(s) => SessionGood(t)
  BY DEF SameSession, SameHardware, SessionGood
<1>2. SameTraffic(s, t) /\ ChannelsGood(s) => ChannelsGood(t)
  BY DEF SameTraffic, SameSession, ChannelsGood
<1>3. SameTraffic(s, t) /\ VerdictGood(s) => VerdictGood(t)
  BY DEF SameTraffic, SameSession, SameSigned, VerdictGood
<1> QED BY <1>1, <1>2, <1>3 DEF SameTraffic

\* resetAudioVerification preserves the invariant.
LEMMA ResetGood ==
  ASSUME NEW s, AudioGood(s)
  PROVE  LET t == ResetAudioVerification(s) IN AudioGood(t) /\ Keeps(s, t)
<1> DEFINE t == ResetAudioVerification(s)
<1>1. /\ Shaped(t) /\ t.tab.verdict = NoChunk
      /\ SameSession(s, t) /\ SameHardware(s, t) /\ SameSigned(s, t) /\ SameArchive(s, t)
      /\ t.tab.socket = s.tab.socket /\ t.tab.pendingSign = s.tab.pendingSign
      /\ t.tab.pendingPoll = s.tab.pendingPoll
      /\ t.sent.chunks = s.sent.chunks /\ t.sent.poll = s.sent.poll
  BY ResetFields DEF AudioGood
<1> HIDE DEF t
<1>2. SessionGood(t)
  BY <1>1, PartsKept DEF AudioGood
<1>3. ChannelsGood(t)
  BY <1>1 DEF AudioGood, ChannelsGood, SameSession
<1>4. VerdictGood(t)
  BY <1>1 DEF AudioGood, VerdictGood, SameSession, SameSigned
<1>5. ArchiveGood(t) /\ Keeps(s, t)
  BY <1>1, KeepsLaws DEF AudioGood
<1> QED BY <1>1, <1>2, <1>3, <1>4, <1>5 DEF AudioGood, t

\* So does the end of a recording, whether the download works or not.
LEMMA StopRecordingGood ==
  ASSUME NEW s, AudioGood(s), NEW downloads \in BOOLEAN
  PROVE  LET t == StopRecording(s, downloads)
         IN AudioGood(t) /\ Keeps(s, t) /\ SameTraffic(s, t)
<1> DEFINE t == StopRecording(s, downloads)
<1>1. Shaped(t) /\ ArchiveGood(t) /\ Keeps(s, t) /\ SameTraffic(s, t)
  BY StopRecordingKeeps DEF AudioGood
<1> QED BY <1>1, PartsKept DEF AudioGood

\* And finishAudioRecording, called by any handler.
LEMMA FinishGood ==
  ASSUME NEW s, AudioGood(s), NEW downloads \in BOOLEAN
  PROVE  LET t == FinishAudioRecording(s, downloads)
         IN AudioGood(t) /\ Keeps(s, t) /\ SameTraffic(s, t)
<1> DEFINE t == FinishAudioRecording(s, downloads)
<1>1. Shaped(t) /\ ArchiveGood(t) /\ Keeps(s, t) /\ SameTraffic(s, t)
  BY FinishKeeps DEF AudioGood
<1> QED BY <1>1, PartsKept DEF AudioGood

\* stopMicrophone ends in a state of the invariant in which nothing runs.
LEMMA StopGood ==
  ASSUME NEW s, AudioGood(s), NEW downloads \in BOOLEAN
  PROVE  LET t == StopMicrophone(s, downloads) IN
         /\ AudioGood(t) /\ Keeps(s, t)
         /\ t.tab.session = 0 /\ t.tab.active = FALSE
         /\ t.hardware.tracks = {} /\ t.hardware.contexts = {}
<1> DEFINE t == StopMicrophone(s, downloads)
<1>1. /\ Shaped(t) /\ ArchiveGood(t) /\ Keeps(s, t)
      /\ t.tab.session = 0 /\ t.tab.sessions = s.tab.sessions /\ t.tab.starting = s.tab.starting
      /\ t.tab.rate = s.tab.rate /\ t.tab.sessionRate = s.tab.sessionRate
      /\ t.tab.active = FALSE /\ t.tab.fresh = FALSE
      /\ t.tab.latestSigned = NoChunk /\ t.tab.counted = FALSE /\ t.tab.uncounted = s.tab.uncounted
      /\ t.tab.verdict = NoChunk /\ t.tab.pendingSign = NoRequest /\ t.tab.pendingPoll = NoChunk
      /\ \A name \in Channels : t.tab.socket[name] = "none"
      /\ t.sent.chunks = <<>> /\ t.sent.poll = <<>>
      /\ t.hardware.tracks = s.hardware.tracks \ {s.tab.session}
      /\ t.hardware.contexts = s.hardware.contexts \ {s.tab.session}
      /\ t.hardware.closing = s.hardware.closing \cup (s.hardware.contexts \cap {s.tab.session})
  BY StopFields DEF AudioGood
<1> HIDE DEF t
<1>3. t.hardware.tracks = {} /\ t.hardware.contexts = {}
  BY <1>1 DEF AudioGood, SessionGood
<1>4. SessionGood(t)
  <2>1. \A x \in t.tab.starting : x.session # 0
    BY <1>1 DEF AudioGood, SessionGood, Startings
  <2>2. \A m, n \in t.hardware.contexts \cup t.hardware.closing : m = n
    BY <1>1, <1>3 DEF AudioGood, SessionGood
  <2>3. \A x \in t.tab.starting :
          /\ x.session <= t.tab.sessions
          /\ x.session = t.tab.session => ~ t.tab.active /\ (x.at # "closing" => t.tab.sessionRate # 0)
    BY <1>1, <2>1 DEF AudioGood, SessionGood
  <2>4. /\ t.tab.session \in Nat /\ t.tab.sessions \in Nat /\ t.tab.session <= t.tab.sessions
        /\ t.tab.rate \in SampleRates /\ t.tab.sessionRate \in SampleRates \cup {0}
    <3>1. /\ s.tab.sessions \in Nat
          /\ s.tab.rate \in SampleRates /\ s.tab.sessionRate \in SampleRates \cup {0}
      BY DEF AudioGood, SessionGood
    <3>2. /\ t.tab.session = 0 /\ t.tab.sessions = s.tab.sessions /\ t.tab.active = FALSE
          /\ t.tab.rate = s.tab.rate /\ t.tab.sessionRate = s.tab.sessionRate
      BY <1>1
    <3> QED BY <3>1, <3>2
  <2>5. /\ t.tab.starting \subseteq Startings
        /\ \A x, y \in t.tab.starting : x.session = y.session => x = y
    BY <1>1 DEF AudioGood, SessionGood
  <2> QED BY <1>1, <1>3, <2>2, <2>3, <2>4, <2>5 DEF SessionGood
<1>5. ChannelsGood(t)
  BY <1>1 DEF ChannelsGood, Channels
<1>6. VerdictGood(t)
  BY <1>1 DEF AudioGood, VerdictGood
<1> QED BY <1>1, <1>3, <1>4, <1>5, <1>6 DEF AudioGood, t

\* Replacing the variables of the tab keeps the shape of the state.
LEMMA TabSet ==
  ASSUME NEW s, Shaped(s), NEW T, DOMAIN T = TabFields, DOMAIN T.socket = Channels
  PROVE  LET t == [s EXCEPT !.tab = T] IN
         /\ Shaped(t) /\ t.tab = T /\ t.hardware = s.hardware /\ t.sent = s.sent
         /\ t.downloaded = s.downloaded
BY DEF Shaped

\* startMicrophone, after it stopped what ran: a new start is asked for.
LEMMA BegunGood ==
  ASSUME NEW s, AudioGood(s), s.tab.session = 0, s.tab.active = FALSE,
         s.hardware.tracks = {}, s.hardware.contexts = {}
  PROVE  LET t == SessionBegun(s) IN AudioGood(t) /\ Keeps(s, t)
<1> DEFINE next == s.tab.sessions + 1
           x == [session |-> next, at |-> "closing"]
           T == [s.tab EXCEPT !.sessions = next, !.session = next, !.starting = @ \cup {x}]
           t == [s EXCEPT !.tab = T]
<1>1. SessionBegun(s) = t
  BY DEF SessionBegun, AudioGood, Shaped, TabFields
<1>2. /\ DOMAIN T = TabFields /\ DOMAIN T.socket = Channels
      /\ T.sessions = next /\ T.session = next /\ T.starting = s.tab.starting \cup {x}
      /\ T.active = s.tab.active /\ T.rate = s.tab.rate /\ T.sessionRate = s.tab.sessionRate
      /\ T.socket = s.tab.socket /\ T.verdict = s.tab.verdict
      /\ T.pendingSign = s.tab.pendingSign /\ T.pendingPoll = s.tab.pendingPoll
      /\ T.fresh = s.tab.fresh /\ T.latestSigned = s.tab.latestSigned
      /\ T.counted = s.tab.counted /\ T.uncounted = s.tab.uncounted
      /\ T.recording = s.tab.recording /\ T.audioArchive = s.tab.audioArchive
      /\ T.archives = s.tab.archives /\ T.archive = s.tab.archive /\ T.format = s.tab.format
  BY DEF AudioGood, Shaped, TabFields
<1> HIDE DEF T
<1>3. Shaped(t) /\ t.tab = T /\ t.hardware = s.hardware /\ t.sent = s.sent
      /\ t.downloaded = s.downloaded
  BY <1>2, TabSet DEF AudioGood
<1> HIDE DEF t
<1>4. SessionGood(t)
  <2>1. s.tab.sessions \in Nat
    BY DEF AudioGood, SessionGood
  <2>2. next \in Nat \ {0} /\ s.tab.sessions < next
    BY <2>1
  <2>3. x \in Startings /\ x.session = next /\ x.at = "closing"
    BY <2>2 DEF Startings
  <2> HIDE DEF next, x
  <2>4. /\ t.tab.session \in Nat /\ t.tab.sessions \in Nat /\ t.tab.session <= t.tab.sessions
        /\ t.tab.rate \in SampleRates /\ t.tab.sessionRate \in SampleRates \cup {0}
    BY <1>2, <1>3, <2>2 DEF AudioGood, SessionGood
  <2>5. \A y \in s.tab.starting : y \in Startings /\ y.session <= s.tab.sessions /\ y.session # next
    BY <2>1, <2>2 DEF AudioGood, SessionGood, Startings
  <2>6. t.tab.starting \subseteq Startings
    BY <1>2, <1>3, <2>3, <2>5
  <2>7. \A y \in t.tab.starting : y \in s.tab.starting \/ y = x
    BY <1>2, <1>3
  <2>8. \A y, z \in t.tab.starting : y.session = z.session => y = z
    BY <2>3, <2>5, <2>7 DEF AudioGood, SessionGood
  <2>9. \A y \in t.tab.starting :
          /\ y.session <= t.tab.sessions
          /\ y.session = t.tab.session => ~ t.tab.active /\ (y.at # "closing" => t.tab.sessionRate # 0)
    BY <1>2, <1>3, <2>1, <2>2, <2>3, <2>5, <2>7 DEF Startings
  <2>10. /\ t.hardware.tracks \subseteq {t.tab.session}
         /\ t.hardware.contexts \subseteq {t.tab.session}
         /\ \A m, n \in t.hardware.contexts \cup t.hardware.closing : m = n
    BY <1>3 DEF AudioGood, SessionGood
  <2> QED BY <1>2, <1>3, <2>4, <2>6, <2>8, <2>9, <2>10 DEF SessionGood
<1>5. ChannelsGood(t)
  BY <1>2, <1>3 DEF AudioGood, ChannelsGood
<1>6. VerdictGood(t)
  BY <1>2, <1>3 DEF AudioGood, VerdictGood
<1>7. ArchiveGood(t) /\ Keeps(s, t)
  BY <1>2, <1>3, KeepsLaws DEF AudioGood, SameArchive
<1> QED BY <1>1, <1>3, <1>4, <1>5, <1>6, <1>7 DEF AudioGood

\* The state functions read and write the variables they name.
LEMMA PageFields ==
  /\ Page.tab = tab /\ Page.hardware = hardware /\ Page.sent = sent /\ Page.downloaded = {}
BY DEF Page

\* The invariant does not depend on what this turn downloaded.
LEMMA SameIsGood ==
  ASSUME NEW s, AudioGood(s), NEW t, DOMAIN t = DOMAIN s,
         t.tab = s.tab, t.hardware = s.hardware, t.sent = s.sent
  PROVE  AudioGood(t)
<1>1. Shaped(t)
  BY DEF AudioGood, Shaped
<1>2. SessionGood(t)
  BY DEF AudioGood, SessionGood
<1>3. ChannelsGood(t) /\ VerdictGood(t)
  BY DEF AudioGood, ChannelsGood, VerdictGood
<1>4. ArchiveGood(t)
  BY DEF AudioGood, ArchiveGood
<1> QED BY <1>1, <1>2, <1>3, <1>4 DEF AudioGood

\* A turn of the page that preserves the parts and drops nothing preserves the invariant.
LEMMA TurnsInv ==
  ASSUME AudioInv, NEW s, AudioGood(s), Keeps(Page, s), Turns(s)
  PROVE  AudioInv'
<1>1. /\ DOMAIN Page' = DOMAIN s
      /\ Page'.tab = s.tab /\ Page'.hardware = s.hardware /\ Page'.sent = s.sent
  BY DEF Page, Turns, AudioGood, Shaped
<1>2. AudioGood(Page)'
  <2> DEFINE t == Page'
  <2> HIDE DEF t
  <2>1. AudioGood(t)
    BY <1>1, SameIsGood DEF t
  <2> QED BY <2>1 DEF t, AudioGood, Shaped, SessionGood, ChannelsGood, VerdictGood, ArchiveGood
<1>3. tab.archive \subseteq s.tab.archive \cup s.downloaded
  BY PageFields DEF Keeps
<1>4. forgotten' = FALSE
  BY <1>3 DEF Turns, AudioInv
<1> QED BY <1>2, <1>4 DEF AudioInv

\* A start that is over may be forgotten.
LEMMA StartingLess ==
  ASSUME NEW s, AudioGood(s), NEW S, S \subseteq s.tab.starting
  PROVE  LET t == [s EXCEPT !.tab.starting = S] IN
         /\ AudioGood(t) /\ Keeps(s, t) /\ t.hardware = s.hardware /\ t.sent = s.sent
         /\ t.tab.starting = S
         /\ t.tab.session = s.tab.session /\ t.tab.sessions = s.tab.sessions
         /\ t.tab.active = s.tab.active
         /\ t.tab.rate = s.tab.rate /\ t.tab.sessionRate = s.tab.sessionRate
<1> DEFINE T == [s.tab EXCEPT !.starting = S]
           t == [s EXCEPT !.tab = T]
<1>1. [s EXCEPT !.tab.starting = S] = t
  BY DEF AudioGood, Shaped, TabFields
<1>2. /\ DOMAIN T = TabFields /\ DOMAIN T.socket = Channels
      /\ T.sessions = s.tab.sessions /\ T.session = s.tab.session /\ T.starting = S
      /\ T.active = s.tab.active /\ T.rate = s.tab.rate /\ T.sessionRate = s.tab.sessionRate
      /\ T.socket = s.tab.socket /\ T.verdict = s.tab.verdict
      /\ T.pendingSign = s.tab.pendingSign /\ T.pendingPoll = s.tab.pendingPoll
      /\ T.fresh = s.tab.fresh /\ T.latestSigned = s.tab.latestSigned
      /\ T.counted = s.tab.counted /\ T.uncounted = s.tab.uncounted
      /\ T.recording = s.tab.recording /\ T.audioArchive = s.tab.audioArchive
      /\ T.archives = s.tab.archives /\ T.archive = s.tab.archive /\ T.format = s.tab.format
  BY DEF AudioGood, Shaped, TabFields
<1> HIDE DEF T
<1>3. Shaped(t) /\ t.tab = T /\ t.hardware = s.hardware /\ t.sent = s.sent
      /\ t.downloaded = s.downloaded
  BY <1>2, TabSet DEF AudioGood
<1> HIDE DEF t
<1>4. SessionGood(t)
  BY <1>2, <1>3 DEF AudioGood, SessionGood
<1>5. ChannelsGood(t)
  BY <1>2, <1>3 DEF AudioGood, ChannelsGood
<1>6. VerdictGood(t)
  BY <1>2, <1>3 DEF AudioGood, VerdictGood
<1>7. ArchiveGood(t) /\ Keeps(s, t)
  BY <1>2, <1>3, KeepsLaws DEF AudioGood, SameArchive
<1>8. AudioGood(t)
  BY <1>3, <1>4, <1>5, <1>6, <1>7 DEF AudioGood
<1> QED BY <1>1, <1>2, <1>3, <1>7, <1>8

\* startMicrophone.
LEMMA StartMicrophoneInv ==
  ASSUME AudioInv, NEW downloads \in BOOLEAN, StartMicrophone(downloads)
  PROVE  AudioInv'
<1> DEFINE s == StopMicrophone(Page, downloads)
           t == SessionBegun(s)
<1>1. /\ AudioGood(s) /\ Keeps(Page, s) /\ s.tab.session = 0 /\ s.tab.active = FALSE
      /\ s.hardware.tracks = {} /\ s.hardware.contexts = {}
  BY StopGood DEF AudioInv
<1> HIDE DEF s
<1>2. AudioGood(t) /\ Keeps(s, t)
  BY <1>1, BegunGood
<1>3. Turns(t)
  BY DEF StartMicrophone, s
<1> HIDE DEF t
<1>4. Keeps(Page, t)
  BY <1>1, <1>2, KeepsLaws
<1> QED BY <1>2, <1>3, <1>4, TurnsInv

\* The stop button and the end of a track.
LEMMA StopInv ==
  ASSUME AudioInv, NEW downloads \in BOOLEAN, Turns(StopMicrophone(Page, downloads))
  PROVE  AudioInv'
<1> DEFINE s == StopMicrophone(Page, downloads)
<1>1. AudioGood(s) /\ Keeps(Page, s)
  BY StopGood DEF AudioInv
<1> QED BY <1>1, TurnsInv

\* The rate of the next session is not the one of the session that runs.
LEMMA RateChanged ==
  ASSUME NEW s, AudioGood(s), NEW rate \in SampleRates
  PROVE  LET t == [s EXCEPT !.tab.rate = rate] IN
         /\ AudioGood(t) /\ Keeps(s, t)
         /\ t.tab.session = s.tab.session /\ t.tab.active = s.tab.active
         /\ t.hardware = s.hardware
<1> DEFINE T == [s.tab EXCEPT !.rate = rate]
           t == [s EXCEPT !.tab = T]
<1>1. [s EXCEPT !.tab.rate = rate] = t
  BY DEF AudioGood, Shaped, TabFields
<1>2. /\ DOMAIN T = TabFields /\ DOMAIN T.socket = Channels
      /\ T.sessions = s.tab.sessions /\ T.session = s.tab.session /\ T.starting = s.tab.starting
      /\ T.active = s.tab.active /\ T.rate = rate /\ T.sessionRate = s.tab.sessionRate
      /\ T.socket = s.tab.socket /\ T.verdict = s.tab.verdict
      /\ T.pendingSign = s.tab.pendingSign /\ T.pendingPoll = s.tab.pendingPoll
      /\ T.fresh = s.tab.fresh /\ T.latestSigned = s.tab.latestSigned
      /\ T.counted = s.tab.counted /\ T.uncounted = s.tab.uncounted
      /\ T.recording = s.tab.recording /\ T.audioArchive = s.tab.audioArchive
      /\ T.archives = s.tab.archives /\ T.archive = s.tab.archive /\ T.format = s.tab.format
  BY DEF AudioGood, Shaped, TabFields
<1> HIDE DEF T
<1>3. Shaped(t) /\ t.tab = T /\ t.hardware = s.hardware /\ t.sent = s.sent
      /\ t.downloaded = s.downloaded
  BY <1>2, TabSet DEF AudioGood
<1> HIDE DEF t
<1>4. SessionGood(t)
  BY <1>2, <1>3 DEF AudioGood, SessionGood
<1>5. ChannelsGood(t)
  BY <1>2, <1>3 DEF AudioGood, ChannelsGood
<1>6. VerdictGood(t)
  BY <1>2, <1>3 DEF AudioGood, VerdictGood
<1>7. ArchiveGood(t) /\ Keeps(s, t)
  BY <1>2, <1>3, KeepsLaws DEF AudioGood, SameArchive
<1>8. AudioGood(t)
  BY <1>3, <1>4, <1>5, <1>6, <1>7 DEF AudioGood
<1> QED BY <1>1, <1>2, <1>3, <1>7, <1>8

\* The sample rate control, which stops the microphone first.
LEMMA ChangeRateInv ==
  ASSUME AudioInv, NEW rate \in SampleRates, NEW downloads \in BOOLEAN, ChangeRate(rate, downloads)
  PROVE  AudioInv'
<1> DEFINE a == StopMicrophone(Page, downloads)
           b == [a EXCEPT !.tab.rate = rate]
           c == StopMicrophone(b, downloads)
           d == SessionBegun(c)
<1>0. Turns(IF tab.session # 0 THEN d ELSE b)
  BY DEF ChangeRate
<1>1. /\ AudioGood(a) /\ Keeps(Page, a)
  BY StopGood DEF AudioInv
<1> HIDE DEF a
<1>2. AudioGood(b) /\ Keeps(a, b)
  BY <1>1, RateChanged
<1> HIDE DEF b
<1>3. /\ AudioGood(c) /\ Keeps(b, c) /\ c.tab.session = 0 /\ c.tab.active = FALSE
      /\ c.hardware.tracks = {} /\ c.hardware.contexts = {}
  BY <1>2, StopGood
<1> HIDE DEF c
<1>4. AudioGood(d) /\ Keeps(c, d)
  BY <1>3, BegunGood
<1> HIDE DEF d
<1>5. Keeps(Page, b) /\ Keeps(Page, d)
  BY <1>1, <1>2, <1>3, <1>4, KeepsLaws
<1>6. CASE tab.session # 0
  BY <1>0, <1>4, <1>5, <1>6, TurnsInv
<1>7. CASE tab.session = 0
  BY <1>0, <1>2, <1>5, <1>7, TurnsInv
<1> QED BY <1>6, <1>7

\* A continuation that finds its session out of date ends.
LEMMA LeavesGood ==
  ASSUME AudioInv, NEW x
  PROVE  LET t == Leaves(x) IN
         /\ AudioGood(t) /\ Keeps(Page, t) /\ t.hardware = hardware /\ t.sent = sent
         /\ t.tab.starting = tab.starting \ {x}
         /\ t.tab.session = tab.session /\ t.tab.sessions = tab.sessions
         /\ t.tab.active = tab.active
         /\ t.tab.rate = tab.rate /\ t.tab.sessionRate = tab.sessionRate
<1> DEFINE S == tab.starting \ {x}
<1>1. Leaves(x) = [Page EXCEPT !.tab.starting = S]
  BY PageFields DEF Leaves
<1>2. S \subseteq Page.tab.starting
  BY PageFields
<1> HIDE DEF S
<1> DEFINE t == [Page EXCEPT !.tab.starting = S]
<1>3. /\ AudioGood(t) /\ Keeps(Page, t) /\ t.hardware = Page.hardware /\ t.sent = Page.sent
      /\ t.tab.starting = S
      /\ t.tab.session = Page.tab.session /\ t.tab.sessions = Page.tab.sessions
      /\ t.tab.active = Page.tab.active
      /\ t.tab.rate = Page.tab.rate /\ t.tab.sessionRate = Page.tab.sessionRate
  BY <1>2, StartingLess DEF AudioInv
<1> HIDE DEF t
<1> QED BY <1>1, <1>3, PageFields DEF S, t

\* One that does not is of the current session, which is not active yet.
LEMMA ProceedsIs ==
  ASSUME Shaped(Page), NEW x, NEW at
  PROVE  LET S == (tab.starting \ {x}) \cup {[x EXCEPT !.at = at]}
         IN /\ Proceeds(x, at) = [Page EXCEPT !.tab = [tab EXCEPT !.starting = S]]
            /\ Proceeds(x, at).tab = [tab EXCEPT !.starting = S]
            /\ Proceeds(x, at).hardware = hardware
<1> DEFINE R == tab.starting \ {x}
           y == [x EXCEPT !.at = at]
           S == R \cup {y}
           A == [tab EXCEPT !.starting = R]
           B == [tab EXCEPT !.starting = S]
           a == [Page EXCEPT !.tab = A]
<1>1. Leaves(x) = a
  BY PageFields DEF Leaves, Shaped
<1> HIDE DEF y, R
<1>2. A.starting = R /\ [A EXCEPT !.starting = S] = B
  BY PageFields DEF Shaped, TabFields
<1>3. a.tab = A /\ \A V : [a EXCEPT !.tab = V] = [Page EXCEPT !.tab = V]
  BY DEF Shaped
<1> HIDE DEF a, A
<1>4. Proceeds(x, at) = [a EXCEPT !.tab = [a.tab EXCEPT !.starting = a.tab.starting \cup {y}]]
  BY <1>1 DEF Proceeds, y
<1>5. Proceeds(x, at) = [Page EXCEPT !.tab = B]
  BY <1>2, <1>3, <1>4
<1> HIDE DEF B
<1>6. [Page EXCEPT !.tab = B].tab = B /\ [Page EXCEPT !.tab = B].hardware = hardware
  BY PageFields DEF Shaped
<1> QED BY <1>5, <1>6 DEF B, S, R, y

\* openAudioContext opens a context only when the last one has closed.
LEMMA OpenContextInv ==
  ASSUME AudioInv, NEW x \in tab.starting, OpenContext(x)
  PROVE  AudioInv'
<1>1. CASE tab.session # x.session
  <2>1. Turns(Leaves(x))
    BY <1>1 DEF OpenContext, IsCurrentSession
  <2> QED BY <2>1, LeavesGood, TurnsInv
<1>2. CASE tab.session = x.session
  <2> DEFINE y == [x EXCEPT !.at = "resuming"]
             S == (tab.starting \ {x}) \cup {y}
             T == [tab EXCEPT !.starting = S, !.sessionRate = tab.rate]
             H == [hardware EXCEPT !.contexts = @ \cup {x.session}]
             t == [Page EXCEPT !.tab = T, !.hardware = H]
  <2>0. /\ Shaped(Page) /\ SessionGood(Page) /\ ChannelsGood(Page) /\ VerdictGood(Page)
        /\ ArchiveGood(Page)
    BY DEF AudioInv, AudioGood
  <2>1. Turns(t)
    <3>1. [Proceeds(x, "resuming") EXCEPT !.hardware.contexts = @ \cup {x.session},
                                          !.tab.sessionRate = tab.rate] = t
      <4> DEFINE B == [tab EXCEPT !.starting = S]
                 p == Proceeds(x, "resuming")
      <4>1. p = [Page EXCEPT !.tab = B] /\ p.tab = B /\ p.hardware = hardware
        BY <2>0, ProceedsIs
      <4> HIDE DEF p, S
      <4>2. [B EXCEPT !.sessionRate = tab.rate] = T
        BY <2>0, PageFields DEF Shaped, TabFields
      <4> HIDE DEF B, T
      <4> DEFINE q == [p EXCEPT !.hardware = H]
      <4>3. /\ DOMAIN p = DOMAIN Page /\ DOMAIN q = DOMAIN Page /\ q.tab = B
            /\ [q EXCEPT !.tab = T] = [Page EXCEPT !.tab = T, !.hardware = H]
        BY <4>1, <2>0 DEF Shaped
      <4> HIDE DEF H
      <4>4. [p EXCEPT !.hardware.contexts = @ \cup {x.session},
                      !.tab.sessionRate = tab.rate]
            = [q EXCEPT !.tab = [q.tab EXCEPT !.sessionRate = tab.rate]]
        BY <4>1 DEF H
      <4> QED BY <4>2, <4>3, <4>4 DEF p
    <3> QED BY <3>1, <1>2 DEF OpenContext, IsCurrentSession
  <2>2. /\ DOMAIN T = TabFields /\ DOMAIN T.socket = Channels
        /\ T.sessions = tab.sessions /\ T.session = tab.session /\ T.starting = S
        /\ T.active = tab.active /\ T.rate = tab.rate /\ T.sessionRate = tab.rate
        /\ T.socket = tab.socket /\ T.verdict = tab.verdict
        /\ T.pendingSign = tab.pendingSign /\ T.pendingPoll = tab.pendingPoll
        /\ T.fresh = tab.fresh /\ T.latestSigned = tab.latestSigned
        /\ T.counted = tab.counted /\ T.uncounted = tab.uncounted
        /\ T.recording = tab.recording /\ T.audioArchive = tab.audioArchive
        /\ T.archives = tab.archives /\ T.archive = tab.archive /\ T.format = tab.format
    BY <2>0, PageFields DEF Shaped, TabFields
  <2>3. /\ DOMAIN H = {"tracks", "contexts", "closing"}
        /\ H.tracks = hardware.tracks /\ H.closing = hardware.closing
        /\ H.contexts = hardware.contexts \cup {x.session}
    BY <2>0, PageFields DEF Shaped
  <2> HIDE DEF T, H
  <2>4. Shaped(t) /\ t.tab = T /\ t.hardware = H /\ t.sent = sent /\ t.downloaded = {}
    BY <2>0, <2>2, <2>3, PageFields DEF Shaped
  <2> HIDE DEF t
  <2>5. /\ x \in Startings /\ ~ tab.active /\ tab.session # 0 /\ hardware.closing = {}
        /\ tab.rate \in SampleRates /\ tab.rate # 0 /\ x.session <= tab.sessions
    BY <1>2, <2>0, PageFields, AudioAssumption DEF SessionGood, Startings, OpenContext
  <2>6. y \in Startings /\ y.session = x.session
    BY <2>5 DEF Startings
  <2> HIDE DEF y
  <2>7. \A z \in S : z \in Startings /\ (z = y \/ (z \in tab.starting /\ z # x))
    BY <2>0, <2>6, PageFields DEF SessionGood
  <2>8. \A z, w \in S : z.session = w.session => z = w
    BY <2>0, <2>6, <2>7, PageFields DEF SessionGood
  <2>9. \A z \in S : z.session <= tab.sessions
    BY <2>0, <2>5, <2>6, <2>7, PageFields DEF SessionGood
  <2> HIDE DEF S
  <2>10. SessionGood(t)
    <3>1. /\ t.hardware.tracks \subseteq {t.tab.session}
          /\ t.hardware.contexts \subseteq {t.tab.session}
          /\ \A m, n \in t.hardware.contexts \cup t.hardware.closing : m = n
      BY <1>2, <2>0, <2>2, <2>3, <2>4, <2>5, PageFields DEF SessionGood
    <3>2. /\ t.tab.session \in Nat /\ t.tab.sessions \in Nat /\ t.tab.session <= t.tab.sessions
          /\ t.tab.rate \in SampleRates /\ t.tab.sessionRate \in SampleRates \cup {0}
      BY <2>0, <2>2, <2>4, PageFields DEF SessionGood
    <3>3. t.tab.starting \subseteq Startings
      BY <2>2, <2>4, <2>7
    <3> QED BY <2>2, <2>4, <2>5, <2>8, <2>9, <3>1, <3>2, <3>3 DEF SessionGood
  <2>11. ChannelsGood(t)
    BY <2>0, <2>2, <2>4, PageFields DEF ChannelsGood
  <2>12. VerdictGood(t)
    BY <2>0, <2>2, <2>4, PageFields DEF VerdictGood
  <2>13. ArchiveGood(t) /\ Keeps(Page, t)
    BY <2>0, <2>2, <2>4, PageFields, KeepsLaws DEF SameArchive
  <2>14. AudioGood(t)
    BY <2>4, <2>10, <2>11, <2>12, <2>13 DEF AudioGood
  <2> QED BY <2>1, <2>13, <2>14, TurnsInv
<1> QED BY <1>1, <1>2

\* The context resumes, and the browser is asked for the microphone.
LEMMA ResumedInv ==
  ASSUME AudioInv, NEW x \in tab.starting, Resumed(x)
  PROVE  AudioInv'
<1>1. CASE tab.session # x.session
  <2>1. Turns(Leaves(x))
    BY <1>1 DEF Resumed, IsCurrentSession
  <2> QED BY <2>1, LeavesGood, TurnsInv
<1>2. CASE tab.session = x.session
  <2> DEFINE y == [x EXCEPT !.at = "asking"]
             S == (tab.starting \ {x}) \cup {y}
             T == [tab EXCEPT !.starting = S]
             t == [Page EXCEPT !.tab = T]
  <2>0. /\ Shaped(Page) /\ SessionGood(Page) /\ ChannelsGood(Page) /\ VerdictGood(Page)
        /\ ArchiveGood(Page)
    BY DEF AudioInv, AudioGood
  <2>1. Turns(t)
    BY <1>2, <2>0, ProceedsIs DEF Resumed, IsCurrentSession
  <2>2. /\ DOMAIN T = TabFields /\ DOMAIN T.socket = Channels
        /\ T.sessions = tab.sessions /\ T.session = tab.session /\ T.starting = S
        /\ T.active = tab.active /\ T.rate = tab.rate /\ T.sessionRate = tab.sessionRate
        /\ T.socket = tab.socket /\ T.verdict = tab.verdict
        /\ T.pendingSign = tab.pendingSign /\ T.pendingPoll = tab.pendingPoll
        /\ T.fresh = tab.fresh /\ T.latestSigned = tab.latestSigned
        /\ T.counted = tab.counted /\ T.uncounted = tab.uncounted
        /\ T.recording = tab.recording /\ T.audioArchive = tab.audioArchive
        /\ T.archives = tab.archives /\ T.archive = tab.archive /\ T.format = tab.format
    BY <2>0, PageFields DEF Shaped, TabFields
  <2> HIDE DEF T
  <2>4. Shaped(t) /\ t.tab = T /\ t.hardware = hardware /\ t.sent = sent /\ t.downloaded = {}
    BY <2>0, <2>2, PageFields DEF Shaped
  <2> HIDE DEF t
  <2>5. x \in Startings /\ x.session <= tab.sessions /\ x.at = "resuming"
    BY <2>0, PageFields DEF SessionGood, Resumed
  <2>6. y \in Startings /\ y.session = x.session
    BY <2>5 DEF Startings
  <2>7. ~ tab.active /\ tab.sessionRate # 0
    BY <1>2, <2>0, <2>5, PageFields DEF SessionGood
  <2> HIDE DEF y
  <2>8. \A z \in S : z \in Startings /\ (z = y \/ (z \in tab.starting /\ z # x))
    BY <2>0, <2>6, PageFields DEF SessionGood
  <2>9. \A z, w \in S : z.session = w.session => z = w
    BY <2>0, <2>6, <2>8, PageFields DEF SessionGood
  <2>10. \A z \in S : z.session <= tab.sessions
    BY <2>0, <2>5, <2>6, <2>8, PageFields DEF SessionGood
  <2> HIDE DEF S
  <2>11. SessionGood(t)
    <3>1. /\ t.hardware.tracks \subseteq {t.tab.session}
          /\ t.hardware.contexts \subseteq {t.tab.session}
          /\ \A m, n \in t.hardware.contexts \cup t.hardware.closing : m = n
      BY <2>0, <2>2, <2>4, PageFields DEF SessionGood
    <3>2. /\ t.tab.session \in Nat /\ t.tab.sessions \in Nat /\ t.tab.session <= t.tab.sessions
          /\ t.tab.rate \in SampleRates /\ t.tab.sessionRate \in SampleRates \cup {0}
      BY <2>0, <2>2, <2>4, PageFields DEF SessionGood
    <3>3. t.tab.starting \subseteq Startings
      BY <2>2, <2>4, <2>8
    <3> QED BY <2>2, <2>4, <2>7, <2>9, <2>10, <3>1, <3>2, <3>3 DEF SessionGood
  <2>12. ChannelsGood(t)
    BY <2>0, <2>2, <2>4, PageFields DEF ChannelsGood
  <2>13. VerdictGood(t)
    BY <2>0, <2>2, <2>4, PageFields DEF VerdictGood
  <2>14. ArchiveGood(t) /\ Keeps(Page, t)
    BY <2>0, <2>2, <2>4, PageFields, KeepsLaws DEF SameArchive
  <2>15. AudioGood(t)
    BY <2>4, <2>11, <2>12, <2>13, <2>14 DEF AudioGood
  <2> QED BY <2>1, <2>14, <2>15, TurnsInv
<1> QED BY <1>1, <1>2

SocketTo(s, name, to) == [s EXCEPT !.tab.socket[name] = to]

\* connectAudioChannel opens one channel.
LEMMA SocketFields ==
  ASSUME NEW s, Shaped(s), NEW name \in Channels, NEW to
  PROVE  LET t == SocketTo(s, name, to) IN
         /\ Shaped(t) /\ SameSession(s, t) /\ SameHardware(s, t) /\ SameSigned(s, t) /\ SameArchive(s, t)
         /\ t.tab.socket = [s.tab.socket EXCEPT ![name] = to]
         /\ t.tab.verdict = s.tab.verdict
         /\ t.tab.pendingSign = s.tab.pendingSign /\ t.tab.pendingPoll = s.tab.pendingPoll
         /\ t.sent.chunks = s.sent.chunks /\ t.sent.poll = s.sent.poll
<1> DEFINE k == [s.tab.socket EXCEPT ![name] = to]
           T == [s.tab EXCEPT !.socket = k]
           t == [s EXCEPT !.tab = T]
<1>1. SocketTo(s, name, to) = t
  BY DEF SocketTo, Shaped, TabFields
<1>2. DOMAIN k = Channels
  BY DEF Shaped
<1> HIDE DEF k
<1>3. DOMAIN T = TabFields /\ T.socket = k
  BY DEF Shaped, TabFields
<1>4. Shaped(t) /\ t.tab = T /\ t.hardware = s.hardware /\ t.sent = s.sent
      /\ t.downloaded = s.downloaded
  BY <1>2, <1>3, TabSet
<1>5. /\ T.sessions = s.tab.sessions /\ T.session = s.tab.session /\ T.starting = s.tab.starting
      /\ T.active = s.tab.active /\ T.rate = s.tab.rate /\ T.sessionRate = s.tab.sessionRate
      /\ T.verdict = s.tab.verdict
      /\ T.pendingSign = s.tab.pendingSign /\ T.pendingPoll = s.tab.pendingPoll
      /\ T.fresh = s.tab.fresh /\ T.latestSigned = s.tab.latestSigned
      /\ T.counted = s.tab.counted /\ T.uncounted = s.tab.uncounted
      /\ T.recording = s.tab.recording /\ T.audioArchive = s.tab.audioArchive
      /\ T.archives = s.tab.archives /\ T.archive = s.tab.archive /\ T.format = s.tab.format
  BY DEF Shaped, TabFields
<1> HIDE DEF T, t
<1> QED BY <1>1, <1>3, <1>4, <1>5 DEF SameSession, SameHardware, SameSigned, SameArchive, k

\* And connectAudio both.
LEMMA ConnectFields ==
  ASSUME NEW s, Shaped(s), NEW name \in Channels
  PROVE  LET t == ConnectAudioChannel(s, name) IN
         /\ Shaped(t) /\ SameSession(s, t) /\ SameHardware(s, t) /\ SameSigned(s, t) /\ SameArchive(s, t)
         /\ t.tab.socket = [s.tab.socket EXCEPT ![name] = "connecting"]
         /\ t.tab.verdict = s.tab.verdict
         /\ t.tab.pendingSign = s.tab.pendingSign /\ t.tab.pendingPoll = s.tab.pendingPoll
         /\ t.sent.chunks = s.sent.chunks /\ t.sent.poll = s.sent.poll
<1>1. ConnectAudioChannel(s, name) = SocketTo(s, name, "connecting")
  BY DEF ConnectAudioChannel, SocketTo
<1> QED BY <1>1, SocketFields

\* From the moment the microphone is granted the session has both channels.
LEMMA RunningGood ==
  ASSUME NEW s, AudioGood(s), NEW x, x.session = s.tab.session, x.session # 0,
         s.tab.active = FALSE, s.tab.sessionRate # 0,
         \A y \in s.tab.starting : y.session # s.tab.session
  PROVE  LET t == Running(s, x) IN AudioGood(t) /\ Keeps(s, t)
<1> DEFINE T == [s.tab EXCEPT !.active = TRUE, !.uncounted = 0]
           H == [s.hardware EXCEPT !.tracks = @ \cup {x.session}]
           on == [s EXCEPT !.tab = T, !.hardware = H]
           a == ConnectAudioChannel(on, "encode")
           t == ConnectAudioChannel(a, "decode")
<1>0. /\ Shaped(s) /\ SessionGood(s) /\ ChannelsGood(s) /\ VerdictGood(s) /\ ArchiveGood(s)
  BY DEF AudioGood
<1>1. Running(s, x) = t
  <2>1. [s EXCEPT !.hardware.tracks = @ \cup {x.session}, !.tab.active = TRUE, !.tab.uncounted = 0] = on
    BY <1>0 DEF Shaped, TabFields
  <2> QED BY <2>1 DEF Running
<1>2. /\ DOMAIN T = TabFields /\ DOMAIN T.socket = Channels
      /\ T.sessions = s.tab.sessions /\ T.session = s.tab.session /\ T.starting = s.tab.starting
      /\ T.active = TRUE /\ T.rate = s.tab.rate /\ T.sessionRate = s.tab.sessionRate
      /\ T.socket = s.tab.socket /\ T.verdict = s.tab.verdict
      /\ T.pendingSign = s.tab.pendingSign /\ T.pendingPoll = s.tab.pendingPoll
      /\ T.fresh = s.tab.fresh /\ T.latestSigned = s.tab.latestSigned
      /\ T.counted = s.tab.counted /\ T.uncounted = 0
      /\ T.recording = s.tab.recording /\ T.audioArchive = s.tab.audioArchive
      /\ T.archives = s.tab.archives /\ T.archive = s.tab.archive /\ T.format = s.tab.format
  BY <1>0 DEF Shaped, TabFields
<1>3. /\ DOMAIN H = {"tracks", "contexts", "closing"}
      /\ H.tracks = s.hardware.tracks \cup {x.session}
      /\ H.contexts = s.hardware.contexts /\ H.closing = s.hardware.closing
  BY <1>0 DEF Shaped
<1> HIDE DEF T, H
<1>4. Shaped(on) /\ on.tab = T /\ on.hardware = H /\ on.sent = s.sent
      /\ on.downloaded = s.downloaded
  BY <1>0, <1>2, <1>3 DEF Shaped
<1> HIDE DEF on
<1>5. "encode" \in Channels /\ "decode" \in Channels
  BY DEF Channels
<1>6. /\ Shaped(a) /\ SameSession(on, a) /\ SameHardware(on, a) /\ SameSigned(on, a) /\ SameArchive(on, a)
      /\ a.tab.socket = [on.tab.socket EXCEPT !["encode"] = "connecting"]
      /\ a.tab.verdict = on.tab.verdict
      /\ a.tab.pendingSign = on.tab.pendingSign /\ a.tab.pendingPoll = on.tab.pendingPoll
      /\ a.sent.chunks = on.sent.chunks /\ a.sent.poll = on.sent.poll
  BY <1>4, <1>5, ConnectFields
<1> HIDE DEF a
<1>7. /\ Shaped(t) /\ SameSession(a, t) /\ SameHardware(a, t) /\ SameSigned(a, t) /\ SameArchive(a, t)
      /\ t.tab.socket = [a.tab.socket EXCEPT !["decode"] = "connecting"]
      /\ t.tab.verdict = a.tab.verdict
      /\ t.tab.pendingSign = a.tab.pendingSign /\ t.tab.pendingPoll = a.tab.pendingPoll
      /\ t.sent.chunks = a.sent.chunks /\ t.sent.poll = a.sent.poll
  BY <1>5, <1>6, ConnectFields
<1> HIDE DEF t
<1>8. SessionGood(t)
  <2>1. /\ t.tab.sessions = s.tab.sessions /\ t.tab.session = s.tab.session
        /\ t.tab.starting = s.tab.starting /\ t.tab.active = TRUE
        /\ t.tab.rate = s.tab.rate /\ t.tab.sessionRate = s.tab.sessionRate
    BY <1>2, <1>4, <1>6, <1>7 DEF SameSession
  <2>2. /\ t.hardware.tracks = s.hardware.tracks \cup {x.session}
        /\ t.hardware.contexts = s.hardware.contexts /\ t.hardware.closing = s.hardware.closing
    BY <1>3, <1>4, <1>6, <1>7 DEF SameHardware
  <2>3. t.hardware.tracks = {t.tab.session}
    BY <1>0, <2>1, <2>2 DEF SessionGood
  <2> QED BY <1>0, <2>1, <2>2, <2>3 DEF SessionGood
<1>9. /\ t.tab.active = TRUE
      /\ t.tab.socket["encode"] = "connecting" /\ t.tab.socket["decode"] = "connecting"
      /\ t.sent.chunks = s.sent.chunks /\ t.sent.poll = s.sent.poll
      /\ t.tab.pendingSign = s.tab.pendingSign /\ t.tab.pendingPoll = s.tab.pendingPoll
      /\ t.tab.verdict = s.tab.verdict
  BY <1>2, <1>4, <1>5, <1>6, <1>7 DEF SameSession, Shaped
<1>10. ChannelsGood(t)
  BY <1>0, <1>9 DEF ChannelsGood
<1>11. VerdictGood(t)
  <2>1. /\ t.tab.fresh = s.tab.fresh /\ t.tab.latestSigned = s.tab.latestSigned
        /\ t.tab.counted = s.tab.counted /\ t.tab.uncounted = 0
    BY <1>2, <1>4, <1>6, <1>7 DEF SameSigned
  <2> QED BY <1>0, <1>9, <2>1 DEF VerdictGood
<1>12. ArchiveGood(t) /\ Keeps(s, t)
  <2>1. SameArchive(s, t)
    BY <1>2, <1>4, <1>6, <1>7 DEF SameArchive
  <2> QED BY <1>0, <2>1, KeepsLaws
<1> QED BY <1>1, <1>7, <1>8, <1>10, <1>11, <1>12 DEF AudioGood

\* getUserMedia returns; a stream nobody waits for is stopped.
LEMMA MicrophoneGrantedInv ==
  ASSUME AudioInv, NEW x \in tab.starting, MicrophoneGranted(x)
  PROVE  AudioInv'
<1> DEFINE s == Leaves(x)
<1>1. /\ AudioGood(s) /\ Keeps(Page, s) /\ s.tab.starting = tab.starting \ {x}
      /\ s.tab.session = tab.session /\ s.tab.active = tab.active
      /\ s.tab.sessionRate = tab.sessionRate
  BY LeavesGood
<1>2. Turns(IF tab.session # x.session THEN s ELSE Running(s, x)) /\ x.at = "asking"
  BY DEF MicrophoneGranted, IsCurrentSession
<1> HIDE DEF s
<1>3. CASE tab.session # x.session
  BY <1>1, <1>2, <1>3, TurnsInv
<1>4. CASE tab.session = x.session
  <2>1. SessionGood(Page) /\ ChannelsGood(Page)
    BY DEF AudioInv, AudioGood
  <2>2. /\ x.session # 0 /\ ~ tab.active /\ tab.sessionRate # 0
        /\ \A y \in tab.starting \ {x} : y.session # x.session
    BY <1>2, <1>4, <2>1, PageFields DEF SessionGood, Startings
  <2>3. tab.active = FALSE
    BY <2>1, <2>2, PageFields DEF ChannelsGood
  <2> DEFINE t == Running(s, x)
  <2>4. AudioGood(t) /\ Keeps(s, t)
    BY <1>1, <1>4, <2>2, <2>3, RunningGood
  <2> HIDE DEF t
  <2>5. Keeps(Page, t) /\ Turns(t)
    BY <1>1, <1>2, <1>4, <2>4, KeepsLaws DEF t
  <2> QED BY <2>4, <2>5, TurnsInv
<1> QED BY <1>3, <1>4

\* A start that fails stops the microphone if it is the current one.
LEMMA MicrophoneFailsInv ==
  ASSUME AudioInv, NEW x \in tab.starting, NEW downloads \in BOOLEAN, MicrophoneFails(x, downloads)
  PROVE  AudioInv'
<1> DEFINE s == Leaves(x)
           t == StopMicrophone(s, downloads)
<1>1. AudioGood(s) /\ Keeps(Page, s)
  BY LeavesGood
<1>2. Turns(IF tab.session # x.session THEN s ELSE t)
  BY DEF MicrophoneFails, IsCurrentSession
<1> HIDE DEF s
<1>3. AudioGood(t) /\ Keeps(s, t)
  BY <1>1, StopGood
<1> HIDE DEF t
<1>4. Keeps(Page, t)
  BY <1>1, <1>3, KeepsLaws
<1>5. CASE tab.session # x.session
  BY <1>1, <1>2, <1>5, TurnsInv
<1>6. CASE tab.session = x.session
  BY <1>2, <1>3, <1>4, <1>6, TurnsInv
<1> QED BY <1>5, <1>6

\* A channel of an active session may be in any state but none.
LEMMA SocketGood ==
  ASSUME NEW s, AudioGood(s), NEW name \in Channels, NEW to, to # "none", s.tab.active,
         name = "encode" => s.sent.chunks = <<>>
  PROVE  LET t == SocketTo(s, name, to) IN
         /\ AudioGood(t) /\ Keeps(s, t) /\ SameSession(s, t) /\ SameSigned(s, t)
         /\ t.sent.chunks = s.sent.chunks
<1> DEFINE t == SocketTo(s, name, to)
<1>0. /\ Shaped(s) /\ SessionGood(s) /\ ChannelsGood(s) /\ VerdictGood(s) /\ ArchiveGood(s)
  BY DEF AudioGood
<1>1. /\ Shaped(t) /\ SameSession(s, t) /\ SameHardware(s, t) /\ SameSigned(s, t) /\ SameArchive(s, t)
      /\ t.tab.socket = [s.tab.socket EXCEPT ![name] = to]
      /\ t.tab.verdict = s.tab.verdict
      /\ t.tab.pendingSign = s.tab.pendingSign /\ t.tab.pendingPoll = s.tab.pendingPoll
      /\ t.sent.chunks = s.sent.chunks /\ t.sent.poll = s.sent.poll
  BY <1>0, SocketFields
<1> HIDE DEF t
<1>2. SessionGood(t)
  BY <1>0, <1>1, PartsKept
<1>3. ChannelsGood(t)
  <2>1. CASE name = "encode"
    <3>1. t.tab.socket["encode"] = to /\ t.tab.socket["decode"] = s.tab.socket["decode"]
      BY <1>0, <1>1, <2>1 DEF Shaped, Channels
    <3> QED BY <1>0, <1>1, <2>1, <3>1 DEF ChannelsGood, SameSession
  <2>2. CASE name = "decode"
    <3>1. t.tab.socket["decode"] = to /\ t.tab.socket["encode"] = s.tab.socket["encode"]
      BY <1>0, <1>1, <2>2 DEF Shaped, Channels
    <3> QED BY <1>0, <1>1, <2>2, <3>1 DEF ChannelsGood, SameSession
  <2> QED BY <2>1, <2>2 DEF Channels
<1>4. VerdictGood(t)
  BY <1>0, <1>1 DEF VerdictGood, SameSession, SameSigned
<1>5. ArchiveGood(t) /\ Keeps(s, t)
  BY <1>0, <1>1, KeepsLaws
<1> QED BY <1>1, <1>2, <1>3, <1>4, <1>5 DEF AudioGood, t

\* clearAudioSigning preserves the invariant when the encode channel is not open.
LEMMA ClearGood ==
  ASSUME NEW s, AudioGood(s), s.sent.chunks = <<>>
  PROVE  LET t == ClearAudioSigning(s) IN AudioGood(t) /\ Keeps(s, t)
<1> DEFINE t == ClearAudioSigning(s)
<1>1. /\ Shaped(t) /\ t.tab.pendingSign = NoRequest
      /\ SameSession(s, t) /\ SameHardware(s, t) /\ SameSigned(s, t) /\ SameArchive(s, t)
      /\ t.tab.socket = s.tab.socket /\ t.tab.verdict = s.tab.verdict
      /\ t.tab.pendingPoll = s.tab.pendingPoll
      /\ t.sent.chunks = s.sent.chunks /\ t.sent.poll = s.sent.poll
  BY ClearFields DEF AudioGood
<1> HIDE DEF t
<1>2. SessionGood(t)
  BY <1>1, PartsKept DEF AudioGood
<1>3. ChannelsGood(t)
  BY <1>1 DEF AudioGood, ChannelsGood, SameSession
<1>4. VerdictGood(t)
  BY <1>1 DEF AudioGood, VerdictGood, SameSession, SameSigned
<1>5. ArchiveGood(t) /\ Keeps(s, t)
  BY <1>1, KeepsLaws DEF AudioGood
<1> QED BY <1>1, <1>2, <1>3, <1>4, <1>5 DEF AudioGood, t

\* pollAudioDecode asks for a verdict only when no poll is pending.
LEMMA PollGood ==
  ASSUME NEW s, AudioGood(s)
  PROVE  LET t == PollAudioDecode(s) IN AudioGood(t) /\ Keeps(s, t)
<1>1. CASE s.tab.latestSigned = NoChunk \/ s.tab.socket["decode"] # "open" \/ s.tab.pendingPoll # NoChunk
  BY <1>1, KeepsLaws DEF PollAudioDecode
<1>2. CASE ~ (s.tab.latestSigned = NoChunk \/ s.tab.socket["decode"] # "open" \/ s.tab.pendingPoll # NoChunk)
  <2> DEFINE T == [s.tab EXCEPT !.pendingPoll = s.tab.latestSigned]
             U == [s.sent EXCEPT !.poll = <<NotAsked>>]
             t == [s EXCEPT !.tab = T, !.sent = U]
  <2>0. /\ Shaped(s) /\ SessionGood(s) /\ ChannelsGood(s) /\ VerdictGood(s) /\ ArchiveGood(s)
    BY DEF AudioGood
  <2>1. PollAudioDecode(s) = t
    BY <1>2, <2>0 DEF PollAudioDecode, Shaped, TabFields
  <2>2. /\ DOMAIN T = TabFields /\ DOMAIN T.socket = Channels
        /\ T.pendingPoll = s.tab.latestSigned
        /\ T.sessions = s.tab.sessions /\ T.session = s.tab.session /\ T.starting = s.tab.starting
        /\ T.active = s.tab.active /\ T.rate = s.tab.rate /\ T.sessionRate = s.tab.sessionRate
        /\ T.socket = s.tab.socket /\ T.verdict = s.tab.verdict
        /\ T.pendingSign = s.tab.pendingSign
        /\ T.fresh = s.tab.fresh /\ T.latestSigned = s.tab.latestSigned
        /\ T.counted = s.tab.counted /\ T.uncounted = s.tab.uncounted
        /\ T.recording = s.tab.recording /\ T.audioArchive = s.tab.audioArchive
        /\ T.archives = s.tab.archives /\ T.archive = s.tab.archive /\ T.format = s.tab.format
    BY <2>0 DEF Shaped, TabFields
  <2>3. DOMAIN U = {"chunks", "poll"} /\ U.chunks = s.sent.chunks /\ U.poll = <<NotAsked>>
    BY <2>0 DEF Shaped
  <2> HIDE DEF T, U
  <2>4. Shaped(t) /\ t.tab = T /\ t.hardware = s.hardware /\ t.sent = U
        /\ t.downloaded = s.downloaded
    BY <2>0, <2>2, <2>3 DEF Shaped
  <2> HIDE DEF t
  <2>5. SessionGood(t)
    BY <2>0, <2>2, <2>4 DEF SessionGood
  <2>6. ChannelsGood(t)
    BY <1>2, <2>0, <2>2, <2>3, <2>4 DEF ChannelsGood
  <2>7. VerdictGood(t)
    BY <2>0, <2>2, <2>4 DEF VerdictGood
  <2>8. ArchiveGood(t) /\ Keeps(s, t)
    BY <2>0, <2>2, <2>4, KeepsLaws DEF SameArchive
  <2> QED BY <2>1, <2>4, <2>5, <2>6, <2>7, <2>8 DEF AudioGood
<1> QED BY <1>1, <1>2

\* What forgetting a signed chunk changes.
LEMMA UnsignFields ==
  ASSUME NEW s, Shaped(s)
  PROVE  LET t == [s EXCEPT !.tab.latestSigned = NoChunk] IN
         /\ Shaped(t) /\ t.tab.latestSigned = NoChunk
         /\ SameSession(s, t) /\ SameHardware(s, t) /\ SameArchive(s, t)
         /\ t.tab.fresh = s.tab.fresh /\ t.tab.counted = s.tab.counted
         /\ t.tab.uncounted = s.tab.uncounted
         /\ t.tab.socket = s.tab.socket /\ t.tab.verdict = s.tab.verdict
         /\ t.tab.pendingSign = s.tab.pendingSign /\ t.tab.pendingPoll = s.tab.pendingPoll
         /\ t.sent.chunks = s.sent.chunks /\ t.sent.poll = s.sent.poll
BY DEF Shaped, TabFields, SameSession, SameHardware, SameArchive

\* Forgetting a signed chunk forgets the verdict of it.
LEMMA UnsignGood ==
  ASSUME NEW s, AudioGood(s)
  PROVE  LET t == ResetAudioVerification([s EXCEPT !.tab.latestSigned = NoChunk]) IN
         /\ AudioGood(t) /\ Keeps(s, t) /\ SameSession(s, t) /\ t.sent.chunks = s.sent.chunks
<1> DEFINE a == [s EXCEPT !.tab.latestSigned = NoChunk]
           t == ResetAudioVerification(a)
<1>0. /\ Shaped(s) /\ SessionGood(s) /\ ChannelsGood(s) /\ VerdictGood(s) /\ ArchiveGood(s)
  BY DEF AudioGood
<1>1. /\ Shaped(a) /\ a.tab.latestSigned = NoChunk
      /\ SameSession(s, a) /\ SameHardware(s, a) /\ SameArchive(s, a)
      /\ a.tab.fresh = s.tab.fresh /\ a.tab.counted = s.tab.counted
      /\ a.tab.uncounted = s.tab.uncounted
      /\ a.tab.socket = s.tab.socket /\ a.tab.verdict = s.tab.verdict
      /\ a.tab.pendingSign = s.tab.pendingSign /\ a.tab.pendingPoll = s.tab.pendingPoll
      /\ a.sent.chunks = s.sent.chunks /\ a.sent.poll = s.sent.poll
  BY <1>0, UnsignFields
<1> HIDE DEF a
<1>2. /\ Shaped(t) /\ t.tab.verdict = NoChunk
      /\ SameSession(a, t) /\ SameHardware(a, t) /\ SameSigned(a, t) /\ SameArchive(a, t)
      /\ t.tab.socket = a.tab.socket /\ t.tab.pendingSign = a.tab.pendingSign
      /\ t.tab.pendingPoll = a.tab.pendingPoll
      /\ t.sent.chunks = a.sent.chunks /\ t.sent.poll = a.sent.poll
  BY <1>1, ResetFields
<1> HIDE DEF t
<1>3. SameSession(s, t) /\ SameHardware(s, t) /\ SameArchive(s, t)
  BY <1>1, <1>2 DEF SameSession, SameHardware, SameArchive
<1>4. SessionGood(t)
  BY <1>0, <1>3, PartsKept
<1>5. ChannelsGood(t)
  BY <1>0, <1>1, <1>2, <1>3 DEF ChannelsGood, SameSession
<1>6. VerdictGood(t)
  BY <1>0, <1>1, <1>2, <1>3 DEF VerdictGood, SameSession, SameSigned
<1>7. ArchiveGood(t) /\ Keeps(s, t)
  BY <1>0, <1>3, KeepsLaws
<1> QED BY <1>1, <1>2, <1>3, <1>4, <1>5, <1>6, <1>7 DEF AudioGood, t, a

\* failAudioChannel clears what was asked on that channel only.
LEMMA FailGood ==
  ASSUME NEW s, AudioGood(s), NEW name \in Channels, s.tab.active
  PROVE  LET t == FailAudioChannel(s, name) IN AudioGood(t) /\ Keeps(s, t)
<1> DEFINE a == CloseAudioChannel(s, name)
           b == ClearAudioSigning(a)
           c == IF name = "encode" THEN [b EXCEPT !.tab.latestSigned = NoChunk] ELSE a
           d == SocketTo(c, name, "waiting")
           t == ResetAudioVerification(d)
<1>0. /\ Shaped(s) /\ SessionGood(s) /\ ChannelsGood(s) /\ VerdictGood(s) /\ ArchiveGood(s)
  BY DEF AudioGood
<1>1. FailAudioChannel(s, name) = t
  BY DEF FailAudioChannel, SocketTo
<1>2. /\ Shaped(a)
      /\ SameSession(s, a) /\ SameHardware(s, a) /\ SameSigned(s, a) /\ SameArchive(s, a)
      /\ a.tab.socket = [s.tab.socket EXCEPT ![name] = "none"]
      /\ a.tab.verdict = s.tab.verdict /\ a.tab.pendingSign = s.tab.pendingSign
      /\ a.tab.pendingPoll = IF name = "decode" THEN NoChunk ELSE s.tab.pendingPoll
      /\ a.sent.chunks = IF name = "encode" THEN <<>> ELSE s.sent.chunks
      /\ a.sent.poll = IF name = "decode" THEN <<>> ELSE s.sent.poll
  BY <1>0, CloseFields
<1> HIDE DEF a
<1>3. /\ Shaped(b) /\ b.tab.pendingSign = NoRequest
      /\ SameSession(a, b) /\ SameHardware(a, b) /\ SameSigned(a, b) /\ SameArchive(a, b)
      /\ b.tab.socket = a.tab.socket /\ b.tab.verdict = a.tab.verdict
      /\ b.tab.pendingPoll = a.tab.pendingPoll
      /\ b.sent.chunks = a.sent.chunks /\ b.sent.poll = a.sent.poll
  BY <1>2, ClearFields
<1> HIDE DEF b
<1>4. /\ Shaped(c) /\ SameSession(s, c) /\ SameHardware(s, c) /\ SameArchive(s, c)
      /\ c.tab.fresh = s.tab.fresh /\ c.tab.counted = s.tab.counted
      /\ c.tab.uncounted = s.tab.uncounted
      /\ c.tab.latestSigned = IF name = "encode" THEN NoChunk ELSE s.tab.latestSigned
      /\ c.tab.pendingSign = IF name = "encode" THEN NoRequest ELSE s.tab.pendingSign
      /\ c.tab.pendingPoll = IF name = "decode" THEN NoChunk ELSE s.tab.pendingPoll
      /\ c.sent.chunks = IF name = "encode" THEN <<>> ELSE s.sent.chunks
      /\ c.sent.poll = IF name = "decode" THEN <<>> ELSE s.sent.poll
      /\ c.tab.socket = a.tab.socket
  <2>1. CASE name = "encode"
    <3> DEFINE u == [b EXCEPT !.tab.latestSigned = NoChunk]
    <3>1. /\ Shaped(u) /\ u.tab.latestSigned = NoChunk
          /\ SameSession(b, u) /\ SameHardware(b, u) /\ SameArchive(b, u)
          /\ u.tab.fresh = b.tab.fresh /\ u.tab.counted = b.tab.counted
          /\ u.tab.uncounted = b.tab.uncounted
          /\ u.tab.socket = b.tab.socket /\ u.tab.verdict = b.tab.verdict
          /\ u.tab.pendingSign = b.tab.pendingSign /\ u.tab.pendingPoll = b.tab.pendingPoll
          /\ u.sent.chunks = b.sent.chunks /\ u.sent.poll = b.sent.poll
      BY <1>3, UnsignFields
    <3>2. c = u
      BY <2>1
    <3> HIDE DEF u, c
    <3>3. SameSession(s, u) /\ SameHardware(s, u) /\ SameArchive(s, u)
      BY <1>2, <1>3, <3>1 DEF SameSession, SameHardware, SameArchive
    <3>4. u.tab.fresh = s.tab.fresh /\ u.tab.counted = s.tab.counted
          /\ u.tab.uncounted = s.tab.uncounted
      BY <1>2, <1>3, <3>1 DEF SameSigned
    <3> QED BY <2>1, <1>2, <1>3, <3>1, <3>2, <3>3, <3>4
  <2>2. CASE name # "encode"
    <3>1. c = a
      BY <2>2
    <3> HIDE DEF c
    <3> QED BY <1>2, <2>2, <3>1 DEF SameSigned
  <2> QED BY <2>1, <2>2
<1> HIDE DEF c
<1>5. /\ Shaped(d) /\ SameSession(c, d) /\ SameHardware(c, d) /\ SameSigned(c, d) /\ SameArchive(c, d)
      /\ d.tab.socket = [c.tab.socket EXCEPT ![name] = "waiting"]
      /\ d.tab.verdict = c.tab.verdict
      /\ d.tab.pendingSign = c.tab.pendingSign /\ d.tab.pendingPoll = c.tab.pendingPoll
      /\ d.sent.chunks = c.sent.chunks /\ d.sent.poll = c.sent.poll
  BY <1>4, SocketFields
<1> HIDE DEF d
<1>6. /\ Shaped(t) /\ t.tab.verdict = NoChunk
      /\ SameSession(d, t) /\ SameHardware(d, t) /\ SameSigned(d, t) /\ SameArchive(d, t)
      /\ t.tab.socket = d.tab.socket /\ t.tab.pendingSign = d.tab.pendingSign
      /\ t.tab.pendingPoll = d.tab.pendingPoll
      /\ t.sent.chunks = d.sent.chunks /\ t.sent.poll = d.sent.poll
  BY <1>5, ResetFields
<1> HIDE DEF t
<1>7. SameSession(s, t) /\ SameHardware(s, t) /\ SameArchive(s, t)
  BY <1>4, <1>5, <1>6 DEF SameSession, SameHardware, SameArchive
<1>8. SessionGood(t)
  BY <1>0, <1>7, PartsKept
<1>9. /\ t.tab.socket[name] = "waiting"
      /\ \A other \in Channels \ {name} : t.tab.socket[other] = s.tab.socket[other]
  BY <1>0, <1>2, <1>4, <1>5, <1>6 DEF Shaped
<1>10. t.tab.active
  BY <1>7 DEF SameSession
<1>11. ChannelsGood(t)
  <2>1. CASE name = "encode"
    <3>1. t.tab.socket["encode"] = "waiting" /\ t.tab.socket["decode"] = s.tab.socket["decode"]
      BY <1>9, <2>1 DEF Channels
    <3>2. /\ t.sent.chunks = <<>> /\ t.tab.pendingSign = NoRequest
          /\ t.sent.poll = s.sent.poll /\ t.tab.pendingPoll = s.tab.pendingPoll
          /\ t.tab.active = s.tab.active
      BY <1>4, <1>5, <1>6, <1>7, <2>1 DEF SameSession
    <3> QED BY <1>0, <3>1, <3>2 DEF ChannelsGood
  <2>2. CASE name = "decode"
    <3>1. t.tab.socket["decode"] = "waiting" /\ t.tab.socket["encode"] = s.tab.socket["encode"]
      BY <1>9, <2>2 DEF Channels
    <3>2. /\ t.sent.chunks = s.sent.chunks /\ t.tab.pendingSign = s.tab.pendingSign
          /\ t.sent.poll = <<>> /\ t.tab.active = s.tab.active
      BY <1>4, <1>5, <1>6, <1>7, <2>2 DEF SameSession
    <3> QED BY <1>0, <3>1, <3>2 DEF ChannelsGood
  <2> QED BY <2>1, <2>2 DEF Channels
<1>12. VerdictGood(t)
  BY <1>0, <1>4, <1>5, <1>6, <1>7 DEF VerdictGood, SameSession, SameSigned
<1>13. ArchiveGood(t) /\ Keeps(s, t)
  BY <1>0, <1>7, KeepsLaws
<1> QED BY <1>1, <1>6, <1>8, <1>11, <1>12, <1>13 DEF AudioGood

\* A channel opens.
LEMMA AudioChannelOpensInv ==
  ASSUME AudioInv, NEW name \in Channels, AudioChannelOpens(name)
  PROVE  AudioInv'
<1> DEFINE s == SocketTo(Page, name, "open")
<1>0. AudioGood(Page) /\ Shaped(Page) /\ ChannelsGood(Page)
  BY DEF AudioInv, AudioGood
<1>1. /\ Page.tab.active
      /\ name = "encode" => Page.sent.chunks = <<>>
  BY <1>0, PageFields DEF AudioChannelOpens, ChannelsGood, Channels
<1>2. Turns(IF name = "encode" THEN ClearAudioSigning(s) ELSE PollAudioDecode(s))
  BY DEF AudioChannelOpens, SocketTo
<1>3. AudioGood(s) /\ Keeps(Page, s) /\ s.sent.chunks = Page.sent.chunks
  BY <1>0, <1>1, SocketGood
<1> HIDE DEF s
<1>4. CASE name = "encode"
  <2> DEFINE t == ClearAudioSigning(s)
  <2>1. AudioGood(t) /\ Keeps(s, t)
    BY <1>1, <1>3, <1>4, ClearGood
  <2> HIDE DEF t
  <2>2. Turns(t) /\ Keeps(Page, t)
    BY <1>2, <1>3, <1>4, <2>1, KeepsLaws DEF t
  <2> QED BY <2>1, <2>2, TurnsInv
<1>5. CASE name # "encode"
  <2> DEFINE t == PollAudioDecode(s)
  <2>1. AudioGood(t) /\ Keeps(s, t)
    BY <1>3, PollGood
  <2> HIDE DEF t
  <2>2. Turns(t) /\ Keeps(Page, t)
    BY <1>2, <1>3, <1>5, <2>1, KeepsLaws DEF t
  <2> QED BY <2>1, <2>2, TurnsInv
<1> QED BY <1>4, <1>5

\* A channel closes or fails.
LEMMA ChannelFailsInv ==
  ASSUME AudioInv, NEW name \in Channels, AudioChannelFails(name)
  PROVE  AudioInv'
<1> DEFINE t == FailAudioChannel(Page, name)
<1>0. AudioGood(Page) /\ ChannelsGood(Page)
  BY DEF AudioInv, AudioGood
<1>1. Page.tab.active
  BY <1>0, PageFields DEF AudioChannelFails, ChannelsGood, Channels
<1>2. AudioGood(t) /\ Keeps(Page, t)
  BY <1>0, <1>1, FailGood
<1>3. Turns(t)
  BY DEF AudioChannelFails
<1> QED BY <1>2, <1>3, TurnsInv

\* Its reconnect timer fires.
LEMMA ChannelReconnectsInv ==
  ASSUME AudioInv, NEW name \in Channels, AudioChannelReconnects(name)
  PROVE  AudioInv'
<1> DEFINE t == SocketTo(Page, name, "connecting")
<1>0. AudioGood(Page) /\ ChannelsGood(Page)
  BY DEF AudioInv, AudioGood
<1>1. Page.tab.active /\ (name = "encode" => Page.sent.chunks = <<>>)
  BY <1>0, PageFields DEF AudioChannelReconnects, ChannelsGood, Channels
<1>2. AudioGood(t) /\ Keeps(Page, t)
  BY <1>0, <1>1, SocketGood
<1>3. Turns(t)
  BY DEF AudioChannelReconnects, ConnectAudioChannel, SocketTo
<1> QED BY <1>2, <1>3, TurnsInv

\* A chunk of samples is complete.
LEMMA AudioProcessInv ==
  ASSUME AudioInv, HandleAudioProcess
  PROVE  AudioInv'
<1> DEFINE T == [tab EXCEPT !.fresh = TRUE]
           t == [Page EXCEPT !.tab = T]
<1>0. /\ Shaped(Page) /\ SessionGood(Page) /\ ChannelsGood(Page) /\ VerdictGood(Page)
      /\ ArchiveGood(Page)
  BY DEF AudioInv, AudioGood
<1>1. Turns(t) /\ tab.active
  BY PageFields DEF HandleAudioProcess
<1>2. /\ DOMAIN T = TabFields /\ DOMAIN T.socket = Channels
      /\ T.sessions = tab.sessions /\ T.session = tab.session /\ T.starting = tab.starting
      /\ T.active = tab.active /\ T.rate = tab.rate /\ T.sessionRate = tab.sessionRate
      /\ T.socket = tab.socket /\ T.verdict = tab.verdict
      /\ T.pendingSign = tab.pendingSign /\ T.pendingPoll = tab.pendingPoll
      /\ T.fresh = TRUE /\ T.latestSigned = tab.latestSigned
      /\ T.counted = tab.counted /\ T.uncounted = tab.uncounted
      /\ T.recording = tab.recording /\ T.audioArchive = tab.audioArchive
      /\ T.archives = tab.archives /\ T.archive = tab.archive /\ T.format = tab.format
  BY <1>0, PageFields DEF Shaped, TabFields
<1> HIDE DEF T
<1>3. Shaped(t) /\ t.tab = T /\ t.hardware = hardware /\ t.sent = sent /\ t.downloaded = {}
  BY <1>0, <1>2, PageFields DEF Shaped
<1> HIDE DEF t
<1>4. SessionGood(t)
  BY <1>0, <1>2, <1>3, PageFields DEF SessionGood
<1>5. ChannelsGood(t)
  BY <1>0, <1>2, <1>3, PageFields DEF ChannelsGood
<1>6. VerdictGood(t)
  BY <1>0, <1>1, <1>2, <1>3, PageFields DEF VerdictGood
<1>7. ArchiveGood(t) /\ Keeps(Page, t)
  BY <1>0, <1>2, <1>3, PageFields, KeepsLaws DEF SameArchive
<1>8. AudioGood(t)
  BY <1>3, <1>4, <1>5, <1>6, <1>7 DEF AudioGood
<1> QED BY <1>1, <1>7, <1>8, TurnsInv

\* sendAudioChunk: there is no request before this one that is not answered.
LEMMA SendChunkInv ==
  ASSUME AudioInv, SendAudioChunk
  PROVE  AudioInv'
<1> DEFINE request == [archive |-> IF tab.recording THEN tab.audioArchive ELSE 0,
                       rate |-> tab.sessionRate]
           chunks == Append(sent.chunks, NoChunk)
           T == [tab EXCEPT !.pendingSign = request, !.fresh = FALSE, !.latestSigned = NoChunk]
           U == [sent EXCEPT !.chunks = chunks]
           a == [Page EXCEPT !.tab = T, !.sent = U]
           t == ResetAudioVerification(a)
<1>0. /\ Shaped(Page) /\ SessionGood(Page) /\ ChannelsGood(Page) /\ VerdictGood(Page)
      /\ ArchiveGood(Page)
  BY DEF AudioInv, AudioGood
<1>1. Turns(t) /\ tab.pendingSign = NoRequest /\ tab.socket["encode"] = "open"
  <2>1. [Page EXCEPT !.tab.pendingSign = request, !.tab.fresh = FALSE,
                     !.tab.latestSigned = NoChunk, !.sent.chunks = Append(@, NoChunk)] = a
    BY <1>0, PageFields DEF Shaped, TabFields
  <2> QED BY <2>1 DEF SendAudioChunk
<1>2. tab.active = TRUE /\ sent.chunks = <<>>
  BY <1>0, <1>1, PageFields DEF ChannelsGood
<1>3. chunks = <<NoChunk>>
  BY <1>2
<1>4. request # NoRequest
  BY <1>0, <1>2, PageFields DEF SessionGood, NoRequest
<1> HIDE DEF request, chunks
<1>5. /\ DOMAIN T = TabFields /\ DOMAIN T.socket = Channels
      /\ T.sessions = tab.sessions /\ T.session = tab.session /\ T.starting = tab.starting
      /\ T.active = tab.active /\ T.rate = tab.rate /\ T.sessionRate = tab.sessionRate
      /\ T.socket = tab.socket
      /\ T.pendingSign = request /\ T.pendingPoll = tab.pendingPoll
      /\ T.fresh = FALSE /\ T.latestSigned = NoChunk
      /\ T.counted = tab.counted /\ T.uncounted = tab.uncounted
      /\ T.recording = tab.recording /\ T.audioArchive = tab.audioArchive
      /\ T.archives = tab.archives /\ T.archive = tab.archive /\ T.format = tab.format
  BY <1>0, PageFields DEF Shaped, TabFields
<1>6. DOMAIN U = {"chunks", "poll"} /\ U.chunks = chunks /\ U.poll = sent.poll
  BY <1>0, PageFields DEF Shaped
<1> HIDE DEF T, U
<1>7. Shaped(a) /\ a.tab = T /\ a.hardware = hardware /\ a.sent = U /\ a.downloaded = {}
  BY <1>0, <1>5, <1>6, PageFields DEF Shaped
<1> HIDE DEF a
<1>8. /\ Shaped(t) /\ t.tab.verdict = NoChunk
      /\ SameSession(a, t) /\ SameHardware(a, t) /\ SameSigned(a, t) /\ SameArchive(a, t)
      /\ t.tab.socket = a.tab.socket /\ t.tab.pendingSign = a.tab.pendingSign
      /\ t.tab.pendingPoll = a.tab.pendingPoll
      /\ t.sent.chunks = a.sent.chunks /\ t.sent.poll = a.sent.poll
  BY <1>7, ResetFields
<1> HIDE DEF t
<1>9. SameSession(Page, t) /\ SameHardware(Page, t) /\ SameArchive(Page, t)
  BY <1>5, <1>7, <1>8, PageFields DEF SameSession, SameHardware, SameArchive
<1>10. SessionGood(t)
  BY <1>0, <1>9, PartsKept
<1>11. ChannelsGood(t)
  <2>1. /\ t.tab.active = tab.active /\ t.tab.socket = tab.socket
        /\ t.tab.pendingSign = request /\ t.tab.pendingPoll = tab.pendingPoll
        /\ t.sent.chunks = <<NoChunk>> /\ t.sent.poll = sent.poll
    BY <1>3, <1>5, <1>6, <1>7, <1>8 DEF SameSession
  <2> QED BY <1>0, <1>1, <1>4, <2>1, PageFields DEF ChannelsGood
<1>12. VerdictGood(t)
  <2>1. /\ t.tab.active = tab.active /\ t.tab.fresh = FALSE /\ t.tab.latestSigned = NoChunk
        /\ t.tab.counted = tab.counted /\ t.tab.uncounted = tab.uncounted
        /\ t.tab.verdict = NoChunk
    BY <1>5, <1>7, <1>8 DEF SameSession, SameSigned
  <2> QED BY <1>0, <2>1, PageFields DEF VerdictGood
<1>13. ArchiveGood(t) /\ Keeps(Page, t)
  BY <1>0, <1>9, KeepsLaws
<1>14. AudioGood(t)
  BY <1>8, <1>10, <1>11, <1>12, <1>13 DEF AudioGood
<1> QED BY <1>1, <1>13, <1>14, TurnsInv

\* The first reply is taken off the socket and its request cleared.
LEMMA TakenGood ==
  ASSUME AudioInv, sent.chunks # <<>>
  PROVE  LET t == ClearAudioSigning(TakenReply) IN
         /\ AudioGood(t) /\ Keeps(Page, t) /\ SameSession(Page, t) /\ t.sent.chunks = <<>>
         /\ tab.pendingSign # NoRequest /\ tab.active
<1> DEFINE U == [sent EXCEPT !.chunks = Tail(sent.chunks)]
           a == [Page EXCEPT !.sent = U]
           t == ClearAudioSigning(a)
<1>0. /\ Shaped(Page) /\ SessionGood(Page) /\ ChannelsGood(Page) /\ VerdictGood(Page)
      /\ ArchiveGood(Page)
  BY DEF AudioInv, AudioGood
<1>1. TakenReply = a
  BY <1>0, PageFields DEF TakenReply, Shaped
<1>2. Tail(sent.chunks) = <<>> /\ tab.pendingSign # NoRequest /\ tab.active
  <2>1. PICK c : sent.chunks = <<c>>
    BY <1>0, PageFields DEF ChannelsGood
  <2>2. Tail(sent.chunks) = <<>>
    BY <2>1
  <2> QED BY <1>0, <2>2, PageFields DEF ChannelsGood
<1>3. DOMAIN U = {"chunks", "poll"} /\ U.chunks = <<>> /\ U.poll = sent.poll
  BY <1>0, <1>2, PageFields DEF Shaped
<1> HIDE DEF U
<1>4. Shaped(a) /\ a.tab = tab /\ a.hardware = hardware /\ a.sent = U /\ a.downloaded = {}
  BY <1>0, <1>3, PageFields DEF Shaped
<1> HIDE DEF a
<1>5. /\ Shaped(t) /\ t.tab.pendingSign = NoRequest
      /\ SameSession(a, t) /\ SameHardware(a, t) /\ SameSigned(a, t) /\ SameArchive(a, t)
      /\ t.tab.socket = a.tab.socket /\ t.tab.verdict = a.tab.verdict
      /\ t.tab.pendingPoll = a.tab.pendingPoll
      /\ t.sent.chunks = a.sent.chunks /\ t.sent.poll = a.sent.poll
  BY <1>4, ClearFields
<1> HIDE DEF t
<1>6. SameSession(Page, t) /\ SameHardware(Page, t) /\ SameSigned(Page, t) /\ SameArchive(Page, t)
  BY <1>4, <1>5, PageFields DEF SameSession, SameHardware, SameSigned, SameArchive
<1>7. SessionGood(t)
  BY <1>0, <1>6, PartsKept
<1>8. ChannelsGood(t)
  BY <1>0, <1>3, <1>4, <1>5, <1>6, PageFields DEF ChannelsGood, SameSession
<1>9. VerdictGood(t)
  BY <1>0, <1>4, <1>5, <1>6, PageFields DEF VerdictGood, SameSession, SameSigned
<1>10. ArchiveGood(t) /\ Keeps(Page, t)
  BY <1>0, <1>6, KeepsLaws
<1>11. AudioGood(t)
  BY <1>5, <1>7, <1>8, <1>9, <1>10 DEF AudioGood
<1> QED BY <1>1, <1>2, <1>3, <1>4, <1>5, <1>6, <1>10, <1>11 DEF t

\* A chunk that cannot be signed clears the request and the verdict.
LEMMA RejectGood ==
  ASSUME AudioInv, sent.chunks # <<>>, NEW downloads \in BOOLEAN
  PROVE  LET t == RejectSignedAudio(TakenReply, downloads) IN
         AudioGood(t) /\ Keeps(Page, t) /\ t.tab.active
<1> DEFINE c == ClearAudioSigning(TakenReply)
           u == ResetAudioVerification([c EXCEPT !.tab.latestSigned = NoChunk])
           t == StopRecording(u, downloads)
<1>1. AudioGood(c) /\ Keeps(Page, c) /\ SameSession(Page, c) /\ tab.active
  BY TakenGood
<1>2. RejectSignedAudio(TakenReply, downloads) = t
  BY DEF RejectSignedAudio
<1> HIDE DEF c
<1>3. AudioGood(u) /\ Keeps(c, u) /\ SameSession(c, u)
  BY <1>1, UnsignGood
<1> HIDE DEF u
<1>4. AudioGood(t) /\ Keeps(u, t) /\ SameTraffic(u, t)
  BY <1>3, StopRecordingGood
<1> HIDE DEF t
<1>5. t.tab.active
  BY <1>1, <1>3, <1>4, PageFields DEF SameTraffic, SameSession
<1>6. Keeps(Page, t)
  BY <1>1, <1>3, <1>4, KeepsLaws
<1> QED BY <1>2, <1>4, <1>5, <1>6

\* The server rejects a chunk.
LEMMA ChunkRejectedInv ==
  ASSUME AudioInv, NEW downloads \in BOOLEAN, ChunkRejected(downloads)
  PROVE  AudioInv'
<1> DEFINE t == RejectSignedAudio(TakenReply, downloads)
<1>1. sent.chunks # <<>> /\ Turns(t)
  BY DEF ChunkRejected
<1>2. AudioGood(t) /\ Keeps(Page, t)
  BY <1>1, RejectGood
<1> QED BY <1>1, <1>2, TurnsInv

\* A reply is not a packet; the channel fails.
LEMMA ChunkGarbledInv ==
  ASSUME AudioInv, NEW downloads \in BOOLEAN, ChunkGarbled(downloads)
  PROVE  AudioInv'
<1> DEFINE s == RejectSignedAudio(TakenReply, downloads)
           t == FailAudioChannel(s, "encode")
<1>1. sent.chunks # <<>> /\ Turns(t) /\ "encode" \in Channels
  BY DEF ChunkGarbled, Channels
<1>2. AudioGood(s) /\ Keeps(Page, s) /\ s.tab.active
  BY <1>1, RejectGood
<1> HIDE DEF s
<1>3. AudioGood(t) /\ Keeps(s, t)
  BY <1>1, <1>2, FailGood
<1> HIDE DEF t
<1>4. Keeps(Page, t)
  BY <1>2, <1>3, KeepsLaws
<1> QED BY <1>1, <1>3, <1>4, TurnsInv

\* The chunk is refused before it is sent.
LEMMA ChunkRefusedInv ==
  ASSUME AudioInv, ChunkRefused
  PROVE  AudioInv'
<1> DEFINE c == ClearAudioSigning(TakenReply)
           t == ResetAudioVerification([c EXCEPT !.tab.latestSigned = NoChunk])
<1>1. sent.chunks # <<>> /\ Turns(t)
  BY DEF ChunkRefused
<1>2. AudioGood(c) /\ Keeps(Page, c)
  BY <1>1, TakenGood
<1> HIDE DEF c
<1>3. AudioGood(t) /\ Keeps(c, t)
  BY <1>2, UnsignGood
<1> HIDE DEF t
<1>4. Keeps(Page, t)
  BY <1>2, <1>3, KeepsLaws
<1> QED BY <1>1, <1>3, <1>4, TurnsInv

\* The poll interval.
LEMMA PollDueInv ==
  ASSUME AudioInv, PollDue
  PROVE  AudioInv'
<1> DEFINE t == PollAudioDecode(Page)
<1>1. Turns(t)
  BY DEF PollDue
<1>2. AudioGood(t) /\ Keeps(Page, t)
  BY PollGood DEF AudioInv
<1> QED BY <1>1, <1>2, TurnsInv

\* recordSignedAudioChunk adds the chunk, ends a full recording or does nothing.
LEMMA RecordKeeps ==
  ASSUME NEW s, Shaped(s), ArchiveGood(s), NEW request, NEW artifact, NEW downloads \in BOOLEAN
  PROVE  LET t == RecordSignedAudioChunk(s, request, artifact, downloads)
         IN Shaped(t) /\ ArchiveGood(t) /\ Keeps(s, t) /\ SameTraffic(s, t)
<1> DEFINE chunk == [artifact |-> artifact, rate |-> request.rate, asked |-> request.archive]
           u == [s EXCEPT !.tab.archive = @ \cup {chunk}]
           f == FinishAudioRecording(s, downloads)
           t == RecordSignedAudioChunk(s, request, artifact, downloads)
<1>1. CASE ~ s.tab.recording \/ request.archive # s.tab.audioArchive
  <2>1. t = s
    BY <1>1 DEF RecordSignedAudioChunk
  <2> QED BY <2>1 DEF Keeps, SameTraffic, SameSession, SameHardware, SameSigned
<1>2. CASE /\ ~ (~ s.tab.recording \/ request.archive # s.tab.audioArchive)
           /\ request.rate # s.tab.format \/ Cardinality(s.tab.archive) >= ARCHIVE_ENTRIES
  <2>1. t = f
    BY <1>2 DEF RecordSignedAudioChunk
  <2> QED BY <2>1, FinishKeeps
<1>3. CASE /\ ~ (~ s.tab.recording \/ request.archive # s.tab.audioArchive)
           /\ ~ (request.rate # s.tab.format \/ Cardinality(s.tab.archive) >= ARCHIVE_ENTRIES)
  <2>1. t = u
    BY <1>3 DEF RecordSignedAudioChunk
  <2>2. chunk.asked = s.tab.audioArchive /\ chunk.rate = s.tab.format
    BY <1>3
  <2>3. IsFiniteSet(s.tab.archive) /\ Cardinality(s.tab.archive) \in Nat
    BY FS_CardinalityType DEF ArchiveGood
  <2>4. /\ IsFiniteSet(s.tab.archive \cup {chunk})
        /\ Cardinality(s.tab.archive \cup {chunk}) <= ARCHIVE_ENTRIES
    <3>1. Cardinality(s.tab.archive) < ARCHIVE_ENTRIES
      BY <1>3, <2>3, AudioAssumption
    <3> HIDE DEF chunk
    <3>2. /\ IsFiniteSet(s.tab.archive \cup {chunk})
          /\ Cardinality(s.tab.archive \cup {chunk})
               = IF chunk \in s.tab.archive THEN Cardinality(s.tab.archive)
                 ELSE Cardinality(s.tab.archive) + 1
      BY <2>3, FS_AddElement
    <3> QED BY <2>3, <3>1, <3>2, AudioAssumption
  <2> HIDE DEF chunk
  <2>5. /\ Shaped(u) /\ SameTraffic(s, u) /\ u.tab.archive = s.tab.archive \cup {chunk}
        /\ u.tab.audioArchive = s.tab.audioArchive /\ u.tab.format = s.tab.format
        /\ u.tab.recording = s.tab.recording /\ u.tab.archives = s.tab.archives
        /\ u.downloaded = s.downloaded
    BY DEF Shaped, TabFields, SameTraffic, SameSession, SameHardware, SameSigned
  <2> HIDE DEF u
  <2>6. Keeps(s, u)
    BY <2>5 DEF Keeps
  <2>7. ArchiveGood(u)
    BY <1>3, <2>2, <2>4, <2>5 DEF ArchiveGood
  <2> QED BY <2>1, <2>5, <2>6, <2>7
<1> QED BY <1>1, <1>2, <1>3

\* The signed chunk comes back, for the request that is pending.
LEMMA ChunkReturnsInv ==
  ASSUME AudioInv, NEW downloads \in BOOLEAN, ChunkReturns(downloads)
  PROVE  AudioInv'
<1> DEFINE request == tab.pendingSign
           c == ClearAudioSigning(TakenReply)
           signed == [c EXCEPT !.tab.latestSigned = Reply, !.tab.counted = FALSE,
                               !.tab.uncounted = @ + 1]
           r == RecordSignedAudioChunk(signed, request, Reply, downloads)
           v == ResetAudioVerification(r)
           t == PollAudioDecode(v)
<1>1. /\ AudioGood(c) /\ Keeps(Page, c) /\ SameSession(Page, c)
      /\ request # NoRequest /\ tab.active
  BY TakenGood DEF ChunkReturns
<1>2. Turns(t) /\ Reply # NoChunk
  BY <1>1 DEF ChunkReturns
<1> HIDE DEF c
<1>3. /\ Shaped(c) /\ SessionGood(c) /\ ChannelsGood(c) /\ VerdictGood(c) /\ ArchiveGood(c)
  BY <1>1 DEF AudioGood
<1>4. /\ Shaped(signed) /\ SameSession(c, signed) /\ SameHardware(c, signed)
      /\ SameArchive(c, signed)
      /\ signed.tab.fresh = c.tab.fresh /\ signed.tab.latestSigned = Reply
      /\ signed.tab.counted = FALSE /\ signed.tab.uncounted = c.tab.uncounted + 1
      /\ signed.tab.socket = c.tab.socket
      /\ signed.tab.pendingSign = c.tab.pendingSign /\ signed.tab.pendingPoll = c.tab.pendingPoll
      /\ signed.sent.chunks = c.sent.chunks /\ signed.sent.poll = c.sent.poll
  BY <1>3 DEF Shaped, TabFields, SameSession, SameHardware, SameArchive
<1> HIDE DEF signed, request
<1>5. ArchiveGood(signed) /\ Keeps(c, signed)
  BY <1>3, <1>4, KeepsLaws
<1>6. Shaped(r) /\ ArchiveGood(r) /\ Keeps(signed, r) /\ SameTraffic(signed, r)
  BY <1>4, <1>5, RecordKeeps
<1> HIDE DEF r
<1>7. /\ Shaped(v) /\ v.tab.verdict = NoChunk
      /\ SameSession(r, v) /\ SameHardware(r, v) /\ SameSigned(r, v) /\ SameArchive(r, v)
      /\ v.tab.socket = r.tab.socket /\ v.tab.pendingSign = r.tab.pendingSign
      /\ v.tab.pendingPoll = r.tab.pendingPoll
      /\ v.sent.chunks = r.sent.chunks /\ v.sent.poll = r.sent.poll
  BY <1>6, ResetFields
<1> HIDE DEF v
<1>8. SameSession(c, v) /\ SameHardware(c, v)
  BY <1>4, <1>6, <1>7 DEF SameTraffic, SameSession, SameHardware
<1>9. SessionGood(v)
  BY <1>3, <1>8, PartsKept
<1>10. ChannelsGood(v)
  <2>1. /\ v.tab.active = c.tab.active /\ v.tab.socket = c.tab.socket
        /\ v.tab.pendingSign = c.tab.pendingSign /\ v.tab.pendingPoll = c.tab.pendingPoll
        /\ v.sent.chunks = c.sent.chunks /\ v.sent.poll = c.sent.poll
    BY <1>4, <1>6, <1>7, <1>8 DEF SameTraffic, SameSession
  <2> QED BY <1>3, <2>1 DEF ChannelsGood
<1>11. VerdictGood(v)
  <2>1. /\ v.tab.active /\ v.tab.fresh = c.tab.fresh /\ v.tab.latestSigned = Reply
        /\ v.tab.counted = FALSE /\ v.tab.uncounted = c.tab.uncounted + 1
    BY <1>1, <1>4, <1>6, <1>7, <1>8, PageFields DEF SameTraffic, SameSession, SameSigned
  <2>2. c.tab.uncounted \in Nat /\ c.tab.fresh \in BOOLEAN
    BY <1>3 DEF VerdictGood
  <2>3. v.tab.uncounted \in Nat /\ v.tab.uncounted >= 1
    BY <2>1, <2>2
  <2> QED BY <1>7, <2>1, <2>2, <2>3 DEF VerdictGood
<1>12. ArchiveGood(v) /\ Keeps(r, v)
  BY <1>6, <1>7, KeepsLaws
<1>13. AudioGood(v)
  BY <1>7, <1>9, <1>10, <1>11, <1>12 DEF AudioGood
<1>14. AudioGood(t) /\ Keeps(v, t)
  BY <1>13, PollGood
<1> HIDE DEF t
<1>15. Keeps(Page, r)
  BY <1>1, <1>5, <1>6, KeepsLaws
<1>16. Keeps(Page, t)
  BY <1>12, <1>14, <1>15, KeepsLaws
<1> QED BY <1>2, <1>14, <1>16, TurnsInv

\* A verdict is taken off the decode channel.
LEMMA PolledGood ==
  ASSUME AudioInv
  PROVE  /\ AudioGood(Polled) /\ Keeps(Page, Polled)
         /\ Polled.tab.latestSigned = tab.latestSigned /\ Polled.tab.counted = tab.counted
         /\ Polled.tab.uncounted = tab.uncounted
<1> DEFINE T == [tab EXCEPT !.pendingPoll = NoChunk]
           U == [sent EXCEPT !.poll = <<>>]
           t == [Page EXCEPT !.tab = T, !.sent = U]
<1>0. /\ Shaped(Page) /\ SessionGood(Page) /\ ChannelsGood(Page) /\ VerdictGood(Page)
      /\ ArchiveGood(Page)
  BY DEF AudioInv, AudioGood
<1>1. Polled = t
  BY <1>0, PageFields DEF Polled, Shaped, TabFields
<1>2. /\ DOMAIN T = TabFields /\ DOMAIN T.socket = Channels
      /\ T.sessions = tab.sessions /\ T.session = tab.session /\ T.starting = tab.starting
      /\ T.active = tab.active /\ T.rate = tab.rate /\ T.sessionRate = tab.sessionRate
      /\ T.socket = tab.socket /\ T.verdict = tab.verdict
      /\ T.pendingSign = tab.pendingSign /\ T.pendingPoll = NoChunk
      /\ T.fresh = tab.fresh /\ T.latestSigned = tab.latestSigned
      /\ T.counted = tab.counted /\ T.uncounted = tab.uncounted
      /\ T.recording = tab.recording /\ T.audioArchive = tab.audioArchive
      /\ T.archives = tab.archives /\ T.archive = tab.archive /\ T.format = tab.format
  BY <1>0, PageFields DEF Shaped, TabFields
<1>3. DOMAIN U = {"chunks", "poll"} /\ U.chunks = sent.chunks /\ U.poll = <<>>
  BY <1>0, PageFields DEF Shaped
<1> HIDE DEF T, U
<1>4. Shaped(t) /\ t.tab = T /\ t.hardware = hardware /\ t.sent = U /\ t.downloaded = {}
  BY <1>0, <1>2, <1>3, PageFields DEF Shaped
<1> HIDE DEF t
<1>5. SessionGood(t)
  BY <1>0, <1>2, <1>4, PageFields DEF SessionGood
<1>6. ChannelsGood(t)
  BY <1>0, <1>2, <1>3, <1>4, PageFields DEF ChannelsGood
<1>7. VerdictGood(t)
  BY <1>0, <1>2, <1>4, PageFields DEF VerdictGood
<1>8. ArchiveGood(t) /\ Keeps(Page, t)
  BY <1>0, <1>2, <1>4, PageFields, KeepsLaws DEF SameArchive
<1>9. AudioGood(t)
  BY <1>4, <1>5, <1>6, <1>7, <1>8 DEF AudioGood
<1> QED BY <1>1, <1>2, <1>4, <1>8, <1>9

\* It is shown if it is of the latest signed chunk, and counted once.
LEMMA JudgedGood ==
  ASSUME NEW s, AudioGood(s), s.tab.latestSigned # NoChunk,
         sent.poll[1].reply = s.tab.latestSigned
  PROVE  LET t == PollJudged(s) IN AudioGood(t) /\ Keeps(s, t)
<1> DEFINE n == IF s.tab.counted THEN s.tab.uncounted ELSE s.tab.uncounted - 1
           T == [s.tab EXCEPT !.verdict = s.tab.latestSigned, !.uncounted = n, !.counted = TRUE]
           t == [s EXCEPT !.tab = T]
<1>0. /\ Shaped(s) /\ SessionGood(s) /\ ChannelsGood(s) /\ VerdictGood(s) /\ ArchiveGood(s)
  BY DEF AudioGood
<1>1. PollJudged(s) = t
  BY <1>0 DEF PollJudged, Shaped, TabFields
<1>2. n \in Nat
  BY <1>0 DEF VerdictGood
<1> HIDE DEF n
<1>3. /\ DOMAIN T = TabFields /\ DOMAIN T.socket = Channels
      /\ T.sessions = s.tab.sessions /\ T.session = s.tab.session /\ T.starting = s.tab.starting
      /\ T.active = s.tab.active /\ T.rate = s.tab.rate /\ T.sessionRate = s.tab.sessionRate
      /\ T.socket = s.tab.socket /\ T.verdict = s.tab.latestSigned
      /\ T.pendingSign = s.tab.pendingSign /\ T.pendingPoll = s.tab.pendingPoll
      /\ T.fresh = s.tab.fresh /\ T.latestSigned = s.tab.latestSigned
      /\ T.counted = TRUE /\ T.uncounted = n
      /\ T.recording = s.tab.recording /\ T.audioArchive = s.tab.audioArchive
      /\ T.archives = s.tab.archives /\ T.archive = s.tab.archive /\ T.format = s.tab.format
  BY <1>0 DEF Shaped, TabFields
<1> HIDE DEF T
<1>4. Shaped(t) /\ t.tab = T /\ t.hardware = s.hardware /\ t.sent = s.sent
      /\ t.downloaded = s.downloaded
  BY <1>0, <1>3, TabSet
<1> HIDE DEF t
<1>5. SessionGood(t)
  BY <1>0, <1>3, <1>4 DEF SessionGood
<1>6. ChannelsGood(t)
  BY <1>0, <1>3, <1>4 DEF ChannelsGood
<1>7. VerdictGood(t)
  BY <1>0, <1>2, <1>3, <1>4 DEF VerdictGood
<1>8. ArchiveGood(t) /\ Keeps(s, t)
  BY <1>0, <1>3, <1>4, KeepsLaws DEF SameArchive
<1> QED BY <1>1, <1>4, <1>5, <1>6, <1>7, <1>8 DEF AudioGood

\* A verdict, or the news that there is none yet, comes back.
LEMMA VerdictReturnsInv ==
  ASSUME AudioInv, VerdictReturns
  PROVE  AudioInv'
<1>0. ChannelsGood(Page)
  BY DEF AudioInv, AudioGood
<1>1. tab.pendingPoll # NoChunk
  BY <1>0, PageFields DEF ChannelsGood, VerdictReturns
<1>2. CASE tab.pendingPoll # tab.latestSigned
  <2>1. Turns(Polled)
    BY <1>2 DEF VerdictReturns
  <2> QED BY <2>1, PolledGood, TurnsInv
<1>3. CASE tab.pendingPoll = tab.latestSigned /\ sent.poll[1].reply = tab.pendingPoll
  <2> DEFINE t == PollJudged(Polled)
  <2>1. Turns(t)
    BY <1>3 DEF VerdictReturns, SameChunk
  <2>2. AudioGood(t) /\ Keeps(Polled, t)
    BY <1>1, <1>3, PolledGood, JudgedGood
  <2> HIDE DEF t
  <2>3. Keeps(Page, t)
    BY <2>2, PolledGood, KeepsLaws
  <2> QED BY <2>1, <2>2, <2>3, TurnsInv
<1>4. CASE tab.pendingPoll = tab.latestSigned /\ sent.poll[1].reply # tab.pendingPoll
  <2> DEFINE t == ResetAudioVerification(Polled)
  <2>1. Turns(t)
    BY <1>4 DEF VerdictReturns, SameChunk
  <2>2. AudioGood(t) /\ Keeps(Polled, t)
    BY PolledGood, ResetGood
  <2> HIDE DEF t
  <2>3. Keeps(Page, t)
    BY <2>2, PolledGood, KeepsLaws
  <2> QED BY <2>1, <2>2, <2>3, TurnsInv
<1> QED BY <1>2, <1>3, <1>4

\* The record button.
LEMMA ToggleRecordingInv ==
  ASSUME AudioInv, NEW downloads \in BOOLEAN, ToggleAudioRecording(downloads)
  PROVE  AudioInv'
<1>0. /\ Shaped(Page) /\ SessionGood(Page) /\ ChannelsGood(Page) /\ VerdictGood(Page)
      /\ ArchiveGood(Page)
  BY DEF AudioInv, AudioGood
<1>1. CASE tab.recording \/ tab.audioArchive # 0
  <2> DEFINE t == FinishAudioRecording(Page, downloads)
  <2>1. Turns(t)
    BY <1>1 DEF ToggleAudioRecording
  <2>2. AudioGood(t) /\ Keeps(Page, t)
    BY FinishGood DEF AudioInv
  <2> QED BY <2>1, <2>2, TurnsInv
<1>2. CASE ~ (tab.recording \/ tab.audioArchive # 0)
  <2> DEFINE n == tab.archives + 1
             T == [tab EXCEPT !.recording = TRUE, !.archives = n, !.audioArchive = n,
                              !.format = tab.sessionRate]
             t == [Page EXCEPT !.tab = T]
  <2>1. Turns(t)
    <3>1. [Page EXCEPT !.tab.recording = TRUE, !.tab.archives = @ + 1,
                       !.tab.audioArchive = tab.archives + 1, !.tab.format = tab.sessionRate] = t
      BY <1>0, PageFields DEF Shaped, TabFields
    <3> QED BY <1>2, <3>1 DEF ToggleAudioRecording
  <2>2. /\ DOMAIN T = TabFields /\ DOMAIN T.socket = Channels
        /\ T.sessions = tab.sessions /\ T.session = tab.session /\ T.starting = tab.starting
        /\ T.active = tab.active /\ T.rate = tab.rate /\ T.sessionRate = tab.sessionRate
        /\ T.socket = tab.socket /\ T.verdict = tab.verdict
        /\ T.pendingSign = tab.pendingSign /\ T.pendingPoll = tab.pendingPoll
        /\ T.fresh = tab.fresh /\ T.latestSigned = tab.latestSigned
        /\ T.counted = tab.counted /\ T.uncounted = tab.uncounted
        /\ T.audioArchive = n /\ T.archives = n /\ T.archive = tab.archive
    BY <1>0, PageFields DEF Shaped, TabFields
  <2>3. tab.archives \in Nat /\ tab.archive = {}
    BY <1>0, <1>2, PageFields DEF ArchiveGood
  <2>4. n \in Nat /\ n # 0
    BY <2>3
  <2> HIDE DEF n, T
  <2>5. Shaped(t) /\ t.tab = T /\ t.hardware = hardware /\ t.sent = sent /\ t.downloaded = {}
    BY <1>0, <2>2, PageFields DEF Shaped
  <2> HIDE DEF t
  <2>6. SessionGood(t)
    BY <1>0, <2>2, <2>5, PageFields DEF SessionGood
  <2>7. ChannelsGood(t)
    BY <1>0, <2>2, <2>5, PageFields DEF ChannelsGood
  <2>8. VerdictGood(t)
    BY <1>0, <2>2, <2>5, PageFields DEF VerdictGood
  <2>9. ArchiveGood(t)
    BY <1>0, <2>2, <2>3, <2>4, <2>5, PageFields DEF ArchiveGood
  <2>10. Keeps(Page, t)
    BY <2>2, <2>5, PageFields DEF Keeps
  <2>11. AudioGood(t)
    BY <2>5, <2>6, <2>7, <2>8, <2>9 DEF AudioGood
  <2> QED BY <2>1, <2>10, <2>11, TurnsInv
<1> QED BY <1>1, <1>2

\* What the browser and the server do changes no variable of the page.
LEMMA OthersInv ==
  ASSUME AudioInv, NEW s, AudioGood(s), tab' = s.tab, hardware' = s.hardware, sent' = s.sent,
         UNCHANGED forgotten
  PROVE  AudioInv'
<1>1. /\ DOMAIN Page' = DOMAIN s
      /\ Page'.tab = s.tab /\ Page'.hardware = s.hardware /\ Page'.sent = s.sent
  BY DEF Page, AudioGood, Shaped
<1>2. AudioGood(Page)'
  <2> DEFINE t == Page'
  <2> HIDE DEF t
  <2>1. AudioGood(t)
    BY <1>1, SameIsGood DEF t
  <2> QED BY <2>1 DEF t, AudioGood, Shaped, SessionGood, ChannelsGood, VerdictGood, ArchiveGood
<1> QED BY <1>2 DEF AudioInv

\* An audio context has closed.
LEMMA ContextClosesInv ==
  ASSUME AudioInv, NEW n, ContextCloses(n)
  PROVE  AudioInv'
<1> DEFINE H == [hardware EXCEPT !.closing = @ \ {n}]
           t == [Page EXCEPT !.hardware = H]
<1>0. /\ Shaped(Page) /\ SessionGood(Page) /\ ChannelsGood(Page) /\ VerdictGood(Page)
      /\ ArchiveGood(Page)
  BY DEF AudioInv, AudioGood
<1>1. /\ DOMAIN H = {"tracks", "contexts", "closing"}
      /\ H.tracks = hardware.tracks /\ H.contexts = hardware.contexts
      /\ H.closing = hardware.closing \ {n}
  BY <1>0, PageFields DEF Shaped
<1>2. hardware' = H /\ tab' = tab /\ sent' = sent /\ UNCHANGED forgotten
  BY DEF ContextCloses
<1> HIDE DEF H
<1>3. Shaped(t) /\ t.tab = tab /\ t.hardware = H /\ t.sent = sent
  BY <1>0, <1>1, PageFields DEF Shaped
<1> HIDE DEF t
<1>4. SessionGood(t)
  BY <1>0, <1>1, <1>3, PageFields DEF SessionGood
<1>5. ChannelsGood(t) /\ VerdictGood(t)
  BY <1>0, <1>3, PageFields DEF ChannelsGood, VerdictGood
<1>6. ArchiveGood(t)
  BY <1>0, <1>3, PageFields DEF ArchiveGood
<1>7. AudioGood(t)
  BY <1>3, <1>4, <1>5, <1>6 DEF AudioGood
<1> QED BY <1>2, <1>3, <1>7, OthersInv

\* The server answers what is on its way.
LEMMA SentInv ==
  ASSUME AudioInv, NEW U, DOMAIN U = {"chunks", "poll"},
         U.chunks = <<>> \/ U.chunks = <<U.chunks[1]>>, (U.chunks = <<>>) = (sent.chunks = <<>>),
         U.poll = <<>> \/ U.poll = <<U.poll[1]>>, U.poll # <<>> => sent.poll # <<>>,
         sent' = U, UNCHANGED <<tab, hardware, forgotten>>
  PROVE  AudioInv'
<1> DEFINE t == [Page EXCEPT !.sent = U]
<1>0. /\ Shaped(Page) /\ SessionGood(Page) /\ ChannelsGood(Page) /\ VerdictGood(Page)
      /\ ArchiveGood(Page)
  BY DEF AudioInv, AudioGood
<1>1. Shaped(t) /\ t.tab = tab /\ t.hardware = hardware /\ t.sent = U
  BY <1>0, PageFields DEF Shaped
<1> HIDE DEF t
<1>2. SessionGood(t)
  BY <1>0, <1>1, PageFields DEF SessionGood
<1>3. ChannelsGood(t)
  BY <1>0, <1>1, PageFields DEF ChannelsGood
<1>4. VerdictGood(t)
  BY <1>0, <1>1, PageFields DEF VerdictGood
<1>5. ArchiveGood(t)
  BY <1>0, <1>1, PageFields DEF ArchiveGood
<1>6. AudioGood(t)
  BY <1>1, <1>2, <1>3, <1>4, <1>5 DEF AudioGood
<1> QED BY <1>1, <1>6, OthersInv

\* The server signs a chunk.
LEMMA SignChunkInv ==
  ASSUME AudioInv, SignChunk
  PROVE  AudioInv'
<1>0. Shaped(Page) /\ ChannelsGood(Page)
  BY DEF AudioInv, AudioGood
<1> DEFINE artifact == [revision |-> cache.revision + 1, index |-> cache.index + 1]
<1>1. PICK i \in DOMAIN sent.chunks : sent' = [sent EXCEPT !.chunks[i] = artifact]
  BY DEF SignChunk
<1> HIDE DEF artifact
<1> DEFINE U == [sent EXCEPT !.chunks = [sent.chunks EXCEPT ![i] = artifact]]
<1>2. sent' = U /\ UNCHANGED <<tab, hardware, forgotten>>
  BY <1>1 DEF SignChunk
<1>3. PICK c : sent.chunks = <<c>>
  BY <1>0, <1>1, PageFields DEF ChannelsGood
<1>4. i = 1 /\ [sent.chunks EXCEPT ![i] = artifact] = <<artifact>>
  BY <1>1, <1>3
<1>5. /\ DOMAIN U = {"chunks", "poll"} /\ U.chunks = <<artifact>> /\ U.poll = sent.poll
  BY <1>0, <1>4, PageFields DEF Shaped
<1> HIDE DEF U
<1>6. U.poll = <<>> \/ U.poll = <<U.poll[1]>>
  BY <1>0, <1>5, PageFields DEF ChannelsGood
<1> QED BY <1>2, <1>3, <1>5, <1>6, SentInv

\* The server answers a poll.
LEMMA AnswerDecodeInv ==
  ASSUME AudioInv, AnswerDecode
  PROVE  AudioInv'
<1>0. Shaped(Page) /\ ChannelsGood(Page)
  BY DEF AudioInv, AudioGood
<1>1. PICK reply : sent' = [sent EXCEPT !.poll = <<[reply |-> reply, back |-> TRUE]>>]
  BY DEF AnswerDecode
<1> DEFINE q == [reply |-> reply, back |-> TRUE]
           U == [sent EXCEPT !.poll = <<q>>]
<1>2. sent' = U /\ UNCHANGED <<tab, hardware, forgotten>> /\ sent.poll # <<>>
  BY <1>1 DEF AnswerDecode
<1> HIDE DEF q
<1>3. DOMAIN U = {"chunks", "poll"} /\ U.chunks = sent.chunks /\ U.poll = <<q>>
  BY <1>0, PageFields DEF Shaped
<1> HIDE DEF U
<1>4. U.chunks = <<>> \/ U.chunks = <<U.chunks[1]>>
  BY <1>0, <1>3, PageFields DEF ChannelsGood
<1> QED BY <1>2, <1>3, <1>4, SentInv

\* The tab starts in the invariant.
LEMMA AudioInitInv == AudioInit => AudioInv
<1> SUFFICES ASSUME AudioInit PROVE AudioInv
  OBVIOUS
<1>1. Shaped(Page)
  BY DEF AudioInit, Page, Shaped, TabFields
<1>2. SessionGood(Page)
  <2>1. tab.rate \in SampleRates
    BY AudioAssumption DEF AudioInit
  <2> QED BY <2>1 DEF AudioInit, Page, SessionGood
<1>3. ChannelsGood(Page)
  BY DEF AudioInit, Page, ChannelsGood, Channels
<1>4. VerdictGood(Page)
  BY DEF AudioInit, Page, VerdictGood
<1>5. ArchiveGood(Page)
  <2>1. /\ tab.archive = {} /\ tab.archives = 0 /\ tab.recording = FALSE
    BY DEF AudioInit
  <2> QED BY <2>1, FS_EmptySet, AudioAssumption, PageFields DEF ArchiveGood
<1> QED BY <1>1, <1>2, <1>3, <1>4, <1>5 DEF AudioGood, AudioInv, AudioInit

\* And no step of the tab, the browser or the server leaves it.
LEMMA AudioStepInv == AudioInv /\ [AudioNext]_audioVars => AudioInv'
<1> SUFFICES ASSUME AudioInv, [AudioNext]_audioVars PROVE AudioInv'
  OBVIOUS
<1>1. ASSUME NEW downloads \in BOOLEAN, StartMicrophone(downloads) PROVE AudioInv'
  BY <1>1, StartMicrophoneInv
<1>2. ASSUME NEW downloads \in BOOLEAN, PressStopMicrophone(downloads) \/ TrackEnds(downloads)
      PROVE AudioInv'
  BY <1>2, StopInv DEF PressStopMicrophone, TrackEnds
<1>3. ASSUME NEW downloads \in BOOLEAN, ToggleAudioRecording(downloads) PROVE AudioInv'
  BY <1>3, ToggleRecordingInv
<1>4. ASSUME NEW downloads \in BOOLEAN,
             ChunkReturns(downloads) \/ ChunkRejected(downloads) \/ ChunkGarbled(downloads)
      PROVE AudioInv'
  BY <1>4, ChunkReturnsInv, ChunkRejectedInv, ChunkGarbledInv
<1>5. ASSUME NEW downloads \in BOOLEAN, NEW rate \in SampleRates, ChangeRate(rate, downloads)
      PROVE AudioInv'
  BY <1>5, ChangeRateInv
<1>6. ASSUME NEW downloads \in BOOLEAN, NEW x \in tab.starting, MicrophoneFails(x, downloads)
      PROVE AudioInv'
  BY <1>6, MicrophoneFailsInv
<1>7. ASSUME NEW n \in hardware.closing, ContextCloses(n) PROVE AudioInv'
  BY <1>7, ContextClosesInv
<1>8. ASSUME NEW x \in tab.starting, OpenContext(x) \/ Resumed(x) \/ MicrophoneGranted(x)
      PROVE AudioInv'
  BY <1>8, OpenContextInv, ResumedInv, MicrophoneGrantedInv
<1>9. ASSUME NEW name \in Channels,
             AudioChannelOpens(name) \/ AudioChannelFails(name) \/ AudioChannelReconnects(name)
      PROVE AudioInv'
  BY <1>9, AudioChannelOpensInv, ChannelFailsInv, ChannelReconnectsInv
<1>10. CASE HandleAudioProcess \/ SendAudioChunk \/ ChunkRefused
  BY <1>10, AudioProcessInv, SendChunkInv, ChunkRefusedInv
<1>11. CASE PollDue \/ VerdictReturns
  BY <1>11, PollDueInv, VerdictReturnsInv
<1>12. CASE SignChunk \/ AnswerDecode
  BY <1>12, SignChunkInv, AnswerDecodeInv
<1>13. CASE (\E index \in 1..2 : OtherPage(index)) \/ UNCHANGED audioVars
  <2>1. tab' = Page.tab /\ hardware' = Page.hardware /\ sent' = Page.sent /\ UNCHANGED forgotten
    BY <1>13, PageFields DEF OtherPage, audioVars
  <2> QED BY <2>1, OthersInv DEF AudioInv
<1> QED
  BY <1>1, <1>2, <1>3, <1>4, <1>5, <1>6, <1>7, <1>8, <1>9, <1>10, <1>11, <1>12, <1>13
  DEF AudioNext

\* Whatever the user, the browser and the server do, and in whatever order, the audio tab
\* stays in its invariant.
THEOREM AudioCorrect == AudioSpec => []AudioInv
BY AudioInitInv, AudioStepInv, PTL DEF AudioSpec

\* The properties of the audio tab are consequences of it.
LEMMA AudioInvMeans ==
  AudioInv => /\ MicrophoneOwnsAll /\ ChannelsComeBack
              /\ RepliesAreOfRequest /\ ChunkVerdictIsOfLatest /\ ChunksAreKept
<1> SUFFICES ASSUME AudioInv
             PROVE  /\ MicrophoneOwnsAll /\ ChannelsComeBack
                    /\ RepliesAreOfRequest /\ ChunkVerdictIsOfLatest /\ ChunksAreKept
  OBVIOUS
<1>0. /\ SessionGood(Page) /\ ChannelsGood(Page) /\ VerdictGood(Page)
      /\ ArchiveGood(Page)
  BY DEF AudioInv, AudioGood
<1>1. MicrophoneOwnsAll
  <2> DEFINE open == hardware.contexts \cup hardware.closing
  <2>1. Cardinality(open) <= 1
    <3>1. \A m, n \in open : m = n
      BY <1>0, PageFields DEF SessionGood
    <3> HIDE DEF open
    <3>2. CASE open = {}
      BY <3>2, FS_EmptySet
    <3>3. CASE open # {}
      <4>1. PICK n : open = {n}
        BY <3>1, <3>3
      <4> QED BY <4>1, FS_Singleton
    <3> QED BY <3>2, <3>3
  <2>2. /\ hardware.tracks \subseteq {tab.session} /\ hardware.contexts \subseteq {tab.session}
        /\ tab.active => hardware.tracks = {tab.session}
    BY <1>0, PageFields DEF SessionGood
  <2>3. ~ tab.active => \A name \in Channels : tab.socket[name] = "none"
    BY <1>0, PageFields DEF ChannelsGood, Channels
  <2> QED BY <2>1, <2>2, <2>3 DEF MicrophoneOwnsAll
<1>2. ChannelsComeBack
  BY <1>0, PageFields DEF ChannelsGood, ChannelsComeBack, Channels
<1>3. RepliesAreOfRequest
  <2>1. Len(sent.chunks) <= 1
    <3>1. CASE sent.chunks = <<>>
      BY <3>1
    <3>2. CASE sent.chunks # <<>>
      <4>1. PICK c : sent.chunks = <<c>>
        BY <1>0, <3>2, PageFields DEF ChannelsGood
      <4> QED BY <4>1
    <3> QED BY <3>1, <3>2
  <2>2. tab.pendingSign # NoRequest => sent.chunks # <<>>
    BY <1>0, PageFields DEF ChannelsGood
  <2> QED BY <2>1, <2>2 DEF RepliesAreOfRequest
<1>4. ChunkVerdictIsOfLatest
  BY <1>0, PageFields DEF VerdictGood, ChunkVerdictIsOfLatest
<1>5. ChunksAreKept
  BY <1>0, PageFields DEF ArchiveGood, ChunksAreKept, AudioInv
<1> QED BY <1>1, <1>2, <1>3, <1>4, <1>5

(***************************************************************************)
(* The video tab: its camera, its transport, the request, the verdict and  *)
(* the archive of snapshots.                                               *)
(***************************************************************************)
PageNames ==
  {"cameraGeneration", "active", "stream", "starting", "transportGeneration", "transport",
   "fallback", "preference", "sockets", "lost", "attempts", "pc", "channel", "polling",
   "signing", "decoding", "shown", "verdict", "recording", "archiving", "archive"}

VideoShaped(s) ==
  /\ DOMAIN s = {"page", "devices", "inFlight", "downloaded"}
  /\ DOMAIN s.page = PageNames /\ DOMAIN s.page.sockets = Kinds
  /\ DOMAIN s.devices = {"tracks", "peers"}
  /\ DOMAIN s.inFlight = {"frames", "told"}

Cameras == [generation : Nat \ {0}, at : {"asking", "playing"}]
Attempts == [generation : Nat \ {0}, at : {"config", "gathering", "offering", "opening"}]
Artifacts == [revision : Nat, index : Nat]

CameraGood(s) ==
  /\ s.page.cameraGeneration \in Nat /\ s.page.active \in BOOLEAN
  /\ s.page.starting \subseteq Cameras
  /\ \A x \in s.page.starting :
       /\ x.generation <= s.page.cameraGeneration
       /\ x.generation = s.page.cameraGeneration =>
            ~ s.page.active /\ (x.at = "asking" => s.devices.tracks = {})
  /\ \A x, y \in s.page.starting : x.generation = y.generation => x = y
  /\ s.devices.tracks \subseteq {s.page.stream}

SocketsNone(s) == \A k \in Kinds : s.page.sockets[k] = NoSocket
NoAttempt(s) == \A a \in s.page.attempts : a.generation # s.page.transportGeneration
PeerNone(s) == s.page.pc = 0 /\ s.page.channel = "none" /\ s.page.polling = FALSE

CameraOff(s) ==
  /\ s.page.active = FALSE /\ s.page.transport = "none" /\ s.page.signing = "idle"
  /\ SocketsNone(s) /\ PeerNone(s) /\ NoAttempt(s)

OverSockets(s) ==
  /\ s.page.active = TRUE /\ s.page.transport = "websocket"
  /\ \A k \in Kinds : Usable(s.page.sockets[k])
  /\ PeerNone(s) /\ NoAttempt(s)

Connecting(s) ==
  /\ s.page.active = TRUE /\ s.page.transport = "none"
  /\ SocketsNone(s) /\ s.page.polling = FALSE /\ s.page.channel # "open"
  /\ s.page.preference \in {"auto", "webrtc"}
  /\ \E a \in s.page.attempts : a.generation = s.page.transportGeneration
  /\ \A a \in s.page.attempts :
       a.generation = s.page.transportGeneration /\ a.at = "config" => s.page.pc = 0

OverChannel(s) ==
  /\ s.page.active = TRUE /\ s.page.transport = "webrtc"
  /\ SocketsNone(s) /\ s.page.polling = TRUE /\ s.page.channel = "open"
  /\ s.page.preference \in {"auto", "webrtc"}
  /\ NoAttempt(s)

Down(s) ==
  /\ s.page.active = TRUE /\ s.page.transport = "none"
  /\ SocketsNone(s) /\ PeerNone(s) /\ NoAttempt(s)
  /\ s.page.preference = "webrtc"

AttemptsGood(s) ==
  /\ s.page.transportGeneration \in Nat
  /\ s.page.starting # {} => s.page.transportGeneration # 0
  /\ s.page.preference \in Preferences
  /\ s.page.attempts \subseteq Attempts
  /\ \A a \in s.page.attempts : a.generation <= s.page.transportGeneration
  /\ \A a, b \in s.page.attempts : a.generation = b.generation => a = b
  /\ s.devices.peers \subseteq {s.page.pc} \ {0}
  /\ s.page.lost = FALSE

PhaseGood(s) == CameraOff(s) \/ OverSockets(s) \/ Connecting(s) \/ OverChannel(s) \/ Down(s)

ShownGood(s) ==
  /\ s.inFlight.frames \in Seq(Artifacts) /\ s.inFlight.told \in Artifacts
  /\ s.page.decoding \subseteq Artifacts /\ s.page.shown \in Artifacts
  /\ s.page.verdict # NoArtifact => s.page.verdict = s.page.shown

HeldGood(s) ==
  /\ IsFiniteSet(s.page.archive) /\ Cardinality(s.page.archive) <= ARCHIVE_MAX_ENTRIES
  /\ s.page.recording => s.page.archiving
  /\ s.page.archive # {} => s.page.archiving

VideoGood(s) ==
  VideoShaped(s) /\ CameraGood(s) /\ AttemptsGood(s) /\ PhaseGood(s) /\ ShownGood(s) /\ HeldGood(s)

VideoInv ==
  /\ VideoGood(State) /\ dropped = FALSE
  /\ server.revision \in Nat /\ server.index \in Nat /\ server.newest \in Artifacts

SameCamera(s, t) ==
  /\ t.page.cameraGeneration = s.page.cameraGeneration /\ t.page.active = s.page.active
  /\ t.page.stream = s.page.stream /\ t.page.starting = s.page.starting
  /\ t.devices.tracks = s.devices.tracks
SameTransport(s, t) ==
  /\ t.page.transportGeneration = s.page.transportGeneration
  /\ t.page.transport = s.page.transport /\ t.page.fallback = s.page.fallback
  /\ t.page.preference = s.page.preference /\ t.page.sockets = s.page.sockets
  /\ t.page.lost = s.page.lost /\ t.page.attempts = s.page.attempts
  /\ t.page.pc = s.page.pc /\ t.page.channel = s.page.channel
  /\ t.page.polling = s.page.polling /\ t.devices.peers = s.devices.peers
SameInFlight(s, t) ==
  /\ t.inFlight.frames = s.inFlight.frames /\ t.inFlight.told = s.inFlight.told
SameHeld(s, t) ==
  /\ t.page.recording = s.page.recording /\ t.page.archiving = s.page.archiving
  /\ t.page.archive = s.page.archive /\ t.downloaded = s.downloaded

VideoKeeps(s, t) ==
  s.page.archive \cup s.downloaded \subseteq t.page.archive \cup t.downloaded

\* Keeping what was recorded is a preorder.
LEMMA VideoKeepsLaws ==
  /\ \A s : VideoKeeps(s, s)
  /\ \A s, t, u : VideoKeeps(s, t) /\ VideoKeeps(t, u) => VideoKeeps(s, u)
  /\ \A s, t : SameHeld(s, t) => VideoKeeps(s, t) /\ (HeldGood(s) => HeldGood(t))
BY DEF VideoKeeps, SameHeld, HeldGood

\* Each part of the invariant reads only its own fields.
LEMMA VideoPartsKept ==
  ASSUME NEW s, NEW t
  PROVE  /\ SameCamera(s, t) /\ CameraGood(s) => CameraGood(t)
         /\ SameCamera(s, t) /\ SameTransport(s, t) /\ AttemptsGood(s) => AttemptsGood(t)
         /\ /\ SameCamera(s, t) /\ SameTransport(s, t) /\ PhaseGood(s)
            /\ t.page.signing \in {"idle", s.page.signing}
            => PhaseGood(t)
         /\ /\ SameInFlight(s, t) /\ ShownGood(s)
            /\ t.page.decoding = s.page.decoding /\ t.page.shown = s.page.shown
            /\ t.page.verdict \in {NoArtifact, s.page.verdict}
            => ShownGood(t)
<1>1. SameCamera(s, t) /\ CameraGood(s) => CameraGood(t)
  BY DEF SameCamera, CameraGood
<1>2. SameCamera(s, t) /\ SameTransport(s, t) /\ AttemptsGood(s) => AttemptsGood(t)
  BY DEF SameCamera, SameTransport, AttemptsGood
<1>3. ASSUME SameCamera(s, t), SameTransport(s, t), PhaseGood(s),
             t.page.signing \in {"idle", s.page.signing}
      PROVE  PhaseGood(t)
  <2>1. CASE CameraOff(s)
    BY <1>3, <2>1 DEF SameCamera, SameTransport, PhaseGood, CameraOff, SocketsNone, PeerNone, NoAttempt
  <2>2. CASE OverSockets(s)
    BY <1>3, <2>2 DEF SameCamera, SameTransport, PhaseGood, OverSockets, PeerNone, NoAttempt
  <2>3. CASE Connecting(s)
    BY <1>3, <2>3 DEF SameCamera, SameTransport, PhaseGood, Connecting, SocketsNone
  <2>4. CASE OverChannel(s)
    BY <1>3, <2>4 DEF SameCamera, SameTransport, PhaseGood, OverChannel, SocketsNone, NoAttempt
  <2>5. CASE Down(s)
    BY <1>3, <2>5 DEF SameCamera, SameTransport, PhaseGood, Down, SocketsNone, PeerNone, NoAttempt
  <2> QED BY <1>3, <2>1, <2>2, <2>3, <2>4, <2>5 DEF PhaseGood
<1>4. /\ SameInFlight(s, t) /\ ShownGood(s)
      /\ t.page.decoding = s.page.decoding /\ t.page.shown = s.page.shown
      /\ t.page.verdict \in {NoArtifact, s.page.verdict}
      => ShownGood(t)
  BY DEF SameInFlight, ShownGood
<1> QED BY <1>1, <1>2, <1>3, <1>4

\* Replacing the variables of the page keeps the shape of the state.
LEMMA PageSet ==
  ASSUME NEW s, VideoShaped(s), NEW T, DOMAIN T = PageNames, DOMAIN T.sockets = Kinds
  PROVE  LET t == [s EXCEPT !.page = T] IN
         /\ VideoShaped(t) /\ t.page = T /\ t.devices = s.devices /\ t.inFlight = s.inFlight
         /\ t.downloaded = s.downloaded
BY DEF VideoShaped

\* clearVideoVerification changes the verdict on display and nothing else.
LEMMA ClearVerdictFields ==
  ASSUME NEW s, VideoShaped(s)
  PROVE  LET t == ClearVideoVerification(s) IN
         /\ VideoShaped(t) /\ t.page.verdict = NoArtifact
         /\ SameCamera(s, t) /\ SameTransport(s, t) /\ SameInFlight(s, t) /\ SameHeld(s, t)
         /\ t.page.signing = s.page.signing /\ t.page.decoding = s.page.decoding
         /\ t.page.shown = s.page.shown
BY DEF ClearVideoVerification, VideoShaped, PageNames, SameCamera, SameTransport, SameInFlight, SameHeld

\* clearSigningRequest drops the request and what is being decoded for it.
LEMMA ClearSigningFields ==
  ASSUME NEW s, VideoShaped(s)
  PROVE  LET t == ClearSigningRequest(s) IN
         /\ VideoShaped(t) /\ t.page.signing = "idle" /\ t.page.decoding = {}
         /\ SameCamera(s, t) /\ SameTransport(s, t) /\ SameInFlight(s, t) /\ SameHeld(s, t)
         /\ t.page.verdict = s.page.verdict /\ t.page.shown = s.page.shown
BY DEF ClearSigningRequest, VideoShaped, PageNames, SameCamera, SameTransport, SameInFlight, SameHeld

\* teardownWebRtcTransport closes the peer and with it what is on its way.
LEMMA TeardownFields ==
  ASSUME NEW s, VideoShaped(s)
  PROVE  LET t == TeardownWebRtcTransport(s) IN
         /\ VideoShaped(t) /\ SameCamera(s, t) /\ SameHeld(s, t)
         /\ t.page.transportGeneration = s.page.transportGeneration
         /\ t.page.transport = s.page.transport /\ t.page.fallback = s.page.fallback
         /\ t.page.preference = s.page.preference /\ t.page.sockets = s.page.sockets
         /\ t.page.lost = s.page.lost /\ t.page.attempts = s.page.attempts
         /\ PeerNone(t) /\ t.devices.peers = s.devices.peers \ {s.page.pc}
         /\ t.page.signing = s.page.signing /\ t.page.decoding = s.page.decoding
         /\ t.page.shown = s.page.shown /\ t.page.verdict = s.page.verdict
         /\ \/ SameInFlight(s, t)
            \/ t.inFlight.frames = <<>> /\ t.inFlight.told = NoArtifact
<1> DEFINE T == [s.page EXCEPT !.polling = FALSE, !.pc = 0, !.channel = "none"]
           D == [s.devices EXCEPT !.peers = @ \ {s.page.pc}]
           F == IF s.page.channel = "none" THEN s.inFlight ELSE [frames |-> <<>>, told |-> NoArtifact]
           t == [s EXCEPT !.page = T, !.devices = D, !.inFlight = F]
<1>1. TeardownWebRtcTransport(s) = t
  BY DEF TeardownWebRtcTransport, VideoShaped, PageNames
<1>2. /\ DOMAIN T = PageNames /\ DOMAIN T.sockets = Kinds
      /\ T.cameraGeneration = s.page.cameraGeneration /\ T.active = s.page.active
      /\ T.stream = s.page.stream /\ T.starting = s.page.starting
      /\ T.transportGeneration = s.page.transportGeneration
      /\ T.transport = s.page.transport /\ T.fallback = s.page.fallback
      /\ T.preference = s.page.preference /\ T.sockets = s.page.sockets
      /\ T.lost = s.page.lost /\ T.attempts = s.page.attempts
      /\ T.pc = 0 /\ T.channel = "none" /\ T.polling = FALSE
      /\ T.signing = s.page.signing /\ T.decoding = s.page.decoding
      /\ T.shown = s.page.shown /\ T.verdict = s.page.verdict
      /\ T.recording = s.page.recording /\ T.archiving = s.page.archiving
      /\ T.archive = s.page.archive
  BY DEF VideoShaped, PageNames
<1>3. /\ DOMAIN D = {"tracks", "peers"} /\ D.tracks = s.devices.tracks
      /\ D.peers = s.devices.peers \ {s.page.pc}
  BY DEF VideoShaped
<1>4. /\ DOMAIN F = {"frames", "told"}
      /\ F = s.inFlight \/ (F.frames = <<>> /\ F.told = NoArtifact)
  BY DEF VideoShaped
<1> HIDE DEF T, D, F
<1>5. VideoShaped(t) /\ t.page = T /\ t.devices = D /\ t.inFlight = F /\ t.downloaded = s.downloaded
  BY <1>2, <1>3, <1>4 DEF VideoShaped
<1> HIDE DEF t
<1> QED BY <1>1, <1>2, <1>3, <1>4, <1>5 DEF SameCamera, SameHeld, SameInFlight, PeerNone

\* stopTransport closes both kinds of transport and starts a generation.
LEMMA StopTransportFields ==
  ASSUME NEW s, VideoShaped(s)
  PROVE  LET t == StopTransport(s) IN
         /\ VideoShaped(t) /\ SameCamera(s, t) /\ SameHeld(s, t)
         /\ t.page.transportGeneration = s.page.transportGeneration + 1
         /\ t.page.transport = "none" /\ t.page.fallback = s.page.fallback
         /\ t.page.preference = s.page.preference /\ SocketsNone(t)
         /\ t.page.lost = s.page.lost /\ t.page.attempts = s.page.attempts
         /\ PeerNone(t) /\ t.devices.peers = s.devices.peers \ {s.page.pc}
         /\ t.page.signing = "idle" /\ t.page.decoding = {}
         /\ t.page.shown = s.page.shown /\ t.page.verdict = NoArtifact
         /\ t.inFlight.frames = <<>> /\ t.inFlight.told = NoArtifact
<1> DEFINE K == [k \in Kinds |-> NoSocket]
           A == [s.page EXCEPT !.transportGeneration = @ + 1, !.sockets = K]
           F == [frames |-> <<>>, told |-> NoArtifact]
           a == [s EXCEPT !.page = A, !.inFlight = F]
           b == TeardownWebRtcTransport(a)
           c == [b EXCEPT !.page.transport = "none"]
           d == ClearSigningRequest(c)
           t == ClearVideoVerification(d)
<1>1. StopTransport(s) = t
  <2>1. [s EXCEPT !.page.transportGeneration = @ + 1,
                  !.page.sockets = [k \in Kinds |-> NoSocket],
                  !.inFlight = [frames |-> <<>>, told |-> NoArtifact]] = a
    BY DEF VideoShaped, PageNames
  <2> QED BY <2>1 DEF StopTransport
<1>2. DOMAIN K = Kinds /\ \A k \in Kinds : K[k] = NoSocket
  OBVIOUS
<1> HIDE DEF K
<1>3. /\ DOMAIN A = PageNames /\ A.sockets = K
      /\ A.cameraGeneration = s.page.cameraGeneration /\ A.active = s.page.active
      /\ A.stream = s.page.stream /\ A.starting = s.page.starting
      /\ A.transportGeneration = s.page.transportGeneration + 1
      /\ A.transport = s.page.transport /\ A.fallback = s.page.fallback
      /\ A.preference = s.page.preference
      /\ A.lost = s.page.lost /\ A.attempts = s.page.attempts
      /\ A.pc = s.page.pc /\ A.channel = s.page.channel /\ A.polling = s.page.polling
      /\ A.signing = s.page.signing /\ A.decoding = s.page.decoding
      /\ A.shown = s.page.shown /\ A.verdict = s.page.verdict
      /\ A.recording = s.page.recording /\ A.archiving = s.page.archiving
      /\ A.archive = s.page.archive
  BY DEF VideoShaped, PageNames
<1>4. DOMAIN F = {"frames", "told"} /\ F.frames = <<>> /\ F.told = NoArtifact
  OBVIOUS
<1> HIDE DEF A, F
<1>5. VideoShaped(a) /\ a.page = A /\ a.devices = s.devices /\ a.inFlight = F
      /\ a.downloaded = s.downloaded
  BY <1>2, <1>3, <1>4 DEF VideoShaped
<1> HIDE DEF a
<1>6. /\ VideoShaped(b) /\ SameCamera(a, b) /\ SameHeld(a, b)
      /\ b.page.transportGeneration = a.page.transportGeneration
      /\ b.page.transport = a.page.transport /\ b.page.fallback = a.page.fallback
      /\ b.page.preference = a.page.preference /\ b.page.sockets = a.page.sockets
      /\ b.page.lost = a.page.lost /\ b.page.attempts = a.page.attempts
      /\ PeerNone(b) /\ b.devices.peers = a.devices.peers \ {a.page.pc}
      /\ b.page.signing = a.page.signing /\ b.page.decoding = a.page.decoding
      /\ b.page.shown = a.page.shown /\ b.page.verdict = a.page.verdict
      /\ \/ SameInFlight(a, b)
         \/ b.inFlight.frames = <<>> /\ b.inFlight.told = NoArtifact
  BY <1>5, TeardownFields
<1> HIDE DEF b
<1>7. b.inFlight.frames = <<>> /\ b.inFlight.told = NoArtifact
  BY <1>4, <1>5, <1>6 DEF SameInFlight
<1>8. /\ VideoShaped(c) /\ SameCamera(b, c) /\ SameHeld(b, c) /\ SameInFlight(b, c)
      /\ c.page.transportGeneration = b.page.transportGeneration
      /\ c.page.transport = "none" /\ c.page.fallback = b.page.fallback
      /\ c.page.preference = b.page.preference /\ c.page.sockets = b.page.sockets
      /\ c.page.lost = b.page.lost /\ c.page.attempts = b.page.attempts
      /\ PeerNone(c) /\ c.devices.peers = b.devices.peers
      /\ c.page.shown = b.page.shown
  BY <1>6 DEF VideoShaped, PageNames, SameCamera, SameHeld, SameInFlight, PeerNone
<1> HIDE DEF c
<1>9. /\ VideoShaped(d) /\ d.page.signing = "idle" /\ d.page.decoding = {}
      /\ SameCamera(c, d) /\ SameTransport(c, d) /\ SameInFlight(c, d) /\ SameHeld(c, d)
      /\ d.page.shown = c.page.shown
  BY <1>8, ClearSigningFields
<1> HIDE DEF d
<1>10. /\ VideoShaped(t) /\ t.page.verdict = NoArtifact
       /\ SameCamera(d, t) /\ SameTransport(d, t) /\ SameInFlight(d, t) /\ SameHeld(d, t)
       /\ t.page.signing = d.page.signing /\ t.page.decoding = d.page.decoding
       /\ t.page.shown = d.page.shown
  BY <1>9, ClearVerdictFields
<1> HIDE DEF t
<1>11. SameCamera(s, t) /\ SameHeld(s, t)
  <2>1. SameCamera(s, a) /\ SameHeld(s, a)
    BY <1>3, <1>5 DEF SameCamera, SameHeld
  <2> QED BY <2>1, <1>6, <1>8, <1>9, <1>10 DEF SameCamera, SameHeld
<1>12. /\ t.page.transportGeneration = s.page.transportGeneration + 1
       /\ t.page.transport = "none" /\ t.page.fallback = s.page.fallback
       /\ t.page.preference = s.page.preference /\ t.page.sockets = K
       /\ t.page.lost = s.page.lost /\ t.page.attempts = s.page.attempts
       /\ PeerNone(t) /\ t.devices.peers = s.devices.peers \ {s.page.pc}
  BY <1>3, <1>5, <1>6, <1>8, <1>9, <1>10 DEF SameTransport, PeerNone
<1>13. /\ t.page.shown = s.page.shown
       /\ t.inFlight.frames = <<>> /\ t.inFlight.told = NoArtifact
  BY <1>3, <1>5, <1>6, <1>7, <1>8, <1>9, <1>10 DEF SameInFlight
<1> QED BY <1>1, <1>2, <1>9, <1>10, <1>11, <1>12, <1>13 DEF SocketsNone

\* The end of a recording downloads the archive or keeps it.
LEMMA EndRecordingKeeps ==
  ASSUME NEW s, VideoShaped(s), HeldGood(s), s.downloaded = {}, NEW downloads \in BOOLEAN
  PROVE  LET t == EndRecording(s, downloads) IN
         /\ VideoShaped(t) /\ HeldGood(t) /\ VideoKeeps(s, t)
         /\ SameCamera(s, t) /\ SameTransport(s, t) /\ SameInFlight(s, t)
         /\ t.page.signing = s.page.signing /\ t.page.decoding = s.page.decoding
         /\ t.page.shown = s.page.shown /\ t.page.verdict = s.page.verdict
<1> DEFINE t == EndRecording(s, downloads)
<1>1. /\ VideoShaped(t) /\ SameCamera(s, t) /\ SameTransport(s, t) /\ SameInFlight(s, t)
      /\ t.page.signing = s.page.signing /\ t.page.decoding = s.page.decoding
      /\ t.page.shown = s.page.shown /\ t.page.verdict = s.page.verdict
      /\ t.page.recording = FALSE
  BY DEF EndRecording, VideoShaped, PageNames, SameCamera, SameTransport, SameInFlight
<1>2. CASE downloads
  <2>1. t.page.archive = {} /\ t.downloaded = s.page.archive
    BY <1>2 DEF EndRecording, VideoShaped, PageNames
  <2> HIDE DEF t
  <2>2. VideoKeeps(s, t)
    BY <2>1 DEF VideoKeeps
  <2>3. HeldGood(t)
    BY <1>1, <2>1, FS_EmptySet, VideoAssumption DEF HeldGood
  <2> QED BY <1>1, <2>2, <2>3 DEF t
<1>3. CASE ~ downloads
  <2>1. /\ t.page.archive = s.page.archive /\ t.downloaded = {}
        /\ s.page.archive # {} => t.page.archiving
    BY <1>3 DEF EndRecording, VideoShaped, PageNames
  <2> HIDE DEF t
  <2>2. VideoKeeps(s, t)
    BY <2>1 DEF VideoKeeps
  <2>3. HeldGood(t)
    BY <1>1, <2>1 DEF HeldGood
  <2> QED BY <1>1, <2>2, <2>3 DEF t
<1> QED BY <1>2, <1>3

Quiet(s) ==
  /\ s.page.transport = "none" /\ s.page.signing = "idle"
  /\ SocketsNone(s) /\ PeerNone(s) /\ NoAttempt(s)

\* After stopTransport nothing is connected, asked for or on its way.
LEMMA StopTransportGood ==
  ASSUME NEW s, VideoShaped(s), CameraGood(s), AttemptsGood(s), ShownGood(s), HeldGood(s)
  PROVE  LET t == StopTransport(s) IN
         /\ VideoShaped(t) /\ CameraGood(t) /\ AttemptsGood(t) /\ ShownGood(t) /\ HeldGood(t)
         /\ VideoKeeps(s, t) /\ SameCamera(s, t) /\ t.downloaded = s.downloaded
         /\ Quiet(t) /\ t.page.transportGeneration # 0 /\ t.page.verdict = NoArtifact
         /\ t.page.recording = s.page.recording
<1> DEFINE t == StopTransport(s)
<1>1. /\ VideoShaped(t) /\ SameCamera(s, t) /\ SameHeld(s, t)
      /\ t.page.transportGeneration = s.page.transportGeneration + 1
      /\ t.page.transport = "none" /\ t.page.fallback = s.page.fallback
      /\ t.page.preference = s.page.preference /\ SocketsNone(t)
      /\ t.page.lost = s.page.lost /\ t.page.attempts = s.page.attempts
      /\ PeerNone(t) /\ t.devices.peers = s.devices.peers \ {s.page.pc}
      /\ t.page.signing = "idle" /\ t.page.decoding = {}
      /\ t.page.shown = s.page.shown /\ t.page.verdict = NoArtifact
      /\ t.inFlight.frames = <<>> /\ t.inFlight.told = NoArtifact
  BY StopTransportFields
<1> HIDE DEF t
<1>2. CameraGood(t)
  BY <1>1, VideoPartsKept
<1>3. /\ t.page.transportGeneration \in Nat \ {0} /\ NoAttempt(t)
      /\ \A a \in t.page.attempts : a.generation <= t.page.transportGeneration
  BY <1>1 DEF AttemptsGood, Attempts, NoAttempt
<1>4. t.devices.peers = {}
  BY <1>1 DEF AttemptsGood
<1>5. AttemptsGood(t)
  BY <1>1, <1>3, <1>4 DEF AttemptsGood, SameCamera
<1>6. ShownGood(t)
  <2>1. t.inFlight.frames \in Seq(Artifacts)
    BY <1>1
  <2>2. t.inFlight.told \in Artifacts
    BY <1>1 DEF NoArtifact, Artifacts
  <2> QED BY <1>1, <2>1, <2>2 DEF ShownGood
<1>7. HeldGood(t) /\ VideoKeeps(s, t)
  BY <1>1, VideoKeepsLaws
<1> QED BY <1>1, <1>2, <1>3, <1>5, <1>6, <1>7 DEF Quiet, SameHeld, t

\* stopCamera ends in a state of the invariant in which nothing runs.
LEMMA StopCameraGood ==
  ASSUME NEW s, VideoGood(s), s.downloaded = {}, NEW downloads \in BOOLEAN
  PROVE  LET t == StopCamera(s, downloads) IN
         /\ VideoGood(t) /\ VideoKeeps(s, t)
         /\ t.page.active = FALSE /\ t.devices.tracks = {} /\ t.page.transportGeneration # 0
         /\ t.page.cameraGeneration # 0
         /\ \A x \in t.page.starting : x.generation < t.page.cameraGeneration
<1> DEFINE A == [s.page EXCEPT !.cameraGeneration = @ + 1, !.active = FALSE, !.stream = 0]
           D == [s.devices EXCEPT !.tracks = @ \ {s.page.stream}]
           off == [s EXCEPT !.page = A, !.devices = D]
           b == StopTransport(off)
           c == [b EXCEPT !.page.shown = NoArtifact]
           e == EndRecording(c, downloads)
           t == StopCamera(s, downloads)
<1>0. /\ VideoShaped(s) /\ CameraGood(s) /\ AttemptsGood(s) /\ ShownGood(s) /\ HeldGood(s)
  BY DEF VideoGood
<1>1. t = IF s.page.recording THEN e ELSE c
  <2>1. [s EXCEPT !.page.cameraGeneration = @ + 1, !.page.active = FALSE, !.page.stream = 0,
                  !.devices.tracks = @ \ {s.page.stream}] = off
    BY <1>0 DEF VideoShaped, PageNames
  <2> QED BY <2>1 DEF StopCamera
<1>2. /\ DOMAIN A = PageNames /\ DOMAIN A.sockets = Kinds
      /\ A.cameraGeneration = s.page.cameraGeneration + 1 /\ A.active = FALSE
      /\ A.stream = 0 /\ A.starting = s.page.starting
      /\ A.transportGeneration = s.page.transportGeneration
      /\ A.transport = s.page.transport /\ A.fallback = s.page.fallback
      /\ A.preference = s.page.preference /\ A.sockets = s.page.sockets
      /\ A.lost = s.page.lost /\ A.attempts = s.page.attempts
      /\ A.pc = s.page.pc /\ A.channel = s.page.channel /\ A.polling = s.page.polling
      /\ A.signing = s.page.signing /\ A.decoding = s.page.decoding
      /\ A.shown = s.page.shown /\ A.verdict = s.page.verdict
      /\ A.recording = s.page.recording /\ A.archiving = s.page.archiving
      /\ A.archive = s.page.archive
  BY <1>0 DEF VideoShaped, PageNames
<1>3. /\ DOMAIN D = {"tracks", "peers"} /\ D.peers = s.devices.peers
      /\ D.tracks = s.devices.tracks \ {s.page.stream}
  BY <1>0 DEF VideoShaped
<1> HIDE DEF A, D
<1>4. VideoShaped(off) /\ off.page = A /\ off.devices = D /\ off.inFlight = s.inFlight
      /\ off.downloaded = s.downloaded
  BY <1>0, <1>2, <1>3 DEF VideoShaped
<1> HIDE DEF off
<1>5. off.devices.tracks = {} /\ off.page.cameraGeneration \in Nat \ {0}
      /\ \A x \in off.page.starting : x.generation < off.page.cameraGeneration
  BY <1>0, <1>2, <1>3, <1>4 DEF CameraGood, Cameras
<1>6. CameraGood(off)
  <2>1. /\ off.page.starting = s.page.starting /\ off.page.active = FALSE
        /\ off.devices.tracks \subseteq {off.page.stream}
    BY <1>2, <1>4, <1>5
  <2>2. \A x \in off.page.starting : x \in Cameras /\ x.generation \in Nat
    BY <1>0, <2>1 DEF CameraGood, Cameras
  <2>3. \A x \in off.page.starting : x.generation <= off.page.cameraGeneration
                                    /\ x.generation # off.page.cameraGeneration
    BY <1>5, <2>2
  <2>4. \A x, y \in off.page.starting : x.generation = y.generation => x = y
    BY <1>0, <2>1 DEF CameraGood
  <2> QED BY <1>5, <2>1, <2>2, <2>3, <2>4 DEF CameraGood
<1>7. AttemptsGood(off)
  BY <1>0, <1>2, <1>3, <1>4 DEF AttemptsGood
<1>8. ShownGood(off)
  BY <1>0, <1>2, <1>4 DEF ShownGood
<1>9. HeldGood(off) /\ VideoKeeps(s, off)
  BY <1>0, <1>2, <1>4, VideoKeepsLaws DEF SameHeld
<1>10. /\ VideoShaped(b) /\ CameraGood(b) /\ AttemptsGood(b) /\ ShownGood(b) /\ HeldGood(b)
       /\ VideoKeeps(off, b) /\ SameCamera(off, b) /\ b.downloaded = off.downloaded
       /\ Quiet(b) /\ b.page.transportGeneration # 0 /\ b.page.verdict = NoArtifact
       /\ b.page.recording = off.page.recording
  BY <1>4, <1>6, <1>7, <1>8, <1>9, StopTransportGood
<1> HIDE DEF b
<1>11. /\ VideoShaped(c) /\ SameCamera(b, c) /\ SameTransport(b, c) /\ SameInFlight(b, c)
       /\ SameHeld(b, c) /\ c.page.shown = NoArtifact /\ c.page.verdict = b.page.verdict
       /\ c.page.signing = b.page.signing /\ c.page.decoding = b.page.decoding
  BY <1>10 DEF VideoShaped, PageNames, SameCamera, SameTransport, SameInFlight, SameHeld
<1> HIDE DEF c
<1>12. /\ CameraGood(c) /\ AttemptsGood(c)
  BY <1>10, <1>11, VideoPartsKept
<1>13. HeldGood(c) /\ VideoKeeps(b, c)
  BY <1>10, <1>11, VideoKeepsLaws
<1>14. ShownGood(c)
  <2>1. NoArtifact \in Artifacts
    BY DEF NoArtifact, Artifacts
  <2> QED BY <1>10, <1>11, <2>1 DEF ShownGood, SameInFlight
<1>15. c.page.active = FALSE /\ c.devices.tracks = {} /\ c.page.transportGeneration # 0
       /\ c.page.cameraGeneration # 0
       /\ \A x \in c.page.starting : x.generation < c.page.cameraGeneration
  BY <1>2, <1>4, <1>5, <1>10, <1>11 DEF SameCamera, SameTransport
<1>16. PhaseGood(c)
  BY <1>10, <1>11, <1>15 DEF PhaseGood, CameraOff, Quiet, SameTransport, SocketsNone, PeerNone, NoAttempt
<1>17. VideoGood(c) /\ VideoKeeps(s, c) /\ c.downloaded = {}
  BY <1>4, <1>9, <1>10, <1>11, <1>12, <1>13, <1>14, <1>16, VideoKeepsLaws DEF VideoGood, SameHeld
<1>18. CASE s.page.recording
  <2>1. /\ VideoShaped(e) /\ HeldGood(e) /\ VideoKeeps(c, e)
        /\ SameCamera(c, e) /\ SameTransport(c, e) /\ SameInFlight(c, e)
        /\ e.page.signing = c.page.signing /\ e.page.decoding = c.page.decoding
        /\ e.page.shown = c.page.shown /\ e.page.verdict = c.page.verdict
    BY <1>11, <1>13, <1>17, EndRecordingKeeps
  <2>2. t = e
    BY <1>1, <1>18
  <2> HIDE DEF e, t
  <2>3. VideoGood(e)
    BY <1>12, <1>14, <1>16, <2>1, VideoPartsKept DEF VideoGood
  <2>4. VideoKeeps(s, e)
    BY <1>17, <2>1, VideoKeepsLaws
  <2> QED BY <1>15, <2>1, <2>2, <2>3, <2>4 DEF SameCamera, SameTransport, t
<1>19. CASE ~ s.page.recording
  BY <1>1, <1>15, <1>17, <1>19
<1> QED BY <1>18, <1>19

\* All but the sockets and the transport.
SameOthers(s, t) ==
  /\ SameCamera(s, t) /\ SameHeld(s, t) /\ SameInFlight(s, t)
  /\ t.page.transportGeneration = s.page.transportGeneration
  /\ t.page.fallback = s.page.fallback /\ t.page.preference = s.page.preference
  /\ t.page.pc = s.page.pc /\ t.page.channel = s.page.channel
  /\ t.page.polling = s.page.polling /\ t.devices.peers = s.devices.peers
  /\ t.page.signing = s.page.signing /\ t.page.decoding = s.page.decoding
  /\ t.page.shown = s.page.shown /\ t.page.verdict = s.page.verdict

Opening == [state |-> "connecting", polling |-> FALSE]

\* connectVideoSocket opens one socket, and loses none that was open.
LEMMA ConnectSocketFields ==
  ASSUME NEW s, VideoShaped(s), NEW k \in Kinds,
         s.page.lost = FALSE, s.page.sockets[k].state \notin {"connecting", "open"}
  PROVE  LET t == ConnectVideoSocket(s, k) IN
         /\ VideoShaped(t) /\ SameOthers(s, t)
         /\ t.page.sockets = [s.page.sockets EXCEPT ![k] = Opening]
         /\ t.page.lost = FALSE
         /\ t.page.transport = s.page.transport /\ t.page.attempts = s.page.attempts
<1> DEFINE K == [s.page.sockets EXCEPT ![k] = Opening]
           L == s.page.lost \/ s.page.sockets[k].state \in {"connecting", "open"}
           T == [s.page EXCEPT !.sockets = K, !.lost = L]
           t == [s EXCEPT !.page = T]
<1>1. ConnectVideoSocket(s, k) = t
  BY DEF ConnectVideoSocket, VideoShaped, PageNames, Opening
<1>2. DOMAIN K = Kinds
  BY DEF VideoShaped
<1>3. L = FALSE
  OBVIOUS
<1> HIDE DEF K, L
<1>4. /\ DOMAIN T = PageNames /\ T.sockets = K /\ T.lost = L
      /\ T.cameraGeneration = s.page.cameraGeneration /\ T.active = s.page.active
      /\ T.stream = s.page.stream /\ T.starting = s.page.starting
      /\ T.transportGeneration = s.page.transportGeneration
      /\ T.transport = s.page.transport /\ T.fallback = s.page.fallback
      /\ T.preference = s.page.preference /\ T.attempts = s.page.attempts
      /\ T.pc = s.page.pc /\ T.channel = s.page.channel /\ T.polling = s.page.polling
      /\ T.signing = s.page.signing /\ T.decoding = s.page.decoding
      /\ T.shown = s.page.shown /\ T.verdict = s.page.verdict
      /\ T.recording = s.page.recording /\ T.archiving = s.page.archiving
      /\ T.archive = s.page.archive
  BY DEF VideoShaped, PageNames
<1> HIDE DEF T
<1>5. VideoShaped(t) /\ t.page = T /\ t.devices = s.devices /\ t.inFlight = s.inFlight
      /\ t.downloaded = s.downloaded
  BY <1>2, <1>4, PageSet
<1> HIDE DEF t
<1> QED BY <1>1, <1>3, <1>4, <1>5 DEF SameOthers, SameCamera, SameHeld, SameInFlight, K

\* connectWsTransport opens both.
LEMMA ConnectWsFields ==
  ASSUME NEW s, VideoShaped(s), s.page.lost = FALSE, SocketsNone(s)
  PROVE  LET t == ConnectWsTransport(s) IN
         /\ VideoShaped(t) /\ SameOthers(s, t)
         /\ t.page.transport = "websocket" /\ t.page.lost = FALSE
         /\ t.page.attempts = s.page.attempts
         /\ \A k \in Kinds : Usable(t.page.sockets[k])
<1> DEFINE a == [s EXCEPT !.page.transport = "websocket"]
           b == ConnectVideoSocket(a, "encode")
           t == ConnectVideoSocket(b, "decode")
<1>0. "encode" \in Kinds /\ "decode" \in Kinds /\ NoSocket.state = "none"
  BY DEF Kinds, NoSocket
<1>1. /\ VideoShaped(a) /\ SameOthers(s, a) /\ a.page.sockets = s.page.sockets
      /\ a.page.transport = "websocket" /\ a.page.lost = FALSE /\ a.page.attempts = s.page.attempts
  BY DEF VideoShaped, PageNames, SameOthers, SameCamera, SameHeld, SameInFlight
<1>2. ConnectWsTransport(s) = t
  BY DEF ConnectWsTransport
<1> HIDE DEF a
<1>3. a.page.sockets["encode"].state \notin {"connecting", "open"}
  BY <1>0, <1>1 DEF SocketsNone
<1>4. /\ VideoShaped(b) /\ SameOthers(a, b)
      /\ b.page.sockets = [a.page.sockets EXCEPT !["encode"] = Opening]
      /\ b.page.lost = FALSE /\ b.page.transport = a.page.transport
      /\ b.page.attempts = a.page.attempts
  BY <1>0, <1>1, <1>3, ConnectSocketFields
<1> HIDE DEF b
<1>5. /\ b.page.sockets["decode"] = NoSocket
      /\ b.page.sockets["encode"] = Opening
  BY <1>0, <1>1, <1>4 DEF SocketsNone, VideoShaped
<1>6. /\ VideoShaped(t) /\ SameOthers(b, t)
      /\ t.page.sockets = [b.page.sockets EXCEPT !["decode"] = Opening]
      /\ t.page.lost = FALSE /\ t.page.transport = b.page.transport
      /\ t.page.attempts = b.page.attempts
  <2>1. b.page.sockets["decode"].state \notin {"connecting", "open"}
    BY <1>0, <1>5
  <2> QED BY <1>0, <1>4, <2>1, ConnectSocketFields
<1> HIDE DEF t
<1>7. \A k \in Kinds : t.page.sockets[k] = Opening
  BY <1>4, <1>5, <1>6 DEF Kinds, VideoShaped
<1>8. \A k \in Kinds : Usable(t.page.sockets[k])
  BY <1>7 DEF Usable, Opening
<1>9. SameOthers(s, t)
  BY <1>1, <1>4, <1>6 DEF SameOthers, SameCamera, SameHeld, SameInFlight
<1> QED BY <1>1, <1>2, <1>4, <1>6, <1>8, <1>9

\* connectTransport, when nothing is connected: an attempt begins or both sockets open.
LEMMA ConnectGood ==
  ASSUME NEW s, VideoShaped(s), CameraGood(s), AttemptsGood(s), ShownGood(s), HeldGood(s),
         s.page.active = TRUE, s.page.transport = "none", s.page.transportGeneration # 0,
         SocketsNone(s), PeerNone(s), NoAttempt(s)
  PROVE  LET t == ConnectTransport(s) IN VideoGood(t) /\ VideoKeeps(s, t)
<1> DEFINE rtc == s.page.preference = "webrtc" \/ (s.page.preference = "auto" /\ ~ s.page.fallback)
           x == [generation |-> s.page.transportGeneration, at |-> "config"]
           a == [s EXCEPT !.page.attempts = @ \cup {x}]
           w == ConnectWsTransport(s)
<1>1. CASE rtc
  <2>1. ConnectTransport(s) = a
    BY <1>1 DEF ConnectTransport
  <2>2. x.generation = s.page.transportGeneration /\ x.at = "config" /\ x \in Attempts
    BY DEF AttemptsGood, Attempts
  <2> HIDE DEF x
  <2>3. /\ VideoShaped(a) /\ SameCamera(s, a) /\ SameHeld(s, a) /\ SameInFlight(s, a)
        /\ a.page.attempts = s.page.attempts \cup {x}
        /\ a.page.transportGeneration = s.page.transportGeneration
        /\ a.page.transport = s.page.transport
        /\ a.page.preference = s.page.preference /\ a.page.sockets = s.page.sockets
        /\ a.page.lost = s.page.lost
        /\ a.page.pc = s.page.pc /\ a.page.channel = s.page.channel
        /\ a.page.polling = s.page.polling /\ a.devices.peers = s.devices.peers
        /\ a.page.decoding = s.page.decoding
        /\ a.page.shown = s.page.shown /\ a.page.verdict = s.page.verdict
    BY DEF VideoShaped, PageNames, SameCamera, SameHeld, SameInFlight
  <2> HIDE DEF a
  <2>4. CameraGood(a)
    BY <2>3, VideoPartsKept
  <2>5. AttemptsGood(a)
    <3>1. \A b \in a.page.attempts : b \in s.page.attempts \/ b = x
      BY <2>3
    <3>2. \A b \in s.page.attempts : b.generation # x.generation
      BY <2>2 DEF NoAttempt
    <3>3. \A b, c \in a.page.attempts : b.generation = c.generation => b = c
      BY <3>1, <3>2 DEF AttemptsGood
    <3>4. a.page.attempts \subseteq Attempts
      BY <2>2, <3>1 DEF AttemptsGood
    <3>5. \A b \in a.page.attempts : b.generation <= a.page.transportGeneration
      BY <2>2, <2>3, <3>1 DEF AttemptsGood
    <3> QED BY <2>3, <3>3, <3>4, <3>5 DEF AttemptsGood, SameCamera
  <2>6. PhaseGood(a)
    <3>1. a.page.preference \in {"auto", "webrtc"}
      BY <1>1, <2>3
    <3>2. \E b \in a.page.attempts : b.generation = a.page.transportGeneration
      BY <2>2, <2>3
    <3>3. /\ a.page.active = TRUE /\ a.page.transport = "none" /\ SocketsNone(a)
          /\ a.page.polling = FALSE /\ a.page.channel # "open" /\ a.page.pc = 0
      BY <2>3 DEF SameCamera, SocketsNone, PeerNone
    <3> QED BY <3>1, <3>2, <3>3 DEF PhaseGood, Connecting
  <2>7. ShownGood(a) /\ HeldGood(a) /\ VideoKeeps(s, a)
    BY <2>3, VideoPartsKept, VideoKeepsLaws
  <2> QED BY <2>1, <2>3, <2>4, <2>5, <2>6, <2>7 DEF VideoGood
<1>2. CASE ~ rtc
  <2>1. ConnectTransport(s) = w
    BY <1>2 DEF ConnectTransport
  <2>2. /\ VideoShaped(w) /\ SameOthers(s, w)
        /\ w.page.transport = "websocket" /\ w.page.lost = FALSE
        /\ w.page.attempts = s.page.attempts
        /\ \A k \in Kinds : Usable(w.page.sockets[k])
    BY ConnectWsFields DEF AttemptsGood
  <2> HIDE DEF w
  <2>3. CameraGood(w)
    BY <2>2, VideoPartsKept DEF SameOthers
  <2>4. AttemptsGood(w)
    BY <2>2 DEF AttemptsGood, SameOthers, SameCamera
  <2>5. PhaseGood(w)
    BY <2>2 DEF PhaseGood, OverSockets, SameOthers, SameCamera, PeerNone, NoAttempt
  <2>6. ShownGood(w) /\ HeldGood(w) /\ VideoKeeps(s, w)
    BY <2>2, VideoPartsKept, VideoKeepsLaws DEF SameOthers
  <2> QED BY <2>1, <2>2, <2>3, <2>4, <2>5, <2>6 DEF VideoGood
<1> QED BY <1>1, <1>2

\* fallbackToWs leaves both sockets, or nothing when the user insists on WebRTC.
LEMMA FallbackGood ==
  ASSUME NEW s, VideoShaped(s), CameraGood(s), AttemptsGood(s), ShownGood(s), HeldGood(s),
         s.page.active = TRUE, s.page.transport # "websocket",
         s.page.preference \in {"auto", "webrtc"}, SocketsNone(s), NoAttempt(s)
  PROVE  LET t == FallbackToWs(s) IN VideoGood(t) /\ VideoKeeps(s, t)
<1> DEFINE a == TeardownWebRtcTransport(s)
           down == ClearSigningRequest(a)
           fallen == [down EXCEPT !.page.fallback = TRUE]
           off == [down EXCEPT !.page.transport = "none"]
           c == ClearVideoVerification(off)
           w == ConnectWsTransport(fallen)
           t == FallbackToWs(s)
<1>1. t = IF down.page.preference # "auto" THEN c ELSE w
  <2>1. s.page.preference = down.page.preference
    BY TeardownFields, ClearSigningFields DEF SameTransport
  <2> QED BY <2>1 DEF FallbackToWs
<1>2. /\ VideoShaped(a) /\ SameCamera(s, a) /\ SameHeld(s, a)
      /\ a.page.transportGeneration = s.page.transportGeneration
      /\ a.page.preference = s.page.preference /\ a.page.sockets = s.page.sockets
      /\ a.page.lost = s.page.lost /\ a.page.attempts = s.page.attempts
      /\ PeerNone(a) /\ a.devices.peers = s.devices.peers \ {s.page.pc}
      /\ a.page.shown = s.page.shown /\ a.page.verdict = s.page.verdict
      /\ \/ SameInFlight(s, a)
         \/ a.inFlight.frames = <<>> /\ a.inFlight.told = NoArtifact
  BY TeardownFields
<1> HIDE DEF a
<1>3. /\ VideoShaped(down) /\ down.page.decoding = {}
      /\ SameCamera(a, down) /\ SameTransport(a, down) /\ SameInFlight(a, down) /\ SameHeld(a, down)
      /\ down.page.verdict = a.page.verdict /\ down.page.shown = a.page.shown
  BY <1>2, ClearSigningFields
<1> HIDE DEF down
<1>4. /\ CameraGood(down) /\ SameHeld(s, down) /\ SocketsNone(down) /\ PeerNone(down)
      /\ NoAttempt(down) /\ down.page.active = TRUE /\ down.page.preference = s.page.preference
      /\ down.page.lost = FALSE
  <2>1. CameraGood(down)
    BY <1>2, <1>3, VideoPartsKept
  <2>2. SameHeld(s, down)
    BY <1>2, <1>3 DEF SameHeld
  <2> QED BY <1>2, <1>3, <2>1, <2>2 DEF SocketsNone, PeerNone, NoAttempt, SameCamera, SameTransport, AttemptsGood
<1>5. AttemptsGood(down)
  <2>1. down.devices.peers = {}
    BY <1>2, <1>3 DEF AttemptsGood, SameTransport
  <2> QED BY <1>2, <1>3, <2>1 DEF AttemptsGood, SameCamera, SameTransport
<1>6. ShownGood(down)
  <2>0. s.inFlight.frames \in Seq(Artifacts) /\ <<>> \in Seq(Artifacts)
    BY DEF ShownGood
  <2>1. down.inFlight.frames \in Seq(Artifacts)
    <3>1. CASE SameInFlight(s, a)
      BY <1>3, <2>0, <3>1 DEF SameInFlight
    <3>2. CASE a.inFlight.frames = <<>>
      BY <1>3, <2>0, <3>2 DEF SameInFlight
    <3> QED BY <1>2, <3>1, <3>2
  <2>2. NoArtifact \in Artifacts
    BY DEF NoArtifact, Artifacts
  <2>3. down.inFlight.told \in Artifacts
    BY <1>2, <1>3, <2>2 DEF ShownGood, SameInFlight
  <2> QED BY <1>2, <1>3, <2>1, <2>3 DEF ShownGood
<1>7. HeldGood(down) /\ VideoKeeps(s, down)
  BY <1>4, VideoKeepsLaws
<1>8. CASE down.page.preference # "auto"
  <2>1. /\ VideoShaped(off) /\ SameOthers(down, off) /\ off.page.sockets = down.page.sockets
        /\ off.page.transport = "none" /\ off.page.lost = down.page.lost
        /\ off.page.attempts = down.page.attempts
    BY <1>3 DEF VideoShaped, PageNames, SameOthers, SameCamera, SameHeld, SameInFlight
  <2> HIDE DEF off
  <2>2. CameraGood(off) /\ ShownGood(off) /\ HeldGood(off) /\ VideoKeeps(down, off)
    BY <1>4, <1>6, <1>7, <2>1, VideoPartsKept, VideoKeepsLaws DEF SameOthers
  <2>3. AttemptsGood(off)
    BY <1>5, <2>1 DEF AttemptsGood, SameOthers, SameCamera
  <2>4. Down(off)
    BY <1>4, <1>8, <2>1 DEF Down, SameOthers, SameCamera, SocketsNone, PeerNone, NoAttempt
  <2>5. VideoShaped(c) /\ SameCamera(off, c) /\ SameTransport(off, c) /\ SameInFlight(off, c)
        /\ SameHeld(off, c) /\ c.page.verdict = NoArtifact
        /\ c.page.signing = off.page.signing /\ c.page.decoding = off.page.decoding
        /\ c.page.shown = off.page.shown
    BY <2>1, ClearVerdictFields
  <2> HIDE DEF c
  <2>6. VideoGood(c)
    BY <2>2, <2>3, <2>4, <2>5, VideoPartsKept, VideoKeepsLaws DEF VideoGood, PhaseGood
  <2>7. VideoKeeps(s, c)
    BY <1>7, <2>2, <2>5, VideoKeepsLaws
  <2> HIDE DEF t
  <2> QED BY <1>1, <1>8, <2>6, <2>7 DEF t
<1>9. CASE down.page.preference = "auto"
  <2>1. /\ VideoShaped(fallen) /\ SameCamera(down, fallen) /\ SameHeld(down, fallen)
        /\ SameInFlight(down, fallen)
        /\ fallen.page.transportGeneration = down.page.transportGeneration
        /\ fallen.page.preference = down.page.preference
        /\ fallen.page.pc = down.page.pc /\ fallen.page.channel = down.page.channel
        /\ fallen.page.polling = down.page.polling /\ fallen.devices.peers = down.devices.peers
        /\ fallen.page.signing = down.page.signing /\ fallen.page.decoding = down.page.decoding
        /\ fallen.page.shown = down.page.shown /\ fallen.page.verdict = down.page.verdict
        /\ fallen.page.sockets = down.page.sockets
        /\ fallen.page.lost = down.page.lost /\ fallen.page.attempts = down.page.attempts
    BY <1>3 DEF VideoShaped, PageNames, SameCamera, SameHeld, SameInFlight
  <2> HIDE DEF fallen
  <2>2. CameraGood(fallen) /\ ShownGood(fallen) /\ HeldGood(fallen) /\ VideoKeeps(down, fallen)
    BY <1>4, <1>6, <1>7, <2>1, VideoPartsKept, VideoKeepsLaws
  <2>3. AttemptsGood(fallen) /\ SocketsNone(fallen) /\ PeerNone(fallen) /\ NoAttempt(fallen)
    BY <1>4, <1>5, <2>1 DEF AttemptsGood, SameCamera, SocketsNone, PeerNone, NoAttempt
  <2>4. /\ VideoShaped(w) /\ SameOthers(fallen, w)
        /\ w.page.transport = "websocket" /\ w.page.lost = FALSE
        /\ w.page.attempts = fallen.page.attempts
        /\ \A k \in Kinds : Usable(w.page.sockets[k])
    BY <1>4, <2>1, <2>3, ConnectWsFields
  <2> HIDE DEF w
  <2>5. CameraGood(w)
    BY <2>2, <2>4, VideoPartsKept DEF SameOthers
  <2>6. AttemptsGood(w)
    BY <2>3, <2>4 DEF AttemptsGood, SameOthers, SameCamera
  <2>7. PhaseGood(w)
    BY <1>4, <2>1, <2>3, <2>4 DEF PhaseGood, OverSockets, SameOthers, SameCamera, PeerNone, NoAttempt
  <2>8. ShownGood(w) /\ HeldGood(w) /\ VideoKeeps(fallen, w)
    BY <2>2, <2>4, VideoPartsKept, VideoKeepsLaws DEF SameOthers
  <2>9. VideoGood(w)
    BY <2>4, <2>5, <2>6, <2>7, <2>8 DEF VideoGood
  <2>10. VideoKeeps(s, w)
    BY <1>7, <2>2, <2>8, VideoKeepsLaws
  <2> HIDE DEF t
  <2> QED BY <1>1, <1>9, <2>9, <2>10 DEF t
<1> QED BY <1>8, <1>9

\* A step that leaves the camera and the transport alone.
LEMMA ShownStep ==
  ASSUME NEW s, VideoGood(s), NEW t, VideoShaped(t), SameCamera(s, t), SameTransport(s, t),
         SameHeld(s, t), ShownGood(t),
         t.page.signing \in {"idle", s.page.signing} \/ s.page.active = TRUE
  PROVE  VideoGood(t) /\ VideoKeeps(s, t)
<1>1. CASE t.page.signing \in {"idle", s.page.signing}
  BY <1>1, VideoPartsKept, VideoKeepsLaws DEF VideoGood
<1>2. CASE s.page.active = TRUE
  <2>1. OverSockets(s) \/ Connecting(s) \/ OverChannel(s) \/ Down(s)
    BY <1>2 DEF VideoGood, PhaseGood, CameraOff
  <2>2. PhaseGood(t)
    <3>1. CASE OverSockets(s)
      BY <3>1 DEF SameCamera, SameTransport, PhaseGood, OverSockets, PeerNone, NoAttempt
    <3>2. CASE Connecting(s)
      BY <3>2 DEF SameCamera, SameTransport, PhaseGood, Connecting, SocketsNone
    <3>3. CASE OverChannel(s)
      BY <3>3 DEF SameCamera, SameTransport, PhaseGood, OverChannel, SocketsNone, NoAttempt
    <3>4. CASE Down(s)
      BY <3>4 DEF SameCamera, SameTransport, PhaseGood, Down, SocketsNone, PeerNone, NoAttempt
    <3> QED BY <2>1, <3>1, <3>2, <3>3, <3>4
  <2> QED BY <2>2, VideoPartsKept, VideoKeepsLaws DEF VideoGood
<1> QED BY <1>1, <1>2

\* The state functions read and write the variables they name.
LEMMA StateFields ==
  /\ State.page = page /\ State.devices = devices /\ State.inFlight = inFlight
  /\ State.downloaded = {}
BY DEF State

\* The invariant does not depend on what this turn downloaded.
LEMMA VideoSameIsGood ==
  ASSUME NEW s, VideoGood(s), NEW t, DOMAIN t = DOMAIN s,
         t.page = s.page, t.devices = s.devices, t.inFlight = s.inFlight
  PROVE  VideoGood(t)
<1>1. VideoShaped(t)
  BY DEF VideoGood, VideoShaped
<1>2. CameraGood(t) /\ AttemptsGood(t)
  BY DEF VideoGood, CameraGood, AttemptsGood
<1>3. PhaseGood(t)
  BY DEF VideoGood, PhaseGood, CameraOff, OverSockets, Connecting, OverChannel, Down,
         SocketsNone, PeerNone, NoAttempt
<1>4. ShownGood(t) /\ HeldGood(t)
  BY DEF VideoGood, ShownGood, HeldGood
<1> QED BY <1>1, <1>2, <1>3, <1>4 DEF VideoGood

ServerGood == server.revision \in Nat /\ server.index \in Nat /\ server.newest \in Artifacts

\* It carries over to the next state from a record that the step makes its state.
LEMMA VideoOthersInv ==
  ASSUME VideoInv, NEW s, VideoGood(s), page' = s.page, devices' = s.devices,
         inFlight' = s.inFlight, dropped' = FALSE, ServerGood'
  PROVE  VideoInv'
<1>1. /\ DOMAIN State' = DOMAIN s
      /\ State'.page = s.page /\ State'.devices = s.devices /\ State'.inFlight = s.inFlight
  BY DEF State, VideoGood, VideoShaped
<1>2. VideoGood(State)'
  <2> DEFINE t == State'
  <2> HIDE DEF t
  <2>1. VideoGood(t)
    BY <1>1, VideoSameIsGood DEF t
  <2> QED BY <2>1 DEF t, VideoGood, VideoShaped, CameraGood, AttemptsGood, PhaseGood,
                CameraOff, OverSockets, Connecting, OverChannel, Down,
                SocketsNone, PeerNone, NoAttempt, ShownGood, HeldGood
<1> QED BY <1>2 DEF VideoInv, ServerGood

\* A turn of the page that preserves the parts and drops nothing preserves the invariant.
LEMMA BecomesInv ==
  ASSUME VideoInv, NEW s, VideoGood(s), VideoKeeps(State, s), Becomes(s),
         UNCHANGED server \/ server' = [server EXCEPT !.index = 0]
  PROVE  VideoInv'
<1>1. page.archive \subseteq s.page.archive \cup s.downloaded
  BY StateFields DEF VideoKeeps
<1>2. dropped' = FALSE
  BY <1>1 DEF Becomes, VideoInv
<1>3. ServerGood'
  <2>1. /\ server.revision \in Nat /\ server.index \in Nat /\ server.newest \in Artifacts
    BY DEF VideoInv
  <2>2. CASE UNCHANGED server
    BY <2>1, <2>2 DEF ServerGood
  <2>3. CASE server' = [server EXCEPT !.index = 0]
    <3>1. server'.revision = server.revision /\ server'.newest = server.newest
          /\ server'.index \in Nat
      BY <2>1, <2>3 DEF VideoInv
    <3> QED BY <2>1, <3>1 DEF ServerGood
  <2> QED BY <2>2, <2>3
<1> QED BY <1>2, <1>3, VideoOthersInv DEF Becomes

\* The state as a record satisfies the parts.
LEMMA InvGood ==
  VideoInv => VideoGood(State) /\ State.downloaded = {} /\ VideoKeeps(State, State)
BY StateFields, VideoKeepsLaws DEF VideoInv

\* The phases read the transport, and of signing only whether it is idle.
LEMMA PhaseKept ==
  ASSUME NEW s, NEW t, PhaseGood(s), SameTransport(s, t), t.page.active = s.page.active,
         t.page.signing \in {"idle", s.page.signing}
  PROVE  PhaseGood(t)
<1>1. CASE CameraOff(s)
  BY <1>1 DEF SameTransport, PhaseGood, CameraOff, SocketsNone, PeerNone, NoAttempt
<1>2. CASE OverSockets(s)
  BY <1>2 DEF SameTransport, PhaseGood, OverSockets, PeerNone, NoAttempt
<1>3. CASE Connecting(s)
  BY <1>3 DEF SameTransport, PhaseGood, Connecting, SocketsNone
<1>4. CASE OverChannel(s)
  BY <1>4 DEF SameTransport, PhaseGood, OverChannel, SocketsNone, NoAttempt
<1>5. CASE Down(s)
  BY <1>5 DEF SameTransport, PhaseGood, Down, SocketsNone, PeerNone, NoAttempt
<1> QED BY <1>1, <1>2, <1>3, <1>4, <1>5 DEF PhaseGood

SameSignature(s, t) ==
  /\ t.page.signing = s.page.signing /\ t.page.decoding = s.page.decoding
  /\ t.page.shown = s.page.shown /\ t.page.verdict = s.page.verdict

\* A step that leaves the transport alone.
LEMMA CameraStep ==
  ASSUME NEW s, VideoGood(s), NEW t, VideoShaped(t), CameraGood(t), SameTransport(s, t),
         SameHeld(s, t), SameInFlight(s, t), SameSignature(s, t),
         t.page.active = s.page.active,
         t.page.starting # {} => s.page.transportGeneration # 0
  PROVE  VideoGood(t) /\ VideoKeeps(s, t)
<1>0. PhaseGood(s) /\ AttemptsGood(s) /\ ShownGood(s) /\ HeldGood(s)
  BY DEF VideoGood
<1>1. PhaseGood(t)
  BY <1>0, PhaseKept DEF SameSignature
<1>2. AttemptsGood(t)
  BY <1>0 DEF AttemptsGood, SameTransport
<1>3. ShownGood(t)
  BY <1>0 DEF ShownGood, SameInFlight, SameSignature
<1>4. HeldGood(t) /\ VideoKeeps(s, t)
  BY <1>0, VideoKeepsLaws
<1> QED BY <1>1, <1>2, <1>3, <1>4 DEF VideoGood

Asking(s) == [generation |-> s.page.cameraGeneration, at |-> "asking"]

\* startCamera: what ran is stopped, and a new camera is asked for.
LEMMA StartCameraInv ==
  ASSUME VideoInv, NEW downloads \in BOOLEAN, StartCamera(downloads)
  PROVE  VideoInv'
<1> DEFINE s == StopCamera(State, downloads)
           x == Asking(s)
           t == [s EXCEPT !.page.starting = @ \cup {x}]
<1>1. /\ VideoGood(s) /\ VideoKeeps(State, s)
      /\ s.page.active = FALSE /\ s.devices.tracks = {} /\ s.page.transportGeneration # 0
      /\ s.page.cameraGeneration # 0
      /\ \A y \in s.page.starting : y.generation < s.page.cameraGeneration
  BY InvGood, StopCameraGood
<1>2. Becomes(t) /\ UNCHANGED server
  BY DEF StartCamera, Asking
<1> HIDE DEF s
<1>3. /\ x \in Cameras /\ x.generation = s.page.cameraGeneration
  BY <1>1 DEF Asking, Cameras, VideoGood, CameraGood
<1> HIDE DEF x
<1>4. /\ VideoShaped(t) /\ SameTransport(s, t) /\ SameHeld(s, t) /\ SameInFlight(s, t)
      /\ SameSignature(s, t) /\ t.page.active = s.page.active /\ t.page.stream = s.page.stream
      /\ t.page.cameraGeneration = s.page.cameraGeneration
      /\ t.page.starting = s.page.starting \cup {x} /\ t.devices.tracks = s.devices.tracks
  BY <1>1 DEF VideoGood, VideoShaped, PageNames, SameTransport, SameHeld, SameInFlight, SameSignature
<1> HIDE DEF t
<1>5. CameraGood(t)
  <2>1. \A y \in t.page.starting : y \in Cameras /\ y.generation <= t.page.cameraGeneration
    BY <1>1, <1>3, <1>4 DEF VideoGood, CameraGood
  <2>2. \A y \in s.page.starting : y.generation # x.generation
    BY <1>1, <1>3 DEF VideoGood, CameraGood, Cameras
  <2>3. \A y, z \in t.page.starting : y.generation = z.generation => y = z
    BY <1>1, <1>4, <2>2 DEF VideoGood, CameraGood
  <2> QED BY <1>1, <1>4, <2>1, <2>3 DEF VideoGood, CameraGood
<1>6. VideoGood(t) /\ VideoKeeps(s, t)
  BY <1>1, <1>4, <1>5, CameraStep
<1> QED BY <1>1, <1>2, <1>6, VideoKeepsLaws, BecomesInv

\* The stop button.
LEMMA PressStopCameraInv ==
  ASSUME VideoInv, NEW downloads \in BOOLEAN, PressStopCamera(downloads)
  PROVE  VideoInv'
<1> DEFINE s == StopCamera(State, downloads)
<1>1. VideoGood(s) /\ VideoKeeps(State, s)
  BY InvGood, StopCameraGood
<1>2. Becomes(s) /\ UNCHANGED server
  BY DEF PressStopCamera
<1> QED BY <1>1, <1>2, BecomesInv

\* A continuation of startCamera that is out of date ends.
LEMMA GoesGood ==
  ASSUME VideoInv, NEW x \in page.starting
  PROVE  LET t == Goes(x) IN
         /\ VideoGood(t) /\ VideoKeeps(State, t) /\ t.downloaded = {}
         /\ SameTransport(State, t) /\ SameHeld(State, t) /\ SameInFlight(State, t)
         /\ SameSignature(State, t) /\ t.page.active = page.active
         /\ t.page.cameraGeneration = page.cameraGeneration /\ t.devices.tracks = devices.tracks
         /\ t.page.starting = page.starting \ {x} /\ t.page.stream = page.stream
<1> DEFINE s == State
           t == Goes(x)
<1>1. VideoGood(s) /\ s.downloaded = {} /\ s.page = page /\ s.devices = devices
  BY InvGood, StateFields
<1>2. t = [s EXCEPT !.page.starting = @ \ {x}]
  BY DEF Goes
<1> HIDE DEF s, t
<1>3. /\ VideoShaped(t) /\ SameTransport(s, t) /\ SameHeld(s, t) /\ SameInFlight(s, t)
      /\ SameSignature(s, t) /\ t.page.active = s.page.active /\ t.page.stream = s.page.stream
      /\ t.page.cameraGeneration = s.page.cameraGeneration
      /\ t.page.starting = s.page.starting \ {x} /\ t.devices.tracks = s.devices.tracks
  BY <1>1, <1>2 DEF VideoGood, VideoShaped, PageNames, SameTransport, SameHeld, SameInFlight, SameSignature
<1>4. CameraGood(t)
  BY <1>1, <1>3 DEF VideoGood, CameraGood
<1>5. t.page.starting # {} => s.page.transportGeneration # 0
  BY <1>1, <1>3 DEF VideoGood, AttemptsGood
<1>6. VideoGood(t) /\ VideoKeeps(s, t)
  BY <1>1, <1>3, <1>4, <1>5, CameraStep
<1> QED BY <1>1, <1>3, <1>6 DEF SameHeld, s, t

\* A start that fails stops the camera if it is the current one.
LEMMA CameraFailsInv ==
  ASSUME VideoInv, NEW x \in page.starting, NEW downloads \in BOOLEAN, CameraFails(x, downloads)
  PROVE  VideoInv'
<1> DEFINE s == Goes(x)
           t == StopCamera(s, downloads)
<1>1. VideoGood(s) /\ VideoKeeps(State, s) /\ s.downloaded = {}
  BY GoesGood
<1>2. UNCHANGED server /\ (Becomes(s) \/ Becomes(t))
  BY DEF CameraFails
<1> HIDE DEF s
<1>3. VideoGood(t) /\ VideoKeeps(s, t)
  BY <1>1, StopCameraGood
<1>4. VideoKeeps(State, t)
  BY <1>1, <1>3, VideoKeepsLaws
<1> HIDE DEF t
<1> QED BY <1>1, <1>2, <1>3, <1>4, BecomesInv

Playing(x) == [x EXCEPT !.at = "playing"]

\* getUserMedia returns; a stream nobody waits for is stopped.
LEMMA GrantedInv ==
  ASSUME VideoInv, NEW x \in page.starting, Granted(x)
  PROVE  VideoInv'
<1> DEFINE s == Goes(x)
           p == Playing(x)
           T == [s.page EXCEPT !.starting = @ \cup {p}, !.stream = x.generation]
           D == [s.devices EXCEPT !.tracks = @ \cup {x.generation}]
           t == [s EXCEPT !.page = T, !.devices = D]
<1>0. VideoGood(State) /\ State.page = page /\ State.devices = devices
  BY InvGood, StateFields
<1>1. /\ VideoGood(s) /\ VideoKeeps(State, s) /\ s.downloaded = {}
      /\ s.page.active = page.active /\ s.page.cameraGeneration = page.cameraGeneration
      /\ s.devices.tracks = devices.tracks /\ s.page.starting = page.starting \ {x}
      /\ SameTransport(State, s)
  BY GoesGood
<1>2. CASE x.generation # page.cameraGeneration
  BY <1>1, <1>2, BecomesInv DEF Granted
<1>3. CASE x.generation = page.cameraGeneration
  <2>1. Becomes(t) /\ UNCHANGED server
    <3>1. [s EXCEPT !.page.starting = @ \cup {[x EXCEPT !.at = "playing"]},
                    !.page.stream = x.generation,
                    !.devices.tracks = @ \cup {x.generation}] = t
      BY <1>1 DEF VideoGood, VideoShaped, PageNames, Playing
    <3> QED BY <1>3, <3>1 DEF Granted
  <2>2. x \in Cameras /\ x.at = "asking" /\ page.active = FALSE /\ devices.tracks = {}
        /\ \A y \in page.starting \ {x} : y.generation # x.generation
    BY <1>0, <1>3 DEF VideoGood, CameraGood, Granted
  <2>3. p \in Cameras /\ p.generation = x.generation /\ p.at = "playing"
    BY <2>2 DEF Cameras, Playing
  <2> HIDE DEF s, p
  <2>4. /\ DOMAIN T = PageNames /\ DOMAIN T.sockets = Kinds
        /\ T.starting = s.page.starting \cup {p} /\ T.stream = x.generation
        /\ T.cameraGeneration = s.page.cameraGeneration /\ T.active = s.page.active
        /\ T.transportGeneration = s.page.transportGeneration
        /\ T.transport = s.page.transport /\ T.fallback = s.page.fallback
        /\ T.preference = s.page.preference /\ T.sockets = s.page.sockets
        /\ T.lost = s.page.lost /\ T.attempts = s.page.attempts
        /\ T.pc = s.page.pc /\ T.channel = s.page.channel /\ T.polling = s.page.polling
        /\ T.signing = s.page.signing /\ T.decoding = s.page.decoding
        /\ T.shown = s.page.shown /\ T.verdict = s.page.verdict
        /\ T.recording = s.page.recording /\ T.archiving = s.page.archiving
        /\ T.archive = s.page.archive
    BY <1>1 DEF VideoGood, VideoShaped, PageNames
  <2>5. /\ DOMAIN D = {"tracks", "peers"} /\ D.peers = s.devices.peers
        /\ D.tracks = s.devices.tracks \cup {x.generation}
    BY <1>1 DEF VideoGood, VideoShaped
  <2> HIDE DEF T, D
  <2>6. VideoShaped(t) /\ t.page = T /\ t.devices = D /\ t.inFlight = s.inFlight
        /\ t.downloaded = s.downloaded
    BY <1>1, <2>4, <2>5 DEF VideoGood, VideoShaped
  <2> HIDE DEF t
  <2>7. /\ SameTransport(s, t) /\ SameHeld(s, t) /\ SameInFlight(s, t) /\ SameSignature(s, t)
        /\ t.page.active = s.page.active
    BY <2>4, <2>5, <2>6 DEF SameTransport, SameHeld, SameInFlight, SameSignature
  <2>8. CameraGood(t)
    <3>1. t.page.starting = (page.starting \ {x}) \cup {p} /\ t.page.active = FALSE
          /\ t.page.cameraGeneration = page.cameraGeneration
          /\ t.devices.tracks = {x.generation} /\ t.page.stream = x.generation
      BY <1>1, <2>2, <2>4, <2>5, <2>6
    <3>2. \A y \in t.page.starting : y \in Cameras /\ y.generation <= t.page.cameraGeneration
      BY <1>0, <2>2, <2>3, <3>1 DEF VideoGood, CameraGood
    <3>3. \A y \in t.page.starting : y.generation = t.page.cameraGeneration => y.at = "playing"
      BY <1>3, <2>2, <2>3, <3>1
    <3>4. \A y, z \in t.page.starting : y.generation = z.generation => y = z
      BY <1>0, <2>2, <2>3, <3>1 DEF VideoGood, CameraGood
    <3>5. t.page.cameraGeneration \in Nat
      BY <1>0, <3>1 DEF VideoGood, CameraGood
    <3> QED BY <3>1, <3>2, <3>3, <3>4, <3>5 DEF CameraGood
  <2>9. s.page.transportGeneration # 0
    BY <1>0, <1>1 DEF VideoGood, AttemptsGood, SameTransport
  <2>10. VideoGood(t) /\ VideoKeeps(s, t)
    BY <1>1, <2>6, <2>7, <2>8, <2>9, CameraStep
  <2> QED BY <1>1, <2>1, <2>10, VideoKeepsLaws, BecomesInv
<1> QED BY <1>2, <1>3

\* The video plays: the camera is active and the transport is connected.
LEMMA PlayedInv ==
  ASSUME VideoInv, NEW x \in page.starting, Played(x)
  PROVE  VideoInv'
<1> DEFINE s == Goes(x)
           T == [s.page EXCEPT !.active = TRUE, !.fallback = FALSE]
           u == [s EXCEPT !.page = T]
           c == ClearVideoVerification(u)
           t == ConnectTransport(c)
<1>0. VideoGood(State) /\ State.page = page /\ State.devices = devices
  BY InvGood, StateFields
<1>1. /\ VideoGood(s) /\ VideoKeeps(State, s) /\ s.downloaded = {}
      /\ s.page.active = page.active /\ s.page.cameraGeneration = page.cameraGeneration
      /\ s.devices.tracks = devices.tracks /\ s.page.starting = page.starting \ {x}
      /\ SameTransport(State, s)
  BY GoesGood
<1>2. CASE x.generation # page.cameraGeneration
  BY <1>1, <1>2, BecomesInv DEF Played
<1>3. CASE x.generation = page.cameraGeneration
  <2>1. Becomes(t) /\ UNCHANGED server
    <3>1. [s EXCEPT !.page.active = TRUE, !.page.fallback = FALSE] = u
      BY <1>1 DEF VideoGood, VideoShaped, PageNames
    <3> QED BY <1>3, <3>1 DEF Played
  <2>2. page.active = FALSE /\ \A y \in page.starting \ {x} : y.generation # x.generation
    BY <1>0, <1>3 DEF VideoGood, CameraGood
  <2>3. s.page.transportGeneration # 0
    BY <1>0, <1>1 DEF VideoGood, AttemptsGood, SameTransport
  <2> HIDE DEF s
  <2>4. CameraOff(s) /\ CameraGood(s) /\ AttemptsGood(s) /\ ShownGood(s) /\ HeldGood(s)
    BY <1>1, <2>2 DEF VideoGood, PhaseGood, OverSockets, Connecting, OverChannel, Down
  <2>5. /\ DOMAIN T = PageNames /\ DOMAIN T.sockets = Kinds
        /\ T.active = TRUE
        /\ T.starting = s.page.starting /\ T.stream = s.page.stream
        /\ T.cameraGeneration = s.page.cameraGeneration
        /\ T.transportGeneration = s.page.transportGeneration
        /\ T.transport = s.page.transport
        /\ T.preference = s.page.preference /\ T.sockets = s.page.sockets
        /\ T.lost = s.page.lost /\ T.attempts = s.page.attempts
        /\ T.pc = s.page.pc /\ T.channel = s.page.channel /\ T.polling = s.page.polling
        /\ T.signing = s.page.signing /\ T.decoding = s.page.decoding
        /\ T.shown = s.page.shown /\ T.verdict = s.page.verdict
        /\ T.recording = s.page.recording /\ T.archiving = s.page.archiving
        /\ T.archive = s.page.archive
    BY <1>1 DEF VideoGood, VideoShaped, PageNames
  <2> HIDE DEF T
  <2>6. VideoShaped(u) /\ u.page = T /\ u.devices = s.devices /\ u.inFlight = s.inFlight
        /\ u.downloaded = s.downloaded
    BY <1>1, <2>5, PageSet DEF VideoGood
  <2> HIDE DEF u
  <2>7. CameraGood(u)
    <3>1. \A y \in u.page.starting : y.generation # u.page.cameraGeneration
      BY <1>1, <1>3, <2>2, <2>5, <2>6
    <3> QED BY <2>4, <2>5, <2>6, <3>1 DEF CameraGood
  <2>8. AttemptsGood(u)
    BY <2>4, <2>5, <2>6 DEF AttemptsGood
  <2>9. ShownGood(u) /\ HeldGood(u) /\ VideoKeeps(s, u)
    <3>1. SameHeld(s, u)
      BY <2>5, <2>6 DEF SameHeld
    <3> QED BY <2>4, <2>5, <2>6, <3>1, VideoKeepsLaws DEF ShownGood
  <2>10. /\ u.page.active = TRUE /\ u.page.transport = "none" /\ u.page.transportGeneration # 0
         /\ SocketsNone(u) /\ PeerNone(u) /\ NoAttempt(u)
    BY <2>3, <2>4, <2>5, <2>6 DEF CameraOff, SocketsNone, PeerNone, NoAttempt
  <2>11. VideoShaped(c) /\ SameCamera(u, c) /\ SameTransport(u, c) /\ SameInFlight(u, c)
         /\ SameHeld(u, c) /\ c.page.verdict = NoArtifact
         /\ c.page.signing = u.page.signing /\ c.page.decoding = u.page.decoding
         /\ c.page.shown = u.page.shown
    BY <2>6, ClearVerdictFields
  <2> HIDE DEF c
  <2>12. CameraGood(c) /\ AttemptsGood(c) /\ ShownGood(c) /\ HeldGood(c) /\ VideoKeeps(u, c)
    BY <2>7, <2>8, <2>9, <2>11, VideoPartsKept, VideoKeepsLaws
  <2>13. /\ c.page.active = TRUE /\ c.page.transport = "none" /\ c.page.transportGeneration # 0
         /\ SocketsNone(c) /\ PeerNone(c) /\ NoAttempt(c)
    BY <2>10, <2>11 DEF SameCamera, SameTransport, SocketsNone, PeerNone, NoAttempt
  <2>14. VideoGood(t) /\ VideoKeeps(c, t)
    BY <2>11, <2>12, <2>13, ConnectGood
  <2>15. VideoKeeps(State, t)
    BY <1>1, <2>9, <2>12, <2>14, VideoKeepsLaws
  <2> HIDE DEF t
  <2> QED BY <2>1, <2>14, <2>15, BecomesInv
<1> QED BY <1>2, <1>3

\* All but the sockets, the signing request and what is on its way.
SameLink(s, t) ==
  /\ SameCamera(s, t) /\ SameHeld(s, t)
  /\ t.page.transportGeneration = s.page.transportGeneration
  /\ t.page.transport = s.page.transport
  /\ t.page.fallback = s.page.fallback /\ t.page.preference = s.page.preference
  /\ t.page.lost = s.page.lost /\ t.page.attempts = s.page.attempts
  /\ t.page.pc = s.page.pc /\ t.page.channel = s.page.channel
  /\ t.page.polling = s.page.polling /\ t.devices.peers = s.devices.peers

\* A socket of a running camera may be opening, open or waiting to reconnect.
LEMMA SocketStep ==
  ASSUME NEW s, VideoGood(s), NEW k \in Kinds, s.page.sockets[k] # NoSocket,
         NEW v, Usable(v), NEW t, VideoShaped(t), SameLink(s, t),
         t.page.sockets = [s.page.sockets EXCEPT ![k] = v]
  PROVE  CameraGood(t) /\ AttemptsGood(t) /\ PhaseGood(t) /\ HeldGood(t) /\ VideoKeeps(s, t)
<1>0. CameraGood(s) /\ AttemptsGood(s) /\ PhaseGood(s) /\ HeldGood(s) /\ VideoShaped(s)
  BY DEF VideoGood
<1>1. CameraGood(t)
  BY <1>0, VideoPartsKept DEF SameLink
<1>2. AttemptsGood(t)
  BY <1>0 DEF AttemptsGood, SameLink, SameCamera
<1>3. OverSockets(s)
  BY <1>0 DEF PhaseGood, CameraOff, Connecting, OverChannel, Down, SocketsNone
<1>4. \A j \in Kinds : Usable(t.page.sockets[j])
  BY <1>0, <1>3 DEF OverSockets, VideoShaped
<1>5. PhaseGood(t)
  BY <1>3, <1>4 DEF PhaseGood, OverSockets, SameLink, SameCamera, PeerNone, NoAttempt
<1> QED BY <1>0, <1>1, <1>2, <1>5, VideoKeepsLaws DEF SameLink

SocketIs(s, k, v) == [s EXCEPT !.page.sockets[k] = v]

\* What changing one socket changes.
LEMMA SocketIsFields ==
  ASSUME NEW s, VideoShaped(s), NEW k \in Kinds, NEW v
  PROVE  LET t == SocketIs(s, k, v) IN
         /\ VideoShaped(t) /\ SameLink(s, t) /\ SameInFlight(s, t) /\ SameSignature(s, t)
         /\ t.page.sockets = [s.page.sockets EXCEPT ![k] = v]
<1> DEFINE K == [s.page.sockets EXCEPT ![k] = v]
           T == [s.page EXCEPT !.sockets = K]
           t == [s EXCEPT !.page = T]
<1>1. SocketIs(s, k, v) = t
  BY DEF SocketIs, VideoShaped, PageNames
<1>2. DOMAIN K = Kinds
  BY DEF VideoShaped
<1> HIDE DEF K
<1>4. /\ DOMAIN T = PageNames /\ T.sockets = K /\ T.lost = s.page.lost
      /\ T.cameraGeneration = s.page.cameraGeneration /\ T.active = s.page.active
      /\ T.stream = s.page.stream /\ T.starting = s.page.starting
      /\ T.transportGeneration = s.page.transportGeneration
      /\ T.transport = s.page.transport /\ T.fallback = s.page.fallback
      /\ T.preference = s.page.preference /\ T.attempts = s.page.attempts
      /\ T.pc = s.page.pc /\ T.channel = s.page.channel /\ T.polling = s.page.polling
      /\ T.signing = s.page.signing /\ T.decoding = s.page.decoding
      /\ T.shown = s.page.shown /\ T.verdict = s.page.verdict
      /\ T.recording = s.page.recording /\ T.archiving = s.page.archiving
      /\ T.archive = s.page.archive
  BY DEF VideoShaped, PageNames
<1> HIDE DEF T
<1>5. VideoShaped(t) /\ t.page = T /\ t.devices = s.devices /\ t.inFlight = s.inFlight
      /\ t.downloaded = s.downloaded
  BY <1>2, <1>4, PageSet
<1> HIDE DEF t
<1> QED BY <1>1, <1>4, <1>5
        DEF SameLink, SameCamera, SameHeld, SameInFlight, SameSignature, K

Opened(k) == [state |-> "open", polling |-> k = "decode"]
Closed == [state |-> "closed", polling |-> FALSE]

\* A socket opens.
LEMMA SocketOpensInv ==
  ASSUME VideoInv, NEW k \in Kinds, SocketOpens(k)
  PROVE  VideoInv'
<1> DEFINE s == State
           v == Opened(k)
           a == SocketIs(s, k, v)
           c == ClearSigningRequest(a)
<1>1. VideoGood(s) /\ s.page = page
  BY InvGood, StateFields
<1>2. /\ Becomes(a) \/ Becomes(c)
      /\ UNCHANGED server \/ server' = [server EXCEPT !.index = 0]
  BY DEF SocketOpens, SocketIs, Opened
<1>3. Usable(v)
  BY DEF Usable, Opened
<1>4. s.page.sockets[k] # NoSocket
  BY <1>1 DEF SocketOpens, NoSocket
<1> HIDE DEF s, v
<1>5. /\ VideoShaped(a) /\ SameLink(s, a) /\ SameInFlight(s, a) /\ SameSignature(s, a)
      /\ a.page.sockets = [s.page.sockets EXCEPT ![k] = v]
  BY <1>1, SocketIsFields DEF VideoGood
<1> HIDE DEF a
<1>6. CameraGood(a) /\ AttemptsGood(a) /\ PhaseGood(a) /\ HeldGood(a) /\ VideoKeeps(s, a)
  BY <1>1, <1>3, <1>4, <1>5, SocketStep
<1>7. ShownGood(a)
  BY <1>1, <1>5 DEF VideoGood, ShownGood, SameInFlight, SameSignature
<1>8. VideoGood(a)
  BY <1>5, <1>6, <1>7 DEF VideoGood
<1>9. /\ VideoShaped(c) /\ c.page.signing = "idle" /\ c.page.decoding = {}
      /\ SameCamera(a, c) /\ SameTransport(a, c) /\ SameInFlight(a, c) /\ SameHeld(a, c)
      /\ c.page.verdict = a.page.verdict /\ c.page.shown = a.page.shown
  BY <1>5, ClearSigningFields
<1> HIDE DEF c
<1>10. ShownGood(c)
  BY <1>7, <1>9 DEF ShownGood, SameInFlight
<1>11. VideoGood(c) /\ VideoKeeps(a, c)
  BY <1>8, <1>9, <1>10, ShownStep
<1>12. VideoKeeps(s, c)
  BY <1>6, <1>11, VideoKeepsLaws
<1> QED BY <1>2, <1>6, <1>8, <1>11, <1>12, BecomesInv DEF s

\* A socket closes, with what was on its way over it.
LEMMA SocketClosesInv ==
  ASSUME VideoInv, NEW k \in Kinds, SocketCloses(k)
  PROVE  VideoInv'
<1> DEFINE s == State
           a == SocketIs(s, k, Closed)
           X == IF k = "encode" THEN <<>> ELSE s.inFlight.frames
           Y == IF k = "decode" THEN NoArtifact ELSE s.inFlight.told
           F == [s.inFlight EXCEPT !.frames = X, !.told = Y]
           b == [a EXCEPT !.inFlight = F]
           c == ClearSigningRequest(b)
           d == ClearVideoVerification(c)
<1>1. VideoGood(s) /\ s.page = page
  BY InvGood, StateFields
<1>4. s.page.sockets[k] # NoSocket /\ Usable(Closed)
  BY <1>1 DEF SocketCloses, NoSocket, Usable, Closed
<1>5. /\ VideoShaped(a) /\ SameLink(s, a) /\ SameInFlight(s, a) /\ SameSignature(s, a)
      /\ a.page.sockets = [s.page.sockets EXCEPT ![k] = Closed]
  BY <1>1, SocketIsFields DEF VideoGood
<1>2. Becomes(d) /\ UNCHANGED server
  <2>1. [s EXCEPT !.page.sockets[k] = [state |-> "closed", polling |-> FALSE],
                  !.inFlight.frames = IF k = "encode" THEN <<>> ELSE @,
                  !.inFlight.told = IF k = "decode" THEN NoArtifact ELSE @]
          = [s EXCEPT !.page.sockets[k] = Closed, !.inFlight.frames = X, !.inFlight.told = Y]
    BY DEF Closed
  <2>2. [s EXCEPT !.page.sockets[k] = Closed, !.inFlight.frames = X, !.inFlight.told = Y] = b
    <3> HIDE DEF X, Y
    <3> QED BY <1>1 DEF SocketIs, VideoGood, VideoShaped, PageNames
  <2> QED BY <2>1, <2>2 DEF SocketCloses
<1> HIDE DEF s
<1>6. ShownGood(s)
  BY <1>1 DEF VideoGood
<1>3. F.frames = X /\ F.told = Y /\ DOMAIN F = {"frames", "told"}
  <2> HIDE DEF X, Y
  <2> QED BY <1>1 DEF VideoGood, VideoShaped
<1>7. F.frames \in Seq(Artifacts) /\ F.told \in Artifacts
  <2>1. <<>> \in Seq(Artifacts) /\ NoArtifact \in Artifacts
    BY DEF NoArtifact, Artifacts
  <2> HIDE DEF F
  <2>2. F.frames \in Seq(Artifacts)
    BY <1>6, <1>3, <2>1 DEF ShownGood
  <2>3. F.told \in Artifacts
    BY <1>6, <1>3, <2>1 DEF ShownGood
  <2> QED BY <2>2, <2>3
<1>8. DOMAIN F = {"frames", "told"}
  BY <1>3
<1> HIDE DEF a, F
<1>9. VideoShaped(b) /\ b.page = a.page /\ b.devices = a.devices /\ b.inFlight = F
      /\ b.downloaded = a.downloaded
  BY <1>5, <1>8 DEF VideoShaped
<1> HIDE DEF b
<1>10. SameLink(s, b) /\ b.page.sockets = [s.page.sockets EXCEPT ![k] = Closed]
  BY <1>5, <1>9 DEF SameLink, SameCamera, SameHeld
<1>11. CameraGood(b) /\ AttemptsGood(b) /\ PhaseGood(b) /\ HeldGood(b) /\ VideoKeeps(s, b)
  BY <1>1, <1>4, <1>9, <1>10, SocketStep
<1>12. ShownGood(b)
  BY <1>5, <1>6, <1>7, <1>9 DEF ShownGood, SameSignature
<1>13. VideoGood(b)
  BY <1>9, <1>11, <1>12 DEF VideoGood
<1>14. /\ VideoShaped(c) /\ c.page.signing = "idle" /\ c.page.decoding = {}
       /\ SameCamera(b, c) /\ SameTransport(b, c) /\ SameInFlight(b, c) /\ SameHeld(b, c)
       /\ c.page.verdict = b.page.verdict /\ c.page.shown = b.page.shown
  BY <1>9, ClearSigningFields
<1> HIDE DEF c
<1>15. ShownGood(c)
  BY <1>12, <1>14 DEF ShownGood, SameInFlight
<1>16. VideoGood(c) /\ VideoKeeps(b, c)
  BY <1>13, <1>14, <1>15, ShownStep
<1>17. VideoShaped(d) /\ SameCamera(c, d) /\ SameTransport(c, d) /\ SameInFlight(c, d)
       /\ SameHeld(c, d) /\ d.page.verdict = NoArtifact
       /\ d.page.signing = c.page.signing /\ d.page.decoding = c.page.decoding
       /\ d.page.shown = c.page.shown
  BY <1>14, ClearVerdictFields
<1> HIDE DEF d
<1>18. VideoGood(d) /\ VideoKeeps(c, d)
  BY <1>15, <1>16, <1>17, VideoPartsKept, ShownStep
<1>19. VideoKeeps(s, d)
  BY <1>11, <1>16, <1>18, VideoKeepsLaws
<1> QED BY <1>2, <1>18, <1>19, BecomesInv DEF s

\* Its reconnect timer fires.
LEMMA ReconnectsInv ==
  ASSUME VideoInv, NEW k \in Kinds, Reconnects(k)
  PROVE  VideoInv'
<1> DEFINE s == State
           t == ConnectVideoSocket(s, k)
<1>1. VideoGood(s) /\ s.page = page /\ s.page.lost = FALSE
  BY InvGood, StateFields DEF VideoGood, AttemptsGood
<1>2. Becomes(t) /\ UNCHANGED server /\ s.page.sockets[k].state = "closed"
  BY <1>1 DEF Reconnects
<1> HIDE DEF s
<1>3. /\ VideoShaped(t) /\ SameOthers(s, t)
      /\ t.page.sockets = [s.page.sockets EXCEPT ![k] = Opening]
      /\ t.page.lost = FALSE
      /\ t.page.transport = s.page.transport /\ t.page.attempts = s.page.attempts
  BY <1>1, <1>2, ConnectSocketFields DEF VideoGood
<1> HIDE DEF t
<1>4. SameLink(s, t) /\ Usable(Opening) /\ s.page.sockets[k] # NoSocket
  <2>1. SameLink(s, t)
    BY <1>1, <1>3 DEF SameLink, SameOthers
  <2>2. Usable(Opening)
    BY DEF Usable, Opening
  <2>3. s.page.sockets[k] # NoSocket
    BY <1>2 DEF NoSocket
  <2> QED BY <2>1, <2>2, <2>3
<1>5. CameraGood(t) /\ AttemptsGood(t) /\ PhaseGood(t) /\ HeldGood(t) /\ VideoKeeps(s, t)
  BY <1>1, <1>3, <1>4, SocketStep
<1>6. ShownGood(t)
  BY <1>1, <1>3 DEF VideoGood, ShownGood, SameOthers, SameInFlight
<1>7. VideoGood(t)
  BY <1>3, <1>5, <1>6 DEF VideoGood
<1> QED BY <1>2, <1>5, <1>7, BecomesInv DEF s

\* A signing request times out, and the transport starts again.
LEMMA SigningTimesOutInv ==
  ASSUME VideoInv, SigningTimesOut
  PROVE  VideoInv'
<1> DEFINE u == StopTransport(State)
           t == IF u.page.active THEN ConnectTransport(u) ELSE u
<1>1. VideoGood(State)
  BY InvGood
<1>2. /\ VideoShaped(u) /\ CameraGood(u) /\ AttemptsGood(u) /\ ShownGood(u) /\ HeldGood(u)
      /\ VideoKeeps(State, u) /\ Quiet(u) /\ u.page.transportGeneration # 0
  BY <1>1, StopTransportGood DEF VideoGood
<1>3. Becomes(t) /\ UNCHANGED server
  BY DEF SigningTimesOut
<1> HIDE DEF u
<1>4. CASE u.page.active = TRUE
  <2> DEFINE c == ConnectTransport(u)
  <2>1. VideoGood(c) /\ VideoKeeps(u, c)
    BY <1>2, <1>4, ConnectGood DEF Quiet
  <2>2. t = c
    BY <1>4
  <2> HIDE DEF c, t
  <2> QED BY <1>2, <1>3, <2>1, <2>2, VideoKeepsLaws, BecomesInv
<1>5. CASE u.page.active = FALSE
  <2>1. VideoGood(u)
    BY <1>2, <1>5 DEF VideoGood, PhaseGood, CameraOff, Quiet
  <2>2. t = u
    BY <1>5
  <2> HIDE DEF t
  <2> QED BY <1>2, <1>3, <2>1, <2>2, BecomesInv
<1>6. u.page.active \in BOOLEAN
  BY <1>2 DEF CameraGood
<1> QED BY <1>4, <1>5, <1>6

\* The user chooses another transport.
LEMMA ChooseTransportInv ==
  ASSUME VideoInv, NEW preference \in Preferences, ChooseTransport(preference)
  PROVE  VideoInv'
<1> DEFINE b == StopTransport(State)
           T == [b.page EXCEPT !.preference = preference, !.fallback = FALSE]
           u == [b EXCEPT !.page = T]
           c == ConnectTransport(u)
<1>1. VideoGood(State)
  BY InvGood
<1>2. /\ VideoShaped(b) /\ CameraGood(b) /\ AttemptsGood(b) /\ ShownGood(b) /\ HeldGood(b)
      /\ VideoKeeps(State, b) /\ Quiet(b) /\ b.page.transportGeneration # 0
  BY <1>1, StopTransportGood DEF VideoGood
<1>3. UNCHANGED server /\ (u.page.active = TRUE => Becomes(c)) /\ (u.page.active = FALSE => Becomes(u))
  <2>1. [b EXCEPT !.page.preference = preference, !.page.fallback = FALSE] = u
    BY <1>2 DEF VideoShaped, PageNames
  <2> QED BY <2>1 DEF ChooseTransport
<1> HIDE DEF b
<1>4. /\ DOMAIN T = PageNames /\ DOMAIN T.sockets = Kinds
      /\ T.active = b.page.active /\ T.preference = preference
      /\ T.starting = b.page.starting /\ T.stream = b.page.stream
      /\ T.cameraGeneration = b.page.cameraGeneration
      /\ T.transportGeneration = b.page.transportGeneration
      /\ T.transport = b.page.transport /\ T.sockets = b.page.sockets
      /\ T.lost = b.page.lost /\ T.attempts = b.page.attempts
      /\ T.pc = b.page.pc /\ T.channel = b.page.channel /\ T.polling = b.page.polling
      /\ T.signing = b.page.signing /\ T.decoding = b.page.decoding
      /\ T.shown = b.page.shown /\ T.verdict = b.page.verdict
      /\ T.recording = b.page.recording /\ T.archiving = b.page.archiving
      /\ T.archive = b.page.archive
  BY <1>2 DEF VideoShaped, PageNames
<1> HIDE DEF T
<1>5. VideoShaped(u) /\ u.page = T /\ u.devices = b.devices /\ u.inFlight = b.inFlight
      /\ u.downloaded = b.downloaded
  BY <1>2, <1>4, PageSet
<1> HIDE DEF u
<1>6. /\ SameCamera(b, u) /\ SameHeld(b, u) /\ SameInFlight(b, u) /\ SameSignature(b, u)
  BY <1>4, <1>5 DEF SameCamera, SameHeld, SameInFlight, SameSignature
<1>7. CameraGood(u)
  BY <1>2, <1>6, VideoPartsKept
<1>8. AttemptsGood(u)
  BY <1>2, <1>4, <1>5 DEF AttemptsGood
<1>9. ShownGood(u)
  BY <1>2, <1>6 DEF ShownGood, SameInFlight, SameSignature
<1>10. HeldGood(u) /\ VideoKeeps(b, u)
  BY <1>2, <1>6, VideoKeepsLaws
<1>11. Quiet(u) /\ u.page.transportGeneration # 0
  BY <1>2, <1>4, <1>5 DEF Quiet, SocketsNone, PeerNone, NoAttempt
<1>12. VideoKeeps(State, u)
  BY <1>2, <1>10, VideoKeepsLaws
<1>13. CASE u.page.active = TRUE
  <2>1. VideoGood(c) /\ VideoKeeps(u, c)
    BY <1>5, <1>7, <1>8, <1>9, <1>10, <1>11, <1>13, ConnectGood DEF Quiet
  <2> HIDE DEF c
  <2> QED BY <1>3, <1>12, <1>13, <2>1, VideoKeepsLaws, BecomesInv
<1>14. CASE u.page.active = FALSE
  <2>1. VideoGood(u)
    BY <1>5, <1>7, <1>8, <1>9, <1>10, <1>11, <1>14 DEF VideoGood, PhaseGood, CameraOff, Quiet
  <2> QED BY <1>3, <1>12, <1>14, <2>1, BecomesInv
<1>15. u.page.active \in BOOLEAN
  BY <1>7 DEF CameraGood
<1> QED BY <1>13, <1>14, <1>15

\* A step that leaves the camera, the request and the archive alone.
LEMMA LinkStep ==
  ASSUME NEW s, VideoGood(s), NEW t, VideoShaped(t), SameCamera(s, t), SameHeld(s, t),
         SameInFlight(s, t), SameSignature(s, t)
  PROVE  /\ CameraGood(t) /\ ShownGood(t) /\ HeldGood(t) /\ VideoKeeps(s, t)
         /\ AttemptsGood(t) /\ PhaseGood(t) => VideoGood(t)
<1>1. CameraGood(t) /\ HeldGood(t) /\ VideoKeeps(s, t)
  BY VideoPartsKept, VideoKeepsLaws DEF VideoGood
<1>2. ShownGood(t)
  BY DEF VideoGood, ShownGood, SameInFlight, SameSignature
<1> QED BY <1>1, <1>2 DEF VideoGood

\* All but the attempts.
SameButAttempts(s, t) ==
  /\ SameCamera(s, t) /\ SameHeld(s, t) /\ SameInFlight(s, t) /\ SameSignature(s, t)
  /\ t.page.transportGeneration = s.page.transportGeneration
  /\ t.page.transport = s.page.transport /\ t.page.fallback = s.page.fallback
  /\ t.page.preference = s.page.preference /\ t.page.sockets = s.page.sockets
  /\ t.page.lost = s.page.lost /\ t.page.pc = s.page.pc /\ t.page.channel = s.page.channel
  /\ t.page.polling = s.page.polling

\* What the end of an attempt changes.
LEMMA EndedFields ==
  ASSUME VideoInv, NEW a \in page.attempts
  PROVE  LET s == State
             t == Ended(a)
         IN /\ VideoShaped(t) /\ SameButAttempts(s, t) /\ t.devices.peers = s.devices.peers
            /\ t.page.attempts = s.page.attempts \ {a}
            /\ CameraGood(t) /\ ShownGood(t) /\ HeldGood(t) /\ VideoKeeps(s, t) /\ AttemptsGood(t)
            /\ a \in Attempts
<1> DEFINE s == State
           t == Ended(a)
<1>1. VideoGood(s) /\ a \in s.page.attempts
  BY InvGood, StateFields
<1>2. t = [s EXCEPT !.page.attempts = @ \ {a}]
  BY DEF Ended
<1> HIDE DEF s, t
<1>3. /\ VideoShaped(t) /\ SameButAttempts(s, t) /\ t.devices.peers = s.devices.peers
      /\ t.page.attempts = s.page.attempts \ {a}
  BY <1>1, <1>2 DEF VideoGood, VideoShaped, PageNames, SameButAttempts, SameCamera, SameHeld,
                    SameInFlight, SameSignature
<1>4. CameraGood(t) /\ ShownGood(t) /\ HeldGood(t) /\ VideoKeeps(s, t)
  BY <1>1, <1>3, LinkStep DEF SameButAttempts
<1>5. AttemptsGood(t)
  BY <1>1, <1>3 DEF VideoGood, AttemptsGood, SameButAttempts, SameCamera
<1>6. a \in Attempts
  BY <1>1 DEF VideoGood, AttemptsGood
<1> QED BY <1>3, <1>4, <1>5, <1>6 DEF s, t

\* The attempt of a transport that was stopped ends, with or without its peer.
LEMMA LateAttempt ==
  ASSUME VideoInv, NEW a \in page.attempts, ~ IsCurrent(a)
  PROVE  /\ VideoGood(Ended(a)) /\ VideoKeeps(State, Ended(a))
         /\ VideoGood(ClosePeer(Ended(a), a)) /\ VideoKeeps(State, ClosePeer(Ended(a), a))
<1> DEFINE s == State
           t == Ended(a)
           c == ClosePeer(t, a)
<1>1. VideoGood(s) /\ s.page = page
  BY InvGood, StateFields
<1>2. /\ VideoShaped(t) /\ SameButAttempts(s, t) /\ t.devices.peers = s.devices.peers
      /\ t.page.attempts = s.page.attempts \ {a}
      /\ CameraGood(t) /\ ShownGood(t) /\ HeldGood(t) /\ VideoKeeps(s, t) /\ AttemptsGood(t)
  BY EndedFields
<1>3. c = [t EXCEPT !.devices.peers = @ \ {a.generation}]
  BY DEF ClosePeer
<1>4. s.page.active \in BOOLEAN /\ a \in s.page.attempts
      /\ (s.page.active = FALSE \/ a.generation # s.page.transportGeneration)
  BY <1>1 DEF IsCurrent, VideoGood, CameraGood
<1> HIDE DEF s, t, c
<1>5. CameraOff(s) => CameraOff(t)
  BY <1>2 DEF CameraOff, SameButAttempts, SameCamera, SameSignature, SocketsNone, PeerNone, NoAttempt
<1>6. OverSockets(s) => OverSockets(t)
  BY <1>2 DEF OverSockets, SameButAttempts, SameCamera, PeerNone, NoAttempt
<1>7. Connecting(s) => Connecting(t)
  <2> SUFFICES ASSUME Connecting(s) PROVE Connecting(t)
    OBVIOUS
  <2>1. a.generation # s.page.transportGeneration
    BY <1>4 DEF Connecting
  <2>2. PICK b \in s.page.attempts : b.generation = s.page.transportGeneration
    BY DEF Connecting
  <2>3. b \in t.page.attempts /\ t.page.transportGeneration = s.page.transportGeneration
    BY <1>2, <2>1, <2>2 DEF SameButAttempts
  <2>4. \E d \in t.page.attempts : d.generation = t.page.transportGeneration
    BY <2>2, <2>3
  <2> QED BY <1>2, <2>4 DEF Connecting, SameButAttempts, SameCamera, SocketsNone
<1>8. OverChannel(s) => OverChannel(t)
  BY <1>2 DEF OverChannel, SameButAttempts, SameCamera, SocketsNone, NoAttempt
<1>9. Down(s) => Down(t)
  BY <1>2 DEF Down, SameButAttempts, SameCamera, SocketsNone, PeerNone, NoAttempt
<1>10. VideoGood(t)
  BY <1>1, <1>2, <1>5, <1>6, <1>7, <1>8, <1>9 DEF VideoGood, PhaseGood
<1>11. /\ VideoShaped(c) /\ SameButAttempts(t, c) /\ c.page.attempts = t.page.attempts
       /\ c.devices.peers = t.devices.peers \ {a.generation}
  BY <1>2, <1>3 DEF VideoShaped, SameButAttempts, SameCamera, SameHeld, SameInFlight, SameSignature
<1>12. PhaseGood(c)
  <2>1. PhaseGood(t)
    BY <1>10 DEF VideoGood
  <2>2. CASE CameraOff(t)
    BY <1>11, <2>2 DEF PhaseGood, CameraOff, SameButAttempts, SameCamera, SameSignature,
                       SocketsNone, PeerNone, NoAttempt
  <2>3. CASE OverSockets(t)
    BY <1>11, <2>3 DEF PhaseGood, OverSockets, SameButAttempts, SameCamera, PeerNone, NoAttempt
  <2>4. CASE Connecting(t)
    BY <1>11, <2>4 DEF PhaseGood, Connecting, SameButAttempts, SameCamera, SocketsNone
  <2>5. CASE OverChannel(t)
    BY <1>11, <2>5 DEF PhaseGood, OverChannel, SameButAttempts, SameCamera, SocketsNone, NoAttempt
  <2>6. CASE Down(t)
    BY <1>11, <2>6 DEF PhaseGood, Down, SameButAttempts, SameCamera, SocketsNone, PeerNone, NoAttempt
  <2> QED BY <2>1, <2>2, <2>3, <2>4, <2>5, <2>6 DEF PhaseGood
<1>13. AttemptsGood(c)
  BY <1>10, <1>11 DEF VideoGood, AttemptsGood, SameButAttempts, SameCamera
<1>14. VideoGood(c) /\ VideoKeeps(t, c)
  BY <1>10, <1>11, <1>12, <1>13, LinkStep DEF SameButAttempts
<1> QED BY <1>2, <1>10, <1>14, VideoKeepsLaws DEF s, t, c

\* While an attempt is the current one, nothing else connects.
LEMMA CurrentAttempt ==
  ASSUME VideoInv, NEW a \in page.attempts, IsCurrent(a)
  PROVE  LET t == Ended(a) IN
         /\ t.page.active = TRUE /\ t.page.transport = "none"
         /\ SocketsNone(t) /\ t.page.polling = FALSE /\ t.page.channel # "open"
         /\ t.page.preference \in {"auto", "webrtc"} /\ NoAttempt(t)
         /\ a.generation = t.page.transportGeneration /\ a.generation \in Nat \ {0}
         /\ a.at = "config" => t.devices.peers = {}
<1> DEFINE s == State
           t == Ended(a)
<1>1. VideoGood(s) /\ s.page = page
  BY InvGood, StateFields
<1>2. /\ VideoShaped(t) /\ SameButAttempts(s, t) /\ t.devices.peers = s.devices.peers
      /\ t.page.attempts = s.page.attempts \ {a} /\ a \in Attempts
  BY EndedFields
<1>3. /\ s.page.active = TRUE /\ a \in s.page.attempts
      /\ a.generation = s.page.transportGeneration
  BY <1>1 DEF IsCurrent, VideoGood, CameraGood
<1> HIDE DEF s, t
<1>4. Connecting(s)
  BY <1>1, <1>3 DEF VideoGood, PhaseGood, CameraOff, OverSockets, OverChannel, Down, NoAttempt
<1>5. NoAttempt(t)
  <2>1. \A b \in s.page.attempts : b.generation = a.generation => a = b
    BY <1>1, <1>3 DEF VideoGood, AttemptsGood
  <2> QED BY <1>2, <1>3, <2>1 DEF NoAttempt, SameButAttempts
<1>6. a.at = "config" => t.devices.peers = {}
  BY <1>1, <1>2, <1>3, <1>4 DEF Connecting, VideoGood, AttemptsGood
<1>7. a.generation \in Nat \ {0}
  BY <1>2 DEF Attempts
<1> QED BY <1>2, <1>3, <1>4, <1>5, <1>6, <1>7
        DEF Connecting, SocketsNone, SameButAttempts, SameCamera, t

Moved(a, at) == [a EXCEPT !.at = at]

\* It goes on, as what it awaits is answered.
LEMMA NextAttempt ==
  ASSUME VideoInv, NEW a \in page.attempts, IsCurrent(a), NEW at \in {"gathering", "offering", "opening"},
         NEW t, VideoShaped(t), SameCamera(Ended(a), t), SameHeld(Ended(a), t),
         SameInFlight(Ended(a), t), SameSignature(Ended(a), t),
         t.page.transportGeneration = page.transportGeneration,
         t.page.transport = "none", t.page.preference = page.preference,
         t.page.sockets = Ended(a).page.sockets, t.page.lost = FALSE,
         t.page.attempts = Ended(a).page.attempts \cup {Moved(a, at)},
         t.page.channel # "open", t.page.polling = FALSE,
         t.devices.peers \subseteq {t.page.pc} \ {0}
  PROVE  VideoGood(t) /\ VideoKeeps(State, t)
<1> DEFINE e == Ended(a)
           m == Moved(a, at)
<1>0. State.page = page
  BY StateFields
<1>1. /\ VideoShaped(e) /\ SameButAttempts(State, e)
      /\ e.page.attempts = State.page.attempts \ {a}
      /\ CameraGood(e) /\ ShownGood(e) /\ HeldGood(e) /\ VideoKeeps(State, e) /\ AttemptsGood(e)
      /\ a \in Attempts
  BY EndedFields
<1>2. /\ e.page.active = TRUE /\ e.page.transport = "none"
      /\ SocketsNone(e) /\ e.page.preference \in {"auto", "webrtc"} /\ NoAttempt(e)
      /\ a.generation = e.page.transportGeneration /\ a.generation \in Nat \ {0}
  BY CurrentAttempt
<1>3. m \in Attempts /\ m.generation = a.generation /\ m.at # "config"
  BY <1>1 DEF Moved, Attempts
<1>4. /\ e.page.transportGeneration = page.transportGeneration
      /\ e.page.preference = page.preference
  BY <1>0, <1>1 DEF SameButAttempts
<1> HIDE DEF e, m
<1>5. /\ SameCamera(e, t) /\ SameHeld(e, t) /\ SameInFlight(e, t) /\ SameSignature(e, t)
      /\ t.page.sockets = e.page.sockets /\ t.page.attempts = e.page.attempts \cup {m}
      /\ t.page.transportGeneration = e.page.transportGeneration
      /\ t.page.preference = e.page.preference
  BY <1>4 DEF e, m
<1>6. CameraGood(t) /\ HeldGood(t) /\ VideoKeeps(e, t)
  BY <1>1, <1>5, VideoPartsKept, VideoKeepsLaws
<1>7. ShownGood(t)
  BY <1>1, <1>5 DEF ShownGood, SameInFlight, SameSignature
<1>8. AttemptsGood(t)
  <2>1. t.page.attempts \subseteq Attempts
    BY <1>1, <1>3, <1>5 DEF AttemptsGood
  <2>2. \A b \in t.page.attempts : b.generation <= t.page.transportGeneration
    BY <1>1, <1>2, <1>3, <1>5 DEF AttemptsGood
  <2>3. \A b \in e.page.attempts : b.generation # m.generation
    BY <1>2, <1>3 DEF NoAttempt
  <2>4. \A b, c \in t.page.attempts : b.generation = c.generation => b = c
    BY <1>1, <1>5, <2>3 DEF AttemptsGood
  <2> QED BY <1>1, <1>5, <2>1, <2>2, <2>4 DEF AttemptsGood, SameCamera
<1>9. PhaseGood(t)
  <2>1. m \in t.page.attempts /\ m.generation = t.page.transportGeneration
    BY <1>2, <1>3, <1>5
  <2>2. \A b \in t.page.attempts : b.generation = t.page.transportGeneration => b.at # "config"
    BY <1>2, <1>3, <1>5 DEF NoAttempt
  <2> QED BY <1>2, <1>5, <2>1, <2>2 DEF PhaseGood, Connecting, SocketsNone, SameCamera
<1> QED BY <1>1, <1>6, <1>7, <1>8, <1>9, VideoKeepsLaws DEF VideoGood

\* The candidates are gathered or the offer is answered in time.
LEMMA ReachesInv ==
  ASSUME VideoInv, NEW a \in page.attempts, IsCurrent(a), NEW at \in {"offering", "opening"},
         Becomes(Reaches(Ended(a), a, at)), UNCHANGED server
  PROVE  VideoInv'
<1> DEFINE e == Ended(a)
           m == Moved(a, at)
           t == Reaches(e, a, at)
<1>0. VideoGood(State) /\ State.page = page
  BY InvGood, StateFields
<1>1. /\ VideoShaped(e) /\ SameButAttempts(State, e) /\ e.devices.peers = State.devices.peers
      /\ AttemptsGood(e)
  BY EndedFields
<1>2. e.page.transport = "none" /\ e.page.polling = FALSE /\ e.page.channel # "open"
  BY CurrentAttempt
<1>3. t = [e EXCEPT !.page.attempts = @ \cup {m}]
  BY DEF Reaches, Moved
<1> HIDE DEF e, m, t
<1>4. /\ VideoShaped(t) /\ SameButAttempts(e, t) /\ t.devices.peers = e.devices.peers
      /\ t.page.attempts = e.page.attempts \cup {m}
  BY <1>1, <1>3 DEF VideoShaped, PageNames, SameButAttempts, SameCamera, SameHeld,
                    SameInFlight, SameSignature
<1>5. /\ t.page.transportGeneration = page.transportGeneration
      /\ t.page.transport = "none" /\ t.page.preference = page.preference
      /\ t.page.sockets = e.page.sockets /\ t.page.lost = FALSE
      /\ t.page.channel # "open" /\ t.page.polling = FALSE
      /\ t.devices.peers \subseteq {t.page.pc} \ {0}
  BY <1>0, <1>1, <1>2, <1>4 DEF SameButAttempts, AttemptsGood
<1>6. VideoGood(t) /\ VideoKeeps(State, t)
  BY <1>4, <1>5, NextAttempt DEF SameButAttempts, e, m
<1> QED BY <1>6, BecomesInv DEF t, e

\* And the same when the attempt may be out of date.
LEMMA GatheredInv ==
  ASSUME VideoInv, NEW a \in page.attempts, Gathered(a) \/ OfferAnswered(a)
  PROVE  VideoInv'
<1>1. CASE ~ IsCurrent(a)
  <2>1. Becomes(ClosePeer(Ended(a), a)) /\ UNCHANGED server
    BY <1>1 DEF Gathered, OfferAnswered
  <2> QED BY <1>1, <2>1, LateAttempt, BecomesInv
<1>2. CASE IsCurrent(a)
  <2>1. UNCHANGED server /\ (\/ Becomes(Reaches(Ended(a), a, "offering"))
                            \/ Becomes(Reaches(Ended(a), a, "opening")))
    BY <1>2 DEF Gathered, OfferAnswered
  <2> QED BY <1>2, <2>1, ReachesInv
<1> QED BY <1>1, <1>2

\* The configuration arrives, and the attempt makes its peer.
LEMMA ConfigAnsweredInv ==
  ASSUME VideoInv, NEW a \in page.attempts, ConfigAnswered(a)
  PROVE  VideoInv'
<1> DEFINE e == Ended(a)
           m == Moved(a, "gathering")
           T == [e.page EXCEPT !.attempts = @ \cup {m}, !.pc = a.generation, !.channel = "connecting"]
           D == [e.devices EXCEPT !.peers = @ \cup {a.generation}]
           t == [e EXCEPT !.page = T, !.devices = D]
<1>1. CASE ~ IsCurrent(a)
  BY <1>1, LateAttempt, BecomesInv DEF ConfigAnswered
<1>2. CASE IsCurrent(a)
  <2>0. VideoGood(State) /\ State.page = page
    BY InvGood, StateFields
  <2>1. /\ VideoShaped(e) /\ SameButAttempts(State, e) /\ e.devices.peers = State.devices.peers
        /\ AttemptsGood(e)
    BY EndedFields
  <2>2. /\ e.page.transport = "none" /\ e.page.polling = FALSE
        /\ e.devices.peers = {} /\ a.generation \in Nat \ {0}
    BY <1>2, CurrentAttempt DEF ConfigAnswered
  <2>3. Becomes(t) /\ UNCHANGED server
    <3> DEFINE q == Reaches(e, a, "gathering")
    <3>1. q = [e EXCEPT !.page.attempts = @ \cup {m}]
      BY DEF Reaches, Moved
    <3>2. Becomes([q EXCEPT !.page.pc = a.generation, !.page.channel = "connecting",
                            !.devices.peers = @ \cup {a.generation}]) /\ UNCHANGED server
      BY <1>2 DEF ConfigAnswered
    <3> HIDE DEF q, e, m
    <3>3. [q EXCEPT !.page.pc = a.generation, !.page.channel = "connecting",
                    !.devices.peers = @ \cup {a.generation}] = t
      BY <2>1, <3>1 DEF VideoShaped, PageNames
    <3> QED BY <3>2, <3>3
  <2> HIDE DEF e, m
  <2>4. /\ DOMAIN T = PageNames /\ DOMAIN T.sockets = Kinds
        /\ T.attempts = e.page.attempts \cup {m} /\ T.pc = a.generation /\ T.channel = "connecting"
        /\ T.starting = e.page.starting /\ T.stream = e.page.stream
        /\ T.cameraGeneration = e.page.cameraGeneration /\ T.active = e.page.active
        /\ T.transportGeneration = e.page.transportGeneration
        /\ T.transport = e.page.transport /\ T.fallback = e.page.fallback
        /\ T.preference = e.page.preference /\ T.sockets = e.page.sockets
        /\ T.lost = e.page.lost /\ T.polling = e.page.polling
        /\ T.signing = e.page.signing /\ T.decoding = e.page.decoding
        /\ T.shown = e.page.shown /\ T.verdict = e.page.verdict
        /\ T.recording = e.page.recording /\ T.archiving = e.page.archiving
        /\ T.archive = e.page.archive
    BY <2>1 DEF VideoShaped, PageNames
  <2>5. /\ DOMAIN D = {"tracks", "peers"} /\ D.tracks = e.devices.tracks
        /\ D.peers = {a.generation}
    BY <2>1, <2>2 DEF VideoShaped
  <2> HIDE DEF T, D
  <2>6. VideoShaped(t) /\ t.page = T /\ t.devices = D /\ t.inFlight = e.inFlight
        /\ t.downloaded = e.downloaded
    BY <2>1, <2>4, <2>5 DEF VideoShaped
  <2> HIDE DEF t
  <2>7. /\ SameCamera(e, t) /\ SameHeld(e, t) /\ SameInFlight(e, t) /\ SameSignature(e, t)
    BY <2>4, <2>5, <2>6 DEF SameCamera, SameHeld, SameInFlight, SameSignature
  <2>8. /\ t.page.transportGeneration = page.transportGeneration
        /\ t.page.transport = "none" /\ t.page.preference = page.preference
        /\ t.page.sockets = e.page.sockets /\ t.page.lost = FALSE
        /\ t.page.attempts = e.page.attempts \cup {m}
        /\ t.page.channel # "open" /\ t.page.polling = FALSE
        /\ t.devices.peers \subseteq {t.page.pc} \ {0}
    BY <2>0, <2>1, <2>2, <2>4, <2>5, <2>6 DEF SameButAttempts, AttemptsGood
  <2>9. VideoGood(t) /\ VideoKeeps(State, t)
    BY <1>2, <2>6, <2>7, <2>8, NextAttempt DEF e, m
  <2> QED BY <2>3, <2>9, BecomesInv
<1> QED BY <1>1, <1>2

\* A channel opens.
LEMMA VideoChannelOpensInv ==
  ASSUME VideoInv, NEW a \in page.attempts, ChannelOpens(a)
  PROVE  VideoInv'
<1> DEFINE e == Ended(a)
           T == [e.page EXCEPT !.transport = "webrtc", !.channel = "open", !.polling = TRUE]
           t == [e EXCEPT !.page = T]
<1>1. /\ VideoShaped(e) /\ CameraGood(e) /\ ShownGood(e) /\ HeldGood(e) /\ VideoKeeps(State, e)
      /\ AttemptsGood(e)
  BY EndedFields
<1>2. /\ e.page.active = TRUE /\ SocketsNone(e)
      /\ e.page.preference \in {"auto", "webrtc"} /\ NoAttempt(e)
  BY CurrentAttempt DEF ChannelOpens
<1>3. Becomes(t) /\ server' = [server EXCEPT !.index = 0]
  <2> DEFINE u == [e EXCEPT !.page.transport = "webrtc", !.page.channel = "open",
                            !.page.polling = TRUE]
  <2>1. Becomes(u) /\ server' = [server EXCEPT !.index = 0]
    BY DEF ChannelOpens
  <2> HIDE DEF e
  <2>2. u = t
    BY <1>1 DEF VideoShaped, PageNames
  <2> QED BY <2>1, <2>2
<1> HIDE DEF e
<1>4. /\ DOMAIN T = PageNames /\ DOMAIN T.sockets = Kinds
      /\ T.transport = "webrtc" /\ T.channel = "open" /\ T.polling = TRUE
      /\ T.attempts = e.page.attempts /\ T.pc = e.page.pc
      /\ T.starting = e.page.starting /\ T.stream = e.page.stream
      /\ T.cameraGeneration = e.page.cameraGeneration /\ T.active = e.page.active
      /\ T.transportGeneration = e.page.transportGeneration
      /\ T.fallback = e.page.fallback
      /\ T.preference = e.page.preference /\ T.sockets = e.page.sockets
      /\ T.lost = e.page.lost
      /\ T.signing = e.page.signing /\ T.decoding = e.page.decoding
      /\ T.shown = e.page.shown /\ T.verdict = e.page.verdict
      /\ T.recording = e.page.recording /\ T.archiving = e.page.archiving
      /\ T.archive = e.page.archive
  BY <1>1 DEF VideoShaped, PageNames
<1> HIDE DEF T
<1>5. VideoShaped(t) /\ t.page = T /\ t.devices = e.devices /\ t.inFlight = e.inFlight
      /\ t.downloaded = e.downloaded
  BY <1>1, <1>4, PageSet
<1> HIDE DEF t
<1>6. /\ SameCamera(e, t) /\ SameHeld(e, t) /\ SameInFlight(e, t) /\ SameSignature(e, t)
  BY <1>4, <1>5 DEF SameCamera, SameHeld, SameInFlight, SameSignature
<1>7. CameraGood(t) /\ HeldGood(t) /\ VideoKeeps(e, t)
  BY <1>1, <1>6, VideoPartsKept, VideoKeepsLaws
<1>8. ShownGood(t)
  BY <1>1, <1>6 DEF ShownGood, SameInFlight, SameSignature
<1>9. AttemptsGood(t)
  BY <1>1, <1>4, <1>5 DEF AttemptsGood
<1>10. OverChannel(t)
  BY <1>2, <1>4, <1>5 DEF OverChannel, SocketsNone, NoAttempt
<1>11. VideoGood(t) /\ VideoKeeps(State, t)
  BY <1>1, <1>5, <1>7, <1>8, <1>9, <1>10, VideoKeepsLaws DEF VideoGood, PhaseGood
<1> QED BY <1>3, <1>11, BecomesInv

\* An attempt fails or times out; only the current one falls back.
LEMMA AttemptFailsInv ==
  ASSUME VideoInv, NEW a \in page.attempts, AttemptFails(a)
  PROVE  VideoInv'
<1> DEFINE e == Ended(a)
           t == FallbackToWs(e)
<1>1. CASE ~ IsCurrent(a)
  BY <1>1, LateAttempt, BecomesInv DEF AttemptFails
<1>2. CASE IsCurrent(a)
  <2>1. /\ VideoShaped(e) /\ CameraGood(e) /\ ShownGood(e) /\ HeldGood(e) /\ VideoKeeps(State, e)
        /\ AttemptsGood(e)
    BY EndedFields
  <2>2. /\ e.page.active = TRUE /\ e.page.transport # "websocket" /\ SocketsNone(e)
        /\ e.page.preference \in {"auto", "webrtc"} /\ NoAttempt(e)
    BY <1>2, CurrentAttempt
  <2>3. Becomes(t) /\ UNCHANGED server
    BY <1>2 DEF AttemptFails
  <2> HIDE DEF e
  <2>4. VideoGood(t) /\ VideoKeeps(e, t)
    BY <2>1, <2>2, FallbackGood
  <2> HIDE DEF t
  <2> QED BY <2>1, <2>3, <2>4, VideoKeepsLaws, BecomesInv
<1> QED BY <1>1, <1>2

\* The open channel or its connection is lost.
LEMMA ChannelLostInv ==
  ASSUME VideoInv, ChannelLost
  PROVE  VideoInv'
<1> DEFINE s == State
           t == FallbackToWs(s)
<1>1. VideoGood(s) /\ s.page = page
  BY InvGood, StateFields
<1>2. s.page.channel = "open" /\ Becomes(t) /\ UNCHANGED server
  BY <1>1 DEF ChannelLost
<1> HIDE DEF s
<1>3. OverChannel(s)
  BY <1>1, <1>2 DEF VideoGood, PhaseGood, CameraOff, OverSockets, Connecting, Down, PeerNone
<1>4. VideoGood(t) /\ VideoKeeps(s, t)
  BY <1>1, <1>3, FallbackGood DEF VideoGood, OverChannel
<1> HIDE DEF t
<1> QED BY <1>2, <1>4, BecomesInv DEF s

\* sendFrameForSigning begins.
LEMMA GrabFrameInv ==
  ASSUME VideoInv, GrabFrame
  PROVE  VideoInv'
<1> DEFINE s == State
           t == [s EXCEPT !.page.signing = "grabbing"]
<1>1. VideoGood(s) /\ s.page = page
  BY InvGood, StateFields
<1>2. Becomes(t) /\ UNCHANGED server /\ s.page.active = TRUE
  BY <1>1 DEF GrabFrame, VideoGood, CameraGood
<1> HIDE DEF s
<1>3. /\ VideoShaped(t) /\ SameCamera(s, t) /\ SameTransport(s, t) /\ SameHeld(s, t)
      /\ SameInFlight(s, t)
      /\ t.page.decoding = s.page.decoding /\ t.page.shown = s.page.shown
      /\ t.page.verdict = s.page.verdict
  BY <1>1 DEF VideoGood, VideoShaped, PageNames, SameCamera, SameTransport, SameHeld, SameInFlight
<1> HIDE DEF t
<1>4. ShownGood(t)
  BY <1>1, <1>3 DEF VideoGood, ShownGood, SameInFlight
<1>5. VideoGood(t) /\ VideoKeeps(s, t)
  BY <1>1, <1>2, <1>3, <1>4, ShownStep
<1> QED BY <1>2, <1>5, BecomesInv DEF s

\* The grabbed frame is sent.
LEMMA SendFrameInv ==
  ASSUME VideoInv, SendFrame
  PROVE  VideoInv'
<1> DEFINE s == State
           X == Append(s.inFlight.frames, NoArtifact)
           F == [s.inFlight EXCEPT !.frames = X]
           T == [s.page EXCEPT !.signing = "sent"]
           t == [s EXCEPT !.page = T, !.inFlight = F]
<1>1. VideoGood(s) /\ s.page = page
  BY InvGood, StateFields
<1>2. Becomes(t) /\ UNCHANGED server
  <2> DEFINE u == [s EXCEPT !.page.signing = "sent", !.inFlight.frames = X]
  <2>1. Becomes(u) /\ UNCHANGED server
    BY DEF SendFrame
  <2> HIDE DEF s
  <2>2. u = t
    BY <1>1 DEF VideoGood, VideoShaped, PageNames
  <2> QED BY <2>1, <2>2
<1>3. s.page.signing = "grabbing"
  BY <1>1 DEF SendFrame
<1> HIDE DEF s
<1>4. s.page.active = TRUE
  BY <1>1, <1>3 DEF VideoGood, PhaseGood, CameraOff, OverSockets, Connecting, OverChannel, Down
<1>5. X \in Seq(Artifacts)
  <2>1. s.inFlight.frames \in Seq(Artifacts) /\ NoArtifact \in Artifacts
    BY <1>1 DEF VideoGood, ShownGood, NoArtifact, Artifacts
  <2> QED BY <2>1
<1>6. F.frames = X /\ F.told = s.inFlight.told /\ DOMAIN F = {"frames", "told"}
  <2> HIDE DEF X
  <2> QED BY <1>1 DEF VideoGood, VideoShaped
<1> HIDE DEF X, F
<1>7. /\ VideoShaped(t) /\ SameCamera(s, t) /\ SameTransport(s, t) /\ SameHeld(s, t)
      /\ t.inFlight = F
      /\ t.page.decoding = s.page.decoding /\ t.page.shown = s.page.shown
      /\ t.page.verdict = s.page.verdict
  BY <1>1, <1>6 DEF VideoGood, VideoShaped, PageNames, SameCamera, SameTransport, SameHeld
<1> HIDE DEF t
<1>8. ShownGood(t)
  BY <1>1, <1>5, <1>6, <1>7 DEF VideoGood, ShownGood
<1>9. VideoGood(t) /\ VideoKeeps(s, t)
  BY <1>1, <1>4, <1>7, <1>8, ShownStep
<1> QED BY <1>2, <1>9, BecomesInv DEF s

\* clearSigningRequest preserves the invariant.
LEMMA ClearSigningGood ==
  ASSUME NEW s, VideoGood(s)
  PROVE  LET t == ClearSigningRequest(s)
         IN VideoGood(t) /\ VideoKeeps(s, t) /\ t.downloaded = s.downloaded
<1> DEFINE t == ClearSigningRequest(s)
<1>1. /\ VideoShaped(t) /\ t.page.signing = "idle" /\ t.page.decoding = {}
      /\ SameCamera(s, t) /\ SameTransport(s, t) /\ SameInFlight(s, t) /\ SameHeld(s, t)
      /\ t.page.verdict = s.page.verdict /\ t.page.shown = s.page.shown
  BY ClearSigningFields DEF VideoGood
<1> HIDE DEF t
<1>2. ShownGood(t)
  BY <1>1 DEF VideoGood, ShownGood, SameInFlight
<1>3. VideoGood(t) /\ VideoKeeps(s, t)
  BY <1>1, <1>2, ShownStep
<1> QED BY <1>1, <1>3 DEF SameHeld, t

\* So does clearVideoVerification.
LEMMA ClearVerdictGood ==
  ASSUME NEW s, VideoGood(s)
  PROVE  LET t == ClearVideoVerification(s)
         IN VideoGood(t) /\ VideoKeeps(s, t) /\ t.downloaded = s.downloaded
<1> DEFINE t == ClearVideoVerification(s)
<1>1. /\ VideoShaped(t) /\ t.page.verdict = NoArtifact
      /\ SameCamera(s, t) /\ SameTransport(s, t) /\ SameInFlight(s, t) /\ SameHeld(s, t)
      /\ t.page.signing = s.page.signing /\ t.page.decoding = s.page.decoding
      /\ t.page.shown = s.page.shown
  BY ClearVerdictFields DEF VideoGood
<1> HIDE DEF t
<1>2. ShownGood(t)
  BY <1>1, VideoPartsKept DEF VideoGood
<1>3. VideoGood(t) /\ VideoKeeps(s, t)
  BY <1>1, <1>2, ShownStep
<1> QED BY <1>1, <1>3 DEF SameHeld, t

\* The frame is too large, or the transport has gone.
LEMMA FrameRefusedInv ==
  ASSUME VideoInv, FrameRefused
  PROVE  VideoInv'
<1> DEFINE t == ClearSigningRequest(State)
<1>1. VideoGood(t) /\ VideoKeeps(State, t)
  BY InvGood, ClearSigningGood
<1>2. Becomes(t) /\ UNCHANGED server
  BY DEF FrameRefused
<1> QED BY <1>1, <1>2, BecomesInv

\* The first reply is taken off its queue.
LEMMA ReceivedGood ==
  ASSUME VideoInv, inFlight.frames # <<>>
  PROVE  LET t == Received IN
         /\ VideoGood(t) /\ VideoKeeps(State, t)
         /\ SameCamera(State, t) /\ SameTransport(State, t) /\ SameHeld(State, t)
         /\ SameSignature(State, t) /\ Head(inFlight.frames) \in Artifacts
<1> DEFINE s == State
           X == Tail(s.inFlight.frames)
           F == [s.inFlight EXCEPT !.frames = X]
           t == [s EXCEPT !.inFlight = F]
<1>1. VideoGood(s) /\ s.inFlight = inFlight
  BY InvGood, StateFields
<1>2. Received = t
  <2> DEFINE u == [s EXCEPT !.inFlight.frames = X]
  <2>1. Received = u
    BY DEF Received
  <2> HIDE DEF s
  <2>2. u = t
    BY <1>1 DEF VideoGood, VideoShaped
  <2> QED BY <2>1, <2>2
<1> HIDE DEF s
<1>3. s.inFlight.frames \in Seq(Artifacts) /\ s.inFlight.frames # <<>>
  BY <1>1 DEF VideoGood, ShownGood
<1>4. X \in Seq(Artifacts) /\ Head(s.inFlight.frames) \in Artifacts
  BY <1>3
<1>6. F.frames = X /\ F.told = s.inFlight.told /\ DOMAIN F = {"frames", "told"}
  <2> HIDE DEF X
  <2> QED BY <1>1 DEF VideoGood, VideoShaped
<1> HIDE DEF X, F
<1>7. /\ VideoShaped(t) /\ SameCamera(s, t) /\ SameTransport(s, t) /\ SameHeld(s, t)
      /\ t.inFlight = F /\ SameSignature(s, t)
  BY <1>1, <1>6 DEF VideoGood, VideoShaped, SameCamera, SameTransport, SameHeld, SameSignature
<1> HIDE DEF t
<1>8. ShownGood(t)
  BY <1>1, <1>4, <1>6, <1>7 DEF VideoGood, ShownGood, SameSignature
<1>9. VideoGood(t) /\ VideoKeeps(s, t)
  BY <1>1, <1>7, <1>8, ShownStep DEF SameSignature
<1> QED BY <1>1, <1>2, <1>4, <1>7, <1>9 DEF s

\* A signed frame comes back and is decoded.
LEMMA FrameReturnsInv ==
  ASSUME VideoInv, FrameReturns
  PROVE  VideoInv'
<1> DEFINE s == Received
           h == Head(inFlight.frames)
           t == [s EXCEPT !.page.decoding = @ \cup {h}]
<1>1. /\ VideoGood(s) /\ VideoKeeps(State, s) /\ h \in Artifacts
  BY ReceivedGood DEF FrameReturns, HasReply
<1>2. UNCHANGED server /\ (Becomes(s) \/ Becomes(t))
  BY DEF FrameReturns
<1> HIDE DEF s, h
<1>3. /\ VideoShaped(t) /\ SameCamera(s, t) /\ SameTransport(s, t) /\ SameHeld(s, t)
      /\ SameInFlight(s, t) /\ t.page.decoding = s.page.decoding \cup {h}
      /\ t.page.shown = s.page.shown /\ t.page.verdict = s.page.verdict
      /\ t.page.signing = s.page.signing
  BY <1>1 DEF VideoGood, VideoShaped, PageNames, SameCamera, SameTransport, SameHeld, SameInFlight
<1> HIDE DEF t
<1>4. ShownGood(t)
  BY <1>1, <1>3 DEF VideoGood, ShownGood, SameInFlight
<1>5. VideoGood(t) /\ VideoKeeps(s, t)
  BY <1>1, <1>3, <1>4, ShownStep
<1>6. VideoKeeps(State, t)
  BY <1>1, <1>5, VideoKeepsLaws
<1> QED BY <1>1, <1>2, <1>5, <1>6, BecomesInv

\* The server answers a frame with an error.
LEMMA SigningFailsInv ==
  ASSUME VideoInv, SigningFails
  PROVE  VideoInv'
<1> DEFINE s == Received
           c == ClearSigningRequest(s)
           t == ClearVideoVerification(c)
<1>1. VideoGood(s) /\ VideoKeeps(State, s)
  BY ReceivedGood DEF SigningFails
<1>2. Becomes(t) /\ UNCHANGED server
  BY DEF SigningFails
<1> HIDE DEF s
<1>3. VideoGood(c) /\ VideoKeeps(s, c)
  BY <1>1, ClearSigningGood
<1> HIDE DEF c
<1>4. VideoGood(t) /\ VideoKeeps(c, t)
  BY <1>3, ClearVerdictGood
<1> HIDE DEF t
<1>5. VideoKeeps(State, t)
  BY <1>1, <1>3, <1>4, VideoKeepsLaws
<1> QED BY <1>2, <1>4, <1>5, BecomesInv

\* The signed frame cannot be decoded.
LEMMA DrawFailsInv ==
  ASSUME VideoInv, NEW artifact \in page.decoding, DrawFails(artifact)
  PROVE  VideoInv'
<1> DEFINE c == ClearVideoVerification(State)
           t == ClearSigningRequest(c)
<1>1. VideoGood(c) /\ VideoKeeps(State, c)
  BY InvGood, ClearVerdictGood
<1>2. Becomes(t) /\ UNCHANGED server
  BY DEF DrawFails
<1> HIDE DEF c
<1>3. VideoGood(t) /\ VideoKeeps(c, t)
  BY <1>1, ClearSigningGood
<1> HIDE DEF t
<1>4. VideoKeeps(State, t)
  BY <1>1, <1>3, VideoKeepsLaws
<1> QED BY <1>2, <1>3, <1>4, BecomesInv

\* The newest artifact has no verdict yet.
LEMMA VerdictPendingInv ==
  ASSUME VideoInv, VerdictPending
  PROVE  VideoInv'
<1> DEFINE t == ClearVideoVerification(State)
<1>1. VideoGood(t) /\ VideoKeeps(State, t)
  BY InvGood, ClearVerdictGood
<1>2. Becomes(t) /\ UNCHANGED server
  BY DEF VerdictPending
<1> QED BY <1>1, <1>2, BecomesInv

\* The end of a recording preserves the invariant.
LEMMA EndRecordingGood ==
  ASSUME NEW s, VideoGood(s), s.downloaded = {}, NEW downloads \in BOOLEAN
  PROVE  LET t == EndRecording(s, downloads) IN VideoGood(t) /\ VideoKeeps(s, t)
<1> DEFINE t == EndRecording(s, downloads)
<1>1. /\ VideoShaped(t) /\ HeldGood(t) /\ VideoKeeps(s, t)
      /\ SameCamera(s, t) /\ SameTransport(s, t) /\ SameInFlight(s, t)
      /\ t.page.signing = s.page.signing /\ t.page.decoding = s.page.decoding
      /\ t.page.shown = s.page.shown /\ t.page.verdict = s.page.verdict
  BY EndRecordingKeeps DEF VideoGood
<1> HIDE DEF t
<1>2. CameraGood(t) /\ AttemptsGood(t) /\ PhaseGood(t) /\ ShownGood(t)
  BY <1>1, VideoPartsKept DEF VideoGood
<1> QED BY <1>1, <1>2 DEF VideoGood, t

\* videoArchive.add never grows the archive past its limit, and drops nothing.
LEMMA RecordedGood ==
  ASSUME NEW s, VideoGood(s), s.downloaded = {}, NEW artifact, NEW downloads \in BOOLEAN
  PROVE  LET t == Recorded(s, artifact, downloads) IN VideoGood(t) /\ VideoKeeps(s, t)
<1> DEFINE e == EndRecording(s, downloads)
           u == [s EXCEPT !.page.archive = @ \cup {artifact}]
           t == Recorded(s, artifact, downloads)
<1>1. CASE ~ s.page.recording \/ artifact \in s.page.archive
  <2>1. t = s
    BY <1>1 DEF Recorded
  <2> HIDE DEF t
  <2> QED BY <2>1, VideoKeepsLaws DEF t
<1>2. CASE /\ ~ (~ s.page.recording \/ artifact \in s.page.archive)
           /\ Cardinality(s.page.archive) >= ARCHIVE_MAX_ENTRIES
  <2>1. t = e
    BY <1>2 DEF Recorded
  <2>2. VideoGood(e) /\ VideoKeeps(s, e)
    BY EndRecordingGood
  <2> HIDE DEF t, e
  <2> QED BY <2>1, <2>2 DEF t
<1>3. CASE /\ ~ (~ s.page.recording \/ artifact \in s.page.archive)
           /\ ~ Cardinality(s.page.archive) >= ARCHIVE_MAX_ENTRIES
  <2>1. t = u
    BY <1>3 DEF Recorded
  <2>2. IsFiniteSet(s.page.archive) /\ Cardinality(s.page.archive) \in Nat
    BY FS_CardinalityType DEF VideoGood, HeldGood
  <2>3. /\ IsFiniteSet(s.page.archive \cup {artifact})
        /\ Cardinality(s.page.archive \cup {artifact}) = Cardinality(s.page.archive) + 1
    BY <1>3, <2>2, FS_AddElement
  <2>4. /\ VideoShaped(u) /\ SameCamera(s, u) /\ SameTransport(s, u) /\ SameInFlight(s, u)
        /\ SameSignature(s, u) /\ u.page.archive = s.page.archive \cup {artifact}
        /\ u.page.recording = s.page.recording /\ u.page.archiving = s.page.archiving
        /\ u.downloaded = s.downloaded
    BY DEF VideoGood, VideoShaped, PageNames, SameCamera, SameTransport, SameInFlight, SameSignature
  <2> HIDE DEF u, t
  <2>5. HeldGood(u)
    <3>1. Cardinality(u.page.archive) <= ARCHIVE_MAX_ENTRIES
      BY <1>3, <2>2, <2>3, <2>4, VideoAssumption
    <3>2. IsFiniteSet(u.page.archive)
      BY <2>3, <2>4
    <3>3. s.page.archiving
      BY <1>3 DEF VideoGood, HeldGood
    <3> QED BY <2>4, <3>1, <3>2, <3>3 DEF HeldGood
  <2>6. VideoKeeps(s, u)
    BY <2>4 DEF VideoKeeps
  <2>7. CameraGood(u) /\ AttemptsGood(u) /\ PhaseGood(u)
    BY <2>4, VideoPartsKept DEF VideoGood, SameSignature
  <2>8. ShownGood(u)
    BY <2>4 DEF VideoGood, ShownGood, SameInFlight, SameSignature
  <2> QED BY <2>1, <2>4, <2>5, <2>6, <2>7, <2>8 DEF VideoGood, t
<1> QED BY <1>1, <1>2, <1>3

\* A signed frame is drawn: the verdict of the one before is cleared with it.
LEMMA DrawInv ==
  ASSUME VideoInv, NEW artifact \in page.decoding, NEW downloads \in BOOLEAN,
         Draw(artifact, downloads)
  PROVE  VideoInv'
<1> DEFINE s == State
           u == [s EXCEPT !.page.shown = artifact]
           c == ClearVideoVerification(u)
           r == Recorded(c, artifact, downloads)
           t == ClearSigningRequest(r)
<1>1. VideoGood(s) /\ s.downloaded = {} /\ artifact \in s.page.decoding
  BY InvGood, StateFields
<1>2. Becomes(t) /\ UNCHANGED server
  BY DEF Draw
<1> HIDE DEF s
<1>3. /\ VideoShaped(u) /\ SameCamera(s, u) /\ SameTransport(s, u) /\ SameHeld(s, u)
      /\ SameInFlight(s, u) /\ u.page.shown = artifact
      /\ u.page.decoding = s.page.decoding /\ u.page.signing = s.page.signing
  BY <1>1 DEF VideoGood, VideoShaped, PageNames, SameCamera, SameTransport, SameHeld, SameInFlight
<1> HIDE DEF u
<1>4. VideoShaped(c) /\ c.page.verdict = NoArtifact
      /\ SameCamera(u, c) /\ SameTransport(u, c) /\ SameInFlight(u, c) /\ SameHeld(u, c)
      /\ c.page.signing = u.page.signing /\ c.page.decoding = u.page.decoding
      /\ c.page.shown = u.page.shown
  BY <1>3, ClearVerdictFields
<1> HIDE DEF c
<1>5. /\ SameCamera(s, c) /\ SameTransport(s, c) /\ SameHeld(s, c) /\ c.downloaded = {}
  BY <1>1, <1>3, <1>4 DEF SameCamera, SameTransport, SameHeld
<1>6. ShownGood(c)
  BY <1>1, <1>3, <1>4 DEF VideoGood, ShownGood, SameInFlight
<1>7. VideoGood(c) /\ VideoKeeps(s, c)
  BY <1>1, <1>3, <1>4, <1>5, <1>6, ShownStep
<1>8. VideoGood(r) /\ VideoKeeps(c, r)
  BY <1>5, <1>7, RecordedGood
<1> HIDE DEF r
<1>9. VideoGood(t) /\ VideoKeeps(r, t)
  BY <1>8, ClearSigningGood
<1> HIDE DEF t
<1>10. VideoKeeps(s, t)
  BY <1>7, <1>8, <1>9, VideoKeepsLaws
<1> QED BY <1>2, <1>9, <1>10, BecomesInv DEF s

\* A verdict is shown only when it is of the artifact on the canvas.
LEMMA VerdictArrivesInv ==
  ASSUME VideoInv, VerdictArrives
  PROVE  VideoInv'
<1> DEFINE s == State
           told == s.inFlight.told
           F == [s.inFlight EXCEPT !.told = NoArtifact]
           q == [s EXCEPT !.inFlight = F]
           t == [q EXCEPT !.page.verdict = told]
<1>1. VideoGood(s) /\ s.page = page /\ s.inFlight = inFlight
  BY InvGood, StateFields
<1>2. /\ UNCHANGED server
      /\ Becomes(q) \/ (Becomes(t) /\ told.revision = s.page.shown.revision
                                   /\ told.index = s.page.shown.index)
  <2> DEFINE u == [s EXCEPT !.inFlight.told = NoArtifact]
  <2>1. /\ UNCHANGED server
        /\ \/ Becomes(u)
           \/ Becomes([u EXCEPT !.page.verdict = inFlight.told]) /\ IsOfShown(inFlight.told)
    BY DEF VerdictArrives
  <2> HIDE DEF s
  <2>2. u = q
    BY <1>1 DEF VideoGood, VideoShaped
  <2> HIDE DEF u, q
  <2> QED BY <1>1, <2>1, <2>2 DEF IsOfShown
<1> HIDE DEF s
<1>3. F.frames = s.inFlight.frames /\ F.told = NoArtifact /\ DOMAIN F = {"frames", "told"}
  BY <1>1 DEF VideoGood, VideoShaped
<1>4. NoArtifact \in Artifacts
  BY DEF NoArtifact, Artifacts
<1> HIDE DEF F
<1>5. /\ VideoShaped(q) /\ SameCamera(s, q) /\ SameTransport(s, q) /\ SameHeld(s, q)
      /\ SameSignature(s, q) /\ q.inFlight = F
  BY <1>1, <1>3 DEF VideoGood, VideoShaped, SameCamera, SameTransport, SameHeld, SameSignature
<1> HIDE DEF q
<1>6. ShownGood(q)
  BY <1>1, <1>3, <1>4, <1>5 DEF VideoGood, ShownGood, SameSignature
<1>7. VideoGood(q) /\ VideoKeeps(s, q)
  BY <1>1, <1>5, <1>6, ShownStep DEF SameSignature
<1>8. ASSUME told.revision = s.page.shown.revision, told.index = s.page.shown.index
      PROVE  VideoGood(t) /\ VideoKeeps(s, t)
  <2>1. told \in Artifacts /\ s.page.shown \in Artifacts
    BY <1>1 DEF VideoGood, ShownGood
  <2> HIDE DEF told
  <2>2. told = s.page.shown
    BY <1>8, <2>1 DEF Artifacts
  <2>3. /\ VideoShaped(t) /\ SameCamera(q, t) /\ SameTransport(q, t) /\ SameHeld(q, t)
        /\ SameInFlight(q, t) /\ t.page.verdict = told
        /\ t.page.decoding = q.page.decoding /\ t.page.shown = q.page.shown
        /\ t.page.signing = q.page.signing
    BY <1>5 DEF VideoShaped, PageNames, SameCamera, SameTransport, SameHeld, SameInFlight
  <2> HIDE DEF t
  <2>4. ShownGood(t)
    BY <1>5, <1>6, <2>2, <2>3 DEF ShownGood, SameInFlight, SameSignature
  <2>5. VideoGood(t) /\ VideoKeeps(q, t)
    BY <1>7, <2>3, <2>4, ShownStep
  <2> QED BY <1>7, <2>5, VideoKeepsLaws
<1> HIDE DEF t, told
<1> QED BY <1>2, <1>7, <1>8, BecomesInv DEF s

\* The record button.
LEMMA ToggleVideoRecordingInv ==
  ASSUME VideoInv, NEW downloads \in BOOLEAN, ToggleVideoRecording(downloads)
  PROVE  VideoInv'
<1> DEFINE s == State
           e == EndRecording(s, downloads)
           t == [s EXCEPT !.page.recording = TRUE, !.page.archiving = TRUE, !.page.archive = {}]
<1>1. VideoGood(s) /\ s.page = page /\ s.downloaded = {}
  BY InvGood, StateFields
<1>2. UNCHANGED server /\ (Becomes(e) \/ (Becomes(t) /\ ~ s.page.archiving))
  BY <1>1 DEF ToggleVideoRecording
<1> HIDE DEF s
<1>3. VideoGood(e) /\ VideoKeeps(s, e)
  BY <1>1, EndRecordingGood
<1>4. ASSUME ~ s.page.archiving PROVE VideoGood(t) /\ VideoKeeps(s, t)
  <2>1. s.page.archive = {}
    BY <1>1, <1>4 DEF VideoGood, HeldGood
  <2>2. /\ VideoShaped(t) /\ SameCamera(s, t) /\ SameTransport(s, t) /\ SameInFlight(s, t)
        /\ SameSignature(s, t) /\ t.page.archive = {} /\ t.page.recording = TRUE
        /\ t.page.archiving = TRUE /\ t.downloaded = s.downloaded
    BY <1>1 DEF VideoGood, VideoShaped, PageNames, SameCamera, SameTransport, SameInFlight, SameSignature
  <2> HIDE DEF t
  <2>3. HeldGood(t)
    BY <2>2, FS_EmptySet, VideoAssumption DEF HeldGood
  <2>4. VideoKeeps(s, t)
    BY <2>1, <2>2 DEF VideoKeeps
  <2>5. CameraGood(t) /\ AttemptsGood(t) /\ PhaseGood(t)
    BY <1>1, <2>2, VideoPartsKept DEF VideoGood, SameSignature
  <2>6. ShownGood(t)
    BY <1>1, <2>2 DEF VideoGood, ShownGood, SameInFlight, SameSignature
  <2> QED BY <2>2, <2>3, <2>4, <2>5, <2>6 DEF VideoGood
<1> HIDE DEF e, t
<1> QED BY <1>2, <1>3, <1>4, BecomesInv DEF s

\* What is on its way may be any frames and any verdict.
LEMMA InFlightStep ==
  ASSUME NEW s, VideoGood(s), NEW F, DOMAIN F = {"frames", "told"},
         F.frames \in Seq(Artifacts), F.told \in Artifacts
  PROVE  LET t == [s EXCEPT !.inFlight = F] IN
         VideoGood(t) /\ t.page = s.page /\ t.devices = s.devices /\ t.inFlight = F
<1> DEFINE t == [s EXCEPT !.inFlight = F]
<1>1. /\ VideoShaped(t) /\ SameCamera(s, t) /\ SameTransport(s, t) /\ SameHeld(s, t)
      /\ SameSignature(s, t) /\ t.inFlight = F /\ t.page = s.page /\ t.devices = s.devices
  BY DEF VideoGood, VideoShaped, SameCamera, SameTransport, SameHeld, SameSignature
<1> HIDE DEF t
<1>2. ShownGood(t)
  BY <1>1 DEF VideoGood, ShownGood
<1>3. VideoGood(t)
  BY <1>1, <1>2, ShownStep DEF SameSignature
<1> QED BY <1>1, <1>3 DEF t

\* The server signs the first frame it has not answered.
LEMMA EncodeFrameInv ==
  ASSUME VideoInv, EncodeFrame
  PROVE  VideoInv'
<1> DEFINE s == State
           artifact == [revision |-> server.revision + 1, index |-> server.index + 1]
<1>1. VideoGood(s) /\ s.inFlight = inFlight /\ s.page = page /\ s.devices = devices
      /\ dropped = FALSE
  BY InvGood, StateFields DEF VideoInv
<1>2. PICK i \in Unanswered :
        /\ server' = [revision |-> server.revision + 1, newest |-> artifact,
                      index |-> server.index + 1]
        /\ inFlight' = [inFlight EXCEPT !.frames[i] = artifact]
  BY DEF EncodeFrame
<1>3. UNCHANGED <<page, devices, dropped>>
  BY DEF EncodeFrame
<1>4. artifact \in Artifacts /\ ServerGood'
  <2>1. server.revision \in Nat /\ server.index \in Nat
    BY DEF VideoInv
  <2>2. artifact \in Artifacts
    BY <2>1 DEF Artifacts
  <2> HIDE DEF artifact
  <2>3. ServerGood'
    BY <1>2, <2>1, <2>2 DEF ServerGood
  <2> QED BY <2>2, <2>3
<1> HIDE DEF artifact
<1> DEFINE X == [s.inFlight.frames EXCEPT ![i] = artifact]
           F == [s.inFlight EXCEPT !.frames = X]
           t == [s EXCEPT !.inFlight = F]
<1>5. inFlight' = F
  BY <1>1, <1>2 DEF VideoGood, VideoShaped
<1> HIDE DEF s
<1>6. X \in Seq(Artifacts)
  <2>1. s.inFlight.frames \in Seq(Artifacts)
    BY <1>1 DEF VideoGood, ShownGood
  <2>2. i \in DOMAIN s.inFlight.frames
    BY <1>1 DEF Unanswered
  <2> QED BY <1>4, <2>1, <2>2
<1>7. F.frames = X /\ F.told = s.inFlight.told /\ DOMAIN F = {"frames", "told"}
  <2> HIDE DEF X
  <2> QED BY <1>1 DEF VideoGood, VideoShaped
<1>8. F.told \in Artifacts
  BY <1>1, <1>7 DEF VideoGood, ShownGood
<1> HIDE DEF X, F
<1>9. VideoGood(t) /\ t.page = s.page /\ t.devices = s.devices /\ t.inFlight = F
  BY <1>1, <1>6, <1>7, <1>8, InFlightStep
<1> HIDE DEF t
<1> QED BY <1>1, <1>3, <1>4, <1>5, <1>9, VideoOthersInv

\* The server answers a poll with the newest artifact of all its connections.
LEMMA AnswerPollInv ==
  ASSUME VideoInv, AnswerPoll
  PROVE  VideoInv'
<1> DEFINE s == State
           F == [s.inFlight EXCEPT !.told = server.newest]
           t == [s EXCEPT !.inFlight = F]
<1>1. VideoGood(s) /\ s.inFlight = inFlight /\ s.page = page /\ s.devices = devices
      /\ dropped = FALSE /\ server.newest \in Artifacts /\ ServerGood
  BY InvGood, StateFields DEF VideoInv, ServerGood
<1>2. inFlight' = F /\ UNCHANGED <<page, devices, server, dropped>>
  BY <1>1 DEF AnswerPoll
<1>3. ServerGood'
  BY <1>1, <1>2 DEF ServerGood
<1> HIDE DEF s
<1>4. F.frames = s.inFlight.frames /\ F.told = server.newest /\ DOMAIN F = {"frames", "told"}
  BY <1>1 DEF VideoGood, VideoShaped
<1>5. F.frames \in Seq(Artifacts) /\ F.told \in Artifacts
  BY <1>1, <1>4 DEF VideoGood, ShownGood
<1> HIDE DEF F
<1>6. VideoGood(t) /\ t.page = s.page /\ t.devices = s.devices /\ t.inFlight = F
  BY <1>1, <1>4, <1>5, InFlightStep
<1> HIDE DEF t
<1> QED BY <1>1, <1>2, <1>3, <1>6, VideoOthersInv

\* Another client signs a frame.
LEMMA OtherClientInv ==
  ASSUME VideoInv, NEW index \in 1 .. 2, OtherClient(index)
  PROVE  VideoInv'
<1>1. VideoGood(State) /\ dropped = FALSE /\ server.revision \in Nat /\ server.index \in Nat
  BY InvGood DEF VideoInv
<1>2. /\ page' = State.page /\ devices' = State.devices /\ inFlight' = State.inFlight
      /\ dropped' = FALSE
  BY <1>1, StateFields DEF OtherClient
<1>3. ServerGood'
  <2> DEFINE newest == [revision |-> server.revision + 1, index |-> index]
  <2>1. newest \in Artifacts
    BY <1>1 DEF Artifacts
  <2>2. server' = [server EXCEPT !.revision = server.revision + 1, !.newest = newest]
    BY DEF OtherClient
  <2> HIDE DEF newest
  <2>3. /\ server'.revision \in {server.revision, server.revision + 1}
        /\ server'.newest \in {server.newest, newest} /\ server'.index = server.index
    BY <2>2
  <2>4. server.newest \in Artifacts
    BY DEF VideoInv
  <2> QED BY <1>1, <2>1, <2>3, <2>4 DEF ServerGood
<1> QED BY <1>1, <1>2, <1>3, VideoOthersInv

\* The tab starts in the invariant.
LEMMA VideoInitInv == VideoInit => VideoInv
<1> SUFFICES ASSUME VideoInit PROVE VideoInv
  OBVIOUS
<1> DEFINE s == State
<1>1. /\ VideoShaped(s) /\ s.page.cameraGeneration = 0 /\ s.page.active = FALSE
      /\ s.page.starting = {}
      /\ s.page.transportGeneration = 0 /\ s.page.transport = "none"
      /\ s.page.preference = CHOOSE p \in Preferences : TRUE
      /\ SocketsNone(s) /\ s.page.lost = FALSE /\ s.page.attempts = {}
      /\ PeerNone(s) /\ s.page.signing = "idle" /\ s.page.decoding = {}
      /\ s.page.shown = NoArtifact /\ s.page.verdict = NoArtifact
      /\ s.page.recording = FALSE /\ s.page.archive = {}
      /\ s.devices.tracks = {} /\ s.devices.peers = {}
      /\ s.inFlight.frames = <<>> /\ s.inFlight.told = NoArtifact
  BY DEF VideoInit, State, VideoShaped, PageNames, SocketsNone, PeerNone
<1> HIDE DEF s
<1>2. NoArtifact \in Artifacts /\ <<>> \in Seq(Artifacts)
  BY DEF NoArtifact, Artifacts
<1>3. (CHOOSE p \in Preferences : TRUE) \in Preferences
  BY VideoAssumption
<1>4. CameraGood(s) /\ AttemptsGood(s)
  <2>1. CameraGood(s)
    <3>1. s.page.active \in BOOLEAN
      BY <1>1, Zenon
    <3>2. /\ s.page.cameraGeneration \in Nat /\ s.page.starting \subseteq Cameras
          /\ s.devices.tracks \subseteq {s.page.stream}
      BY <1>1
    <3> QED BY <1>1, <3>1, <3>2 DEF CameraGood
  <2>2. s.page.preference \in Preferences
    BY <1>1, <1>3
  <2>3. s.page.transportGeneration \in Nat
    BY <1>1
  <2> QED BY <1>1, <2>1, <2>2, <2>3 DEF AttemptsGood
<1>5. PhaseGood(s)
  BY <1>1 DEF PhaseGood, CameraOff, NoAttempt
<1>6. ShownGood(s)
  BY <1>1, <1>2 DEF ShownGood
<1>7. HeldGood(s)
  BY <1>1, FS_EmptySet, VideoAssumption DEF HeldGood
<1>8. dropped = FALSE /\ server.revision \in Nat /\ server.index \in Nat
      /\ server.newest \in Artifacts
  BY <1>2 DEF VideoInit
<1> QED BY <1>1, <1>4, <1>5, <1>6, <1>7, <1>8 DEF VideoInv, VideoGood, s

\* And no step of the tab, the browser or the server leaves it.
LEMMA VideoStepInv == VideoInv /\ [VideoNext]_videoVars => VideoInv'
<1> SUFFICES ASSUME VideoInv, [VideoNext]_videoVars PROVE VideoInv'
  OBVIOUS
<1>1. ASSUME NEW downloads \in BOOLEAN, StartCamera(downloads) \/ PressStopCamera(downloads)
      PROVE VideoInv'
  BY <1>1, StartCameraInv, PressStopCameraInv
<1>2. ASSUME NEW downloads \in BOOLEAN, ToggleVideoRecording(downloads) PROVE VideoInv'
  BY <1>2, ToggleVideoRecordingInv
<1>3. ASSUME NEW downloads \in BOOLEAN, NEW x \in page.starting, CameraFails(x, downloads)
      PROVE VideoInv'
  BY <1>3, CameraFailsInv
<1>4. ASSUME NEW downloads \in BOOLEAN, NEW artifact \in page.decoding, Draw(artifact, downloads)
      PROVE VideoInv'
  BY <1>4, DrawInv
<1>5. ASSUME NEW x \in page.starting, Granted(x) \/ Played(x) PROVE VideoInv'
  BY <1>5, GrantedInv, PlayedInv
<1>6. ASSUME NEW k \in Kinds, SocketOpens(k) \/ SocketCloses(k) \/ Reconnects(k) PROVE VideoInv'
  BY <1>6, SocketOpensInv, SocketClosesInv, ReconnectsInv
<1>7. ASSUME NEW a \in page.attempts,
             ConfigAnswered(a) \/ Gathered(a) \/ OfferAnswered(a) \/ ChannelOpens(a) \/ AttemptFails(a)
      PROVE VideoInv'
  BY <1>7, ConfigAnsweredInv, GatheredInv, VideoChannelOpensInv, AttemptFailsInv
<1>8. ASSUME NEW p \in Preferences, ChooseTransport(p) PROVE VideoInv'
  BY <1>8, ChooseTransportInv
<1>9. CASE ChannelLost \/ SigningTimesOut
  BY <1>9, ChannelLostInv, SigningTimesOutInv
<1>10. CASE GrabFrame \/ SendFrame \/ FrameRefused \/ FrameReturns \/ SigningFails
  BY <1>10, GrabFrameInv, SendFrameInv, FrameRefusedInv, FrameReturnsInv, SigningFailsInv
<1>11. ASSUME NEW artifact \in page.decoding, DrawFails(artifact) PROVE VideoInv'
  BY <1>11, DrawFailsInv
<1>12. CASE VerdictArrives \/ VerdictPending
  BY <1>12, VerdictArrivesInv, VerdictPendingInv
<1>13. CASE EncodeFrame \/ AnswerPoll
  BY <1>13, EncodeFrameInv, AnswerPollInv
<1>14. ASSUME NEW index \in 1 .. 2, OtherClient(index) PROVE VideoInv'
  BY <1>14, OtherClientInv
<1>15. CASE UNCHANGED videoVars
  <2>1. /\ page' = State.page /\ devices' = State.devices /\ inFlight' = State.inFlight
        /\ UNCHANGED <<server, dropped>>
    BY <1>15, StateFields DEF videoVars
  <2>2. dropped' = FALSE /\ ServerGood'
    BY <2>1 DEF VideoInv, ServerGood
  <2> QED BY <2>1, <2>2, InvGood, VideoOthersInv
<1> QED
  BY <1>1, <1>2, <1>3, <1>4, <1>5, <1>6, <1>7, <1>8, <1>9, <1>10, <1>11, <1>12, <1>13, <1>14, <1>15
  DEF VideoNext

\* Whatever the user, the browser, the network and the server do, and in whatever order,
\* the video tab stays in its invariant.
THEOREM VideoCorrect == VideoSpec => []VideoInv
BY VideoInitInv, VideoStepInv, PTL DEF VideoSpec

\* The properties of the video tab are consequences of it.
LEMMA VideoInvMeans ==
  VideoInv => SessionOwnsAll /\ NeverStranded /\ VerdictIsOfShown /\ ArchiveIsKept
<1> SUFFICES ASSUME VideoInv
             PROVE  SessionOwnsAll /\ NeverStranded /\ VerdictIsOfShown /\ ArchiveIsKept
  OBVIOUS
<1>0. /\ CameraGood(State) /\ AttemptsGood(State) /\ PhaseGood(State) /\ ShownGood(State)
      /\ HeldGood(State)
  BY DEF VideoInv, VideoGood
<1>1. SessionOwnsAll
  <2>1. ~ page.active => CameraOff(State)
    BY <1>0, StateFields DEF PhaseGood, OverSockets, Connecting, OverChannel, Down
  <2> QED BY <1>0, <2>1, StateFields DEF CameraGood, AttemptsGood, CameraOff, SocketsNone,
                                        PeerNone, SessionOwnsAll
<1>2. NeverStranded
  <2>1. CASE OverSockets(State)
    BY <2>1, StateFields DEF OverSockets, NeverStranded
  <2>2. CASE Connecting(State)
    BY <2>2, StateFields DEF Connecting, NeverStranded
  <2>3. CASE OverChannel(State)
    BY <2>3, StateFields DEF OverChannel, NeverStranded
  <2>4. CASE Down(State) \/ CameraOff(State)
    BY <2>4, StateFields DEF Down, CameraOff, NeverStranded
  <2> QED BY <1>0, <2>1, <2>2, <2>3, <2>4 DEF PhaseGood
<1>3. VerdictIsOfShown
  BY <1>0, StateFields DEF ShownGood, VerdictIsOfShown
<1>4. ArchiveIsKept
  BY <1>0, StateFields DEF HeldGood, ArchiveIsKept, VideoInv
<1> QED BY <1>1, <1>2, <1>3, <1>4

(***************************************************************************)
(* The panels.                                                             *)
(***************************************************************************)
\* What a request carries is the last edit unless one more save is pending.
ConfigGood ==
  /\ config.live \in Nat
  /\ config.saving /\ ~ config.pending => config.posted = config.live
  /\ config.saving /\ config.applied => stored = config.posted
  /\ config.toast = "saved" /\ ~ config.saving => stored = config.live

\* What a refresh has read is no older than the last call, unless it reads again.
PanelGood ==
  /\ current \in 0 .. MaxChanges
  /\ panel.asked \in 0 .. current /\ panel.shown \in Nat /\ panel.got \in Nat
  /\ panel.refreshing /\ panel.fetched /\ ~ panel.again => panel.got >= panel.asked
  /\ ~ panel.refreshing => panel.shown >= panel.asked

PanelsShaped ==
  /\ DOMAIN config = {"live", "saving", "pending", "posted", "applied", "toast"}
  /\ DOMAIN panel = {"refreshing", "again", "fetched", "got", "shown", "asked", "busy"}

PanelsInv == PanelsShaped /\ ConfigGood /\ PanelGood

\* The panels start in the invariant.
LEMMA PanelsInitInv == PanelsInit => PanelsInv
BY PanelsAssumption DEF PanelsInit, PanelsInv, PanelsShaped, ConfigGood, PanelGood

\* pushConfigToServer and the edits that arrive while it waits.
LEMMA ConfigStep ==
  ASSUME PanelsInv, Edit \/ ServerApplies \/ Saved \/ SaveFails
  PROVE  PanelsInv'
<1>1. UNCHANGED <<panel, current>>
  BY DEF Edit, ServerApplies, Saved, SaveFails
<1>2. PanelGood' /\ DOMAIN panel' = DOMAIN panel
  BY <1>1 DEF PanelsInv, PanelGood
<1>3. CASE Edit
  BY <1>2, <1>3 DEF Edit, Post, PanelsInv, PanelsShaped, ConfigGood
<1>4. CASE ServerApplies
  BY <1>2, <1>4 DEF ServerApplies, PanelsInv, PanelsShaped, ConfigGood
<1>5. CASE Saved
  BY <1>2, <1>5 DEF Saved, Post, PanelsInv, PanelsShaped, ConfigGood
<1>6. CASE SaveFails
  BY <1>2, <1>6 DEF SaveFails, PanelsInv, PanelsShaped, ConfigGood
<1> QED BY <1>3, <1>4, <1>5, <1>6

\* refreshStatus, and the calls that are merged into it.
LEMMA PanelStep ==
  ASSUME PanelsInv,
         RefreshStatus \/ StatusIsRead \/ StatusShown \/ StatusFails \/ StampNow \/ StampEnds
         \/ StatusChanges
  PROVE  PanelsInv'
<1>1. UNCHANGED <<config, stored>>
  BY DEF RefreshStatus, StatusIsRead, StatusShown, StatusFails, StampNow, StampEnds, StatusChanges
<1>2. ConfigGood' /\ DOMAIN config' = DOMAIN config
  BY <1>1 DEF PanelsInv, ConfigGood
<1>3. CASE RefreshStatus
  BY <1>2, <1>3 DEF RefreshStatus, Asked, PanelsInv, PanelsShaped, PanelGood
<1>4. CASE StatusIsRead
  BY <1>2, <1>4 DEF StatusIsRead, PanelsInv, PanelsShaped, PanelGood
<1>5. CASE StatusShown
  BY <1>2, <1>5 DEF StatusShown, Shown, PanelsInv, PanelsShaped, PanelGood
<1>6. CASE StatusFails
  <2>1. Unavailable \in Nat /\ Unavailable >= current
    BY PanelsAssumption DEF Unavailable, PanelsInv, PanelGood
  <2> QED BY <1>2, <1>6, <2>1 DEF StatusFails, Shown, PanelsInv, PanelsShaped, PanelGood
<1>7. CASE StampNow
  BY <1>2, <1>7 DEF StampNow, PanelsInv, PanelsShaped, PanelGood
<1>8. CASE StampEnds
  BY <1>2, <1>8 DEF StampEnds, Asked, PanelsInv, PanelsShaped, PanelGood
<1>9. CASE StatusChanges
  BY <1>2, <1>9, PanelsAssumption DEF StatusChanges, PanelsInv, PanelsShaped, PanelGood
<1> QED BY <1>3, <1>4, <1>5, <1>6, <1>7, <1>8, <1>9

\* No step of the page or the server leaves it.
LEMMA PanelsStepInv == PanelsInv /\ [PanelsNext]_panelVars => PanelsInv'
<1> SUFFICES ASSUME PanelsInv, [PanelsNext]_panelVars PROVE PanelsInv'
  OBVIOUS
<1>1. CASE UNCHANGED panelVars
  BY <1>1 DEF panelVars, PanelsInv, PanelsShaped, ConfigGood, PanelGood
<1>2. CASE PanelsNext
  BY <1>2, ConfigStep, PanelStep DEF PanelsNext
<1> QED BY <1>1, <1>2

\* However edits, refreshes and replies interleave, the panels stay in theirs.
THEOREM PanelsCorrect == PanelsSpec => []PanelsInv
BY PanelsInitInv, PanelsStepInv, PTL DEF PanelsSpec

\* The status panel and the configuration agree with the server once they are at rest,
\* though edits and calls arrive while a request is out and replies are lost.
THEOREM PanelsStayCurrent == PanelsSpec => []PanelsAreCurrent
<1>1. PanelsInv => PanelsAreCurrent
  BY DEF PanelsInv, ConfigGood, PanelGood, PanelsAreCurrent
<1> QED BY <1>1, PanelsCorrect, PTL

\* A reply is of the request that is pending, in however many sessions, over however many
\* connections, and whatever fails in between: there is never a second request on one.
THEOREM RepliesMatchRequests == AudioSpec => []RepliesAreOfRequest
BY AudioCorrect, AudioInvMeans, PTL

\* On the page whose tabs run side by side, a session owns every camera, microphone, peer,
\* socket and context that is open, and an active one has a transport or something that
\* will make one.
THEOREM SessionsStayWhole == VideoSpec /\ AudioSpec => []SessionsAreWhole
<1>1. VideoInv /\ AudioInv => SessionsAreWhole
  BY VideoInvMeans, AudioInvMeans DEF SessionsAreWhole
<1> QED BY <1>1, VideoCorrect, AudioCorrect, PTL

\* A verdict on display is the one of what is displayed, though other clients sign, replies
\* are late and a verdict comes over its own connection.
THEOREM VerdictsStayOfShown == VideoSpec /\ AudioSpec => []VerdictsAreOfShown
<1>1. VideoInv /\ AudioInv => VerdictsAreOfShown
  BY VideoInvMeans, AudioInvMeans DEF VerdictsAreOfShown
<1> QED BY <1>1, VideoCorrect, AudioCorrect, PTL

\* Nothing that was recorded leaves an archive that was not downloaded, and no archive
\* grows past its limit, whatever stops the recording.
THEOREM ArchivesStayKept == VideoSpec /\ AudioSpec => []ArchivesAreKept
<1>1. VideoInv /\ AudioInv => ArchivesAreKept
  BY VideoInvMeans, AudioInvMeans DEF ArchivesAreKept
<1> QED BY <1>1, VideoCorrect, AudioCorrect, PTL
=============================================================================
