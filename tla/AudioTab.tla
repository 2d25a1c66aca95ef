------------------------------ MODULE AudioTab ------------------------------
(***************************************************************************)
(* The audio tab of the dashboard's page (static/audio_tab.js): sessions   *)
(* of the microphone, an encode and a decode WebSocket per session that    *)
(* fail and reconnect on their own, one signing request and one poll with  *)
(* their timeouts, the verdict of the latest signed chunk, and the archive *)
(* of signed chunks.                                                       *)
(*                                                                         *)
(* As in VideoTab an action is what the page runs between two awaits, a    *)
(* handler or a timer.  A session that was stopped lives on only in the    *)
(* continuation of its startMicrophone; its handlers are unset.  The       *)
(* microphone, the network and the server are external.                    *)
(***************************************************************************)
EXTENDS Integers, Sequences, FiniteSets

CONSTANTS
  SampleRates,      \* what the user may choose
  ARCHIVE_ENTRIES,  \* the entries of a full archive
  MaxSessions,      \* bound on the sessions
  MaxArchives,      \* bound on the recordings
  MaxArtifacts      \* bound on the artifacts of the server

ASSUME AudioAssumption ==
  SampleRates \subseteq Nat \ {0} /\ SampleRates # {} /\ ARCHIVE_ENTRIES \in Nat

VARIABLES
  tab,        \* the module's variables and those of the current session
  hardware,   \* [tracks, contexts, closing]: sessions whose resources are open
  sent,       \* [chunks, poll]: requests on the two sockets, and their replies
  cache,      \* [revision, newest, index]: the server's
  forgotten   \* history: a chunk left an archive that was not downloaded

audioVars == <<tab, hardware, sent, cache, forgotten>>

NoChunk == [revision |-> 0, index |-> 0]
NotAsked == [reply |-> NoChunk, back |-> FALSE]
NoRequest == [archive |-> 0, rate |-> 0]
Channels == {"encode", "decode"}

(***************************************************************************)
(* Functions of the tab, as functions of its state.                        *)
(***************************************************************************)
Page == [tab |-> tab, hardware |-> hardware, sent |-> sent, downloaded |-> {}]

Turns(s) ==
  /\ tab' = s.tab /\ hardware' = s.hardware /\ sent' = s.sent
  /\ forgotten' = (forgotten \/ ~ tab.archive \subseteq s.tab.archive \cup s.downloaded)

ResetAudioVerification(s) == [s EXCEPT !.tab.verdict = NoChunk]

ClearAudioSigning(s) == [s EXCEPT !.tab.pendingSign = NoRequest]

\* Whatever was on its way over the socket is lost with it.
CloseAudioChannel(s, name) ==
  [s EXCEPT !.tab.socket[name] = "none",
            !.tab.pendingPoll = IF name = "decode" THEN NoChunk ELSE @,
            !.sent.chunks = IF name = "encode" THEN <<>> ELSE @,
            !.sent.poll = IF name = "decode" THEN <<>> ELSE @]

\* finishAudioRecording; an archive whose download fails is kept.
FinishAudioRecording(s, downloads) ==
  LET over == downloads \/ s.tab.archive = {}
  IN [s EXCEPT !.tab.recording = FALSE,
               !.tab.audioArchive = IF over THEN 0 ELSE @,
               !.tab.archive = IF over THEN {} ELSE @,
               !.downloaded = IF downloads THEN @ \cup s.tab.archive ELSE @]

StopRecording(s, downloads) ==
  IF s.tab.recording THEN FinishAudioRecording(s, downloads) ELSE s

StopMicrophone(s, downloads) ==
  LET old == s.tab.session
      quiet == ClearAudioSigning(CloseAudioChannel(CloseAudioChannel(s, "encode"), "decode"))
      released == [s.hardware EXCEPT !.tracks = @ \ {old},
                                     !.closing = @ \cup (s.hardware.contexts \cap {old}),
                                     !.contexts = @ \ {old}]
      idle == [quiet.tab EXCEPT !.session = 0, !.active = FALSE, !.fresh = FALSE,
                                !.latestSigned = NoChunk, !.counted = FALSE]
      off == [quiet EXCEPT !.tab = idle, !.hardware = released]
  IN ResetAudioVerification(StopRecording(off, downloads))

ConnectAudioChannel(s, name) == [s EXCEPT !.tab.socket[name] = "connecting"]

\* A channel that failed connects again after a while: "waiting".
FailAnyChannel(s, name) ==
  LET closed == ClearAudioSigning(CloseAudioChannel(s, name))
      failed == IF name = "encode" THEN [closed EXCEPT !.tab.latestSigned = NoChunk] ELSE closed
  IN ResetAudioVerification([failed EXCEPT !.tab.socket[name] = "waiting"])

FailAudioChannel(s, name) ==
  LET closed == CloseAudioChannel(s, name)
      failed == IF name = "encode"
                THEN [ClearAudioSigning(closed) EXCEPT !.tab.latestSigned = NoChunk]
                ELSE closed
  IN ResetAudioVerification([failed EXCEPT !.tab.socket[name] = "waiting"])

RejectSignedAudio(s, downloads) ==
  StopRecording(ResetAudioVerification(
    [ClearAudioSigning(s) EXCEPT !.tab.latestSigned = NoChunk]), downloads)

\* It asks about the latest signed chunk unless an answer is awaited already.
PollAudioDecode(s) ==
  IF s.tab.latestSigned = NoChunk \/ s.tab.socket["decode"] # "open" \/ s.tab.pendingPoll # NoChunk
  THEN s
  ELSE [s EXCEPT !.tab.pendingPoll = s.tab.latestSigned, !.sent.poll = <<NotAsked>>]

(***************************************************************************)
(* The microphone.                                                         *)
(***************************************************************************)
AudioInit ==
  /\ tab = [session |-> 0, sessions |-> 0, active |-> FALSE, starting |-> {},
            rate |-> CHOOSE r \in SampleRates : TRUE, sessionRate |-> 0,
            socket |-> [c \in Channels |-> "none"],
            pendingSign |-> NoRequest, pendingPoll |-> NoChunk, fresh |-> FALSE,
            latestSigned |-> NoChunk, counted |-> FALSE, uncounted |-> 0,
            verdict |-> NoChunk,
            recording |-> FALSE, audioArchive |-> 0, archives |-> 0, archive |-> {}, format |-> 0]
  /\ hardware = [tracks |-> {}, contexts |-> {}, closing |-> {}]
  /\ sent = [chunks |-> <<>>, poll |-> <<>>]
  /\ cache = [revision |-> 0, newest |-> NoChunk, index |-> 0]
  /\ forgotten = FALSE

SessionBegun(s) ==
  LET next == s.tab.sessions + 1
  IN [s EXCEPT !.tab.sessions = next, !.tab.session = next,
               !.tab.starting = @ \cup {[session |-> next, at |-> "closing"]}]

StartMicrophone(downloads) ==
  /\ tab.sessions < MaxSessions
  /\ Turns(SessionBegun(StopMicrophone(Page, downloads)))
  /\ UNCHANGED cache

PressStopMicrophone(downloads) ==
  /\ tab.session # 0
  /\ Turns(StopMicrophone(Page, downloads))
  /\ UNCHANGED cache

\* changeAudioCaptureSetting
ChangeRate(rate, downloads) ==
  /\ rate # tab.rate
  /\ tab.session # 0 => tab.sessions < MaxSessions
  /\ LET s == [StopMicrophone(Page, downloads) EXCEPT !.tab.rate = rate]
     IN Turns(IF tab.session # 0 THEN SessionBegun(StopMicrophone(s, downloads)) ELSE s)
  /\ UNCHANGED cache

ContextCloses(n) ==
  /\ hardware' = [hardware EXCEPT !.closing = @ \ {n}]
  /\ UNCHANGED <<tab, sent, cache, forgotten>>

Leaves(x) == [Page EXCEPT !.tab.starting = @ \ {x}]
Proceeds(x, at) == [Leaves(x) EXCEPT !.tab.starting = @ \cup {[x EXCEPT !.at = at]}]
IsCurrentSession(x) == tab.session = x.session

\* "closing": the context of the session before has to be closed.
OpenContext(x) ==
  /\ x.at = "closing" /\ hardware.closing = {}
  /\ Turns(IF ~ IsCurrentSession(x) THEN Leaves(x)
           ELSE [Proceeds(x, "resuming") EXCEPT !.hardware.contexts = @ \cup {x.session},
                                                !.tab.sessionRate = tab.rate])
  /\ UNCHANGED cache

Resumed(x) ==
  /\ x.at = "resuming"
  /\ Turns(IF ~ IsCurrentSession(x) THEN Leaves(x) ELSE Proceeds(x, "asking"))
  /\ UNCHANGED cache

Running(s, x) ==
  LET on == [s EXCEPT !.hardware.tracks = @ \cup {x.session},
                      !.tab.active = TRUE, !.tab.uncounted = 0]
  IN ConnectAudioChannel(ConnectAudioChannel(on, "encode"), "decode")

MicrophoneGrantedLate(x) ==
  /\ x.at = "asking"
  /\ Turns(Running(Leaves(x), x))
  /\ UNCHANGED cache

MicrophoneGranted(x) ==
  /\ x.at = "asking"
  /\ Turns(IF ~ IsCurrentSession(x) THEN Leaves(x) ELSE Running(Leaves(x), x))
  /\ UNCHANGED cache

\* Any of its steps throws.
MicrophoneFails(x, downloads) ==
  /\ Turns(IF ~ IsCurrentSession(x) THEN Leaves(x) ELSE StopMicrophone(Leaves(x), downloads))
  /\ UNCHANGED cache

TrackEnds(downloads) ==
  /\ tab.active
  /\ Turns(StopMicrophone(Page, downloads))
  /\ UNCHANGED cache

(***************************************************************************)
(* The channels.                                                           *)
(***************************************************************************)
AudioChannelOpens(name) ==
  /\ tab.socket[name] = "connecting"
  /\ LET s == [Page EXCEPT !.tab.socket[name] = "open"]
     IN Turns(IF name = "encode" THEN ClearAudioSigning(s) ELSE PollAudioDecode(s))
  /\ cache' = IF name = "encode" THEN [cache EXCEPT !.index = 0] ELSE cache

\* It closes, is not open in time, or a reply does not come in time.
AudioChannelFails(name) ==
  /\ tab.socket[name] \in {"connecting", "open"}
  /\ Turns(FailAudioChannel(Page, name))
  /\ UNCHANGED cache

AudioChannelReconnects(name) ==
  /\ tab.socket[name] = "waiting"
  /\ Turns(ConnectAudioChannel(Page, name))
  /\ UNCHANGED cache

(***************************************************************************)
(* Signing.                                                                *)
(***************************************************************************)
HandleAudioProcess ==
  /\ tab.active /\ ~ tab.fresh
  /\ Turns([Page EXCEPT !.tab.fresh = TRUE])
  /\ UNCHANGED cache

\* The request remembers the archive that records when it is made.
SendAudioChunk ==
  /\ tab.fresh /\ tab.pendingSign = NoRequest /\ tab.socket["encode"] = "open"
  /\ LET request == [archive |-> IF tab.recording THEN tab.audioArchive ELSE 0,
                     rate |-> tab.sessionRate]
     IN Turns(ResetAudioVerification(
          [Page EXCEPT !.tab.pendingSign = request, !.tab.fresh = FALSE,
                       !.tab.latestSigned = NoChunk, !.sent.chunks = Append(@, NoChunk)]))
  /\ UNCHANGED cache

Reply == Head(sent.chunks)
TakenReply == [Page EXCEPT !.sent.chunks = Tail(@)]

RecordAnyChunk(s, request, artifact, downloads) ==
  LET chunk == [artifact |-> artifact, rate |-> request.rate, asked |-> request.archive]
  IN IF ~ s.tab.recording THEN s
     ELSE IF request.rate # s.tab.format \/ Cardinality(s.tab.archive) >= ARCHIVE_ENTRIES
          THEN FinishAudioRecording(s, downloads)
          ELSE [s EXCEPT !.tab.archive = @ \cup {chunk}]

\* Its first check is of the archive, then of the format, then of the room.
RecordSignedAudioChunk(s, request, artifact, downloads) ==
  LET chunk == [artifact |-> artifact, rate |-> request.rate, asked |-> request.archive]
  IN IF ~ s.tab.recording \/ request.archive # s.tab.audioArchive THEN s
     ELSE IF request.rate # s.tab.format \/ Cardinality(s.tab.archive) >= ARCHIVE_ENTRIES
          THEN FinishAudioRecording(s, downloads)
          ELSE [s EXCEPT !.tab.archive = @ \cup {chunk}]

ChunkReturns(downloads) ==
  /\ sent.chunks # <<>> /\ Reply # NoChunk
  /\ LET request == tab.pendingSign
         signed == [ClearAudioSigning(TakenReply) EXCEPT
                      !.tab.latestSigned = Reply, !.tab.counted = FALSE, !.tab.uncounted = @ + 1]
     IN Turns(IF request = NoRequest THEN TakenReply
              ELSE PollAudioDecode(ResetAudioVerification(
                     RecordSignedAudioChunk(signed, request, Reply, downloads))))
  /\ UNCHANGED cache

\* The reply is not the signed chunk of the request.
ChunkRejected(downloads) ==
  /\ sent.chunks # <<>> /\ Reply # NoChunk /\ tab.pendingSign # NoRequest
  /\ Turns(RejectSignedAudio(TakenReply, downloads))
  /\ UNCHANGED cache

\* The reply is no JSON object.
ChunkGarbled(downloads) ==
  /\ sent.chunks # <<>> /\ Reply # NoChunk
  /\ Turns(FailAudioChannel(RejectSignedAudio(TakenReply, downloads), "encode"))
  /\ UNCHANGED cache

ChunkRefused ==
  /\ sent.chunks # <<>> /\ Reply = NoChunk
  /\ Turns(ResetAudioVerification(
       [ClearAudioSigning(TakenReply) EXCEPT !.tab.latestSigned = NoChunk]))
  /\ UNCHANGED cache

(***************************************************************************)
(* The verdict.                                                            *)
(***************************************************************************)
PollDue ==
  /\ PollAudioDecode(Page) # Page
  /\ Turns(PollAudioDecode(Page))
  /\ UNCHANGED cache

Polled == [Page EXCEPT !.sent.poll = <<>>, !.tab.pendingPoll = NoChunk]

\* The verdict is counted the first time.
PollJudged(s) ==
  [s EXCEPT !.tab.verdict = sent.poll[1].reply,
            !.tab.uncounted = IF s.tab.counted THEN @ ELSE @ - 1,
            !.tab.counted = TRUE]

SameChunkIndex(target, reply) == reply.index = target.index
SameChunk(target, reply) == reply = target

VerdictReturns ==
  /\ sent.poll # <<>> /\ sent.poll[1].back
  /\ LET target == tab.pendingPoll
     IN Turns(IF target # tab.latestSigned THEN Polled
              ELSE IF SameChunk(target, sent.poll[1].reply) THEN PollJudged(Polled)
              ELSE ResetAudioVerification(Polled))
  /\ UNCHANGED cache

(***************************************************************************)
(* The archive.                                                            *)
(***************************************************************************)
ToggleAudioRecording(downloads) ==
  /\ IF tab.recording \/ tab.audioArchive # 0 THEN Turns(FinishAudioRecording(Page, downloads))
     ELSE /\ tab.active /\ tab.archives < MaxArchives
          /\ Turns([Page EXCEPT !.tab.recording = TRUE,
                                !.tab.archives = @ + 1,
                                !.tab.audioArchive = tab.archives + 1,
                                !.tab.format = tab.sessionRate])
  /\ UNCHANGED cache

(***************************************************************************)
(* The server.                                                             *)
(***************************************************************************)
SignChunk ==
  /\ cache.revision < MaxArtifacts
  /\ \E i \in DOMAIN sent.chunks :
       LET artifact == [revision |-> cache.revision + 1, index |-> cache.index + 1]
       IN /\ sent.chunks[i] = NoChunk /\ \A j \in 1..(i - 1) : sent.chunks[j] # NoChunk
          /\ cache' = [revision |-> cache.revision + 1, newest |-> artifact,
                       index |-> cache.index + 1]
          /\ sent' = [sent EXCEPT !.chunks[i] = artifact]
  /\ UNCHANGED <<tab, hardware, forgotten>>

OtherPage(index) ==
  /\ cache.revision < MaxArtifacts
  /\ cache' = [cache EXCEPT !.revision = @ + 1,
                            !.newest = [revision |-> cache.revision + 1, index |-> index]]
  /\ UNCHANGED <<tab, hardware, sent, forgotten>>

\* Of the newest artifact, or pending if that is not verified yet.
AnswerDecode ==
  /\ sent.poll # <<>> /\ ~ sent.poll[1].back
  /\ \E reply \in {cache.newest, NoChunk} :
       sent' = [sent EXCEPT !.poll = <<[reply |-> reply, back |-> TRUE]>>]
  /\ UNCHANGED <<tab, hardware, cache, forgotten>>

AudioNext ==
  \/ \E downloads \in BOOLEAN :
       \/ StartMicrophone(downloads) \/ PressStopMicrophone(downloads) \/ TrackEnds(downloads)
       \/ ToggleAudioRecording(downloads)
       \/ ChunkReturns(downloads) \/ ChunkRejected(downloads) \/ ChunkGarbled(downloads)
       \/ \E rate \in SampleRates : ChangeRate(rate, downloads)
       \/ \E x \in tab.starting : MicrophoneFails(x, downloads)
  \/ \E n \in hardware.closing : ContextCloses(n)
  \/ \E x \in tab.starting : OpenContext(x) \/ Resumed(x) \/ MicrophoneGranted(x)
  \/ \E name \in Channels :
       AudioChannelOpens(name) \/ AudioChannelFails(name) \/ AudioChannelReconnects(name)
  \/ HandleAudioProcess \/ SendAudioChunk \/ ChunkRefused
  \/ PollDue \/ VerdictReturns
  \/ SignChunk \/ (\E index \in 1..2 : OtherPage(index)) \/ AnswerDecode

AudioSpec == AudioInit /\ [][AudioNext]_audioVars

(***************************************************************************)
(* Properties.                                                             *)
(***************************************************************************)
\* Tracks and the audio context are the current session's, and there is never
\* a second context, however often the user starts and stops while the browser
\* asks for permission or closes a context.
MicrophoneOwnsAll ==
  /\ hardware.tracks \subseteq {tab.session}
  /\ hardware.contexts \subseteq {tab.session}
  /\ Cardinality(hardware.contexts \cup hardware.closing) <= 1
  /\ tab.active => hardware.tracks = {tab.session}
  /\ ~ tab.active => \A name \in Channels : tab.socket[name] = "none"

\* An active session's channels are open, opening or about to be.
ChannelsComeBack == tab.active => \A name \in Channels : tab.socket[name] # "none"

\* A reply is the one of the request that is pending: there is never a second
\* request on the encode connection.
RepliesAreOfRequest ==
  /\ Len(sent.chunks) <= 1
  /\ tab.pendingSign # NoRequest => sent.chunks # <<>>

\* The verdict on display is the one of the latest signed chunk, and no chunk
\* is counted twice.
ChunkVerdictIsOfLatest ==
  /\ tab.verdict # NoChunk => tab.verdict = tab.latestSigned
  /\ tab.uncounted >= 0

\* An archive holds chunks that were requested while it recorded, of one sample
\* rate, up to its limit; they are downloaded or kept for another try.
ChunksAreKept ==
  /\ ~ forgotten
  /\ \A chunk \in tab.archive : chunk.asked = tab.audioArchive /\ chunk.rate = tab.format
  /\ Cardinality(tab.archive) <= ARCHIVE_ENTRIES
=============================================================================
