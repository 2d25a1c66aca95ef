------------------------------ MODULE VideoTab ------------------------------
(***************************************************************************)
(* The video tab of the dashboard's page (static/app.js): the camera, the  *)
(* transport of frames (two WebSockets, or a WebRTC data channel with a    *)
(* fallback to them), the signing request, the verdict that is displayed   *)
(* and the archive of signed snapshots.                                    *)
(*                                                                         *)
(* The page has one thread.  What it runs between two awaits, a handler or *)
(* a timer is an action; the functions it calls there are functions of the *)
(* page's state.  A continuation that finds its generation or its request  *)
(* out of date ends, so those of signing requests are not kept once the    *)
(* request is cleared; those of startCamera and connectWebRtcTransport,    *)
(* which own a stream or a peer, are.  The camera, the network and the     *)
(* server (whose cache other clients share) are external.                  *)
(***************************************************************************)
EXTENDS Naturals, Sequences, FiniteSets

CONSTANTS
  Preferences,      \* of "auto", "websocket" and "webrtc": what the user may choose
  ARCHIVE_MAX_ENTRIES,
  MaxCameras,       \* bound on the camera generation
  MaxTransports,    \* bound on the transport generation
  MaxRevisions,     \* bound on the artifacts of the server
  MaxUnanswered     \* bound on the frames sent and not answered

ASSUME VideoAssumption ==
  /\ Preferences \subseteq {"auto", "websocket", "webrtc"} /\ Preferences # {}
  /\ ARCHIVE_MAX_ENTRIES \in Nat

VARIABLES
  page,      \* the module's variables, one field each
  devices,   \* [tracks, peers]: camera streams and peer connections that are open
  inFlight,  \* [frames, told]: frames unanswered or answered, and a verdict on its way
  server,    \* [revision, newest, index]: its cache, and the index of this connection
  dropped    \* history: an artifact left an archive that was not downloaded

videoVars == <<page, devices, inFlight, server, dropped>>

NoArtifact == [revision |-> 0, index |-> 0]
Artifact == [revision : 1..MaxRevisions, index : 1..MaxRevisions]
Kinds == {"encode", "decode"}

\* A WebSocket variable, with the timers of its handlers.  "closed": it closed
\* and the reconnect timer runs.
NoSocket == [state |-> "none", polling |-> FALSE]
Usable(socket) == socket.state \in {"connecting", "open", "closed"}

(***************************************************************************)
(* Functions of the page, as functions of its state.  s is a record of the *)
(* variables it may change.                                                *)
(***************************************************************************)
State == [page |-> page, devices |-> devices, inFlight |-> inFlight, downloaded |-> {}]

Becomes(s) ==
  /\ page' = s.page /\ devices' = s.devices /\ inFlight' = s.inFlight
  /\ dropped' = (dropped \/ ~ page.archive \subseteq s.page.archive \cup s.downloaded)

ClearVideoVerification(s) == [s EXCEPT !.page.verdict = NoArtifact]

\* It takes a new request id: a frame that is being grabbed and an artifact
\* that is being decoded belong to an older request from then on.
ClearSigningRequest(s) == [s EXCEPT !.page.signing = "idle", !.page.decoding = {}]

TeardownWebRtcTransport(s) ==
  [s EXCEPT !.page.polling = FALSE,
            !.page.pc = 0,
            !.page.channel = "none",
            !.devices.peers = @ \ {s.page.pc},
            !.inFlight = IF s.page.channel = "none" THEN @ ELSE [frames |-> <<>>, told |-> NoArtifact]]

StopTransport(s) ==
  LET gone == [s EXCEPT !.page.transportGeneration = @ + 1,
                        !.page.sockets = [k \in Kinds |-> NoSocket],
                        !.inFlight = [frames |-> <<>>, told |-> NoArtifact]]
  IN ClearVideoVerification(ClearSigningRequest(
       [TeardownWebRtcTransport(gone) EXCEPT !.page.transport = "none"]))

\* toggleVideoRecording while it records or holds an archive; the download may
\* fail, and the archive is kept for another try.
EndRecordingAnyway(s, downloads) ==
  LET held == s.page.archive
  IN [s EXCEPT !.page.recording = FALSE,
               !.page.archive = {},
               !.page.archiving = FALSE,
               !.downloaded = IF downloads THEN held ELSE {}]

EndRecording(s, downloads) ==
  LET held == s.page.archive
  IN [s EXCEPT !.page.recording = FALSE,
               !.page.archive = IF downloads THEN {} ELSE @,
               !.page.archiving = ~ downloads /\ held # {},
               !.downloaded = IF downloads THEN held ELSE {}]

StopCamera(s, downloads) ==
  LET off == [s EXCEPT !.page.cameraGeneration = @ + 1,
                       !.page.active = FALSE,
                       !.page.stream = 0,
                       !.devices.tracks = @ \ {s.page.stream}]
      quiet == [StopTransport(off) EXCEPT !.page.shown = NoArtifact]
  IN IF s.page.recording THEN EndRecording(quiet, downloads) ELSE quiet

\* A socket that is replaced while it is open is lost: nothing can close it.
ConnectVideoSocket(s, k) ==
  [s EXCEPT !.page.sockets[k] = [state |-> "connecting", polling |-> FALSE],
            !.page.lost = @ \/ s.page.sockets[k].state \in {"connecting", "open"}]

ConnectWsTransport(s) ==
  ConnectVideoSocket(
    ConnectVideoSocket([s EXCEPT !.page.transport = "websocket"], "encode"), "decode")

ConnectTransport(s) ==
  IF s.page.preference = "webrtc" \/ (s.page.preference = "auto" /\ ~ s.page.fallback)
  THEN [s EXCEPT !.page.attempts =
          @ \cup {[generation |-> s.page.transportGeneration, at |-> "config"]}]
  ELSE ConnectWsTransport(s)

FallbackFromOpen(s) ==
  LET down == ClearSigningRequest(TeardownWebRtcTransport(s))
      fallen == [down EXCEPT !.page.fallback = TRUE]
  IN IF s.page.preference # "auto"
     THEN ClearVideoVerification([down EXCEPT !.page.transport = "none"])
     ELSE IF s.page.transport # "webrtc" THEN fallen ELSE ConnectWsTransport(fallen)

FallbackToWs(s) ==
  LET down == ClearSigningRequest(TeardownWebRtcTransport(s))
      fallen == [down EXCEPT !.page.fallback = TRUE]
  IN IF s.page.preference # "auto"
     THEN ClearVideoVerification([down EXCEPT !.page.transport = "none"])
     ELSE IF s.page.transport = "websocket" THEN fallen ELSE ConnectWsTransport(fallen)

TransportIsConnected ==
  IF page.transport = "webrtc" THEN page.channel = "open" ELSE page.sockets["encode"].state = "open"

(***************************************************************************)
(* The camera.                                                             *)
(***************************************************************************)
VideoInit ==
  /\ page = [cameraGeneration |-> 0, active |-> FALSE, stream |-> 0, starting |-> {},
             transportGeneration |-> 0, transport |-> "none", fallback |-> FALSE,
             preference |-> CHOOSE p \in Preferences : TRUE,
             sockets |-> [k \in Kinds |-> NoSocket], lost |-> FALSE,
             attempts |-> {}, pc |-> 0, channel |-> "none", polling |-> FALSE,
             signing |-> "idle", decoding |-> {},
             shown |-> NoArtifact, verdict |-> NoArtifact,
             recording |-> FALSE, archiving |-> FALSE, archive |-> {}]
  /\ devices = [tracks |-> {}, peers |-> {}]
  /\ inFlight = [frames |-> <<>>, told |-> NoArtifact]
  /\ server = [revision |-> 0, newest |-> NoArtifact, index |-> 0]
  /\ dropped = FALSE

CanRestart == page.cameraGeneration < MaxCameras /\ page.transportGeneration < MaxTransports

StartCamera(downloads) ==
  /\ CanRestart
  /\ LET s == StopCamera(State, downloads)
     IN Becomes([s EXCEPT !.page.starting =
                   @ \cup {[generation |-> s.page.cameraGeneration, at |-> "asking"]}])
  /\ UNCHANGED server

PressStopCamera(downloads) ==
  /\ CanRestart
  /\ Becomes(StopCamera(State, downloads))
  /\ UNCHANGED server

Goes(x) == [State EXCEPT !.page.starting = @ \ {x}]

\* getUserMedia returns a stream; one that nobody waits for any more is stopped.
GrantedLate(x) ==
  /\ x.at = "asking"
  /\ Becomes([Goes(x) EXCEPT !.page.starting = @ \cup {[x EXCEPT !.at = "playing"]},
                             !.page.stream = x.generation,
                             !.devices.tracks = @ \cup {x.generation}])
  /\ UNCHANGED server

Granted(x) ==
  /\ x.at = "asking"
  /\ Becomes(IF x.generation # page.cameraGeneration THEN Goes(x)
             ELSE [Goes(x) EXCEPT !.page.starting = @ \cup {[x EXCEPT !.at = "playing"]},
                                  !.page.stream = x.generation,
                                  !.devices.tracks = @ \cup {x.generation}])
  /\ UNCHANGED server

Played(x) ==
  /\ x.at = "playing"
  /\ Becomes(IF x.generation # page.cameraGeneration THEN Goes(x)
             ELSE ConnectTransport(ClearVideoVerification(
                    [Goes(x) EXCEPT !.page.active = TRUE, !.page.fallback = FALSE])))
  /\ UNCHANGED server

\* getUserMedia or play rejects.
CameraFails(x, downloads) ==
  /\ CanRestart \/ x.generation # page.cameraGeneration
  /\ Becomes(IF x.generation # page.cameraGeneration THEN Goes(x) ELSE StopCamera(Goes(x), downloads))
  /\ UNCHANGED server

(***************************************************************************)
(* The WebSockets.  The server, a proxy or the network may close one at    *)
(* any time.                                                               *)
(***************************************************************************)
SocketOpens(k) ==
  /\ page.sockets[k].state = "connecting"
  /\ LET s == [State EXCEPT !.page.sockets[k] = [state |-> "open", polling |-> k = "decode"]]
     IN Becomes(IF k = "encode" THEN ClearSigningRequest(s) ELSE s)
  /\ server' = IF k = "encode" THEN [server EXCEPT !.index = 0] ELSE server

SocketCloses(k) ==
  /\ page.sockets[k].state \in {"connecting", "open"}
  /\ Becomes(ClearVideoVerification(ClearSigningRequest(
       [State EXCEPT !.page.sockets[k] = [state |-> "closed", polling |-> FALSE],
                     !.inFlight.frames = IF k = "encode" THEN <<>> ELSE @,
                     !.inFlight.told = IF k = "decode" THEN NoArtifact ELSE @])))
  /\ UNCHANGED server

Reconnects(k) ==
  /\ page.sockets[k].state = "closed"
  /\ Becomes(ConnectVideoSocket(State, k))
  /\ UNCHANGED server

(***************************************************************************)
(* connectWebRtcTransport, from await to await: "config" is being fetched, *)
(* candidates are "gathering", the offer is "offering", and the channel is *)
(* "opening".  Each may fail or time out.                                  *)
(***************************************************************************)
IsCurrent(a) == page.active /\ a.generation = page.transportGeneration

Ended(a) == [State EXCEPT !.page.attempts = @ \ {a}]
Reaches(s, a, at) == [s EXCEPT !.page.attempts = @ \cup {[a EXCEPT !.at = at]}]

\* A peer that is closed by its own attempt is still the one of webrtcPc only
\* if nothing was torn down.
ClosePeer(s, a) == [s EXCEPT !.devices.peers = @ \ {a.generation}]

ConfigAnswered(a) ==
  /\ a.at = "config"
  /\ Becomes(IF ~ IsCurrent(a) THEN Ended(a)
             ELSE [Reaches(Ended(a), a, "gathering") EXCEPT
                     !.page.pc = a.generation, !.page.channel = "connecting",
                     !.devices.peers = @ \cup {a.generation}])
  /\ UNCHANGED server

Gathered(a) ==
  /\ a.at = "gathering"
  /\ Becomes(IF ~ IsCurrent(a) THEN ClosePeer(Ended(a), a) ELSE Reaches(Ended(a), a, "offering"))
  /\ UNCHANGED server

OfferAnswered(a) ==
  /\ a.at = "offering"
  /\ Becomes(IF ~ IsCurrent(a) THEN ClosePeer(Ended(a), a) ELSE Reaches(Ended(a), a, "opening"))
  /\ UNCHANGED server

\* The channel of a peer that was closed does not open.
ChannelOpens(a) ==
  /\ a.at = "opening" /\ IsCurrent(a)
  /\ Becomes([Ended(a) EXCEPT !.page.transport = "webrtc",
                                !.page.channel = "open", !.page.polling = TRUE])
  /\ server' = [server EXCEPT !.index = 0]

AttemptFails(a) ==
  /\ Becomes(IF IsCurrent(a) THEN FallbackToWs(Ended(a)) ELSE ClosePeer(Ended(a), a))
  /\ UNCHANGED server

\* The channel closes or fails, or the connection does.
ChannelLost ==
  /\ page.channel = "open"
  /\ Becomes(FallbackToWs(State))
  /\ UNCHANGED server

\* The choice is saved, and the transport starts again.
ChooseTransport(preference) ==
  /\ preference # page.preference /\ page.transportGeneration < MaxTransports
  /\ LET s == [StopTransport(State) EXCEPT !.page.preference = preference, !.page.fallback = FALSE]
     IN Becomes(IF s.page.active THEN ConnectTransport(s) ELSE s)
  /\ UNCHANGED server

(***************************************************************************)
(* Signing.                                                                *)
(***************************************************************************)
\* sendFrameForSigning, up to toBlob.
GrabFrame ==
  /\ page.active /\ page.signing = "idle" /\ TransportIsConnected
  /\ Becomes([State EXCEPT !.page.signing = "grabbing"])
  /\ UNCHANGED server

SendFrame ==
  /\ page.signing = "grabbing" /\ TransportIsConnected
  /\ Len(inFlight.frames) < MaxUnanswered
  /\ Becomes([State EXCEPT !.page.signing = "sent", !.inFlight.frames = Append(@, NoArtifact)])
  /\ UNCHANGED server

\* The frame is over 4 MiB, or the transport has gone.
FrameRefused ==
  /\ page.signing = "grabbing"
  /\ Becomes(ClearSigningRequest(State))
  /\ UNCHANGED server

SigningTimesOut ==
  /\ page.signing # "idle" /\ page.transportGeneration < MaxTransports
  /\ LET s == StopTransport(State)
     IN Becomes(IF s.page.active THEN ConnectTransport(s) ELSE s)
  /\ UNCHANGED server

\* The first message of the channel's or the socket's queue.
Received == [State EXCEPT !.inFlight.frames = Tail(@)]
HasReply == inFlight.frames # <<>> /\ Head(inFlight.frames) # NoArtifact

\* createImageBitmap begins; a reply that nobody waits for is dropped.
FrameReturns ==
  /\ HasReply
  /\ Becomes(IF page.active /\ page.signing # "idle"
             THEN [Received EXCEPT !.page.decoding = @ \cup {Head(inFlight.frames)}]
             ELSE Received)
  /\ UNCHANGED server

\* The server answers a frame with an error.
SigningFails ==
  /\ inFlight.frames # <<>> /\ Head(inFlight.frames) = NoArtifact
  /\ Becomes(ClearVideoVerification(ClearSigningRequest(Received)))
  /\ UNCHANGED server

\* videoArchive.add: a name that is in it already is not added again, and a
\* full archive is exported.
Recorded(s, artifact, downloads) ==
  IF ~ s.page.recording \/ artifact \in s.page.archive THEN s
  ELSE IF Cardinality(s.page.archive) >= ARCHIVE_MAX_ENTRIES THEN EndRecording(s, downloads)
  ELSE [s EXCEPT !.page.archive = @ \cup {artifact}]

DrawKeepingVerdict(artifact, downloads) ==
  /\ artifact \in page.decoding
  /\ Becomes(ClearSigningRequest(Recorded(
       [State EXCEPT !.page.shown = artifact], artifact, downloads)))
  /\ UNCHANGED server

Draw(artifact, downloads) ==
  /\ artifact \in page.decoding
  /\ Becomes(ClearSigningRequest(Recorded(
       ClearVideoVerification([State EXCEPT !.page.shown = artifact]), artifact, downloads)))
  /\ UNCHANGED server

\* The bitmap or the metadata is bad.
DrawFails(artifact) ==
  /\ artifact \in page.decoding
  /\ Becomes(ClearSigningRequest(ClearVideoVerification(State)))
  /\ UNCHANGED server

(***************************************************************************)
(* The verdict.                                                            *)
(***************************************************************************)
SameIndex(told) == told.index = page.shown.index

\* handleDecodeMessage shows a verdict of the artifact on the canvas only.
IsOfShown(told) == told.revision = page.shown.revision /\ told.index = page.shown.index

VerdictArrives ==
  /\ inFlight.told # NoArtifact
  /\ LET s == [State EXCEPT !.inFlight.told = NoArtifact]
     IN Becomes(IF page.active /\ page.shown # NoArtifact /\ IsOfShown(inFlight.told)
                THEN [s EXCEPT !.page.verdict = inFlight.told] ELSE s)
  /\ UNCHANGED server

\* The newest artifact is still being verified, or there is none.
VerdictPending ==
  /\ (page.polling \/ page.sockets["decode"].polling) /\ page.active
  /\ Becomes(ClearVideoVerification(State))
  /\ UNCHANGED server

(***************************************************************************)
(* The archive.                                                            *)
(***************************************************************************)
ToggleVideoRecording(downloads) ==
  /\ IF page.recording \/ page.archiving THEN Becomes(EndRecording(State, downloads))
     ELSE /\ page.active
          /\ Becomes([State EXCEPT !.page.recording = TRUE, !.page.archiving = TRUE,
                                   !.page.archive = {}])
  /\ UNCHANGED server

(***************************************************************************)
(* The server: it answers the frames of a connection in their order and    *)
(* the polls with the newest artifact of all its connections.              *)
(***************************************************************************)
Unanswered == {i \in DOMAIN inFlight.frames : inFlight.frames[i] = NoArtifact}

EncodeFrame ==
  /\ server.revision < MaxRevisions
  /\ \E i \in Unanswered :
       LET artifact == [revision |-> server.revision + 1, index |-> server.index + 1]
       IN /\ \A j \in Unanswered : i <= j
          /\ server' = [revision |-> server.revision + 1, newest |-> artifact,
                        index |-> server.index + 1]
          /\ inFlight' = [inFlight EXCEPT !.frames[i] = artifact]
  /\ UNCHANGED <<page, devices, dropped>>

OtherClient(index) ==
  /\ server.revision < MaxRevisions
  /\ server' = [server EXCEPT !.revision = @ + 1,
                              !.newest = [revision |-> server.revision + 1, index |-> index]]
  /\ UNCHANGED <<page, devices, inFlight, dropped>>

AnswerPoll ==
  /\ page.polling \/ page.sockets["decode"].polling
  /\ server.newest # NoArtifact /\ inFlight.told = NoArtifact
  /\ inFlight' = [inFlight EXCEPT !.told = server.newest]
  /\ UNCHANGED <<page, devices, server, dropped>>

VideoNext ==
  \/ \E downloads \in BOOLEAN :
       \/ StartCamera(downloads) \/ PressStopCamera(downloads) \/ ToggleVideoRecording(downloads)
       \/ \E x \in page.starting : CameraFails(x, downloads)
       \/ \E artifact \in page.decoding : Draw(artifact, downloads)
  \/ \E x \in page.starting : Granted(x) \/ Played(x)
  \/ \E k \in Kinds : SocketOpens(k) \/ SocketCloses(k) \/ Reconnects(k)
  \/ \E a \in page.attempts :
       ConfigAnswered(a) \/ Gathered(a) \/ OfferAnswered(a) \/ ChannelOpens(a) \/ AttemptFails(a)
  \/ ChannelLost \/ (\E p \in Preferences : ChooseTransport(p))
  \/ GrabFrame \/ SendFrame \/ FrameRefused \/ SigningTimesOut
  \/ FrameReturns \/ SigningFails \/ (\E artifact \in page.decoding : DrawFails(artifact))
  \/ VerdictArrives \/ VerdictPending
  \/ EncodeFrame \/ (\E index \in 1..2 : OtherClient(index)) \/ AnswerPoll

VideoSpec == VideoInit /\ [][VideoNext]_videoVars

(***************************************************************************)
(* Properties.                                                             *)
(***************************************************************************)
\* "One camera session owns every track, socket, interval and pending
\* operation" (app.js): whatever is open is what the page's variables hold, and
\* nothing is open without a camera.
SessionOwnsAll ==
  /\ devices.tracks \subseteq {page.stream}
  /\ devices.peers \subseteq {page.pc}
  /\ ~ page.lost
  /\ ~ page.active =>
       /\ \A k \in Kinds : page.sockets[k] = NoSocket
       /\ page.pc = 0 /\ page.signing = "idle" /\ ~ page.polling

\* While the camera runs there is a transport, or something that will make one:
\* both sockets or their timers, an attempt or an open channel.  Only WebRTC
\* that the user insists on may stay down.
NeverStranded ==
  page.active =>
    \/ page.preference = "webrtc"
    \/ \A k \in Kinds : Usable(page.sockets[k])
    \/ \E a \in page.attempts : a.generation = page.transportGeneration
    \/ page.transport = "webrtc" /\ page.channel = "open" /\ page.polling

\* The verdict on display is the one of the artifact on the canvas, though
\* other clients sign, replies are late and both come over their own sockets.
VerdictIsOfShown == page.verdict # NoArtifact => page.verdict = page.shown

\* What was recorded is downloaded or still held for a download, and an archive
\* never grows past its limit.
ArchiveIsKept ==
  /\ ~ dropped
  /\ Cardinality(page.archive) <= ARCHIVE_MAX_ENTRIES
  /\ page.archive # {} => page.archiving
=============================================================================
