---------------------------- MODULE WebrtcSession ----------------------------
(***************************************************************************)
(* The life of a WebRTC peer of the dashboard (webrtc.rs): the HTTP        *)
(* handler that negotiates it and may be dropped at any await, the frame   *)
(* pump and the media pump it spawns, the blocking encode job of the frame *)
(* pump, and remove_session, which the pump calls on its way out and the   *)
(* server's owner may call on any registered session at any time.          *)
(*                                                                         *)
(* They share a registry, a table of media publishers, and for each peer a *)
(* SessionControl: a latched stop flag, two drain gates (tokio mutexes)    *)
(* and a permit of SESSION_SLOTS that is free again when the last task     *)
(* that holds the control is over.                                         *)
(*                                                                         *)
(* The WebRTC library is external: an await on it returns, a connection    *)
(* may be lost and a data channel may come at any time.  Idle times, the   *)
(* ten-second limits and what requests say only choose among the steps, so *)
(* they are nondeterministic.  FramePipeline has what an encode job does,  *)
(* Reassembler how its request came to be.                                 *)
(***************************************************************************)
EXTENDS Naturals, FiniteSets

CONSTANTS
  Sessions,            \* the offers of a behaviour, each with its own id
  Removers,            \* tasks of the owner that call remove_session, once each
  NoOne,               \* a gate that is free
  Media,               \* the media pump, as the holder of a gate
  WEBRTC_SESSION_MAX   \* permits of SESSION_SLOTS (16 in the code)

\* A call of remove_session by the frame pump of s is the caller s.
Callers == Sessions \cup Removers

ASSUME ActorsAssumption ==
  /\ Sessions \cap Removers = {}
  /\ NoOne \notin Callers \cup {Media}
  /\ Media \notin Callers
ASSUME SlotsAssumption == WEBRTC_SESSION_MAX \in Nat \ {0}

VARIABLES
  offer,        \* where the handler of the offer is
  guard,        \* OfferPeerGuard.pc is Some
  closer,       \* the task that guard's drop spawned is running
  peer,         \* the peer connection: "none", "up" or "closed"
  channel,      \* its data channel, on its way to the frame pump
  stopped,      \* SessionControl.stopped
  registry,     \* webrtc_sessions
  publishers,   \* media_publishers
  pump,         \* where the frame pump is
  job,          \* the encode job it spawned
  media,        \* where the media pump is
  closed,       \* MediaPublisher.closed
  encoder,      \* MediaPublisher.encoder is Some
  encodeDrain, mediaDrain,   \* who holds the gate
  call,         \* where a caller is in remove_session
  target        \* the session it is called on

offerVars == <<offer, guard, closer>>
peerVars == <<peer, channel>>
tableVars == <<registry, publishers>>
pumpVars == <<pump, job>>
mediaVars == <<media, closed, encoder>>
drains == <<encodeDrain, mediaDrain>>
callVars == <<call, target>>
vars == <<offerVars, peerVars, stopped, tableVars, pumpVars, mediaVars, drains, callVars>>

Init ==
  /\ offer = [s \in Sessions |-> "none"]
  /\ guard = [s \in Sessions |-> FALSE]
  /\ closer = [s \in Sessions |-> FALSE]
  /\ peer = [s \in Sessions |-> "none"]
  /\ channel = [s \in Sessions |-> "none"]
  /\ stopped = [s \in Sessions |-> FALSE]
  /\ registry = {}
  /\ publishers = {}
  /\ pump = [s \in Sessions |-> "none"]
  /\ job = [s \in Sessions |-> "none"]
  /\ media = [s \in Sessions |-> "none"]
  /\ closed = [s \in Sessions |-> FALSE]
  /\ encoder = [s \in Sessions |-> FALSE]
  /\ encodeDrain = [s \in Sessions |-> NoOne]
  /\ mediaDrain = [s \in Sessions |-> NoOne]
  /\ call = [c \in Callers |-> "idle"]
  /\ target \in [Callers -> Sessions]
  /\ \A s \in Sessions : target[s] = s

Over == {"none", "done"}
Calling(s) == \E c \in Callers : call[c] \notin {"idle", "lookup", "returned"} /\ target[c] = s

\* Who still holds an Arc of the SessionControl, and with it the permit: the
\* handler, the event handler inside the peer, the registry's entry, the tasks.
HoldsSlot(s) ==
  \/ offer[s] \notin Over \/ closer[s] \/ peer[s] = "up" \/ s \in registry
  \/ pump[s] \notin Over \/ media[s] \notin Over \/ Calling(s)

Stop(s) == stopped' = [stopped EXCEPT ![s] = TRUE]

-----------------------------------------------------------------------------
(* handle_offer_with_webrtc.                                               *)

To(s, l) == offer' = [offer EXCEPT ![s] = l]

\* Mutant of Admit: a permit is not asked for.
AdmitAnyway(s) ==
  /\ offer[s] = "none"
  /\ To(s, "building")
  /\ UNCHANGED <<guard, closer, peerVars, stopped, tableVars, pumpVars, mediaVars, drains, callVars>>

\* An offer that finds no permit is answered 503, changing nothing.
Admit(s) ==
  /\ offer[s] = "none"
  /\ Cardinality({t \in Sessions : HoldsSlot(t)}) < WEBRTC_SESSION_MAX
  /\ To(s, "building")
  /\ UNCHANGED <<guard, closer, peerVars, stopped, tableVars, pumpVars, mediaVars, drains, callVars>>

\* build() fails, or the request is dropped while it is awaited.
BuildFailed(s) ==
  /\ offer[s] = "building"
  /\ To(s, "done")
  /\ UNCHANGED <<guard, closer, peerVars, stopped, tableVars, pumpVars, mediaVars, drains, callVars>>

Build(s) ==
  /\ offer[s] = "building"
  /\ peer' = [peer EXCEPT ![s] = "up"]
  /\ guard' = [guard EXCEPT ![s] = TRUE]
  /\ To(s, "negotiating")
  /\ UNCHANGED <<closer, channel, stopped, tableVars, pumpVars, mediaVars, drains, callVars>>

\* Mutant of Reject: guard.close gives its peer up before the await.
RejectDisarmed(s) ==
  /\ offer[s] = "negotiating"
  /\ Stop(s)
  /\ guard' = [guard EXCEPT ![s] = FALSE]
  /\ To(s, "closing")
  /\ UNCHANGED <<closer, peerVars, tableVars, pumpVars, mediaVars, drains, callVars>>

\* Any error up to the local description, or a stop seen before registering:
\* guard.close() stops the session and awaits pc.close().
Reject(s) ==
  /\ offer[s] = "negotiating"
  /\ Stop(s)
  /\ To(s, "closing")
  /\ UNCHANGED <<guard, closer, peerVars, tableVars, pumpVars, mediaVars, drains, callVars>>

Rejected(s) ==
  /\ offer[s] = "closing"
  /\ peer' = [peer EXCEPT ![s] = "closed"]
  /\ guard' = [guard EXCEPT ![s] = FALSE]
  /\ To(s, "done")
  /\ UNCHANGED <<closer, channel, stopped, tableVars, pumpVars, mediaVars, drains, callVars>>

\* The HTTP request is dropped at an await; a guard that still has its peer
\* stops the session and spawns a task that closes the peer.
DropRequest(s) ==
  /\ offer[s] \in {"negotiating", "closing"}
  /\ stopped' = [stopped EXCEPT ![s] = @ \/ guard[s]]
  /\ closer' = [closer EXCEPT ![s] = guard[s]]
  /\ guard' = [guard EXCEPT ![s] = FALSE]
  /\ To(s, "done")
  /\ UNCHANGED <<peerVars, tableVars, pumpVars, mediaVars, drains, callVars>>

CloserDone(s) ==
  /\ closer[s]
  /\ peer' = [peer EXCEPT ![s] = "closed"]
  /\ closer' = [closer EXCEPT ![s] = FALSE]
  /\ UNCHANGED <<offer, guard, channel, stopped, tableVars, pumpVars, mediaVars, drains, callVars>>

\* From here to SpawnPump there is no await: the request cannot be dropped.
Accept(s) ==
  /\ offer[s] = "negotiating"
  /\ ~ stopped[s]
  /\ To(s, "accepted")
  /\ UNCHANGED <<guard, closer, peerVars, stopped, tableVars, pumpVars, mediaVars, drains, callVars>>

\* With and without a negotiated video track.
Register(s) ==
  /\ offer[s] = "accepted"
  /\ registry' = registry \cup {s}
  /\ \E next \in {"track", "spawning"} : To(s, next)
  /\ UNCHANGED <<guard, closer, peerVars, stopped, publishers, pumpVars, mediaVars, drains, callVars>>

InsertPublisher(s) ==
  /\ offer[s] = "track"
  /\ publishers' = publishers \cup {s}
  /\ To(s, "mediaSpawning")
  /\ UNCHANGED <<guard, closer, peerVars, stopped, registry, pumpVars, mediaVars, drains, callVars>>

SpawnMedia(s) ==
  /\ offer[s] = "mediaSpawning"
  /\ media' = [media EXCEPT ![s] = "sleeping"]
  /\ To(s, "spawning")
  /\ UNCHANGED <<guard, closer, peerVars, stopped, tableVars, pumpVars, closed, encoder, drains, callVars>>

\* The pump owns the peer from now on: guard.pc = None.
SpawnPump(s) ==
  /\ offer[s] = "spawning"
  /\ pump' = [pump EXCEPT ![s] = "waiting"]
  /\ guard' = [guard EXCEPT ![s] = FALSE]
  /\ To(s, "done")
  /\ UNCHANGED <<closer, peerVars, stopped, tableVars, job, mediaVars, drains, callVars>>

-----------------------------------------------------------------------------
(* SessionEventHandler, called by the library while the peer is up.        *)

ConnectionLost(s) ==
  /\ peer[s] = "up"
  /\ Stop(s)
  /\ UNCHANGED <<offerVars, peerVars, tableVars, pumpVars, mediaVars, drains, callVars>>

\* The first channel; a second one, or one after the stop, is just closed.
DataChannelSeen(s) ==
  /\ peer[s] = "up" /\ channel[s] = "none"
  /\ ~ stopped[s]
  /\ channel' = [channel EXCEPT ![s] = "seen"]
  /\ UNCHANGED <<offerVars, peer, stopped, tableVars, pumpVars, mediaVars, drains, callVars>>

\* dc_rx lives in the handler, then in the pump's task.
Receiving(s) == offer[s] \notin Over \/ pump[s] \notin Over

DataChannelSent(s) ==
  /\ channel[s] = "seen"
  /\ Receiving(s)
  /\ channel' = [channel EXCEPT ![s] = "sent"]
  /\ UNCHANGED <<offerVars, peer, stopped, tableVars, pumpVars, mediaVars, drains, callVars>>

DataChannelRefused(s) ==
  /\ channel[s] = "seen"
  /\ ~ Receiving(s)
  /\ channel' = [channel EXCEPT ![s] = "refused"]
  /\ Stop(s)
  /\ UNCHANGED <<offerVars, peer, tableVars, pumpVars, mediaVars, drains, callVars>>

-----------------------------------------------------------------------------
(* The pump's task: wait for the channel, run_frame_pump, remove_session.  *)

PumpTo(s, l) == pump' = [pump EXCEPT ![s] = l]

\* Mutant of PumpGivesUp: the task ends without remove_session.
PumpGivesUpQuietly(s) ==
  /\ pump[s] = "waiting"
  /\ PumpTo(s, "done")
  /\ UNCHANGED <<offerVars, peerVars, stopped, tableVars, job, mediaVars, drains, callVars>>

\* Stopped, or no channel for ten seconds: remove_session at once.
PumpGivesUp(s) ==
  /\ pump[s] = "waiting"
  /\ PumpTo(s, "removing")
  /\ call' = [call EXCEPT ![s] = "lookup"]
  /\ UNCHANGED <<offerVars, peerVars, stopped, tableVars, job, mediaVars, drains, target>>

PumpStarts(s) ==
  /\ pump[s] = "waiting"
  /\ ~ stopped[s] /\ channel[s] = "sent"
  /\ PumpTo(s, "serving")
  /\ UNCHANGED <<offerVars, peerVars, stopped, tableVars, job, mediaVars, drains, callVars>>

\* Stopped, idle, no longer registered, channel closed, a bad message, or no
\* room for the reply.  A request that encodes nothing stays and is no step.
PumpLeaves(s) ==
  /\ pump[s] = "serving"
  /\ PumpTo(s, "leaving")
  /\ UNCHANGED <<offerVars, peerVars, stopped, tableVars, job, mediaVars, drains, callVars>>

PumpRequest(s) ==
  /\ pump[s] = "serving"
  /\ ~ stopped[s] /\ s \in registry
  /\ PumpTo(s, "gate")
  /\ UNCHANGED <<offerVars, peerVars, stopped, tableVars, job, mediaVars, drains, callVars>>

PumpGate(s) ==
  /\ pump[s] = "gate"
  /\ encodeDrain[s] = NoOne
  /\ encodeDrain' = [encodeDrain EXCEPT ![s] = s]
  /\ PumpTo(s, "inside")
  /\ UNCHANGED <<offerVars, peerVars, stopped, tableVars, job, mediaVars, mediaDrain, callVars>>

OpenEncode(s) == encodeDrain' = [encodeDrain EXCEPT ![s] = NoOne]

\* Mutant of PumpStopped: the gate is still held when remove_session is called.
PumpStoppedHolding(s) ==
  /\ pump[s] = "inside"
  /\ stopped[s]
  /\ PumpTo(s, "leaving")
  /\ UNCHANGED <<offerVars, peerVars, stopped, tableVars, job, mediaVars, drains, callVars>>

PumpStopped(s) ==
  /\ pump[s] = "inside"
  /\ stopped[s]
  /\ OpenEncode(s)
  /\ PumpTo(s, "leaving")
  /\ UNCHANGED <<offerVars, peerVars, stopped, tableVars, job, mediaVars, mediaDrain, callVars>>

\* Mutant of PumpSpawns: the job is not joined inside the gate.
PumpSpawnsDetached(s) ==
  /\ pump[s] = "inside"
  /\ ~ stopped[s]
  /\ OpenEncode(s)
  /\ job' = [job EXCEPT ![s] = "queued"]
  /\ PumpTo(s, "joining")
  /\ UNCHANGED <<offerVars, peerVars, stopped, tableVars, mediaVars, mediaDrain, callVars>>

PumpSpawns(s) ==
  /\ pump[s] = "inside"
  /\ ~ stopped[s]
  /\ job' = [job EXCEPT ![s] = "queued"]
  /\ PumpTo(s, "joining")
  /\ UNCHANGED <<offerVars, peerVars, stopped, tableVars, mediaVars, drains, callVars>>

\* The blocking pool runs the job: it looks at the flag once more.
JobStart(s) ==
  /\ job[s] = "queued"
  /\ job' = [job EXCEPT ![s] = IF stopped[s] THEN "over" ELSE "encoding"]
  /\ UNCHANGED <<offerVars, peerVars, stopped, tableVars, pump, mediaVars, drains, callVars>>

\* process_encode_frame returns, or panics.
JobEnd(s) ==
  /\ job[s] = "encoding"
  /\ job' = [job EXCEPT ![s] = "over"]
  /\ UNCHANGED <<offerVars, peerVars, stopped, tableVars, pump, mediaVars, drains, callVars>>

\* The job is joined; the gate opens.  Serve on after the reply, or leave when
\* the job panicked or the reply cannot be sent.
PumpJoins(s) ==
  /\ pump[s] = "joining"
  /\ job[s] = "over"
  /\ job' = [job EXCEPT ![s] = "none"]
  /\ OpenEncode(s)
  /\ \E next \in {"serving", "leaving"} : PumpTo(s, next)
  /\ UNCHANGED <<offerVars, peerVars, stopped, tableVars, mediaVars, mediaDrain, callVars>>

\* control.stop(), dc.close(), then remove_session.
PumpRemoves(s) ==
  /\ pump[s] = "leaving"
  /\ Stop(s)
  /\ PumpTo(s, "removing")
  /\ call' = [call EXCEPT ![s] = "lookup"]
  /\ UNCHANGED <<offerVars, peerVars, tableVars, job, mediaVars, drains, target>>

-----------------------------------------------------------------------------
(* run_media_pump.                                                         *)

MediaTo(s, l) == media' = [media EXCEPT ![s] = l]
OpenMedia(s) == mediaDrain' = [mediaDrain EXCEPT ![s] = NoOne]

MediaCancelled(s) ==
  /\ media[s] = "sleeping"
  /\ stopped[s]
  /\ MediaTo(s, "exiting")
  /\ UNCHANGED <<offerVars, peerVars, stopped, tableVars, pumpVars, closed, encoder, drains, callVars>>

MediaTick(s) ==
  /\ media[s] = "sleeping"
  /\ ~ stopped[s]
  /\ MediaTo(s, "gate")
  /\ UNCHANGED <<offerVars, peerVars, stopped, tableVars, pumpVars, closed, encoder, drains, callVars>>

MediaGate(s) ==
  /\ media[s] = "gate"
  /\ mediaDrain[s] = NoOne
  /\ mediaDrain' = [mediaDrain EXCEPT ![s] = Media]
  /\ MediaTo(s, "inside")
  /\ UNCHANGED <<offerVars, peerVars, stopped, tableVars, pumpVars, closed, encoder, encodeDrain, callVars>>

MediaStopped(s) ==
  /\ media[s] = "inside"
  /\ stopped[s] \/ s \notin registry
  /\ OpenMedia(s)
  /\ MediaTo(s, "exiting")
  /\ UNCHANGED <<offerVars, peerVars, stopped, tableVars, pumpVars, closed, encoder, encodeDrain, callVars>>

MediaNothingNew(s) ==
  /\ media[s] = "inside"
  /\ ~ stopped[s] /\ s \in registry
  /\ OpenMedia(s)
  /\ MediaTo(s, "sleeping")
  /\ UNCHANGED <<offerVars, peerVars, stopped, tableVars, pumpVars, closed, encoder, encodeDrain, callVars>>

\* A newer revision is cached, and publish_frame finds the publisher open.
MediaPublishes(s) ==
  /\ media[s] = "inside"
  /\ ~ stopped[s] /\ s \in registry /\ ~ closed[s]
  /\ MediaTo(s, "publishing")
  /\ UNCHANGED <<offerVars, peerVars, stopped, tableVars, pumpVars, closed, encoder, drains, callVars>>

\* The encoder is created if there is none; what it returns is written.
MediaEncodes(s) ==
  /\ media[s] = "publishing"
  /\ encoder' = [encoder EXCEPT ![s] = TRUE]
  /\ MediaTo(s, "writing")
  /\ UNCHANGED <<offerVars, peerVars, stopped, tableVars, pumpVars, closed, drains, callVars>>

MediaWritten(s) ==
  /\ media[s] = "writing"
  /\ OpenMedia(s)
  /\ MediaTo(s, "sleeping")
  /\ UNCHANGED <<offerVars, peerVars, stopped, tableVars, pumpVars, closed, encoder, encodeDrain, callVars>>

\* An encoder or RTP error, or ten seconds without the write: stop the session.
MediaFails(s) ==
  /\ media[s] \in {"publishing", "writing"}
  /\ Stop(s)
  /\ OpenMedia(s)
  /\ MediaTo(s, "exiting")
  /\ UNCHANGED <<offerVars, peerVars, tableVars, pumpVars, closed, encoder, encodeDrain, callVars>>

\* publisher.close(): the flag, then the encoder.
Close(s) ==
  /\ closed' = [closed EXCEPT ![s] = TRUE]
  /\ encoder' = [encoder EXCEPT ![s] = FALSE]

MediaExits(s) ==
  /\ media[s] = "exiting"
  /\ Close(s)
  /\ MediaTo(s, "unlisting")
  /\ UNCHANGED <<offerVars, peerVars, stopped, tableVars, pumpVars, drains, callVars>>

MediaUnlists(s) ==
  /\ media[s] = "unlisting"
  /\ publishers' = publishers \ {s}
  /\ MediaTo(s, "done")
  /\ UNCHANGED <<offerVars, peerVars, stopped, registry, pumpVars, closed, encoder, drains, callVars>>

-----------------------------------------------------------------------------
(* remove_session.  A Remover stands for the server's owner: it may find   *)
(* any registered session (sweep_idle_sessions finds the idle ones), and   *)
(* its future may be dropped at an await.                                  *)

CallTo(c, l) == call' = [call EXCEPT ![c] = l]

CallRemove(c, s) ==
  /\ c \in Removers /\ call[c] = "idle"
  /\ s \in registry
  /\ CallTo(c, "lookup")
  /\ target' = [target EXCEPT ![c] = s]
  /\ UNCHANGED <<offerVars, peerVars, stopped, tableVars, pumpVars, mediaVars, drains>>

\* Back in the caller; the pump's task is over.
Return(c) ==
  /\ CallTo(c, "returned")
  /\ pump' = [s \in Sessions |-> IF s = c THEN "done" ELSE pump[s]]

NotFound(c) ==
  /\ call[c] = "lookup" /\ target[c] \notin registry
  /\ Return(c)
  /\ UNCHANGED <<offerVars, peerVars, stopped, tableVars, job, mediaVars, drains, target>>

Found(c) ==
  /\ call[c] = "lookup" /\ target[c] \in registry
  /\ Stop(target[c])
  /\ CallTo(c, "closing")
  /\ UNCHANGED <<offerVars, peerVars, tableVars, pumpVars, mediaVars, drains, target>>

PeerClosed(c) ==
  /\ call[c] = "closing"
  /\ peer' = [peer EXCEPT ![target[c]] = "closed"]
  /\ CallTo(c, "encodeGate")
  /\ UNCHANGED <<offerVars, channel, stopped, tableVars, pumpVars, mediaVars, drains, target>>

DrainEncode(c) ==
  /\ call[c] = "encodeGate"
  /\ encodeDrain[target[c]] = NoOne
  /\ encodeDrain' = [encodeDrain EXCEPT ![target[c]] = c]
  /\ CallTo(c, "mediaGate")
  /\ UNCHANGED <<offerVars, peerVars, stopped, tableVars, pumpVars, mediaVars, mediaDrain, target>>

\* Mutant of DrainMedia: the gate is passed without being held.
DrainMediaUnheld(c) ==
  /\ call[c] = "mediaGate"
  /\ CallTo(c, "publisher")
  /\ UNCHANGED <<offerVars, peerVars, stopped, tableVars, pumpVars, mediaVars, drains, target>>

DrainMedia(c) ==
  /\ call[c] = "mediaGate"
  /\ mediaDrain[target[c]] = NoOne
  /\ mediaDrain' = [mediaDrain EXCEPT ![target[c]] = c]
  /\ CallTo(c, "publisher")
  /\ UNCHANGED <<offerVars, peerVars, stopped, tableVars, pumpVars, mediaVars, encodeDrain, target>>

ClosePublisher(c) ==
  /\ call[c] = "publisher"
  /\ publishers' = publishers \ {target[c]}
  /\ IF target[c] \in publishers THEN Close(target[c]) ELSE UNCHANGED <<closed, encoder>>
  /\ CallTo(c, "unregister")
  /\ UNCHANGED <<offerVars, peerVars, stopped, registry, pumpVars, media, drains, target>>

\* The guards of both gates that c holds are dropped.
OpenBoth(c) ==
  /\ encodeDrain' = [s \in Sessions |-> IF encodeDrain[s] = c THEN NoOne ELSE encodeDrain[s]]
  /\ mediaDrain' = [s \in Sessions |-> IF mediaDrain[s] = c THEN NoOne ELSE mediaDrain[s]]

Unregister(c) ==
  /\ call[c] = "unregister"
  /\ registry' = registry \ {target[c]}
  /\ OpenBoth(c)
  /\ Return(c)
  /\ UNCHANGED <<offerVars, peerVars, stopped, publishers, job, mediaVars, target>>

CallDropped(c) ==
  /\ c \in Removers
  /\ call[c] \in {"closing", "encodeGate", "mediaGate"}
  /\ OpenBoth(c)
  /\ CallTo(c, "returned")
  /\ UNCHANGED <<offerVars, peerVars, stopped, tableVars, pumpVars, mediaVars, target>>

-----------------------------------------------------------------------------

\* The handler's own steps, but its choice to go on or to reject.
Negotiation(s) ==
  \/ Build(s) \/ BuildFailed(s) \/ Reject(s) \/ Rejected(s) \/ Accept(s)
  \/ Register(s) \/ InsertPublisher(s) \/ SpawnMedia(s) \/ SpawnPump(s)

Event(s) ==
  \/ ConnectionLost(s) \/ DataChannelSeen(s) \/ DataChannelSent(s) \/ DataChannelRefused(s)

Pump(s) ==
  \/ PumpGivesUp(s) \/ PumpStarts(s) \/ PumpLeaves(s) \/ PumpRequest(s) \/ PumpGate(s)
  \/ PumpStopped(s) \/ PumpSpawns(s) \/ PumpJoins(s) \/ PumpRemoves(s)

Job(s) == JobStart(s) \/ JobEnd(s)

MediaPump(s) ==
  \/ MediaCancelled(s) \/ MediaTick(s) \/ MediaGate(s) \/ MediaStopped(s) \/ MediaNothingNew(s)
  \/ MediaPublishes(s) \/ MediaEncodes(s) \/ MediaWritten(s) \/ MediaFails(s)
  \/ MediaExits(s) \/ MediaUnlists(s)

RemoveStep(c) ==
  \/ NotFound(c) \/ Found(c) \/ PeerClosed(c) \/ DrainEncode(c) \/ DrainMedia(c)
  \/ ClosePublisher(c) \/ Unregister(c)

Next ==
  \/ \E s \in Sessions :
       \/ Admit(s) \/ Negotiation(s) \/ DropRequest(s) \/ CloserDone(s)
       \/ Event(s) \/ Pump(s) \/ Job(s) \/ MediaPump(s)
  \/ \E c \in Removers, s \in Sessions : CallRemove(c, s)
  \/ \E c \in Callers : RemoveStep(c) \/ CallDropped(c)

Spec == Init /\ [][Next]_vars

(* What tokio and the library owe: every task is polled, an awaited call   *)
(* returns, the blocking pool runs what it is given.  Nothing is asked of  *)
(* clients or the owner, and of the pumps' own limits (idle time, the ten  *)
(* seconds for a channel) nothing either: only a stopped session must end. *)
Fairness ==
  /\ \A s \in Sessions :
       /\ WF_vars(Negotiation(s)) /\ WF_vars(CloserDone(s)) /\ WF_vars(Job(s))
       /\ WF_vars(stopped[s] /\ (PumpGivesUp(s) \/ PumpLeaves(s)))
       /\ WF_vars(PumpGate(s) \/ PumpStopped(s) \/ PumpSpawns(s) \/ PumpJoins(s) \/ PumpRemoves(s))
       /\ WF_vars(MediaCancelled(s) \/ MediaGate(s) \/ MediaStopped(s) \/ MediaNothingNew(s)
                  \/ MediaPublishes(s) \/ MediaEncodes(s) \/ MediaWritten(s) \/ MediaFails(s)
                  \/ MediaExits(s) \/ MediaUnlists(s))
  /\ \A c \in Callers : WF_vars(RemoveStep(c))

LiveSpec == Spec /\ Fairness

-----------------------------------------------------------------------------
(* Properties *)

Types ==
  /\ offer \in [Sessions -> {"none", "building", "negotiating", "closing", "accepted", "track",
                             "mediaSpawning", "spawning", "done"}]
  /\ guard \in [Sessions -> BOOLEAN]
  /\ closer \in [Sessions -> BOOLEAN]
  /\ peer \in [Sessions -> {"none", "up", "closed"}]
  /\ channel \in [Sessions -> {"none", "seen", "sent", "refused"}]
  /\ stopped \in [Sessions -> BOOLEAN]
  /\ registry \subseteq Sessions
  /\ publishers \subseteq Sessions
  /\ pump \in [Sessions -> {"none", "waiting", "serving", "gate", "inside", "joining", "leaving",
                            "removing", "done"}]
  /\ job \in [Sessions -> {"none", "queued", "encoding", "over"}]
  /\ media \in [Sessions -> {"none", "sleeping", "gate", "inside", "publishing", "writing",
                             "exiting", "unlisting", "done"}]
  /\ closed \in [Sessions -> BOOLEAN]
  /\ encoder \in [Sessions -> BOOLEAN]
  /\ encodeDrain \in [Sessions -> {NoOne} \cup Callers]
  /\ mediaDrain \in [Sessions -> {NoOne, Media} \cup Callers]
  /\ call \in [Callers -> {"idle", "lookup", "closing", "encodeGate", "mediaGate", "publisher",
                           "unregister", "returned"}]
  /\ target \in [Callers -> Sessions]

\* Every variable has its type.
TypeOK == Types

Registered(s) == offer[s] \in {"track", "mediaSpawning", "spawning"} \/ pump[s] # "none"
Removed(s) == Registered(s) /\ s \notin registry

\* "Its owning pump always joins it while holding this gate, so no removed
\* session can publish": once a session has left the registry no encode job of
\* it can still replace the shared cache, none will be started, and its media
\* pump writes nothing.
NoWorkAfterRemoval ==
  \A s \in Sessions : Removed(s) =>
    /\ stopped[s]
    /\ peer[s] = "closed"
    /\ job[s] = "none"
    /\ media[s] \notin {"publishing", "writing"}

\* "Cancellation of an HTTP request must not detach an unclosed peer driver":
\* a peer that is not closed has an owner that will close it: the handler's guard,
\* the task its drop spawned, or the pump, whatever await the request is dropped at.
EveryPeerOwned ==
  \A s \in Sessions : peer[s] = "up" => guard[s] \/ closer[s] \/ pump[s] \notin Over

\* A closed publisher has no encoder, though publish_frame tests `closed`
\* before it makes one: whoever closes holds the gate or is the publisher's pump.
ClosedHasNoEncoder == \A s \in Sessions : closed[s] => ~ encoder[s]

\* A session that was removed is over: nothing of it is at work, and nothing it
\* closed is opened again (remove_session, SessionControl, MediaPublisher).
RemovalIsFinal == NoWorkAfterRemoval /\ ClosedHasNoEncoder

\* Permits are accounted for.  Of at most WEBRTC_SESSION_MAX sessions anything is
\* alive, from the offer being negotiated to the last task of the peer; and when
\* the last task of a session is over nothing of it is left behind: no table
\* entry, no open peer, no encoder, no gate held, no permit kept.
NothingLeft ==
  \A s \in Sessions :
    offer[s] = "done" /\ ~ closer[s] /\ pump[s] \in Over /\ media[s] \in Over /\ ~ Calling(s) =>
      /\ s \notin registry \cup publishers
      /\ peer[s] # "up" /\ job[s] = "none" /\ ~ encoder[s]
      /\ encodeDrain[s] = NoOne /\ mediaDrain[s] = NoOne

SlotsBounded == Cardinality({s \in Sessions : HoldsSlot(s)}) <= WEBRTC_SESSION_MAX

PermitsAccounted == SlotsBounded /\ NothingLeft

\* A session that is stopped, by whomever, gives its permit back.
StoppedFreesSlot == \A s \in Sessions : stopped[s] ~> ~ HoldsSlot(s)
=============================================================================
