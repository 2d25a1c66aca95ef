------------------------------ MODULE GstBridge ------------------------------
(***************************************************************************)
(* The GStreamer bridge (gst lib.rs, video_filter.rs, audio_filter.rs) and *)
(* the commands over it (cmd_video.rs, cmd_audio.rs).  One thread pulls    *)
(* decoded media from a source pipeline, signs it, embeds the signature,   *)
(* reads it back, pushes it into a sink pipeline and waits until that has  *)
(* drained.  Both pipelines run on threads of their own: they post errors  *)
(* and ends of stream to their buses at any time, or do nothing at all.    *)
(*                                                                         *)
(* A frame is its number in the source.  "filter" is the loop over frames  *)
(* of the video and audio filters, "file" signs a whole sound file as one  *)
(* frame, "extract" only reads signatures.  GStreamer is external.         *)
(***************************************************************************)
EXTENDS Naturals, Sequences

CONSTANTS
  Frames,    \* BOUND: frames a source has
  Capacity,  \* max-buffers of appsink and appsrc; the code has 8
  Patience   \* BOUND: rounds of a waiting loop before BRIDGE_TIMEOUT

ASSUME BridgeAssumption == Frames \in Nat /\ Capacity \in Nat \ {0} /\ Patience \in Nat

VARIABLES
  run,        \* what was asked for
  source,     \* the source pipeline: frames made, the queue of its appsink
  sourceBus,
  sink,       \* the sink pipeline: the queue of its appsrc, what it consumed
  sinkBus,
  stage,      \* where the calling thread is
  index, held, wait,
  collected,  \* frames collect_file_pcm has, or frames whose extraction is done
  ending,    \* what the call returned
  targetFile      \* the output file of a managed capture

runVars == <<run, index, held, wait, collected, ending>>
bridgeVars == <<runVars, source, sourceBus, sink, sinkBus, stage, targetFile>>

\* limit 0: no --max-frames.  The frame `bad` has a layout the bridge rejects, or
\* its module leaves no signature that verifies; the first such frame ends a
\* call, so one is enough.  managed: the sink writes to a temporary file.
Requested ==
  [mode : {"filter", "file", "extract"}, total : 0..Frames, limit : 0..Frames, signed : BOOLEAN,
   managed : BOOLEAN, bad : 0..Frames, flaw : {"layout", "module"}]

Selected(r) == IF r.limit # 0 /\ r.limit < r.total THEN r.limit ELSE r.total

Sample(frames, i) == [of |-> frames, sig |-> IF run.signed THEN i + 1 ELSE 0]

BridgeInit ==
  /\ run = [mode |-> "none"]
  /\ source = [on |-> FALSE, made |-> 0, queue |-> <<>>, eos |-> FALSE, failed |-> FALSE]
  /\ sink = [on |-> FALSE, queue |-> <<>>, eos |-> FALSE, got |-> <<>>, early |-> FALSE]
  /\ sourceBus = {} /\ sinkBus = {}
  /\ stage = "idle"
  /\ index = 0 /\ held = 0 /\ wait = 0
  /\ collected = <<>>
  /\ ending = "none"
  /\ targetFile = "absent"

-----------------------------------------------------------------------------
(* The pipelines. *)

SourceMakes ==
  /\ source.on /\ ~ source.eos /\ ~ source.failed
  /\ source.made < run.total /\ Len(source.queue) < Capacity
  /\ source' = [source EXCEPT !.made = @ + 1, !.queue = Append(@, source.made + 1)]
  /\ UNCHANGED <<runVars, sourceBus, sink, sinkBus, stage, targetFile>>

SourceEnds ==
  /\ source.on /\ ~ source.eos /\ ~ source.failed /\ source.made = run.total
  /\ source' = [source EXCEPT !.eos = TRUE]
  /\ sourceBus' = sourceBus \cup {"eos"}
  /\ UNCHANGED <<runVars, sink, sinkBus, stage, targetFile>>

\* A failed element posts its error and may end the stream after it.
SourceFails ==
  /\ source.on /\ ~ source.eos /\ ~ source.failed /\ source.made < run.total
  /\ source' = [source EXCEPT !.failed = TRUE]
  /\ sourceBus' = sourceBus \cup {"error"}
  /\ UNCHANGED <<runVars, sink, sinkBus, stage, targetFile>>

SourceGivesUp ==
  /\ source.on /\ source.failed /\ ~ source.eos
  /\ source' = [source EXCEPT !.eos = TRUE]
  /\ UNCHANGED <<runVars, sourceBus, sink, sinkBus, stage, targetFile>>

SinkTakes ==
  /\ sink.on /\ sink.queue # <<>>
  /\ sink' = [sink EXCEPT !.queue = Tail(@), !.got = Append(@, Head(sink.queue))]
  /\ UNCHANGED <<runVars, source, sourceBus, sinkBus, stage, targetFile>>

SinkEnds ==
  /\ sink.on /\ sink.queue = <<>> /\ sink.eos
  /\ sink' = [sink EXCEPT !.on = FALSE]
  /\ sinkBus' = sinkBus \cup {"eos"}
  /\ UNCHANGED <<runVars, source, sourceBus, stage, targetFile>>

\* A chain of the caller's own may end its stream before its input has ended.
SinkStops ==
  /\ sink.on /\ ~ run.managed
  /\ sink' = [sink EXCEPT !.on = FALSE, !.early = TRUE]
  /\ sinkBus' = sinkBus \cup {"eos"}
  /\ UNCHANGED <<runVars, source, sourceBus, stage, targetFile>>

SinkFails ==
  /\ sink.on
  /\ sink' = [sink EXCEPT !.on = FALSE]
  /\ sinkBus' = sinkBus \cup {"error"}
  /\ UNCHANGED <<runVars, source, sourceBus, stage, targetFile>>

\* Somebody else's file appears at the output path.
Occupied ==
  /\ stage \notin {"idle", "over"} /\ targetFile = "absent"
  /\ targetFile' = "other"
  /\ UNCHANGED <<runVars, source, sourceBus, sink, sinkBus, stage>>

-----------------------------------------------------------------------------
(* The call. *)

Go(s) == stage' = s

\* Dropping the bridge's ends sets both pipelines to NULL.
Returns(what) ==
  /\ Go("over")
  /\ ending' = what
  /\ source' = [source EXCEPT !.on = FALSE]
  /\ sink' = [sink EXCEPT !.on = FALSE]

Errs ==
  /\ Returns("error")
  /\ UNCHANGED <<run, index, held, wait, collected, sourceBus, sinkBus, targetFile>>

\* The output is looked at, and the key checked, before a pipeline is started;
\* a filter starts the sink first.
Begin ==
  /\ stage = "idle"
  /\ run' \in Requested
  /\ run'.managed => run'.mode # "extract" /\ targetFile = "absent"
  /\ source' = [source EXCEPT !.on = TRUE]
  /\ sink' = [sink EXCEPT !.on = run'.mode = "filter"]
  /\ Go("select")
  /\ UNCHANGED <<index, held, wait, collected, ending, sourceBus, sinkBus, targetFile>>

\* A revoked key, a kernel without a binding, a pipeline that does not start.
BeginRefused ==
  /\ stage = "idle"
  /\ Errs

Select ==
  /\ stage = "select"
  /\ IF run.limit # 0 /\ index = run.limit THEN Go("selected") ELSE Go("pull")
  /\ wait' = Patience
  /\ UNCHANGED <<run, index, held, collected, ending, source, sourceBus, sink, sinkBus, targetFile>>

\* poll_bus takes all messages; during a pull the sink must not have ended.
Watching == IF run.mode = "filter" THEN sinkBus ELSE {}
Silent == "error" \notin sourceBus /\ Watching = {}

Quiet(next) ==
  /\ Silent
  /\ sourceBus' = {} /\ sinkBus' = sinkBus \ Watching
  /\ Go(next)
  /\ UNCHANGED <<runVars, source, sink, targetFile>>

\* Mutant of PullPolls: the end of the source's stream is taken for its last frame.
PullPollsEnd ==
  /\ stage \in {"pull", "again"}
  /\ Quiet(IF "eos" \in sourceBus THEN "selected" ELSE IF stage = "pull" THEN "try" ELSE "eos")

\* BridgeSource::pull looks at the buses before and after it tries for a sample.
PullPolls ==
  /\ stage \in {"pull", "again"}
  /\ Quiet(IF stage = "pull" THEN "try" ELSE "eos")

PollFails ==
  /\ \/ stage \in {"pull", "again"} /\ ~ Silent
     \/ stage = "push" /\ ("error" \in sourceBus \/ sinkBus # {})
     \/ stage = "drain" /\ "error" \in sourceBus \cup sinkBus
  /\ Errs

TrySample ==
  /\ stage = "try"
  /\ IF source.queue = <<>>
       THEN Go("again") /\ UNCHANGED <<held, source>>
       ELSE /\ held' = Head(source.queue)
            /\ source' = [source EXCEPT !.queue = Tail(@)]
            /\ Go("frame")
  /\ UNCHANGED <<run, index, wait, collected, ending, sourceBus, sink, sinkBus, targetFile>>

IsEos == source.eos /\ source.queue = <<>>

\* Mutant of CheckEos: the pull has no deadline.
CheckEosForever ==
  /\ stage = "eos"
  /\ Go(IF IsEos THEN "selected" ELSE "pull")
  /\ UNCHANGED <<runVars, source, sourceBus, sink, sinkBus, targetFile>>

CheckEos ==
  /\ stage = "eos"
  /\ IF IsEos THEN Go("selected") /\ UNCHANGED wait
              ELSE wait > 0 /\ wait' = wait - 1 /\ Go("pull")
  /\ UNCHANGED <<run, index, held, collected, ending, source, sourceBus, sink, sinkBus, targetFile>>

\* "timed out waiting for a sample", "accepting a buffer", "draining to EOS".
TimedOut ==
  /\ wait = 0
  /\ \/ stage = "eos" /\ ~ IsEos
     \/ stage = "room" /\ Len(sink.queue) >= Capacity
     \/ stage = "drain" /\ sinkBus = {} /\ "error" \notin sourceBus
  /\ Errs

\* A video frame or audio buffer: geometry, embedding, and the signature that
\* is read back and verified against the binding of what was embedded.
Fits(f) == ~ (f = run.bad /\ run.flaw = "layout")
Sound(f) == f = run.bad => run.flaw = "module" /\ ~ run.signed

ProcessFrame ==
  /\ stage = "frame" /\ run.mode = "filter"
  /\ Sound(held)
  /\ wait' = Patience
  /\ Go("push")
  /\ UNCHANGED <<run, index, held, collected, ending, source, sourceBus, sink, sinkBus, targetFile>>

\* collect_file_pcm, and extract_from_source: one more frame.
CollectFrame ==
  /\ stage = "frame" /\ run.mode # "filter"
  /\ Fits(held)
  /\ collected' = Append(collected, held)
  /\ index' = index + 1
  /\ Go("select")
  /\ UNCHANGED <<run, held, wait, ending, source, sourceBus, sink, sinkBus, targetFile>>

FrameFails ==
  /\ stage = "frame"
  /\ IF run.mode = "filter" THEN ~ Sound(held) ELSE ~ Fits(held)
  /\ Errs

\* The collected sound is signed as one frame; only now the sink is started.
ProcessFile ==
  /\ stage = "selected" /\ run.mode = "file"
  /\ collected # <<>>
  /\ \A i \in 1..Len(collected) : Sound(collected[i])
  /\ index' = 0
  /\ wait' = Patience
  /\ sink' = [sink EXCEPT !.on = TRUE]
  /\ Go("push")
  /\ UNCHANGED <<run, held, collected, ending, source, sourceBus, sinkBus, targetFile>>

FileFails ==
  /\ stage = "selected" /\ run.mode = "file"
  /\ collected = <<>> \/ \E i \in 1..Len(collected) : ~ Sound(collected[i])
  /\ Errs

PushPolls ==
  /\ stage = "push"
  /\ "error" \notin sourceBus /\ sinkBus = {}
  /\ sourceBus' = {}
  /\ Go("room")
  /\ UNCHANGED <<runVars, source, sink, sinkBus, targetFile>>

\* push_sample also takes buffers of a sink that will not consume them.
Push ==
  /\ stage = "room"
  /\ Len(sink.queue) < Capacity
  /\ sink' = [sink EXCEPT !.queue = Append(@, Sample(IF run.mode = "file" THEN collected ELSE <<held>>, index))]
  /\ index' = index + 1
  /\ Go(IF run.mode = "file" THEN "pushed" ELSE "select")
  /\ UNCHANGED <<run, held, wait, collected, ending, source, sourceBus, sinkBus, targetFile>>

PushRefused ==
  /\ stage = "room" /\ ~ sink.on
  /\ Errs

PushWaits ==
  /\ stage = "room"
  /\ Len(sink.queue) >= Capacity
  /\ wait > 0 /\ wait' = wait - 1
  /\ Go("push")
  /\ UNCHANGED <<run, index, held, collected, ending, source, sourceBus, sink, sinkBus, targetFile>>

\* BridgeOutput::finish: end_of_stream, then the sink's own EOS.
EndOfStream ==
  /\ IF run.mode = "filter" THEN stage = "selected" ELSE stage = "pushed"
  /\ sink' = [sink EXCEPT !.eos = TRUE]
  /\ wait' = Patience
  /\ Go("drain")
  /\ UNCHANGED <<run, index, held, collected, ending, source, sourceBus, sinkBus, targetFile>>

DrainWaits ==
  /\ stage = "drain"
  /\ "error" \notin sourceBus /\ sinkBus = {}
  /\ wait > 0 /\ wait' = wait - 1
  /\ sourceBus' = {}
  /\ UNCHANGED <<run, stage, index, held, collected, ending, source, sink, sinkBus, targetFile>>

Drained ==
  /\ stage = "drain"
  /\ "error" \notin sourceBus \cup sinkBus /\ "eos" \in sinkBus
  /\ IF run.managed THEN Go("publish") /\ UNCHANGED <<ending, source, sink>> ELSE Returns("ok")
  /\ UNCHANGED <<run, index, held, wait, collected, sourceBus, sinkBus, targetFile>>

\* extract_from_source returns what it has.
Extracted ==
  /\ stage = "selected" /\ run.mode = "extract"
  /\ Returns("ok")
  /\ UNCHANGED <<run, index, held, wait, collected, sourceBus, sinkBus, targetFile>>

\* publish_output without force: the capture takes its name, or fails.
PublishCapture ==
  /\ stage = "publish"
  /\ IF targetFile = "absent" THEN targetFile' = "captured" /\ Returns("ok")
                          ELSE UNCHANGED targetFile /\ Returns("error")
  /\ UNCHANGED <<run, index, held, wait, collected, sourceBus, sinkBus>>

Call ==
  \/ Select \/ PullPolls \/ PollFails \/ TrySample \/ CheckEos \/ TimedOut
  \/ ProcessFrame \/ CollectFrame \/ FrameFails \/ ProcessFile \/ FileFails
  \/ PushPolls \/ Push \/ PushRefused \/ PushWaits \/ EndOfStream \/ DrainWaits \/ Drained
  \/ Extracted \/ PublishCapture

Pipelines ==
  \/ SourceMakes \/ SourceEnds \/ SourceFails \/ SourceGivesUp
  \/ SinkTakes \/ SinkEnds \/ SinkStops \/ SinkFails \/ Occupied

BridgeNext == Begin \/ BeginRefused \/ Call \/ Pipelines

\* The calling thread runs; the pipelines owe it nothing.
BridgeFairness == WF_bridgeVars(Call)

BridgeSpec == BridgeInit /\ [][BridgeNext]_bridgeVars /\ BridgeFairness

-----------------------------------------------------------------------------
(* Properties. *)

Selection == [i \in 1..Selected(run) |-> i]
Wanted ==
  IF run.mode = "file" THEN <<Sample(Selection, 0)>>
                       ELSE [i \in 1..Selected(run) |-> Sample(<<i>>, i - 1)]

\* A filter that returns success has handed every selected frame to its sink, in
\* order, each with the signature of its own index that was read back, and none is
\* left unless the sink had ended its stream of itself; a published capture holds
\* them all, and a sink has at no time anything else.  An extraction that returns has
\* the signatures of the first frames in order; it is short of some only when the
\* source failed and ended its stream after the last look at its bus, where the error
\* still lies unread (run_video_filter, run_audio_filter, run_audio_file,
\* extract_from_source).  The two successes that are short of something are what
\* ExtractionIsWhole and SinkIsDrained refuse.
SuccessIsComplete ==
  /\ ending = "ok" /\ run.mode # "extract" =>
       /\ sink.got \o sink.queue = Wanted
       /\ sink.queue = <<>> \/ sink.early
  /\ targetFile = "captured" => sink.got = Wanted /\ ending = "ok"
  /\ \A i \in 1..Len(sink.got) : i <= Len(Wanted) /\ sink.got[i] = Wanted[i]
  /\ ending = "ok" /\ run.mode = "extract" =>
       /\ collected = [i \in 1..Len(collected) |-> i]
       /\ collected = Selection \/ ("error" \in sourceBus /\ source.eos)

\* "Timeouts and source errors are failures, not a successful empty/partial
\* extraction" (extract_from_source of video_filter.rs, and the same of
\* audio_filter.rs): an extraction that returns has every selected frame.
ExtractionIsWhole == ending = "ok" /\ run.mode = "extract" => collected = Selection

\* "Send output EOS and wait for downstream drain" (docs/gstreamer.md), "drain output
\* before returning" (run_audio_filter): a filter that returns success has had all it
\* pushed consumed.
SinkIsDrained == ending = "ok" /\ run.mode # "extract" => sink.got = Wanted

\* However the two pipelines stall, a call returns (BRIDGE_TIMEOUT bounds each
\* wait, for a source of finitely many frames).
BridgeReturns == (stage = "select") ~> (stage = "over")

=============================================================================
