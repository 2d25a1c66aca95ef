-------------------------------- MODULE MCLive --------------------------------
(***************************************************************************)
(* What has to end though others may fail or stall: the removal of a       *)
(* session, and a filter over GStreamer.  They share no state, so that a   *)
(* behaviour follows one of them.                                          *)
(***************************************************************************)
EXTENDS WebrtcSession, GstBridge

VARIABLE part   \* which of them

WaitsInit ==
  /\ part \in {"session", "bridge"} /\ Init /\ BridgeInit
  /\ part = "bridge" => \A c \in Removers : target[c] = CHOOSE s \in Sessions : TRUE

WaitsNext ==
  /\ UNCHANGED part
  /\ \/ part = "session" /\ Next /\ UNCHANGED bridgeVars
     \/ part = "bridge" /\ BridgeNext /\ UNCHANGED vars

\* What either part's fairness is about is not enabled before that part begins.
WaitsSpec ==
  WaitsInit /\ [][WaitsNext]_<<part, vars, bridgeVars>> /\ Fairness /\ BridgeFairness

=============================================================================
