----------------------------- MODULE MCArtifacts -----------------------------
(***************************************************************************)
(* What signs and delivers: the commands that write packets to files and   *)
(* read them, the GStreamer element that embeds one into live media, and   *)
(* the dashboard's pipeline.  They share no state, so that a behaviour     *)
(* follows one of them.                                                    *)
(***************************************************************************)
EXTENDS MCPacketCli, StegoElement, FramePipeline

VARIABLE part   \* which of them

ArtifactsInit ==
  /\ part \in {"commands", "element", "frames"}
  /\ CommandInit /\ ElementInit /\ Init
  /\ part # "commands" => registry = NoList /\ \A x \in CoverFiles : files[x] = Blank
  /\ part # "element" => kind = "video"

ArtifactsNext ==
  /\ UNCHANGED part
  /\ \/ part = "commands" /\ CommandNext /\ UNCHANGED <<elementVars, vars>>
     \/ part = "element" /\ ElementNext /\ UNCHANGED <<commandVars, vars>>
     \/ part = "frames" /\ Next /\ UNCHANGED <<commandVars, elementVars>>

ArtifactsSpec == ArtifactsInit /\ [][ArtifactsNext]_<<part, commandVars, elementVars, vars>>

=============================================================================
