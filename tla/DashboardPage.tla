--------------------------- MODULE DashboardPage ---------------------------
(***************************************************************************)
(* The dashboard's page: its two tabs and the panels that talk to the      *)
(* server on their own.  They share no state, so what is true of each part *)
(* is true of the page on which they run side by side.                     *)
(***************************************************************************)
EXTENDS VideoTab, AudioTab, PagePanels

\* A session of either tab owns whatever is open for it, and never runs without
\* a connection or something that will make one.
SessionsAreWhole == SessionOwnsAll /\ NeverStranded /\ MicrophoneOwnsAll /\ ChannelsComeBack

\* Either tab shows verdicts of what it shows only.
VerdictsAreOfShown == VerdictIsOfShown /\ ChunkVerdictIsOfLatest

\* Either tab's archive keeps what it recorded until it is downloaded.
ArchivesAreKept == ArchiveIsKept /\ ChunksAreKept
=============================================================================
