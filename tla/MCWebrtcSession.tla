--------------------------- MODULE MCWebrtcSession ---------------------------
(***************************************************************************)
(* Both ends of a session: the server's half, and the page that makes its  *)
(* offers.  Each takes the other for a peer that may do anything (the page *)
(* is not told why a connection is gone, the server not who closed it), so *)
(* a behaviour is of one of them: the server, or one of the page's tabs    *)
(* and panels, which share no state either.  Two owners that remove        *)
(* sessions are interchangeable.                                           *)
(***************************************************************************)
EXTENDS WebrtcSession, DashboardPage, TLC

VARIABLE part  \* the one this behaviour is of

Parts == {"server", "video", "audio", "panels"}

PageInit == part \in Parts /\ Init /\ VideoInit /\ AudioInit /\ PanelsInit

PageNext ==
  \/ part = "server" /\ Next /\ UNCHANGED <<part, videoVars, audioVars, panelVars>>
  \/ part = "video" /\ VideoNext /\ UNCHANGED <<part, vars, audioVars, panelVars>>
  \/ part = "audio" /\ AudioNext /\ UNCHANGED <<part, vars, videoVars, panelVars>>
  \/ part = "panels" /\ PanelsNext /\ UNCHANGED <<part, vars, videoVars, audioVars>>

PageSpec == PageInit /\ [][PageNext]_<<part, vars, videoVars, audioVars, panelVars>>

Symmetry == Permutations(Removers)
=============================================================================
