----------------------------- MODULE PagePanels -----------------------------
(***************************************************************************)
(* Two panels of the dashboard's page that talk to the server on their     *)
(* own: the configuration, whose edits are saved one request at a time     *)
(* (static/app.js), and the timestamp panel, whose refreshes are merged    *)
(* and whose stamps end in a refresh (static/js/ots.js).                   *)
(*                                                                         *)
(* An edit makes a configuration newer than all before it; the server's    *)
(* timestamp status is a number that grows with each signed artifact.      *)
(* Requests reach the server or not, and their replies may be lost.        *)
(***************************************************************************)
EXTENDS Naturals

CONSTANTS
  MaxEdits,     \* bound on the edits of the configuration
  MaxChanges    \* bound on the changes of the timestamp status

ASSUME PanelsAssumption == MaxChanges \in Nat

VARIABLES
  config,   \* [live, saving, pending, posted, applied, toast]: the page's
  stored,   \* the server's configuration
  panel,    \* [refreshing, again, fetched, got, shown, asked, busy]: the panel's
  current   \* the server's timestamp status

panelVars == <<config, stored, panel, current>>

Unavailable == MaxChanges + 1

PanelsInit ==
  /\ config = [live |-> 0, saving |-> FALSE, pending |-> FALSE, posted |-> 0,
               applied |-> FALSE, toast |-> "none"]
  /\ stored = 0
  /\ panel = [refreshing |-> FALSE, again |-> FALSE, fetched |-> FALSE, got |-> 0,
              shown |-> 0, asked |-> 0, busy |-> FALSE]
  /\ current = 0

(***************************************************************************)
(* pushConfigToServer.                                                     *)
(***************************************************************************)
Post(c) == [c EXCEPT !.saving = TRUE, !.pending = FALSE, !.posted = c.live, !.applied = FALSE]

\* An edit while a request is out is left to the loop that waits for it.
Edit ==
  /\ config.live < MaxEdits
  /\ LET edited == [config EXCEPT !.live = @ + 1]
     IN config' = IF config.saving THEN [edited EXCEPT !.pending = TRUE] ELSE Post(edited)
  /\ UNCHANGED <<stored, panel, current>>

ServerApplies ==
  /\ config.saving /\ ~ config.applied
  /\ stored' = config.posted
  /\ config' = [config EXCEPT !.applied = TRUE]
  /\ UNCHANGED <<panel, current>>

SavedOnce ==
  /\ config.saving /\ config.applied
  /\ config' = [config EXCEPT !.saving = FALSE, !.toast = "saved"]
  /\ UNCHANGED <<stored, panel, current>>

Saved ==
  /\ config.saving /\ config.applied
  /\ config' = IF config.pending THEN Post(config)
               ELSE [config EXCEPT !.saving = FALSE, !.toast = "saved"]
  /\ UNCHANGED <<stored, panel, current>>

\* The request is refused, or it or its reply is lost.
SaveFails ==
  /\ config.saving
  /\ config' = [config EXCEPT !.saving = FALSE, !.toast = "failed"]
  /\ UNCHANGED <<stored, panel, current>>

(***************************************************************************)
(* refreshStatus and stampNow.                                             *)
(***************************************************************************)
AskedOnce(p) ==
  [p EXCEPT !.asked = current, !.refreshing = TRUE, !.fetched = p.refreshing /\ p.fetched]

\* A call during a refresh has it fetch once more.
Asked(p) ==
  IF p.refreshing THEN [p EXCEPT !.asked = current, !.again = TRUE]
  ELSE [p EXCEPT !.asked = current, !.refreshing = TRUE, !.fetched = FALSE]

\* The interval, the reply to a frame, or the end of a stamp.
RefreshStatus ==
  /\ panel' = Asked(panel)
  /\ UNCHANGED <<config, stored, current>>

StatusIsRead ==
  /\ panel.refreshing /\ ~ panel.fetched
  /\ panel' = [panel EXCEPT !.fetched = TRUE, !.got = current]
  /\ UNCHANGED <<config, stored, current>>

\* The status, or "unavailable", is shown; then the loop's condition.
Shown(p, status) ==
  IF p.again THEN [p EXCEPT !.shown = status, !.got = 0, !.again = FALSE, !.fetched = FALSE]
  ELSE [p EXCEPT !.shown = status, !.got = 0, !.refreshing = FALSE, !.fetched = FALSE]

StatusShown ==
  /\ panel.refreshing /\ panel.fetched
  /\ panel' = Shown(panel, panel.got)
  /\ UNCHANGED <<config, stored, current>>

StatusFails ==
  /\ panel.refreshing
  /\ panel' = Shown(panel, Unavailable)
  /\ UNCHANGED <<config, stored, current>>

StampNow ==
  /\ ~ panel.busy /\ panel.shown # Unavailable
  /\ panel' = [panel EXCEPT !.busy = TRUE]
  /\ UNCHANGED <<config, stored, current>>

StampEnds ==
  /\ panel.busy
  /\ panel' = Asked([panel EXCEPT !.busy = FALSE])
  /\ UNCHANGED <<config, stored, current>>

StatusChanges ==
  /\ current < MaxChanges
  /\ current' = current + 1
  /\ UNCHANGED <<config, stored, panel>>

PanelsNext ==
  \/ Edit \/ ServerApplies \/ Saved \/ SaveFails
  \/ RefreshStatus \/ StatusIsRead \/ StatusShown \/ StatusFails \/ StampNow \/ StampEnds
  \/ StatusChanges

PanelsSpec == PanelsInit /\ [][PanelsNext]_panelVars

(***************************************************************************)
(* Properties.                                                             *)
(***************************************************************************)
\* Once "Config saved" is shown and nothing is being saved, the server has the
\* last edit, though edits arrived while earlier ones were being saved; and
\* when a refresh is over, the panel shows what the server said after the last
\* call for one, or that it could not be read.
PanelsAreCurrent ==
  /\ config.toast = "saved" /\ ~ config.saving => stored = config.live
  /\ ~ panel.refreshing => panel.shown >= panel.asked
=============================================================================
