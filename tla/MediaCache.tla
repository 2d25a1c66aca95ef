------------------------------ MODULE MediaCache ------------------------------
(***************************************************************************)
(* What the dashboard's media caches promise their clients, without locks, *)
(* queue, threads or notifications: each medium has a newest artifact, an  *)
(* artifact gets at most one verdict or is evicted, and a poll reports on  *)
(* the artifact that was newest when it was asked.                         *)
(***************************************************************************)
EXTENDS Naturals

CONSTANTS Pollers, MaxRevision

Revisions == 1..MaxRevision
Media == {"video", "audio"}

VARIABLES
  newest,   \* newest[m]: the newest artifact of medium m, 0 for none
  status,   \* status[r]: "absent", "pending", a verdict, or "evicted"
  asking,   \* asking[p]: the artifact poll p asks about, 0 outside a poll
  known,    \* known[p]: the verdict that artifact had when p asked
  answer    \* answer[p]: the reply to p's last poll

vars == <<newest, status, asking, known, answer>>

NoReply == [rev |-> 0, verdict |-> "none"]
VerdictOf(r) == IF status[r] \in {"ok", "fail"} THEN status[r] ELSE "none"

Init ==
  /\ newest = [m \in Media |-> 0]
  /\ status = [r \in Revisions |-> "absent"]
  /\ asking = [p \in Pollers |-> 0]
  /\ known = [p \in Pollers |-> "none"]
  /\ answer = [p \in Pollers |-> NoReply]

\* A new artifact replaces an older one of its medium; audio comes with its verdict.
Publish(m, r) ==
  /\ status[r] = "absent"
  /\ r > newest[m]
  /\ newest' = [newest EXCEPT ![m] = r]
  /\ status' = [status EXCEPT ![r] = IF m = "video" THEN "pending" ELSE "ok"]
  /\ UNCHANGED <<asking, known, answer>>

Resolve(r, v) ==
  /\ status[r] = "pending"
  /\ status' = [status EXCEPT ![r] = v]
  /\ UNCHANGED <<newest, asking, known, answer>>

\* Under overload a verification is given up, but never the newest artifact's.
Evict(r) ==
  /\ status[r] = "pending"
  /\ \A m \in Media : newest[m] # r
  /\ status' = [status EXCEPT ![r] = "evicted"]
  /\ UNCHANGED <<newest, asking, known, answer>>

Ask(p, m) ==
  /\ asking[p] = 0
  /\ newest[m] # 0
  /\ asking' = [asking EXCEPT ![p] = newest[m]]
  /\ known' = [known EXCEPT ![p] = VerdictOf(newest[m])]
  /\ answer' = [answer EXCEPT ![p] = NoReply]
  /\ UNCHANGED <<newest, status>>

\* The artifact's verdict, or "stale" when it had none as the poll was asked.
Tell(p) ==
  /\ asking[p] # 0
  /\ \E v \in {VerdictOf(asking[p]), "stale"} :
       /\ v # "none"
       /\ v = "stale" => known[p] = "none"
       /\ answer' = [answer EXCEPT ![p] = [rev |-> asking[p], verdict |-> v]]
  /\ asking' = [asking EXCEPT ![p] = 0]
  /\ known' = [known EXCEPT ![p] = "none"]
  /\ UNCHANGED <<newest, status>>

Next ==
  \/ \E m \in Media, r \in Revisions : Publish(m, r)
  \/ \E r \in Revisions, v \in {"ok", "fail"} : Resolve(r, v)
  \/ \E r \in Revisions : Evict(r)
  \/ \E p \in Pollers, m \in Media : Ask(p, m)
  \/ \E p \in Pollers : Tell(p)

Spec == Init /\ [][Next]_vars
=============================================================================
