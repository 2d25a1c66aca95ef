------------------------------ MODULE WriteOnce ------------------------------
(***************************************************************************)
(* What the directory of OpenTimestamps proofs promises (ots_client.rs:    *)
(* "publication is atomic/no-clobber"): a name is bound once, to a whole   *)
(* proof, and what it is bound to never changes.  An alternate name says   *)
(* which proof it holds.  Losing power may lose names, never alter them:   *)
(* publication does not sync the directory.                                *)
(***************************************************************************)
CONSTANTS Proofs, Names, AlternateOf(_), Absent, Foreign

VARIABLE stored

Init == stored \in [Names -> {Absent, Foreign}]

Publish(n, b) ==
  /\ stored[n] = Absent
  /\ \A c \in Proofs : n = AlternateOf(c) => b = c
  /\ stored' = [stored EXCEPT ![n] = b]

Lose(lost) ==
  stored' = [n \in Names |-> IF n \in lost THEN Absent ELSE stored[n]]

Next ==
  \/ \E n \in Names, b \in Proofs : Publish(n, b)
  \/ \E lost \in SUBSET Names : Lose(lost)

Spec == Init /\ [][Next]_stored
=============================================================================
