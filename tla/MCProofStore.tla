----------------------------- MODULE MCProofStore -----------------------------
(***************************************************************************)
(* Instances of what keeps things in a directory that others write to: the *)
(* store of proofs, the commands that write and verify a group of files,   *)
(* and the shards of a payload.  They share no state, so that a behaviour  *)
(* follows one of them.                                                    *)
(***************************************************************************)
EXTENDS ProofStore, LegacyCli, TLC

VARIABLE part   \* which of them

MCGroups == <<<<2, 109>>, <<3, 109>>, <<3, 109>>, <<2, 141>>>>

MCImages == {"i1", "i2", "t1"}
Encode(base, image, kernel, place, bits, ecc, encrypt, spread) ==
  [cmd |-> "encode", base |-> base, image |-> image, kernel |-> kernel, place |-> place, bits |-> bits,
   ecc |-> ecc, encrypt |-> encrypt, spread |-> spread, signer |-> "s1"]
Verify(base, kernel, place, bits, ecc, encrypt, spread, key) ==
  [cmd |-> "verify", base |-> base, kernel |-> kernel, place |-> place, bits |-> bits, ecc |-> ecc,
   encrypt |-> encrypt, spread |-> spread, key |-> key]

MCEncodeRequests ==
  {Encode("a", "t1", "lsb_audio", "k1", 1, TRUE, "none", 1),
   Encode("a", "i1", "lsb_video", "none", 2, FALSE, "e1", 2)}
MCVerifyRequests ==
  {Verify("a", "lsb_audio", "k1", 0, TRUE, "none", 1, "s1"),
   Verify("a", "lsb_video", "none", 0, FALSE, "e1", 2, "s1")}
MCKeyRequests == {[cmd |-> "keygen", base |-> "a"], [cmd |-> "derive", base |-> "a"]}

\* Key files and media files have different names: commands on the ones and on
\* the others have no effect on each other.
OneKind ==
  \A c, d \in Commands :
    cmds'[c].req.cmd \in {"keygen", "derive"} => cmds'[d].req.cmd \notin {"encode", "verify"}

\* Calls of publish are interchangeable, and so are proofs.
Symmetry == Permutations(Writers) \cup Permutations(Proofs)

OutsideInit ==
  /\ part \in {"proofs", "commands", "shards"}
  /\ Init /\ CliInit /\ PileInit
  /\ part # "proofs" => dir[Final] = NoFile

OutsideNext ==
  /\ UNCHANGED part
  /\ \/ part = "proofs" /\ Next /\ UNCHANGED <<cliVars, pileVars>>
     \/ part = "commands" /\ CliNext /\ OneKind /\ UNCHANGED <<vars, pileVars>>
     \/ part = "shards" /\ PileNext /\ UNCHANGED <<vars, cliVars>>

OutsideSpec == OutsideInit /\ [][OutsideNext]_<<part, vars, cliVars, pileVars>>

=============================================================================
