------------------------------ MODULE ProofStore ------------------------------
(***************************************************************************)
(* Publication and loading of detached OpenTimestamps proofs               *)
(* (ots_client.rs, save_proof_to and proof_io): a proof is written to a    *)
(* private temporary file, synced, and hard-linked under its name; a taken *)
(* name with the same bytes is reused, one with other bytes is kept and    *)
(* the proof goes to the alternate name made of its own hash.              *)
(*                                                                         *)
(* Writers are calls of publish on blocking threads, of any number of      *)
(* processes, for one proof name.  A writer is one call: its temporary     *)
(* file is the file called like it, because temporary names are 128 random *)
(* bits and create_new refuses one that is taken.  The filesystem is       *)
(* external: link and create are atomic, data that is not synced may be    *)
(* torn by a loss of power, and so may directory entries be lost.          *)
(***************************************************************************)
EXTENDS Naturals, FiniteSets

CONSTANTS
  Writers,    \* calls of publish
  Proofs,     \* proofs of one digest, as bytes
  Foreign,    \* what publish did not write: a symlink, a FIFO, a malformed file
  NoFile,     \* an unbound name
  Torn,       \* the content of a file that is not, or not all, written
  NoProof

ASSUME Distinct ==
  /\ Foreign \notin Writers /\ NoFile \notin Writers \cup {Foreign}
  /\ {Torn, NoProof, Foreign, NoFile} \cap Proofs = {}
  /\ Torn # Foreign

VARIABLES
  dir,        \* the proof directory: name -> file
  content,    \* file -> bytes
  synced,     \* files whose data a loss of power does not touch
  wpc,        \* where each call of publish is
  want,       \* the bytes it publishes
  result,     \* the name it is about to return, or NoName for an error
  told,       \* what the caller of save_proof_to was told
  powerLost

vars == <<dir, content, synced, wpc, want, result, told, powerLost>>

Name(kind, of) == [kind |-> kind, of |-> of]
Final == Name("final", NoProof)
AlternateOf(b) == Name("alternate", b)
Temporary(w) == Name("temporary", w)
NoName == Name("none", NoProof)

Published == {Final} \cup {AlternateOf(b) : b \in Proofs}
Names == Published \cup {Temporary(w) : w \in Writers}
Files == Writers \cup {Foreign}

Init ==
  /\ \E old \in {NoFile, Foreign} :
       dir = [n \in Names |-> IF n = Final THEN old ELSE NoFile]
  /\ content = [f \in Files |-> IF f = Foreign THEN Foreign ELSE Torn]
  /\ synced = {Foreign}
  /\ wpc = [w \in Writers |-> "idle"]
  /\ want = [w \in Writers |-> NoProof]
  /\ result = [w \in Writers |-> NoName]
  /\ told = [w \in Writers |-> "nothing"]
  /\ powerLost = FALSE

At(w, l) == wpc[w] = l
To(w, l) == wpc' = [wpc EXCEPT ![w] = l]

LinksOf(f) == {n \in Names : dir[n] = f}

\* proof_io::read_at: a regular file with a single link whose bytes parse.
Readable(n) == /\ dir[n] \in Writers
               /\ LinksOf(dir[n]) = {n}
               /\ content[dir[n]] \in Proofs
Holds(n, b) == Readable(n) /\ content[dir[n]] = b

-----------------------------------------------------------------------------
(* publish, and save_proof_to around it.  A call refused before its        *)
(* temporary file exists (bytes that do not parse, no directory) is no     *)
(* step.                                                                   *)

Reserve(w) ==
  /\ At(w, "idle")
  /\ \E b \in Proofs : want' = [want EXCEPT ![w] = b]
  /\ dir' = [dir EXCEPT ![Temporary(w)] = w]
  /\ To(w, "reserved")
  /\ UNCHANGED <<content, synced, result, told, powerLost>>

WriteAll(w) ==
  /\ At(w, "reserved")
  /\ content' = [content EXCEPT ![w] = want[w]]
  /\ To(w, "written")
  /\ UNCHANGED <<dir, synced, want, result, told, powerLost>>

\* Mutant of SyncAll: the file is linked without being synced.
SyncNothing(w) ==
  /\ At(w, "written")
  /\ To(w, "linking")
  /\ UNCHANGED <<dir, content, synced, want, result, told, powerLost>>

SyncAll(w) ==
  /\ At(w, "written")
  /\ synced' = synced \cup {w}
  /\ To(w, "linking")
  /\ UNCHANGED <<dir, content, want, result, told, powerLost>>

\* write_all or sync_all fails: `?` drops the Temporary.
WriteFails(w) ==
  /\ At(w, "reserved") \/ At(w, "written")
  /\ To(w, "dropping")
  /\ UNCHANGED <<dir, content, synced, want, result, told, powerLost>>

\* Return the name n once the Temporary is dropped.
Returning(w, n) ==
  /\ result' = [result EXCEPT ![w] = n]
  /\ To(w, "dropping")
  /\ UNCHANGED <<content, synced, want, told, powerLost>>

\* Mutant of Link: rename semantics, a taken name is replaced.
LinkOver(w, n) ==
  /\ dir' = [dir EXCEPT ![n] = w]
  /\ Returning(w, n)

\* dir.hard_link(&temporary.name, &dir, n)
Link(w, n) ==
  /\ dir[n] = NoFile
  /\ dir' = [dir EXCEPT ![n] = w]
  /\ Returning(w, n)

LinkFinal(w) == At(w, "linking") /\ Link(w, Final)

FinalTaken(w) ==
  /\ At(w, "linking")
  /\ dir[Final] # NoFile
  /\ To(w, "comparing")
  /\ UNCHANGED <<dir, content, synced, want, result, told, powerLost>>

\* Mutant of ReuseFinal: a readable proof is taken for this one.
ReuseAny(w) ==
  /\ At(w, "comparing")
  /\ Readable(Final)
  /\ Returning(w, Final)
  /\ UNCHANGED dir

\* read_at(&dir, filename).is_ok_and(|old| old == bytes)
ReuseFinal(w) ==
  /\ At(w, "comparing")
  /\ Holds(Final, want[w])
  /\ Returning(w, Final)
  /\ UNCHANGED dir

FinalDiffers(w) ==
  /\ At(w, "comparing")
  /\ ~ Holds(Final, want[w])
  /\ To(w, "alternate")
  /\ UNCHANGED <<dir, content, synced, want, result, told, powerLost>>

LinkAlternate(w) == At(w, "alternate") /\ Link(w, AlternateOf(want[w]))

AlternateTaken(w) ==
  /\ At(w, "alternate")
  /\ dir[AlternateOf(want[w])] # NoFile
  /\ To(w, "comparingAlternate")
  /\ UNCHANGED <<dir, content, synced, want, result, told, powerLost>>

ReuseAlternate(w) ==
  /\ At(w, "comparingAlternate")
  /\ Holds(AlternateOf(want[w]), want[w])
  /\ Returning(w, AlternateOf(want[w]))
  /\ UNCHANGED dir

\* Also when the same proof is there with its publisher's second link.
AlternateRefused(w) ==
  /\ At(w, "comparingAlternate")
  /\ ~ Holds(AlternateOf(want[w]), want[w])
  /\ To(w, "dropping")
  /\ UNCHANGED <<dir, content, synced, want, result, told, powerLost>>

\* Mutant of Answer: the error of the blocking call is dropped.
AnswerOk(w) ==
  told' = [told EXCEPT ![w] = IF @ = "Timeout" THEN @ ELSE "Ok"]

\* The caller awaits the blocking call unless its own deadline passed.
Answer(w) ==
  told' = [told EXCEPT ![w] =
             IF @ = "Timeout" THEN @ ELSE IF result[w] = NoName THEN "Err" ELSE "Ok"]

\* Mutant of DropTemporary: the temporary name stays.
ForgetTemporary(w) ==
  /\ At(w, "dropping")
  /\ Answer(w)
  /\ To(w, "done")
  /\ UNCHANGED <<dir, content, synced, want, result, powerLost>>

\* impl Drop for Temporary, then the return of publish.
DropTemporary(w) ==
  /\ At(w, "dropping")
  /\ dir' = [dir EXCEPT ![Temporary(w)] = NoFile]
  /\ Answer(w)
  /\ To(w, "done")
  /\ UNCHANGED <<content, synced, want, result, powerLost>>

\* remove_file fails and the error is dropped.
DropFails(w) ==
  /\ At(w, "dropping")
  /\ Answer(w)
  /\ To(w, "leaked")
  /\ UNCHANGED <<dir, content, synced, want, result, powerLost>>

\* tokio::time::timeout gives up; the blocking call goes on.
GiveUp(w) ==
  /\ wpc[w] \notin {"idle", "done", "leaked", "dead"}
  /\ told[w] = "nothing"
  /\ told' = [told EXCEPT ![w] = "Timeout"]
  /\ UNCHANGED <<dir, content, synced, wpc, want, result, powerLost>>

Publish(w) ==
  \/ Reserve(w) \/ WriteAll(w) \/ SyncAll(w) \/ WriteFails(w)
  \/ LinkFinal(w) \/ FinalTaken(w) \/ ReuseFinal(w) \/ FinalDiffers(w)
  \/ LinkAlternate(w) \/ AlternateTaken(w) \/ ReuseAlternate(w) \/ AlternateRefused(w)
  \/ DropTemporary(w) \/ DropFails(w) \/ GiveUp(w)

-----------------------------------------------------------------------------
(* Failures *)

\* The process of one call is killed.
Kill(w) ==
  /\ wpc[w] \notin {"idle", "done", "leaked", "dead"}
  /\ To(w, "dead")
  /\ UNCHANGED <<dir, content, synced, want, result, told, powerLost>>

\* Every call dies, data that was not synced is torn, names may be gone.
PowerLoss ==
  /\ ~ powerLost   \* BOUND
  /\ powerLost' = TRUE
  /\ wpc' = [w \in Writers |-> IF wpc[w] \in {"idle", "done", "leaked"}
                               THEN wpc[w] ELSE "dead"]
  /\ content' = [f \in Files |-> IF f \in synced THEN content[f] ELSE Torn]
  /\ \E lost \in SUBSET {n \in Names : dir[n] \in Writers} :
       dir' = [n \in Names |-> IF n \in lost THEN NoFile ELSE dir[n]]
  /\ UNCHANGED <<synced, want, result, told>>

Next == (\E w \in Writers : Publish(w) \/ Kill(w)) \/ PowerLoss

Spec == Init /\ [][Next]_vars

-----------------------------------------------------------------------------
(* Properties *)

TypeOK ==
  /\ dir \in [Names -> Files \cup {NoFile}]
  /\ content \in [Files -> Proofs \cup {Torn, Foreign}]
  /\ synced \in SUBSET Files
  /\ wpc \in [Writers -> {"idle", "reserved", "written", "linking", "comparing",
                          "alternate", "comparingAlternate", "dropping", "done",
                          "leaked", "dead"}]
  /\ want \in [Writers -> Proofs \cup {NoProof}]
  /\ result \in [Writers -> Published \cup {NoName}]
  /\ told \in [Writers -> {"nothing", "Ok", "Err", "Timeout"}]
  /\ \A w \in Writers : told[w] = "Ok" => result[w] \in Published
  /\ powerLost \in BOOLEAN

\* A caller that was told Ok(path) has its own bytes under that path, whatever
\* the other callers published, before or after, under the same name.
ReportedIsStored ==
  \A w \in Writers : told[w] = "Ok" /\ ~ powerLost =>
    /\ dir[result[w]] \in Writers
    /\ content[dir[result[w]]] = want[w]

\* load_proof refuses a file with a second link.  A published proof has one
\* only while its publisher is about to remove the temporary name, or when it
\* died there or could not: whatever path publish leaves by, no other proof
\* becomes unreadable.
Loadable ==
  \A n \in Published : dir[n] \in Writers =>
    Readable(n) \/ wpc[dir[n]] \in {"dropping", "leaked", "dead"}

Bytes(n) == IF dir[n] = NoFile THEN NoFile ELSE content[dir[n]]

Store == INSTANCE WriteOnce WITH
  Names <- Published, Absent <- NoFile, stored <- [n \in Published |-> Bytes(n)]

\* The directory is a write-once store: no published name is bound to a torn
\* file or to the bytes of another name, and none is ever bound again, not by
\* callers racing for it nor across a loss of power.
ImplementsWriteOnce == Store!Spec
=============================================================================
