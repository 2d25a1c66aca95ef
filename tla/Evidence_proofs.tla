--------------------------- MODULE Evidence_proofs ---------------------------
(***************************************************************************)
(* Proofs about what is left in files for somebody else to check.          *)
(*                                                                         *)
(* The proof directory, for any number of calls and proofs, implements a   *)
(* write-once store.  The hash chain binds its segments, of any sizes, to  *)
(* their roots.  A payload's shards, however many, give it back whole or   *)
(* not at all.  And the commands encode, verify, keygen and derive, any    *)
(* number of them over one directory, mix no files and give no verdict     *)
(* that is wrong.                                                          *)
(***************************************************************************)
EXTENDS ProofStore, HashChain, LegacyCli,
        FiniteSetTheorems, SequenceTheorems, NaturalsInduction, WellFoundedInduction, TLAPS

-----------------------------------------------------------------------------
(* The proof directory. *)

Steps == {"idle", "reserved", "written", "linking", "comparing", "alternate",
          "comparingAlternate", "dropping", "done", "leaked", "dead"}

\* The types, without the conjunct of TypeOK on results.
Types ==
  /\ dir \in [Names -> Files \cup {NoFile}]
  /\ content \in [Files -> Proofs \cup {Torn, Foreign}]
  /\ synced \in SUBSET Files
  /\ wpc \in [Writers -> Steps]
  /\ want \in [Writers -> Proofs \cup {NoProof}]
  /\ result \in [Writers -> Published \cup {NoName}]
  /\ told \in [Writers -> {"nothing", "Ok", "Err", "Timeout"}]
  /\ powerLost \in BOOLEAN

\* What publish did not write is at the final name only, and stays what it is.
ForeignKept ==
  /\ Foreign \in synced /\ content[Foreign] = Foreign
  /\ \A n \in Names : dir[n] = Foreign => n = Final

\* A temporary name is bound to the file of its own call.
OwnTemporary == \A w \in Writers : dir[Temporary(w)] \in {w, NoFile}

\* How far the file of a call is, by where the call is.
Progress ==
  \A w \in Writers :
    /\ wpc[w] = "idle" => w \notin synced
    /\ wpc[w] \in {"reserved", "written"} => want[w] \in Proofs /\ w \notin synced
    /\ wpc[w] = "written" => content[w] = want[w]
    /\ wpc[w] \in {"linking", "comparing", "alternate", "comparingAlternate"} =>
         w \in synced
    /\ w \in synced => want[w] \in Proofs /\ content[w] = want[w]
    /\ result[w] # NoName => wpc[w] \in {"dropping", "done", "leaked", "dead"}

\* A published name is bound to the synced file of a call past its link.
WholeFiles ==
  \A n \in Published : dir[n] \in Writers =>
    /\ dir[n] \in synced
    /\ \A b \in Proofs : n = AlternateOf(b) => content[dir[n]] = b
    /\ wpc[dir[n]] \in {"dropping", "done", "leaked", "dead"}

\* The name a call returns holds what it published.
ResultKept ==
  \A w \in Writers : result[w] # NoName /\ ~ powerLost =>
    /\ dir[result[w]] \in Writers
    /\ content[dir[result[w]]] = want[w]

OkHasName == \A w \in Writers : told[w] = "Ok" => result[w] # NoName

Inv == /\ Types /\ ForeignKept /\ OwnTemporary /\ Progress /\ WholeFiles
       /\ ResultKept /\ OkHasName

-----------------------------------------------------------------------------
(* Names of different kinds differ. *)
LEMMA NameFacts ==
  /\ \A w \in Writers : Temporary(w) \notin Published /\ Temporary(w) \in Names
  /\ \A v, w \in Writers : Temporary(v) = Temporary(w) => v = w
  /\ NoName \notin Names
  /\ \A b, c \in Proofs : AlternateOf(b) = AlternateOf(c) => b = c
  /\ \A b \in Proofs : AlternateOf(b) # Final /\ AlternateOf(b) \in Published
  /\ Final \in Published /\ Published \subseteq Names
BY DEF Temporary, Published, Names, Final, AlternateOf, NoName, Name

LEMMA InitInv == Init => Inv
<1> SUFFICES ASSUME Init PROVE Inv
  OBVIOUS
<1> USE NameFacts, Distinct DEF Init
<1>1. Types
  BY DEF Types, Files, Steps
<1>2. ForeignKept /\ OwnTemporary
  BY DEF ForeignKept, OwnTemporary, Files
<1>3. Progress
  BY DEF Progress
<1>4. WholeFiles /\ ResultKept /\ OkHasName
  BY DEF WholeFiles, ResultKept, OkHasName
<1> QED BY <1>1, <1>2, <1>3, <1>4 DEF Inv

\* Steps that touch neither the directory nor a file.
Quiet(w) == \/ FinalTaken(w) \/ FinalDiffers(w) \/ AlternateTaken(w)
            \/ AlternateRefused(w) \/ WriteFails(w) \/ Kill(w) \/ GiveUp(w)
            \/ DropFails(w)

LEMMA QuietStep ==
  ASSUME Inv, NEW w \in Writers, Quiet(w)
  PROVE Inv'
<1> USE NameFacts, Distinct DEF Inv
<1>0. UNCHANGED <<dir, content, synced, want, result, powerLost>>
  BY DEF Quiet, FinalTaken, FinalDiffers, AlternateTaken, AlternateRefused,
         WriteFails, Kill, GiveUp, DropFails
<1>1. /\ wpc' \in [Writers -> Steps]
      /\ \A v \in Writers : v # w => wpc'[v] = wpc[v]
      /\ wpc'[w] # wpc[w] => wpc'[w] # "idle" /\ wpc'[w] \notin {"reserved", "written", "linking"}
      /\ wpc[w] \in {"dropping", "done", "leaked", "dead"} =>
           wpc'[w] \in {"dropping", "done", "leaked", "dead"}
      /\ wpc'[w] \in {"comparing", "alternate", "comparingAlternate"} =>
           wpc[w] \in {"linking", "comparing", "alternate", "comparingAlternate"}
  BY DEF Quiet, FinalTaken, FinalDiffers, AlternateTaken, AlternateRefused,
         WriteFails, Kill, GiveUp, DropFails, To, At, Types, Steps
<1>2. /\ told' \in [Writers -> {"nothing", "Ok", "Err", "Timeout"}]
      /\ \A v \in Writers : told'[v] = "Ok" => result[v] # NoName
  BY DEF Quiet, FinalTaken, FinalDiffers, AlternateTaken, AlternateRefused,
         WriteFails, Kill, GiveUp, DropFails, Answer, Types, OkHasName
<1>3. Types' /\ ForeignKept' /\ OwnTemporary'
  BY <1>0, <1>1, <1>2 DEF Types, ForeignKept, OwnTemporary
<1>4. Progress'
  BY <1>0, <1>1 DEF Progress, Types
<1>5. WholeFiles'
  BY <1>0, <1>1 DEF WholeFiles
<1>6. ResultKept' /\ OkHasName'
  BY <1>0, <1>2 DEF ResultKept, OkHasName
<1> QED BY <1>3, <1>4, <1>5, <1>6

LEMMA FileStep ==
  ASSUME Inv, NEW w \in Writers, Reserve(w) \/ WriteAll(w) \/ SyncAll(w)
  PROVE Inv'
<1> USE NameFacts, Distinct DEF Inv
<1>1. CASE Reserve(w)
  <2> USE <1>1 DEF Reserve, To, At
  <2>1. Types'
    BY DEF Types, Files, Steps
  <2>2. ForeignKept' /\ OwnTemporary'
    BY DEF ForeignKept, OwnTemporary, Types
  <2>3. Progress'
    BY DEF Progress, Types
  <2>4. \A n \in Published : dir'[n] = dir[n]
    BY DEF Types
  <2>5. WholeFiles'
    BY <2>4 DEF WholeFiles, Types
  <2>6. ResultKept' /\ OkHasName'
    BY <2>4 DEF ResultKept, OkHasName, Progress, Types
  <2> QED BY <2>1, <2>2, <2>3, <2>5, <2>6
<1>2. CASE WriteAll(w)
  <2> USE <1>2 DEF WriteAll, To, At
  <2>1. Types'
    BY DEF Types, Files, Steps, Progress
  <2>2. ForeignKept' /\ OwnTemporary'
    BY DEF ForeignKept, OwnTemporary, Types
  <2>3. Progress'
    BY DEF Progress, Types, Files
  <2>4. \A n \in Published : dir[n] # w
    BY DEF WholeFiles
  <2>5. WholeFiles'
    BY <2>4 DEF WholeFiles, Types
  <2>6. ResultKept' /\ OkHasName'
    BY <2>4 DEF ResultKept, OkHasName, Progress, Types
  <2> QED BY <2>1, <2>2, <2>3, <2>5, <2>6
<1>3. CASE SyncAll(w)
  <2> USE <1>3 DEF SyncAll, To, At
  <2>1. Types'
    BY DEF Types, Files, Steps
  <2>2. ForeignKept' /\ OwnTemporary'
    BY DEF ForeignKept, OwnTemporary
  <2>3. Progress'
    BY DEF Progress, Types
  <2>4. WholeFiles'
    BY DEF WholeFiles, Types
  <2>5. ResultKept' /\ OkHasName'
    BY DEF ResultKept, OkHasName
  <2> QED BY <2>1, <2>2, <2>3, <2>4, <2>5
<1> QED BY <1>1, <1>2, <1>3

LEMMA LinkStep ==
  ASSUME Inv, NEW w \in Writers, LinkFinal(w) \/ LinkAlternate(w)
  PROVE Inv'
<1> USE NameFacts, Distinct DEF Inv
<1> DEFINE n == IF LinkFinal(w) THEN Final ELSE AlternateOf(want[w])
<1>1. /\ n \in Published /\ Link(w, n)
      /\ w \in synced /\ want[w] \in Proofs /\ content[w] = want[w]
      /\ \A b \in Proofs : n = AlternateOf(b) => b = want[w]
  BY DEF LinkFinal, LinkAlternate, At, Progress
<1> HIDE DEF n
<1> USE <1>1 DEF Link, Returning, To
<1>2. Types'
  BY DEF Types, Files, Steps
<1>3. ForeignKept' /\ OwnTemporary'
  BY DEF ForeignKept, OwnTemporary, Types
<1>4. Progress'
  BY DEF Progress, Types
<1>5. WholeFiles'
  BY DEF WholeFiles, Types
<1>6. ResultKept'
  BY DEF ResultKept, Types
<1>7. OkHasName'
  BY DEF OkHasName, Types
<1> QED BY <1>2, <1>3, <1>4, <1>5, <1>6, <1>7

LEMMA ReuseStep ==
  ASSUME Inv, NEW w \in Writers, ReuseFinal(w) \/ ReuseAlternate(w)
  PROVE Inv'
<1> USE NameFacts, Distinct DEF Inv
<1>1. want[w] \in Proofs
  BY DEF ReuseFinal, ReuseAlternate, At, Progress
<1>2. PICK n \in Published :
        /\ dir[n] \in Writers /\ content[dir[n]] = want[w]
        /\ Returning(w, n) /\ UNCHANGED dir
  BY <1>1 DEF ReuseFinal, ReuseAlternate, Holds, Readable
<1> USE <1>2 DEF Returning, To
<1>3. Types'
  BY DEF Types, Steps
<1>4. ForeignKept' /\ OwnTemporary'
  BY DEF ForeignKept, OwnTemporary
<1>5. Progress'
  BY DEF Progress, Types
<1>6. WholeFiles'
  BY DEF WholeFiles, Types
<1>7. ResultKept'
  BY DEF ResultKept, Types
<1>8. OkHasName'
  BY DEF OkHasName, Types
<1> QED BY <1>3, <1>4, <1>5, <1>6, <1>7, <1>8

LEMMA DropStep ==
  ASSUME Inv, NEW w \in Writers, DropTemporary(w)
  PROVE Inv'
<1> USE NameFacts, Distinct DEF Inv, DropTemporary, To, At
<1>1. \A n \in Published : dir'[n] = dir[n]
  BY DEF Types
<1>2. Types'
  BY DEF Types, Steps, Answer
<1>3. ForeignKept' /\ OwnTemporary'
  BY DEF ForeignKept, OwnTemporary, Types
<1>4. Progress'
  BY DEF Progress, Types
<1>5. WholeFiles'
  BY <1>1 DEF WholeFiles, Types
<1>6. ResultKept'
  BY <1>1 DEF ResultKept, Types
<1>7. OkHasName'
  BY DEF OkHasName, Answer, Types
<1> QED BY <1>2, <1>3, <1>4, <1>5, <1>6, <1>7

LEMMA PowerStep ==
  ASSUME Inv, PowerLoss
  PROVE Inv'
<1> USE NameFacts, Distinct DEF Inv, PowerLoss
<1>1. PICK lost \in SUBSET {n \in Names : dir[n] \in Writers} :
        dir' = [n \in Names |-> IF n \in lost THEN NoFile ELSE dir[n]]
  OBVIOUS
<1>2. Types'
  BY <1>1 DEF Types, Steps, Files
<1>3. ForeignKept' /\ OwnTemporary'
  BY <1>1 DEF ForeignKept, OwnTemporary, Types, Files
<1>4. Progress'
  BY DEF Progress, Types, Files
<1>5. WholeFiles'
  BY <1>1 DEF WholeFiles, Types, Files
<1>6. ResultKept' /\ OkHasName'
  BY DEF ResultKept, OkHasName
<1> QED BY <1>2, <1>3, <1>4, <1>5, <1>6

LEMMA NextInv == Inv /\ [Next]_vars => Inv'
<1> SUFFICES ASSUME Inv, [Next]_vars PROVE Inv'
  OBVIOUS
<1>1. ASSUME NEW w \in Writers, Publish(w) \/ Kill(w) PROVE Inv'
  BY <1>1, QuietStep, FileStep, LinkStep, ReuseStep, DropStep DEF Publish, Quiet
<1>2. CASE PowerLoss
  BY <1>2, PowerStep
<1>3. CASE UNCHANGED vars
  BY <1>3 DEF vars, Inv, Types, ForeignKept, OwnTemporary, Progress, WholeFiles,
              ResultKept, OkHasName
<1> QED BY <1>1, <1>2, <1>3 DEF Next

LEMMA InvHolds == Spec => []Inv
BY InitInv, NextInv, PTL DEF Spec

-----------------------------------------------------------------------------
\* Type correctness, for any number of calls: in particular a caller is told
\* Ok only by a call that returns a name.
THEOREM TypeCorrect == Spec => []TypeOK
<1>1. Inv => TypeOK
  BY NameFacts DEF Inv, Types, TypeOK, Steps, OkHasName
<1> QED BY <1>1, InvHolds, PTL

\* save_proof_to never reports a path under which other bytes are.
THEOREM ReportsAreTrue == Spec => []ReportedIsStored
<1>1. Inv => ReportedIsStored
  BY DEF Inv, OkHasName, ResultKept, ReportedIsStored
<1> QED BY <1>1, InvHolds, PTL

-----------------------------------------------------------------------------
(* Links.  A file has at most one published name, and a call that is done  *)
(* has removed the other.                                                  *)

OneLink ==
  /\ \A m, n \in Published : dir[m] = dir[n] /\ dir[n] \in Writers => m = n
  /\ \A w \in Writers : wpc[w] = "done" => dir[Temporary(w)] = NoFile

LEMMA InitOneLink == Init => OneLink
BY NameFacts, Distinct DEF Init, OneLink

LEMMA NextOneLink == Inv /\ OneLink /\ [Next]_vars => OneLink'
<1> SUFFICES ASSUME Inv, OneLink, [Next]_vars PROVE OneLink'
  OBVIOUS
<1> USE NameFacts, Distinct DEF Inv
<1>1. ASSUME NEW w \in Writers, LinkFinal(w) \/ LinkAlternate(w) PROVE OneLink'
  <2>1. PICK n \in Published : Link(w, n)
    BY <1>1 DEF LinkFinal, LinkAlternate, At, Progress
  <2>2. \A m \in Published : dir[m] # w
    BY <1>1 DEF LinkFinal, LinkAlternate, At, WholeFiles
  <2>3. dir' = [dir EXCEPT ![n] = w] /\ \A v \in Writers : wpc'[v] = "done" => wpc[v] = "done"
    BY <2>1 DEF Link, Returning, To, Types
  <2> QED BY <2>2, <2>3 DEF OneLink, Types
<1>2. ASSUME NEW w \in Writers, Reserve(w) \/ DropTemporary(w) PROVE OneLink'
  <2>1. \A n \in Published : dir'[n] = dir[n]
    BY <1>2 DEF Reserve, DropTemporary, Types
  <2>2. \A v \in Writers : wpc'[v] = "done" => dir'[Temporary(v)] = NoFile
    BY <1>2 DEF Reserve, DropTemporary, To, Types, OneLink
  <2> QED BY <2>1, <2>2 DEF OneLink
<1>3. ASSUME NEW w \in Writers,
             Quiet(w) \/ WriteAll(w) \/ SyncAll(w) \/ ReuseFinal(w) \/ ReuseAlternate(w)
      PROVE OneLink'
  <2>1. UNCHANGED dir /\ \A v \in Writers : wpc'[v] = "done" => wpc[v] = "done"
    BY <1>3 DEF Quiet, FinalTaken, FinalDiffers, AlternateTaken, AlternateRefused, WriteFails,
         Kill, GiveUp, DropFails, WriteAll, SyncAll, ReuseFinal, ReuseAlternate, Returning, To, Types
  <2> QED BY <2>1 DEF OneLink
<1>4. ASSUME PowerLoss PROVE OneLink'
  <2>1. PICK lost \in SUBSET {n \in Names : dir[n] \in Writers} :
          dir' = [n \in Names |-> IF n \in lost THEN NoFile ELSE dir[n]]
    BY <1>4 DEF PowerLoss
  <2>2. \A v \in Writers : wpc'[v] = "done" => wpc[v] = "done"
    BY <1>4 DEF PowerLoss
  <2> QED BY <2>1, <2>2 DEF OneLink
<1>5. CASE UNCHANGED vars
  BY <1>5 DEF vars, OneLink
<1> QED BY <1>1, <1>2, <1>3, <1>4, <1>5 DEF Next, Publish, Quiet

\* A published proof can be loaded unless its publisher has yet to remove its
\* temporary name, or never will: for any number of racing, failing and killed
\* calls, and across a loss of power.
THEOREM ProofsAreLoadable == Spec => []Loadable
<1>1. Inv /\ OneLink => Loadable
  <2> SUFFICES ASSUME Inv, OneLink, NEW n \in Published, dir[n] \in Writers,
                      wpc[dir[n]] \notin {"dropping", "leaked", "dead"}
               PROVE Readable(n)
    BY DEF Loadable
  <2> USE NameFacts, Distinct DEF Inv
  <2>1. wpc[dir[n]] = "done" /\ dir[n] \in synced
    BY DEF WholeFiles
  <2>2. content[dir[n]] \in Proofs
    BY <2>1 DEF Progress
  <2>3. ASSUME NEW m \in Names, dir[m] = dir[n] PROVE m = n
    <3>1. CASE m \in Published
      BY <3>1, <2>3 DEF OneLink
    <3>2. CASE \E w \in Writers : m = Temporary(w)
      BY <3>2, <2>3, <2>1 DEF OwnTemporary, OneLink
    <3> QED BY <3>1, <3>2 DEF Names
  <2>4. LinksOf(dir[n]) = {n}
    BY <2>3 DEF LinksOf
  <2> QED BY <2>2, <2>4 DEF Readable
<1> QED BY <1>1, InitOneLink, NextOneLink, InvHolds, PTL DEF Spec

-----------------------------------------------------------------------------
(* The refinement. *)

mapped == [n \in Published |-> Bytes(n)]

LEMMA InitStored == Init => Store!Init
<1> SUFFICES ASSUME Init PROVE Store!Init
  OBVIOUS
<1>1. mapped \in [Published -> {NoFile, Foreign}]
  BY NameFacts, Distinct DEF Init, Bytes, mapped, Files
<1> QED BY <1>1 DEF Store!Init, mapped

LEMMA StepStored == Inv /\ Inv' /\ [Next]_vars => [Store!Next]_mapped
<1> SUFFICES ASSUME Inv, Inv', [Next]_vars PROVE Store!Next \/ mapped' = mapped
  BY DEF mapped
<1> USE NameFacts, Distinct DEF Inv
<1>1. ASSUME \A n \in Published : Bytes(n)' = Bytes(n) PROVE mapped' = mapped
  BY <1>1 DEF mapped
<1>2. ASSUME NEW w \in Writers, Quiet(w) \/ SyncAll(w) \/ ReuseFinal(w) \/ ReuseAlternate(w)
      PROVE mapped' = mapped
  <2>1. UNCHANGED <<dir, content>>
    BY <1>2 DEF Quiet, FinalTaken, FinalDiffers, AlternateTaken, AlternateRefused,
         WriteFails, Kill, GiveUp, DropFails, SyncAll, ReuseFinal, ReuseAlternate, Returning
  <2> QED BY <2>1, <1>1 DEF Bytes
<1>3. ASSUME NEW w \in Writers, Reserve(w) \/ DropTemporary(w) PROVE mapped' = mapped
  <2>1. UNCHANGED content /\ \A n \in Published : dir'[n] = dir[n]
    BY <1>3 DEF Reserve, DropTemporary, Types
  <2> QED BY <2>1, <1>1 DEF Bytes
<1>4. ASSUME NEW w \in Writers, WriteAll(w) PROVE mapped' = mapped
  <2>1. UNCHANGED dir /\ \A n \in Published : dir[n] # w
    BY <1>4 DEF WriteAll, At, WholeFiles
  <2>2. \A n \in Published : dir[n] \in Files /\ dir[n] # w => content'[dir[n]] = content[dir[n]]
    BY <1>4 DEF WriteAll, Types
  <2> QED BY <2>1, <2>2, <1>1 DEF Bytes, Types
<1>5. ASSUME NEW w \in Writers, LinkFinal(w) \/ LinkAlternate(w) PROVE Store!Next
  <2> DEFINE n == IF LinkFinal(w) THEN Final ELSE AlternateOf(want[w])
  <2>1. /\ n \in Published /\ Link(w, n)
        /\ want[w] \in Proofs /\ content[w] = want[w]
        /\ \A c \in Proofs : n = AlternateOf(c) => want[w] = c
    BY <1>5 DEF LinkFinal, LinkAlternate, At, Progress
  <2> HIDE DEF n
  <2>2. /\ dir[n] = NoFile /\ dir' = [dir EXCEPT ![n] = w] /\ UNCHANGED content
    BY <2>1 DEF Link, Returning
  <2>3. mapped[n] = NoFile /\ mapped' = [mapped EXCEPT ![n] = want[w]]
    BY <2>1, <2>2 DEF mapped, Bytes, Types
  <2>4. Store!Publish(n, want[w])
    BY <2>1, <2>3 DEF Store!Publish, mapped
  <2> QED BY <2>1, <2>4 DEF Store!Next
<1>6. ASSUME PowerLoss PROVE Store!Next
  <2>1. PICK lost \in SUBSET {n \in Names : dir[n] \in Writers} :
          dir' = [n \in Names |-> IF n \in lost THEN NoFile ELSE dir[n]]
    BY <1>6 DEF PowerLoss
  <2>2. \A f \in synced : content'[f] = content[f]
    BY <1>6 DEF PowerLoss, Types
  <2>3. \A n \in Published : dir[n] # NoFile => dir[n] \in synced
    BY DEF Types, Files, WholeFiles, ForeignKept
  <2>4. mapped' = [n \in Published |-> IF n \in lost \cap Published THEN NoFile ELSE mapped[n]]
    BY <2>1, <2>2, <2>3 DEF mapped, Bytes
  <2>5. Store!Lose(lost \cap Published)
    BY <2>4 DEF Store!Lose, mapped
  <2> QED BY <2>5 DEF Store!Next
<1>7. CASE UNCHANGED vars
  BY <1>7, <1>1 DEF vars, Bytes
<1> QED
  BY <1>2, <1>3, <1>4, <1>5, <1>6, <1>7 DEF Next, Publish, Quiet

\* The proof directory is a write-once store for any number of racing calls,
\* retries, killed processes and a loss of power: initial states map to initial
\* states and every step maps to a step or leaves the mapped store alone.
THEOREM StoreIsWriteOnce == Spec => ImplementsWriteOnce
<1>1. Spec => Store!Init /\ [][Store!Next]_mapped
  BY InitStored, StepStored, InvHolds, PTL DEF Spec
<1> QED BY <1>1, PTL DEF ImplementsWriteOnce, Store!Spec, mapped

-----------------------------------------------------------------------------
(* The hash chain. *)

\* Induction over the naturals, by a set.
LEMMA NatInductionSet ==
  ASSUME NEW G, 0 \in G, \A n \in Nat : n \in G => n + 1 \in G
  PROVE  Nat \subseteq G
<1> SUFFICES ASSUME Nat \ G # {} PROVE FALSE
  OBVIOUS
<1>1. PICK n \in Nat \ G : \A m \in Nat \ G : ~ (<<m, n>> \in OpToRel(<, Nat))
  <2>1. Nat \ G \subseteq Nat
    OBVIOUS
  <2> HIDE DEF OpToRel
  <2> QED BY <2>1, NatLessThanWellFounded, WFMin
<1>2. \A m \in Nat : m < n => m \in G
  BY <1>1 DEF OpToRel
<1>3. n # 0 /\ n - 1 \in Nat /\ n - 1 < n /\ (n - 1) + 1 = n
  OBVIOUS
<1>4. n - 1 \in G
  BY <1>2, <1>3
<1> QED BY <1>1, <1>3, <1>4

\* The length of a sequence that is given element by element.
LEMMA LengthOf ==
  ASSUME NEW n \in Nat, NEW s, DOMAIN s = 1..n, s = [i \in 1..n |-> s[i]]
  PROVE  Len(s) = n
<1>1. s \in Seq({s[i] : i \in 1..n})
  BY IsASeq
<1> QED BY <1>1, LenProperties

-----------------------------------------------------------------------------
(* The hashes of frames.                                                    *)

\* hashes are the hashes of frames, each over the one before it.
Links(hashes, frames, prev) ==
  /\ Len(frames) \in Nat
  /\ hashes = [i \in 1..Len(frames) |-> hashes[i]]
  /\ \A i \in 1..Len(frames) : hashes[i] = Hash(frames[i], IF i = 1 THEN prev ELSE hashes[i - 1])

\* g[i] is the hash of the first i of n frames.
Runs(g, frames, prev, n) == \A i \in 0..n : g[i] = IF i = 0 THEN prev ELSE Hash(frames[i], g[i - 1])

LEMMA RunsExists ==
  ASSUME NEW frames, NEW prev, NEW n \in Nat
  PROVE  \E g : g = [i \in 0..n |-> IF i = 0 THEN prev ELSE Hash(frames[i], g[i - 1])]
<1> DEFINE G == {k \in Nat : \E g : Runs(g, frames, prev, k)}
<1>1. 0 \in G
  <2>1. PICK g : g = [i \in 0..0 |-> prev]
    OBVIOUS
  <2>2. Runs(g, frames, prev, 0)
    BY <2>1 DEF Runs
  <2> QED BY <2>2
<1>2. \A k \in Nat : k \in G => k + 1 \in G
  <2> TAKE k \in Nat
  <2> HAVE k \in G
  <2>1. PICK g : Runs(g, frames, prev, k)
    OBVIOUS
  <2>2. PICK h : h = [i \in 0..(k + 1) |-> IF i \in 0..k THEN g[i] ELSE Hash(frames[i], g[i - 1])]
    OBVIOUS
  <2>3. ASSUME NEW i \in 0..(k + 1)
        PROVE  h[i] = IF i = 0 THEN prev ELSE Hash(frames[i], h[i - 1])
    <3>1. CASE i = 0
      <4>1. 0 \in 0..k
        OBVIOUS
      <4> QED BY <2>1, <2>2, <3>1, <4>1 DEF Runs
    <3>2. CASE i # 0
      <4>1. i - 1 \in 0..k /\ i - 1 \in 0..(k + 1)
        BY <3>2
      <4>2. h[i - 1] = g[i - 1]
        BY <2>2, <4>1
      <4>3. h[i] = Hash(frames[i], g[i - 1])
        BY <2>1, <2>2, <3>2 DEF Runs
      <4> QED BY <3>2, <4>2, <4>3
    <3> QED BY <3>1, <3>2
  <2>4. Runs(h, frames, prev, k + 1)
    BY <2>3 DEF Runs
  <2> QED BY <2>4
<1>3. n \in G
  <2>1. Nat \subseteq G
    <3> HIDE DEF G
    <3> QED BY <1>1, <1>2, NatInductionSet
  <2> HIDE DEF G
  <2> QED BY <2>1
<1>4. PICK g : Runs(g, frames, prev, n)
  BY <1>3
<1>5. PICK h : h = [i \in 0..n |-> g[i]]
  OBVIOUS
<1>6. \A i \in 0..n : h[i] = IF i = 0 THEN prev ELSE Hash(frames[i], h[i - 1])
  <2>1. \A i \in 0..n : i # 0 => i - 1 \in 0..n
    OBVIOUS
  <2> QED BY <1>4, <1>5, <2>1 DEF Runs
<1>7. h = [i \in 0..n |-> IF i = 0 THEN prev ELSE Hash(frames[i], h[i - 1])]
  BY <1>5, <1>6
<1> QED BY <1>7

LEMMA ChainedLinks ==
  ASSUME NEW frames, Len(frames) \in Nat, NEW prev
  PROVE  Links(Chained(frames, prev), frames, prev)
<1> DEFINE n == Len(frames)
<1>1. PICK g : g = (CHOOSE x : x = [i \in 0..n |-> IF i = 0 THEN prev ELSE Hash(frames[i], x[i - 1])])
  OBVIOUS
<1>2. g = [i \in 0..n |-> IF i = 0 THEN prev ELSE Hash(frames[i], g[i - 1])]
  BY <1>1, RunsExists
<1>3. Chained(frames, prev) = [i \in 1..n |-> g[i]]
  BY <1>1 DEF Chained
<1>4. ASSUME NEW i \in 1..n
      PROVE  g[i] = Hash(frames[i], IF i = 1 THEN prev ELSE g[i - 1])
  <2>1. i \in 0..n /\ i # 0 /\ i - 1 \in 0..n /\ (i = 1 => i - 1 = 0)
    OBVIOUS
  <2>2. g[i] = Hash(frames[i], g[i - 1])
    BY <1>2, <2>1
  <2>3. g[0] = prev
    BY <1>2
  <2> QED BY <2>1, <2>2, <2>3
<1>5. \A i \in 1..n : i # 1 => i - 1 \in 1..n
  OBVIOUS
<1> HIDE DEF n
<1>6. \A i \in 1..n : Chained(frames, prev)[i] = g[i]
  BY <1>3
<1>7. \A i \in 1..n : Chained(frames, prev)[i]
           = Hash(frames[i], IF i = 1 THEN prev ELSE Chained(frames, prev)[i - 1])
  BY <1>4, <1>5, <1>6
<1> QED BY <1>3, <1>6, <1>7 DEF Links, n

\* There is one way to hash frames.
LEMMA LinksUnique ==
  ASSUME NEW frames, NEW prev, NEW a, NEW b, Links(a, frames, prev), Links(b, frames, prev)
  PROVE  a = b
<1> DEFINE n == Len(frames)
           G == {k \in Nat : k + 1 \in 1..n => a[k + 1] = b[k + 1]}
<1>0. n \in Nat
  BY DEF Links
<1>1. 0 \in G
  <2>1. 0 + 1 \in 1..n => a[0 + 1] = b[0 + 1]
    BY DEF Links
  <2> QED BY <2>1
<1>2. \A k \in Nat : k \in G => k + 1 \in G
  <2> TAKE k \in Nat
  <2> HAVE k \in G
  <2>1. ASSUME (k + 1) + 1 \in 1..n PROVE a[(k + 1) + 1] = b[(k + 1) + 1]
    <3>1. PICK i : i = (k + 1) + 1
      OBVIOUS
    <3>2. i \in 1..n /\ i # 1 /\ i - 1 = k + 1 /\ k + 1 \in 1..n
      BY <1>0, <2>1, <3>1
    <3>3. a[i - 1] = b[i - 1]
      BY <3>2
    <3>4. a[i] = Hash(frames[i], a[i - 1]) /\ b[i] = Hash(frames[i], b[i - 1])
      BY <3>2 DEF Links
    <3> QED BY <3>1, <3>3, <3>4
  <2>2. k + 1 \in Nat
    OBVIOUS
  <2> QED BY <2>1, <2>2
<1>3. Nat \subseteq G
  <2> HIDE DEF G
  <2> QED BY <1>1, <1>2, NatInductionSet
<1>4. ASSUME NEW i \in 1..n PROVE a[i] = b[i]
  <2>1. i - 1 \in Nat /\ (i - 1) + 1 = i
    BY <1>0
  <2>2. i - 1 \in G
    BY <1>3, <2>1
  <2> QED BY <2>1, <2>2
<1> QED BY <1>4 DEF Links

\* One more frame.
LEMMA LinksAppend ==
  ASSUME NEW S, NEW R, NEW hashes \in Seq(R), NEW frames \in Seq(S), NEW prev, NEW f,
         Links(hashes, frames, prev), NEW base,
         base = IF hashes = <<>> THEN prev ELSE hashes[Len(hashes)]
  PROVE  Links(Append(hashes, Hash(f, base)), Append(frames, f), prev)
<1> DEFINE n == Len(frames)
           h == Hash(f, base)
           H == Append(hashes, h)
           F == Append(frames, f)
<1>1. n \in Nat /\ Len(hashes) = n
  <2>1. n \in Nat
    OBVIOUS
  <2>2. DOMAIN hashes = 1..n
    BY DEF Links
  <2>3. DOMAIN hashes = 1..Len(hashes) /\ Len(hashes) \in Nat
    BY LenProperties
  <2>4. Len(hashes) = n
    BY <2>1, <2>2, <2>3
  <2> QED BY <2>1, <2>4
<1>2. Len(F) = n + 1 /\ F[n + 1] = f /\ \A i \in 1..n : F[i] = frames[i]
  BY AppendProperties
<1>3. Len(H) = n + 1 /\ H[n + 1] = h /\ \A i \in 1..n : H[i] = hashes[i]
  <2>1. Len(hashes) = n
    BY <1>1
  <2> HIDE DEF h
  <2> QED BY <2>1
<1>4. H = [i \in 1..(n + 1) |-> H[i]]
  <2> HIDE DEF h
  <2>1. H \in Seq(R \cup {h})
    OBVIOUS
  <2> HIDE DEF H
  <2>2. H \in [1..Len(H) -> R \cup {h}]
    BY <2>1, LenProperties
  <2> QED BY <1>3, <2>2
<1>5. ASSUME NEW i \in 1..(n + 1)
      PROVE  H[i] = Hash(F[i], IF i = 1 THEN prev ELSE H[i - 1])
  <2>1. CASE i = n + 1
    <3>1. CASE n = 0
      <4>1. hashes = <<>>
        BY <1>1, <3>1
      <4> QED BY <1>2, <1>3, <2>1, <3>1, <4>1
    <3>2. CASE n # 0
      <4>1. hashes # <<>> /\ i # 1 /\ i - 1 = n /\ n \in 1..n
        BY <1>1, <2>1, <3>2
      <4>2. H[i - 1] = base
        BY <1>1, <1>3, <4>1
      <4> QED BY <1>2, <1>3, <2>1, <4>1, <4>2
    <3> QED BY <3>1, <3>2
  <2>2. CASE i # n + 1
    <3>1. i \in 1..n /\ (i # 1 => i - 1 \in 1..n)
      BY <1>1, <2>2
    <3>2. hashes[i] = Hash(frames[i], IF i = 1 THEN prev ELSE hashes[i - 1])
      BY <3>1 DEF Links
    <3> QED BY <1>2, <1>3, <3>1, <3>2
  <2> QED BY <2>1, <2>2
<1> HIDE DEF h, H, F
<1>6. Len(F) = n + 1 /\ n + 1 \in Nat
  BY <1>1, <1>2
<1> HIDE DEF n
<1>7. Links(H, F, prev)
  BY <1>4, <1>5, <1>6 DEF Links
<1> QED BY <1>7 DEF H, F, h

-----------------------------------------------------------------------------
(* The tree. *)

\* A sequence of n hashes.
IsLevel(s, n) == n \in Nat /\ s = [i \in 1..n |-> s[i]]

Halves(n) == IF n <= 1 THEN n ELSE (n + 1) \div 2

LEMMA HalvesShrink ==
  ASSUME NEW n \in Nat
  PROVE  /\ Halves(n) \in Nat
         /\ n >= 1 => Halves(n) >= 1
         /\ n >= 2 => Halves(n) < n
         /\ n <= 1 => Halves(n) = n
BY DEF Halves

LEMMA LevelLength ==
  ASSUME NEW n, NEW s, IsLevel(s, n)
  PROVE  Len(s) = n
BY LengthOf DEF IsLevel

\* What Up puts at place i.
Right(n, i) == IF 2 * i <= n THEN 2 * i ELSE 2 * i - 1

LEMMA UpIs ==
  ASSUME NEW n \in Nat \ {0, 1}, NEW s, IsLevel(s, n)
  PROVE  /\ IsLevel(Up(s), Halves(n))
         /\ \A i \in 1..Halves(n) : Up(s)[i] = <<"node", s[2 * i - 1], s[Right(n, i)]>>
<1>1. Len(s) = n /\ ~ n <= 1
  BY LevelLength
<1>2. Up(s) = [i \in 1..((n + 1) \div 2) |->
                 <<"node", s[2 * i - 1], s[IF 2 * i <= n THEN 2 * i ELSE 2 * i - 1]>>]
  BY <1>1 DEF Up
<1>3. Halves(n) = (n + 1) \div 2 /\ Halves(n) \in Nat
  BY <1>1, HalvesShrink DEF Halves
<1> QED BY <1>2, <1>3 DEF IsLevel, Right

LEMMA UpOfOne ==
  ASSUME NEW n \in {0, 1}, NEW s, IsLevel(s, n)
  PROVE  Up(s) = s /\ Halves(n) = n
BY LevelLength DEF Up, Halves

\* Levels that differ go up to levels that differ.
LEMMA UpKeepsDifference ==
  ASSUME NEW n, NEW s, NEW t, IsLevel(s, n), IsLevel(t, n), s # t
  PROVE  Up(s) # Up(t)
<1>1. n \in Nat
  BY DEF IsLevel
<1>2. CASE n \in {0, 1}
  BY <1>2, UpOfOne
<1>3. CASE n \notin {0, 1}
  <2>1. PICK i \in 1..n : s[i] # t[i]
    BY DEF IsLevel
  <2>2. PICK k : k = (i + 1) \div 2
    OBVIOUS
  <2>3. k \in 1..Halves(n) /\ (i = 2 * k - 1 \/ (i = 2 * k /\ i = Right(n, k)))
    BY <1>1, <1>3, <2>2 DEF Halves, Right
  <2>4. Up(s)[k] # Up(t)[k]
    <3>1. /\ Up(s)[k] = <<"node", s[2 * k - 1], s[Right(n, k)]>>
          /\ Up(t)[k] = <<"node", t[2 * k - 1], t[Right(n, k)]>>
      BY <1>1, <1>3, <2>3, UpIs
    <3> QED BY <2>1, <2>3, <3>1
  <2> QED BY <2>4
<1> QED BY <1>2, <1>3

\* g[h] is the level h steps above s.
Climbs(g, s, n) == \A h \in 0..n : g[h] = IF h = 0 THEN s ELSE Up(g[h - 1])

LEMMA ClimbsExists ==
  ASSUME NEW s, NEW n \in Nat
  PROVE  \E g : g = [h \in 0..n |-> IF h = 0 THEN s ELSE Up(g[h - 1])]
<1> DEFINE G == {k \in Nat : \E g : Climbs(g, s, k)}
<1>1. 0 \in G
  <2>1. PICK g : g = [i \in 0..0 |-> s]
    OBVIOUS
  <2>2. Climbs(g, s, 0)
    BY <2>1 DEF Climbs
  <2> QED BY <2>2
<1>2. \A k \in Nat : k \in G => k + 1 \in G
  <2> TAKE k \in Nat
  <2> HAVE k \in G
  <2>1. PICK g : Climbs(g, s, k)
    OBVIOUS
  <2>2. PICK h : h = [i \in 0..(k + 1) |-> IF i \in 0..k THEN g[i] ELSE Up(g[i - 1])]
    OBVIOUS
  <2>3. ASSUME NEW i \in 0..(k + 1)
        PROVE  h[i] = IF i = 0 THEN s ELSE Up(h[i - 1])
    <3>1. CASE i = 0
      <4>1. 0 \in 0..k
        OBVIOUS
      <4> QED BY <2>1, <2>2, <3>1, <4>1 DEF Climbs
    <3>2. CASE i # 0
      <4>1. i - 1 \in 0..k /\ i - 1 \in 0..(k + 1)
        BY <3>2
      <4>2. h[i - 1] = g[i - 1]
        BY <2>2, <4>1
      <4>3. h[i] = Up(g[i - 1])
        BY <2>1, <2>2, <3>2 DEF Climbs
      <4> QED BY <3>2, <4>2, <4>3
    <3> QED BY <3>1, <3>2
  <2>4. Climbs(h, s, k + 1)
    BY <2>3 DEF Climbs
  <2> QED BY <2>4
<1>3. n \in G
  <2>1. Nat \subseteq G
    <3> HIDE DEF G
    <3> QED BY <1>1, <1>2, NatInductionSet
  <2> HIDE DEF G
  <2> QED BY <2>1
<1>4. PICK g : Climbs(g, s, n)
  BY <1>3
<1>5. PICK h : h = [i \in 0..n |-> g[i]]
  OBVIOUS
<1>6. \A i \in 0..n : h[i] = IF i = 0 THEN s ELSE Up(h[i - 1])
  <2>1. \A i \in 0..n : i # 0 => i - 1 \in 0..n
    OBVIOUS
  <2> QED BY <1>4, <1>5, <2>1 DEF Climbs
<1>7. h = [i \in 0..n |-> IF i = 0 THEN s ELSE Up(h[i - 1])]
  BY <1>5, <1>6
<1> QED BY <1>7

\* The root is the only hash of the highest level.
LEMMA RootIsTop ==
  ASSUME NEW n \in Nat \ {0}, NEW s, IsLevel(s, n)
  PROVE  \E g : Climbs(g, s, n) /\ Merkle(s) = g[n][1]
<1>1. Len(s) = n /\ s # <<>>
  BY LevelLength
<1>2. PICK g : g = (CHOOSE x : x = [h \in 0..n |-> IF h = 0 THEN s ELSE Up(x[h - 1])])
  OBVIOUS
<1>3. g = [h \in 0..n |-> IF h = 0 THEN s ELSE Up(g[h - 1])]
  <2>1. n \in Nat
    OBVIOUS
  <2>2. \E x : x = [h \in 0..n |-> IF h = 0 THEN s ELSE Up(x[h - 1])]
    BY <2>1, ClimbsExists
  <2> QED BY <1>2, <2>2
<1>4. Merkle(s) = g[n][1]
  BY <1>1, <1>2 DEF Merkle
<1>5. Climbs(g, s, n)
  BY <1>3 DEF Climbs
<1> QED BY <1>4, <1>5

\* Trees over leaves that differ have roots that differ.
LEMMA RootBindsLeaves ==
  ASSUME NEW n \in Nat \ {0}, NEW s, NEW t, IsLevel(s, n), IsLevel(t, n), s # t
  PROVE  Merkle(s) # Merkle(t)
<1>1. PICK g : Climbs(g, s, n) /\ Merkle(s) = g[n][1]
  BY RootIsTop
<1>2. PICK f : Climbs(f, t, n) /\ Merkle(t) = f[n][1]
  BY RootIsTop
<1> DEFINE Differ(h) == \E k \in 1..n : /\ IsLevel(g[h], k) /\ IsLevel(f[h], k) /\ g[h] # f[h]
                                        /\ k = 1 \/ k + h <= n
           G == {h \in Nat : h <= n => Differ(h)}
<1>3. 0 \in G
  <2>1. g[0] = s /\ f[0] = t
    BY <1>1, <1>2 DEF Climbs
  <2>2. n \in 1..n /\ n + 0 <= n
    OBVIOUS
  <2>3. Differ(0)
    BY <2>1, <2>2
  <2> QED BY <2>3
<1>4. \A h \in Nat : h \in G => h + 1 \in G
  <2> TAKE h \in Nat
  <2> HAVE h \in G
  <2> SUFFICES ASSUME h + 1 <= n PROVE Differ(h + 1)
    OBVIOUS
  <2>1. PICK k \in 1..n : /\ IsLevel(g[h], k) /\ IsLevel(f[h], k) /\ g[h] # f[h]
                          /\ k = 1 \/ k + h <= n
    OBVIOUS
  <2>2. g[h + 1] = Up(g[h]) /\ f[h + 1] = Up(f[h])
    <3>1. h + 1 \in 0..n /\ h + 1 # 0 /\ (h + 1) - 1 = h
      OBVIOUS
    <3> QED BY <1>1, <1>2, <3>1 DEF Climbs
  <2>3. g[h + 1] # f[h + 1]
    BY <2>1, <2>2, UpKeepsDifference
  <2>4. CASE k = 1
    BY <2>1, <2>2, <2>3, <2>4, UpOfOne
  <2>5. CASE k # 1
    <3>1. k \in Nat \ {0, 1} /\ k + h <= n
      BY <2>1, <2>5
    <3>2. IsLevel(g[h + 1], Halves(k)) /\ IsLevel(f[h + 1], Halves(k))
      BY <2>1, <2>2, <3>1, UpIs
    <3>3. Halves(k) \in 1..n /\ Halves(k) + (h + 1) <= n
      BY <3>1, HalvesShrink
    <3> QED BY <2>3, <3>2, <3>3
  <2> QED BY <2>4, <2>5
<1>5. n \in G
  <2>1. Nat \subseteq G
    <3> HIDE DEF G
    <3> QED BY <1>3, <1>4, NatInductionSet
  <2> HIDE DEF G
  <2> QED BY <2>1
<1>6. PICK k \in 1..n : /\ IsLevel(g[n], k) /\ IsLevel(f[n], k) /\ g[n] # f[n]
                        /\ k = 1 \/ k + n <= n
  BY <1>5
<1>7. k = 1
  BY <1>6
<1>8. g[n][1] # f[n][1]
  BY <1>6, <1>7 DEF IsLevel
<1> QED BY <1>1, <1>2, <1>8

-----------------------------------------------------------------------------
(* The chain. *)

\* The hash the frames of the open segment follow, and the one the last closed
\* segment followed.
Base(roots) == IF roots = <<>> THEN Zero ELSE roots[Len(roots)].last
Before(roots) == IF Len(roots) = 1 THEN Zero ELSE roots[Len(roots) - 1].last

\* A root is the one of its leaves, they are the hashes of the frames it is of.
RootIsRight(r, prev) ==
  /\ Len(r.of) \in Nat \ {0}
  /\ r.of = [i \in 1..Len(r.of) |-> r.of[i]]
  /\ \A i \in 1..Len(r.of) : r.of[i] \in ChainFrames
  /\ Links(r.leaves, r.of, prev)
  /\ r.root = Merkle(r.leaves) /\ r.last = r.leaves[Len(r.of)]
  /\ r.start = r.of[1].index /\ r.count = Len(r.of)

ChainFields == {"size", "hashes", "frames", "roots", "prev", "total"}

ChainInv ==
  /\ DOMAIN chain = ChainFields
  /\ chain.size \in Nat
  /\ \E R : chain.hashes \in Seq(R)
  /\ \E R : chain.roots \in Seq(R)
  /\ chain.frames \in Seq(ChainFrames)
  /\ Links(chain.hashes, chain.frames, Base(chain.roots))
  /\ chain.prev = IF chain.hashes = <<>> THEN Base(chain.roots) ELSE chain.hashes[Len(chain.hashes)]
  /\ chain.size = 0 => chain.roots = <<>> /\ chain.hashes = <<>>
  /\ chain.size # 0 => Len(chain.hashes) < chain.size
  /\ \A i \in 1..Len(chain.roots) : chain.roots[i].last # Zero
  /\ chain.roots # <<>> =>
       /\ RootIsRight(Newest, Trusted)
       /\ Newest.count <= chain.size
       /\ Newest.segment = Len(chain.roots) - 1

\* What a closed segment adds to the roots.
Closed(c) ==
  [root |-> Merkle(c.hashes), last |-> c.hashes[Len(c.hashes)],
   start |-> c.frames[1].index, count |-> Len(c.hashes),
   segment |-> Len(c.roots), of |-> c.frames, leaves |-> c.hashes]

LEMMA ChainInitInv == ChainInit => ChainInv
<1> SUFFICES ASSUME ChainInit PROVE ChainInv
  OBVIOUS
<1>1. /\ DOMAIN chain = ChainFields /\ chain.size = 0 /\ chain.hashes = <<>> /\ chain.frames = <<>>
      /\ chain.roots = <<>> /\ chain.prev = Zero
  BY DEF ChainInit, ChainFields
<1>2. Links(<<>>, <<>>, Zero)
  BY DEF Links
<1>3. <<>> \in Seq({}) /\ <<>> \in Seq(ChainFrames) /\ Len(<<>>) = 0
  OBVIOUS
<1> QED BY <1>1, <1>2, <1>3 DEF ChainInv, Base

\* Lemma about an open segment of at least one frame that is closed.
LEMMA LinkedLength ==
  ASSUME NEW R, NEW hashes \in Seq(R), NEW frames, NEW prev, Links(hashes, frames, prev)
  PROVE  Len(hashes) = Len(frames)
<1>1. Len(frames) \in Nat /\ DOMAIN hashes = 1..Len(frames)
  BY DEF Links
<1>2. Len(hashes) \in Nat /\ DOMAIN hashes = 1..Len(hashes)
  BY LenProperties
<1> QED BY <1>1, <1>2

\* Equal hashes are hashes of the same.
LEMMA HashBinds ==
  ASSUME NEW f, NEW p, NEW g, NEW q, Hash(f, p) = Hash(g, q)
  PROVE  f.index = g.index /\ p = q /\ f.data = g.data
<1>1. /\ Hash(f, p)[2] = f.index /\ Hash(f, p)[3] = p /\ Hash(f, p)[4] = f.data
      /\ Hash(g, q)[2] = g.index /\ Hash(g, q)[3] = q /\ Hash(g, q)[4] = g.data
  BY DEF Hash
<1> QED BY <1>1

LEMMA HashIsNotZero == \A f, p : Hash(f, p) # Zero
BY DEF Hash, Zero

\* The open segment of c, which has a frame, is closed.
LEMMA FinalizedInv ==
  ASSUME NEW c, DOMAIN c = ChainFields, c.size \in Nat \ {0},
         NEW R, c.hashes \in Seq(R), NEW Q, c.roots \in Seq(Q), c.frames \in Seq(ChainFrames),
         Links(c.hashes, c.frames, Base(c.roots)), c.hashes # <<>>,
         c.prev = c.hashes[Len(c.hashes)], Len(c.hashes) <= c.size,
         \A i \in 1..Len(c.roots) : c.roots[i].last # Zero,
         chain' = Finalized(c)
  PROVE  ChainInv'
<1> DEFINE r == Closed(c)
           n == Len(c.hashes)
           k == Len(c.roots)
<1>1. /\ DOMAIN chain' = ChainFields /\ chain'.size = c.size /\ chain'.hashes = <<>>
      /\ chain'.frames = <<>> /\ chain'.roots = Append(c.roots, r) /\ chain'.prev = c.prev
  BY DEF Finalized, Closed, ChainFields
<1>2. n \in Nat \ {0} /\ n = Len(c.frames)
  BY LinkedLength, LenProperties, EmptySeq
<1>3. k \in Nat
  BY LenProperties
<1>4. /\ r.root = Merkle(c.hashes) /\ r.last = c.hashes[n] /\ r.start = c.frames[1].index
      /\ r.count = n /\ r.segment = k /\ r.of = c.frames /\ r.leaves = c.hashes
  BY DEF Closed
<1> HIDE DEF r
<1>5. /\ chain'.roots \in Seq(Q \cup {r}) /\ Len(chain'.roots) = k + 1
      /\ chain'.roots[k + 1] = r /\ \A i \in 1..k : chain'.roots[i] = c.roots[i]
  BY <1>1
<1>6. chain'.roots # <<>>
  BY <1>3, <1>5
<1>7. Newest' = r
  BY <1>5 DEF Newest
<1>8. Trusted' = Base(c.roots)
  <2>1. CASE k = 0
    <3>1. c.roots = <<>>
      BY <2>1, EmptySeq
    <3> QED BY <1>5, <2>1, <3>1 DEF Trusted, Base
  <2>2. CASE k # 0
    <3>1. c.roots # <<>> /\ k \in 1..k /\ k + 1 # 1 /\ (k + 1) - 1 = k
      BY <1>3, <2>2
    <3> QED BY <1>5, <3>1 DEF Trusted, Base
  <2> QED BY <2>1, <2>2
<1>9. r.last # Zero
  <2>1. n \in 1..Len(c.frames)
    BY <1>2
  <2>2. PICK p : p = IF n = 1 THEN Base(c.roots) ELSE c.hashes[n - 1]
    OBVIOUS
  <2>3. c.hashes[n] = Hash(c.frames[n], p)
    BY <2>1, <2>2 DEF Links
  <2> QED BY <1>4, <2>3, HashIsNotZero
<1>10. RootIsRight(r, Base(c.roots))
  <2>1. c.frames \in [1..n -> ChainFrames]
    BY <1>2, LenProperties
  <2> QED BY <1>2, <1>4, <2>1 DEF RootIsRight
<1>11. \A i \in 1..Len(chain'.roots) : chain'.roots[i].last # Zero
  BY <1>3, <1>5, <1>9
<1>12. Base(chain'.roots) = c.prev
  BY <1>4, <1>5, <1>6 DEF Base
<1>13. Links(chain'.hashes, chain'.frames, Base(chain'.roots))
  BY <1>1 DEF Links
<1>14. chain'.hashes \in Seq({}) /\ chain'.frames \in Seq(ChainFrames) /\ Len(chain'.hashes) = 0
  BY <1>1
<1> HIDE DEF n, k
<1>15. /\ RootIsRight(Newest', Trusted') /\ Newest'.count <= chain'.size
       /\ Newest'.segment = Len(chain'.roots) - 1
  BY <1>1, <1>2, <1>3, <1>4, <1>5, <1>7, <1>8, <1>10 DEF n, k
<1>16. \E S : chain'.roots \in Seq(S)
  BY <1>5
<1>17. \E S : chain'.hashes \in Seq(S)
  BY <1>14
<1> QED BY <1>1, <1>11, <1>12, <1>13, <1>14, <1>15, <1>16, <1>17 DEF ChainInv

LEMMA NewInv == ChainInv /\ New => ChainInv'
<1> SUFFICES ASSUME ChainInv, New PROVE ChainInv'
  OBVIOUS
<1>1. PICK n \in SegmentSizes : chain' = [chain EXCEPT !.size = n]
  BY DEF New
<1>2. /\ DOMAIN chain' = ChainFields /\ chain'.size = n /\ chain'.hashes = chain.hashes
      /\ chain'.frames = chain.frames /\ chain'.roots = chain.roots /\ chain'.prev = chain.prev
  BY <1>1 DEF ChainInv, ChainFields
<1>3. chain.roots = <<>> /\ chain.hashes = <<>> /\ n \in Nat \ {0}
  BY ChainAssumption DEF ChainInv, New
<1>4. Len(chain.hashes) = 0
  BY <1>3
<1> QED BY <1>2, <1>3, <1>4 DEF ChainInv

LEMMA AddFrameInv == ChainInv /\ AddFrame => ChainInv'
<1> SUFFICES ASSUME ChainInv, AddFrame PROVE ChainInv'
  OBVIOUS
<1>1. PICK f \in ChainFrames :
        LET h == Hash(f, chain.prev)
            c == [chain EXCEPT !.hashes = Append(@, h), !.frames = Append(@, f), !.prev = h,
                               !.total = @ + 1]
        IN chain' = IF Len(c.hashes) >= c.size THEN Finalized(c) ELSE c
  BY DEF AddFrame
<1> DEFINE h == Hash(f, chain.prev)
           c == [chain EXCEPT !.hashes = Append(@, h), !.frames = Append(@, f), !.prev = h,
                              !.total = @ + 1]
<1>2. /\ DOMAIN c = ChainFields /\ c.size = chain.size /\ c.hashes = Append(chain.hashes, h)
      /\ c.frames = Append(chain.frames, f) /\ c.roots = chain.roots /\ c.prev = h
  BY DEF ChainInv, ChainFields
<1>3. chain' = IF Len(c.hashes) >= c.size THEN Finalized(c) ELSE c
  BY <1>1
<1>4. PICK R : chain.hashes \in Seq(R)
  BY DEF ChainInv
<1>5. PICK Q : chain.roots \in Seq(Q)
  BY DEF ChainInv
<1>6. Links(c.hashes, c.frames, Base(c.roots))
  <2>1. Links(Append(chain.hashes, h), Append(chain.frames, f), Base(chain.roots))
    BY <1>4, LinksAppend DEF ChainInv
  <2> HIDE DEF c, h
  <2> QED BY <1>2, <2>1
<1>7. /\ c.hashes \in Seq(R \cup {h}) /\ c.frames \in Seq(ChainFrames)
      /\ Len(c.hashes) = Len(chain.hashes) + 1 /\ c.hashes[Len(c.hashes)] = h
      /\ Len(chain.hashes) \in Nat /\ c.hashes # <<>>
  <2>1. chain.frames \in Seq(ChainFrames)
    BY DEF ChainInv
  <2> HIDE DEF c, h
  <2> QED BY <1>2, <1>4, <2>1
<1>8. c.size \in Nat \ {0} /\ Len(chain.hashes) < chain.size
  BY <1>2 DEF ChainInv, AddFrame
<1>9. \A i \in 1..Len(c.roots) : c.roots[i].last # Zero
  BY <1>2 DEF ChainInv
<1> HIDE DEF c, h
<1>10. CASE Len(c.hashes) >= c.size
  <2>1. Len(c.hashes) <= c.size
    BY <1>2, <1>7, <1>8
  <2>2. chain' = Finalized(c)
    BY <1>3, <1>10
  <2>3. c.roots \in Seq(Q) /\ c.prev = c.hashes[Len(c.hashes)]
    BY <1>2, <1>5, <1>7
  <2> QED BY <1>2, <1>6, <1>7, <1>8, <1>9, <2>1, <2>2, <2>3, FinalizedInv
<1>11. CASE ~ Len(c.hashes) >= c.size
  <2>1. chain' = c
    BY <1>3, <1>11
  <2>2. Newest' = Newest /\ Trusted' = Trusted
    BY <1>2, <2>1 DEF Newest, Trusted
  <2>3. c.roots # <<>> =>
          /\ RootIsRight(Newest, Trusted)
          /\ Newest.count <= c.size
          /\ Newest.segment = Len(c.roots) - 1
    BY <1>2 DEF ChainInv
  <2>4. Len(c.hashes) < c.size
    BY <1>7, <1>8, <1>11
  <2>5. c.prev = IF c.hashes = <<>> THEN Base(c.roots) ELSE c.hashes[Len(c.hashes)]
    BY <1>2, <1>7
  <2>6. (\E S : c.hashes \in Seq(S)) /\ (\E S : c.roots \in Seq(S))
    BY <1>2, <1>5, <1>7
  <2> QED BY <1>2, <1>6, <1>7, <1>8, <1>9, <2>1, <2>2, <2>3, <2>4, <2>5, <2>6 DEF ChainInv
<1> QED BY <1>10, <1>11

LEMMA BuildRootInv == ChainInv /\ BuildRoot => ChainInv'
<1> SUFFICES ASSUME ChainInv, BuildRoot PROVE ChainInv'
  OBVIOUS
<1>1. chain.hashes # <<>> /\ chain' = Finalized(chain)
  BY DEF BuildRoot
<1>2. PICK R : chain.hashes \in Seq(R)
  BY DEF ChainInv
<1>3. PICK Q : chain.roots \in Seq(Q)
  BY DEF ChainInv
<1>4. chain.size \in Nat \ {0} /\ Len(chain.hashes) < chain.size
  BY <1>1 DEF ChainInv
<1>5. Len(chain.hashes) <= chain.size
  BY <1>2, <1>4, LenProperties
<1>6. /\ DOMAIN chain = ChainFields /\ chain.frames \in Seq(ChainFrames)
      /\ Links(chain.hashes, chain.frames, Base(chain.roots))
      /\ chain.prev = chain.hashes[Len(chain.hashes)]
      /\ \A i \in 1..Len(chain.roots) : chain.roots[i].last # Zero
  BY <1>1 DEF ChainInv
<1> QED BY <1>1, <1>2, <1>3, <1>4, <1>5, <1>6, FinalizedInv

LEMMA ChainStepInv == ChainInv /\ [ChainNext]_chainVars => ChainInv'
<1>1. ChainInv /\ UNCHANGED chainVars => ChainInv'
  BY DEF chainVars, ChainInv, Newest, Trusted
<1> QED BY <1>1, NewInv, AddFrameInv, BuildRootInv DEF ChainNext

\* The inductive invariant of the chain: the buffered hashes are those of the frames since
\* the last root, and each root is that of the segment it is recorded for.
THEOREM ChainCorrect == ChainSpec => []ChainInv
BY ChainInitInv, ChainStepInv, PTL DEF ChainSpec

-----------------------------------------------------------------------------
(* What a verifier accepts. *)

\* The last hash determines as many frames as there are.
LEMMA LastHashBindsFrames ==
  ASSUME NEW n \in Nat \ {0}, NEW prev, NEW a \in [1..n -> ChainFrames], NEW b \in [1..n -> ChainFrames],
         NEW x, NEW y, Len(a) = n, Len(b) = n, Links(x, a, prev), Links(y, b, prev), x[n] = y[n]
  PROVE  a = b
<1>1. ASSUME NEW i \in 1..n, x[i] = y[i]
      PROVE  a[i] = b[i] /\ (i # 1 => x[i - 1] = y[i - 1])
  <2>1. PICK p : p = IF i = 1 THEN prev ELSE x[i - 1]
    OBVIOUS
  <2>2. PICK q : q = IF i = 1 THEN prev ELSE y[i - 1]
    OBVIOUS
  <2>3. x[i] = Hash(a[i], p) /\ y[i] = Hash(b[i], q)
    BY <2>1, <2>2 DEF Links
  <2>4. a[i].index = b[i].index /\ a[i].data = b[i].data /\ p = q
    <3>1. Hash(a[i], p) = Hash(b[i], q)
      BY <1>1, <2>3
    <3> QED BY <3>1, HashBinds
  <2>5. a[i] \in ChainFrames /\ b[i] \in ChainFrames
    OBVIOUS
  <2>6. a[i] = b[i]
    <3> \A f, g \in ChainFrames : f.index = g.index /\ f.data = g.data => f = g
      BY DEF ChainFrames
    <3> QED BY <2>4, <2>5
  <2> QED BY <2>1, <2>2, <2>4, <2>6
<1> DEFINE G == {k \in Nat : n - k \in 1..n => x[n - k] = y[n - k]}
<1>2. 0 \in G
  OBVIOUS
<1>3. \A k \in Nat : k \in G => k + 1 \in G
  <2> TAKE k \in Nat
  <2> HAVE k \in G
  <2>1. ASSUME n - (k + 1) \in 1..n PROVE x[n - (k + 1)] = y[n - (k + 1)]
    <3>1. PICK i : i = n - k
      OBVIOUS
    <3>2. i \in 1..n /\ i # 1 /\ i - 1 = n - (k + 1)
      BY <2>1, <3>1
    <3>3. x[i] = y[i]
      BY <3>1, <3>2
    <3> QED BY <1>1, <3>2, <3>3
  <2>2. k + 1 \in Nat
    OBVIOUS
  <2> QED BY <2>1, <2>2
<1>4. Nat \subseteq G
  <2> HIDE DEF G
  <2> QED BY <1>2, <1>3, NatInductionSet
<1>5. ASSUME NEW i \in 1..n PROVE a[i] = b[i]
  <2>1. n - i \in Nat /\ n - (n - i) = i
    OBVIOUS
  <2>2. x[i] = y[i]
    BY <1>4, <2>1
  <2> QED BY <1>1, <2>2
<1> QED BY <1>5

LEMMA InvAccepts == ChainInv => AcceptsExactlyTheSegment
<1> SUFFICES ASSUME ChainInv, chain.roots # <<>>, chain.hashes = <<>>
             PROVE  /\ \A n \in 1..chain.size : \A f \in [1..n -> ChainFrames] :
                         VerifyChain(Newest, f, Trusted) <=>
                           f = Newest.of /\ Consecutive(f) /\ Newest.segment <= Newest.start
                    /\ \A i \in 1..Newest.count : Merkle([Newest.leaves EXCEPT ![i] = Zero]) # Newest.root
  BY DEF AcceptsExactlyTheSegment
<1> DEFINE r == Newest
           m == Len(r.of)
<1>1. /\ m \in Nat \ {0} /\ r.of = [i \in 1..m |-> r.of[i]] /\ \A i \in 1..m : r.of[i] \in ChainFrames
      /\ Links(r.leaves, r.of, Trusted)
      /\ r.root = Merkle(r.leaves) /\ r.last = r.leaves[m] /\ r.start = r.of[1].index /\ r.count = m
      /\ m <= chain.size /\ r.segment = Len(chain.roots) - 1
  BY DEF ChainInv, RootIsRight
<1>2. r.leaves = [i \in 1..m |-> r.leaves[i]]
  BY <1>1 DEF Links
<1>3. Len(r.leaves) = m
  BY <1>1, <1>2, LengthOf
<1>4. (r.segment = 0) <=> (Trusted = Zero)
  <2>1. PICK Q : chain.roots \in Seq(Q)
    BY DEF ChainInv
  <2>2. PICK k : k = Len(chain.roots)
    OBVIOUS
  <2>3. k \in Nat \ {0}
    BY <2>1, <2>2, LenProperties, EmptySeq
  <2>4. CASE k = 1
    BY <1>1, <2>2, <2>4 DEF Trusted
  <2>5. CASE k # 1
    <3>1. k - 1 \in 1..k /\ k - 1 # 0
      BY <2>3, <2>5
    <3>2. Trusted # Zero
      BY <2>2, <2>5, <3>1 DEF Trusted, ChainInv
    <3> QED BY <1>1, <2>2, <3>1, <3>2
  <2> QED BY <2>4, <2>5
<1> HIDE DEF r, m
<1>5. ASSUME NEW n \in 1..chain.size, NEW f \in [1..n -> ChainFrames]
      PROVE  VerifyChain(r, f, Trusted) <=> f = r.of /\ Consecutive(f) /\ r.segment <= r.start
  <2>0. n \in Nat \ {0} /\ Len(f) = n /\ f \in Seq(ChainFrames) /\ f # <<>>
    BY DEF ChainInv
  <2>1. PICK hashes : hashes = Chained(f, Trusted)
    OBVIOUS
  <2>2. Links(hashes, f, Trusted)
    BY <2>0, <2>1, ChainedLinks
  <2>3. Len(hashes) = n
    <3>1. hashes = [i \in 1..n |-> hashes[i]]
      BY <2>0, <2>2 DEF Links
    <3> QED BY <2>0, <3>1, LengthOf
  <2>4. VerifyChain(r, f, Trusted) <=>
          /\ n = m /\ f[1].index = r.start
          /\ r.segment <= r.start
          /\ Consecutive(f)
          /\ hashes[n] = r.last /\ Merkle(hashes) = r.root
    BY <1>1, <1>4, <2>0, <2>1, <2>3 DEF VerifyChain
  <2>5. ASSUME n = m, hashes[n] = r.last PROVE f = r.of
    <3>1. r.of \in [1..n -> ChainFrames] /\ Len(r.of) = n
      <4>1. r.of \in [1..n -> ChainFrames]
        BY <1>1, <2>5
      <4> QED BY <2>5, <4>1 DEF m
    <3>2. hashes[n] = r.leaves[n]
      BY <1>1, <2>5
    <3> QED BY <1>1, <2>0, <2>2, <3>1, <3>2, LastHashBindsFrames
  <2>6. ASSUME f = r.of
        PROVE  n = m /\ f[1].index = r.start /\ hashes[n] = r.last /\ Merkle(hashes) = r.root
    <3>1. n = m
      BY <2>0, <2>6 DEF m
    <3>2. hashes = r.leaves
      BY <1>1, <2>2, <2>6, LinksUnique
    <3> QED BY <1>1, <2>6, <3>1, <3>2
  <2> QED BY <2>4, <2>5, <2>6
<1>6. ASSUME NEW i \in 1..r.count
      PROVE  Merkle([r.leaves EXCEPT ![i] = Zero]) # r.root
  <2>1. PICK t : t = [r.leaves EXCEPT ![i] = Zero]
    OBVIOUS
  <2>2. i \in 1..m
    BY <1>1
  <2>3. t = [j \in 1..m |-> t[j]] /\ t[i] = Zero
    BY <1>2, <2>1, <2>2
  <2>4. r.leaves[i] # Zero
    <3>1. PICK p : p = IF i = 1 THEN Trusted ELSE r.leaves[i - 1]
      OBVIOUS
    <3>2. r.leaves[i] = Hash(r.of[i], p)
      BY <1>1, <2>2, <3>1 DEF Links, m
    <3> QED BY <3>2, HashIsNotZero
  <2>5. IsLevel(t, m) /\ IsLevel(r.leaves, m) /\ t # r.leaves
    BY <1>1, <1>2, <2>3, <2>4 DEF IsLevel
  <2> QED BY <1>1, <2>1, <2>5, RootBindsLeaves
<1> QED BY <1>5, <1>6 DEF r

\* A verifier that holds a root and the last hash of the segment before accepts the frames
\* of that segment and no others, for every segment size, any frames, and any number of
\* segments closed full or early; and the root binds each of its leaves.
THEOREM ChainBindsItsSegments == ChainSpec => []AcceptsExactlyTheSegment
BY ChainCorrect, InvAccepts, PTL

-----------------------------------------------------------------------------
(* Shards. *)

\* What the k-th of n shards holds.
ShardData(of, n, k) ==
  IF k = 1 THEN {Payload(of)} \cup {Mask(of, j) : j \in 1..(n - 1)} ELSE {Mask(of, k - 1)}

\* How often a is in the strings of s.
Times(s, a) == Cardinality({i \in DOMAIN s : a \in s[i]})

LEMMA XorAllIs ==
  ASSUME NEW s, NEW a
  PROVE  a \in XorAll(s) <=> (\E i \in DOMAIN s : a \in s[i]) /\ Odd(Times(s, a))
BY DEF XorAll, Times

\* An atom that one string holds is in the result.
LEMMA HeldOnce ==
  ASSUME NEW s, NEW a, NEW i \in DOMAIN s, a \in s[i],
         \A j \in DOMAIN s : a \in s[j] => j = i
  PROVE  a \in XorAll(s)
<1>1. {j \in DOMAIN s : a \in s[j]} = {i}
  OBVIOUS
<1>2. Times(s, a) = 1
  BY <1>1, FS_Singleton DEF Times
<1>3. Odd(1)
  BY DEF Odd
<1> QED BY <1>2, <1>3, XorAllIs

\* An atom that two strings hold is not.
LEMMA HeldTwice ==
  ASSUME NEW s, NEW a, NEW i \in DOMAIN s, NEW k \in DOMAIN s, i # k, a \in s[i], a \in s[k],
         \A j \in DOMAIN s : a \in s[j] => j \in {i, k}
  PROVE  a \notin XorAll(s)
<1>1. {j \in DOMAIN s : a \in s[j]} = {i} \cup {k}
  OBVIOUS
<1>2. Cardinality({i} \cup {k}) = 2
  <2>1. IsFiniteSet({i}) /\ Cardinality({i}) = 1 /\ k \notin {i}
    BY FS_Singleton
  <2>2. Cardinality({i} \cup {k}) = IF k \in {i} THEN Cardinality({i}) ELSE Cardinality({i}) + 1
    BY <2>1, FS_AddElement, Zenon
  <2> QED BY <2>1, <2>2
<1>3. ~ Odd(2)
  BY DEF Odd
<1> QED BY <1>1, <1>2, <1>3, XorAllIs DEF Times

\* An atom that is held and not in the result is held by another string too.
LEMMA HeldByAnother ==
  ASSUME NEW s, NEW a, NEW i \in DOMAIN s, a \in s[i], a \notin XorAll(s)
  PROVE  \E j \in DOMAIN s : j # i /\ a \in s[j]
BY HeldOnce

LEMMA AtomsDiffer ==
  /\ \A of, id, j : Payload(of) # Mask(id, j)
  /\ \A of, id : Payload(of) = Payload(id) => of = id
  /\ \A of, id, i, j : Mask(of, i) = Mask(id, j) => of = id /\ i = j
BY DEF Payload, Mask

LEMMA SplitIs ==
  ASSUME NEW of, NEW n \in Nat \ {0}, NEW len, NEW k \in 1..n
  PROVE  Split(of, n, len)[k] = [index |-> k - 1, total |-> n, len |-> len, data |-> ShardData(of, n, k)]
<1> DEFINE masks == [j \in 1..(n - 1) |-> {Mask(of, j)}]
           s == <<{Payload(of)}>> \o masks
<1>1. Len(masks) = n - 1 /\ masks \in Seq({{Mask(of, j)} : j \in 1..(n - 1)})
  <2>1. n - 1 \in Nat
    OBVIOUS
  <2>2. masks \in [1..(n - 1) -> {{Mask(of, j)} : j \in 1..(n - 1)}]
    OBVIOUS
  <2> HIDE DEF masks
  <2>3. masks \in Seq({{Mask(of, j)} : j \in 1..(n - 1)})
    BY <2>1, <2>2, IsASeq
  <2>4. Len(masks) = n - 1
    BY <2>1, <2>2, <2>3, LenProperties
  <2> QED BY <2>3, <2>4
<1>2. \A i \in 1..(n - 1) : masks[i] = {Mask(of, i)}
  OBVIOUS
<1> HIDE DEF masks
<1>3. /\ DOMAIN s = 1..n /\ s[1] = {Payload(of)}
      /\ \A i \in 1..n : i # 1 => s[i] = {Mask(of, i - 1)}
  <2>1. PICK T : T = {{Mask(of, j)} : j \in 1..(n - 1)} \cup {{Payload(of)}}
    OBVIOUS
  <2>2. masks \in Seq(T) /\ <<{Payload(of)}>> \in Seq(T) /\ Len(<<{Payload(of)}>>) = 1
    <3>1. {Payload(of)} \in T
      BY <2>1
    <3>2. masks \in Seq(T)
      BY <1>1, <2>1
    <3> QED BY <3>1, <3>2
  <2>3. Len(s) = 1 + (n - 1) /\ s \in Seq(T)
    BY <1>1, <2>2, ConcatProperties
  <2>4. \A i \in 1..(1 + (n - 1)) : s[i] = IF i <= 1 THEN <<{Payload(of)}>>[i] ELSE masks[i - 1]
    BY <1>1, <2>2, ConcatProperties
  <2> HIDE DEF s
  <2>5. DOMAIN s = 1..n
    BY <2>3, LenProperties
  <2>6. \A i \in 1..n : i # 1 => i - 1 \in 1..(n - 1) /\ ~ i <= 1
    OBVIOUS
  <2>7. 1 \in 1..(1 + (n - 1)) /\ 1 + (n - 1) = n
    OBVIOUS
  <2> QED BY <1>2, <2>4, <2>5, <2>6, <2>7
<1> HIDE DEF s
<1>4. XorAll(s) = ShardData(of, n, 1)
  <2>1. ASSUME NEW a \in XorAll(s) PROVE a \in ShardData(of, n, 1)
    <3>1. PICK i \in DOMAIN s : a \in s[i]
      BY <2>1, XorAllIs
    <3>2. i # 1 => i - 1 \in 1..(n - 1)
      BY <1>3, <3>1
    <3> QED BY <1>3, <3>1, <3>2 DEF ShardData
  <2>2. Payload(of) \in XorAll(s)
    <3>1. 1 \in DOMAIN s
      BY <1>3
    <3> QED BY <1>3, <3>1, HeldOnce, AtomsDiffer
  <2>3. ASSUME NEW j \in 1..(n - 1) PROVE Mask(of, j) \in XorAll(s)
    <3>1. j + 1 \in DOMAIN s /\ j + 1 # 1 /\ (j + 1) - 1 = j
      BY <1>3
    <3>2. Mask(of, j) \in s[j + 1]
      BY <1>3, <3>1
    <3>3. \A i \in DOMAIN s : Mask(of, j) \in s[i] => i = j + 1
      <4>1. TAKE i \in DOMAIN s
      <4>2. HAVE Mask(of, j) \in s[i]
      <4>3. i # 1
        BY <1>3, <4>2, AtomsDiffer
      <4>4. i - 1 = j
        BY <1>3, <4>2, <4>3, AtomsDiffer
      <4> QED BY <1>3, <4>4
    <3> QED BY <3>1, <3>2, <3>3, HeldOnce
  <2> QED BY <2>1, <2>2, <2>3 DEF ShardData
<1>5. Split(of, n, len)[k] = [index |-> k - 1, total |-> n, len |-> len,
                              data |-> IF k = 1 THEN XorAll(s) ELSE {Mask(of, k - 1)}]
  BY DEF Split, s, masks
<1> QED BY <1>4, <1>5 DEF ShardData

\* Which shards hold an atom.
LEMMA HoldsAtom ==
  ASSUME NEW of, NEW id, NEW n, NEW k
  PROVE  /\ Payload(of) \in ShardData(id, n, k) <=> of = id /\ k = 1
         /\ \A j : Mask(of, j) \in ShardData(id, n, k) <=>
                     of = id /\ ((k = 1 /\ j \in 1..(n - 1)) \/ (k # 1 /\ j = k - 1))
BY AtomsDiffer DEF ShardData

LEMMA MaskHeld ==
  ASSUME NEW of, NEW id, NEW n, NEW k, NEW j, NEW d, d = ShardData(id, n, k), Mask(of, j) \in d
  PROVE  of = id /\ (k = 1 \/ j = k - 1)
BY HoldsAtom

\* The shards of a payload, each once, are the payload.
LEMMA WholeIsPayload ==
  ASSUME NEW of, NEW n \in Nat \ {0, 1}, NEW s, NEW place \in Bijection(DOMAIN s, 1..n),
         \A i \in DOMAIN s : s[i] = ShardData(of, n, place[i])
  PROVE  XorAll(s) = {Payload(of)}
<1>0. /\ \A i \in DOMAIN s : place[i] \in 1..n
      /\ \A i, j \in DOMAIN s : place[i] = place[j] => i = j
      /\ \A k \in 1..n : \E i \in DOMAIN s : place[i] = k
  BY DEF Bijection, Injection, Surjection, IsInjective
<1>1. PICK first \in DOMAIN s : place[first] = 1
  BY <1>0
<1>2. Payload(of) \in XorAll(s)
  <2>1. Payload(of) \in s[first]
    BY <1>1, HoldsAtom
  <2>2. \A i \in DOMAIN s : Payload(of) \in s[i] => i = first
    BY <1>0, <1>1, HoldsAtom
  <2> QED BY <2>1, <2>2, HeldOnce
<1>3. ASSUME NEW j \in 1..(n - 1) PROVE Mask(of, j) \notin XorAll(s)
  <2>1. j + 1 \in 1..n /\ j + 1 # 1 /\ (j + 1) - 1 = j
    OBVIOUS
  <2>2. PICK other \in DOMAIN s : place[other] = j + 1
    BY <1>0, <2>1
  <2>3. Mask(of, j) \in s[first] /\ Mask(of, j) \in s[other] /\ first # other
    BY <1>1, <2>1, <2>2, HoldsAtom
  <2>4. \A i \in DOMAIN s : Mask(of, j) \in s[i] => i \in {first, other}
    <3> TAKE i \in DOMAIN s
    <3> HAVE Mask(of, j) \in s[i]
    <3>0. s[i] = ShardData(of, n, place[i])
      OBVIOUS
    <3>1. place[i] = 1 \/ j = place[i] - 1
      BY <3>0, MaskHeld
    <3>2. place[i] = 1 \/ place[i] = j + 1
      BY <1>0, <3>1
    <3> QED BY <1>0, <1>1, <2>2, <3>2
  <2> QED BY <2>3, <2>4, HeldTwice
<1>4. ASSUME NEW a \in XorAll(s) PROVE a = Payload(of)
  <2>1. PICK i \in DOMAIN s : a \in s[i]
    BY <1>4, XorAllIs
  <2>2. a = Payload(of) \/ \E j \in 1..(n - 1) : a = Mask(of, j)
    <3>1. place[i] # 1 => place[i] - 1 \in 1..(n - 1)
      BY <1>0
    <3> QED BY <2>1, <3>1 DEF ShardData
  <2> QED BY <1>3, <1>4, <2>2
<1> QED BY <1>2, <1>4

-----------------------------------------------------------------------------
(* The collection. *)

\* r is the k-th shard of group `of`, which may be split.
IsShard(r, of, k) ==
  /\ of \in DOMAIN Groups /\ Groups[of][1] \in 2..8 /\ Groups[of][2] # 0
  /\ k \in 1..Groups[of][1]
  /\ r = [index |-> k - 1, total |-> Groups[of][1], len |-> Groups[of][2],
          data |-> ShardData(of, Groups[of][1], k)]

PileInv ==
  /\ \E R : shards \in Seq(R)
  /\ \A i \in DOMAIN shards : \E of, k : IsShard(shards[i], of, k)

LEMMA PileInitInv == PileInit => PileInv
<1> SUFFICES ASSUME PileInit PROVE PileInv
  OBVIOUS
<1>1. shards \in Seq({}) /\ DOMAIN shards = {}
  BY DEF PileInit
<1> QED BY <1>1 DEF PileInv

LEMMA PileStepInv == PileInv /\ [PileNext]_pileVars => PileInv'
<1> SUFFICES ASSUME PileInv, [PileNext]_pileVars PROVE PileInv'
  OBVIOUS
<1>1. CASE UNCHANGED pileVars
  BY <1>1 DEF pileVars, PileInv
<1>2. CASE Collect
  <2>1. PICK of \in DOMAIN Groups :
          /\ ~ SplitRefused(Groups[of][1], Groups[of][2])
          /\ \E i \in 1..Groups[of][1] :
               shards' = Append(shards, Split(of, Groups[of][1], Groups[of][2])[i])
    BY <1>2 DEF Collect
  <2>2. PICK k \in 1..Groups[of][1] :
          shards' = Append(shards, Split(of, Groups[of][1], Groups[of][2])[k])
    BY <2>1
  <2>3. PICK r : r = Split(of, Groups[of][1], Groups[of][2])[k]
    OBVIOUS
  <2>4. Groups[of][1] \in Nat \ {0} /\ Groups[of][1] \in 2..8 /\ Groups[of][2] # 0
    BY <2>1, GroupsAssumption DEF SplitRefused
  <2>5. IsShard(r, of, k)
    BY <2>2, <2>3, <2>4, SplitIs DEF IsShard
  <2>6. PICK R : shards \in Seq(R)
    BY DEF PileInv
  <2>7. /\ shards' \in Seq(R \cup {r}) /\ DOMAIN shards' = 1..(Len(shards) + 1)
        /\ DOMAIN shards = 1..Len(shards) /\ Len(shards) \in Nat
        /\ shards'[Len(shards) + 1] = r /\ \A i \in 1..Len(shards) : shards'[i] = shards[i]
    <3>1. shards' = Append(shards, r)
      BY <2>2, <2>3
    <3> QED BY <2>6, <3>1
  <2>8. \A i \in DOMAIN shards' : \E id, j : IsShard(shards'[i], id, j)
    <3> TAKE i \in DOMAIN shards'
    <3>1. CASE i = Len(shards) + 1
      BY <2>5, <2>7, <3>1
    <3>2. CASE i # Len(shards) + 1
      <4>1. i \in DOMAIN shards /\ shards'[i] = shards[i]
        BY <2>7, <3>2
      <4> QED BY <4>1 DEF PileInv
    <3> QED BY <3>1, <3>2
  <2> QED BY <2>7, <2>8 DEF PileInv
<1> QED BY <1>1, <1>2 DEF PileNext

\* The indices of what is accepted are all there.
LEMMA CompleteHasAll ==
  ASSUME NEW R, NEW s \in Seq(R), Complete(s), \A i \in DOMAIN s : s[i].index \in Nat
  PROVE  {s[i].index : i \in DOMAIN s} = 0..(Len(s) - 1)
<1> DEFINE n == Len(s)
           f == [i \in 1..n |-> s[i].index]
<1>1. n \in Nat /\ DOMAIN s = 1..n /\ n = s[1].total /\ n \in 2..8
  BY LenProperties DEF Complete
<1>2. \A i \in DOMAIN s : s[i].index < n
  BY <1>1 DEF Complete
<1>3. \A i \in 1..n : s[i].index \in 0..(n - 1)
  BY <1>1, <1>2
<1>4. \A i, j \in DOMAIN s : s[i].index = s[j].index => i = j
  BY DEF Complete
<1> HIDE DEF n
<1>5. f \in Injection(1..n, 0..(n - 1))
  BY <1>1, <1>3, <1>4 DEF Injection, IsInjective
<1>6. /\ IsFiniteSet(0..(n - 1)) /\ Cardinality(0..(n - 1)) = n
      /\ Cardinality(1..n) = n
  <2>1. 0 \in Int /\ 1 \in Int /\ n \in Int /\ n - 1 \in Int /\ ~ 0 > n - 1 /\ ~ 1 > n
        /\ (n - 1) - 0 + 1 = n /\ n - 1 + 1 = n
    BY <1>1
  <2>2. IsFiniteSet(0..(n - 1)) /\ Cardinality(0..(n - 1)) = (n - 1) - 0 + 1
    BY <2>1, FS_Interval
  <2>3. Cardinality(1..n) = n - 1 + 1
    BY <2>1, FS_Interval
  <2> QED BY <2>1, <2>2, <2>3
<1>7. f \in Surjection(1..n, 0..(n - 1))
  BY <1>5, <1>6, FS_Injection, FS_Interval, <1>1
<1>8. \A k \in 0..(n - 1) : \E i \in 1..n : s[i].index = k
  BY <1>7 DEF Surjection
<1>9. {s[i].index : i \in 1..n} = 0..(n - 1)
  BY <1>3, <1>8
<1> QED BY <1>1, <1>9 DEF n

\* The shards of a group: which they are, how many.
GroupShards(of) == {Split(of, Groups[of][1], Groups[of][2])[k] : k \in 1..Groups[of][1]}

LEMMA GroupShardsIs ==
  ASSUME NEW of \in DOMAIN Groups
  PROVE  /\ Groups[of][1] \in Nat \ {0}
         /\ \A k \in 1..Groups[of][1] :
              /\ Split(of, Groups[of][1], Groups[of][2])[k] \in GroupShards(of)
              /\ Split(of, Groups[of][1], Groups[of][2])[k] =
                   [index |-> k - 1, total |-> Groups[of][1], len |-> Groups[of][2],
                    data |-> ShardData(of, Groups[of][1], k)]
         /\ IsFiniteSet(GroupShards(of)) /\ Cardinality(GroupShards(of)) = Groups[of][1]
<1>1. PICK n : n = Groups[of][1]
  OBVIOUS
<1>2. PICK f : f = [k \in 1..n |-> Split(of, n, Groups[of][2])[k]]
  OBVIOUS
<1>3. n \in Nat \ {0}
  BY <1>1, GroupsAssumption
<1>4. \A k \in 1..n : Split(of, n, Groups[of][2])[k] =
        [index |-> k - 1, total |-> n, len |-> Groups[of][2], data |-> ShardData(of, n, k)]
  BY <1>3, SplitIs
<1>5. \A k \in 1..n : f[k].index = k - 1
  <2> TAKE k \in 1..n
  <2>1. f[k] = [index |-> k - 1, total |-> n, len |-> Groups[of][2], data |-> ShardData(of, n, k)]
    BY <1>2, <1>4
  <2> QED BY <2>1
<1>6. f \in [1..n -> GroupShards(of)] /\ \A x \in GroupShards(of) : \E k \in 1..n : f[k] = x
  BY <1>1, <1>2 DEF GroupShards
<1>7. f \in Bijection(1..n, GroupShards(of))
  <2>1. \A i, j \in 1..n : f[i] = f[j] => i = j
    <3> SUFFICES ASSUME NEW i \in 1..n, NEW j \in 1..n, f[i] = f[j] PROVE i = j
      OBVIOUS
    <3>1. i - 1 = j - 1
      BY <1>5
    <3> QED BY <3>1, <1>3
  <2> QED BY <1>6, <2>1 DEF Bijection, Injection, Surjection, IsInjective
<1>8. IsFiniteSet(1..n) /\ Cardinality(1..n) = n
  <2>1. 1 \in Int /\ n \in Int /\ ~ 1 > n /\ n - 1 + 1 = n
    BY <1>3
  <2> QED BY <2>1, FS_Interval
<1>9. IsFiniteSet(GroupShards(of)) /\ Cardinality(GroupShards(of)) = n
  <2>1. ExistsBijection(1..n, GroupShards(of))
    BY <1>7 DEF ExistsBijection
  <2> QED BY <1>8, <2>1, FS_Bijection
<1> QED BY <1>1, <1>3, <1>4, <1>9 DEF GroupShards

\* All the shards of a group, each once, are accepted and give its payload.
LEMMA WholeIsAccepted ==
  ASSUME NEW of \in DOMAIN Groups, PileInv, Len(shards) = Cardinality(GroupShards(of)),
         {shards[i] : i \in DOMAIN shards} = GroupShards(of)
  PROVE  Complete(shards) /\ XorAll([i \in DOMAIN shards |-> shards[i].data]) = {Payload(of)}
<1>1. PICK n, len, s : n = Groups[of][1] /\ len = Groups[of][2] /\ s = shards
  OBVIOUS
<1>2. n \in Nat \ {0} /\ Len(s) = n
  BY <1>1, GroupShardsIs
<1>3. DOMAIN s = 1..n /\ s # <<>>
  <2>1. PICK R : s \in Seq(R)
    BY <1>1 DEF PileInv
  <2> QED BY <1>2, <2>1, LenProperties
<1>4. PICK place : place = [i \in 1..n |-> s[i].index + 1]
  OBVIOUS
<1>5. \A k \in 1..n : \E i \in 1..n : s[i] = [index |-> k - 1, total |-> n, len |-> len, data |-> ShardData(of, n, k)]
  BY <1>1, <1>3, GroupShardsIs
<1>6. \A i \in 1..n : \E k \in 1..n : s[i] = [index |-> k - 1, total |-> n, len |-> len, data |-> ShardData(of, n, k)]
  <2> TAKE i \in 1..n
  <2>1. s[i] \in GroupShards(of)
    BY <1>1, <1>3
  <2>2. PICK k \in 1..n : s[i] = Split(of, n, len)[k]
    BY <1>1, <2>1 DEF GroupShards
  <2> QED BY <1>1, <2>2, GroupShardsIs
<1>7. \A i \in 1..n : /\ place[i] \in 1..n /\ s[i].index = place[i] - 1 /\ s[i].total = n /\ s[i].len = len
                      /\ s[i].data = ShardData(of, n, place[i])
  <2> TAKE i \in 1..n
  <2>1. PICK k \in 1..n : s[i] = [index |-> k - 1, total |-> n, len |-> len, data |-> ShardData(of, n, k)]
    BY <1>6
  <2>2. s[i].index = k - 1 /\ s[i].total = n /\ s[i].len = len /\ s[i].data = ShardData(of, n, k)
    BY <2>1
  <2>3. place[i] = s[i].index + 1
    BY <1>4
  <2>4. place[i] = k
    BY <1>2, <2>2, <2>3
  <2> QED BY <2>2, <2>4
<1>8. place \in Surjection(1..n, 1..n)
  <2>1. \A k \in 1..n : \E i \in 1..n : place[i] = k
    <3> TAKE k \in 1..n
    <3>1. PICK i \in 1..n : s[i] = [index |-> k - 1, total |-> n, len |-> len, data |-> ShardData(of, n, k)]
      BY <1>5
    <3>2. s[i].index = k - 1
      BY <3>1
    <3>3. place[i] = k
      BY <1>2, <1>4, <3>2
    <3> QED BY <3>3
  <2>2. place \in [1..n -> 1..n]
    BY <1>4, <1>7
  <2> QED BY <2>1, <2>2 DEF Surjection
<1>9. place \in Bijection(1..n, 1..n)
  <2>1. IsFiniteSet(1..n)
    BY <1>2, FS_Interval
  <2> QED BY <1>8, <2>1, FS_SurjSameCardinalityImpliesInj DEF Bijection
<1>10. n \in 2..8 /\ len # 0
  <2>1. 1 \in DOMAIN shards /\ 1 \in 1..n
    BY <1>1, <1>2, <1>3
  <2>2. PICK id, k : IsShard(shards[1], id, k)
    BY <2>1 DEF PileInv
  <2>3. shards[1].total = Groups[id][1] /\ shards[1].len = Groups[id][2] /\ Groups[id][1] \in 2..8 /\ Groups[id][2] # 0
    BY <2>2 DEF IsShard
  <2> QED BY <1>1, <1>7, <2>1, <2>3
<1>11. Complete(s)
  <2>1. 1 \in 1..n /\ s[1].total = n /\ s[1].len = len
    BY <1>2, <1>7
  <2>2. \A i \in 1..n : s[i].index < n
    BY <1>2, <1>7
  <2>3. \A i, j \in 1..n : s[i].index = s[j].index => i = j
    <3> SUFFICES ASSUME NEW i \in 1..n, NEW j \in 1..n, s[i].index = s[j].index PROVE i = j
      OBVIOUS
    <3>1. place[i] = place[j]
      BY <1>4
    <3> QED BY <1>9, <3>1 DEF Bijection, Injection, IsInjective
  <2> QED BY <1>2, <1>3, <1>7, <1>10, <2>1, <2>2, <2>3 DEF Complete
<1>12. XorAll([i \in DOMAIN s |-> s[i].data]) = {Payload(of)}
  <2>1. PICK t : t = [i \in DOMAIN s |-> s[i].data]
    OBVIOUS
  <2>2. DOMAIN t = 1..n /\ \A i \in DOMAIN t : t[i] = ShardData(of, n, place[i])
    BY <1>3, <1>7, <2>1
  <2>3. n \in Nat \ {0, 1}
    BY <1>10
  <2>4. XorAll(t) = {Payload(of)}
    BY <1>9, <2>2, <2>3, WholeIsPayload
  <2> QED BY <2>1, <2>4
<1> QED BY <1>1, <1>11, <1>12

\* What is accepted and gives a payload is all the shards of that payload: each
\* of its masks is in the first shard and cancelled only by its own.
LEMMA AcceptedIsWhole ==
  ASSUME NEW of \in DOMAIN Groups, PileInv, Complete(shards),
         XorAll([i \in DOMAIN shards |-> shards[i].data]) = {Payload(of)}
  PROVE  /\ Len(shards) = Cardinality(GroupShards(of))
         /\ {shards[i] : i \in DOMAIN shards} = GroupShards(of)
<1>1. PICK n, len, s, t : /\ n = Groups[of][1] /\ len = Groups[of][2] /\ s = shards
                          /\ t = [i \in DOMAIN s |-> s[i].data]
  OBVIOUS
<1>2. DOMAIN t = DOMAIN s /\ \A i \in DOMAIN s : t[i] = s[i].data
  BY <1>1
<1>3. n \in Nat \ {0} /\ n = Cardinality(GroupShards(of))
  BY <1>1, GroupShardsIs
<1>4. XorAll(t) = {Payload(of)} /\ Complete(s)
  BY <1>1
<1>5. ASSUME NEW i \in DOMAIN s, NEW id, NEW k, IsShard(s[i], id, k), id = of
      PROVE  /\ s[i] = [index |-> k - 1, total |-> n, len |-> len, data |-> ShardData(of, n, k)]
             /\ k \in 1..n
  BY <1>1, <1>5 DEF IsShard
<1>6. \A i \in DOMAIN s : \E id, k : IsShard(s[i], id, k) /\ t[i] = ShardData(id, Groups[id][1], k) /\ k \in Nat \ {0}
  <2> TAKE i \in DOMAIN s
  <2>1. PICK id, k : IsShard(s[i], id, k)
    BY <1>1 DEF PileInv
  <2>2. s[i].data = ShardData(id, Groups[id][1], k) /\ k \in 1..Groups[id][1] /\ Groups[id][1] \in 2..8
    BY <2>1 DEF IsShard
  <2> QED BY <1>2, <2>1, <2>2
<1>7. PICK first \in DOMAIN s : Payload(of) \in t[first]
  <2>1. Payload(of) \in XorAll(t)
    BY <1>4
  <2> QED BY <1>2, <2>1, XorAllIs
<1>8. /\ s[first] = [index |-> 0, total |-> n, len |-> len, data |-> ShardData(of, n, 1)]
      /\ t[first] = ShardData(of, n, 1)
  <2>1. PICK id, k : IsShard(s[first], id, k) /\ t[first] = ShardData(id, Groups[id][1], k)
    BY <1>6
  <2>2. id = of /\ k = 1
    BY <1>7, <2>1, HoldsAtom
  <2>3. s[first] = [index |-> k - 1, total |-> n, len |-> len, data |-> ShardData(of, n, k)]
    BY <1>5, <2>1, <2>2
  <2>4. k - 1 = 0
    BY <2>2
  <2> QED BY <2>1, <2>2, <2>3, <2>4, <1>1
<1>9. Len(s) = n /\ DOMAIN s = 1..n
  <2>1. PICK R : s \in Seq(R)
    BY <1>1 DEF PileInv
  <2>2. s[first].total = s[1].total /\ Len(s) = s[1].total
    BY <1>4 DEF Complete
  <2>3. s[first].total = n
    BY <1>8
  <2> QED BY <2>1, <2>2, <2>3, LenProperties
<1>10. \A i, j \in DOMAIN s : s[i].index = s[j].index => i = j
  BY <1>4 DEF Complete
<1>11. \A k \in 1..n : \E i \in DOMAIN s :
         s[i] = [index |-> k - 1, total |-> n, len |-> len, data |-> ShardData(of, n, k)]
  <2> TAKE k \in 1..n
  <2>1. CASE k = 1
    <3>1. k - 1 = 0
      BY <2>1
    <3> QED BY <1>8, <2>1, <3>1
  <2>2. CASE k # 1
    <3>1. k - 1 \in 1..(n - 1) /\ k - 1 # 0
      BY <1>3, <2>2
    <3>2. Mask(of, k - 1) \in t[first]
      BY <1>8, <3>1, HoldsAtom
    <3>3. Mask(of, k - 1) \notin XorAll(t)
      BY <1>4, AtomsDiffer
    <3>4. PICK i \in DOMAIN s : i # first /\ Mask(of, k - 1) \in t[i]
      BY <1>2, <3>2, <3>3, HeldByAnother
    <3>5. PICK id, m : IsShard(s[i], id, m) /\ t[i] = ShardData(id, Groups[id][1], m) /\ m \in Nat \ {0}
      BY <1>6
    <3>6. id = of /\ (m = 1 \/ k - 1 = m - 1)
      BY <3>4, <3>5, MaskHeld
    <3>7. s[i] = [index |-> m - 1, total |-> n, len |-> len, data |-> ShardData(of, n, m)]
      BY <1>5, <3>5, <3>6
    <3>8. m # 1
      <4>1. SUFFICES ASSUME m = 1 PROVE FALSE
        OBVIOUS
      <4>2. m - 1 = 0
        BY <4>1
      <4>3. s[i].index = s[first].index
        BY <1>8, <3>7, <4>2
      <4> QED BY <1>10, <3>4, <4>3
    <3>9. m = k
      BY <3>5, <3>6, <3>8
    <3> QED BY <3>7, <3>9
  <2> QED BY <2>1, <2>2
<1>12. GroupShards(of) \subseteq {s[i] : i \in DOMAIN s}
  <2> SUFFICES ASSUME NEW x \in GroupShards(of) PROVE \E i \in DOMAIN s : s[i] = x
    OBVIOUS
  <2>1. PICK k \in 1..n : x = Split(of, n, len)[k]
    BY <1>1 DEF GroupShards
  <2>2. x = [index |-> k - 1, total |-> n, len |-> len, data |-> ShardData(of, n, k)]
    BY <1>1, <2>1, GroupShardsIs
  <2> QED BY <1>11, <2>2
<1>13. ASSUME NEW i \in DOMAIN s PROVE s[i] \in GroupShards(of)
  <2>1. PICK id, m : IsShard(s[i], id, m)
    BY <1>6, <1>13
  <2>2. s[i].index = m - 1 /\ m \in Nat \ {0}
    BY <2>1 DEF IsShard
  <2>3. s[i].index < n
    <3>1. s[i].index < s[1].total /\ Len(s) = s[1].total
      BY <1>4, <1>13 DEF Complete
    <3> QED BY <1>9, <3>1
  <2>4. m \in 1..n
    BY <1>3, <2>2, <2>3
  <2>5. PICK j \in DOMAIN s : s[j] = [index |-> m - 1, total |-> n, len |-> len, data |-> ShardData(of, n, m)]
    BY <1>11, <2>4
  <2>6. s[j].index = m - 1
    BY <2>5
  <2>7. i = j
    BY <1>10, <1>13, <2>2, <2>6
  <2> QED BY <1>1, <2>4, <2>5, <2>7, GroupShardsIs
<1> QED BY <1>1, <1>3, <1>9, <1>12, <1>13

LEMMA PileRecovers == PileInv => RecoversExactly
<1> SUFFICES ASSUME PileInv PROVE RecoversExactly
  OBVIOUS
<1>1. PICK got : got = Reconstruct(shards)
  OBVIOUS
<1>2. /\ Complete(shards) => ~ got.failed /\ got.data = XorAll([i \in DOMAIN shards |-> shards[i].data])
      /\ ~ Complete(shards) => got.failed
  BY <1>1 DEF Reconstruct, Failed
<1>3. ASSUME NEW of \in DOMAIN Groups
      PROVE  /\ Len(shards) = Cardinality(GroupShards(of))
             /\ {shards[i] : i \in DOMAIN shards} = GroupShards(of)
             <=> ~ got.failed /\ got.data = {Payload(of)}
  BY <1>2, <1>3, WholeIsAccepted, AcceptedIsWhole
<1>4. ASSUME Complete(shards)
      PROVE  {shards[i].index : i \in DOMAIN shards} = 0..(Len(shards) - 1)
  <2>1. PICK R : shards \in Seq(R)
    BY DEF PileInv
  <2>2. ASSUME NEW i \in DOMAIN shards PROVE shards[i].index \in Nat
    <3>1. PICK of, k : IsShard(shards[i], of, k)
      BY <2>2 DEF PileInv
    <3>2. shards[i].index = k - 1 /\ k \in 1..Groups[of][1] /\ Groups[of][1] \in 2..8
      BY <3>1 DEF IsShard
    <3> QED BY <3>2
  <2> QED BY <1>4, <2>1, <2>2, CompleteHasAll
<1> QED BY <1>1, <1>2, <1>3, <1>4 DEF RecoversExactly, GroupShards

-----------------------------------------------------------------------------
(* The theorem. *)

\* A collection of shards, in any order, of any payloads, missing or repeated, is
\* accepted and gives a payload exactly when it is that payload's shards, each once.
THEOREM ShardsRecoverExactly == PileSpec => []RecoversExactly
<1>1. PileSpec => []PileInv
  BY PileInitInv, PileStepInv, PTL DEF PileSpec
<1> QED BY <1>1, PileRecovers, PTL

-----------------------------------------------------------------------------
(* Files and commands. *)

CmdFields == {"pc", "req", "part", "reads", "revoked", "saw", "status"}
CarrierFields == {"is", "image", "kernel", "place", "bits", "data", "len", "errs", "front", "by"}

\* The commands that encode: only they have payloads.
Encoding == {c \in Encoders : cmds[c].req.cmd = "encode"}

IsCarrier(f, E) ==
  /\ f.is = "carrier" /\ DOMAIN f = CarrierFields /\ f.errs \in Nat
  /\ \A c : Payload(c) \in f.data => c \in E

FileOk(f, E) == f = Absent \/ f.is = "key" \/ IsCarrier(f, E)

\* The same but for errors in the payload; and with no more of these.
Alike(f, g) ==
  /\ f.is = g.is /\ f.by = g.by
  /\ f.is = "carrier" =>
       /\ f.image = g.image /\ f.kernel = g.kernel /\ f.place = g.place /\ f.bits = g.bits
       /\ f.data = g.data /\ f.len = g.len /\ f.front = g.front
NoMore(f, g) == Alike(f, g) /\ (f.is = "carrier" => f.errs <= g.errs)

\* What command c, asked for r, writes as its i-th file.
Made(c, r, i) ==
  IF r.cmd = "encode"
    THEN [Carrier(r.image, r.kernel, r.place, r.bits) EXCEPT
            !.data = IF r.spread = 1 THEN {Payload(c)} ELSE ShardData(c, r.spread, i),
            !.len = Length(r), !.by = c]
    ELSE [is |-> "key", by |-> c]

FileOf(r, i) == <<r.base, Parts(r)[i]>>
Sounding(r) == (r.image \in Sounds) <=> (r.kernel = "lsb_audio")
May(r) == r.cmd = "encode" => Admitted(r) /\ Sounding(r)

\* c writes, or has written.
Running(c, s) == c \in Encoders /\ (s.pc \in {"write", "read"} \/ s.status = "ok" \/ s.part > 1)
Wrote(s, i) == i < s.part \/ s.pc = "read" \/ s.status = "ok"
Won(c, s) == c \in Encoders /\ s.part > 1

\* The state s of command c.
CmdOk(c, s) ==
  /\ DOMAIN s = CmdFields
  /\ s.pc \in {"idle", "write", "read", "done"}
  /\ s.pc = "idle" => s = Idle
  /\ s.pc # "done" => s.status = "none"
  /\ c \in Encoders /\ s.pc # "idle" => s.req \in EncodeRequests \cup KeyRequests /\ s.part \in Nat \ {0}
  /\ c \in Verifiers /\ s.pc # "idle" => s.req \in VerifyRequests /\ s.pc # "write"
  /\ Running(c, s) => May(s.req) /\ s.part \in 1..Len(Parts(s.req))
  /\ c \in Encoders /\ s.pc = "read" => s.req.cmd = "encode"
  /\ c \in Verifiers /\ s.pc = "read" => Admitted(s.req)
  /\ s.status = "ok" => c \in Encoders

\* What has been written is there.
Kept(c, s, fs, gone) ==
  \A i \in 1..Len(Parts(s.req)) :
    Running(c, s) /\ Wrote(s, i) =>
      /\ fs[FileOf(s.req, i)] # Absent
      /\ FileOf(s.req, i) \notin gone => Alike(Made(c, s.req, i), fs[FileOf(s.req, i)])

\* A file of a group is of a command that has written the first of the group.
Owned(n) ==
  n \notin touched /\ files[n] # Absent /\ n[2] # 0 =>
    \E c \in Encoders : /\ files[n].by = c /\ Won(c, cmds[c])
                        /\ \E i \in 1..Len(Parts(cmds[c].req)) : n = FileOf(cmds[c].req, i)

WonAlone ==
  \A c, d \in Encoders :
    Won(c, cmds[c]) /\ Won(d, cmds[d]) /\ FileOf(cmds[c].req, 1) = FileOf(cmds[d].req, 1) => c = d

\* What is read is a file, and what that file was, unless it has been touched.
ReadsOk(s, fs, gone, E) ==
  /\ \E R : s.reads \in Seq(R)
  /\ \A j \in DOMAIN s.reads : IsCarrier(s.reads[j], E)
  /\ s.pc \in {"idle", "write"} => s.reads = <<>>
  /\ s.pc = "read" =>
       /\ Len(s.reads) <= Len(Reads(s.req))
       /\ \A j \in DOMAIN s.reads :
            LET n == <<s.req.base, Reads(s.req)[j]>>
            IN n \notin gone => fs[n] # Absent /\ NoMore(s.reads[j], fs[n])

SawOk(s) == \A c \in s.saw : c \in Encoders /\ cmds[c].req.cmd = "encode" /\ cmds[c].status = "ok"

\* The clauses of ValidIsSigned and of EncodedVerifies for command v.
SignedOk(v) ==
  Verified(v) /\ cmds[v].req.key # "none" /\ ExitCode(cmds[v].status) = 0 =>
    /\ cmds[v].req.key \notin cmds[v].revoked
    /\ \E c \in Encoding :
         LET q == cmds[c].req IN
         /\ q.signer = cmds[v].req.key
         /\ q.image = cmds[v].reads[1].image /\ q.bits \in Tried(cmds[v].req)

Undamaged(v, c) ==
  /\ Matches(cmds[v].req, cmds[c].req) /\ cmds[v].req.key = cmds[c].req.signer
  /\ Own(c) \cap touched = {}
  /\ Errors(c) <= IF cmds[c].req.ecc THEN Correctable ELSE 0

VerifiesOk(v) ==
  Verified(v) => \A c \in cmds[v].saw : Undamaged(v, c) => cmds[v].status \in {"valid", "valid_revoked"}

Shaped ==
  /\ DOMAIN files = FileNames /\ DOMAIN cmds = Commands
  /\ \A n \in FileNames : FileOk(files[n], Encoding)
  /\ \A c \in Commands : CmdOk(c, cmds[c])

Filed ==
  /\ \A c \in Encoders : Kept(c, cmds[c], files, touched)
  /\ \A n \in FileNames : Owned(n)
  /\ WonAlone

Judges ==
  /\ \A c \in Commands : ReadsOk(cmds[c], files, touched, Encoding) /\ SawOk(cmds[c])
  /\ \A v \in Commands : SignedOk(v) /\ VerifiesOk(v)

CliInv == Shaped /\ Filed /\ Judges

-----------------------------------------------------------------------------
(* The files of a request. *)

LEMMA PartsOfShards ==
  ASSUME NEW r, r.cmd \in {"encode", "verify"}, r.spread \in 1..8
  PROVE  /\ Len(Parts(r)) = r.spread /\ DOMAIN Parts(r) = 1..r.spread
         /\ \A i \in 1..r.spread : Parts(r)[i] = IF r.spread = 1 THEN 0 ELSE i
         /\ \E R : Parts(r) \in Seq(R)
<1>1. Parts(r) = IF r.spread = 1 THEN <<0>> ELSE [i \in 1..r.spread |-> i]
  BY DEF Parts
<1>2. CASE r.spread = 1
  <2>1. PICK p : p = <<0>>
    OBVIOUS
  <2>2. p \in Seq({0}) /\ Len(p) = 1 /\ p[1] = 0
    BY <2>1
  <2>3. DOMAIN p = 1..1
    BY <2>2, LenProperties
  <2>4. \A i \in 1..1 : p[i] = 0
    BY <2>2
  <2>5. Parts(r) = p
    BY <1>1, <1>2, <2>1
  <2> QED BY <1>2, <2>2, <2>3, <2>4, <2>5
<1>3. CASE r.spread # 1
  <2>1. PICK n, p : n = r.spread /\ p = [i \in 1..n |-> i]
    OBVIOUS
  <2>2. n \in Nat /\ p \in [1..n -> 1..n]
    BY <2>1
  <2>3. p \in Seq(1..n)
    BY <2>2, IsASeq
  <2>4. Len(p) = n /\ DOMAIN p = 1..n
    BY <2>2, <2>3, LenProperties
  <2>5. \A i \in 1..n : p[i] = i
    BY <2>1
  <2>6. Parts(r) = p
    BY <1>1, <1>3, <2>1
  <2> QED BY <1>3, <2>1, <2>3, <2>4, <2>5, <2>6
<1> QED BY <1>2, <1>3

LEMMA PartsOfKeys ==
  ASSUME NEW r, r.cmd \in {"keygen", "derive"}
  PROVE  /\ Len(Parts(r)) \in {2, 4} /\ DOMAIN Parts(r) = 1..Len(Parts(r))
         /\ \A i \in 1..Len(Parts(r)) : Parts(r)[i] = 10 + i
         /\ \E R : Parts(r) \in Seq(R)
<1>1. CASE r.cmd = "keygen"
  <2>1. Parts(r) = <<11, 12>>
    BY <1>1 DEF Parts
  <2>2. Parts(r) \in Seq(Nat) /\ Len(Parts(r)) = 2
    BY <2>1
  <2>3. DOMAIN Parts(r) = 1..2
    BY <2>2, LenProperties
  <2>4. Parts(r)[1] = 10 + 1 /\ Parts(r)[2] = 10 + 2
    BY <2>1
  <2>5. \A i \in 1..2 : Parts(r)[i] = 10 + i
    BY <2>4
  <2> QED BY <2>2, <2>3, <2>5
<1>2. CASE r.cmd = "derive"
  <2>1. Parts(r) = <<11, 12, 13, 14>>
    BY <1>2 DEF Parts
  <2>2. Parts(r) \in Seq(Nat) /\ Len(Parts(r)) = 4
    BY <2>1
  <2>3. DOMAIN Parts(r) = 1..4
    BY <2>2, LenProperties
  <2>4. /\ Parts(r)[1] = 10 + 1 /\ Parts(r)[2] = 10 + 2
        /\ Parts(r)[3] = 10 + 3 /\ Parts(r)[4] = 10 + 4
    BY <2>1
  <2>5. \A i \in 1..4 : Parts(r)[i] = 10 + i
    BY <2>4
  <2> QED BY <2>2, <2>3, <2>5
<1> QED BY <1>1, <1>2

\* The names a running command writes to are names, different ones, the first of
\* a group of them the same for all of the group.
LEMMA NamesAre ==
  ASSUME NEW r \in EncodeRequests \cup KeyRequests, May(r)
  PROVE  /\ Len(Parts(r)) \in Nat \ {0} /\ DOMAIN Parts(r) = 1..Len(Parts(r))
         /\ \A i \in 1..Len(Parts(r)) : FileOf(r, i) \in FileNames /\ FileOf(r, i)[1] = r.base /\ FileOf(r, i)[2] = Parts(r)[i]
         /\ \A i, j \in 1..Len(Parts(r)) : Parts(r)[i] = Parts(r)[j] => i = j
         /\ \A i \in 1..Len(Parts(r)) : Parts(r)[i] # 0 =>
              /\ Len(Parts(r)) > 1
              /\ Parts(r)[1] = (IF Parts(r)[i] > 10 THEN 11 ELSE 1)
<1>1. CASE r \in KeyRequests
  <2>1. r.cmd \in {"keygen", "derive"} /\ r.base \in Bases
    BY <1>1, RequestsAssumption
  <2>2. /\ Len(Parts(r)) \in {2, 4} /\ DOMAIN Parts(r) = 1..Len(Parts(r))
        /\ \A i \in 1..Len(Parts(r)) : Parts(r)[i] = 10 + i
    BY <2>1, PartsOfKeys
  <2>3. \A i \in 1..Len(Parts(r)) : Parts(r)[i] \in 11..14
    BY <2>2
  <2>4. Len(Parts(r)) \in Nat \ {0} /\ Len(Parts(r)) > 1 /\ Parts(r)[1] = 11
    BY <2>2
  <2>5. \A i, j \in 1..Len(Parts(r)) : Parts(r)[i] = Parts(r)[j] => i = j
    BY <2>2
  <2>6. \A i \in 1..Len(Parts(r)) : Parts(r)[i] > 10
    BY <2>3
  <2>7. \A i \in 1..Len(Parts(r)) : FileOf(r, i) \in FileNames /\ FileOf(r, i)[1] = r.base /\ FileOf(r, i)[2] = Parts(r)[i]
    BY <2>1, <2>3 DEF FileOf, FileNames
  <2> QED BY <2>2, <2>4, <2>5, <2>6, <2>7
<1>2. CASE r \in EncodeRequests
  <2>1. r.cmd = "encode" /\ r.base \in Bases /\ r.spread \in 1..MaxShards /\ MaxShards \in 1..8
    BY <1>2, RequestsAssumption, CliAssumption DEF May, Admitted
  <2>2. r.spread \in 1..8
    BY <2>1
  <2>3. /\ Len(Parts(r)) = r.spread /\ DOMAIN Parts(r) = 1..r.spread
        /\ \A i \in 1..r.spread : Parts(r)[i] = IF r.spread = 1 THEN 0 ELSE i
    BY <2>1, <2>2, PartsOfShards
  <2>4. \A i \in 1..r.spread : Parts(r)[i] \in {0} \cup 1..MaxShards
    BY <2>1, <2>3
  <2>5. \A i \in 1..r.spread : FileOf(r, i) \in FileNames /\ FileOf(r, i)[1] = r.base /\ FileOf(r, i)[2] = Parts(r)[i]
    BY <2>1, <2>4 DEF FileOf, FileNames
  <2>6. \A i, j \in 1..r.spread : Parts(r)[i] = Parts(r)[j] => i = j
    BY <2>2, <2>3
  <2>7. \A i \in 1..r.spread : Parts(r)[i] # 0 => r.spread > 1 /\ ~ Parts(r)[i] > 10 /\ Parts(r)[1] = 1
    BY <2>2, <2>3
  <2> QED BY <2>2, <2>3, <2>5, <2>6, <2>7
<1> QED BY <1>1, <1>2

\* The names that verify, and encode when it reads back, read.
LEMMA ReadsAre ==
  ASSUME NEW r, r.cmd \in {"encode", "verify"}, r.base \in Bases, Admitted(r)
  PROVE  /\ r.spread \in 1..8
         /\ \E R : Reads(r) \in Seq(R)
         /\ Len(Reads(r)) \in Nat \ {0} /\ DOMAIN Reads(r) = 1..Len(Reads(r))
         /\ \A j \in 1..Len(Reads(r)) : <<r.base, Reads(r)[j]>> \in FileNames
         /\ r.cmd = "encode" => Reads(r) = Parts(r)
         /\ r.cmd = "verify" /\ r.spread = 1 => Len(Reads(r)) = 1 /\ Reads(r)[1] = 0
         /\ r.cmd = "verify" /\ r.spread > 1 =>
              /\ Len(Reads(r)) = 1 + r.spread /\ Reads(r)[1] = 1
              /\ \A i \in 1..r.spread : Reads(r)[i + 1] = i
<1>1. r.spread \in 1..MaxShards /\ MaxShards \in 1..8
  BY CliAssumption DEF Admitted
<1>2. r.spread \in 1..8
  BY <1>1
<1>3. /\ Len(Parts(r)) = r.spread /\ DOMAIN Parts(r) = 1..r.spread
      /\ \A i \in 1..r.spread : Parts(r)[i] = IF r.spread = 1 THEN 0 ELSE i
      /\ \E R : Parts(r) \in Seq(R)
  BY <1>2, PartsOfShards
<1>4. \A i \in 1..r.spread : Parts(r)[i] \in {0} \cup 1..MaxShards
  BY <1>1, <1>3
<1>5. CASE ~ (r.cmd = "verify" /\ r.spread > 1)
  <2>1. Reads(r) = Parts(r)
    BY <1>5 DEF Reads
  <2>2. r.cmd = "verify" => r.spread = 1 /\ 1 \in 1..r.spread
    BY <1>2, <1>5
  <2> QED BY <1>2, <1>3, <1>4, <1>5, <2>1, <2>2 DEF FileNames
<1>6. CASE r.cmd = "verify" /\ r.spread > 1
  <2>1. PICK p, R, n : p = Parts(r) /\ p \in Seq(R) /\ n = r.spread
    BY <1>3
  <2>2. PICK q : q = <<1>> \o p
    OBVIOUS
  <2>3. <<1>> \in Seq(R \cup {1}) /\ p \in Seq(R \cup {1}) /\ Len(<<1>>) = 1 /\ <<1>>[1] = 1 /\ Len(p) = n
    BY <1>3, <2>1
  <2>4. n \in 2..8
    BY <1>2, <1>6, <2>1
  <2>5. q \in Seq(R \cup {1}) /\ Len(q) = 1 + n
    BY <2>2, <2>3, ConcatProperties
  <2>6. \A i \in 1..(1 + n) : q[i] = IF i <= 1 THEN <<1>>[i] ELSE p[i - 1]
    BY <2>2, <2>3, ConcatProperties
  <2>7. q[1] = 1
    BY <2>3, <2>4, <2>6
  <2>8. \A i \in 1..n : q[i + 1] = i
    <3> TAKE i \in 1..n
    <3>1. i + 1 \in 1..(1 + n) /\ ~ i + 1 <= 1 /\ (i + 1) - 1 = i
      BY <2>4
    <3>2. p[i] = i
      BY <1>3, <2>1, <2>4
    <3> QED BY <2>6, <3>1, <3>2
  <2>9. \A j \in 1..(1 + n) : q[j] \in 1..MaxShards
    <3> TAKE j \in 1..(1 + n)
    <3>1. CASE j = 1
      BY <1>1, <2>7, <3>1
    <3>2. CASE j # 1
      <4>1. j - 1 \in 1..n /\ (j - 1) + 1 = j
        BY <2>4, <3>2
      <4>2. q[j] = j - 1
        BY <2>8, <4>1
      <4> QED BY <1>1, <2>1, <4>1, <4>2
    <3> QED BY <3>1, <3>2
  <2>10. Reads(r) = q
    BY <1>6, <2>1, <2>2 DEF Reads
  <2>11. DOMAIN q = 1..Len(q)
    BY <2>5, LenProperties
  <2>12. \A j \in 1..(1 + n) : <<r.base, q[j]>> \in FileNames
    BY <2>9 DEF FileNames
  <2>13. Len(q) \in Nat \ {0}
    BY <2>4, <2>5
  <2> QED BY <1>2, <1>6, <2>1, <2>5, <2>7, <2>8, <2>10, <2>11, <2>12, <2>13
<1> QED BY <1>5, <1>6

\* The i-th file, as it is written.
LEMMA OutputIs ==
  ASSUME NEW c, NEW i, c \in Commands, May(cmds[c].req), cmds[c].req \in EncodeRequests \cup KeyRequests,
         i \in 1..Len(Parts(cmds[c].req))
  PROVE  Output(c, i) = Made(c, cmds[c].req, i)
<1>1. PICK r : r = cmds[c].req
  OBVIOUS
<1>2. CASE r.cmd = "encode"
  <2>0. r.spread \in 1..MaxShards /\ MaxShards \in 1..8
    BY <1>1, <1>2, CliAssumption DEF May, Admitted
  <2>1. r.spread \in 1..8
    BY <2>0
  <2>2. i \in 1..r.spread
    BY <1>1, <1>2, <2>1, PartsOfShards
  <2>3. PICK len : len = Length(r)
    OBVIOUS
  <2>4. r.spread # 1 => Split(c, r.spread, len)[i].data = ShardData(c, r.spread, i)
    <3>1. r.spread \in Nat \ {0}
      BY <2>1
    <3>2. Split(c, r.spread, len)[i] =
            [index |-> i - 1, total |-> r.spread, len |-> len, data |-> ShardData(c, r.spread, i)]
      BY <2>2, <3>1, SplitIs
    <3> QED BY <3>2
  <2>5. Encoded(c, i) =
          [Carrier(r.image, r.kernel, r.place, r.bits) EXCEPT
             !.data = IF r.spread = 1 THEN {Payload(c)} ELSE Split(c, r.spread, len)[i].data,
             !.len = len, !.by = c]
    BY <1>1, <2>3 DEF Encoded
  <2> QED BY <1>1, <1>2, <2>3, <2>4, <2>5 DEF Output, Made
<1>3. CASE r.cmd # "encode"
  BY <1>1, <1>3 DEF Output, Made
<1> QED BY <1>2, <1>3

\* The fields of an encoded file.
LEMMA MadeCarrier ==
  ASSUME NEW c, NEW r, NEW i, NEW g, r.cmd = "encode", g = Made(c, r, i)
  PROVE  /\ DOMAIN g = CarrierFields /\ g.is = "carrier" /\ g.image = r.image /\ g.kernel = r.kernel
         /\ g.place = r.place /\ g.bits = r.bits /\ g.errs = 0 /\ g.by = c /\ g # Absent
<1>1. Absent.is = "absent"
  BY DEF Absent
<1>2. /\ DOMAIN g = CarrierFields /\ g.is = "carrier" /\ g.image = r.image /\ g.kernel = r.kernel
      /\ g.place = r.place /\ g.bits = r.bits /\ g.errs = 0 /\ g.by = c
  BY DEF Made, Carrier, CarrierFields
<1> QED BY <1>1, <1>2

LEMMA MadeData ==
  ASSUME NEW c, NEW r, NEW i, NEW g, r.cmd = "encode", g = Made(c, r, i)
  PROVE  g.data = {Payload(c)} \/ g.data = ShardData(c, r.spread, i)
BY DEF Made, Carrier

LEMMA MadeOne ==
  ASSUME NEW c, NEW r, NEW i, NEW g, r.spread = 1, r.cmd = "encode", g = Made(c, r, i)
  PROVE  g.data = {Payload(c)}
BY DEF Made, Carrier

LEMMA MadeShard ==
  ASSUME NEW c, NEW r, NEW i, NEW g, r.spread # 1, r.cmd = "encode", g = Made(c, r, i)
  PROVE  g.data = ShardData(c, r.spread, i)
BY DEF Made, Carrier

LEMMA MadeRest ==
  ASSUME NEW c, NEW r, NEW i, NEW g, r.cmd = "encode", g = Made(c, r, i)
  PROVE  g.len = Length(r) /\ g.front = TRUE
BY DEF Made, Carrier

LEMMA MadeKey ==
  ASSUME NEW c, NEW r, NEW i, NEW g, r.cmd # "encode", g = Made(c, r, i)
  PROVE  g.is = "key" /\ g.by = c /\ g # Absent
<1>1. g = [is |-> "key", by |-> c]
  BY DEF Made
<1>2. g.is = "key" /\ g.by = c
  BY <1>1
<1>3. Absent.is = "absent"
  BY DEF Absent
<1> QED BY <1>2, <1>3

-----------------------------------------------------------------------------
(* What the steps of a command do to it. *)

Others(c) == DOMAIN cmds' = Commands /\ \A d \in Commands : d # c => cmds'[d] = cmds[d]

\* s is t but for pc, status, part and what it has read.
Continues(s, t) == DOMAIN s = CmdFields /\ s.req = t.req /\ s.revoked = t.revoked /\ s.saw = t.saw

Ended(s, t, status) ==
  /\ Continues(s, t) /\ s.pc = "done" /\ s.status = status /\ s.part = t.part
  /\ s.reads = IF t.reads = <<>> THEN <<>> ELSE <<Head(t.reads)>>

LEMMA StepIs ==
  ASSUME DOMAIN cmds = Commands, NEW c \in Commands, NEW s, Step(c, s)
  PROVE  Others(c) /\ cmds'[c] = s
BY DEF Step, Others

LEMMA QuitIs ==
  ASSUME Shaped, NEW c \in Commands, NEW status, Quit(c, status)
  PROVE  Others(c) /\ Ended(cmds'[c], cmds[c], status)
<1>1. PICK t, s : /\ t = cmds[c]
                  /\ s = [t EXCEPT !.pc = "done", !.status = status,
                                   !.reads = IF t.reads = <<>> THEN t.reads ELSE <<Head(t.reads)>>]
  OBVIOUS
<1>2. Step(c, s)
  BY <1>1 DEF Quit
<1>3. DOMAIN t = CmdFields /\ DOMAIN cmds = Commands
  BY <1>1 DEF Shaped, CmdOk
<1>4. Ended(s, t, status)
  BY <1>1, <1>3 DEF Ended, Continues, CmdFields
<1> QED BY <1>1, <1>2, <1>3, <1>4, StepIs

\* The next file, or the end of writing.
Advanced(s, t) ==
  \/ /\ t.part < Len(Parts(t.req))
     /\ Continues(s, t) /\ s.pc = "write" /\ s.status = "none" /\ s.part = t.part + 1 /\ s.reads = t.reads
  \/ /\ ~ t.part < Len(Parts(t.req)) /\ t.req.cmd = "encode"
     /\ Continues(s, t) /\ s.pc = "read" /\ s.status = "none" /\ s.part = t.part /\ s.reads = t.reads
  \/ /\ ~ t.part < Len(Parts(t.req)) /\ t.req.cmd # "encode"
     /\ Ended(s, t, "ok")

LEMMA NextPartIs ==
  ASSUME Shaped, NEW c \in Commands, cmds[c].pc = "write", NextPart(c)
  PROVE  Others(c) /\ Advanced(cmds'[c], cmds[c])
<1>1. PICK t : t = cmds[c]
  OBVIOUS
<1>2. DOMAIN t = CmdFields /\ DOMAIN cmds = Commands /\ t.pc = "write" /\ t.status = "none"
  BY <1>1 DEF Shaped, CmdOk
<1>3. CASE t.part < Len(Parts(t.req))
  <2>1. PICK s : s = [t EXCEPT !.part = t.part + 1]
    OBVIOUS
  <2>2. Step(c, s)
    BY <1>1, <1>3, <2>1 DEF NextPart
  <2>3. Continues(s, t) /\ s.pc = "write" /\ s.status = "none" /\ s.part = t.part + 1 /\ s.reads = t.reads
    BY <1>2, <2>1 DEF Continues, CmdFields
  <2> QED BY <1>1, <1>2, <1>3, <2>2, <2>3, StepIs DEF Advanced
<1>4. CASE ~ t.part < Len(Parts(t.req)) /\ t.req.cmd = "encode"
  <2>1. PICK s : s = [t EXCEPT !.pc = "read"]
    OBVIOUS
  <2>2. Step(c, s)
    BY <1>1, <1>4, <2>1 DEF NextPart
  <2>3. Continues(s, t) /\ s.pc = "read" /\ s.status = "none" /\ s.part = t.part /\ s.reads = t.reads
    BY <1>2, <2>1 DEF Continues, CmdFields
  <2> QED BY <1>1, <1>2, <1>4, <2>2, <2>3, StepIs DEF Advanced
<1>5. CASE ~ t.part < Len(Parts(t.req)) /\ t.req.cmd # "encode"
  <2>1. Quit(c, "ok")
    BY <1>1, <1>5 DEF NextPart
  <2> QED BY <1>1, <1>5, <2>1, QuitIs DEF Advanced
<1> QED BY <1>3, <1>4, <1>5

\* StartWriting: refused, or about to write the first file.
Begun(s, r) ==
  /\ DOMAIN s = CmdFields /\ s.req = r /\ s.part = 1 /\ s.reads = <<>> /\ s.saw = {}
  /\ \/ s.pc = "write" /\ s.status = "none" /\ May(r)
     \/ s.pc = "done" /\ s.status = "error"

LEMMA StartWritingIs ==
  ASSUME Shaped, NEW c \in Encoders, StartWriting(c)
  PROVE  Others(c) /\ cmds[c].pc = "idle" /\ \E r \in EncodeRequests \cup KeyRequests : Begun(cmds'[c], r)
<1>1. cmds[c].pc = "idle" /\ c \in Commands /\ DOMAIN cmds = Commands /\ cmds[c] = Idle
  BY DEF StartWriting, Shaped, CmdOk, Commands
<1>2. PICK r \in EncodeRequests \cup KeyRequests, may \in BOOLEAN :
        /\ may => May(r)
        /\ Step(c, [cmds[c] EXCEPT !.req = r, !.part = 1,
                                   !.pc = IF may THEN "write" ELSE "done",
                                   !.status = IF may THEN "none" ELSE "error"])
  <2>1. PICK r \in EncodeRequests \cup KeyRequests :
          LET may == /\ r.cmd = "encode" =>
                          /\ Admitted(r) /\ r.signer \notin Compromised
                          /\ (r.image \in Sounds) <=> (r.kernel = "lsb_audio")
                     /\ Preflight(r)
          IN Step(c, [cmds[c] EXCEPT !.req = r, !.part = 1,
                                     !.pc = IF may THEN "write" ELSE "done",
                                     !.status = IF may THEN "none" ELSE "error"])
    BY DEF StartWriting
  <2> DEFINE ok == /\ r.cmd = "encode" =>
                        /\ Admitted(r) /\ r.signer \notin Compromised
                        /\ (r.image \in Sounds) <=> (r.kernel = "lsb_audio")
                   /\ Preflight(r)
  <2>2. ok => May(r)
    BY DEF May, Sounding
  <2>3. Step(c, [cmds[c] EXCEPT !.req = r, !.part = 1,
                                !.pc = IF ok THEN "write" ELSE "done",
                                !.status = IF ok THEN "none" ELSE "error"])
    BY <2>1
  <2> HIDE DEF ok
  <2>4. CASE ok
    <3>1. Step(c, [cmds[c] EXCEPT !.req = r, !.part = 1,
                                !.pc = IF TRUE THEN "write" ELSE "done",
                                !.status = IF TRUE THEN "none" ELSE "error"])
      BY <2>3, <2>4
    <3> QED BY <2>2, <2>4, <3>1
  <2>5. CASE ~ ok
    <3>1. Step(c, [cmds[c] EXCEPT !.req = r, !.part = 1,
                                !.pc = IF FALSE THEN "write" ELSE "done",
                                !.status = IF FALSE THEN "none" ELSE "error"])
      BY <2>3, <2>5
    <3> QED BY <3>1
  <2> QED BY <2>4, <2>5
<1>3. PICK t, s : t = cmds[c] /\ s = [t EXCEPT !.req = r, !.part = 1,
                                       !.pc = IF may THEN "write" ELSE "done",
                                       !.status = IF may THEN "none" ELSE "error"]
  OBVIOUS
<1>4. Step(c, s)
  BY <1>2, <1>3
<1>5. DOMAIN t = CmdFields /\ t.reads = <<>> /\ t.saw = {}
  BY <1>1, <1>3 DEF Idle, CmdFields
<1>6. Begun(s, r)
  BY <1>2, <1>3, <1>5 DEF Begun, CmdFields
<1> QED BY <1>1, <1>4, <1>6, StepIs

\* StartVerify: refused, or about to read.
Asked(s, r) ==
  /\ DOMAIN s = CmdFields /\ s.req = r /\ s.part = 0 /\ s.reads = <<>>
  /\ s.saw = {e \in Commands : cmds[e].req.cmd = "encode" /\ cmds[e].status = "ok"}
  /\ \/ s.pc = "read" /\ s.status = "none" /\ Admitted(r)
     \/ s.pc = "done" /\ s.status = "error" /\ ~ Admitted(r)

LEMMA StartVerifyIs ==
  ASSUME Shaped, NEW c \in Verifiers, StartVerify(c)
  PROVE  Others(c) /\ cmds[c].pc = "idle" /\ \E r \in VerifyRequests : Asked(cmds'[c], r)
<1>1. cmds[c].pc = "idle" /\ c \in Commands /\ DOMAIN cmds = Commands /\ cmds[c] = Idle
  BY DEF StartVerify, Shaped, CmdOk, Commands
<1>2. PICK seen : seen = {e \in Commands : cmds[e].req.cmd = "encode" /\ cmds[e].status = "ok"}
  OBVIOUS
<1>3. PICK r \in VerifyRequests :
        Step(c, [cmds[c] EXCEPT !.req = r, !.revoked = revoked,
                                !.pc = IF Admitted(r) THEN "read" ELSE "done",
                                !.status = IF Admitted(r) THEN "none" ELSE "error",
                                !.saw = seen])
  BY <1>2 DEF StartVerify
<1>4. PICK t, s : t = cmds[c] /\ s = [t EXCEPT !.req = r, !.revoked = revoked,
                                       !.pc = IF Admitted(r) THEN "read" ELSE "done",
                                       !.status = IF Admitted(r) THEN "none" ELSE "error",
                                       !.saw = seen]
  OBVIOUS
<1>5. Step(c, s)
  BY <1>3, <1>4
<1>6. DOMAIN t = CmdFields /\ t.reads = <<>> /\ t.part = 0
  BY <1>1, <1>4 DEF Idle, CmdFields
<1>7. Asked(s, r)
  BY <1>2, <1>4, <1>6 DEF Asked, CmdFields
<1> QED BY <1>1, <1>5, <1>7, StepIs

\* ReadPart: one more file, or one that cannot be read.
LEMMA ReadPartIs ==
  ASSUME Shaped, NEW c \in Commands, ReadPart(c)
  PROVE  /\ Others(c) /\ cmds[c].pc = "read" /\ Len(cmds[c].reads) + 1 <= Len(Reads(cmds[c].req))
         /\ LET n == <<cmds[c].req.base, Reads(cmds[c].req)[Len(cmds[c].reads) + 1]>>
                s == cmds'[c]
                t == cmds[c]
            IN \/ /\ CanRead(files[n], t.req)
                  /\ Continues(s, t) /\ s.pc = "read" /\ s.status = t.status /\ s.part = t.part
                  /\ s.reads = Append(t.reads, files[n])
               \/ ~ CanRead(files[n], t.req) /\ Ended(s, t, "error")
<1>1. PICK t, n, f : /\ t = cmds[c] /\ n = <<t.req.base, Reads(t.req)[Len(t.reads) + 1]>> /\ f = files[n]
  OBVIOUS
<1>2. DOMAIN t = CmdFields /\ DOMAIN cmds = Commands
  BY <1>1 DEF Shaped, CmdOk
<1>3. t.pc = "read" /\ Len(t.reads) + 1 <= Len(Reads(t.req))
  BY <1>1 DEF ReadPart
<1>4. IF CanRead(f, t.req) THEN Step(c, [t EXCEPT !.reads = Append(t.reads, f)]) ELSE Quit(c, "error")
  BY <1>1 DEF ReadPart
<1>5. CASE CanRead(f, t.req)
  <2>1. PICK s : s = [t EXCEPT !.reads = Append(t.reads, f)]
    OBVIOUS
  <2>2. Continues(s, t) /\ s.pc = "read" /\ s.status = t.status /\ s.part = t.part /\ s.reads = Append(t.reads, f)
    BY <1>2, <1>3, <2>1 DEF Continues, CmdFields
  <2>3. Others(c) /\ cmds'[c] = s
    BY <1>2, <1>4, <1>5, <2>1, StepIs
  <2> QED BY <1>1, <1>3, <1>5, <2>2, <2>3
<1>6. CASE ~ CanRead(f, t.req)
  <2>1. Quit(c, "error")
    BY <1>4, <1>6
  <2> QED BY <1>1, <1>3, <1>6, <2>1, QuitIs
<1> QED BY <1>5, <1>6

-----------------------------------------------------------------------------
(* What the steps do to the files. *)

Only(n) == DOMAIN files' = FileNames /\ \A m \in FileNames : m # n => files'[m] = files[m]

LEMMA FileIs ==
  ASSUME DOMAIN files = FileNames, NEW n \in FileNames, NEW f, files' = [files EXCEPT ![n] = f]
  PROVE  Only(n) /\ files'[n] = f
BY DEF Only

LEMMA WritePartIs ==
  ASSUME Shaped, NEW c \in Encoders, WritePart(c)
  PROVE  LET t == cmds[c]
             n == FileOf(t.req, t.part)
         IN /\ t.pc = "write" /\ n \in FileNames /\ Others(c) /\ touched' = touched
            /\ t.req \in EncodeRequests \cup KeyRequests /\ May(t.req) /\ t.part \in 1..Len(Parts(t.req))
            /\ \/ /\ files[n] = Absent /\ Only(n) /\ files'[n] = Made(c, t.req, t.part)
                  /\ Advanced(cmds'[c], t)
               \/ files' = files /\ Ended(cmds'[c], t, "error")
<1>1. PICK t, n : t = cmds[c] /\ n = FileOf(t.req, t.part)
  OBVIOUS
<1>2. t.pc = "write" /\ c \in Commands /\ DOMAIN files = FileNames /\ CmdOk(c, t)
  BY <1>1 DEF WritePart, Shaped, Commands
<1>3. t.req \in EncodeRequests \cup KeyRequests /\ May(t.req) /\ t.part \in 1..Len(Parts(t.req))
  BY <1>2 DEF CmdOk, Running
<1>4. n \in FileNames
  BY <1>1, <1>3, NamesAre
<1>5. /\ touched' = touched
      /\ IF files[n] = Absent THEN files' = [files EXCEPT ![n] = Output(c, t.part)] /\ NextPart(c)
                              ELSE Quit(c, "error") /\ UNCHANGED files
  BY <1>1 DEF WritePart, FileOf
<1>6. Output(c, t.part) = Made(c, t.req, t.part)
  BY <1>1, <1>2, <1>3, OutputIs
<1>7. CASE files[n] = Absent
  <2>1. Only(n) /\ files'[n] = Made(c, t.req, t.part)
    BY <1>2, <1>4, <1>5, <1>6, <1>7, FileIs
  <2>2. Others(c) /\ Advanced(cmds'[c], t)
    BY <1>1, <1>2, <1>5, <1>7, NextPartIs
  <2> QED BY <1>1, <1>2, <1>3, <1>4, <1>5, <1>7, <2>1, <2>2
<1>8. CASE files[n] # Absent
  <2>1. Others(c) /\ Ended(cmds'[c], t, "error")
    BY <1>1, <1>2, <1>5, <1>8, QuitIs
  <2> QED BY <1>1, <1>2, <1>3, <1>4, <1>5, <1>8, <2>1
<1> QED BY <1>7, <1>8

\* The user damages or replaces a file.
Tampers(n) ==
  /\ cmds' = cmds /\ Only(n) /\ IsCarrier(files'[n], Encoding)
  /\ \/ touched' = touched /\ NoMore(files[n], files'[n]) /\ files[n].is = "carrier"
     \/ touched' = touched \cup {n}

LEMMA TampersIs ==
  ASSUME Shaped, NEW n \in FileNames, DamagePayload(n) \/ DamageCarrier(n) \/ CopyOver(n)
  PROVE  Tampers(n)
<1>1. DOMAIN files = FileNames /\ \A m \in FileNames : files[m].is = "carrier" => IsCarrier(files[m], Encoding)
  <2>1. Absent.is = "absent"
    BY DEF Absent
  <2>2. \A m \in FileNames : FileOk(files[m], Encoding)
    BY DEF Shaped
  <2> QED BY <2>1, <2>2 DEF Shaped, FileOk
<1>2. PICK f : f = files[n]
  OBVIOUS
<1>3. CASE DamagePayload(n)
  <2>1. PICK g : g = [f EXCEPT !.errs = f.errs + 1]
    OBVIOUS
  <2>2. IsCarrier(f, Encoding)
    BY <1>1, <1>2, <1>3 DEF DamagePayload
  <2>3. IsCarrier(g, Encoding) /\ NoMore(f, g)
    BY <2>1, <2>2 DEF IsCarrier, NoMore, Alike, CarrierFields
  <2>4. files' = [files EXCEPT ![n] = g]
    BY <1>2, <1>3, <2>1 DEF DamagePayload
  <2>5. Only(n) /\ files'[n] = g
    BY <1>1, <2>4, FileIs
  <2>6. touched' = touched /\ cmds' = cmds
    BY <1>3 DEF DamagePayload
  <2> QED BY <1>2, <2>2, <2>3, <2>5, <2>6 DEF Tampers, IsCarrier
<1>4. CASE DamageCarrier(n)
  <2>1. IsCarrier(f, Encoding)
    BY <1>1, <1>2, <1>4 DEF DamageCarrier
  <2>2. PICK g : /\ g = [f EXCEPT !.front = FALSE] \/ g = [f EXCEPT !.image = "altered"]
                 /\ files' = [files EXCEPT ![n] = g]
    BY <1>2, <1>4 DEF DamageCarrier
  <2>3. IsCarrier(g, Encoding)
    BY <2>1, <2>2 DEF IsCarrier, CarrierFields
  <2>4. Only(n) /\ files'[n] = g
    BY <1>1, <2>2, FileIs
  <2>5. touched' = touched \cup {n} /\ cmds' = cmds
    BY <1>4 DEF DamageCarrier, Touch
  <2> QED BY <2>3, <2>4, <2>5 DEF Tampers
<1>5. CASE CopyOver(n)
  <2>1. PICK g \in {files[m] : m \in FileNames \ {n}} \cup {Carrier(i, "none", "none", 1) : i \in Images} :
          g.is = "carrier" /\ files' = [files EXCEPT ![n] = g]
    BY <1>5 DEF CopyOver
  <2>2. \A i \in Images : IsCarrier(Carrier(i, "none", "none", 1), Encoding)
    BY DEF IsCarrier, Carrier, CarrierFields
  <2>3. IsCarrier(g, Encoding)
    BY <1>1, <2>1, <2>2
  <2>4. Only(n) /\ files'[n] = g
    BY <1>1, <2>1, FileIs
  <2>5. touched' = touched \cup {n} /\ cmds' = cmds
    BY <1>5 DEF CopyOver, Touch
  <2> QED BY <2>3, <2>4, <2>5 DEF Tampers
<1> QED BY <1>3, <1>4, <1>5

-----------------------------------------------------------------------------
(* Every step leaves what has been started, written and reported. *)

Evolves ==
  /\ \A c \in Commands : cmds[c].pc # "idle" => cmds'[c].req = cmds[c].req /\ cmds'[c].saw = cmds[c].saw
  /\ \A c \in Commands : cmds[c].pc = "done" => cmds'[c] = cmds[c]
  /\ \A c \in Commands : Won(c, cmds[c]) => Won(c, cmds'[c])
  /\ touched \subseteq touched'
  /\ \A n \in FileNames : files[n] # Absent =>
       files'[n] # Absent /\ (n \notin touched' => NoMore(files[n], files'[n]))

\* The step is of command c, which goes from t to s and leaves the files.
Looks(c) == Others(c) /\ files' = files /\ touched' = touched

LEMMA AlikeSelf == ASSUME NEW f, NEW E, FileOk(f, E) PROVE NoMore(f, f)
<1>1. f.is = "carrier" => f.errs \in Nat
  BY DEF FileOk, IsCarrier, Absent
<1> QED BY <1>1 DEF NoMore, Alike

LEMMA CommandEvolves ==
  ASSUME Shaped, NEW c \in Commands, Others(c), touched' = touched, cmds[c].pc # "done",
         cmds[c].pc # "idle" => Continues(cmds'[c], cmds[c]),
         Won(c, cmds[c]) => Won(c, cmds'[c]),
         \A n \in FileNames : files[n] # Absent => files'[n] = files[n]
  PROVE  Evolves
<1>1. \A n \in FileNames : NoMore(files[n], files[n])
  BY AlikeSelf DEF Shaped
<1> QED BY <1>1 DEF Others, Continues, Evolves

LEMMA TamperEvolves ==
  ASSUME Shaped, NEW n \in FileNames, Tampers(n)
  PROVE  Evolves
<1>1. \A m \in FileNames : NoMore(files[m], files[m])
  BY AlikeSelf DEF Shaped
<1>2. Absent.is = "absent"
  BY DEF Absent
<1>3. files'[n] # Absent
  BY <1>2 DEF Tampers, IsCarrier
<1>4. ASSUME NEW m \in FileNames, files[m] # Absent
      PROVE  files'[m] # Absent /\ (m \notin touched' => NoMore(files[m], files'[m]))
  <2>1. CASE m = n
    BY <1>1, <1>3, <2>1 DEF Tampers
  <2>2. CASE m # n
    <3>1. files'[m] = files[m]
      BY <2>2 DEF Tampers, Only
    <3> QED BY <1>1, <1>4, <3>1
  <2> QED BY <2>1, <2>2
<1>5. touched \subseteq touched' /\ cmds' = cmds
  BY DEF Tampers
<1> QED BY <1>4, <1>5 DEF Evolves

\* What a step is, of which command.
AuthenticateIs(c) ==
  /\ cmds[c].pc = "read" /\ cmds[c].req.cmd = "encode" /\ Looks(c)
  /\ \E status \in {"ok", "error"} : Ended(cmds'[c], cmds[c], status)
DiesIs(c) == cmds[c].pc \in {"write", "read"} /\ Looks(c) /\ Ended(cmds'[c], cmds[c], "error")
FinishIs(c) ==
  /\ cmds[c].pc = "read" /\ Looks(c) /\ ReadAll(c)
  /\ LET r == cmds[c].req
     IN \/ NeedsPlace(r) /\ Ended(cmds'[c], cmds[c], "error")
        \/ /\ ~ NeedsPlace(r)
           /\ \E d \in [Tried(r) -> UNION {Possible(c, b) : b \in Tried(r)}] :
                /\ \A b \in Tried(r) : d[b] \in Possible(c, b)
                /\ Ended(cmds'[c], cmds[c], Chosen(c, d))

LEMMA EndsAre ==
  ASSUME Shaped, NEW c \in Commands
  PROVE  /\ Authenticate(c) => AuthenticateIs(c)
         /\ Dies(c) => DiesIs(c)
         /\ FinishVerify(c) => FinishIs(c)
<1>1. ASSUME Authenticate(c) PROVE AuthenticateIs(c)
  <2>1. /\ cmds[c].pc = "read" /\ cmds[c].req.cmd = "encode" /\ files' = files /\ touched' = touched
        /\ \E status \in {"ok", "error"} : Quit(c, status)
    BY <1>1 DEF Authenticate, ReadAll
  <2> QED BY <2>1, QuitIs DEF AuthenticateIs, Looks
<1>2. ASSUME Dies(c) PROVE DiesIs(c)
  BY <1>2, QuitIs DEF Dies, DiesIs, Looks
<1>3. ASSUME FinishVerify(c) PROVE FinishIs(c)
  <2>1. cmds[c].pc = "read" /\ files' = files /\ touched' = touched /\ ReadAll(c)
    BY <1>3 DEF FinishVerify, ReadAll
  <2>2. CASE NeedsPlace(cmds[c].req)
    <3>1. Quit(c, "error")
      BY <1>3, <2>2 DEF FinishVerify
    <3> QED BY <2>1, <2>2, <3>1, QuitIs DEF FinishIs, Looks
  <2>3. CASE ~ NeedsPlace(cmds[c].req)
    <3>1. PICK d \in [Tried(cmds[c].req) -> UNION {Possible(c, b) : b \in Tried(cmds[c].req)}] :
            (\A b \in Tried(cmds[c].req) : d[b] \in Possible(c, b)) /\ Quit(c, Chosen(c, d))
      BY <1>3, <2>3 DEF FinishVerify
    <3>2. Others(c) /\ Ended(cmds'[c], cmds[c], Chosen(c, d))
      BY <3>1, QuitIs
    <3> QED BY <2>1, <2>3, <3>1, <3>2 DEF FinishIs, Looks
  <2> QED BY <2>2, <2>3
<1> QED BY <1>1, <1>2, <1>3

Unmoved == cmds' = cmds /\ files' = files /\ touched' = touched

LEMMA StepsAre ==
  ASSUME Shaped, [CliNext]_cliVars
  PROVE  \/ Unmoved
         \/ \E n \in FileNames : Tampers(n)
         \/ \E c \in Encoders : StartWriting(c) /\ Looks(c)
         \/ \E c \in Encoders : WritePart(c)
         \/ \E c \in Commands : ReadPart(c) /\ Looks(c)
         \/ \E c \in Encoders : AuthenticateIs(c) \/ DiesIs(c)
         \/ \E c \in Verifiers : StartVerify(c) /\ Looks(c)
         \/ \E c \in Verifiers : FinishIs(c)
<1>1. CASE UNCHANGED cliVars
  BY <1>1 DEF cliVars, Unmoved
<1>2. CASE \E c \in Encoders : StartWriting(c) \/ WritePart(c) \/ ReadPart(c) \/ Authenticate(c) \/ Dies(c)
  <2>1. PICK c \in Encoders : StartWriting(c) \/ WritePart(c) \/ ReadPart(c) \/ Authenticate(c) \/ Dies(c)
    BY <1>2
  <2>2. c \in Commands
    BY DEF Commands
  <2>3. StartWriting(c) => Looks(c)
    BY StartWritingIs DEF StartWriting, Looks
  <2>4. ReadPart(c) => Looks(c)
    BY <2>2, ReadPartIs DEF ReadPart, Looks
  <2> QED BY <2>1, <2>2, <2>3, <2>4, EndsAre
<1>3. CASE \E c \in Verifiers : StartVerify(c) \/ ReadPart(c) \/ FinishVerify(c)
  <2>1. PICK c \in Verifiers : StartVerify(c) \/ ReadPart(c) \/ FinishVerify(c)
    BY <1>3
  <2>2. c \in Commands
    BY DEF Commands
  <2>3. StartVerify(c) => Looks(c)
    BY StartVerifyIs DEF StartVerify, Looks
  <2>4. ReadPart(c) => Looks(c)
    BY <2>2, ReadPartIs DEF ReadPart, Looks
  <2> QED BY <2>1, <2>2, <2>3, <2>4, EndsAre
<1>4. CASE \E n \in FileNames : DamagePayload(n) \/ DamageCarrier(n) \/ CopyOver(n)
  BY <1>4, TampersIs
<1>5. CASE \E s \in Signers : Revoke(s)
  BY <1>5 DEF Revoke, Unmoved
<1> QED BY <1>1, <1>2, <1>3, <1>4, <1>5 DEF CliNext

LEMMA StepEvolves ==
  ASSUME Shaped, [CliNext]_cliVars
  PROVE  Evolves
<1>1. CASE Unmoved
  <2>1. \A n \in FileNames : NoMore(files[n], files[n])
    BY AlikeSelf DEF Shaped
  <2> QED BY <1>1, <2>1 DEF Unmoved, Evolves
<1>2. CASE \E n \in FileNames : Tampers(n)
  BY <1>2, TamperEvolves
<1>3. ASSUME NEW c \in Encoders, StartWriting(c), Looks(c) PROVE Evolves
  <2>1. c \in Commands /\ Others(c) /\ cmds[c].pc = "idle" /\ cmds[c] = Idle
    BY <1>3, StartWritingIs DEF Commands, Shaped, CmdOk
  <2>2. ~ Won(c, cmds[c])
    BY <2>1 DEF Won, Idle
  <2> QED BY <1>3, <2>1, <2>2, CommandEvolves DEF Looks
<1>4. ASSUME NEW c \in Encoders, WritePart(c) PROVE Evolves
  <2>1. PICK t, n : t = cmds[c] /\ n = FileOf(t.req, t.part)
    OBVIOUS
  <2>2. /\ t.pc = "write" /\ n \in FileNames /\ Others(c) /\ touched' = touched /\ t.part \in 1..Len(Parts(t.req))
        /\ \/ /\ files[n] = Absent /\ Only(n) /\ Advanced(cmds'[c], t)
           \/ files' = files /\ Ended(cmds'[c], t, "error")
    BY <1>4, <2>1, WritePartIs
  <2>3. Continues(cmds'[c], t)
    BY <2>2 DEF Advanced, Ended
  <2>4. Won(c, t) => Won(c, cmds'[c])
    BY <2>2 DEF Advanced, Ended, Won
  <2>5. \A m \in FileNames : files[m] # Absent => files'[m] = files[m]
    BY <2>2 DEF Only
  <2>6. c \in Commands
    BY DEF Commands
  <2> QED BY <2>1, <2>2, <2>3, <2>4, <2>5, <2>6, CommandEvolves
<1>5. ASSUME NEW c \in Commands, ReadPart(c), Looks(c) PROVE Evolves
  <2>1. /\ cmds[c].pc = "read" /\ Others(c) /\ Continues(cmds'[c], cmds[c]) /\ cmds'[c].part = cmds[c].part
    BY <1>5, ReadPartIs DEF Ended
  <2> QED BY <1>5, <2>1, CommandEvolves DEF Looks, Won
<1>6. ASSUME NEW c \in Encoders, AuthenticateIs(c) \/ DiesIs(c) PROVE Evolves
  <2>1. /\ cmds[c].pc # "done" /\ Looks(c) /\ Continues(cmds'[c], cmds[c]) /\ cmds'[c].part = cmds[c].part
        /\ c \in Commands
    BY <1>6 DEF AuthenticateIs, DiesIs, Ended, Commands
  <2> QED BY <2>1, CommandEvolves DEF Looks, Won
<1>7. ASSUME NEW c \in Verifiers, StartVerify(c), Looks(c) PROVE Evolves
  <2>1. c \in Commands /\ Others(c) /\ cmds[c].pc = "idle" /\ cmds[c] = Idle
    BY <1>7, StartVerifyIs DEF Commands, Shaped, CmdOk
  <2>2. ~ Won(c, cmds[c])
    BY <2>1 DEF Won, Idle
  <2> QED BY <1>7, <2>1, <2>2, CommandEvolves DEF Looks
<1>8. ASSUME NEW c \in Verifiers, FinishIs(c) PROVE Evolves
  <2>1. /\ cmds[c].pc # "done" /\ Looks(c) /\ Continues(cmds'[c], cmds[c]) /\ cmds'[c].part = cmds[c].part
        /\ c \in Commands
    BY <1>8 DEF FinishIs, Ended, Commands
  <2> QED BY <2>1, CommandEvolves DEF Looks, Won
<1> QED BY <1>1, <1>2, <1>3, <1>4, <1>5, <1>6, <1>7, <1>8, StepsAre

-----------------------------------------------------------------------------
(* Files and commands keep their shape. *)

LEMMA EncodingGrows == ASSUME Shaped, Evolves PROVE Encoding \subseteq Encoding'
<1> SUFFICES ASSUME NEW c \in Encoding PROVE c \in Encoding'
  OBVIOUS
<1>1. c \in Encoders /\ c \in Commands /\ cmds[c].req.cmd = "encode"
  BY DEF Encoding, Commands
<1>2. cmds[c].pc # "idle"
  <2>1. Idle.req.cmd = "none"
    BY DEF Idle
  <2>2. CmdOk(c, cmds[c])
    BY <1>1 DEF Shaped
  <2> QED BY <1>1, <2>1, <2>2 DEF CmdOk
<1>3. cmds'[c].req = cmds[c].req
  BY <1>1, <1>2 DEF Evolves
<1> QED BY <1>1, <1>3 DEF Encoding

LEMMA FileOkGrows ==
  ASSUME NEW f, NEW E, NEW F, E \subseteq F
  PROVE  (FileOk(f, E) => FileOk(f, F)) /\ (IsCarrier(f, E) => IsCarrier(f, F))
BY DEF FileOk, IsCarrier

Verdicts == {"error", "not_verified", "invalid", "valid_revoked", "valid", "no_signature"}

LEMMA ChosenIs ==
  ASSUME NEW c, NEW d
  PROVE  Chosen(c, d) \in Verdicts
<1>1. \A p, b : Judged(c, p, b) \in Verdicts
  BY DEF Judged, Verdicts
<1> QED BY <1>1 DEF Chosen, Verdicts

LEMMA EndedOk ==
  ASSUME NEW c, NEW s, NEW t, NEW status, CmdOk(c, t), t.pc \in {"write", "read"}, Ended(s, t, status),
         status = "ok" => c \in Encoders
  PROVE  CmdOk(c, s)
<1>1. Running(c, s) => Running(c, t)
  BY DEF Running
<1> QED BY <1>1 DEF CmdOk, Ended, Continues

LEMMA AdvancedOk ==
  ASSUME NEW c \in Encoders, NEW s, NEW t, CmdOk(c, t), t.pc = "write", Advanced(s, t)
  PROVE  CmdOk(c, s)
<1>1. c \notin Verifiers
  BY CliAssumption
<1>2. t.req \in EncodeRequests \cup KeyRequests /\ May(t.req) /\ t.part \in 1..Len(Parts(t.req))
  BY DEF CmdOk, Running
<1>3. Len(Parts(t.req)) \in Nat
  BY <1>2, NamesAre
<1>4. CASE Ended(s, t, "ok")
  BY <1>4, EndedOk
<1>5. CASE Continues(s, t) /\ s.pc = "write" /\ s.status = "none" /\ s.part = t.part + 1 /\ t.part < Len(Parts(t.req))
  <2>1. s.part \in 1..Len(Parts(s.req)) /\ s.part \in Nat \ {0} /\ s.req = t.req
    BY <1>2, <1>3, <1>5 DEF Continues
  <2> QED BY <1>1, <1>2, <1>5, <2>1 DEF CmdOk, Continues, Running
<1>6. CASE Continues(s, t) /\ s.pc = "read" /\ s.status = "none" /\ s.part = t.part /\ t.req.cmd = "encode"
  <2>1. s.part \in 1..Len(Parts(s.req)) /\ s.part \in Nat \ {0} /\ s.req = t.req
    BY <1>2, <1>3, <1>6 DEF Continues
  <2> QED BY <1>1, <1>2, <1>6, <2>1 DEF CmdOk, Continues, Running
<1> QED BY <1>4, <1>5, <1>6 DEF Advanced

LEMMA CmdOkStep ==
  ASSUME Shaped, [CliNext]_cliVars
  PROVE  DOMAIN cmds' = Commands /\ \A c \in Commands : CmdOk(c, cmds'[c])
<1>0. DOMAIN cmds = Commands /\ \A c \in Commands : CmdOk(c, cmds[c])
  BY DEF Shaped
<1>a. ASSUME NEW c \in Commands, Others(c), CmdOk(c, cmds'[c])
      PROVE  DOMAIN cmds' = Commands /\ \A d \in Commands : CmdOk(d, cmds'[d])
  <2> SUFFICES ASSUME NEW d \in Commands PROVE CmdOk(d, cmds'[d])
    BY <1>a DEF Others
  <2>1. CASE d = c
    BY <1>a, <2>1
  <2>2. CASE d # c
    <3>1. cmds'[d] = cmds[d]
      BY <1>a, <2>2 DEF Others
    <3> QED BY <1>0, <3>1
  <2> QED BY <2>1, <2>2
<1>1. CASE Unmoved \/ \E n \in FileNames : Tampers(n)
  <2>1. cmds' = cmds
    BY <1>1 DEF Unmoved, Tampers
  <2> QED BY <1>0, <2>1
<1>2. ASSUME NEW c \in Encoders, StartWriting(c) PROVE Others(c) /\ CmdOk(c, cmds'[c])
  <2>1. PICK s, r : s = cmds'[c] /\ Others(c) /\ r \in EncodeRequests \cup KeyRequests /\ Begun(s, r)
    BY <1>2, StartWritingIs
  <2>2. c \notin Verifiers
    BY CliAssumption
  <2>3. CASE s.pc = "write" /\ s.status = "none" /\ May(r)
    <3>1. Len(Parts(r)) \in Nat \ {0}
      BY <2>1, <2>3, NamesAre
    <3>2. s.part \in 1..Len(Parts(s.req)) /\ s.part \in Nat \ {0}
      BY <2>1, <3>1 DEF Begun
    <3>3. CmdOk(c, s)
      BY <2>1, <2>2, <2>3, <3>2 DEF CmdOk, Begun
    <3> QED BY <2>1, <3>3
  <2>4. CASE s.pc = "done" /\ s.status = "error"
    <3>1. s.part = 1 /\ ~ Running(c, s)
      BY <2>1, <2>4 DEF Begun, Running
    <3>2. CmdOk(c, s)
      BY <2>1, <2>2, <2>4, <3>1 DEF CmdOk, Begun
    <3> QED BY <2>1, <3>2
  <2> QED BY <2>1, <2>3, <2>4 DEF Begun
<1>3. ASSUME NEW c \in Encoders, WritePart(c) PROVE Others(c) /\ CmdOk(c, cmds'[c])
  <2>1. PICK s, t : s = cmds'[c] /\ t = cmds[c]
    OBVIOUS
  <2>2. t.pc = "write" /\ Others(c) /\ (Advanced(s, t) \/ Ended(s, t, "error"))
    BY <1>3, <2>1, WritePartIs
  <2>3. CmdOk(c, t)
    BY <1>0, <2>1 DEF Commands
  <2> QED BY <2>1, <2>2, <2>3, AdvancedOk, EndedOk
<1>4. ASSUME NEW c \in Commands, ReadPart(c) PROVE Others(c) /\ CmdOk(c, cmds'[c])
  <2>1. PICK s, t : s = cmds'[c] /\ t = cmds[c]
    OBVIOUS
  <2>2. /\ t.pc = "read" /\ Others(c)
        /\ \/ Continues(s, t) /\ s.pc = "read" /\ s.status = t.status /\ s.part = t.part
           \/ Ended(s, t, "error")
    BY <1>4, <2>1, ReadPartIs
  <2>3. CmdOk(c, t)
    BY <1>0, <2>1
  <2>4. CASE Continues(s, t) /\ s.pc = "read" /\ s.status = t.status /\ s.part = t.part
    <3>1. Running(c, s) => Running(c, t)
      BY <2>2, <2>4 DEF Running
    <3>2. CmdOk(c, s)
      BY <2>2, <2>3, <2>4, <3>1 DEF CmdOk, Continues
    <3> QED BY <2>1, <2>2, <3>2
  <2>5. CASE Ended(s, t, "error")
    BY <2>1, <2>2, <2>3, <2>5, EndedOk
  <2> QED BY <2>2, <2>4, <2>5
<1>5. ASSUME NEW c \in Encoders, AuthenticateIs(c) \/ DiesIs(c) PROVE Others(c) /\ CmdOk(c, cmds'[c])
  <2>1. CmdOk(c, cmds[c])
    BY <1>0 DEF Commands
  <2>2. /\ cmds[c].pc \in {"write", "read"} /\ Others(c)
        /\ \E status \in {"ok", "error"} : Ended(cmds'[c], cmds[c], status)
    BY <1>5 DEF AuthenticateIs, DiesIs, Looks
  <2> QED BY <2>1, <2>2, EndedOk
<1>6. ASSUME NEW c \in Verifiers, StartVerify(c) PROVE Others(c) /\ CmdOk(c, cmds'[c])
  <2>1. PICK s, r : s = cmds'[c] /\ Others(c) /\ r \in VerifyRequests /\ Asked(s, r)
    BY <1>6, StartVerifyIs
  <2>2. c \notin Encoders
    BY CliAssumption
  <2>3. CmdOk(c, s)
    BY <2>1, <2>2 DEF CmdOk, Asked, Running
  <2> QED BY <2>1, <2>3
<1>7. ASSUME NEW c \in Verifiers, FinishIs(c) PROVE Others(c) /\ CmdOk(c, cmds'[c])
  <2>1. CmdOk(c, cmds[c])
    BY <1>0 DEF Commands
  <2>2. "ok" \notin Verdicts /\ "error" # "ok"
    BY DEF Verdicts
  <2>3. \A d : Chosen(c, d) # "ok"
    BY <2>2, ChosenIs
  <2>4. cmds[c].pc = "read" /\ Others(c) /\ \E status : status # "ok" /\ Ended(cmds'[c], cmds[c], status)
    BY <1>7, <2>2, <2>3 DEF FinishIs, Looks
  <2> QED BY <2>1, <2>4, EndedOk
<1> QED BY <1>a, <1>1, <1>2, <1>3, <1>4, <1>5, <1>6, <1>7, StepsAre DEF Commands

LEMMA ShapedStep ==
  ASSUME Shaped, [CliNext]_cliVars
  PROVE  Shaped'
<1>1. PICK E, F : E = Encoding /\ F = Encoding'
  OBVIOUS
<1>2. E \subseteq F
  BY <1>1, EncodingGrows, StepEvolves
<1>3. DOMAIN files = FileNames /\ \A n \in FileNames : FileOk(files[n], E)
  BY <1>1 DEF Shaped
<1>4. \A n \in FileNames : FileOk(files[n], F)
  BY <1>2, <1>3, FileOkGrows
<1> DEFINE Fine == DOMAIN files' = FileNames /\ \A n \in FileNames : FileOk(files'[n], F)
<1>5. Fine
  <2>1. CASE files' = files
    BY <1>3, <1>4, <2>1
  <2>2. ASSUME NEW n \in FileNames, Tampers(n) PROVE Fine
    <3>1. IsCarrier(files'[n], F)
      BY <1>1, <1>2, <2>2, FileOkGrows DEF Tampers
    <3> QED BY <1>4, <2>2, <3>1 DEF Tampers, Only, FileOk
  <2>3. ASSUME NEW c \in Encoders, WritePart(c) PROVE Fine
    <3>1. PICK t, n : t = cmds[c] /\ n = FileOf(t.req, t.part)
      OBVIOUS
    <3>2. /\ n \in FileNames /\ Others(c) /\ t.pc = "write"
          /\ \/ Only(n) /\ files'[n] = Made(c, t.req, t.part)
             \/ files' = files
      BY <2>3, <3>1, WritePartIs
    <3>3. ASSUME Only(n), files'[n] = Made(c, t.req, t.part) PROVE Fine
      <4>1. PICK g : g = Made(c, t.req, t.part)
        OBVIOUS
      <4>2. CASE t.req.cmd = "encode"
        <5>1. c \in Commands /\ c \in Encoding
          BY <3>1, <4>2 DEF Commands, Encoding
        <5>2. c \in F
          BY <1>1, <1>2, <5>1
        <5>3. \A id : Payload(id) \in g.data => id = c
          <6>1. g.data = {Payload(c)} \/ g.data = ShardData(c, t.req.spread, t.part)
            BY <4>1, <4>2, MadeData
          <6> QED BY <6>1, HoldsAtom, AtomsDiffer
        <5>4. IsCarrier(g, F)
          <6>1. DOMAIN g = CarrierFields /\ g.is = "carrier" /\ g.errs = 0
            BY <4>1, <4>2, MadeCarrier
          <6> QED BY <5>2, <5>3, <6>1 DEF IsCarrier
        <5> QED BY <1>4, <3>3, <4>1, <5>4 DEF Only, FileOk
      <4>3. CASE t.req.cmd # "encode"
        <5>1. g.is = "key"
          BY <4>1, <4>3, MadeKey
        <5> QED BY <1>4, <3>3, <4>1, <5>1 DEF Only, FileOk
      <4> QED BY <4>2, <4>3
    <3> QED BY <2>1, <3>2, <3>3
  <2> QED BY <2>1, <2>2, <2>3, StepsAre DEF Looks, Unmoved, AuthenticateIs, DiesIs, FinishIs
<1>6. DOMAIN cmds' = Commands /\ \A c \in Commands : CmdOk(c, cmds'[c])
  BY CmdOkStep
<1> QED BY <1>1, <1>5, <1>6 DEF Shaped

-----------------------------------------------------------------------------
(* What is written stays, and a group of files is of one command. *)

LEMMA AlikeTrans ==
  ASSUME NEW f, NEW g, NEW h
  PROVE  Alike(f, g) /\ Alike(g, h) => Alike(f, h)
BY DEF Alike

\* What t had written is there after the step, and s has not written more.
LEMMA KeptStays ==
  ASSUME Evolves, NEW c \in Encoders, NEW t, NEW s, Kept(c, t, files, touched), CmdOk(c, t), s.req = t.req,
         t.pc # "idle",
         \A i \in 1..Len(Parts(t.req)) : Running(c, s) /\ Wrote(s, i) => Running(c, t) /\ Wrote(t, i)
  PROVE  Kept(c, s, files', touched')
<1> SUFFICES ASSUME NEW i \in 1..Len(Parts(s.req)), Running(c, s), Wrote(s, i)
             PROVE  /\ files'[FileOf(s.req, i)] # Absent
                    /\ FileOf(s.req, i) \notin touched' => Alike(Made(c, s.req, i), files'[FileOf(s.req, i)])
  BY DEF Kept
<1>1. PICK n : n = FileOf(s.req, i)
  OBVIOUS
<1>2. Running(c, t) /\ Wrote(t, i)
  OBVIOUS
<1>3. n \in FileNames
  <2>1. t.req \in EncodeRequests \cup KeyRequests /\ May(t.req)
    BY <1>2 DEF CmdOk
  <2> QED BY <1>1, <2>1, NamesAre
<1>4. files[n] # Absent /\ (n \notin touched => Alike(Made(c, s.req, i), files[n]))
  BY <1>1, <1>2 DEF Kept
<1>5. files'[n] # Absent /\ (n \notin touched' => Alike(files[n], files'[n])) /\ touched \subseteq touched'
  BY <1>3, <1>4 DEF Evolves, NoMore
<1> QED BY <1>1, <1>4, <1>5, AlikeTrans

LEMMA KeptStep ==
  ASSUME Shaped, Filed, [CliNext]_cliVars, NEW c \in Encoders
  PROVE  Kept(c, cmds'[c], files', touched')
<1>1. PICK s, t : s = cmds'[c] /\ t = cmds[c]
  OBVIOUS
<1>2. Evolves /\ c \in Commands /\ CmdOk(c, t) /\ Kept(c, t, files, touched) /\ c \notin Verifiers
  BY <1>1, StepEvolves, CliAssumption DEF Shaped, Filed, Commands
<1>a. ASSUME s = t PROVE Kept(c, s, files', touched')
  <2>1. CASE t.pc = "idle"
    <3>1. t = Idle
      BY <1>2, <2>1 DEF CmdOk
    <3>2. ~ Running(c, t)
      BY <3>1 DEF Running, Idle
    <3> QED BY <1>a, <3>2 DEF Kept
  <2>2. CASE t.pc # "idle"
    BY <1>a, <1>2, <2>2, KeptStays
  <2> QED BY <2>1, <2>2
<1>b. ASSUME NEW d \in Commands, Others(d), d # c PROVE s = t
  BY <1>1, <1>2, <1>b DEF Others
<1>c. ASSUME NEW status, t.pc \in {"write", "read"}, Ended(s, t, status), status = "ok" => t.pc = "read"
      PROVE  Kept(c, s, files', touched')
  <2>1. s.req = t.req
    BY <1>c DEF Ended, Continues
  <2>2. \A i \in 1..Len(Parts(t.req)) : Running(c, s) /\ Wrote(s, i) => Running(c, t) /\ Wrote(t, i)
    BY <1>c DEF Ended, Running, Wrote
  <2> QED BY <1>2, <1>c, <2>1, <2>2, KeptStays
<1>3. CASE Unmoved \/ \E n \in FileNames : Tampers(n)
  BY <1>1, <1>3, <1>a DEF Unmoved, Tampers
<1>4. ASSUME NEW d \in Encoders, StartWriting(d) PROVE Kept(c, s, files', touched')
  <2>1. Others(d) /\ d \in Commands /\ \E r \in EncodeRequests \cup KeyRequests : Begun(cmds'[d], r)
    BY <1>4, StartWritingIs DEF Commands
  <2>2. CASE d = c
    <3>1. s.part = 1 /\ s.pc \in {"write", "done"} /\ s.status # "ok"
      BY <1>1, <2>1, <2>2 DEF Begun
    <3>2. \A i \in 1..Len(Parts(s.req)) : ~ Wrote(s, i)
      BY <3>1 DEF Wrote
    <3> QED BY <3>2 DEF Kept
  <2> QED BY <1>a, <1>b, <2>1, <2>2
<1>5. ASSUME NEW d \in Encoders, WritePart(d) PROVE Kept(c, s, files', touched')
  <2>1. Others(d) /\ d \in Commands
    BY <1>5, WritePartIs DEF Commands
  <2>2. ASSUME d = c PROVE Kept(c, s, files', touched')
    <3>1. PICK n : n = FileOf(t.req, t.part)
      OBVIOUS
    <3>2. /\ t.pc = "write" /\ n \in FileNames /\ touched' = touched
          /\ t.req \in EncodeRequests \cup KeyRequests /\ May(t.req) /\ t.part \in 1..Len(Parts(t.req))
          /\ \/ files[n] = Absent /\ files'[n] = Made(c, t.req, t.part) /\ Advanced(s, t)
             \/ Ended(s, t, "error")
      BY <1>1, <1>5, <2>2, <3>1, WritePartIs
    <3>3. CASE Ended(s, t, "error")
      BY <1>c, <3>2, <3>3
    <3>4. CASE files[n] = Absent /\ files'[n] = Made(c, t.req, t.part) /\ Advanced(s, t)
      <4>1. Kept(c, t, files', touched')
        BY <1>2, <3>2, KeptStays
      <4>2. s.req = t.req
        BY <3>4 DEF Advanced, Ended, Continues
      <4>3. Len(Parts(t.req)) \in Nat
        BY <3>2, NamesAre
      <4>4. \A i \in 1..Len(Parts(t.req)) : Wrote(s, i) => i = t.part \/ i < t.part
        BY <3>2, <3>4, <4>3 DEF Advanced, Ended, Wrote
      <4>5. Running(c, t)
        BY <3>2 DEF Running
      <4>6. ASSUME NEW i \in 1..Len(Parts(t.req)), Wrote(s, i)
            PROVE  /\ files'[FileOf(t.req, i)] # Absent
                   /\ FileOf(t.req, i) \notin touched' => Alike(Made(c, t.req, i), files'[FileOf(t.req, i)])
        <5>1. CASE i = t.part
          <6>1. PICK g : g = Made(c, t.req, i)
            OBVIOUS
          <6>2. g # Absent
            BY <6>1, MadeCarrier, MadeKey
          <6>3. files'[FileOf(t.req, i)] = g
            BY <3>1, <3>4, <5>1, <6>1
          <6> QED BY <6>1, <6>2, <6>3 DEF Alike
        <5>2. CASE i < t.part
          BY <4>1, <4>5, <5>2 DEF Kept, Wrote
        <5> QED BY <4>4, <4>6, <5>1, <5>2
      <4> QED BY <4>2, <4>6 DEF Kept
    <3> QED BY <3>2, <3>3, <3>4
  <2> QED BY <1>a, <1>b, <2>1, <2>2
<1>6. ASSUME NEW d \in Commands, ReadPart(d) PROVE Kept(c, s, files', touched')
  <2>1. Others(d)
    BY <1>6, ReadPartIs
  <2>2. CASE d = c
    <3>1. /\ t.pc = "read"
          /\ \/ Continues(s, t) /\ s.pc = "read" /\ s.status = t.status /\ s.part = t.part
             \/ Ended(s, t, "error")
      BY <1>1, <1>6, <2>2, ReadPartIs
    <3>2. CASE Ended(s, t, "error")
      BY <1>c, <3>1, <3>2
    <3>3. CASE Continues(s, t) /\ s.pc = "read" /\ s.status = t.status /\ s.part = t.part
      <4>1. s.req = t.req
        BY <3>3 DEF Continues
      <4>2. \A i \in 1..Len(Parts(t.req)) : Running(c, s) /\ Wrote(s, i) => Running(c, t) /\ Wrote(t, i)
        BY <3>1, <3>3 DEF Running, Wrote
      <4> QED BY <1>2, <3>1, <4>1, <4>2, KeptStays
    <3> QED BY <3>1, <3>2, <3>3
  <2> QED BY <1>a, <1>b, <2>1, <2>2
<1>7. ASSUME NEW d \in Encoders, AuthenticateIs(d) \/ DiesIs(d) PROVE Kept(c, s, files', touched')
  <2>1. Others(d) /\ d \in Commands
    BY <1>7 DEF AuthenticateIs, DiesIs, Looks, Commands
  <2>2. CASE d = c
    <3>1. \E status \in {"ok", "error"} :
            /\ t.pc \in {"write", "read"} /\ Ended(s, t, status) /\ (status = "ok" => t.pc = "read")
      BY <1>1, <1>7, <2>2 DEF AuthenticateIs, DiesIs
    <3> QED BY <1>c, <3>1
  <2> QED BY <1>a, <1>b, <2>1, <2>2
<1>8. ASSUME NEW d \in Verifiers, StartVerify(d) \/ FinishIs(d) PROVE Kept(c, s, files', touched')
  <2>1. Others(d) /\ d \in Commands /\ d # c
    BY <1>2, <1>8, StartVerifyIs DEF FinishIs, Looks, Commands
  <2> QED BY <1>a, <1>b, <2>1
<1> QED BY <1>1, <1>3, <1>4, <1>5, <1>6, <1>7, <1>8, StepsAre

\* A step that adds an untouched file is one that writes it.
LEMMA NewFiles ==
  ASSUME Shaped, [CliNext]_cliVars, NEW n \in FileNames, files[n] = Absent, files'[n] # Absent, n \notin touched'
  PROVE  \E c \in Encoders : /\ cmds[c].pc = "write" /\ n = FileOf(cmds[c].req, cmds[c].part)
                             /\ Others(c) /\ Advanced(cmds'[c], cmds[c])
                             /\ cmds[c].req \in EncodeRequests \cup KeyRequests /\ May(cmds[c].req)
                             /\ cmds[c].part \in 1..Len(Parts(cmds[c].req))
                             /\ files'[n] = Made(c, cmds[c].req, cmds[c].part)
<1>1. CASE files' = files
  BY <1>1
<1>2. ASSUME NEW m \in FileNames, Tampers(m) PROVE FALSE
  <2>1. m = n
    BY <1>2 DEF Tampers, Only
  <2>2. files[n].is = "carrier"
    BY <1>2, <2>1 DEF Tampers
  <2>3. Absent.is = "absent"
    BY DEF Absent
  <2> QED BY <2>2, <2>3
<1>3. ASSUME NEW c \in Encoders, WritePart(c)
      PROVE  /\ cmds[c].pc = "write" /\ n = FileOf(cmds[c].req, cmds[c].part)
             /\ Others(c) /\ Advanced(cmds'[c], cmds[c])
             /\ cmds[c].req \in EncodeRequests \cup KeyRequests /\ May(cmds[c].req)
             /\ cmds[c].part \in 1..Len(Parts(cmds[c].req))
             /\ files'[n] = Made(c, cmds[c].req, cmds[c].part)
  BY <1>3, WritePartIs DEF Only
<1> QED BY <1>1, <1>2, <1>3, StepsAre DEF Looks, Unmoved, AuthenticateIs, DiesIs, FinishIs

LEMMA AdvancedWins ==
  ASSUME NEW c \in Encoders, NEW s, NEW t, t.req \in EncodeRequests \cup KeyRequests, May(t.req),
         t.part \in 1..Len(Parts(t.req)), Advanced(s, t), Parts(t.req)[t.part] # 0
  PROVE  Won(c, s) /\ s.req = t.req
<1>1. Len(Parts(t.req)) > 1 /\ Len(Parts(t.req)) \in Nat
  BY NamesAre
<1> QED BY <1>1 DEF Advanced, Ended, Continues, Won

LEMMA OwnedStep ==
  ASSUME Shaped, Filed, [CliNext]_cliVars, NEW n \in FileNames
  PROVE  Owned(n)'
<1> SUFFICES ASSUME n \notin touched', files'[n] # Absent, n[2] # 0
             PROVE  \E c \in Encoders : /\ files'[n].by = c /\ Won(c, cmds'[c])
                                        /\ \E i \in 1..Len(Parts(cmds'[c].req)) : n = FileOf(cmds'[c].req, i)
  BY DEF Owned
<1>1. Evolves
  BY StepEvolves
<1>2. CASE files[n] # Absent
  <2>1. n \notin touched /\ files'[n].by = files[n].by
    BY <1>1, <1>2 DEF Evolves, NoMore, Alike
  <2>2. PICK c \in Encoders : /\ files[n].by = c /\ Won(c, cmds[c])
                              /\ \E i \in 1..Len(Parts(cmds[c].req)) : n = FileOf(cmds[c].req, i)
    BY <1>2, <2>1 DEF Filed, Owned
  <2>3. c \in Commands /\ CmdOk(c, cmds[c])
    BY DEF Commands, Shaped
  <2>4. cmds[c].pc # "idle"
    BY <2>2, <2>3 DEF Won, CmdOk, Idle
  <2>5. cmds'[c].req = cmds[c].req /\ Won(c, cmds'[c])
    BY <1>1, <2>2, <2>3, <2>4 DEF Evolves
  <2> QED BY <2>1, <2>2, <2>5
<1>3. CASE files[n] = Absent
  <2>1. PICK c \in Encoders :
          /\ n = FileOf(cmds[c].req, cmds[c].part) /\ Advanced(cmds'[c], cmds[c])
          /\ cmds[c].req \in EncodeRequests \cup KeyRequests /\ May(cmds[c].req)
          /\ cmds[c].part \in 1..Len(Parts(cmds[c].req))
          /\ files'[n] = Made(c, cmds[c].req, cmds[c].part)
    BY <1>3, NewFiles
  <2>2. Parts(cmds[c].req)[cmds[c].part] # 0
    BY <2>1, NamesAre
  <2>3. Won(c, cmds'[c]) /\ cmds'[c].req = cmds[c].req
    BY <2>1, <2>2, AdvancedWins
  <2>4. files'[n].by = c
    BY <2>1, MadeCarrier, MadeKey
  <2> QED BY <2>1, <2>3, <2>4
<1> QED BY <1>2, <1>3

\* A command comes to have won by writing the first of its files.
LEMMA NewWinners ==
  ASSUME Shaped, [CliNext]_cliVars, NEW c \in Encoders, Won(c, cmds'[c]), ~ Won(c, cmds[c])
  PROVE  /\ files[FileOf(cmds'[c].req, 1)] = Absent /\ Others(c)
         /\ cmds'[c].req \in EncodeRequests \cup KeyRequests /\ May(cmds'[c].req)
<1>1. PICK s, t : s = cmds'[c] /\ t = cmds[c]
  OBVIOUS
<1>2. c \in Commands /\ c \notin Verifiers /\ CmdOk(c, t) /\ s # t
  BY <1>1, CliAssumption DEF Commands, Shaped
<1>3. ASSUME NEW d \in Commands, Others(d) PROVE d = c
  BY <1>1, <1>2, <1>3 DEF Others
<1>4. ASSUME NEW status, Ended(s, t, status) PROVE FALSE
  BY <1>1, <1>4 DEF Ended, Won
<1>5. ASSUME NEW d \in Encoders, StartWriting(d) PROVE FALSE
  <2>1. d = c /\ \E r : Begun(cmds'[d], r)
    BY <1>3, <1>5, StartWritingIs DEF Commands
  <2> QED BY <2>1 DEF Begun, Won
<1>6. ASSUME NEW d \in Encoders, WritePart(d)
      PROVE  /\ files[FileOf(s.req, 1)] = Absent /\ Others(c)
             /\ s.req \in EncodeRequests \cup KeyRequests /\ May(s.req)
  <2>1. d = c
    BY <1>3, <1>6, WritePartIs DEF Commands
  <2>2. /\ Others(c) /\ t.req \in EncodeRequests \cup KeyRequests /\ May(t.req)
        /\ t.part \in 1..Len(Parts(t.req))
        /\ \/ files[FileOf(t.req, t.part)] = Absent /\ Advanced(s, t)
           \/ Ended(s, t, "error")
    BY <1>1, <1>6, <2>1, WritePartIs
  <2>3. files[FileOf(t.req, t.part)] = Absent /\ Advanced(s, t)
    BY <1>4, <2>2
  <2>4. t.part = 1 /\ s.req = t.req
    BY <1>1, <2>2, <2>3 DEF Advanced, Ended, Continues, Won
  <2> QED BY <2>2, <2>3, <2>4
<1>7. ASSUME NEW d \in Commands, ReadPart(d) PROVE FALSE
  <2>1. d = c
    BY <1>3, <1>7, ReadPartIs
  <2>2. s.part = t.part
    BY <1>1, <1>7, <2>1, ReadPartIs DEF Ended
  <2> QED BY <1>1, <2>2 DEF Won
<1>8. ASSUME NEW d \in Encoders, AuthenticateIs(d) \/ DiesIs(d) PROVE FALSE
  <2>1. d = c
    BY <1>3, <1>8 DEF AuthenticateIs, DiesIs, Looks, Commands
  <2> QED BY <1>1, <1>4, <1>8, <2>1 DEF AuthenticateIs, DiesIs
<1>9. ASSUME NEW d \in Verifiers, StartVerify(d) \/ FinishIs(d) PROVE FALSE
  <2>1. d = c
    BY <1>3, <1>9, StartVerifyIs DEF FinishIs, Looks, Commands
  <2> QED BY <1>2, <2>1
<1>10. CASE cmds' = cmds
  BY <1>1, <1>2, <1>10
<1> QED BY <1>1, <1>5, <1>6, <1>7, <1>8, <1>9, <1>10, StepsAre DEF Unmoved, Tampers

LEMMA WonAloneStep ==
  ASSUME Shaped, Filed, [CliNext]_cliVars
  PROVE  WonAlone'
<1> SUFFICES ASSUME NEW c \in Encoders, NEW d \in Encoders, Won(c, cmds'[c]), Won(d, cmds'[d]),
                    FileOf(cmds'[c].req, 1) = FileOf(cmds'[d].req, 1)
             PROVE  c = d
  BY DEF WonAlone
<1>1. Evolves
  BY StepEvolves
<1>2. \A e \in Encoders : e \in Commands /\ CmdOk(e, cmds[e]) /\ Kept(e, cmds[e], files, touched)
  BY DEF Commands, Shaped, Filed
<1>3. ASSUME NEW e \in Encoders, Won(e, cmds[e])
      PROVE  cmds'[e].req = cmds[e].req /\ files[FileOf(cmds'[e].req, 1)] # Absent
  <2>1. CmdOk(e, cmds[e]) /\ e \in Commands
    BY <1>2
  <2>2. cmds[e].pc # "idle" /\ cmds[e].part > 1
    BY <1>3, <2>1 DEF Won, CmdOk, Idle
  <2>3. cmds'[e].req = cmds[e].req
    BY <1>1, <2>1, <2>2 DEF Evolves
  <2>4. Running(e, cmds[e])
    BY <2>2 DEF Running
  <2>5. cmds[e].req \in EncodeRequests \cup KeyRequests /\ May(cmds[e].req)
    BY <2>1, <2>2, <2>4 DEF CmdOk
  <2>6. 1 \in 1..Len(Parts(cmds[e].req)) /\ Wrote(cmds[e], 1)
    BY <2>2, <2>5, NamesAre DEF Wrote
  <2> QED BY <1>2, <2>3, <2>4, <2>6 DEF Kept
<1>4. CASE Won(c, cmds[c]) /\ Won(d, cmds[d])
  BY <1>3, <1>4 DEF Filed, WonAlone
<1>5. CASE ~ Won(c, cmds[c]) /\ Won(d, cmds[d])
  BY <1>3, <1>5, NewWinners
<1>6. CASE Won(c, cmds[c]) /\ ~ Won(d, cmds[d])
  BY <1>3, <1>6, NewWinners
<1>7. CASE ~ Won(c, cmds[c]) /\ ~ Won(d, cmds[d])
  <2>1. Others(c) /\ Others(d)
    BY <1>7, NewWinners
  <2> QED BY <1>2, <1>7, <2>1 DEF Others
<1> QED BY <1>4, <1>5, <1>6, <1>7

LEMMA FiledStep ==
  ASSUME Shaped, Filed, [CliNext]_cliVars
  PROVE  Filed'
BY KeptStep, OwnedStep, WonAloneStep DEF Filed

\* A running command's names, and where they are.
LEMMA OwnIs ==
  ASSUME NEW c, cmds[c].req \in EncodeRequests \cup KeyRequests, May(cmds[c].req)
  PROVE  /\ \A n \in Own(c) : \E i \in 1..Len(Parts(cmds[c].req)) : n = FileOf(cmds[c].req, i)
         /\ \A i \in 1..Len(Parts(cmds[c].req)) : FileOf(cmds[c].req, i) \in Own(c)
<1>1. DOMAIN Parts(cmds[c].req) = 1..Len(Parts(cmds[c].req))
  BY NamesAre
<1> QED BY <1>1 DEF Own, FileOf

LEMMA GroupsOfOne ==
  ASSUME Shaped, Filed
  PROVE  OneCommandPerGroup
<1>1. ASSUME NEW n \in FileNames \ touched, NEW m \in FileNames \ touched,
             n[1] = m[1], n[2] # 0, m[2] # 0, n[2] > 10 <=> m[2] > 10,
             files[n] # Absent, files[m] # Absent
      PROVE  files[n].by = files[m].by
  <2>1. PICK c \in Encoders : /\ files[n].by = c /\ Won(c, cmds[c])
                              /\ \E i \in 1..Len(Parts(cmds[c].req)) : n = FileOf(cmds[c].req, i)
    BY <1>1 DEF Filed, Owned
  <2>2. PICK d \in Encoders : /\ files[m].by = d /\ Won(d, cmds[d])
                              /\ \E i \in 1..Len(Parts(cmds[d].req)) : m = FileOf(cmds[d].req, i)
    BY <1>1 DEF Filed, Owned
  <2>3. ASSUME NEW e \in Encoders, Won(e, cmds[e]), NEW i \in 1..Len(Parts(cmds[e].req)), NEW x,
               x = FileOf(cmds[e].req, i), x[2] # 0
        PROVE  FileOf(cmds[e].req, 1) = <<x[1], IF x[2] > 10 THEN 11 ELSE 1>>
    <3>1. CmdOk(e, cmds[e]) /\ cmds[e].part > 1
      BY <2>3 DEF Shaped, Commands, Won
    <3>2. cmds[e].pc # "idle" /\ Running(e, cmds[e])
      BY <3>1 DEF CmdOk, Idle, Running
    <3>3. cmds[e].req \in EncodeRequests \cup KeyRequests /\ May(cmds[e].req)
      BY <3>1, <3>2 DEF CmdOk
    <3>4. x[1] = cmds[e].req.base /\ x[2] = Parts(cmds[e].req)[i]
      BY <2>3, <3>3, NamesAre
    <3>5. Parts(cmds[e].req)[1] = IF x[2] > 10 THEN 11 ELSE 1
      BY <2>3, <3>3, <3>4, NamesAre
    <3> QED BY <3>4, <3>5 DEF FileOf
  <2>4. FileOf(cmds[c].req, 1) = <<n[1], IF n[2] > 10 THEN 11 ELSE 1>>
    BY <1>1, <2>1, <2>3
  <2>5. FileOf(cmds[d].req, 1) = <<m[1], IF m[2] > 10 THEN 11 ELSE 1>>
    BY <1>1, <2>2, <2>3
  <2>6. FileOf(cmds[c].req, 1) = FileOf(cmds[d].req, 1)
    BY <1>1, <2>4, <2>5
  <2> QED BY <2>1, <2>2, <2>6 DEF Filed, WonAlone
<1>2. ASSUME NEW c \in Commands, cmds[c].status = "ok", NEW n \in Own(c) \ touched
      PROVE  files[n] # Absent /\ files[n].by = c
  <2>1. CmdOk(c, cmds[c]) /\ c \in Encoders /\ cmds[c].pc # "idle"
    BY <1>2 DEF Shaped, CmdOk
  <2>2. Running(c, cmds[c])
    BY <1>2, <2>1 DEF Running
  <2>3. cmds[c].req \in EncodeRequests \cup KeyRequests /\ May(cmds[c].req)
    BY <2>1, <2>2 DEF CmdOk
  <2>4. PICK i \in 1..Len(Parts(cmds[c].req)) : n = FileOf(cmds[c].req, i)
    BY <1>2, <2>3, OwnIs
  <2>5. files[n] # Absent /\ Alike(Made(c, cmds[c].req, i), files[n])
    BY <1>2, <2>1, <2>2, <2>4 DEF Filed, Kept, Wrote
  <2>6. Made(c, cmds[c].req, i).by = c
    BY MadeCarrier, MadeKey
  <2> QED BY <2>5, <2>6 DEF Alike
<1> QED BY <1>1, <1>2 DEF OneCommandPerGroup

-----------------------------------------------------------------------------
(* What is read, and what is reported. *)

LEMMA NoMoreTrans ==
  ASSUME NEW f, NEW g, NEW h, NEW E, NEW F, IsCarrier(f, E), FileOk(g, E), FileOk(h, F),
         NoMore(f, g), NoMore(g, h)
  PROVE  NoMore(f, h)
<1>1. Absent.is = "absent" /\ f.is = "carrier" /\ f.errs \in Nat
  BY DEF Absent, IsCarrier
<1>2. g.is = "carrier" /\ h.is = "carrier"
  BY <1>1 DEF NoMore, Alike
<1>3. g.errs \in Nat /\ h.errs \in Nat
  BY <1>1, <1>2 DEF FileOk, IsCarrier
<1>4. f.errs <= h.errs
  BY <1>1, <1>2, <1>3 DEF NoMore
<1> QED BY <1>4, AlikeTrans DEF NoMore

LEMMA ReadingIs ==
  ASSUME NEW c \in Commands, NEW t, CmdOk(c, t), t.pc = "read"
  PROVE  t.req.cmd \in {"encode", "verify"} /\ t.req.base \in Bases /\ Admitted(t.req)
<1>1. CASE c \in Encoders
  <2>1. t.req \in EncodeRequests \cup KeyRequests /\ t.req.cmd = "encode" /\ May(t.req)
    BY <1>1 DEF CmdOk, Running
  <2> QED BY <2>1, RequestsAssumption DEF May
<1>2. CASE c \in Verifiers
  <2>1. t.req \in VerifyRequests /\ Admitted(t.req)
    BY <1>2 DEF CmdOk
  <2> QED BY <2>1, RequestsAssumption
<1> QED BY <1>1, <1>2 DEF Commands

LEMMA NothingRead ==
  ASSUME NEW s, NEW fs, NEW gone, NEW E, s.reads = <<>>, s.pc = "read" => Len(Reads(s.req)) \in Nat
  PROVE  ReadsOk(s, fs, gone, E)
<1>1. s.reads \in Seq({}) /\ DOMAIN s.reads = {} /\ Len(s.reads) = 0
  OBVIOUS
<1> QED BY <1>1 DEF ReadsOk

\* What has been read is what the files were.
LEMMA ReadsStay ==
  ASSUME Shaped, Shaped', Evolves, NEW c \in Commands, NEW t, NEW s, CmdOk(c, t),
         ReadsOk(t, files, touched, Encoding), s.reads = t.reads, s.pc = "read", t.pc = "read", s.req = t.req
  PROVE  ReadsOk(s, files', touched', Encoding')
<1>1. PICK E, F, fs : E = Encoding /\ F = Encoding' /\ fs = files'
  OBVIOUS
<1>2. E \subseteq F
  BY <1>1, EncodingGrows
<1>3. \A n \in FileNames : FileOk(files[n], E) /\ FileOk(fs[n], F)
  BY <1>1 DEF Shaped
<1>4. /\ \E R : s.reads \in Seq(R)
      /\ \A j \in DOMAIN s.reads : IsCarrier(s.reads[j], E)
      /\ Len(s.reads) <= Len(Reads(s.req))
      /\ \A j \in DOMAIN s.reads :
           LET n == <<s.req.base, Reads(s.req)[j]>>
           IN n \notin touched => files[n] # Absent /\ NoMore(s.reads[j], files[n])
  BY <1>1 DEF ReadsOk
<1>5. \A j \in DOMAIN s.reads : <<s.req.base, Reads(s.req)[j]>> \in FileNames
  <2>1. Len(Reads(s.req)) \in Nat /\ \A j \in 1..Len(Reads(s.req)) : <<s.req.base, Reads(s.req)[j]>> \in FileNames
    BY ReadingIs, ReadsAre
  <2>2. PICK R : s.reads \in Seq(R)
    BY <1>4
  <2>3. DOMAIN s.reads = 1..Len(s.reads) /\ Len(s.reads) \in Nat
    BY <2>2, LenProperties
  <2> QED BY <1>4, <2>1, <2>3
<1>6. \A j \in DOMAIN s.reads : IsCarrier(s.reads[j], F)
  BY <1>2, <1>4, FileOkGrows
<1>7. ASSUME NEW j \in DOMAIN s.reads, NEW n, n = <<s.req.base, Reads(s.req)[j]>>, n \notin touched'
      PROVE  fs[n] # Absent /\ NoMore(s.reads[j], fs[n])
  <2>1. n \in FileNames /\ n \notin touched
    BY <1>5, <1>7 DEF Evolves
  <2>2. files[n] # Absent /\ NoMore(s.reads[j], files[n])
    BY <1>4, <1>7, <2>1
  <2>3. fs[n] # Absent /\ NoMore(files[n], fs[n])
    BY <1>1, <1>7, <2>1, <2>2 DEF Evolves
  <2> QED BY <1>3, <1>4, <2>1, <2>2, <2>3, NoMoreTrans
<1> QED BY <1>1, <1>4, <1>6, <1>7 DEF ReadsOk

\* A command that has ended keeps the first it has read.
LEMMA ReadsEnd ==
  ASSUME NEW t, NEW s, NEW status, NEW E, NEW F, NEW fs, NEW gone, NEW gs, NEW lost, E \subseteq F,
         ReadsOk(t, gs, lost, E), Ended(s, t, status)
  PROVE  ReadsOk(s, fs, gone, F)
<1>1. s.pc = "done" /\ s.reads = IF t.reads = <<>> THEN <<>> ELSE <<Head(t.reads)>>
  BY DEF Ended
<1>2. CASE t.reads = <<>>
  BY <1>1, <1>2, NothingRead
<1>3. CASE t.reads # <<>>
  <2>1. PICK R : t.reads \in Seq(R)
    BY DEF ReadsOk
  <2>2. Head(t.reads) = t.reads[1] /\ 1 \in DOMAIN t.reads
    BY <1>3, <2>1
  <2>3. IsCarrier(Head(t.reads), F)
    <3>1. IsCarrier(t.reads[1], E)
      BY <2>2 DEF ReadsOk
    <3> QED BY <2>2, <3>1, FileOkGrows
  <2>4. PICK x : x = Head(t.reads)
    OBVIOUS
  <2>5. s.reads = <<x>>
    BY <1>1, <1>3, <2>4
  <2>6. s.reads \in Seq({x}) /\ DOMAIN s.reads = {1} /\ s.reads[1] = x
    BY <2>5
  <2> QED BY <1>1, <2>3, <2>4, <2>6 DEF ReadsOk
<1> QED BY <1>2, <1>3

LEMMA ReadsStep ==
  ASSUME Shaped, [CliNext]_cliVars, NEW c \in Commands, ReadsOk(cmds[c], files, touched, Encoding)
  PROVE  ReadsOk(cmds'[c], files', touched', Encoding')
<1>1. PICK s, t, E, F, fs, gone :
        s = cmds'[c] /\ t = cmds[c] /\ E = Encoding /\ F = Encoding' /\ fs = files' /\ gone = touched'
  OBVIOUS
<1>2. Evolves /\ Shaped' /\ CmdOk(c, t) /\ CmdOk(c, s) /\ ReadsOk(t, files, touched, E)
  BY <1>1, StepEvolves, ShapedStep DEF Shaped
<1>3. E \subseteq F
  BY <1>1, <1>2, EncodingGrows
<1>4. s.pc = "read" => Len(Reads(s.req)) \in Nat
  <2> HAVE s.pc = "read"
  <2> QED BY <1>2, ReadingIs, ReadsAre
<1>a. ASSUME s = t PROVE ReadsOk(s, fs, gone, F)
  <2>1. CASE t.pc = "read"
    BY <1>1, <1>2, <1>a, <2>1, ReadsStay
  <2>2. CASE t.pc # "read"
    <3>1. \A j \in DOMAIN s.reads : IsCarrier(s.reads[j], F)
      BY <1>2, <1>3, <1>a, FileOkGrows DEF ReadsOk
    <3> QED BY <1>2, <1>a, <2>2, <3>1 DEF ReadsOk
  <2> QED BY <2>1, <2>2
<1>b. ASSUME NEW d \in Commands, Others(d), d # c PROVE s = t
  BY <1>1, <1>b DEF Others
<1>c. ASSUME NEW status, Ended(s, t, status) PROVE ReadsOk(s, fs, gone, F)
  BY <1>2, <1>3, <1>c, ReadsEnd
<1>d. ASSUME s.reads = <<>> PROVE ReadsOk(s, fs, gone, F)
  BY <1>4, <1>d, NothingRead
<1>5. ASSUME Unmoved \/ \E n \in FileNames : Tampers(n) PROVE ReadsOk(s, fs, gone, F)
  BY <1>1, <1>5, <1>a DEF Unmoved, Tampers
<1>6. ASSUME NEW d \in Encoders, StartWriting(d) PROVE ReadsOk(s, fs, gone, F)
  <2>1. d \in Commands /\ Others(d) /\ \E r : Begun(cmds'[d], r)
    BY <1>6, StartWritingIs DEF Commands
  <2>2. d = c => s.reads = <<>>
    BY <1>1, <2>1 DEF Begun
  <2> QED BY <1>a, <1>b, <1>d, <2>1, <2>2
<1>7. ASSUME NEW d \in Encoders, WritePart(d) PROVE ReadsOk(s, fs, gone, F)
  <2>1. /\ d \in Commands /\ Others(d) /\ cmds[d].pc = "write"
        /\ Advanced(cmds'[d], cmds[d]) \/ Ended(cmds'[d], cmds[d], "error")
    BY <1>7, WritePartIs DEF Commands
  <2>2. ASSUME d = c PROVE s.reads = <<>>
    <3>1. t.reads = <<>>
      BY <1>1, <1>2, <2>1, <2>2 DEF ReadsOk
    <3> QED BY <1>1, <2>1, <2>2, <3>1 DEF Advanced, Ended
  <2> QED BY <1>a, <1>b, <1>d, <2>1, <2>2
<1>8. ASSUME NEW d \in Commands, ReadPart(d), Looks(d) PROVE ReadsOk(s, fs, gone, F)
  <2>1. Others(d) /\ fs = files /\ gone = touched
    BY <1>1, <1>8 DEF Looks
  <2>2. ASSUME d = c PROVE ReadsOk(s, fs, gone, F)
    <3>1. PICK m, n : m = Len(t.reads) + 1 /\ n = <<t.req.base, Reads(t.req)[m]>>
      OBVIOUS
    <3>2. /\ t.pc = "read" /\ m <= Len(Reads(t.req))
          /\ \/ /\ CanRead(files[n], t.req) /\ Continues(s, t) /\ s.pc = "read"
                /\ s.reads = Append(t.reads, files[n])
             \/ Ended(s, t, "error")
      BY <1>1, <1>8, <2>2, <3>1, ReadPartIs
    <3>3. CASE Ended(s, t, "error")
      BY <1>c, <3>3
    <3>4. CASE CanRead(files[n], t.req) /\ Continues(s, t) /\ s.pc = "read" /\ s.reads = Append(t.reads, files[n])
      <4>1. PICK R, f : t.reads \in Seq(R) /\ f = files[n]
        BY <1>2 DEF ReadsOk
      <4>2. /\ s.reads \in Seq(R \cup {f}) /\ Len(s.reads) = m /\ m \in Nat /\ DOMAIN s.reads = 1..m
            /\ DOMAIN t.reads = 1..(m - 1) /\ m - 1 \in Nat
            /\ s.reads[m] = f /\ \A j \in 1..(m - 1) : s.reads[j] = t.reads[j]
        BY <3>1, <3>4, <4>1
      <4>3. s.req = t.req
        BY <3>4 DEF Continues
      <4>4. Len(Reads(t.req)) \in Nat /\ DOMAIN Reads(t.req) = 1..Len(Reads(t.req)) /\ n \in FileNames
        <5>1. Len(Reads(t.req)) \in Nat /\ \A j \in 1..Len(Reads(t.req)) : <<t.req.base, Reads(t.req)[j]>> \in FileNames
              /\ DOMAIN Reads(t.req) = 1..Len(Reads(t.req))
          BY <1>2, <3>2, ReadingIs, ReadsAre
        <5>2. m \in 1..Len(Reads(t.req))
          BY <3>2, <4>2, <5>1
        <5> QED BY <3>1, <5>1, <5>2
      <4>5. f # Absent /\ IsCarrier(f, F) /\ NoMore(f, f)
        <5>1. f.is = "carrier" /\ Absent.is = "absent"
          BY <3>4, <4>1 DEF CanRead, Absent
        <5>2. FileOk(f, E)
          BY <1>1, <4>1, <4>4 DEF Shaped
        <5>3. IsCarrier(f, E)
          BY <5>1, <5>2 DEF FileOk
        <5> QED BY <1>3, <5>1, <5>2, <5>3, FileOkGrows, AlikeSelf
      <4>6. \A j \in 1..m : IsCarrier(s.reads[j], F)
        <5> TAKE j \in 1..m
        <5>1. CASE j = m
          BY <4>2, <4>5, <5>1
        <5>2. CASE j # m
          <6>1. j \in DOMAIN t.reads /\ s.reads[j] = t.reads[j]
            BY <4>2, <5>2
          <6>2. IsCarrier(t.reads[j], E)
            BY <1>2, <6>1 DEF ReadsOk
          <6> QED BY <1>3, <6>1, <6>2, FileOkGrows
        <5> QED BY <5>1, <5>2
      <4>7. ASSUME NEW j \in 1..m, NEW x, x = <<s.req.base, Reads(s.req)[j]>>, x \notin gone
            PROVE  fs[x] # Absent /\ NoMore(s.reads[j], fs[x])
        <5>1. CASE j = m
          BY <2>1, <3>1, <4>1, <4>2, <4>3, <4>5, <4>7, <5>1
        <5>2. CASE j # m
          <6>1. j \in DOMAIN t.reads /\ s.reads[j] = t.reads[j]
            BY <4>2, <5>2
          <6> QED BY <1>2, <2>1, <3>2, <4>3, <4>7, <6>1 DEF ReadsOk
        <5> QED BY <5>1, <5>2
      <4> QED BY <3>2, <3>4, <4>2, <4>3, <4>6, <4>7 DEF ReadsOk
    <3> QED BY <3>2, <3>3, <3>4
  <2> QED BY <1>a, <1>b, <2>1, <2>2
<1>9. ASSUME NEW d \in Encoders, AuthenticateIs(d) \/ DiesIs(d) PROVE ReadsOk(s, fs, gone, F)
  <2>1. d \in Commands /\ Others(d) /\ \E status : Ended(cmds'[d], cmds[d], status)
    BY <1>9 DEF AuthenticateIs, DiesIs, Looks, Commands
  <2> QED BY <1>1, <1>a, <1>b, <1>c, <2>1
<1>10. ASSUME NEW d \in Verifiers, StartVerify(d) PROVE ReadsOk(s, fs, gone, F)
  <2>1. d \in Commands /\ Others(d) /\ \E r : Asked(cmds'[d], r)
    BY <1>10, StartVerifyIs DEF Commands
  <2>2. d = c => s.reads = <<>>
    BY <1>1, <2>1 DEF Asked
  <2> QED BY <1>a, <1>b, <1>d, <2>1, <2>2
<1>11. ASSUME NEW d \in Verifiers, FinishIs(d) PROVE ReadsOk(s, fs, gone, F)
  <2>1. d \in Commands /\ Others(d) /\ \E status : Ended(cmds'[d], cmds[d], status)
    BY <1>11 DEF FinishIs, Looks, Commands
  <2> QED BY <1>1, <1>a, <1>b, <1>c, <2>1
<1>12. ReadsOk(s, fs, gone, F)
  BY <1>5, <1>6, <1>7, <1>8, <1>9, <1>10, <1>11, StepsAre
<1> QED BY <1>1, <1>12

\* What verify saw reported is reported.
LEMMA SawStep ==
  ASSUME Shaped, [CliNext]_cliVars, NEW c \in Commands, SawOk(cmds[c])
  PROVE  SawOk(cmds[c])'
<1> SUFFICES ASSUME NEW e \in cmds'[c].saw
             PROVE  e \in Encoders /\ cmds'[e].req.cmd = "encode" /\ cmds'[e].status = "ok"
  BY DEF SawOk
<1>1. Evolves
  BY StepEvolves
<1>2. ASSUME NEW e1 \in Commands, cmds[e1].status = "ok"
      PROVE  e1 \in Encoders /\ cmds'[e1] = cmds[e1]
  <2>1. CmdOk(e1, cmds[e1])
    BY DEF Shaped
  <2>2. e1 \in Encoders /\ cmds[e1].pc = "done"
    BY <1>2, <2>1 DEF CmdOk
  <2> QED BY <1>1, <2>2 DEF Evolves
<1>3. CASE cmds'[c].saw = cmds[c].saw
  BY <1>2, <1>3 DEF SawOk, Commands
<1>4. CASE cmds'[c].saw = {}
  BY <1>4
<1>5. CASE cmds'[c].saw = {x \in Commands : cmds[x].req.cmd = "encode" /\ cmds[x].status = "ok"}
  BY <1>2, <1>5
<1>6. \/ cmds'[c].saw = cmds[c].saw \/ cmds'[c].saw = {}
      \/ cmds'[c].saw = {x \in Commands : cmds[x].req.cmd = "encode" /\ cmds[x].status = "ok"}
  <2>1. CASE cmds[c].pc # "idle"
    BY <1>1, <2>1 DEF Evolves
  <2>2. ASSUME NEW d \in Commands, Others(d), d # c PROVE cmds'[c].saw = cmds[c].saw
    BY <2>2 DEF Others
  <2>3. ASSUME cmds[c].pc = "idle"
        PROVE  \/ cmds' = cmds
               \/ \E d \in Commands : Others(d) /\ d # c
               \/ cmds'[c].saw = {}
               \/ cmds'[c].saw = {x \in Commands : cmds[x].req.cmd = "encode" /\ cmds[x].status = "ok"}
    <3>1. ASSUME NEW d \in Encoders, StartWriting(d)
          PROVE  d \in Commands /\ Others(d) /\ (d = c => cmds'[c].saw = {})
      BY <3>1, StartWritingIs DEF Begun, Commands
    <3>2. ASSUME NEW d \in Verifiers, StartVerify(d)
          PROVE  /\ d \in Commands /\ Others(d)
                 /\ d = c => cmds'[c].saw = {x \in Commands : cmds[x].req.cmd = "encode" /\ cmds[x].status = "ok"}
      BY <3>2, StartVerifyIs DEF Asked, Commands
    <3>3. ASSUME NEW d \in Encoders, WritePart(d) PROVE d \in Commands /\ Others(d) /\ d # c
      BY <2>3, <3>3, WritePartIs DEF Commands
    <3>4. ASSUME NEW d \in Commands, ReadPart(d) PROVE Others(d) /\ d # c
      BY <2>3, <3>4, ReadPartIs
    <3>5. ASSUME NEW d \in Encoders, AuthenticateIs(d) \/ DiesIs(d) PROVE d \in Commands /\ Others(d) /\ d # c
      BY <2>3, <3>5 DEF AuthenticateIs, DiesIs, Looks, Commands
    <3>6. ASSUME NEW d \in Verifiers, FinishIs(d) PROVE d \in Commands /\ Others(d) /\ d # c
      BY <2>3, <3>6 DEF FinishIs, Looks, Commands
    <3> QED BY <3>1, <3>2, <3>3, <3>4, <3>5, <3>6, StepsAre DEF Unmoved, Tampers
  <2> QED BY <2>1, <2>2, <2>3
<1> QED BY <1>3, <1>4, <1>5, <1>6

-----------------------------------------------------------------------------
(* A key is confirmed only for what a command has signed. *)

LEMMA LeastIs ==
  ASSUME NEW S, S \subseteq 1..4, S # {}
  PROVE  Least(S) \in S
<1>1. \E b \in S : \A a \in S : b <= a
  <2>1. CASE 1 \in S
    BY <2>1
  <2>2. CASE 1 \notin S /\ 2 \in S
    BY <2>2
  <2>3. CASE 1 \notin S /\ 2 \notin S /\ 3 \in S
    BY <2>3
  <2>4. CASE 1 \notin S /\ 2 \notin S /\ 3 \notin S
    <3>1. \A a \in S : a = 4
      BY <2>4
    <3>2. 4 \in S
      BY <3>1
    <3> QED BY <3>1, <3>2
  <2> QED BY <2>1, <2>2, <2>3, <2>4
<1> QED BY <1>1 DEF Least

LEMMA TriedIs ==
  ASSUME NEW r, r.bits \in 0..4
  PROVE  Tried(r) \subseteq 1..4
<1>1. CASE AutoBits(r)
  BY <1>1, CliAssumption DEF Tried
<1>2. CASE ~ AutoBits(r) /\ r.bits = 0
  BY <1>2 DEF Tried
<1>3. CASE ~ AutoBits(r) /\ r.bits # 0
  BY <1>3 DEF Tried
<1> QED BY <1>1, <1>2, <1>3

LEMMA DecodedIs ==
  ASSUME NEW x, NEW r, NEW p \in DecodedFrom(x, r), p.is = "payload"
  PROVE  p.of \in Commands /\ x.data = {Payload(p.of)} /\ x # Nothing
<1>1. PICK owner : owner = {c \in Commands : x.data = {Payload(c)}}
  OBVIOUS
<1>2. x # Nothing
  <2>1. x = Nothing => p = Nothing
    BY DEF DecodedFrom
  <2>2. Nothing.is = "nothing"
    BY DEF Nothing
  <2> QED BY <2>1, <2>2
<1>3. owner # {}
  <2>1. x # Nothing /\ owner = {} => p = Undecodable
    BY <1>1 DEF DecodedFrom
  <2>2. Undecodable.is = "undecodable"
    BY DEF Undecodable
  <2> QED BY <1>2, <2>1, <2>2
<1>4. PICK c : c = (CHOOSE d \in owner : TRUE)
  OBVIOUS
<1>5. c \in owner
  BY <1>3, <1>4
<1>6. p = Undecodable \/ p = [is |-> "payload", of |-> c, intact |-> TRUE] \/ p = [is |-> "payload", of |-> c, intact |-> FALSE]
  BY <1>1, <1>2, <1>3, <1>4 DEF DecodedFrom
<1>7. p.of = c
  <2>1. Undecodable.is = "undecodable"
    BY DEF Undecodable
  <2> QED BY <1>6, <2>1
<1> QED BY <1>1, <1>2, <1>5, <1>7

\* The noise a kernel finds in a file without a payload is nobody's payload.
LEMMA NoiseIsNone == ASSUME NEW c PROVE Noise.data # {Payload(c)}
<1>1. PICK a, b : a = <<"noise">> /\ b = <<"payload", c>>
  OBVIOUS
<1>2. a[1] = "noise" /\ b[1] = "payload"
  BY <1>1
<1>3. a # b
  BY <1>2
<1>4. Noise.data = {a} /\ Payload(c) = b
  BY <1>1 DEF Noise, Payload
<1> QED BY <1>3, <1>4

LEMMA JoinedIs ==
  ASSUME NEW fs, NEW r, NEW bits, NEW x \in Joined(fs, r, bits), NEW c, x # Nothing, x.data = {Payload(c)}
  PROVE  \E i \in DOMAIN fs : Payload(c) \in fs[i].data
<1>1. PICK sh, whole :
        /\ sh = [i \in DOMAIN fs |-> [index |-> i - 1, total |-> r.spread, len |-> fs[i].len, data |-> fs[i].data]]
        /\ whole = Reconstruct(sh)
  OBVIOUS
<1>2. PICK errs : errs = Total([i \in DOMAIN fs |-> fs[i].errs])
  OBVIOUS
<1>3. \/ x = Noise
      \/ ~ whole.failed /\ x = [is |-> "bytes", data |-> whole.data, len |-> fs[1].len, errs |-> errs]
  BY <1>1, <1>2 DEF Joined
<1>4. ~ whole.failed /\ x.data = whole.data
  BY <1>3, NoiseIsNone
<1>5. PICK t : t = [i \in DOMAIN sh |-> sh[i].data]
  OBVIOUS
<1>6. whole = [failed |-> FALSE, data |-> XorAll(t)] \/ whole = Failed
  BY <1>1, <1>5 DEF Reconstruct
<1>7. whole.data = XorAll(t)
  <2>1. Failed.failed = TRUE
    BY DEF Failed
  <2> QED BY <1>4, <1>6, <2>1
<1>8. Payload(c) \in XorAll(t)
  BY <1>4, <1>7
<1>9. PICK i \in DOMAIN t : Payload(c) \in t[i]
  BY <1>8, XorAllIs
<1>10. DOMAIN t = DOMAIN fs /\ t[i] = fs[i].data
  BY <1>1, <1>5, <1>9
<1> QED BY <1>9, <1>10

LEMMA ExtractedIs ==
  ASSUME NEW f, NEW r, NEW bits, NEW x \in Extracts(f, r, bits), NEW c, x # Nothing, x.data = {Payload(c)}
  PROVE  Payload(c) \in f.data
<1>1. x = Noise \/ x = [is |-> "bytes", data |-> f.data, len |-> f.len, errs |-> f.errs]
  BY DEF Extracts
<1> QED BY <1>1, NoiseIsNone

\* All has been read: the files, or after the first, read twice, the files.
LEMMA AllReadIs ==
  ASSUME NEW c \in Commands, CmdOk(c, cmds[c]), ReadsOk(cmds[c], files, touched, Encoding), ReadAll(c)
  PROVE  LET r == cmds[c].req
             reads == cmds[c].reads
         IN /\ DOMAIN reads = 1..Len(Reads(r)) /\ 1 \in DOMAIN reads
            /\ \A j \in DOMAIN reads : IsCarrier(reads[j], Encoding)
            /\ r.cmd = "encode" => ShardsOf(c) = reads
            /\ r.cmd = "verify" /\ r.spread > 1 =>
                 /\ DOMAIN ShardsOf(c) = 1..r.spread
                 /\ \A i \in 1..r.spread : ShardsOf(c)[i] = reads[i + 1] /\ i + 1 \in DOMAIN reads
<1>1. PICK r, reads, n : r = cmds[c].req /\ reads = cmds[c].reads /\ n = Len(Reads(r))
  OBVIOUS
<1>2. Len(reads) = n /\ cmds[c].pc = "read"
  BY <1>1 DEF ReadAll
<1>3. /\ n \in Nat \ {0} /\ r.spread \in 1..8
      /\ r.cmd = "verify" /\ r.spread > 1 => n = 1 + r.spread
  BY <1>1, <1>2, ReadingIs, ReadsAre
<1>4. PICK R : reads \in Seq(R)
  BY <1>1 DEF ReadsOk
<1>5. DOMAIN reads = 1..n /\ 1 \in DOMAIN reads
  BY <1>2, <1>3, <1>4, LenProperties
<1>6. \A j \in DOMAIN reads : IsCarrier(reads[j], Encoding)
  BY <1>1 DEF ReadsOk
<1>7. r.cmd = "encode" => ShardsOf(c) = reads
  BY <1>1 DEF ShardsOf
<1>8. ASSUME r.cmd = "verify", r.spread > 1
      PROVE  /\ DOMAIN ShardsOf(c) = 1..r.spread
             /\ \A i \in 1..r.spread : ShardsOf(c)[i] = reads[i + 1] /\ i + 1 \in DOMAIN reads
  <2>1. ShardsOf(c) = Tail(reads)
    BY <1>1, <1>8 DEF ShardsOf
  <2>2. reads # <<>> /\ n - 1 = r.spread
    BY <1>3, <1>5, <1>8
  <2>3. Tail(reads) \in Seq(R) /\ Len(Tail(reads)) = n - 1 /\ \A i \in 1..(n - 1) : Tail(reads)[i] = reads[i + 1]
    BY <1>2, <1>4, <2>2, HeadTailProperties
  <2>4. DOMAIN Tail(reads) = 1..(n - 1)
    BY <2>3, LenProperties
  <2>5. \A i \in 1..(n - 1) : i + 1 \in 1..n
    BY <1>3
  <2> QED BY <1>5, <2>1, <2>2, <2>3, <2>4, <2>5
<1> QED BY <1>1, <1>5, <1>6, <1>7, <1>8

\* What is decoded from what has been read is of a command that encodes.
LEMMA PossibleIs ==
  ASSUME NEW c \in Commands, CmdOk(c, cmds[c]), ReadsOk(cmds[c], files, touched, Encoding), ReadAll(c),
         NEW bits, NEW p \in Possible(c, bits), p.is = "payload"
  PROVE  p.of \in Encoding
<1>1. PICK r, reads : r = cmds[c].req /\ reads = cmds[c].reads
  OBVIOUS
<1>2. PICK x : /\ x \in (IF r.spread = 1 THEN Extracts(reads[1], r, bits) ELSE Joined(ShardsOf(c), r, bits))
               /\ p \in DecodedFrom(x, r)
  BY <1>1 DEF Possible
<1>3. p.of \in Commands /\ x.data = {Payload(p.of)} /\ x # Nothing
  BY <1>2, DecodedIs
<1>4. /\ 1 \in DOMAIN reads /\ \A j \in DOMAIN reads : IsCarrier(reads[j], Encoding)
      /\ r.cmd = "encode" => ShardsOf(c) = reads
      /\ r.cmd = "verify" /\ r.spread > 1 =>
           DOMAIN ShardsOf(c) = 1..r.spread /\ \A i \in 1..r.spread : ShardsOf(c)[i] = reads[i + 1] /\ i + 1 \in DOMAIN reads
  BY <1>1, AllReadIs
<1>5. r.cmd \in {"encode", "verify"} /\ r.spread \in 1..8
  BY <1>1, ReadingIs, ReadsAre DEF ReadAll
<1>6. \E j \in DOMAIN reads : Payload(p.of) \in reads[j].data
  <2>1. CASE r.spread = 1
    <3>1. x \in Extracts(reads[1], r, bits)
      BY <1>2, <2>1
    <3> QED BY <1>3, <1>4, <3>1, ExtractedIs
  <2>2. CASE r.spread # 1
    <3>1. x \in Joined(ShardsOf(c), r, bits)
      BY <1>2, <2>2
    <3>2. PICK i \in DOMAIN ShardsOf(c) : Payload(p.of) \in ShardsOf(c)[i].data
      BY <1>3, <3>1, JoinedIs
    <3>3. r.spread > 1
      BY <1>5, <2>2
    <3> QED BY <1>4, <1>5, <3>2, <3>3
  <2> QED BY <2>1, <2>2
<1> QED BY <1>4, <1>6 DEF IsCarrier

\* How verify comes to its end.
LEMMA EndOfVerify ==
  ASSUME Shaped, [CliNext]_cliVars, NEW v \in Commands, cmds[v].pc # "done", cmds'[v].pc = "done",
         cmds'[v].req.cmd = "verify"
  PROVE  /\ v \in Verifiers
         /\ \/ FinishIs(v)
            \/ /\ cmds'[v].status = "error" /\ ~ Admitted(cmds'[v].req) /\ cmds[v].pc = "idle"
            \/ /\ cmds'[v].status = "error" /\ cmds'[v].req = cmds[v].req /\ cmds'[v].saw = cmds[v].saw
               /\ cmds[v].pc = "read" /\ Len(cmds[v].reads) + 1 <= Len(Reads(cmds[v].req))
               /\ ~ CanRead(files[<<cmds[v].req.base, Reads(cmds[v].req)[Len(cmds[v].reads) + 1]>>], cmds[v].req)
<1>1. CmdOk(v, cmds'[v])
  BY CmdOkStep
<1>2. v \in Verifiers /\ v \notin Encoders
  <2>1. v \in Encoders => cmds'[v].req \in EncodeRequests \cup KeyRequests
    BY <1>1 DEF CmdOk
  <2>2. v \notin Encoders
    BY <2>1, RequestsAssumption
  <2> QED BY <2>2 DEF Commands
<1>3. ASSUME NEW d \in Commands, Others(d) PROVE d = v
  BY <1>3 DEF Others
<1>4. ASSUME NEW d \in Encoders PROVE ~ StartWriting(d) /\ ~ WritePart(d) /\ ~ AuthenticateIs(d) /\ ~ DiesIs(d)
  BY <1>2, <1>3, StartWritingIs, WritePartIs DEF AuthenticateIs, DiesIs, Looks, Commands
<1>5. ~ Unmoved /\ ~ \E n \in FileNames : Tampers(n)
  BY DEF Unmoved, Tampers
<1>6. ASSUME NEW d \in Verifiers, StartVerify(d)
      PROVE  cmds'[v].status = "error" /\ ~ Admitted(cmds'[v].req) /\ cmds[v].pc = "idle"
  <2>1. d = v
    BY <1>3, <1>6, StartVerifyIs DEF Commands
  <2>2. cmds[v].pc = "idle" /\ \E r : Asked(cmds'[v], r)
    BY <1>6, <2>1, StartVerifyIs
  <2> QED BY <2>2 DEF Asked
<1>7. ASSUME NEW d \in Commands, ReadPart(d)
      PROVE  /\ cmds'[v].status = "error" /\ cmds'[v].req = cmds[v].req /\ cmds'[v].saw = cmds[v].saw
             /\ cmds[v].pc = "read" /\ Len(cmds[v].reads) + 1 <= Len(Reads(cmds[v].req))
             /\ ~ CanRead(files[<<cmds[v].req.base, Reads(cmds[v].req)[Len(cmds[v].reads) + 1]>>], cmds[v].req)
  <2>1. d = v
    BY <1>3, <1>7, ReadPartIs
  <2> QED BY <1>7, <2>1, ReadPartIs DEF Ended, Continues
<1>8. ASSUME NEW d \in Verifiers, FinishIs(d) PROVE FinishIs(v)
  <2>1. d = v
    BY <1>3, <1>8 DEF FinishIs, Looks, Commands
  <2> QED BY <1>8, <2>1
<1> QED BY <1>2, <1>4, <1>5, <1>6, <1>7, <1>8, StepsAre

LEMMA ExitZero ==
  ASSUME NEW status, ExitCode(status) = 0
  PROVE  status \in {"valid", "not_verified"}
BY DEF ExitCode

LEMMA ErrorExit == ExitCode("error") # 0
BY DEF ExitCode

\* The verdict is on one of the strengths.
LEMMA ChosenFrom ==
  ASSUME NEW c, NEW d, DOMAIN d \subseteq 1..4, Chosen(c, d) \notin {"error", "no_signature"}
  PROVE  \E b \in DOMAIN d : Chosen(c, d) = Judged(c, d[b], b)
<1>1. PICK found : found = {b \in DOMAIN d : d[b] # Nothing}
  OBVIOUS
<1>2. PICK verified : verified = {b \in found : Judged(c, d[b], b) \in {"not_verified", "valid", "valid_revoked"}}
  OBVIOUS
<1>3. /\ verified # {} => Chosen(c, d) = Judged(c, d[Least(verified)], Least(verified))
      /\ verified = {} => found # {} /\ Chosen(c, d) = Judged(c, d[Least(found)], Least(found))
  BY <1>1, <1>2 DEF Chosen
<1>4. verified \subseteq 1..4 /\ found \subseteq 1..4 /\ verified \subseteq DOMAIN d /\ found \subseteq DOMAIN d
  BY <1>1, <1>2
<1>5. CASE verified # {}
  <2>1. Least(verified) \in DOMAIN d
    BY <1>4, <1>5, LeastIs
  <2> QED BY <1>3, <1>5, <2>1
<1>6. CASE verified = {}
  <2>1. Least(found) \in DOMAIN d
    BY <1>3, <1>4, <1>6, LeastIs
  <2> QED BY <1>3, <1>6, <2>1
<1> QED BY <1>5, <1>6

LEMMA JudgedIs ==
  ASSUME NEW c, NEW p, NEW b, cmds[c].req.key # "none", Judged(c, p, b) \in {"valid", "not_verified"}
  PROVE  /\ p.is = "payload" /\ cmds[c].req.key \notin cmds[c].revoked
         /\ Accepts(p, cmds[c].req.key, cmds[c].reads[1], b)
BY DEF Judged

LEMMA EncodersStay ==
  ASSUME Shaped, Evolves, NEW c \in Encoding
  PROVE  c \in Encoding' /\ cmds'[c].req = cmds[c].req
<1>1. c \in Commands /\ cmds[c].req.cmd = "encode"
  BY DEF Encoding, Commands
<1>2. cmds[c].pc # "idle"
  <2>1. Idle.req.cmd = "none"
    BY DEF Idle
  <2>2. CmdOk(c, cmds[c])
    BY <1>1 DEF Shaped
  <2> QED BY <1>1, <2>1, <2>2 DEF CmdOk
<1>3. cmds'[c].req = cmds[c].req
  BY <1>1, <1>2 DEF Evolves
<1> QED BY <1>3, EncodingGrows

LEMMA HeadIs ==
  ASSUME NEW s, NEW t, NEW status, Ended(s, t, status), 1 \in DOMAIN t.reads
  PROVE  s.reads[1] = t.reads[1]
<1>1. t.reads # <<>>
  <2>1. DOMAIN <<>> = {}
    OBVIOUS
  <2> QED BY <2>1
<1>2. PICK x : x = Head(t.reads)
  OBVIOUS
<1>3. s.reads = <<x>> /\ x = t.reads[1]
  BY <1>1, <1>2 DEF Ended
<1> QED BY <1>3

LEMMA SignedStep ==
  ASSUME Shaped, [CliNext]_cliVars, NEW v \in Commands, SignedOk(v),
         ReadsOk(cmds[v], files, touched, Encoding)
  PROVE  SignedOk(v)'
<1>1. PICK s, t, r : s = cmds'[v] /\ t = cmds[v] /\ r = s.req
  OBVIOUS
<1> SUFFICES ASSUME r.cmd = "verify", s.pc = "done", r.key # "none", ExitCode(s.status) = 0
             PROVE  /\ r.key \notin s.revoked
                    /\ \E c \in Encoding' :
                         /\ cmds'[c].req.signer = r.key
                         /\ cmds'[c].req.image = s.reads[1].image /\ cmds'[c].req.bits \in Tried(r)
  BY <1>1 DEF SignedOk, Verified
<1>2. Evolves /\ CmdOk(v, t)
  BY <1>1, StepEvolves DEF Shaped
<1>3. ASSUME NEW c \in Encoding, cmds[c].req.signer = r.key, cmds[c].req.image = s.reads[1].image,
             cmds[c].req.bits \in Tried(r)
      PROVE  \E e \in Encoding' : /\ cmds'[e].req.signer = r.key
                                  /\ cmds'[e].req.image = s.reads[1].image /\ cmds'[e].req.bits \in Tried(r)
  BY <1>2, <1>3, EncodersStay
<1>4. CASE t.pc = "done"
  <2>1. s = t
    BY <1>1, <1>2, <1>4 DEF Evolves
  <2>2. /\ r.key \notin s.revoked
        /\ \E c \in Encoding : /\ cmds[c].req.signer = r.key
                               /\ cmds[c].req.image = s.reads[1].image /\ cmds[c].req.bits \in Tried(r)
    BY <1>1, <2>1 DEF SignedOk, Verified
  <2> QED BY <1>3, <2>2
<1>5. CASE t.pc # "done"
  <2>1. FinishIs(v) /\ v \in Verifiers
    BY <1>1, <1>5, EndOfVerify, ErrorExit
  <2>2. PICK d : /\ d \in [Tried(t.req) -> UNION {Possible(v, b) : b \in Tried(t.req)}]
                 /\ \A b \in Tried(t.req) : d[b] \in Possible(v, b)
                 /\ Ended(s, t, Chosen(v, d))
    <3>1. ~ Ended(s, t, "error")
      BY ErrorExit DEF Ended
    <3> QED BY <1>1, <2>1, <3>1 DEF FinishIs
  <2>3. t.pc = "read" /\ ReadAll(v) /\ s.req = t.req /\ s.revoked = t.revoked /\ s.status = Chosen(v, d)
    BY <1>1, <2>1, <2>2 DEF FinishIs, Ended, Continues
  <2>4. DOMAIN d \subseteq 1..4 /\ DOMAIN d = Tried(r)
    <3>1. r \in VerifyRequests
      BY <1>1, <1>2, <2>1, <2>3 DEF CmdOk
    <3>2. r.bits \in 0..4
      BY <3>1, RequestsAssumption
    <3> QED BY <1>1, <2>2, <2>3, <3>2, TriedIs
  <2>5. Chosen(v, d) \in {"valid", "not_verified"}
    BY <2>3, ExitZero
  <2>6. PICK b \in DOMAIN d : Chosen(v, d) = Judged(v, d[b], b)
    BY <2>4, <2>5, ChosenFrom
  <2>7. PICK p : p = d[b]
    OBVIOUS
  <2>8. p.is = "payload" /\ r.key \notin t.revoked /\ Accepts(p, r.key, t.reads[1], b)
    BY <1>1, <2>3, <2>5, <2>6, <2>7, JudgedIs
  <2>9. p \in Possible(v, b)
    BY <1>1, <2>2, <2>3, <2>4, <2>7
  <2>10. p.of \in Encoding
    BY <1>1, <1>2, <2>3, <2>8, <2>9, PossibleIs
  <2>11. cmds[p.of].req.signer = r.key /\ cmds[p.of].req.image = t.reads[1].image /\ cmds[p.of].req.bits = b
    BY <2>8 DEF Accepts
  <2>12. s.reads[1] = t.reads[1]
    <3>1. 1 \in DOMAIN t.reads
      BY <1>1, <1>2, <2>3, AllReadIs
    <3> QED BY <2>2, <3>1, HeadIs
  <2> QED BY <1>3, <2>3, <2>4, <2>8, <2>10, <2>11, <2>12
<1> QED BY <1>4, <1>5

-----------------------------------------------------------------------------
(* What is reported verifies. *)

\* g[i] is the sum of the first i of n numbers.
Sums(g, errs, n) == \A i \in 0..n : g[i] = IF i = 0 THEN 0 ELSE g[i - 1] + errs[i]

LEMMA SumsExist ==
  ASSUME NEW errs, NEW n \in Nat
  PROVE  \E g : g = [i \in 0..n |-> IF i = 0 THEN 0 ELSE g[i - 1] + errs[i]]
<1> DEFINE G == {k \in Nat : \E g : Sums(g, errs, k)}
<1>1. 0 \in G
  <2>1. PICK g : g = [i \in 0..0 |-> 0]
    OBVIOUS
  <2>2. Sums(g, errs, 0)
    BY <2>1 DEF Sums
  <2> QED BY <2>2
<1>2. \A k \in Nat : k \in G => k + 1 \in G
  <2> TAKE k \in Nat
  <2> HAVE k \in G
  <2>1. PICK g : Sums(g, errs, k)
    OBVIOUS
  <2>2. PICK h : h = [i \in 0..(k + 1) |-> IF i \in 0..k THEN g[i] ELSE g[i - 1] + errs[i]]
    OBVIOUS
  <2>3. ASSUME NEW i \in 0..(k + 1)
        PROVE  h[i] = IF i = 0 THEN 0 ELSE h[i - 1] + errs[i]
    <3>1. CASE i = 0
      <4>1. 0 \in 0..k
        OBVIOUS
      <4> QED BY <2>1, <2>2, <3>1, <4>1 DEF Sums
    <3>2. CASE i # 0
      <4>1. i - 1 \in 0..k /\ i - 1 \in 0..(k + 1)
        BY <3>2
      <4>2. h[i - 1] = g[i - 1]
        BY <2>2, <4>1
      <4>3. h[i] = g[i - 1] + errs[i]
        BY <2>1, <2>2, <3>2 DEF Sums
      <4> QED BY <3>2, <4>2, <4>3
    <3> QED BY <3>1, <3>2
  <2>4. Sums(h, errs, k + 1)
    BY <2>3 DEF Sums
  <2> QED BY <2>4
<1>3. n \in G
  <2>1. Nat \subseteq G
    <3> HIDE DEF G
    <3> QED BY <1>1, <1>2, NatInductionSet
  <2> HIDE DEF G
  <2> QED BY <2>1
<1>4. PICK g : Sums(g, errs, n)
  BY <1>3
<1>5. PICK h : h = [i \in 0..n |-> g[i]]
  OBVIOUS
<1>6. \A i \in 0..n : h[i] = IF i = 0 THEN 0 ELSE h[i - 1] + errs[i]
  <2>1. \A i \in 0..n : i # 0 => i - 1 \in 0..n
    OBVIOUS
  <2> QED BY <1>4, <1>5, <2>1 DEF Sums
<1>7. h = [i \in 0..n |-> IF i = 0 THEN 0 ELSE h[i - 1] + errs[i]]
  BY <1>5, <1>6
<1> QED BY <1>7

LEMMA TotalIs ==
  ASSUME NEW n \in Nat, NEW errs, DOMAIN errs = 1..n, errs = [i \in 1..n |-> errs[i]]
  PROVE  \E g : Sums(g, errs, n) /\ Total(errs) = g[n]
<1>1. Len(errs) = n
  <2>1. errs \in Seq({errs[i] : i \in 1..n})
    BY IsASeq
  <2> QED BY <2>1, LenProperties
<1>2. PICK g : g = (CHOOSE x : x = [i \in 0..n |-> IF i = 0 THEN 0 ELSE x[i - 1] + errs[i]])
  OBVIOUS
<1>3. g = [i \in 0..n |-> IF i = 0 THEN 0 ELSE g[i - 1] + errs[i]]
  BY <1>2, SumsExist
<1>4. Total(errs) = g[n]
  BY <1>1, <1>2 DEF Total
<1>5. Sums(g, errs, n)
  BY <1>3 DEF Sums
<1> QED BY <1>4, <1>5

LEMMA Following ==
  ASSUME NEW n \in Nat, NEW k \in Nat, NEW i, i = k + 1, i \in 0..n
  PROVE  i # 0 /\ i - 1 = k /\ k \in 0..n /\ i \in 1..n
OBVIOUS

\* Fewer errors in every part are fewer together.
LEMMA TotalGrows ==
  ASSUME NEW n \in Nat, NEW a, NEW b, DOMAIN a = 1..n, DOMAIN b = 1..n,
         a = [i \in 1..n |-> a[i]], b = [i \in 1..n |-> b[i]],
         \A i \in 1..n : a[i] \in Nat /\ b[i] \in Nat /\ a[i] <= b[i]
  PROVE  Total(a) \in Nat /\ Total(b) \in Nat /\ Total(a) <= Total(b)
<1>1. PICK f : Sums(f, a, n) /\ Total(a) = f[n]
  BY TotalIs
<1>2. PICK g : Sums(g, b, n) /\ Total(b) = g[n]
  BY TotalIs
<1> DEFINE G == {k \in Nat : k \in 0..n => f[k] \in Nat /\ g[k] \in Nat /\ f[k] <= g[k]}
<1>3. 0 \in G
  <2>1. 0 \in 0..n
    OBVIOUS
  <2>2. f[0] = 0 /\ g[0] = 0
    BY <1>1, <1>2, <2>1 DEF Sums
  <2>3. f[0] \in Nat /\ g[0] \in Nat /\ f[0] <= g[0]
    BY <2>2
  <2> QED BY <2>3
<1>4. \A k \in Nat : k \in G => k + 1 \in G
  <2> TAKE k \in Nat
  <2> HAVE k \in G
  <2>1. ASSUME k + 1 \in 0..n
        PROVE  f[k + 1] \in Nat /\ g[k + 1] \in Nat /\ f[k + 1] <= g[k + 1]
    <3>1. PICK i : i = k + 1
      OBVIOUS
    <3>2. i \in 0..n /\ i # 0 /\ i - 1 = k /\ k \in 0..n /\ i \in 1..n
      BY <2>1, <3>1, Following
    <3>3. f[k] \in Nat /\ g[k] \in Nat /\ f[k] <= g[k]
      BY <3>2
    <3>4. f[i] = f[k] + a[i] /\ g[i] = g[k] + b[i]
      BY <1>1, <1>2, <3>2 DEF Sums
    <3>5. a[i] \in Nat /\ b[i] \in Nat /\ a[i] <= b[i]
      BY <3>2
    <3> QED BY <3>1, <3>3, <3>4, <3>5
  <2>2. k + 1 \in Nat
    OBVIOUS
  <2> QED BY <2>1, <2>2
<1>5. n \in G
  <2>1. Nat \subseteq G
    <3> HIDE DEF G
    <3> QED BY <1>3, <1>4, NatInductionSet
  <2> HIDE DEF G
  <2> QED BY <2>1
<1>6. n \in 0..n
  OBVIOUS
<1> QED BY <1>1, <1>2, <1>5, <1>6

LEMMA TotalOfOne ==
  ASSUME NEW a, DOMAIN a = 1..1, a = [i \in 1..1 |-> a[i]], a[1] \in Nat
  PROVE  Total(a) = a[1]
<1>1. PICK g : Sums(g, a, 1) /\ Total(a) = g[1]
  BY TotalIs
<1>2. g[1] = g[1 - 1] + a[1] /\ g[0] = 0 /\ 1 - 1 = 0
  BY <1>1 DEF Sums
<1> QED BY <1>1, <1>2

\* A command that has reported what it encoded.
Reported(c) == c \in Encoders /\ cmds[c].req.cmd = "encode" /\ cmds[c].status = "ok"

LEMMA ReportedIs ==
  ASSUME Shaped, NEW c, Reported(c)
  PROVE  LET q == cmds[c].req
         IN /\ c \in Commands /\ c \in Encoding /\ cmds[c].pc = "done" /\ Running(c, cmds[c])
            /\ q \in EncodeRequests /\ q.cmd = "encode" /\ q.signer # "none"
            /\ q.bits \in Strengths /\ q.bits \in 1..4 /\ q.base \in Bases
            /\ q.kernel \in {"lsb_audio", "spread_spectrum_video"} => q.place # "none"
            /\ Admitted(q) /\ Sounding(q) /\ q.spread \in 1..8
            /\ Len(Parts(q)) = q.spread /\ DOMAIN Parts(q) = 1..q.spread
            /\ \A i \in 1..q.spread : Parts(q)[i] = IF q.spread = 1 THEN 0 ELSE i
<1>1. PICK s, q : s = cmds[c] /\ q = s.req
  OBVIOUS
<1>2. c \in Encoders /\ q.cmd = "encode" /\ s.status = "ok" /\ c \in Commands /\ c \in Encoding
  BY <1>1 DEF Reported, Commands, Encoding
<1>3. CmdOk(c, s)
  BY <1>1, <1>2 DEF Shaped
<1>4. s.pc = "done" /\ Running(c, s)
  BY <1>2, <1>3 DEF CmdOk, Running
<1>5. q \in EncodeRequests \cup KeyRequests /\ May(q)
  BY <1>1, <1>2, <1>3, <1>4 DEF CmdOk
<1>6. q \in EncodeRequests
  BY <1>2, <1>5, RequestsAssumption
<1>7. /\ q.signer # "none" /\ q.bits \in Strengths /\ q.base \in Bases
      /\ q.kernel \in {"lsb_audio", "spread_spectrum_video"} => q.place # "none"
  BY <1>6, RequestsAssumption
<1>8. q.bits \in 1..4
  BY <1>7, CliAssumption
<1>9. Admitted(q) /\ Sounding(q)
  BY <1>2, <1>5 DEF May
<1>10. q.spread \in 1..8
  BY <1>2, <1>7, <1>9, ReadsAre
<1>11. /\ Len(Parts(q)) = q.spread /\ DOMAIN Parts(q) = 1..q.spread
       /\ \A i \in 1..q.spread : Parts(q)[i] = IF q.spread = 1 THEN 0 ELSE i
  BY <1>2, <1>10, PartsOfShards
<1> QED BY <1>1, <1>2, <1>4, <1>6, <1>7, <1>8, <1>9, <1>10, <1>11

\* Its files are what it made of them, but for errors.
LEMMA OwnFiles ==
  ASSUME Shaped, Filed, NEW c, Reported(c), NEW i \in 1..cmds[c].req.spread, NEW n, n = FileOf(cmds[c].req, i)
  PROVE  /\ n \in FileNames /\ n \in Own(c) /\ files[n] # Absent
         /\ n \notin touched => IsCarrier(files[n], Encoding) /\ Alike(Made(c, cmds[c].req, i), files[n])
<1>1. PICK s, q : s = cmds[c] /\ q = s.req
  OBVIOUS
<1>2. /\ c \in Encoders /\ Running(c, s) /\ s.status = "ok" /\ q \in EncodeRequests \cup KeyRequests
      /\ q.cmd = "encode" /\ Len(Parts(q)) = q.spread /\ May(q)
  BY <1>1, ReportedIs DEF Reported, May
<1>3. n \in FileNames /\ n \in Own(c)
  BY <1>1, <1>2, NamesAre, OwnIs
<1>4. files[n] # Absent /\ (n \notin touched => Alike(Made(c, q, i), files[n]))
  BY <1>1, <1>2 DEF Filed, Kept, Wrote
<1>5. ASSUME n \notin touched PROVE IsCarrier(files[n], Encoding)
  <2>1. files[n].is = "carrier"
    BY <1>2, <1>4, <1>5, MadeCarrier DEF Alike
  <2>2. FileOk(files[n], Encoding)
    BY <1>3 DEF Shaped
  <2> QED BY <1>4, <2>1, <2>2 DEF FileOk
<1> QED BY <1>1, <1>3, <1>4, <1>5

LEMMA ErrorsAre ==
  ASSUME Shaped, NEW c, Reported(c)
  PROVE  Errors(c) = Total([i \in 1..cmds[c].req.spread |-> files[FileOf(cmds[c].req, i)].errs])
<1>1. DOMAIN Parts(cmds[c].req) = 1..cmds[c].req.spread
  BY ReportedIs
<1> QED BY <1>1 DEF Errors, FileOf

\* What is undamaged was undamaged before.
LEMMA UndamagedBefore ==
  ASSUME Shaped, Filed, Shaped', Evolves, NEW c, Reported(c), Own(c)' \cap touched' = {},
         NEW k \in Nat, Errors(c)' <= k
  PROVE  Own(c) \cap touched = {} /\ Errors(c) <= k
<1>1. cmds'[c] = cmds[c]
  BY ReportedIs DEF Evolves
<1>2. Own(c) \cap touched = {}
  <2>1. Own(c)' = Own(c)
    BY <1>1 DEF Own
  <2> QED BY <2>1 DEF Evolves
<1>3. Reported(c)'
  BY <1>1 DEF Reported
<1>4. PICK n, q : n = cmds[c].req.spread /\ q = cmds[c].req
  OBVIOUS
<1>5. PICK a, b : a = [i \in 1..n |-> files[FileOf(q, i)].errs] /\ b = [i \in 1..n |-> files'[FileOf(q, i)].errs]
  OBVIOUS
<1>6. Errors(c) = Total(a)
  BY <1>4, <1>5, ErrorsAre
<1>7. Errors(c)' = Total(b)
  <2>1. Errors(c)' = Total([i \in DOMAIN Parts(q) |-> files'[<<q.base, Parts(q)[i]>>].errs])
    BY <1>1, <1>4 DEF Errors
  <2>2. DOMAIN Parts(q) = 1..n
    BY <1>4, ReportedIs
  <2> QED BY <1>5, <2>1, <2>2 DEF FileOf
<1>8. n \in Nat
  BY <1>4, ReportedIs
<1>9. ASSUME NEW i \in 1..n PROVE a[i] \in Nat /\ b[i] \in Nat /\ a[i] <= b[i]
  <2>1. PICK m, f, g : m = FileOf(q, i) /\ f = files[m] /\ g = files'[m]
    OBVIOUS
  <2>2. m \in FileNames /\ m \in Own(c) /\ f # Absent
    BY <1>4, <2>1, OwnFiles
  <2>3. m \notin touched /\ m \notin touched'
    <3>1. Own(c)' = Own(c)
      BY <1>1 DEF Own
    <3> QED BY <1>2, <2>2, <3>1
  <2>4. IsCarrier(f, Encoding)
    BY <1>4, <2>1, <2>3, OwnFiles
  <2>5. NoMore(f, g)
    BY <2>1, <2>2, <2>3 DEF Evolves
  <2>6. g.is = "carrier" /\ f.errs <= g.errs /\ f.errs \in Nat
    BY <2>4, <2>5 DEF NoMore, Alike, IsCarrier
  <2>7. g.errs \in Nat
    <3>1. PICK F : F = Encoding'
      OBVIOUS
    <3>2. FileOk(g, F)
      BY <2>1, <2>2, <3>1 DEF Shaped
    <3>3. Absent.is = "absent"
      BY DEF Absent
    <3> QED BY <2>6, <3>2, <3>3 DEF FileOk, IsCarrier
  <2> QED BY <1>5, <2>1, <2>6, <2>7
<1>10. Total(a) \in Nat /\ Total(b) \in Nat /\ Total(a) <= Total(b)
  <2>1. DOMAIN a = 1..n /\ DOMAIN b = 1..n /\ a = [i \in 1..n |-> a[i]] /\ b = [i \in 1..n |-> b[i]]
    BY <1>5
  <2> QED BY <1>8, <1>9, <2>1, TotalGrows
<1>11. Errors(c) <= k
  BY <1>6, <1>7, <1>10
<1> QED BY <1>2, <1>11

LEMMA AlikeBack == ASSUME NEW f, NEW g, Alike(f, g) PROVE Alike(g, f)
BY DEF Alike

\* Which file verify reads as its j-th.
Which(q, j) == IF q.spread = 1 \/ j = 1 THEN 1 ELSE j - 1

LEMMA ReadFileOf ==
  ASSUME Shaped, NEW c, Reported(c), NEW r, r.cmd = "verify", r.base \in Bases, Admitted(r),
         r.base = cmds[c].req.base, r.spread = cmds[c].req.spread,
         NEW j \in 1..Len(Reads(r))
  PROVE  /\ Which(cmds[c].req, j) \in 1..cmds[c].req.spread
         /\ <<r.base, Reads(r)[j]>> = FileOf(cmds[c].req, Which(cmds[c].req, j))
<1>1. PICK q, n : q = cmds[c].req /\ n = q.spread
  OBVIOUS
<1>2. n \in 1..8 /\ \A i \in 1..n : Parts(q)[i] = IF n = 1 THEN 0 ELSE i
  BY <1>1, ReportedIs
<1>3. /\ n = 1 => Len(Reads(r)) = 1 /\ Reads(r)[1] = 0
      /\ n > 1 => /\ Len(Reads(r)) = 1 + n /\ Reads(r)[1] = 1
                  /\ \A i \in 1..n : Reads(r)[i + 1] = i
  <2>1. r.spread = n /\ r.cmd \in {"encode", "verify"}
    BY <1>1
  <2> QED BY <2>1, ReadsAre
<1>4. CASE n = 1
  <2>1. j = 1
    <3>1. Len(Reads(r)) = 1
      BY <1>3, <1>4
    <3>2. j \in 1..1
      BY <3>1
    <3> QED BY <3>2
  <2>2. Which(q, j) = 1 /\ 1 \in 1..n
    BY <1>1, <1>2, <1>4 DEF Which
  <2>3. Parts(q)[1] = 0
    BY <1>2, <1>4
  <2> QED BY <1>1, <1>3, <1>4, <2>1, <2>2, <2>3 DEF FileOf
<1>5. CASE n # 1 /\ j = 1
  <2>1. Which(q, j) = 1 /\ 1 \in 1..n /\ n > 1
    BY <1>1, <1>2, <1>5 DEF Which
  <2>2. Parts(q)[1] = 1
    BY <1>2, <1>5, <2>1
  <2> QED BY <1>1, <1>3, <1>5, <2>1, <2>2 DEF FileOf
<1>6. CASE n # 1 /\ j # 1
  <2>1. Which(q, j) = j - 1 /\ n > 1
    BY <1>1, <1>2, <1>6 DEF Which
  <2>2. j - 1 \in 1..n /\ (j - 1) + 1 = j
    BY <1>2, <1>3, <1>6, <2>1
  <2>3. Parts(q)[j - 1] = j - 1
    BY <1>2, <1>6, <2>2
  <2>4. Reads(r)[j] = j - 1
    BY <1>3, <2>1, <2>2
  <2> QED BY <1>1, <2>1, <2>2, <2>3, <2>4 DEF FileOf
<1> QED BY <1>4, <1>5, <1>6

\* Undamaged, the files verify looks for can be read, and it reads what encode wrote.
LEMMA OwnCanBeRead ==
  ASSUME Shaped, Filed, NEW c, Reported(c), NEW v \in Commands, CmdOk(v, cmds[v]), cmds[v].pc = "read",
         cmds[v].req.cmd = "verify", Undamaged(v, c),
         NEW j \in 1..Len(Reads(cmds[v].req)), NEW n, n = <<cmds[v].req.base, Reads(cmds[v].req)[j]>>
  PROVE  /\ CanRead(files[n], cmds[v].req) /\ n \notin touched /\ IsCarrier(files[n], Encoding)
         /\ Which(cmds[c].req, j) \in 1..cmds[c].req.spread
         /\ n = FileOf(cmds[c].req, Which(cmds[c].req, j))
         /\ Alike(Made(c, cmds[c].req, Which(cmds[c].req, j)), files[n])
<1>1. PICK q, r, i : q = cmds[c].req /\ r = cmds[v].req /\ i = Which(q, j)
  OBVIOUS
<1>2. Matches(r, q) /\ Own(c) \cap touched = {}
  BY <1>1 DEF Undamaged
<1>3. r.base = q.base /\ r.spread = q.spread /\ r.kernel = q.kernel
  BY <1>2 DEF Matches
<1>4. r.cmd = "verify" /\ r.base \in Bases /\ Admitted(r)
  BY <1>1, ReadingIs
<1>5. i \in 1..q.spread /\ n = FileOf(q, i)
  BY <1>1, <1>3, <1>4, ReadFileOf
<1>6. n \in Own(c) /\ (n \notin touched => IsCarrier(files[n], Encoding) /\ Alike(Made(c, q, i), files[n]))
  BY <1>1, <1>5, OwnFiles
<1>7. n \notin touched /\ IsCarrier(files[n], Encoding) /\ Alike(Made(c, q, i), files[n])
  BY <1>2, <1>6
<1>8. q.cmd = "encode" /\ Sounding(q)
  BY <1>1, ReportedIs
<1>9. files[n].is = "carrier" /\ files[n].image = q.image
  BY <1>7, <1>8, MadeCarrier DEF Alike
<1>10. CanRead(files[n], r)
  BY <1>3, <1>8, <1>9 DEF CanRead, Sounding
<1> QED BY <1>1, <1>5, <1>7, <1>10

\* The j-th file that verify has read.
LEMMA OwnIsRead ==
  ASSUME Shaped, Filed, NEW c, Reported(c), NEW v \in Commands, CmdOk(v, cmds[v]), cmds[v].pc = "read",
         cmds[v].req.cmd = "verify", Undamaged(v, c), ReadsOk(cmds[v], files, touched, Encoding),
         NEW j \in 1..Len(Reads(cmds[v].req)), j \in DOMAIN cmds[v].reads,
         NEW i, i = Which(cmds[c].req, j)
  PROVE  /\ i \in 1..cmds[c].req.spread /\ cmds[v].reads[j].errs \in Nat
         /\ Alike(Made(c, cmds[c].req, i), cmds[v].reads[j])
         /\ files[FileOf(cmds[c].req, i)].errs \in Nat
         /\ cmds[v].reads[j].errs <= files[FileOf(cmds[c].req, i)].errs
<1>1. PICK q, n, f : q = cmds[c].req /\ n = <<cmds[v].req.base, Reads(cmds[v].req)[j]>> /\ f = cmds[v].reads[j]
  OBVIOUS
<1>2. /\ n \notin touched /\ IsCarrier(files[n], Encoding) /\ i \in 1..q.spread /\ n = FileOf(q, i)
      /\ Alike(Made(c, q, i), files[n])
  BY <1>1, OwnCanBeRead
<1>3. NoMore(f, files[n]) /\ IsCarrier(f, Encoding)
  BY <1>1, <1>2 DEF ReadsOk
<1>4. Alike(Made(c, q, i), f)
  BY <1>2, <1>3, AlikeBack, AlikeTrans DEF NoMore
<1>5. f.errs \in Nat /\ files[n].errs \in Nat /\ f.errs <= files[n].errs
  BY <1>2, <1>3 DEF NoMore, IsCarrier
<1> QED BY <1>1, <1>2, <1>4, <1>5

LEMMA DecodesOwn ==
  ASSUME NEW c \in Commands, NEW x, x # Nothing, x.data = {Payload(c)}, NEW r,
         cmds[c].req.ecc = r.ecc, cmds[c].req.encrypt = r.encrypt,
         x.errs <= IF cmds[c].req.ecc THEN Correctable ELSE 0
  PROVE  DecodedFrom(x, r) = {[is |-> "payload", of |-> c, intact |-> TRUE]}
<1>1. PICK owner : owner = {d \in Commands : x.data = {Payload(d)}}
  OBVIOUS
<1>2. owner = {c}
  <2>1. \A d : {Payload(d)} = {Payload(c)} => d = c
    BY AtomsDiffer
  <2> QED BY <1>1, <2>1
<1>3. (CHOOSE d \in owner : TRUE) = c
  BY <1>2
<1> QED BY <1>1, <1>2, <1>3 DEF DecodedFrom

BytesOf(data, len, errs) == [is |-> "bytes", data |-> data, len |-> len, errs |-> errs]

LEMMA BytesAre ==
  ASSUME NEW data, NEW len, NEW errs, NEW x, x = BytesOf(data, len, errs)
  PROVE  x # Nothing /\ x.data = data /\ x.errs = errs
<1>1. x.is = "bytes" /\ x.data = data /\ x.errs = errs
  BY DEF BytesOf
<1>2. Nothing.is = "nothing"
  BY DEF Nothing
<1> QED BY <1>1, <1>2

LEMMA ExtractsOwn ==
  ASSUME NEW f, NEW r, NEW bits, f.kernel = r.kernel, f.place = r.place, f.bits = bits, f.front,
         ~ (r.kernel = "dct_video" /\ f.errs > 0)
  PROVE  Extracts(f, r, bits) = {BytesOf(f.data, f.len, f.errs)}
BY DEF Extracts, BytesOf

\* The n shards that c has written, read in order, with errs errors.
GroupRead(c, n, fs, len, r, bits, errs) ==
  /\ n \in 2..8 /\ DOMAIN fs = 1..n /\ len \in Nat \ {0} /\ r.spread = n
  /\ \A i \in 1..n : fs[i].data = ShardData(c, n, i) /\ fs[i].len = len
  /\ \A i \in 1..n : Extracts(fs[i], r, bits) = {BytesOf(fs[i].data, len, fs[i].errs)}
  /\ errs = [i \in 1..n |-> fs[i].errs]

LEMMA JoinsOwn ==
  ASSUME NEW c, NEW n, NEW fs, NEW len, NEW r, NEW bits, NEW sum, GroupRead(c, n, fs, len, r, bits, sum)
  PROVE  Joined(fs, r, bits) = {BytesOf({Payload(c)}, len, Total(sum))}
<1>0. /\ n \in 2..8 /\ DOMAIN fs = 1..n /\ len \in Nat \ {0} /\ r.spread = n
      /\ \A i \in 1..n : fs[i].data = ShardData(c, n, i) /\ fs[i].len = len
      /\ \A i \in 1..n : Extracts(fs[i], r, bits) = {BytesOf(fs[i].data, len, fs[i].errs)}
      /\ sum = [i \in 1..n |-> fs[i].errs]
  BY DEF GroupRead
<1>1. PICK sh : sh = [i \in DOMAIN fs |-> [index |-> i - 1, total |-> r.spread, len |-> fs[i].len, data |-> fs[i].data]]
  OBVIOUS
<1>2. DOMAIN sh = 1..n /\ \A i \in 1..n : sh[i] = [index |-> i - 1, total |-> n, len |-> len, data |-> ShardData(c, n, i)]
  BY <1>0, <1>1
<1>3. \A i \in 1..n : sh[i].index = i - 1 /\ sh[i].total = n /\ sh[i].len = len /\ sh[i].data = ShardData(c, n, i)
  BY <1>2
<1>4. sh \in Seq({sh[i] : i \in 1..n}) /\ Len(sh) = n
  <2>1. sh = [i \in 1..n |-> sh[i]]
    BY <1>1, <1>2
  <2>2. sh \in Seq({sh[i] : i \in 1..n})
    <3>1. n \in Nat
      BY <1>0
    <3> QED BY <2>1, <3>1, IsASeq
  <2> QED BY <1>0, <1>2, <2>2, LenProperties
<1>5. Complete(sh)
  <2>1. 1 \in 1..n /\ sh # <<>>
    BY <1>0, <1>4
  <2>2. \A i, j \in 1..n : i - 1 = j - 1 => i = j
    OBVIOUS
  <2>3. \A i \in 1..n : i - 1 < n
    BY <1>0
  <2>4. Len(sh) = sh[1].total /\ sh[1].total \in 2..8 /\ sh[1].len # 0
    BY <1>0, <1>3, <1>4, <2>1
  <2>5. \A i \in 1..n : sh[i].total = sh[1].total /\ sh[i].len = sh[1].len /\ sh[i].index < sh[1].total
    BY <1>3, <2>1, <2>3
  <2>6. \A i, j \in 1..n : sh[i].index = sh[j].index => i = j
    BY <1>3, <2>2
  <2> QED BY <1>2, <2>1, <2>4, <2>5, <2>6 DEF Complete
<1>6. PICK t : t = [i \in DOMAIN sh |-> sh[i].data]
  OBVIOUS
<1>7. XorAll(t) = {Payload(c)}
  <2>1. PICK place : place = [i \in 1..n |-> i]
    OBVIOUS
  <2>2. DOMAIN t = 1..n /\ \A i \in DOMAIN t : t[i] = ShardData(c, n, place[i])
    BY <1>2, <1>3, <1>6, <2>1
  <2>3. place \in Bijection(DOMAIN t, 1..n)
    BY <2>1, <2>2 DEF Bijection, Injection, Surjection, IsInjective
  <2> QED BY <1>0, <2>2, <2>3, WholeIsPayload
<1>8. Reconstruct(sh) = [failed |-> FALSE, data |-> {Payload(c)}]
  BY <1>5, <1>6, <1>7 DEF Reconstruct
<1>9. \A i \in 1..n : Extracts(fs[i], r, bits) # {Nothing, Noise}
  <2> TAKE i \in 1..n
  <2>1. PICK x : x = BytesOf(fs[i].data, len, fs[i].errs)
    OBVIOUS
  <2>2. x # Nothing /\ Extracts(fs[i], r, bits) = {x}
    BY <1>0, <2>1, BytesAre
  <2> QED BY <2>2
<1>10. PICK errs : errs = Total([i \in DOMAIN fs |-> fs[i].errs])
  OBVIOUS
<1>11. PICK whole : whole = Reconstruct(sh)
  OBVIOUS
<1>12. ~ whole.failed /\ whole.data = {Payload(c)}
  BY <1>8, <1>11
<1>13. Joined(fs, r, bits) = {[is |-> "bytes", data |-> whole.data, len |-> fs[1].len, errs |-> errs]}
  BY <1>0, <1>1, <1>9, <1>10, <1>11, <1>12 DEF Joined
<1>14. fs[1].len = len
  BY <1>0
<1>15. errs = Total(sum)
  BY <1>0, <1>10
<1> QED BY <1>12, <1>13, <1>14, <1>15 DEF BytesOf

\* What verify finds, at the strength of the embedding, is the payload.
LEMMA OwnIsFound ==
  ASSUME Shaped, Filed, NEW c, Reported(c), NEW v \in Commands, CmdOk(v, cmds[v]), ReadAll(v),
         cmds[v].req.cmd = "verify", Undamaged(v, c), ReadsOk(cmds[v], files, touched, Encoding)
  PROVE  /\ Possible(v, cmds[c].req.bits) = {[is |-> "payload", of |-> c, intact |-> TRUE]}
         /\ cmds[v].reads[1].image = cmds[c].req.image
<1>1. PICK q, r, n, t : q = cmds[c].req /\ r = cmds[v].req /\ n = q.spread /\ t = cmds[v].reads
  OBVIOUS
<1>2. PICK k : k = IF q.ecc THEN Correctable ELSE 0
  OBVIOUS
<1>3. Matches(r, q) /\ Errors(c) <= k /\ cmds[v].pc = "read"
  BY <1>1, <1>2 DEF Undamaged, ReadAll
<1>4. r.kernel = q.kernel /\ r.place = q.place /\ r.spread = n /\ r.ecc = q.ecc /\ r.encrypt = q.encrypt
  BY <1>1, <1>3 DEF Matches
<1>5. q.cmd = "encode" /\ Admitted(q) /\ n \in 1..8 /\ c \in Commands
  BY <1>1, ReportedIs
<1>6. k \in Nat /\ (q.kernel = "dct_video" => k = 0)
  BY <1>2, <1>5 DEF Admitted, Correctable
<1>7. /\ DOMAIN t = 1..Len(Reads(r)) /\ 1 \in DOMAIN t
      /\ r.spread > 1 => /\ DOMAIN ShardsOf(v) = 1..r.spread
                         /\ \A i \in 1..r.spread : ShardsOf(v)[i] = t[i + 1] /\ i + 1 \in DOMAIN t
  BY <1>1, AllReadIs
<1>8. ASSUME NEW j \in DOMAIN t, NEW i, i = Which(q, j)
      PROVE  /\ i \in 1..n /\ t[j].errs \in Nat /\ Alike(Made(c, q, i), t[j])
             /\ files[FileOf(q, i)].errs \in Nat /\ t[j].errs <= files[FileOf(q, i)].errs
  BY <1>1, <1>3, <1>7, <1>8, OwnIsRead
<1>9. ASSUME NEW j \in DOMAIN t, NEW i, i = Which(q, j)
      PROVE  /\ t[j].kernel = r.kernel /\ t[j].place = r.place /\ t[j].bits = q.bits /\ t[j].image = q.image
             /\ t[j].front /\ t[j].len = Length(q)
             /\ n = 1 => t[j].data = {Payload(c)}
             /\ n # 1 => t[j].data = ShardData(c, n, i)
  <2>1. PICK g : g = Made(c, q, i)
    OBVIOUS
  <2>2. g.is = "carrier" /\ g.kernel = q.kernel /\ g.place = q.place /\ g.bits = q.bits /\ g.image = q.image
    BY <1>5, <2>1, MadeCarrier
  <2>3. g.len = Length(q) /\ g.front = TRUE
    BY <1>5, <2>1, MadeRest
  <2>4. n = 1 => g.data = {Payload(c)}
    BY <1>1, <1>5, <2>1, MadeOne
  <2>5. n # 1 => g.data = ShardData(c, n, i)
    BY <1>1, <1>5, <2>1, MadeShard
  <2>6. Alike(g, t[j])
    BY <1>8, <1>9, <2>1
  <2> QED BY <1>4, <2>2, <2>3, <2>4, <2>5, <2>6 DEF Alike
<1>10. PICK own : own = [i \in 1..n |-> files[FileOf(q, i)].errs]
  OBVIOUS
<1>11. Total(own) <= k
  BY <1>1, <1>3, <1>10, ErrorsAre
<1>12. t[1].image = q.image
  BY <1>7, <1>9
<1>13. CASE n = 1
  <2>1. Which(q, 1) = 1 /\ own[1] = files[FileOf(q, 1)].errs
    BY <1>10, <1>13 DEF Which
  <2>2. t[1].errs \in Nat /\ own[1] \in Nat /\ t[1].errs <= own[1]
    BY <1>7, <1>8, <2>1
  <2>3. Total(own) = own[1]
    <3>1. DOMAIN own = 1..1 /\ own = [i \in 1..1 |-> own[i]]
      BY <1>10, <1>13
    <3> QED BY <2>2, <3>1, TotalOfOne
  <2>4. t[1].errs <= k
    BY <1>6, <1>11, <2>2, <2>3
  <2>5. ~ (r.kernel = "dct_video" /\ t[1].errs > 0)
    BY <1>4, <1>6, <2>2, <2>4
  <2>6. PICK x : x = BytesOf(t[1].data, t[1].len, t[1].errs)
    OBVIOUS
  <2>7. t[1].kernel = r.kernel /\ t[1].place = r.place /\ t[1].bits = q.bits /\ t[1].front
    BY <1>7, <1>9
  <2>8. Extracts(t[1], r, q.bits) = {x}
    BY <2>5, <2>6, <2>7, ExtractsOwn
  <2>9. x # Nothing /\ x.data = {Payload(c)} /\ x.errs = t[1].errs
    BY <1>7, <1>9, <1>13, <2>6, BytesAre
  <2>10. DecodedFrom(x, r) = {[is |-> "payload", of |-> c, intact |-> TRUE]}
    BY <1>1, <1>2, <1>4, <1>5, <2>4, <2>9, DecodesOwn
  <2>11. Possible(v, q.bits) = UNION {DecodedFrom(y, r) : y \in {x}}
    BY <1>1, <1>4, <1>13, <2>8 DEF Possible
  <2> QED BY <1>1, <1>12, <2>10, <2>11
<1>14. CASE n # 1
  <2>1. n \in 2..8 /\ n > 1 /\ r.kernel = "lsb_video"
    BY <1>1, <1>4, <1>5, <1>14 DEF Admitted
  <2>2. PICK fs, len : fs = ShardsOf(v) /\ len = Length(q)
    OBVIOUS
  <2>3. DOMAIN fs = 1..n /\ \A i \in 1..n : fs[i] = t[i + 1] /\ i + 1 \in DOMAIN t
    BY <1>4, <1>7, <2>1, <2>2
  <2>4. \A i \in 1..n : i = Which(q, i + 1)
    BY <1>1, <2>1 DEF Which
  <2>5. len \in Nat \ {0}
    BY <2>2 DEF Length
  <2>6. \A i \in 1..n : fs[i].data = ShardData(c, n, i) /\ fs[i].len = len
    BY <1>9, <1>14, <2>2, <2>3, <2>4
  <2>7. \A i \in 1..n : Extracts(fs[i], r, q.bits) = {BytesOf(fs[i].data, len, fs[i].errs)}
    <3> TAKE i \in 1..n
    <3>1. fs[i].kernel = r.kernel /\ fs[i].place = r.place /\ fs[i].bits = q.bits /\ fs[i].front
      BY <1>9, <2>3, <2>4
    <3> QED BY <2>1, <2>6, <3>1, ExtractsOwn
  <2>8. PICK errs : errs = [i \in 1..n |-> fs[i].errs]
    OBVIOUS
  <2>9. Total(errs) <= k
    <3>1. \A i \in 1..n : errs[i] \in Nat /\ own[i] \in Nat /\ errs[i] <= own[i]
      BY <1>8, <1>10, <2>3, <2>4, <2>8
    <3>2. DOMAIN errs = 1..n /\ DOMAIN own = 1..n /\ errs = [i \in 1..n |-> errs[i]] /\ own = [i \in 1..n |-> own[i]]
      BY <1>10, <2>8
    <3>3. n \in Nat
      BY <2>1
    <3>4. Total(errs) \in Nat /\ Total(own) \in Nat /\ Total(errs) <= Total(own)
      BY <3>1, <3>2, <3>3, TotalGrows
    <3> QED BY <1>6, <1>11, <3>4
  <2>10. PICK x : x = BytesOf({Payload(c)}, len, Total(errs))
    OBVIOUS
  <2>11. Joined(fs, r, q.bits) = {x}
    <3>1. GroupRead(c, n, fs, len, r, q.bits, errs)
      BY <1>4, <2>1, <2>3, <2>5, <2>6, <2>7, <2>8 DEF GroupRead
    <3> QED BY <2>10, <3>1, JoinsOwn
  <2>12. x # Nothing /\ x.data = {Payload(c)} /\ x.errs = Total(errs)
    BY <2>10, BytesAre
  <2>13. DecodedFrom(x, r) = {[is |-> "payload", of |-> c, intact |-> TRUE]}
    BY <1>1, <1>2, <1>4, <1>5, <2>9, <2>12, DecodesOwn
  <2>14. Possible(v, q.bits) = UNION {DecodedFrom(y, r) : y \in {x}}
    BY <1>1, <1>4, <1>14, <2>2, <2>11 DEF Possible
  <2> QED BY <1>1, <1>12, <2>13, <2>14
<1> QED BY <1>13, <1>14

\* The strength of the embedding is among those verify tries.
LEMMA OwnIsTried ==
  ASSUME Shaped, NEW c, Reported(c), NEW r, Matches(r, cmds[c].req)
  PROVE  cmds[c].req.bits \in Tried(r)
<1>1. PICK q : q = cmds[c].req
  OBVIOUS
<1>2. q.bits \in Strengths /\ q.bits \in 1..4 /\ (q.bits # 1 /\ q.bits # 0 => q.kernel \in {"lsb_video", "lsb_audio"})
  BY <1>1, ReportedIs DEF Admitted
<1>3. r.kernel = q.kernel /\ (r.bits = 0 \/ r.bits = q.bits)
  BY <1>1 DEF Matches
<1>4. CASE AutoBits(r)
  BY <1>1, <1>2, <1>4 DEF Tried
<1>5. CASE ~ AutoBits(r) /\ r.bits = 0
  <2>1. q.bits = 1
    BY <1>2, <1>3, <1>5 DEF AutoBits
  <2> QED BY <1>1, <1>5, <2>1 DEF Tried
<1>6. CASE ~ AutoBits(r) /\ r.bits # 0
  BY <1>1, <1>3, <1>6 DEF Tried
<1> QED BY <1>4, <1>5, <1>6

\* The payload of the signer's own command confirms the key.
LEMMA OwnIsAccepted ==
  ASSUME NEW c, NEW v, cmds[v].req.key = cmds[c].req.signer, cmds[v].req.key # "none",
         cmds[v].reads[1].image = cmds[c].req.image, NEW p, p = [is |-> "payload", of |-> c, intact |-> TRUE]
  PROVE  Judged(v, p, cmds[c].req.bits) \in {"valid", "valid_revoked"}
<1>1. p.is = "payload" /\ p.intact /\ p.of = c
  OBVIOUS
<1>2. Accepts(p, cmds[v].req.key, cmds[v].reads[1], cmds[c].req.bits)
  BY <1>1 DEF Accepts
<1> QED BY <1>1, <1>2 DEF Judged

LEMMA ChosenConfirms ==
  ASSUME NEW v, cmds[v].req.key # "none", NEW d, DOMAIN d \subseteq 1..4, NEW b \in DOMAIN d, d[b] # Nothing,
         Judged(v, d[b], b) \in {"valid", "valid_revoked"}
  PROVE  Chosen(v, d) \in {"valid", "valid_revoked"}
<1>1. PICK found : found = {a \in DOMAIN d : d[a] # Nothing}
  OBVIOUS
<1>2. PICK verified : verified = {a \in found : Judged(v, d[a], a) \in {"not_verified", "valid", "valid_revoked"}}
  OBVIOUS
<1>3. b \in verified /\ verified \subseteq 1..4
  BY <1>1, <1>2
<1>4. Least(verified) \in verified
  BY <1>3, LeastIs
<1>5. Chosen(v, d) = Judged(v, d[Least(verified)], Least(verified))
  BY <1>1, <1>2, <1>3 DEF Chosen
<1>6. Judged(v, d[Least(verified)], Least(verified)) \in {"not_verified", "valid", "valid_revoked"}
  BY <1>2, <1>4
<1>7. \A p, a : Judged(v, p, a) # "not_verified"
  BY DEF Judged
<1> QED BY <1>5, <1>6, <1>7

LEMMA VerifiesStep ==
  ASSUME Shaped, Filed, [CliNext]_cliVars, NEW v \in Commands, VerifiesOk(v), SawOk(cmds[v]),
         ReadsOk(cmds[v], files, touched, Encoding)
  PROVE  VerifiesOk(v)'
<1>1. PICK s, t, r : s = cmds'[v] /\ t = cmds[v] /\ r = s.req
  OBVIOUS
<1> SUFFICES ASSUME r.cmd = "verify", s.pc = "done", NEW c \in s.saw, Undamaged(v, c)'
             PROVE  s.status \in {"valid", "valid_revoked"}
  BY <1>1 DEF VerifiesOk, Verified
<1>2. Evolves /\ Shaped' /\ CmdOk(v, t) /\ SawOk(cmds[v])'
  BY <1>1, StepEvolves, ShapedStep, SawStep DEF Shaped
<1>3. Reported(c)'
  BY <1>1, <1>2 DEF SawOk, Reported
<1>4. PICK q : q = cmds'[c].req
  OBVIOUS
<1>5. Matches(r, q) /\ r.key = q.signer
  BY <1>1, <1>4 DEF Undamaged
<1>6. ASSUME s.saw = t.saw, s.req = t.req
      PROVE  Reported(c) /\ cmds[c].req = q /\ Undamaged(v, c)
  <2>1. Reported(c)
    BY <1>1, <1>6 DEF SawOk, Reported
  <2>2. cmds'[c] = cmds[c]
    BY <1>2, <2>1, ReportedIs DEF Evolves
  <2>3. PICK k : k = IF q.ecc THEN Correctable ELSE 0
    OBVIOUS
  <2>4. k \in Nat /\ Own(c)' \cap touched' = {} /\ Errors(c)' <= k
    BY <1>4, <2>3 DEF Undamaged, Correctable
  <2>5. Own(c) \cap touched = {} /\ Errors(c) <= k
    BY <1>2, <2>1, <2>4, UndamagedBefore
  <2> QED BY <1>1, <1>4, <1>5, <1>6, <2>1, <2>2, <2>3, <2>5 DEF Undamaged
<1>7. CASE t.pc = "done"
  <2>1. s = t
    BY <1>1, <1>2, <1>7 DEF Evolves
  <2>2. Undamaged(v, c)
    BY <1>6, <2>1
  <2> QED BY <1>1, <2>1, <2>2 DEF VerifiesOk, Verified
<1>8. CASE t.pc # "done"
  <2>1. v \in Verifiers /\ \/ FinishIs(v)
                           \/ ~ Admitted(r)
                           \/ /\ s.req = t.req /\ s.saw = t.saw /\ t.pc = "read"
                              /\ Len(t.reads) + 1 <= Len(Reads(t.req))
                              /\ ~ CanRead(files[<<t.req.base, Reads(t.req)[Len(t.reads) + 1]>>], t.req)
    BY <1>1, <1>8, EndOfVerify
  <2>2. ASSUME ~ Admitted(r) PROVE FALSE
    <3>1. Admitted(q)
      <4>1. CmdOk(c, cmds'[c])
        BY <1>2, <1>3 DEF Shaped, Reported, Commands
      <4>2. Running(c, cmds'[c])
        BY <1>3 DEF Reported, Running
      <4>3. May(q) /\ q.cmd = "encode"
        BY <1>3, <1>4, <4>1, <4>2 DEF CmdOk, Reported
      <4> QED BY <4>3 DEF May
    <3> QED BY <1>5, <2>2, <3>1 DEF Admitted, Matches
  <2>3. ASSUME s.req = t.req, s.saw = t.saw, t.pc = "read",
               Len(t.reads) + 1 <= Len(Reads(t.req)),
               ~ CanRead(files[<<t.req.base, Reads(t.req)[Len(t.reads) + 1]>>], t.req)
        PROVE  FALSE
    <3>1. Reported(c) /\ Undamaged(v, c)
      BY <1>6, <2>3
    <3>2. PICK R : t.reads \in Seq(R)
      BY <1>1 DEF ReadsOk
    <3>3. Len(Reads(t.req)) \in Nat
      BY <1>1, <1>2, <2>3, ReadingIs, ReadsAre
    <3>4. Len(t.reads) + 1 \in 1..Len(Reads(t.req))
      BY <2>3, <3>2, <3>3
    <3> QED BY <1>1, <1>2, <2>3, <3>1, <3>4, OwnCanBeRead
  <2>4. ASSUME FinishIs(v) PROVE s.status \in {"valid", "valid_revoked"}
    <3>1. t.pc = "read" /\ ReadAll(v) /\ s.req = t.req /\ s.saw = t.saw
      BY <1>1, <2>4 DEF FinishIs, Ended, Continues
    <3>2. Reported(c) /\ cmds[c].req = q /\ Undamaged(v, c)
      BY <1>6, <3>1
    <3>3. q.signer # "none" /\ (q.kernel \in {"lsb_audio", "spread_spectrum_video"} => q.place # "none")
      BY <3>2, ReportedIs
    <3>4. ~ NeedsPlace(t.req)
      BY <1>1, <1>5, <3>1, <3>3 DEF NeedsPlace, Matches
    <3>5. PICK d : /\ d \in [Tried(t.req) -> UNION {Possible(v, b) : b \in Tried(t.req)}]
                   /\ \A b \in Tried(t.req) : d[b] \in Possible(v, b)
                   /\ Ended(s, t, Chosen(v, d))
      BY <1>1, <2>4, <3>4 DEF FinishIs
    <3>6. s.status = Chosen(v, d)
      BY <3>5 DEF Ended
    <3>7. q.bits \in Tried(t.req)
      BY <1>1, <1>5, <3>1, <3>2, OwnIsTried
    <3>8. PICK p : p = [is |-> "payload", of |-> c, intact |-> TRUE]
      OBVIOUS
    <3>9. Possible(v, q.bits) = {p} /\ t.reads[1].image = q.image
      BY <1>1, <1>2, <3>1, <3>2, <3>8, OwnIsFound
    <3>10. d[q.bits] = p
      BY <3>5, <3>7, <3>9
    <3>11. DOMAIN d \subseteq 1..4 /\ DOMAIN d = Tried(t.req)
      <4>1. t.req \in VerifyRequests
        BY <1>2, <2>1, <3>1 DEF CmdOk
      <4>2. t.req.bits \in 0..4
        BY <4>1, RequestsAssumption
      <4> QED BY <3>5, <4>2, TriedIs
    <3>12. p # Nothing
      <4>1. p.is = "payload" /\ Nothing.is = "nothing"
        BY <3>8 DEF Nothing
      <4> QED BY <4>1
    <3>13. Judged(v, p, q.bits) \in {"valid", "valid_revoked"}
      BY <1>1, <1>5, <3>1, <3>2, <3>3, <3>8, <3>9, OwnIsAccepted
    <3>14. cmds[v].req.key # "none"
      BY <1>1, <1>5, <3>1, <3>3
    <3> QED BY <3>6, <3>7, <3>10, <3>11, <3>12, <3>13, <3>14, ChosenConfirms
  <2> QED BY <2>1, <2>2, <2>3, <2>4
<1> QED BY <1>7, <1>8

-----------------------------------------------------------------------------
(* The commands. *)

LEMMA CliInitInv == CliInit => CliInv
<1> SUFFICES ASSUME CliInit PROVE CliInv
  OBVIOUS
<1>1. /\ DOMAIN files = FileNames /\ \A n \in FileNames : files[n] = Absent
      /\ DOMAIN cmds = Commands /\ \A c \in Commands : cmds[c] = Idle
  BY DEF CliInit
<1>2. /\ DOMAIN Idle = CmdFields /\ Idle.pc = "idle" /\ Idle.status = "none" /\ Idle.part = 0 /\ Idle.reads = <<>>
      /\ Idle.saw = {} /\ Idle.req.cmd = "none"
  BY DEF Idle, CmdFields
<1>3. \A c : ~ Running(c, Idle) /\ ~ Won(c, Idle)
  BY <1>2 DEF Running, Won
<1>4. Shaped
  BY <1>1, <1>2, <1>3 DEF Shaped, FileOk, CmdOk
<1>5. Filed
  BY <1>1, <1>3 DEF Filed, Kept, Owned, WonAlone, Commands
<1>6. \A c \in Commands : ReadsOk(cmds[c], files, touched, Encoding) /\ SawOk(cmds[c])
  BY <1>1, <1>2, NothingRead DEF SawOk
<1>7. \A v \in Commands : SignedOk(v) /\ VerifiesOk(v)
  BY <1>1, <1>2 DEF SignedOk, VerifiesOk, Verified
<1> QED BY <1>4, <1>5, <1>6, <1>7 DEF CliInv, Judges

LEMMA CliStepInv == CliInv /\ [CliNext]_cliVars => CliInv'
<1> SUFFICES ASSUME CliInv, [CliNext]_cliVars PROVE CliInv'
  OBVIOUS
<1>1. Shaped /\ Filed /\ Judges
  BY DEF CliInv
<1>2. Shaped' /\ Filed'
  BY <1>1, ShapedStep, FiledStep
<1>3. ASSUME NEW c \in Commands
      PROVE  ReadsOk(cmds'[c], files', touched', Encoding') /\ SawOk(cmds[c])' /\ SignedOk(c)' /\ VerifiesOk(c)'
  <2>1. ReadsOk(cmds[c], files, touched, Encoding) /\ SawOk(cmds[c]) /\ SignedOk(c) /\ VerifiesOk(c)
    BY <1>1 DEF Judges
  <2> QED BY <1>1, <2>1, ReadsStep, SawStep, SignedStep, VerifiesStep
<1>4. Judges'
  BY <1>3 DEF Judges
<1> QED BY <1>2, <1>4 DEF CliInv

LEMMA CliVerdicts == CliInv => VerdictIsRight /\ OneCommandPerGroup
<1> SUFFICES ASSUME CliInv PROVE VerdictIsRight /\ OneCommandPerGroup
  OBVIOUS
<1>1. Shaped /\ Filed /\ Judges
  BY DEF CliInv
<1>2. ValidIsSigned
  <2> SUFFICES ASSUME NEW v \in Commands, Verified(v), cmds[v].req.key # "none", ExitCode(cmds[v].status) = 0
               PROVE  /\ cmds[v].req.key \notin cmds[v].revoked
                      /\ \E c \in Encoders :
                           LET q == cmds[c].req IN
                           /\ q.cmd = "encode" /\ q.signer = cmds[v].req.key
                           /\ q.image = cmds[v].reads[1].image /\ q.bits \in Tried(cmds[v].req)
    BY DEF ValidIsSigned
  <2>1. SignedOk(v)
    BY <1>1 DEF Judges
  <2>2. cmds[v].req.key \notin cmds[v].revoked
    BY <2>1 DEF SignedOk
  <2>3. PICK c \in Encoding : /\ cmds[c].req.signer = cmds[v].req.key
                              /\ cmds[c].req.image = cmds[v].reads[1].image /\ cmds[c].req.bits \in Tried(cmds[v].req)
    BY <2>1 DEF SignedOk
  <2> QED BY <2>2, <2>3 DEF Encoding
<1>3. EncodedVerifies
  <2>1. \A v \in Commands : VerifiesOk(v)
    BY <1>1 DEF Judges
  <2> QED BY <2>1 DEF EncodedVerifies, VerifiesOk, Undamaged
<1>4. OneCommandPerGroup
  BY <1>1, GroupsOfOne
<1> QED BY <1>2, <1>3, <1>4 DEF VerdictIsRight

\* The inductive invariant of the commands, for any number of them, killed at any step,
\* and any damage to the files: what each has written and read is what it should be, and
\* every verdict is right.
THEOREM CliCorrect == CliSpec => []CliInv
BY CliInitInv, CliStepInv, PTL DEF CliSpec

\* What encode and the key commands leave under a group of names is of one command; no key
\* is confirmed that did not sign; what was reported and is undamaged verifies; and shards
\* give the whole payload or nothing.
THEOREM CommandsStayRight == CliSpec /\ PileSpec => []GroupsAreRight
<1>1. CliSpec => [](VerdictIsRight /\ OneCommandPerGroup)
  BY CliCorrect, CliVerdicts, PTL
<1>2. PileSpec => []RecoversExactly
  BY ShardsRecoverExactly
<1>3. VerdictIsRight /\ OneCommandPerGroup /\ RecoversExactly => GroupsAreRight
  BY DEF GroupsAreRight
<1> QED BY <1>1, <1>2, <1>3, PTL

=============================================================================
