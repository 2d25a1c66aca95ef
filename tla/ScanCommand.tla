----------------------------- MODULE ScanCommand -----------------------------
(***************************************************************************)
(* The scan command (cmd_scan.rs): a bounded walk over a directory, or one *)
(* file, that scans a prefix of each regular file while others go on       *)
(* writing there; then the records and the exit status.                    *)
(*                                                                         *)
(* What scan_bytes sees in a file is module ForensicScan; here a file has  *)
(* at most one mark, which is seen if the prefix reaches it.  Files that   *)
(* appear during the walk are left out: a directory stream may skip them.  *)
(***************************************************************************)
EXTENDS Naturals, Sequences, FiniteSets

CONSTANTS
  Trees,       \* BOUND: what may be scanned, name -> [in, kind, to, len, mark, at, limited]
  Inputs,      \* BOUND: the names that may be given
  WalkDepths,      \* BOUND: values of --max-depth
  FileLimits,  \* BOUND: values of --max-files
  ByteLimits,  \* BOUND: values of --max-bytes
  Selections,  \* BOUND: detectors of a profile, subsets of {"magic", "text"}
  MaxChanges   \* BOUND: files that others change during the walk

\* What a tree is: files and directories, links that lead to one of them, in
\* directories of the tree or in none, and no directory in itself.
Node(t) ==
  [in : DOMAIN t \cup {"none"}, kind : {"file", "dir", "link", "other"}, to : DOMAIN t \cup {"none"},
   len : Nat, mark : {"none", "magic", "text", "container", "statistical"}, at : Nat, limited : BOOLEAN]
IsTree(t) ==
  /\ IsFiniteSet(DOMAIN t) /\ "none" \notin DOMAIN t
  /\ \A n \in DOMAIN t :
       /\ t[n] \in Node(t)
       /\ t[n].in # "none" => t[t[n].in].kind = "dir"
       /\ t[n].kind = "link" => t[n].to \in DOMAIN t /\ t[t[n].to].kind # "link"
  /\ \A S \in SUBSET DOMAIN t : S # {} => \E n \in S : t[n].in \notin S

ASSUME WalkAssumption ==
  /\ \A t \in Trees : IsTree(t)
  /\ WalkDepths \subseteq Nat /\ FileLimits \subseteq Nat \ {0} /\ ByteLimits \subseteq Nat \ {0}

VARIABLES
  tree,      \* what is on the disk
  first,     \* history: what was there at the start
  changed,   \* history: the files that were changed since
  options,
  walk,      \* the calls of walk, and the file in hand
  found,     \* what run collects: scanned, findings, errors, reasons
  status     \* what emit printed and run returned

walkVars == <<tree, first, changed, options, walk, found, status>>

NoFile == [file |-> "none", total |-> 0]
Unfinished == [exit |-> "none", records |-> <<>>, last |-> "none"]

-----------------------------------------------------------------------------
(* One file.                                                               *)

\* ScanDetectors and from_scan: statistics are observations, containers cannot
\* be deselected.
Reported(mark) == mark = "container" \/ (mark \in {"magic", "text"} /\ mark \in options.detectors)

LimitTo(len) == IF len <= options.bytes THEN len ELSE options.bytes
Shows(file, prefix) == file.mark # "none" /\ file.at <= prefix

\* scan_one: the size is taken when the file is opened, the prefix after that.
FindingOf(name, total) ==
  LET file == tree[name]
      truncated == total > LimitTo(file.len)
  IN [file |-> name,
      detected |-> Shows(file, LimitTo(file.len)) /\ Reported(file.mark),
      reasons |-> (IF file.limited THEN {"limit"} ELSE {}) \cup (IF truncated THEN {"max_bytes"} ELSE {})]

-----------------------------------------------------------------------------
(* The walk.                                                               *)

WalkInit ==
  /\ tree \in Trees /\ first = tree /\ changed = {}
  /\ options \in [input : Inputs, follow : BOOLEAN, depth : WalkDepths, files : FileLimits,
                  bytes : ByteLimits, detectors : Selections]
  /\ options.input \in DOMAIN tree
  /\ walk = [pc |-> "start", calls |-> <<>>, hand |-> NoFile]
  /\ found = [scanned |-> 0, findings |-> <<>>, errors |-> <<>>, reasons |-> {}]
  /\ status = Unfinished

Listed(dir) == {n \in DOMAIN tree : tree[n].in = dir /\ tree[n].kind # "gone"}
Call(dir, depth) == [dir |-> dir, depth |-> depth, left |-> Listed(dir)]
Top == Head(walk.calls)

Error(name) == found' = [found EXCEPT !.errors = Append(@, name)]
Limited(reason) == found' = [found EXCEPT !.reasons = @ \cup {reason}]

\* walk, up to its loop: over the depth, the directory is left out; it may
\* also be unreadable.
Enter(dir, depth, calls) ==
  \/ /\ depth > options.depth
     /\ Limited("max_depth") /\ walk' = [walk EXCEPT !.pc = "walking", !.calls = calls]
  \/ /\ depth <= options.depth
     /\ \/ Error(dir) /\ walk' = [walk EXCEPT !.pc = "walking", !.calls = calls]
        \/ walk' = [walk EXCEPT !.pc = "walking", !.calls = <<Call(dir, depth)>> \o calls] /\ UNCHANGED found

\* The input, or what it leads to; check_input_symlink, and what metadata says.
Start == IF first[options.input].kind = "link" THEN first[options.input].to ELSE options.input
Admitted == tree[options.input].kind = "link" => options.follow

RefuseInput ==
  /\ walk.pc = "start" /\ (~Admitted \/ tree[Start].kind = "other")
  /\ walk' = [walk EXCEPT !.pc = "done"]
  /\ status' = [status EXCEPT !.exit = "refused"]
  /\ UNCHANGED <<tree, first, changed, options, found>>

BeginFile ==
  /\ walk.pc = "start" /\ Admitted /\ tree[Start].kind = "file"
  /\ walk' = [walk EXCEPT !.pc = "open", !.hand.file = Start]
  /\ found' = [found EXCEPT !.scanned = 1]
  /\ UNCHANGED <<tree, first, changed, options, status>>

BeginDirectory ==
  /\ walk.pc = "start" /\ Admitted /\ tree[Start].kind = "dir"
  /\ Enter(Start, 0, <<>>)
  /\ UNCHANGED <<tree, first, changed, options, status>>

\* The loop of walk for the entry n, whose own kind counts: a link is not
\* followed.
Without(n) == <<[Top EXCEPT !.left = @ \ {n}]>> \o Tail(walk.calls)

EntryFails(n) ==
  /\ Error(Top.dir) /\ walk' = [walk EXCEPT !.calls = Without(n)]

DescendInto(n) == tree[n].kind = "dir" /\ Enter(n, Top.depth + 1, Without(n))

Skip(n) ==
  /\ tree[n].kind \in {"link", "other"}
  /\ walk' = [walk EXCEPT !.calls = Without(n)] /\ UNCHANGED found

TakeFile(n) ==
  /\ tree[n].kind \in {"file", "gone"} /\ found.scanned < options.files
  /\ found' = [found EXCEPT !.scanned = @ + 1]
  /\ walk' = [walk EXCEPT !.pc = "open", !.hand.file = n, !.calls = Without(n)]

\* Mutant of OverFiles: the walk ends as if there were no more files.
OverFilesSilent(n) ==
  /\ tree[n].kind \in {"file", "gone"} /\ found.scanned >= options.files
  /\ UNCHANGED found /\ walk' = [walk EXCEPT !.calls = Tail(@)]

\* This call of walk returns; those above it go on.
OverFiles(n) ==
  /\ tree[n].kind \in {"file", "gone"} /\ found.scanned >= options.files
  /\ Limited("max_files") /\ walk' = [walk EXCEPT !.calls = Tail(@)]

NextEntry ==
  /\ walk.pc = "walking" /\ walk.calls # <<>>
  /\ \E n \in Top.left : EntryFails(n) \/ DescendInto(n) \/ Skip(n) \/ TakeFile(n) \/ OverFiles(n)
  /\ UNCHANGED <<tree, first, changed, options, status>>

LastEntry ==
  /\ walk.pc = "walking" /\ walk.calls # <<>> /\ Top.left = {}
  /\ walk' = [walk EXCEPT !.calls = Tail(@)]
  /\ UNCHANGED <<tree, first, changed, options, found, status>>

\* read_bounded: open and metadata, then the prefix.
OpenFile ==
  /\ walk.pc = "open"
  /\ \/ tree[walk.hand.file].kind # "gone"
        /\ walk' = [walk EXCEPT !.pc = "read", !.hand.total = tree[walk.hand.file].len] /\ UNCHANGED found
     \/ Error(walk.hand.file) /\ walk' = [walk EXCEPT !.pc = "walking", !.hand = NoFile]
  /\ UNCHANGED <<tree, first, changed, options, status>>

ReadFile ==
  /\ walk.pc = "read"
  /\ \/ found' = [found EXCEPT !.findings = Append(@, FindingOf(walk.hand.file, walk.hand.total))]
     \/ Error(walk.hand.file)
  /\ walk' = [walk EXCEPT !.pc = "walking", !.hand = NoFile]
  /\ UNCHANGED <<tree, first, changed, options, status>>

-----------------------------------------------------------------------------
(* The report.                                                             *)

AnyDetected == \E i \in DOMAIN found.findings : found.findings[i].detected
Reasons == found.reasons \cup UNION {found.findings[i].reasons : i \in DOMAIN found.findings}

\* Mutant of ExitStatus: an incomplete run is never more than inconclusive.
ExitStatusLimitsFirst ==
  IF Reasons # {} THEN "5" ELSE IF AnyDetected THEN "4" ELSE IF found.errors # <<>> THEN "6" ELSE "0"

ExitStatus ==
  IF AnyDetected THEN "4" ELSE IF found.errors # <<>> THEN "6" ELSE IF Reasons # {} THEN "5" ELSE "0"

\* emit: a record of every file and of every error, and the summary's status.
Records ==
  [i \in DOMAIN found.findings |-> IF found.findings[i].reasons # {} THEN "partial" ELSE "success"]
    \o [i \in DOMAIN found.errors |-> "error"]
LastStatus == IF found.errors # <<>> THEN "error" ELSE IF Reasons # {} THEN "partial" ELSE "success"

Emit ==
  /\ walk.pc = "walking" /\ walk.calls = <<>>
  /\ status' = [exit |-> ExitStatus, records |-> Records, last |-> LastStatus]
  /\ walk' = [walk EXCEPT !.pc = "done"]
  /\ UNCHANGED <<tree, first, changed, options, found>>

-----------------------------------------------------------------------------
(* Others: a file grows or shrinks by one, or is removed (external), before *)
(* it is examined; later it makes no difference.                            *)

Change(n, file) ==
  /\ walk.pc \notin {"start", "done"} /\ tree[n].kind = "file"
  /\ \A i \in DOMAIN found.findings : found.findings[i].file # n
  /\ Cardinality(changed \cup {n}) <= MaxChanges
  /\ tree' = [tree EXCEPT ![n] = file] /\ changed' = changed \cup {n}
  /\ UNCHANGED <<first, options, walk, found, status>>

Grow(n) == tree[n].len = first[n].len /\ Change(n, [tree[n] EXCEPT !.len = @ + 1])
Shrink(n) == tree[n].len = first[n].len /\ tree[n].len > 0 /\ Change(n, [tree[n] EXCEPT !.len = @ - 1])
Delete(n) == Change(n, [tree[n] EXCEPT !.kind = "gone"])

WalkNext ==
  \/ RefuseInput \/ BeginFile \/ BeginDirectory \/ NextEntry \/ LastEntry \/ OpenFile \/ ReadFile \/ Emit
  \/ \E n \in DOMAIN tree : Grow(n) \/ Shrink(n) \/ Delete(n)

WalkSpec == WalkInit /\ [][WalkNext]_walkVars

-----------------------------------------------------------------------------
(* What the exit status promises.                                          *)

\* The files the walk is about: the input and whatever is in a directory of them.
ClosedBelow(S) == Start \in S /\ \A n \in DOMAIN first : first[n].in \in S => n \in S
Below(n) == \A S \in SUBSET DOMAIN first : ClosedBelow(S) => n \in S
InScope == {n \in DOMAIN first : first[n].kind = "file" /\ Below(n)}
Examined(n) == \E i \in DOMAIN found.findings : found.findings[i].file = n
WholeOf(n) == n \in changed \/ (first[n].len <= options.bytes /\ ~first[n].limited)
Wanted(n, prefix) == Shows(first[n], prefix) /\ Reported(first[n].mark)

\* "0 clean, 4 findings ..., 5 incomplete due to resource limits, 6 traversal
\* or read errors.  Actual findings retain exit 4, including incomplete/error
\* runs" (run): 0 means that every file no one touched was examined to its end
\* and holds nothing that was asked for; 4 that a file holds it, and no such
\* file is passed over in an examined prefix; statistics never count.  No file
\* is examined twice, the limit on files is kept and is named only if there
\* are more, and a record says success only of a whole file (emit).
ExitIsWarranted ==
  status.exit \notin {"none", "refused"} =>
    /\ status.exit = "0" =>
         \A n \in InScope \ changed : Examined(n) /\ WholeOf(n) /\ ~Wanted(n, first[n].len)
    /\ status.exit = "4" => \E n \in InScope : Wanted(n, options.bytes)
    /\ (\E n \in InScope \ changed :
          Examined(n) /\ Wanted(n, LimitTo(first[n].len))) => status.exit = "4"
    /\ Cardinality({n \in InScope : Examined(n)}) = Len(found.findings)
    /\ Len(found.findings) <= options.files
    /\ "max_files" \in found.reasons => Cardinality(InScope) > options.files
    /\ \A i \in DOMAIN found.findings :
         status.records[i] = "success" => WholeOf(found.findings[i].file)
    /\ status.last = "success" => status.exit \in {"0", "4"}

=============================================================================
