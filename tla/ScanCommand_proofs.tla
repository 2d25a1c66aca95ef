------------------------- MODULE ScanCommand_proofs -------------------------
(***************************************************************************)
(* Proofs about the walk of scan, for any trees, options and changes that  *)
(* others make during the walk: what the exit status and the records say   *)
(* is so.                                                                  *)
(***************************************************************************)
EXTENDS ScanCommand, SequenceTheorems, FiniteSetTheorems, TLAPS

-----------------------------------------------------------------------------
(* The invariant.                                                          *)

Findings == [file : DOMAIN first, detected : BOOLEAN, reasons : SUBSET {"limit", "max_bytes"}]
Calls == [dir : DOMAIN first, depth : Nat, left : SUBSET DOMAIN first]
Options ==
  [input : DOMAIN first, follow : BOOLEAN, depth : WalkDepths, files : FileLimits,
   bytes : ByteLimits, detectors : Selections]

Busy == walk.pc \in {"open", "read"}
Steps == {"start", "walking", "open", "read", "done"}

TypesOK ==
  /\ options \in Options
  /\ found \in [scanned : Nat, findings : Seq(Findings), errors : Seq(DOMAIN first),
                reasons : SUBSET {"max_depth", "max_files"}]
  /\ walk \in [pc : Steps, calls : Seq(Calls),
               hand : [file : DOMAIN first \cup {"none"}, total : Nat]]
  /\ Busy => walk.hand.file # "none"

\* Others change files, and of them the length or that they are there.
DiskOK ==
  /\ first \in Trees /\ DOMAIN tree = DOMAIN first
  /\ \A n \in DOMAIN first : n \notin changed => tree[n] = first[n]
  /\ \A n \in changed :
       /\ n \in DOMAIN first /\ first[n].kind = "file" /\ tree[n].kind \in {"file", "gone"}
       /\ tree[n] \in [in : {first[n].in}, kind : {"file", "gone"}, to : {first[n].to}, len : Nat,
                       mark : {first[n].mark}, at : {first[n].at}, limited : {first[n].limited}]

\* The names in R belong to the walk, each but the first with its directory.
Reach(R) ==
  /\ R \subseteq DOMAIN first /\ Start \in R /\ first[Start].kind \in {"file", "dir"}
  /\ \A n \in R \ {Start} : first[n].in \in R
  /\ \A S \in SUBSET DOMAIN first : ClosedBelow(S) => R \subseteq S

\* Each directory of R is listed once, what is left of it is not in R.
CallsOK(R, calls) ==
  /\ \A i \in DOMAIN calls :
       /\ calls[i].dir \in R
       /\ \A n \in calls[i].left : first[n].in = calls[i].dir /\ n \notin R
  /\ \A i, j \in DOMAIN calls : calls[i].dir = calls[j].dir => i = j

ToCome(n, calls) == \E i \in DOMAIN calls : n \in calls[i].left

FilesOf(R) == {n \in R : first[n].kind = "file"}

\* The files among them are counted, and each is examined once.
Counted(R) ==
  /\ found.scanned = Cardinality(FilesOf(R)) /\ found.scanned <= options.files
  /\ Len(found.findings) + (IF Busy THEN 1 ELSE 0) <= found.scanned
  /\ \A i \in DOMAIN found.findings : found.findings[i].file \in FilesOf(R)
  /\ \A i, j \in DOMAIN found.findings : found.findings[i].file = found.findings[j].file => i = j
  /\ Busy => walk.hand.file \in FilesOf(R) /\ ~Examined(walk.hand.file)

\* Without an error or a limit each of them is examined, and whatever is in one
\* of them is one of them or still to come.
Covered(R) ==
  found.errors = <<>> /\ found.reasons = {} =>
    \A n \in R :
      /\ first[n].kind = "file" /\ n \notin changed => Examined(n) \/ (Busy /\ walk.hand.file = n)
      /\ \A m \in DOMAIN first :
           first[m].in = n /\ m \notin changed =>
             m \in R \/ ToCome(m, walk.calls)

\* What is reported of a file is what it is, unless it is changed at that time.
TruthfulOf(f) ==
  /\ f.detected <=> Shows(tree[f.file], LimitTo(tree[f.file].len)) /\ Reported(tree[f.file].mark)
  /\ f.reasons = {} => WholeOf(f.file)

Truthful ==
  /\ \A i \in DOMAIN found.findings : TruthfulOf(found.findings[i])
  /\ walk.pc = "read" /\ walk.hand.file \notin changed => walk.hand.total = first[walk.hand.file].len
  /\ "max_files" \in found.reasons => Cardinality(InScope) > options.files

Fresh ==
  /\ tree = first /\ changed = {} /\ walk.calls = <<>> /\ walk.hand = NoFile
  /\ found = [scanned |-> 0, findings |-> <<>>, errors |-> <<>>, reasons |-> {}]

WalkInv ==
  /\ DiskOK /\ TypesOK
  /\ walk.pc = "start" => Fresh
  /\ walk.pc \in {"walking", "open", "read"} =>
       /\ Truthful
       /\ \E R \in SUBSET DOMAIN first : Reach(R) /\ CallsOK(R, walk.calls) /\ Counted(R) /\ Covered(R)
  /\ walk.pc # "done" => status = Unfinished
  /\ ExitIsWarranted

-----------------------------------------------------------------------------
(* Sequences.                                                              *)

\* One more in front.
LEMMA PushFacts ==
  ASSUME NEW S, NEW s \in Seq(S), NEW c \in S, NEW t, t = <<c>> \o s
  PROVE  /\ t \in Seq(S) /\ t # <<>> /\ t[1] = c
         /\ DOMAIN t = 1..(Len(s) + 1)
         /\ \A i \in DOMAIN t : i # 1 => i - 1 \in DOMAIN s /\ t[i] = s[i - 1]
         /\ \A i \in DOMAIN s : i + 1 \in DOMAIN t /\ t[i + 1] = s[i]
<1>1. <<c>> \in Seq(S) /\ Len(<<c>>) = 1 /\ <<c>>[1] = c
  OBVIOUS
<1>2. /\ t \in Seq(S) /\ Len(t) = 1 + Len(s)
      /\ \A i \in 1..(1 + Len(s)) : t[i] = IF i <= 1 THEN <<c>>[i] ELSE s[i - 1]
  BY <1>1, ConcatProperties
<1>3. Len(s) \in Nat /\ DOMAIN s = 1..Len(s) /\ DOMAIN t = 1..(Len(s) + 1)
  BY <1>2
<1> QED BY <1>1, <1>2, <1>3

\* The first one less.
LEMMA PopFacts ==
  ASSUME NEW S, NEW s \in Seq(S), s # <<>>
  PROVE  /\ Tail(s) \in Seq(S) /\ Head(s) = s[1] /\ s[1] \in S /\ 1 \in DOMAIN s
         /\ \A i \in DOMAIN Tail(s) : i + 1 \in DOMAIN s /\ Tail(s)[i] = s[i + 1]
         /\ \A i \in DOMAIN s : i # 1 => i - 1 \in DOMAIN Tail(s) /\ s[i] = Tail(s)[i - 1]
<1>1. /\ Tail(s) \in Seq(S) /\ Len(Tail(s)) = Len(s) - 1 /\ Head(s) = s[1]
      /\ \A i \in 1..Len(Tail(s)) : Tail(s)[i] = s[i + 1]
  BY HeadTailProperties
<1>2. Len(s) \in Nat /\ Len(s) # 0 /\ DOMAIN s = 1..Len(s) /\ DOMAIN Tail(s) = 1..(Len(s) - 1)
  BY <1>1, EmptySeq
<1> QED BY <1>1, <1>2

\* One more at the end.
LEMMA AppendFacts ==
  ASSUME NEW S, NEW s \in Seq(S), NEW c \in S, NEW t, t = Append(s, c)
  PROVE  /\ t \in Seq(S) /\ t # <<>> /\ Len(t) = Len(s) + 1 /\ Len(t) \in DOMAIN t /\ t[Len(t)] = c
         /\ \A i \in DOMAIN t : i = Len(t) \/ (i \in DOMAIN s /\ t[i] = s[i])
         /\ \A i \in DOMAIN s : i \in DOMAIN t /\ t[i] = s[i] /\ i # Len(t)
<1>1. /\ t \in Seq(S) /\ Len(t) = Len(s) + 1
      /\ \A i \in 1..Len(s) : t[i] = s[i]
      /\ t[Len(s) + 1] = c
  BY AppendProperties
<1>2. Len(s) \in Nat /\ DOMAIN s = 1..Len(s) /\ DOMAIN t = 1..(Len(s) + 1)
  BY <1>1
<1> QED BY <1>1, <1>2

\* A sequence without repetition is as long as the set of its elements.
LEMMA LenIsCardinality ==
  ASSUME NEW S, NEW s \in Seq(S), \A i, j \in DOMAIN s : s[i] = s[j] => i = j
  PROVE  Cardinality({s[i] : i \in DOMAIN s}) = Len(s)
<1> DEFINE T == {s[i] : i \in DOMAIN s}
<1>1. Len(s) \in Nat /\ DOMAIN s = 1..Len(s)
  OBVIOUS
<1>2. IsFiniteSet(1..Len(s)) /\ Cardinality(1..Len(s)) = Len(s)
  BY <1>1, FS_Interval
<1>3. s \in [1..Len(s) -> T]
  BY <1>1
<1>4. s \in Bijection(1..Len(s), T)
  BY <1>1, <1>3 DEF Bijection, Injection, Surjection, IsInjective
<1>5. Cardinality(1..Len(s)) = Cardinality(T)
  BY <1>2, <1>4, FS_Bijection DEF ExistsBijection
<1> QED BY <1>2, <1>5

-----------------------------------------------------------------------------
(* The names the walk has come to.                                         *)

\* What the assumption says of a tree.
LEMMA TreeFacts ==
  ASSUME first \in Trees
  PROVE  /\ IsFiniteSet(DOMAIN first) /\ "none" \notin DOMAIN first
         /\ \A n \in DOMAIN first :
              /\ first[n] \in Node(first)
              /\ first[n].in # "none" => first[first[n].in].kind = "dir"
              /\ first[n].kind = "link" => first[n].to \in DOMAIN first /\ first[first[n].to].kind # "link"
         /\ \A S \in SUBSET DOMAIN first : S # {} => \E n \in S : first[n].in \notin S
BY WalkAssumption DEF IsTree

\* The first name is all there is at the beginning.
LEMMA ReachStart ==
  ASSUME Start \in DOMAIN first, first[Start].kind \in {"file", "dir"}
  PROVE  Reach({Start})
BY DEF Reach, ClosedBelow

\* It comes to whatever is in a directory it has come to.
LEMMA ReachAdd ==
  ASSUME NEW R, Reach(R), NEW n \in DOMAIN first, first[n].in \in R
  PROVE  Reach(R \cup {n})
<1>1. R \cup {n} \subseteq DOMAIN first /\ Start \in R \cup {n} /\ first[Start].kind \in {"file", "dir"}
  BY DEF Reach
<1>2. \A m \in (R \cup {n}) \ {Start} : first[m].in \in R \cup {n}
  BY DEF Reach
<1>3. ASSUME NEW S \in SUBSET DOMAIN first, ClosedBelow(S) PROVE R \cup {n} \subseteq S
  <2>1. R \subseteq S
    BY <1>3 DEF Reach
  <2>2. n \in S
    BY <1>3, <2>1 DEF ClosedBelow
  <2> QED BY <2>1, <2>2
<1> QED BY <1>1, <1>2, <1>3 DEF Reach

\* No directory is in a directory below it.
LEMMA ChildrenAreNew ==
  ASSUME first \in Trees, NEW R, Reach(R), NEW n \in DOMAIN first, n \notin R, first[n].in \in R,
         NEW m \in DOMAIN first, first[m].in = n
  PROVE  m \notin R \cup {n}
<1> SUFFICES ASSUME m \in R \cup {n} PROVE FALSE
  OBVIOUS
<1> DEFINE S == R \cup {n}
<1>1. m \notin R \ {Start}
  BY DEF Reach
<1>2. CASE m = Start
  <2>1. \A k \in S : first[k].in \in S
    BY <1>2 DEF Reach
  <2>2. S \in SUBSET DOMAIN first /\ S # {}
    BY DEF Reach
  <2> QED BY <2>1, <2>2, TreeFacts
<1>3. CASE m = n
  <2>1. {n} \in SUBSET DOMAIN first /\ {n} # {}
    OBVIOUS
  <2> QED BY <1>3, <2>1, TreeFacts
<1> QED BY <1>1, <1>2, <1>3

\* Nor is the first one in itself.
LEMMA StartIsNotInside ==
  ASSUME first \in Trees, Start \in DOMAIN first, NEW m \in DOMAIN first, first[m].in = Start
  PROVE  m # Start
<1> SUFFICES ASSUME m = Start PROVE FALSE
  OBVIOUS
<1>1. {Start} \in SUBSET DOMAIN first /\ {Start} # {}
  OBVIOUS
<1> QED BY <1>1, TreeFacts

\* The files among them are in scope, and finitely many.
LEMMA FilesFacts ==
  ASSUME first \in Trees, NEW R, Reach(R)
  PROVE  FilesOf(R) \subseteq InScope /\ IsFiniteSet(FilesOf(R)) /\ IsFiniteSet(InScope)
<1>1. FilesOf(R) \subseteq InScope
  BY DEF Reach, FilesOf, InScope, Below
<1>2. FilesOf(R) \subseteq DOMAIN first /\ InScope \subseteq DOMAIN first
  BY DEF Reach, FilesOf, InScope
<1> QED BY <1>1, <1>2, TreeFacts, FS_Subset

\* One more is counted if it is a file.
LEMMA FilesAdd ==
  ASSUME first \in Trees, NEW R, Reach(R), NEW n \in DOMAIN first, n \notin R
  PROVE  /\ first[n].kind = "file" =>
              /\ FilesOf(R \cup {n}) = FilesOf(R) \cup {n}
              /\ Cardinality(FilesOf(R \cup {n})) = Cardinality(FilesOf(R)) + 1
         /\ first[n].kind # "file" => FilesOf(R \cup {n}) = FilesOf(R)
<1>1. first[n].kind = "file" => FilesOf(R \cup {n}) = FilesOf(R) \cup {n}
  BY DEF FilesOf
<1>2. Cardinality(FilesOf(R) \cup {n}) = Cardinality(FilesOf(R)) + 1
  <2>1. n \notin FilesOf(R) /\ IsFiniteSet(FilesOf(R))
    BY FilesFacts DEF FilesOf
  <2> QED BY <2>1, FS_AddElement
<1>3. first[n].kind # "file" => FilesOf(R \cup {n}) = FilesOf(R)
  BY DEF FilesOf
<1> QED BY <1>1, <1>2, <1>3

\* A call of walk returns.
LEMMA CallsPop ==
  ASSUME NEW R, NEW s \in Seq(Calls), s # <<>>, CallsOK(R, s)
  PROVE  /\ Tail(s) \in Seq(Calls) /\ CallsOK(R, Tail(s))
         /\ \A m : ToCome(m, s) => m \in s[1].left \/ ToCome(m, Tail(s))
<1>1. /\ Tail(s) \in Seq(Calls)
      /\ \A i \in DOMAIN Tail(s) : i + 1 \in DOMAIN s /\ Tail(s)[i] = s[i + 1]
      /\ \A i \in DOMAIN s : i # 1 => i - 1 \in DOMAIN Tail(s) /\ s[i] = Tail(s)[i - 1]
      /\ \A i \in DOMAIN Tail(s) : i \in Nat
  <2>1. \A i \in DOMAIN Tail(s) : i \in Nat
    BY PopFacts, LenProperties
  <2> QED BY <2>1, PopFacts
<1>2. CallsOK(R, Tail(s))
  <2>1. ASSUME NEW i \in DOMAIN Tail(s)
        PROVE  /\ Tail(s)[i].dir \in R
               /\ \A n \in Tail(s)[i].left : first[n].in = Tail(s)[i].dir /\ n \notin R
    BY <1>1 DEF CallsOK
  <2>2. ASSUME NEW i \in DOMAIN Tail(s), NEW j \in DOMAIN Tail(s), Tail(s)[i].dir = Tail(s)[j].dir
        PROVE  i = j
    <3>1. i + 1 = j + 1
      BY <1>1, <2>2 DEF CallsOK
    <3> QED BY <1>1, <3>1
  <2> QED BY <2>1, <2>2 DEF CallsOK
<1>3. \A m : ToCome(m, s) => m \in s[1].left \/ ToCome(m, Tail(s))
  BY <1>1 DEF ToCome
<1> QED BY <1>1, <1>2, <1>3

\* Its loop takes the entry n, which then belongs to R or not.
Taken(s, n) == <<[Head(s) EXCEPT !.left = @ \ {n}]>> \o Tail(s)

LEMMA CallsTake ==
  ASSUME NEW R, NEW s \in Seq(Calls), s # <<>>, CallsOK(R, s), NEW n \in Head(s).left,
         NEW t, t = Taken(s, n)
  PROVE  /\ t \in Seq(Calls) /\ CallsOK(R, t) /\ CallsOK(R \cup {n}, t)
         /\ \A m : ToCome(m, s) => m = n \/ ToCome(m, t)
         /\ \A i \in DOMAIN t : t[i].dir \in R
<1> DEFINE c == [Head(s) EXCEPT !.left = @ \ {n}]
<1>1. /\ Tail(s) \in Seq(Calls) /\ Head(s) = s[1] /\ s[1] \in Calls /\ 1 \in DOMAIN s
      /\ \A i \in DOMAIN Tail(s) : i + 1 \in DOMAIN s /\ Tail(s)[i] = s[i + 1]
      /\ \A i \in DOMAIN s : i # 1 => i - 1 \in DOMAIN Tail(s) /\ s[i] = Tail(s)[i - 1]
  BY PopFacts
<1>2. c \in Calls /\ c.dir = s[1].dir /\ c.left = s[1].left \ {n}
  BY <1>1 DEF Calls
<1>3. /\ t \in Seq(Calls) /\ t[1] = c /\ 1 \in DOMAIN t
      /\ \A i \in DOMAIN t : i # 1 => i - 1 \in DOMAIN Tail(s) /\ t[i] = Tail(s)[i - 1]
      /\ \A i \in DOMAIN Tail(s) : i + 1 \in DOMAIN t /\ t[i + 1] = Tail(s)[i]
      /\ \A i \in DOMAIN t : i \in Nat
      /\ \A i \in DOMAIN s : i \in Nat
  <2> HIDE DEF c
  <2>1. /\ t \in Seq(Calls) /\ t # <<>> /\ t[1] = c /\ DOMAIN t = 1..(Len(Tail(s)) + 1)
        /\ \A i \in DOMAIN t : i # 1 => i - 1 \in DOMAIN Tail(s) /\ t[i] = Tail(s)[i - 1]
        /\ \A i \in DOMAIN Tail(s) : i + 1 \in DOMAIN t /\ t[i + 1] = Tail(s)[i]
    <3>1. t = <<c>> \o Tail(s)
      BY DEF c, Taken
    <3>2. PICK u \in Seq(Calls) : u = Tail(s)
      BY <1>1
    <3>3. PICK d \in Calls : d = c /\ t = <<d>> \o u
      BY <1>2, <3>1, <3>2
    <3>4. /\ t \in Seq(Calls) /\ t # <<>> /\ t[1] = d /\ DOMAIN t = 1..(Len(u) + 1)
          /\ \A i \in DOMAIN t : i # 1 => i - 1 \in DOMAIN u /\ t[i] = u[i - 1]
          /\ \A i \in DOMAIN u : i + 1 \in DOMAIN t /\ t[i + 1] = u[i]
      BY <3>3, PushFacts
    <3> QED BY <3>2, <3>3, <3>4
  <2>2. Len(Tail(s)) \in Nat /\ Len(s) \in Nat /\ DOMAIN s = 1..Len(s)
    BY <1>1, LenProperties
  <2> QED BY <2>1, <2>2
<1>4. \A i \in DOMAIN t : i \in DOMAIN s /\ (i # 1 => t[i] = s[i])
  <2>1. ASSUME NEW i \in DOMAIN t, i # 1 PROVE i \in DOMAIN s /\ t[i] = s[i]
    <3>1. i - 1 \in DOMAIN Tail(s) /\ t[i] = Tail(s)[i - 1] /\ (i - 1) + 1 = i
      BY <1>3, <2>1
    <3> QED BY <1>1, <3>1
  <2> QED BY <1>1, <2>1
<1>5. \A i \in DOMAIN s : i \in DOMAIN t /\ (i # 1 => t[i] = s[i])
  <2>1. ASSUME NEW i \in DOMAIN s, i # 1 PROVE i \in DOMAIN t
    <3>1. i - 1 \in DOMAIN Tail(s) /\ (i - 1) + 1 = i
      BY <1>1, <1>3, <2>1
    <3> QED BY <1>3, <3>1
  <2> QED BY <1>3, <1>4, <2>1
<1>6. \A i \in DOMAIN t : t[i].dir = s[i].dir /\ t[i].left \subseteq s[i].left
  BY <1>2, <1>3, <1>4
<1>7. \A i \in DOMAIN t : n \notin t[i].left
  <2>1. ASSUME NEW i \in DOMAIN t, i # 1 PROVE n \notin t[i].left
    <3>1. s[i].dir # s[1].dir
      BY <1>1, <1>4, <2>1 DEF CallsOK
    <3>2. first[n].in = s[1].dir
      BY <1>1 DEF CallsOK
    <3> QED BY <1>4, <2>1, <3>1, <3>2 DEF CallsOK
  <2> QED BY <1>2, <1>3, <2>1
<1>8. CallsOK(R, t)
  <2>1. \A i \in DOMAIN s : s[i].dir \in R /\ \A k \in s[i].left : first[k].in = s[i].dir /\ k \notin R
    BY DEF CallsOK
  <2>2. \A i, j \in DOMAIN s : s[i].dir = s[j].dir => i = j
    BY DEF CallsOK
  <2>3. \A i \in DOMAIN t : t[i].dir \in R /\ \A k \in t[i].left : first[k].in = t[i].dir /\ k \notin R
    BY <1>4, <1>6, <2>1
  <2>4. \A i, j \in DOMAIN t : t[i].dir = t[j].dir => i = j
    BY <1>4, <1>6, <2>2
  <2> QED BY <2>3, <2>4 DEF CallsOK
<1>9. CallsOK(R \cup {n}, t)
  <2>1. \A i \in DOMAIN t : t[i].dir \in R /\ \A k \in t[i].left : first[k].in = t[i].dir /\ k \notin R
    BY <1>8 DEF CallsOK
  <2>2. \A i, j \in DOMAIN t : t[i].dir = t[j].dir => i = j
    BY <1>8 DEF CallsOK
  <2>3. \A i \in DOMAIN t : \A k \in t[i].left : k \notin R \cup {n}
    BY <1>7, <2>1
  <2> QED BY <2>1, <2>2, <2>3 DEF CallsOK
<1>10. \A m : ToCome(m, s) => m = n \/ ToCome(m, t)
  BY <1>2, <1>3, <1>5 DEF ToCome
<1> QED BY <1>3, <1>8, <1>9, <1>10 DEF CallsOK

\* A directory is listed.
LEMMA CallsPush ==
  ASSUME NEW R, NEW s \in Seq(Calls), CallsOK(R, s), NEW c \in Calls, c.dir \in R,
         \A i \in DOMAIN s : s[i].dir # c.dir,
         \A m \in c.left : first[m].in = c.dir /\ m \notin R
  PROVE  /\ <<c>> \o s \in Seq(Calls) /\ CallsOK(R, <<c>> \o s)
         /\ \A m : ToCome(m, <<c>> \o s) <=> m \in c.left \/ ToCome(m, s)
<1> DEFINE t == <<c>> \o s
<1>1. /\ t \in Seq(Calls) /\ t[1] = c /\ 1 \in DOMAIN t
      /\ \A i \in DOMAIN t : i # 1 => i - 1 \in DOMAIN s /\ t[i] = s[i - 1]
      /\ \A i \in DOMAIN s : i + 1 \in DOMAIN t /\ t[i + 1] = s[i]
      /\ \A i \in DOMAIN t : i \in Nat
      /\ \A i \in DOMAIN s : i \in Nat /\ i # 0
  <2> HIDE DEF t
  <2>1. /\ t \in Seq(Calls) /\ t # <<>> /\ t[1] = c /\ DOMAIN t = 1..(Len(s) + 1)
        /\ \A i \in DOMAIN t : i # 1 => i - 1 \in DOMAIN s /\ t[i] = s[i - 1]
        /\ \A i \in DOMAIN s : i + 1 \in DOMAIN t /\ t[i + 1] = s[i]
    BY PushFacts DEF t
  <2>2. Len(s) \in Nat /\ DOMAIN s = 1..Len(s)
    BY LenProperties
  <2> QED BY <2>1, <2>2
<1> HIDE DEF t
<1>2. \A i \in DOMAIN t : t[i].dir \in R /\ \A n \in t[i].left : first[n].in = t[i].dir /\ n \notin R
  BY <1>1 DEF CallsOK
<1>3. \A i, j \in DOMAIN t : t[i].dir = t[j].dir => i = j
  <2>1. ASSUME NEW i \in DOMAIN t, NEW j \in DOMAIN t, t[i].dir = t[j].dir, i # 1, j # 1
        PROVE  i = j
    <3>1. PICK k \in DOMAIN s : k = i - 1 /\ t[i] = s[k]
      BY <1>1, <2>1
    <3>2. PICK l \in DOMAIN s : l = j - 1 /\ t[j] = s[l]
      BY <1>1, <2>1
    <3>3. k = l
      BY <2>1, <3>1, <3>2 DEF CallsOK
    <3> QED BY <1>1, <3>1, <3>2, <3>3
  <2>2. ASSUME NEW i \in DOMAIN t, i # 1 PROVE t[i].dir # t[1].dir
    <3>1. PICK k \in DOMAIN s : t[i] = s[k]
      BY <1>1, <2>2
    <3> QED BY <1>1, <3>1
  <2>3. ASSUME NEW i \in DOMAIN t, NEW j \in DOMAIN t, t[i].dir = t[j].dir
        PROVE  i = j
    <3>1. CASE i = 1
      BY <2>2, <2>3, <3>1
    <3>2. CASE j = 1
      BY <2>2, <2>3, <3>2
    <3>3. CASE i # 1 /\ j # 1
      BY <2>1, <2>3, <3>3
    <3> QED BY <3>1, <3>2, <3>3
  <2> QED BY <2>3
<1>4. \A m : ToCome(m, t) <=> m \in c.left \/ ToCome(m, s)
  <2>1. ASSUME NEW m, ToCome(m, s) PROVE ToCome(m, t)
    BY <1>1, <2>1 DEF ToCome
  <2>2. ASSUME NEW m, ToCome(m, t) PROVE m \in c.left \/ ToCome(m, s)
    BY <1>1, <2>2 DEF ToCome
  <2> QED BY <1>1, <2>1, <2>2 DEF ToCome
<1> QED BY <1>1, <1>2, <1>3, <1>4 DEF CallsOK, t

-----------------------------------------------------------------------------
(* Steps of the walk.                                                      *)

Walking == walk.pc \in {"walking", "open", "read"}
Quiescent == UNCHANGED <<tree, first, changed, options, status>>

\* An error or a limit is all that is added.
LEMMA ErrorFacts ==
  ASSUME TypesOK, NEW n \in DOMAIN first, Error(n), first' = first
  PROVE  /\ found' \in [scanned : Nat, findings : Seq(Findings)', errors : Seq(DOMAIN first)',
                        reasons : SUBSET {"max_depth", "max_files"}]
         /\ found'.scanned = found.scanned /\ found'.findings = found.findings
         /\ found'.reasons = found.reasons /\ found'.errors # <<>>
<1>1. PICK e \in Seq(DOMAIN first) : e = Append(found.errors, n) /\ e # <<>>
  <2>1. PICK s \in Seq(DOMAIN first) : s = found.errors
    BY DEF TypesOK
  <2>2. Append(s, n) \in Seq(DOMAIN first) /\ Append(s, n) # <<>>
    BY AppendProperties
  <2> QED BY <2>1, <2>2
<1>2. found' = [found EXCEPT !.errors = e]
  BY <1>1 DEF Error
<1> HIDE DEF Findings
<1>3. Findings' = Findings
  BY DEF Findings
<1> QED BY <1>1, <1>2, <1>3 DEF TypesOK

LEMMA LimitedFacts ==
  ASSUME TypesOK, NEW r \in {"max_depth", "max_files"}, Limited(r), first' = first
  PROVE  /\ found' \in [scanned : Nat, findings : Seq(Findings)', errors : Seq(DOMAIN first)',
                        reasons : SUBSET {"max_depth", "max_files"}]
         /\ found'.scanned = found.scanned /\ found'.findings = found.findings
         /\ found'.reasons = found.reasons \cup {r}
<1>1. found' = [found EXCEPT !.reasons = found.reasons \cup {r}]
  BY DEF Limited
<1> HIDE DEF Findings
<1>2. Findings' = Findings
  BY DEF Findings
<1> QED BY <1>1, <1>2 DEF TypesOK

\* What is reported stays true if no finding is added.
LEMMA TruthfulSame ==
  ASSUME Truthful, Quiescent, found'.findings = found.findings, walk'.pc # "read",
         "max_files" \in found'.reasons =>
           "max_files" \in found.reasons \/ Cardinality(InScope) > options.files
  PROVE  Truthful'
<1>1. tree' = tree /\ first' = first /\ changed' = changed /\ options' = options
  BY DEF Quiescent
<1>2. InScope' = InScope
  BY <1>1 DEF InScope, Below, ClosedBelow, Start
<1>3. \A i \in DOMAIN found'.findings : TruthfulOf(found.findings[i])'
  <2>1. ASSUME NEW i \in DOMAIN found'.findings PROVE TruthfulOf(found.findings[i])'
    <3>1. TruthfulOf(found.findings[i])
      BY <2>1 DEF Truthful
    <3> QED BY <1>1, <3>1 DEF TruthfulOf, Shows, LimitTo, Reported, WholeOf
  <2> QED BY <2>1
<1> QED BY <1>1, <1>2, <1>3 DEF Truthful

\* What is to be shown of a step of the walk.
LEMMA WalkingInv ==
  ASSUME WalkInv, Quiescent, walk.pc # "done", TypesOK', Walking', Truthful',
         NEW R, Reach(R), CallsOK(R, walk'.calls), Counted(R)', Covered(R)'
  PROVE  WalkInv'
<1>1. tree' = tree /\ first' = first /\ changed' = changed /\ options' = options /\ status' = status
  BY DEF Quiescent
<1>2. DiskOK'
  BY <1>1 DEF WalkInv, DiskOK
<1>3. status' = Unfinished /\ ExitIsWarranted'
  BY <1>1 DEF WalkInv, ExitIsWarranted, Unfinished
<1>4. Reach(R)' /\ R \in SUBSET DOMAIN first'
  BY <1>1 DEF Reach, ClosedBelow, Start
<1>5. CallsOK(R, walk.calls)'
  BY <1>1 DEF CallsOK
<1>6. walk'.pc \in {"walking", "open", "read"}
  BY DEF Walking
<1> QED BY <1>2, <1>3, <1>4, <1>5, <1>6 DEF WalkInv

\* A file is in the hands of the walk, or not.
LEMMA CountedSame ==
  ASSUME NEW R, Counted(R), ~Busy, ~Busy', first' = first, options' = options,
         found'.scanned = found.scanned, found'.findings = found.findings
  PROVE  Counted(R)'
<1>1. FilesOf(R)' = FilesOf(R)
  BY DEF FilesOf
<1> QED BY <1>1 DEF Counted

\* A name of the disk is where it was, and there unless it was changed.
LEMMA DiskFacts ==
  ASSUME DiskOK, NEW n \in DOMAIN first
  PROVE  /\ n \in DOMAIN tree /\ tree[n].in = first[n].in
         /\ tree[n].kind \in {"file", "gone"} <=> first[n].kind = "file"
         /\ tree[n].kind \notin {"file", "gone"} => tree[n] = first[n]
         /\ n \notin changed => tree[n] = first[n] /\ tree[n].kind # "gone"
         /\ first[n].kind \in {"file", "dir", "link", "other"}
<1>1. first[n] \in Node(first)
  BY TreeFacts DEF DiskOK
<1>2. first[n].kind \in {"file", "dir", "link", "other"}
  BY <1>1 DEF Node
<1>3. CASE n \in changed
  BY <1>2, <1>3 DEF DiskOK
<1>4. CASE n \notin changed
  BY <1>2, <1>4 DEF DiskOK
<1> QED BY <1>2, <1>3, <1>4 DEF DiskOK

\* A call of walk is made for a directory of R.
LEMMA EnterStep ==
  ASSUME WalkInv, Quiescent, walk.pc \in {"start", "walking"}, Truthful,
         NEW R, NEW dir \in R, first[dir].kind = "dir", NEW depth \in Nat, NEW calls \in Seq(Calls),
         Enter(dir, depth, calls), Reach(R), CallsOK(R, calls), Counted(R),
         \A i \in DOMAIN calls : calls[i].dir # dir,
         \A m \in DOMAIN first : first[m].in = dir => m \notin R,
         found.errors = <<>> /\ found.reasons = {} =>
           \A n \in R :
             /\ first[n].kind = "file" /\ n \notin changed => Examined(n)
             /\ \A m \in DOMAIN first :
                  n # dir /\ first[m].in = n /\ m \notin changed => m \in R \/ ToCome(m, calls)
  PROVE  WalkInv'
<1>1. tree' = tree /\ first' = first /\ changed' = changed /\ options' = options
  BY DEF Quiescent
<1>2. TypesOK /\ DiskOK /\ walk.pc # "done" /\ ~Busy /\ dir \in DOMAIN first /\ first \in Trees
  BY DEF WalkInv, Busy, Reach, DiskOK
<1> DEFINE c == Call(dir, depth)
<1>3. PICK t \in Seq(Calls) :
        /\ walk' = [walk EXCEPT !.pc = "walking", !.calls = t]
        /\ \/ t = calls /\ depth > options.depth /\ Limited("max_depth")
           \/ t = calls /\ Error(dir)
           \/ t = <<c>> \o calls /\ found' = found
  <2>1. c \in Calls
    BY <1>2 DEF Calls, Call, Listed, DiskOK
  <2> HIDE DEF c
  <2>2. PICK u : u = <<c>> \o calls
    OBVIOUS
  <2>3. u \in Seq(Calls)
    BY <2>1, <2>2, PushFacts
  <2> QED BY <2>2, <2>3 DEF Enter, c
<1>4. /\ walk'.pc = "walking" /\ walk'.calls = t /\ walk'.hand = walk.hand
      /\ walk' \in [pc : Steps, calls : Seq(Calls), hand : [file : DOMAIN first \cup {"none"}, total : Nat]]
  BY <1>2, <1>3 DEF TypesOK, Steps
<1>5. ~Busy' /\ Walking'
  BY <1>4 DEF Busy, Walking
<1>6. Options' = Options /\ Calls' = Calls
  BY <1>1 DEF Options, Calls
<1>7. CASE t = calls /\ depth > options.depth /\ Limited("max_depth")
  <2>1. /\ found' \in [scanned : Nat, findings : Seq(Findings)', errors : Seq(DOMAIN first)',
                       reasons : SUBSET {"max_depth", "max_files"}]
        /\ found'.scanned = found.scanned /\ found'.findings = found.findings
        /\ found'.reasons = found.reasons \cup {"max_depth"}
    BY <1>1, <1>2, <1>7, LimitedFacts
  <2>2. TypesOK'
    BY <1>1, <1>2, <1>4, <1>5, <1>6, <2>1 DEF TypesOK
  <2>3. Covered(R)'
    BY <2>1 DEF Covered
  <2>4. Truthful' /\ Counted(R)'
    BY <1>1, <1>2, <1>4, <1>5, <2>1, TruthfulSame, CountedSame
  <2> QED BY <1>2, <1>4, <1>5, <1>7, <2>2, <2>3, <2>4, WalkingInv
<1>8. CASE t = calls /\ Error(dir)
  <2>1. /\ found' \in [scanned : Nat, findings : Seq(Findings)', errors : Seq(DOMAIN first)',
                       reasons : SUBSET {"max_depth", "max_files"}]
        /\ found'.scanned = found.scanned /\ found'.findings = found.findings
        /\ found'.reasons = found.reasons /\ found'.errors # <<>>
    BY <1>1, <1>2, <1>8, ErrorFacts
  <2>2. TypesOK'
    BY <1>1, <1>2, <1>4, <1>5, <1>6, <2>1 DEF TypesOK
  <2>3. Covered(R)'
    BY <2>1 DEF Covered
  <2>4. Truthful' /\ Counted(R)'
    BY <1>1, <1>2, <1>4, <1>5, <2>1, TruthfulSame, CountedSame
  <2> QED BY <1>2, <1>4, <1>5, <1>8, <2>2, <2>3, <2>4, WalkingInv
<1>9. CASE t = <<c>> \o calls /\ found' = found
  <2>1. /\ c \in Calls /\ c.dir = dir
        /\ c.left = {n \in DOMAIN tree : tree[n].in = dir /\ tree[n].kind # "gone"}
    BY <1>2 DEF Calls, Call, Listed, DiskOK
  <2> HIDE DEF c
  <2>2. \A m \in c.left : first[m].in = c.dir /\ m \notin R
    BY <1>2, <2>1, DiskFacts DEF DiskOK
  <2>3. CallsOK(R, t) /\ \A m : ToCome(m, t) <=> m \in c.left \/ ToCome(m, calls)
    BY <1>9, <2>1, <2>2, CallsPush
  <2>4. \A m \in DOMAIN first : first[m].in = dir /\ m \notin changed => m \in c.left
    BY <1>2, <2>1, DiskFacts
  <2>5. Findings' = Findings
    BY <1>1 DEF Findings
  <2>6. TypesOK'
    BY <1>1, <1>2, <1>4, <1>5, <1>6, <1>9, <2>5 DEF TypesOK
  <2>7. Covered(R)'
    <3> SUFFICES ASSUME found.errors = <<>>, found.reasons = {}, NEW n \in R
                 PROVE  /\ first[n].kind = "file" /\ n \notin changed => Examined(n)
                        /\ \A m \in DOMAIN first :
                             first[m].in = n /\ m \notin changed => m \in R \/ ToCome(m, t)
      BY <1>1, <1>4, <1>9 DEF Covered, ToCome, Examined
    <3>1. \A m \in DOMAIN first :
            first[m].in = n /\ m \notin changed => m \in R \/ ToCome(m, t)
      BY <2>3, <2>4
    <3> QED BY <3>1
  <2>8. Truthful' /\ Counted(R)'
    <3>1. found'.findings = found.findings /\ found'.scanned = found.scanned /\ found'.reasons = found.reasons
      BY <1>9
    <3> QED BY <1>1, <1>2, <1>4, <1>5, <3>1, TruthfulSame, CountedSame
  <2> QED BY <1>2, <1>4, <1>5, <2>3, <2>6, <2>7, <2>8, WalkingInv
<1> QED BY <1>3, <1>7, <1>8, <1>9

\* The walk begins with one name.
LEMMA StartFacts ==
  ASSUME WalkInv, walk.pc = "start"
  PROVE  /\ DiskOK /\ TypesOK /\ Fresh /\ first \in Trees /\ Truthful /\ status = Unfinished
         /\ options.files \in Nat /\ options.files >= 1
         /\ Start \in DOMAIN first /\ tree = first
         /\ CallsOK({Start}, walk.calls) /\ walk.calls = <<>> /\ walk.calls \in Seq(Calls)
         /\ \A m \in DOMAIN first : first[m].in = Start => m \notin {Start}
<1>1. DiskOK /\ TypesOK /\ Fresh /\ first \in Trees /\ status = Unfinished
  BY DEF WalkInv, DiskOK
<1>2. options.files \in Nat /\ options.files >= 1 /\ options.input \in DOMAIN first
  <2>1. options \in Options
    BY <1>1 DEF TypesOK
  <2>2. options.files \in FileLimits /\ options.input \in DOMAIN first
    BY <2>1 DEF Options
  <2>3. \A k \in FileLimits : k \in Nat /\ k >= 1
    BY WalkAssumption
  <2> QED BY <2>2, <2>3
<1>3. Start \in DOMAIN first
  BY <1>1, <1>2, TreeFacts DEF Start
<1>4. Truthful
  BY <1>1 DEF Fresh, Truthful
<1>5. CallsOK({Start}, walk.calls) /\ walk.calls = <<>> /\ walk.calls \in Seq(Calls) /\ tree = first
  BY <1>1 DEF Fresh, CallsOK
<1> QED BY <1>1, <1>2, <1>3, <1>4, <1>5, StartIsNotInside

\* The walk of one file begins.
LEMMA BeginFileInv == WalkInv /\ BeginFile => WalkInv'
<1> SUFFICES ASSUME WalkInv, BeginFile PROVE WalkInv'
  OBVIOUS
<1>1. /\ walk.pc = "start" /\ first[Start].kind = "file" /\ Quiescent
      /\ walk' = [walk EXCEPT !.pc = "open", !.hand.file = Start]
      /\ found' = [found EXCEPT !.scanned = 1]
      /\ tree' = tree /\ first' = first /\ changed' = changed /\ options' = options
  BY StartFacts DEF BeginFile, Quiescent
<1>2. /\ found.findings = <<>> /\ found.reasons = {} /\ walk.calls = <<>>
      /\ found \in [scanned : Nat, findings : Seq(Findings), errors : Seq(DOMAIN first),
                    reasons : SUBSET {"max_depth", "max_files"}]
      /\ walk \in [pc : Steps, calls : Seq(Calls),
                   hand : [file : DOMAIN first \cup {"none"}, total : Nat]]
      /\ options \in Options /\ Start \in DOMAIN first /\ first \in Trees /\ "none" \notin DOMAIN first
  BY <1>1, StartFacts, TreeFacts DEF Fresh, TypesOK
<1>3. /\ walk'.pc = "open" /\ walk'.calls = <<>> /\ walk'.hand.file = Start
      /\ walk' \in [pc : Steps, calls : Seq(Calls),
                    hand : [file : DOMAIN first \cup {"none"}, total : Nat]]
  BY <1>1, <1>2 DEF Steps
<1>4. /\ found'.scanned = 1 /\ found'.findings = <<>> /\ found'.reasons = {}
      /\ found' \in [scanned : Nat, findings : Seq(Findings), errors : Seq(DOMAIN first),
                     reasons : SUBSET {"max_depth", "max_files"}]
  <2> HIDE DEF Findings
  <2> QED BY <1>1, <1>2
<1>5. Options' = Options /\ Calls' = Calls /\ Findings' = Findings
  BY <1>1 DEF Options, Calls, Findings
<1>6. TypesOK' /\ Walking'
  <2> HIDE DEF Options, Calls, Findings
  <2> QED BY <1>1, <1>2, <1>3, <1>4, <1>5 DEF TypesOK, Walking
<1>7. Truthful'
  BY <1>1, <1>2, <1>3, <1>4, StartFacts, TruthfulSame
<1>8. PICK R : R = {Start}
  OBVIOUS
<1>9. Reach(R) /\ CallsOK(R, walk'.calls)
  BY <1>1, <1>2, <1>3, <1>8, StartFacts, ReachStart
<1>10. Counted(R)'
  <2>1. FilesOf(R)' = R /\ Cardinality(R) = 1
    <3>1. FilesOf(R)' = R
      BY <1>1, <1>8 DEF FilesOf
    <3> QED BY <1>8, <3>1, FS_Singleton
  <2>2. /\ found'.scanned = 1 /\ options'.files >= 1 /\ Len(found'.findings) = 0
        /\ found'.findings = <<>> /\ walk'.hand.file \in R /\ options'.files \in Nat
    BY <1>1, <1>3, <1>4, <1>8, StartFacts
  <2>3. ~ Examined(walk.hand.file)'
    BY <2>2 DEF Examined
  <2>4. DOMAIN found'.findings = {}
    BY <2>2
  <2>5. Len(found'.findings) + (IF Busy' THEN 1 ELSE 0) <= found'.scanned
    BY <2>2
  <2> QED BY <2>1, <2>2, <2>3, <2>4, <2>5 DEF Counted
<1>11. Covered(R)'
  <2>1. \A m \in DOMAIN first : first[m].in # Start
    BY <1>1, <1>2, TreeFacts
  <2>2. Busy'
    BY <1>3 DEF Busy
  <2>3. ASSUME NEW n \in R
        PROVE  n = Start /\ n = walk'.hand.file
    BY <1>3, <1>8
  <2> QED BY <1>1, <2>1, <2>2, <2>3 DEF Covered
<1> QED BY <1>1, <1>6, <1>7, <1>9, <1>10, <1>11, WalkingInv

\* The walk of a directory begins.
LEMMA BeginDirectoryInv == WalkInv /\ BeginDirectory => WalkInv'
<1> SUFFICES ASSUME WalkInv, BeginDirectory PROVE WalkInv'
  OBVIOUS
<1>1. walk.pc = "start" /\ first[Start].kind = "dir" /\ Quiescent /\ Enter(Start, 0, <<>>)
  BY StartFacts DEF BeginDirectory, Quiescent
<1>2. PICK R : R = {Start}
  OBVIOUS
<1>3. Reach(R) /\ CallsOK(R, <<>>) /\ <<>> \in Seq(Calls) /\ Truthful
  BY <1>1, <1>2, StartFacts, ReachStart
<1>4. Counted(R)
  <2>1. FilesOf(R) = {} /\ Cardinality({}) = 0
    BY <1>1, <1>2, FS_EmptySet DEF FilesOf
  <2>2. /\ found.scanned = 0 /\ found.findings = <<>> /\ Len(found.findings) = 0 /\ ~ Busy
        /\ options.files >= 0
    BY <1>1, StartFacts DEF Fresh, Busy
  <2> QED BY <2>1, <2>2 DEF Counted
<1>5. /\ \A m \in DOMAIN first : first[m].in = Start => m \notin R
      /\ \A n \in R : n = Start
  BY <1>1, <1>2, StartFacts
<1>6. Start \in R /\ first[Start].kind # "file"
  BY <1>1, <1>2
<1>7. PICK c \in Seq(Calls), d \in R, k \in Nat : c = <<>> /\ d = Start /\ k = 0
  BY <1>3, <1>6
<1>8. /\ Enter(d, k, c) /\ CallsOK(R, c) /\ first[d].kind = "dir" /\ DOMAIN c = {}
      /\ walk.pc \in {"start", "walking"}
      /\ \A m \in DOMAIN first : first[m].in = d => m \notin R
  BY <1>1, <1>3, <1>5, <1>7
<1>9. \A n \in R : first[n].kind # "file" /\ n = d
  BY <1>2, <1>6, <1>7
<1> QED BY <1>1, <1>3, <1>4, <1>8, <1>9, EnterStep

\* An input that is refused.
LEMMA RefuseInputInv == WalkInv /\ RefuseInput => WalkInv'
<1> SUFFICES ASSUME WalkInv, RefuseInput PROVE WalkInv'
  OBVIOUS
<1>1. /\ walk' = [walk EXCEPT !.pc = "done"] /\ status' = [status EXCEPT !.exit = "refused"]
      /\ tree' = tree /\ first' = first /\ changed' = changed /\ options' = options /\ found' = found
      /\ status = Unfinished
  BY StartFacts DEF RefuseInput
<1>2. DiskOK'
  BY <1>1 DEF WalkInv, DiskOK
<1>3. walk'.pc = "done" /\ TypesOK'
  BY <1>1 DEF WalkInv, TypesOK, Options, Calls, Findings, Busy, Steps
<1>4. status'.exit = "refused"
  BY <1>1 DEF Unfinished
<1> QED BY <1>2, <1>3, <1>4 DEF WalkInv, ExitIsWarranted

\* Before the walk.
LEMMA WalkInitInv == WalkInit => WalkInv
<1> SUFFICES ASSUME WalkInit PROVE WalkInv
  OBVIOUS
<1>1. DiskOK
  BY DEF WalkInit, DiskOK
<1>2. walk.pc = "start" /\ Fresh /\ status = Unfinished
  BY DEF WalkInit, Fresh
<1>3. TypesOK
  <2>1. options \in Options
    BY DEF WalkInit, Options
  <2>2. 0 \in Nat /\ ~ Busy
    BY <1>2 DEF Busy
  <2> QED BY <2>1, <2>2 DEF WalkInit, TypesOK, Steps, NoFile
<1>4. ExitIsWarranted
  BY <1>2 DEF ExitIsWarranted, Unfinished
<1> QED BY <1>1, <1>2, <1>3, <1>4 DEF WalkInv

\* What holds of an entry that a call of walk comes to.
LEMMA EntryFacts ==
  ASSUME WalkInv, walk.pc = "walking", walk.calls # <<>>, NEW n \in Top.left
  PROVE  /\ TypesOK /\ DiskOK /\ Truthful /\ first \in Trees /\ ~Busy /\ Top \in Calls
         /\ n \in DOMAIN first
         /\ \E R \in SUBSET DOMAIN first, t \in Seq(Calls) :
              /\ Reach(R) /\ CallsOK(R, walk.calls) /\ Counted(R) /\ Covered(R)
              /\ t = Without(n) /\ CallsOK(R, t) /\ CallsOK(R \cup {n}, t) /\ Reach(R \cup {n})
              /\ n \notin R /\ first[n].in \in R /\ Top.dir \in R
              /\ \A m : ToCome(m, walk.calls) => m = n \/ ToCome(m, t)
              /\ \A i \in DOMAIN t : t[i].dir \in R
<1>1. /\ TypesOK /\ DiskOK /\ Truthful /\ first \in Trees /\ ~Busy
      /\ \E R \in SUBSET DOMAIN first : Reach(R) /\ CallsOK(R, walk.calls) /\ Counted(R) /\ Covered(R)
  BY DEF WalkInv, DiskOK, Busy
<1>2. PICK R \in SUBSET DOMAIN first : Reach(R) /\ CallsOK(R, walk.calls) /\ Counted(R) /\ Covered(R)
  BY <1>1
<1>3. PICK s \in Seq(Calls) : s = walk.calls
  BY <1>1 DEF TypesOK
<1>4. Head(s) = s[1] /\ s[1] \in Calls /\ 1 \in DOMAIN s /\ s # <<>> /\ n \in Head(s).left
  BY <1>3, PopFacts DEF Top
<1>5. Top \in Calls /\ n \in DOMAIN first
  BY <1>3, <1>4 DEF Top, Calls
<1>6. n \notin R /\ first[n].in \in R /\ Top.dir \in R
  BY <1>2, <1>3, <1>4 DEF CallsOK, Top
<1>7. PICK t : t = Taken(s, n)
  OBVIOUS
<1>8. /\ t \in Seq(Calls) /\ CallsOK(R, t) /\ CallsOK(R \cup {n}, t)
      /\ \A m : ToCome(m, s) => m = n \/ ToCome(m, t)
      /\ \A i \in DOMAIN t : t[i].dir \in R
  BY <1>2, <1>3, <1>4, <1>7, CallsTake
<1>9. t = Without(n)
  BY <1>3, <1>7 DEF Taken, Without, Top
<1>10. Reach(R \cup {n})
  BY <1>2, <1>5, <1>6, ReachAdd
<1> QED BY <1>1, <1>2, <1>3, <1>5, <1>6, <1>8, <1>9, <1>10

\* The types after a step that changes the calls and what is found.
LEMMA TypesAfter ==
  ASSUME TypesOK, Quiescent, NEW t \in Seq(Calls), NEW pc \in {"walking", "open", "read"},
         NEW file \in DOMAIN first \cup {"none"}, NEW total \in Nat, pc # "walking" => file # "none",
         walk' = [walk EXCEPT !.pc = pc, !.hand = [file |-> file, total |-> total], !.calls = t],
         found' \in [scanned : Nat, findings : Seq(Findings)', errors : Seq(DOMAIN first)',
                     reasons : SUBSET {"max_depth", "max_files"}]
  PROVE  /\ TypesOK' /\ Walking' /\ walk'.pc = pc /\ walk'.calls = t
         /\ walk'.hand.file = file /\ walk'.hand.total = total
         /\ Busy' <=> pc # "walking"
<1>1. tree' = tree /\ first' = first /\ changed' = changed /\ options' = options
  BY DEF Quiescent
<1>2. /\ walk'.pc = pc /\ walk'.calls = t /\ walk'.hand.file = file /\ walk'.hand.total = total
      /\ walk' \in [pc : Steps, calls : Seq(Calls), hand : [file : DOMAIN first \cup {"none"}, total : Nat]]
  BY DEF TypesOK, Steps
<1>3. Options' = Options /\ Calls' = Calls
  BY <1>1 DEF Options, Calls
<1>4. Busy' <=> pc # "walking"
  BY <1>2 DEF Busy
<1> HIDE DEF Findings
<1>5. TypesOK'
  BY <1>1, <1>2, <1>3, <1>4 DEF TypesOK
<1> QED BY <1>2, <1>4, <1>5 DEF Walking

\* The file in hand, and nothing else in it.
LEMMA WalkIs ==
  ASSUME TypesOK
  PROVE  /\ walk.hand = [file |-> walk.hand.file, total |-> walk.hand.total]
         /\ walk.hand.file \in DOMAIN first \cup {"none"} /\ walk.hand.total \in Nat
         /\ walk = [pc |-> walk.pc, calls |-> walk.calls, hand |-> walk.hand]
         /\ walk.calls \in Seq(Calls) /\ walk.pc \in Steps
BY DEF TypesOK

\* What is found so far.
LEMMA FoundIs ==
  ASSUME TypesOK, first' = first
  PROVE  /\ found.scanned \in Nat /\ found.findings \in Seq(Findings)
         /\ found \in [scanned : Nat, findings : Seq(Findings)', errors : Seq(DOMAIN first)',
                       reasons : SUBSET {"max_depth", "max_files"}]
<1>1. Findings' = Findings
  BY DEF Findings
<1> HIDE DEF Findings
<1> QED BY <1>1 DEF TypesOK

\* An entry that cannot be read is an error.
LEMMA EntryFailsInv ==
  ASSUME WalkInv, Quiescent, walk.pc = "walking", walk.calls # <<>>, NEW n \in Top.left, EntryFails(n)
  PROVE  WalkInv'
<1>1. TypesOK /\ DiskOK /\ Truthful /\ first \in Trees /\ ~Busy /\ Top \in Calls
  BY EntryFacts
<1>2. PICK R \in SUBSET DOMAIN first, t \in Seq(Calls) :
        Reach(R) /\ Counted(R) /\ t = Without(n) /\ CallsOK(R, t)
  BY EntryFacts
<1>3. first' = first /\ options' = options
  BY DEF Quiescent
<1>4. Error(Top.dir) /\ walk' = [walk EXCEPT !.calls = t] /\ Top.dir \in DOMAIN first
  BY <1>1, <1>2 DEF EntryFails, Calls
<1>5. /\ found' \in [scanned : Nat, findings : Seq(Findings)', errors : Seq(DOMAIN first)',
                     reasons : SUBSET {"max_depth", "max_files"}]
      /\ found'.scanned = found.scanned /\ found'.findings = found.findings
      /\ found'.reasons = found.reasons /\ found'.errors # <<>>
  BY <1>1, <1>3, <1>4, ErrorFacts
<1>6. walk' = [walk EXCEPT !.pc = "walking",
                           !.hand = [file |-> walk.hand.file, total |-> walk.hand.total], !.calls = t]
  BY <1>1, <1>4, WalkIs
<1>7. TypesOK' /\ Walking' /\ walk'.pc = "walking" /\ walk'.calls = t /\ ~Busy'
  BY <1>1, <1>5, <1>6, WalkIs, TypesAfter
<1>8. Truthful' /\ Counted(R)'
  BY <1>1, <1>2, <1>3, <1>5, <1>7, TruthfulSame, CountedSame
<1>9. Covered(R)'
  BY <1>5 DEF Covered
<1> QED BY <1>2, <1>7, <1>8, <1>9, WalkingInv

\* A link or another entry is passed over.
LEMMA SkipInv ==
  ASSUME WalkInv, Quiescent, walk.pc = "walking", walk.calls # <<>>, NEW n \in Top.left, Skip(n)
  PROVE  WalkInv'
<1>1. TypesOK /\ DiskOK /\ Truthful /\ first \in Trees /\ ~Busy /\ n \in DOMAIN first
  BY EntryFacts
<1>2. PICK R \in SUBSET DOMAIN first, t \in Seq(Calls) :
        /\ Reach(R) /\ Counted(R) /\ Covered(R) /\ n \notin R
        /\ t = Without(n) /\ CallsOK(R \cup {n}, t) /\ Reach(R \cup {n})
        /\ \A m : ToCome(m, walk.calls) => m = n \/ ToCome(m, t)
  BY EntryFacts
<1>0. PICK Q : Q = R \cup {n}
  OBVIOUS
<1>3. first' = first /\ options' = options /\ changed' = changed
  BY DEF Quiescent
<1>4. walk' = [walk EXCEPT !.calls = t] /\ found' = found
  BY <1>2 DEF Skip
<1>5. walk' = [walk EXCEPT !.pc = "walking",
                           !.hand = [file |-> walk.hand.file, total |-> walk.hand.total], !.calls = t]
  BY <1>1, <1>4, WalkIs
<1>6. TypesOK' /\ Walking' /\ walk'.pc = "walking" /\ walk'.calls = t /\ ~Busy'
  <2>1. found' \in [scanned : Nat, findings : Seq(Findings)', errors : Seq(DOMAIN first)',
                    reasons : SUBSET {"max_depth", "max_files"}]
    BY <1>1, <1>3, <1>4, FoundIs
  <2> QED BY <1>1, <1>5, <2>1, WalkIs, TypesAfter
<1>7. first[n].kind \notin {"file", "dir"}
  BY <1>1, DiskFacts DEF Skip
<1>8. Truthful'
  BY <1>1, <1>4, <1>6, TruthfulSame
<1>9. Counted(Q)'
  <2>1. FilesOf(Q) = FilesOf(R)
    BY <1>0, <1>1, <1>2, <1>7, FilesAdd
  <2>2. Counted(Q)
    BY <1>1, <1>2, <2>1 DEF Counted
  <2> QED BY <1>1, <1>3, <1>4, <1>6, <2>2, CountedSame
<1>10. Covered(Q)'
  <2> SUFFICES ASSUME found.errors = <<>>, found.reasons = {}, NEW k \in Q
               PROVE  /\ first[k].kind = "file" /\ k \notin changed => Examined(k)
                      /\ \A m \in DOMAIN first :
                           first[m].in = k /\ m \notin changed => m \in Q \/ ToCome(m, t)
    BY <1>3, <1>4, <1>6 DEF Covered, ToCome, Examined
  <2>1. CASE k = n
    <3>1. \A m \in DOMAIN first : first[m].in # n
      BY <1>1, <1>7, TreeFacts
    <3> QED BY <1>7, <2>1, <3>1
  <2>2. CASE k \in R
    BY <1>0, <1>1, <1>2, <2>2 DEF Covered
  <2> QED BY <1>0, <2>1, <2>2
<1> QED BY <1>0, <1>2, <1>6, <1>8, <1>9, <1>10, WalkingInv

\* A file is taken in hand.
LEMMA TakeFileInv ==
  ASSUME WalkInv, Quiescent, walk.pc = "walking", walk.calls # <<>>, NEW n \in Top.left, TakeFile(n)
  PROVE  WalkInv'
<1>1. TypesOK /\ DiskOK /\ Truthful /\ first \in Trees /\ ~Busy /\ n \in DOMAIN first
  BY EntryFacts
<1>2. PICK R \in SUBSET DOMAIN first, t \in Seq(Calls) :
        /\ Reach(R) /\ Counted(R) /\ Covered(R) /\ n \notin R
        /\ t = Without(n) /\ CallsOK(R \cup {n}, t) /\ Reach(R \cup {n})
        /\ \A m : ToCome(m, walk.calls) => m = n \/ ToCome(m, t)
  BY EntryFacts
<1>3. PICK Q : Q = R \cup {n}
  OBVIOUS
<1>4. first' = first /\ options' = options /\ changed' = changed
  BY DEF Quiescent
<1>5. /\ walk' = [walk EXCEPT !.pc = "open", !.hand.file = n, !.calls = t]
      /\ found' = [found EXCEPT !.scanned = @ + 1] /\ found.scanned < options.files
      /\ tree[n].kind \in {"file", "gone"}
  BY <1>2 DEF TakeFile
<1>6. walk' = [walk EXCEPT !.pc = "open", !.hand = [file |-> n, total |-> walk.hand.total], !.calls = t]
  <2>1. PICK h : h = walk.hand
    OBVIOUS
  <2>2. [h EXCEPT !.file = n] = [file |-> n, total |-> h.total]
    <3>1. h = [file |-> h.file, total |-> h.total]
      BY <1>1, <2>1, WalkIs
    <3> QED BY <3>1
  <2>3. walk' = [walk EXCEPT !.pc = "open", !.hand = [walk.hand EXCEPT !.file = n], !.calls = t]
    BY <1>1, <1>5, WalkIs
  <2> QED BY <2>1, <2>2, <2>3
<1>7. /\ found' \in [scanned : Nat, findings : Seq(Findings)', errors : Seq(DOMAIN first)',
                     reasons : SUBSET {"max_depth", "max_files"}]
      /\ found'.scanned = found.scanned + 1 /\ found'.findings = found.findings
      /\ found'.reasons = found.reasons /\ found'.errors = found.errors
  <2>1. /\ found \in [scanned : Nat, findings : Seq(Findings)', errors : Seq(DOMAIN first)',
                      reasons : SUBSET {"max_depth", "max_files"}]
        /\ found.scanned + 1 \in Nat
    BY <1>1, <1>4, FoundIs
  <2> HIDE DEF Findings
  <2> QED BY <1>5, <2>1
<1>8. /\ TypesOK' /\ Walking' /\ walk'.pc = "open" /\ walk'.calls = t /\ Busy'
      /\ walk'.hand.file = n
  <2>1. n \in DOMAIN first \cup {"none"} /\ walk.hand.total \in Nat /\ n # "none"
    BY <1>1, WalkIs, TreeFacts
  <2>2. PICK pc \in {"walking", "open", "read"}, f \in DOMAIN first \cup {"none"}, k \in Nat :
          pc = "open" /\ f = n /\ k = walk.hand.total
    BY <2>1
  <2>3. walk' = [walk EXCEPT !.pc = pc, !.hand = [file |-> f, total |-> k], !.calls = t]
    BY <1>6, <2>2
  <2>4. f # "none" /\ pc # "walking"
    BY <2>1, <2>2
  <2>5. found' \in [scanned : Nat, findings : Seq(Findings)', errors : Seq(DOMAIN first)',
                    reasons : SUBSET {"max_depth", "max_files"}]
    BY <1>7
  <2>6. /\ TypesOK' /\ Walking' /\ walk'.pc = pc /\ walk'.calls = t
        /\ walk'.hand.file = f /\ (Busy' <=> pc # "walking")
    BY <1>1, <2>3, <2>4, <2>5, TypesAfter
  <2> QED BY <2>2, <2>6
<1>9. first[n].kind = "file"
  BY <1>1, <1>5, DiskFacts
<1>10. Truthful'
  <2>1. walk'.pc # "read"
    BY <1>8
  <2> QED BY <1>1, <1>7, <2>1, TruthfulSame
<1>11. Counted(Q)'
  <2>1. FilesOf(Q) = FilesOf(R) \cup {n} /\ Cardinality(FilesOf(Q)) = Cardinality(FilesOf(R)) + 1
    BY <1>1, <1>2, <1>3, <1>9, FilesAdd
  <2>2. FilesOf(Q)' = FilesOf(Q)
    BY <1>4 DEF FilesOf
  <2>3. ~ Examined(n) /\ n \in FilesOf(Q)
    BY <1>2, <2>1 DEF Counted, Examined, FilesOf
  <2>4. ~ Examined(walk.hand.file)'
    <3>1. walk'.hand.file = n /\ found'.findings = found.findings
      BY <1>7, <1>8
    <3> QED BY <2>3, <3>1 DEF Examined
  <2>5. /\ found.scanned = Cardinality(FilesOf(R)) /\ found.scanned <= options.files
        /\ Len(found.findings) <= found.scanned
    BY <1>1, <1>2, FoundIs DEF Counted
  <2>6. /\ found.scanned \in Nat /\ Len(found.findings) \in Nat /\ options.files \in Nat
    <3>1. options.files \in FileLimits
      BY <1>1 DEF TypesOK, Options
    <3> QED BY <1>1, <1>4, <3>1, FoundIs, LenProperties, WalkAssumption
  <2>7. /\ found'.scanned = Cardinality(FilesOf(Q)) /\ found'.scanned <= options'.files
        /\ Len(found'.findings) + (IF Busy' THEN 1 ELSE 0) <= found'.scanned
    BY <1>4, <1>5, <1>7, <1>8, <2>1, <2>5, <2>6
  <2>8. /\ \A i \in DOMAIN found.findings : found.findings[i].file \in FilesOf(Q)
        /\ \A i, j \in DOMAIN found.findings : found.findings[i].file = found.findings[j].file => i = j
    BY <1>2, <2>1 DEF Counted
  <2> QED BY <1>7, <1>8, <2>2, <2>3, <2>4, <2>7, <2>8 DEF Counted
<1>12. Covered(Q)'
  <2> SUFFICES ASSUME found.errors = <<>>, found.reasons = {}, NEW k \in Q
               PROVE  /\ first[k].kind = "file" /\ k \notin changed => Examined(k) \/ k = n
                      /\ \A m \in DOMAIN first :
                           first[m].in = k /\ m \notin changed => m \in Q \/ ToCome(m, t)
    BY <1>4, <1>7, <1>8 DEF Covered, ToCome, Examined
  <2>1. CASE k = n
    <3>1. \A m \in DOMAIN first : first[m].in # n
      BY <1>1, <1>9, TreeFacts
    <3> QED BY <2>1, <3>1
  <2>2. CASE k \in R
    BY <1>3, <1>1, <1>2, <2>2 DEF Covered
  <2> QED BY <1>3, <2>1, <2>2
<1> QED BY <1>2, <1>3, <1>8, <1>10, <1>11, <1>12, WalkingInv

\* A call for a directory below.
LEMMA DescendIntoInv ==
  ASSUME WalkInv, Quiescent, walk.pc = "walking", walk.calls # <<>>, NEW n \in Top.left, DescendInto(n)
  PROVE  WalkInv'
<1>1. TypesOK /\ DiskOK /\ Truthful /\ first \in Trees /\ ~Busy /\ n \in DOMAIN first /\ Top \in Calls
  BY EntryFacts
<1>2. PICK R \in SUBSET DOMAIN first, t \in Seq(Calls) :
        /\ Reach(R) /\ Counted(R) /\ Covered(R) /\ n \notin R /\ first[n].in \in R
        /\ t = Without(n) /\ CallsOK(R \cup {n}, t) /\ Reach(R \cup {n})
        /\ \A m : ToCome(m, walk.calls) => m = n \/ ToCome(m, t)
        /\ \A i \in DOMAIN t : t[i].dir \in R
  BY EntryFacts
<1>3. PICK Q : Q = R \cup {n}
  OBVIOUS
<1>4. PICK depth \in Nat : depth = Top.depth + 1
  BY <1>1 DEF Calls
<1>5. Enter(n, depth, t) /\ first[n].kind = "dir"
  BY <1>1, <1>2, <1>4, DiskFacts DEF DescendInto
<1>6. Counted(Q)
  <2>1. FilesOf(Q) = FilesOf(R)
    BY <1>1, <1>2, <1>3, <1>5, FilesAdd
  <2> QED BY <1>1, <1>2, <2>1 DEF Counted
<1>7. \A m \in DOMAIN first : first[m].in = n => m \notin Q
  BY <1>1, <1>2, <1>3, ChildrenAreNew
<1>8. /\ Reach(Q) /\ CallsOK(Q, t) /\ n \in Q /\ walk.pc \in {"start", "walking"}
      /\ \A i \in DOMAIN t : t[i].dir # n
  BY <1>2, <1>3
<1>9. found.errors = <<>> /\ found.reasons = {} =>
        \A k \in Q :
          /\ first[k].kind = "file" /\ k \notin changed => Examined(k)
          /\ \A m \in DOMAIN first :
               k # n /\ first[m].in = k /\ m \notin changed => m \in Q \/ ToCome(m, t)
  <2> SUFFICES ASSUME found.errors = <<>>, found.reasons = {}, NEW k \in R
               PROVE  /\ first[k].kind = "file" /\ k \notin changed => Examined(k)
                      /\ \A m \in DOMAIN first :
                           first[m].in = k /\ m \notin changed => m \in Q \/ ToCome(m, t)
    BY <1>3, <1>5
  <2> QED BY <1>1, <1>2, <1>3 DEF Covered
<1> QED BY <1>1, <1>5, <1>6, <1>7, <1>8, <1>9, EnterStep

\* One file more than the limit, which is in scope.
LEMMA OverFilesInv ==
  ASSUME WalkInv, Quiescent, walk.pc = "walking", walk.calls # <<>>, NEW n \in Top.left, OverFiles(n)
  PROVE  WalkInv'
<1>1. TypesOK /\ DiskOK /\ Truthful /\ first \in Trees /\ ~Busy /\ n \in DOMAIN first
  BY EntryFacts
<1>2. PICK R \in SUBSET DOMAIN first :
        /\ Reach(R) /\ CallsOK(R, walk.calls) /\ Counted(R) /\ n \notin R /\ Reach(R \cup {n})
  BY EntryFacts
<1>3. first' = first /\ options' = options
  BY DEF Quiescent
<1>4. PICK t \in Seq(Calls) : t = Tail(walk.calls) /\ CallsOK(R, t)
  <2>1. PICK s \in Seq(Calls) : s = walk.calls
    BY <1>1 DEF TypesOK
  <2>2. Tail(s) \in Seq(Calls) /\ CallsOK(R, Tail(s))
    BY <1>2, <2>1, CallsPop
  <2> QED BY <2>1, <2>2
<1>5. walk' = [walk EXCEPT !.calls = t] /\ Limited("max_files") /\ found.scanned >= options.files
  BY <1>4 DEF OverFiles
<1>6. /\ found' \in [scanned : Nat, findings : Seq(Findings)', errors : Seq(DOMAIN first)',
                     reasons : SUBSET {"max_depth", "max_files"}]
      /\ found'.scanned = found.scanned /\ found'.findings = found.findings
      /\ found'.reasons # {}
  BY <1>1, <1>3, <1>5, LimitedFacts
<1>7. walk' = [walk EXCEPT !.pc = "walking",
                           !.hand = [file |-> walk.hand.file, total |-> walk.hand.total], !.calls = t]
  BY <1>1, <1>5, WalkIs
<1>8. TypesOK' /\ Walking' /\ walk'.pc = "walking" /\ walk'.calls = t /\ ~Busy'
  BY <1>1, <1>6, <1>7, WalkIs, TypesAfter
<1>9. Cardinality(InScope) > options.files
  <2>1. first[n].kind = "file"
    BY <1>1, DiskFacts DEF OverFiles
  <2>2. Cardinality(FilesOf(R \cup {n})) = found.scanned + 1
    BY <1>1, <1>2, <2>1, FilesAdd DEF Counted
  <2>3. FilesOf(R \cup {n}) \subseteq InScope /\ IsFiniteSet(InScope)
    BY <1>1, <1>2, FilesFacts
  <2>4. Cardinality(FilesOf(R \cup {n})) <= Cardinality(InScope) /\ Cardinality(InScope) \in Nat
    BY <2>3, FS_Subset, FS_CardinalityType
  <2>5. found.scanned \in Nat /\ options.files \in Nat
    <3>1. options.files \in FileLimits
      BY <1>1 DEF TypesOK, Options
    <3> QED BY <1>1, <1>3, <3>1, FoundIs, WalkAssumption
  <2> QED BY <1>5, <2>2, <2>4, <2>5
<1>10. Truthful' /\ Counted(R)'
  BY <1>1, <1>2, <1>3, <1>6, <1>8, <1>9, TruthfulSame, CountedSame
<1>11. Covered(R)'
  BY <1>6 DEF Covered
<1> QED BY <1>2, <1>4, <1>8, <1>10, <1>11, WalkingInv

\* The loop goes on.
LEMMA NextEntryInv == WalkInv /\ NextEntry => WalkInv'
<1> SUFFICES ASSUME WalkInv, NextEntry PROVE WalkInv'
  OBVIOUS
<1>1. walk.pc = "walking" /\ walk.calls # <<>> /\ Quiescent
  BY DEF NextEntry, Quiescent
<1>2. PICK n \in Top.left : EntryFails(n) \/ DescendInto(n) \/ Skip(n) \/ TakeFile(n) \/ OverFiles(n)
  BY DEF NextEntry
<1> QED BY <1>1, <1>2, EntryFailsInv, DescendIntoInv, SkipInv, TakeFileInv, OverFilesInv

\* The loop is over.
LEMMA LastEntryInv == WalkInv /\ LastEntry => WalkInv'
<1> SUFFICES ASSUME WalkInv, LastEntry PROVE WalkInv'
  OBVIOUS
<1>1. /\ walk.pc = "walking" /\ walk.calls # <<>> /\ Top.left = {} /\ Quiescent /\ found' = found
      /\ walk' = [walk EXCEPT !.calls = Tail(walk.calls)]
      /\ first' = first /\ options' = options /\ changed' = changed
  BY DEF LastEntry, Quiescent
<1>2. /\ TypesOK /\ DiskOK /\ Truthful /\ ~Busy
      /\ \E R \in SUBSET DOMAIN first : Reach(R) /\ CallsOK(R, walk.calls) /\ Counted(R) /\ Covered(R)
  BY <1>1 DEF WalkInv, Busy
<1>3. PICK R \in SUBSET DOMAIN first : Reach(R) /\ CallsOK(R, walk.calls) /\ Counted(R) /\ Covered(R)
  BY <1>2
<1>4. PICK t \in Seq(Calls) :
        t = Tail(walk.calls) /\ CallsOK(R, t) /\ \A m : ToCome(m, walk.calls) => ToCome(m, t)
  <2>1. PICK s \in Seq(Calls) : s = walk.calls
    BY <1>2 DEF TypesOK
  <2>2. /\ Tail(s) \in Seq(Calls) /\ CallsOK(R, Tail(s))
        /\ \A m : ToCome(m, s) => m \in s[1].left \/ ToCome(m, Tail(s))
    BY <1>1, <1>3, <2>1, CallsPop
  <2>3. s[1].left = {}
    BY <1>1, <2>1, PopFacts DEF Top
  <2> QED BY <2>1, <2>2, <2>3
<1>5. walk' = [walk EXCEPT !.pc = "walking",
                           !.hand = [file |-> walk.hand.file, total |-> walk.hand.total], !.calls = t]
  BY <1>1, <1>2, <1>4, WalkIs
<1>6. TypesOK' /\ Walking' /\ walk'.pc = "walking" /\ walk'.calls = t /\ ~Busy'
  <2>1. found' \in [scanned : Nat, findings : Seq(Findings)', errors : Seq(DOMAIN first)',
                    reasons : SUBSET {"max_depth", "max_files"}]
    BY <1>1, <1>2, FoundIs
  <2>2. PICK pc \in {"walking", "open", "read"}, f \in DOMAIN first \cup {"none"}, k \in Nat :
          pc = "walking" /\ f = walk.hand.file /\ k = walk.hand.total
    BY <1>2, WalkIs
  <2>3. walk' = [walk EXCEPT !.pc = pc, !.hand = [file |-> f, total |-> k], !.calls = t]
    BY <1>5, <2>2
  <2>4. TypesOK /\ Quiescent
    BY <1>1, <1>2
  <2>5. TypesOK' /\ Walking' /\ walk'.pc = pc /\ walk'.calls = t /\ (Busy' <=> pc # "walking")
    <3>1. pc # "walking" => f # "none"
      BY <2>2
    <3> QED BY <2>1, <2>3, <2>4, <3>1, TypesAfter
  <2> QED BY <2>2, <2>5
<1>7. Truthful' /\ Counted(R)'
  BY <1>1, <1>2, <1>3, <1>6, TruthfulSame, CountedSame
<1>8. Covered(R)'
  <2> SUFFICES ASSUME found.errors = <<>>, found.reasons = {}, NEW k \in R
               PROVE  /\ first[k].kind = "file" /\ k \notin changed => Examined(k)
                      /\ \A m \in DOMAIN first :
                           first[m].in = k /\ m \notin changed => m \in R \/ ToCome(m, t)
    BY <1>1, <1>6 DEF Covered, ToCome, Examined
  <2> QED BY <1>2, <1>3, <1>4 DEF Covered
<1> QED BY <1>1, <1>3, <1>4, <1>6, <1>7, <1>8, WalkingInv

\* The file in hand is one of the tree.
LEMMA BusyFacts ==
  ASSUME WalkInv, Busy
  PROVE  /\ TypesOK /\ DiskOK /\ Truthful /\ walk.pc # "done" /\ walk.hand.file \in DOMAIN first
         /\ tree[walk.hand.file].len \in Nat
         /\ \E R \in SUBSET DOMAIN first : Reach(R) /\ CallsOK(R, walk.calls) /\ Counted(R) /\ Covered(R)
<1>1. /\ TypesOK /\ DiskOK /\ Truthful /\ walk.pc # "done" /\ first \in Trees
      /\ \E R \in SUBSET DOMAIN first : Reach(R) /\ CallsOK(R, walk.calls) /\ Counted(R) /\ Covered(R)
  BY DEF WalkInv, Busy, DiskOK
<1>2. PICK f : f = walk.hand.file
  OBVIOUS
<1>3. f \in DOMAIN first
  BY <1>1, <1>2, WalkIs DEF TypesOK
<1>4. tree[f].len \in Nat
  <2>1. CASE f \in changed
    BY <1>1, <2>1 DEF DiskOK
  <2>2. CASE f \notin changed
    BY <1>1, <1>3, <2>2, TreeFacts DEF DiskOK, Node
  <2> QED BY <2>1, <2>2
<1> QED BY <1>1, <1>2, <1>3, <1>4

\* The types after the file in hand is put aside.
LEMMA PutAside ==
  ASSUME TypesOK, Quiescent, walk' = [walk EXCEPT !.pc = "walking", !.hand = NoFile],
         found' \in [scanned : Nat, findings : Seq(Findings)', errors : Seq(DOMAIN first)',
                     reasons : SUBSET {"max_depth", "max_files"}]
  PROVE  TypesOK' /\ Walking' /\ walk'.pc = "walking" /\ walk'.calls = walk.calls /\ ~Busy'
<1>1. tree' = tree /\ first' = first /\ changed' = changed /\ options' = options
  BY DEF Quiescent
<1>2. /\ walk'.pc = "walking" /\ walk'.calls = walk.calls
      /\ walk' \in [pc : Steps, calls : Seq(Calls), hand : [file : DOMAIN first \cup {"none"}, total : Nat]]
  BY DEF TypesOK, Steps, NoFile
<1>3. Options' = Options /\ Calls' = Calls
  BY <1>1 DEF Options, Calls
<1>4. ~Busy'
  BY <1>2 DEF Busy
<1> HIDE DEF Findings
<1>5. TypesOK'
  BY <1>1, <1>2, <1>3, <1>4 DEF TypesOK
<1> QED BY <1>2, <1>4, <1>5 DEF Walking

\* A file that cannot be read is an error.
LEMMA ReadFailsInv ==
  ASSUME WalkInv, Busy, Quiescent, Error(walk.hand.file),
         walk' = [walk EXCEPT !.pc = "walking", !.hand = NoFile]
  PROVE  WalkInv'
<1>1. TypesOK /\ DiskOK /\ Truthful /\ walk.pc # "done" /\ walk.hand.file \in DOMAIN first
  BY BusyFacts
<1>2. PICK R \in SUBSET DOMAIN first : Reach(R) /\ CallsOK(R, walk.calls) /\ Counted(R)
  BY BusyFacts
<1>3. first' = first /\ options' = options
  BY DEF Quiescent
<1>4. /\ found' \in [scanned : Nat, findings : Seq(Findings)', errors : Seq(DOMAIN first)',
                     reasons : SUBSET {"max_depth", "max_files"}]
      /\ found'.scanned = found.scanned /\ found'.findings = found.findings
      /\ found'.reasons = found.reasons /\ found'.errors # <<>>
  BY <1>1, <1>3, ErrorFacts
<1>5. TypesOK
  BY <1>1
<1>6. PICK t : t = walk.calls
  OBVIOUS
<1>7. TypesOK' /\ Walking' /\ walk'.pc = "walking" /\ walk'.calls = t /\ ~Busy'
  BY <1>4, <1>5, <1>6, PutAside
<1>8. Truthful'
  BY <1>1, <1>4, <1>7, TruthfulSame
<1>9. Counted(R)'
  <2>1. FilesOf(R)' = FilesOf(R)
    BY <1>3 DEF FilesOf
  <2>2. Len(found.findings) <= found.scanned
    BY <1>1, <1>2, <1>3, FoundIs, LenProperties DEF Counted
  <2>3. Len(found'.findings) + (IF Busy' THEN 1 ELSE 0) <= found'.scanned
    BY <1>1, <1>3, <1>4, <1>7, <2>2, FoundIs, LenProperties
  <2> QED BY <1>2, <1>3, <1>4, <1>7, <2>1, <2>3 DEF Counted
<1>10. Covered(R)'
  BY <1>4 DEF Covered
<1> QED BY <1>1, <1>2, <1>6, <1>7, <1>8, <1>9, <1>10, WalkingInv

\* The file in hand is opened, or cannot be.
LEMMA OpenFileInv == WalkInv /\ OpenFile => WalkInv'
<1> SUFFICES ASSUME WalkInv, OpenFile PROVE WalkInv'
  OBVIOUS
<1>1. walk.pc = "open" /\ Busy /\ Quiescent
  BY DEF OpenFile, Busy, Quiescent
<1>2. TypesOK /\ DiskOK /\ Truthful /\ walk.hand.file \in DOMAIN first /\ tree[walk.hand.file].len \in Nat
  BY <1>1, BusyFacts
<1>3. CASE Error(walk.hand.file) /\ walk' = [walk EXCEPT !.pc = "walking", !.hand = NoFile]
  BY <1>1, <1>3, ReadFailsInv
<1>4. CASE walk' = [walk EXCEPT !.pc = "read", !.hand.total = tree[walk.hand.file].len] /\ found' = found
  <2>1. PICK R \in SUBSET DOMAIN first : Reach(R) /\ CallsOK(R, walk.calls) /\ Counted(R) /\ Covered(R)
    BY <1>1, BusyFacts
  <2>2. tree' = tree /\ first' = first /\ options' = options /\ changed' = changed
    BY <1>1 DEF Quiescent
  <2>3. PICK t \in Seq(Calls), f \in DOMAIN first, total \in Nat :
          t = walk.calls /\ f = walk.hand.file /\ total = tree[walk.hand.file].len
    BY <1>2 DEF TypesOK
  <2>4. walk' = [walk EXCEPT !.pc = "read", !.hand = [file |-> f, total |-> total], !.calls = t]
    <3>1. PICK h : h = walk.hand
      OBVIOUS
    <3>2. [h EXCEPT !.total = total] = [file |-> f, total |-> total]
      <4>1. h = [file |-> h.file, total |-> h.total]
        BY <1>2, <3>1, WalkIs
      <4> QED BY <2>3, <3>1, <4>1
    <3>3. walk' = [walk EXCEPT !.pc = "read", !.hand = [walk.hand EXCEPT !.total = total], !.calls = t]
      BY <1>2, <1>4, <2>3, WalkIs
    <3> QED BY <3>1, <3>2, <3>3
  <2>5. PICK pc \in {"walking", "open", "read"} : pc = "read"
    OBVIOUS
  <2>6. /\ TypesOK' /\ Walking' /\ walk'.pc = pc /\ walk'.calls = t
        /\ walk'.hand.file = f /\ walk'.hand.total = total /\ (Busy' <=> pc # "walking")
    <3>1. found' \in [scanned : Nat, findings : Seq(Findings)', errors : Seq(DOMAIN first)',
                      reasons : SUBSET {"max_depth", "max_files"}]
      BY <1>2, <1>4, <2>2, FoundIs
    <3>2. walk' = [walk EXCEPT !.pc = pc, !.hand = [file |-> f, total |-> total], !.calls = t]
      BY <2>4, <2>5
    <3>3. f \in DOMAIN first \cup {"none"} /\ f # "none"
      BY <1>1, <1>2, <2>3 DEF TypesOK
    <3> QED BY <1>1, <1>2, <3>1, <3>2, <3>3, TypesAfter
  <2>7. Truthful'
    <3>1. InScope' = InScope
      BY <2>2 DEF InScope, Below, ClosedBelow, Start
    <3>2. ASSUME NEW i \in DOMAIN found.findings PROVE TruthfulOf(found.findings[i])'
      <4>1. TruthfulOf(found.findings[i])
        BY <1>2 DEF Truthful
      <4> QED BY <1>4, <2>2, <4>1 DEF TruthfulOf, Shows, LimitTo, Reported, WholeOf
    <3>3. f \notin changed => total = first[f].len
      BY <1>2, <2>3 DEF DiskOK
    <3>4. "max_files" \in found.reasons => Cardinality(InScope) > options.files
      BY <1>2 DEF Truthful
    <3> QED BY <1>4, <2>2, <2>6, <3>1, <3>2, <3>3, <3>4 DEF Truthful
  <2>8. Counted(R)'
    <3>1. FilesOf(R)' = FilesOf(R)
      BY <2>2 DEF FilesOf
    <3>2. Examined(walk.hand.file)' <=> Examined(walk.hand.file)
      BY <1>4, <2>3, <2>6 DEF Examined
    <3> QED BY <1>1, <1>4, <2>1, <2>2, <2>3, <2>5, <2>6, <3>1, <3>2 DEF Counted
  <2>9. Covered(R)'
    BY <1>1, <1>4, <2>1, <2>2, <2>3, <2>5, <2>6 DEF Covered, Examined
  <2> QED BY <1>1, <2>1, <2>3, <2>6, <2>7, <2>8, <2>9, WalkingInv
<1> QED BY <1>3, <1>4 DEF OpenFile

\* What is reported of the file in hand is what it is.
LEMMA FindingFacts ==
  ASSUME WalkInv, walk.pc = "read",
         NEW f, f = FindingOf(walk.hand.file, walk.hand.total)
  PROVE  f \in Findings /\ f.file = walk.hand.file /\ TruthfulOf(f)
<1>1. /\ TypesOK /\ DiskOK /\ Truthful /\ first \in Trees
      /\ walk.hand.file \in DOMAIN first /\ tree[walk.hand.file].len \in Nat
  BY BusyFacts DEF Busy, DiskOK
<1>2. PICK n \in DOMAIN first, total \in Nat : n = walk.hand.file /\ total = walk.hand.total
  BY <1>1, WalkIs
<1>3. /\ f.file = n
      /\ f.detected = (Shows(tree[n], LimitTo(tree[n].len)) /\ Reported(tree[n].mark))
      /\ f.reasons = (IF tree[n].limited THEN {"limit"} ELSE {})
                       \cup (IF total > LimitTo(tree[n].len) THEN {"max_bytes"} ELSE {})
      /\ f = [file |-> n, detected |-> f.detected, reasons |-> f.reasons]
  BY <1>2 DEF FindingOf
<1>4. f \in Findings
  <2>1. f.detected \in BOOLEAN
    BY <1>3
  <2>2. f.reasons \in SUBSET {"limit", "max_bytes"}
    BY <1>3
  <2> QED BY <1>3, <2>1, <2>2 DEF Findings
<1>5. options.bytes \in Nat
  <2>1. options.bytes \in ByteLimits
    BY <1>1 DEF TypesOK, Options
  <2> QED BY <2>1, WalkAssumption
<1>6. ASSUME f.reasons = {} PROVE WholeOf(n)
  <2>1. ~ tree[n].limited /\ ~ (total > LimitTo(tree[n].len))
    BY <1>3, <1>6
  <2>2. CASE n \in changed
    BY <2>2 DEF WholeOf
  <2>3. CASE n \notin changed
    <3>1. tree[n] = first[n] /\ total = first[n].len
      BY <1>1, <1>2, <2>3, DiskFacts DEF Truthful
    <3>2. first[n].len \in Nat /\ first[n].limited \in BOOLEAN
      BY <1>1, TreeFacts DEF Node
    <3> QED BY <1>5, <2>1, <3>1, <3>2 DEF WholeOf, LimitTo
  <2> QED BY <2>2, <2>3
<1> QED BY <1>2, <1>3, <1>4, <1>6 DEF TruthfulOf

\* The file in hand is read and reported, or cannot be.
LEMMA ReadFileInv == WalkInv /\ ReadFile => WalkInv'
<1> SUFFICES ASSUME WalkInv, ReadFile PROVE WalkInv'
  OBVIOUS
<1>1. /\ walk.pc = "read" /\ Busy /\ Quiescent
      /\ walk' = [walk EXCEPT !.pc = "walking", !.hand = NoFile]
  BY DEF ReadFile, Busy, Quiescent
<1>2. CASE Error(walk.hand.file)
  BY <1>1, <1>2, ReadFailsInv
<1>3. CASE found' = [found EXCEPT !.findings = Append(@, FindingOf(walk.hand.file, walk.hand.total))]
  <2>1. /\ TypesOK /\ DiskOK /\ Truthful /\ walk.hand.file \in DOMAIN first
        /\ tree' = tree /\ first' = first /\ options' = options /\ changed' = changed
    BY <1>1, BusyFacts DEF Quiescent
  <2>2. PICK R \in SUBSET DOMAIN first : Reach(R) /\ CallsOK(R, walk.calls) /\ Counted(R) /\ Covered(R)
    BY <1>1, BusyFacts
  <2>3. PICK f \in Findings : /\ f = FindingOf(walk.hand.file, walk.hand.total)
                              /\ f.file = walk.hand.file /\ TruthfulOf(f)
    <3>1. PICK f : f = FindingOf(walk.hand.file, walk.hand.total)
      OBVIOUS
    <3> QED BY <1>1, <3>1, FindingFacts
  <2>4. PICK s \in Seq(Findings) : s = found.findings
    BY <2>1, FoundIs
  <2>5. PICK u \in Seq(Findings) : u = Append(s, f)
    BY AppendProperties
  <2>6. /\ Len(u) = Len(s) + 1 /\ Len(s) \in Nat /\ Len(u) \in DOMAIN u /\ u[Len(u)] = f
        /\ \A i \in DOMAIN u : i = Len(u) \/ (i \in DOMAIN s /\ u[i] = s[i])
        /\ \A i \in DOMAIN s : i \in DOMAIN u /\ u[i] = s[i] /\ i # Len(u)
    BY <2>5, AppendFacts, LenProperties
  <2>7. found' = [found EXCEPT !.findings = u]
    BY <1>3, <2>3, <2>4, <2>5
  <2>8. /\ found' \in [scanned : Nat, findings : Seq(Findings)', errors : Seq(DOMAIN first)',
                       reasons : SUBSET {"max_depth", "max_files"}]
        /\ found'.scanned = found.scanned /\ found'.findings = u
        /\ found'.reasons = found.reasons /\ found'.errors = found.errors
    <3>1. found \in [scanned : Nat, findings : Seq(Findings)', errors : Seq(DOMAIN first)',
                     reasons : SUBSET {"max_depth", "max_files"}]
      BY <2>1, FoundIs
    <3>2. u \in Seq(Findings)'
      BY <2>1, <2>5 DEF Findings
    <3> HIDE DEF Findings
    <3> QED BY <2>7, <3>1, <3>2
  <2>9. TypesOK' /\ Walking' /\ walk'.pc = "walking" /\ walk'.calls = walk.calls /\ ~Busy'
    <3>1. TypesOK
      BY <2>1
    <3> QED BY <1>1, <2>8, <3>1, PutAside
  <2>10. Truthful'
    <3>1. InScope' = InScope
      BY <2>1 DEF InScope, Below, ClosedBelow, Start
    <3>3. \A i \in DOMAIN u : TruthfulOf(u[i])
      <4>1. \A i \in DOMAIN s : TruthfulOf(s[i])
        BY <2>1, <2>4 DEF Truthful
      <4> QED BY <2>3, <2>6, <4>1
    <3>4. \A i \in DOMAIN found'.findings : TruthfulOf(found.findings[i])'
      <4> SUFFICES ASSUME NEW i \in DOMAIN found'.findings PROVE TruthfulOf(found.findings[i])'
        OBVIOUS
      <4>1. found'.findings[i] = u[i] /\ TruthfulOf(u[i])
        BY <2>8, <3>3
      <4> QED BY <2>1, <4>1 DEF TruthfulOf, Shows, LimitTo, Reported, WholeOf
    <3>5. "max_files" \in found.reasons => Cardinality(InScope) > options.files
      BY <2>1 DEF Truthful
    <3> QED BY <2>1, <2>8, <2>9, <3>1, <3>4, <3>5 DEF Truthful
  <2>11. Counted(R)'
    <3>1. FilesOf(R)' = FilesOf(R)
      BY <2>1 DEF FilesOf
    <3>2. /\ found.scanned = Cardinality(FilesOf(R)) /\ found.scanned <= options.files
          /\ Len(s) + 1 <= found.scanned
          /\ \A i \in DOMAIN s : s[i].file \in FilesOf(R)
          /\ \A i, j \in DOMAIN s : s[i].file = s[j].file => i = j
          /\ f.file \in FilesOf(R) /\ \A i \in DOMAIN s : s[i].file # f.file
      BY <1>1, <2>2, <2>3, <2>4 DEF Counted, Examined
    <3>3. \A i \in DOMAIN u : u[i].file \in FilesOf(R)
      BY <2>6, <3>2
    <3>4. \A i, j \in DOMAIN u : u[i].file = u[j].file => i = j
      BY <2>6, <3>2
    <3>5. found.scanned \in Nat
      BY <2>1, FoundIs
    <3>6. Len(found'.findings) + (IF Busy' THEN 1 ELSE 0) <= found'.scanned
      BY <2>6, <2>8, <2>9, <3>2, <3>5
    <3> QED BY <2>1, <2>8, <2>9, <3>1, <3>2, <3>3, <3>4, <3>6 DEF Counted
  <2>12. Covered(R)'
    <3>1. \A n : Examined(n) => Examined(n)'
      BY <2>4, <2>6, <2>8 DEF Examined
    <3>2. Examined(f.file)'
      BY <2>6, <2>8 DEF Examined
    <3>3. \A m : ToCome(m, walk.calls) <=> ToCome(m, walk'.calls)
      BY <2>9
    <3> QED BY <2>1, <2>2, <2>3, <2>8, <3>1, <3>2, <3>3 DEF Covered
  <2>13. CallsOK(R, walk'.calls) /\ walk.pc # "done"
    BY <1>1, <2>2, <2>9
  <2> QED BY <1>1, <2>2, <2>9, <2>10, <2>11, <2>12, <2>13, WalkingInv
<1> QED BY <1>2, <1>3 DEF ReadFile

\* What others may make of a file.
States(n) ==
  [in : {first[n].in}, kind : {"file", "gone"}, to : {first[n].to}, len : Nat,
   mark : {first[n].mark}, at : {first[n].at}, limited : {first[n].limited}]

LEMMA StatesFacts ==
  ASSUME DiskOK, NEW n \in DOMAIN tree, tree[n].kind = "file"
  PROVE  n \in DOMAIN first /\ first[n].kind = "file" /\ tree[n] \in States(n)
<1>1. n \in DOMAIN first /\ first[n].kind = "file"
  <2>1. n \in DOMAIN first
    BY DEF DiskOK
  <2> QED BY <2>1, DiskFacts
<1>2. CASE n \in changed
  BY <1>1, <1>2 DEF DiskOK, States
<1>3. CASE n \notin changed
  <2>1. tree[n] = first[n] /\ first[n] \in Node(first)
    BY <1>1, <1>3, TreeFacts DEF DiskOK
  <2> QED BY <1>1, <2>1 DEF Node, States
<1> QED BY <1>1, <1>2, <1>3

\* Others change a file that is not examined yet.
LEMMA ChangeInv ==
  ASSUME WalkInv, NEW n \in DOMAIN tree, NEW file \in States(n), Change(n, file)
  PROVE  WalkInv'
<1>1. /\ walk.pc \notin {"start", "done"} /\ tree[n].kind = "file"
      /\ \A i \in DOMAIN found.findings : found.findings[i].file # n
      /\ tree' = [tree EXCEPT ![n] = file] /\ changed' = changed \cup {n}
      /\ first' = first /\ options' = options /\ walk' = walk /\ found' = found /\ status' = status
  BY DEF Change
<1>2. /\ DiskOK /\ TypesOK /\ walk.pc \in {"walking", "open", "read"} /\ Truthful /\ status = Unfinished
      /\ \E R \in SUBSET DOMAIN first : Reach(R) /\ CallsOK(R, walk.calls) /\ Counted(R) /\ Covered(R)
  BY <1>1 DEF WalkInv, TypesOK, Steps
<1>3. PICK R \in SUBSET DOMAIN first : Reach(R) /\ CallsOK(R, walk.calls) /\ Counted(R) /\ Covered(R)
  BY <1>2
<1>4. n \in DOMAIN first /\ first[n].kind = "file"
  BY <1>1, <1>2, StatesFacts
<1>5. tree'[n] = file /\ DOMAIN tree' = DOMAIN tree /\ \A m \in DOMAIN tree : m # n => tree'[m] = tree[m]
  BY <1>1
<1>6. DiskOK'
  <2>1. first' \in Trees /\ DOMAIN tree' = DOMAIN first'
    BY <1>1, <1>2, <1>5 DEF DiskOK
  <2>2. \A m \in DOMAIN first : m \notin changed' => tree'[m] = first[m]
    BY <1>1, <1>2, <1>5 DEF DiskOK
  <2>3. ASSUME NEW m \in changed'
        PROVE  m \in DOMAIN first /\ first[m].kind = "file" /\ tree'[m].kind \in {"file", "gone"}
               /\ tree'[m] \in States(m)
    <3>1. CASE m = n
      BY <1>4, <1>5, <3>1 DEF States
    <3>2. CASE m # n
      BY <1>1, <1>2, <1>5, <2>3, <3>2 DEF DiskOK, States
    <3> QED BY <3>1, <3>2
  <2> QED BY <1>1, <2>1, <2>2, <2>3 DEF DiskOK, States
<1>7. TypesOK'
  BY <1>1, <1>2 DEF TypesOK, Options, Findings, Calls, Busy
<1>8. Truthful'
  <2>1. InScope' = InScope
    BY <1>1 DEF InScope, Below, ClosedBelow, Start
  <2>2. ASSUME NEW i \in DOMAIN found'.findings PROVE TruthfulOf(found.findings[i])'
    <3>1. TruthfulOf(found.findings[i]) /\ found.findings[i].file # n
      BY <1>1, <1>2, <2>2 DEF Truthful
    <3>2. found.findings[i].file \in DOMAIN tree
      <4>1. found.findings \in Seq(Findings)
        BY <1>1, <1>2, FoundIs
      <4>2. found.findings[i] \in Findings
        BY <1>1, <2>2, <4>1
      <4> QED BY <1>2, <4>2 DEF Findings, DiskOK
    <3>3. tree'[found.findings[i].file] = tree[found.findings[i].file]
      BY <1>5, <3>1, <3>2
    <3> QED BY <1>1, <3>1, <3>3 DEF TruthfulOf, Shows, LimitTo, Reported, WholeOf
  <2>3. walk.pc = "read" /\ walk.hand.file \notin changed => walk.hand.total = first[walk.hand.file].len
    BY <1>2 DEF Truthful
  <2>4. "max_files" \in found.reasons => Cardinality(InScope) > options.files
    BY <1>2 DEF Truthful
  <2> QED BY <1>1, <2>1, <2>2, <2>3, <2>4 DEF Truthful
<1>9. Reach(R)' /\ CallsOK(R, walk.calls)' /\ Counted(R)'
  <2>1. Reach(R)'
    BY <1>1, <1>3 DEF Reach, ClosedBelow, Start
  <2>2. CallsOK(R, walk.calls)'
    BY <1>1, <1>3 DEF CallsOK
  <2>3. FilesOf(R)' = FilesOf(R) /\ (Busy' <=> Busy) /\ \A m : Examined(m)' <=> Examined(m)
    BY <1>1 DEF FilesOf, Busy, Examined
  <2>4. Counted(R)'
    BY <1>1, <1>3, <2>3 DEF Counted
  <2> QED BY <2>1, <2>2, <2>4
<1>10. Covered(R)'
  <2>1. \A m : (ToCome(m, walk.calls)' <=> ToCome(m, walk.calls)) /\ (Examined(m)' <=> Examined(m))
    BY <1>1 DEF ToCome, Examined
  <2>2. Busy' <=> Busy
    BY <1>1 DEF Busy
  <2> QED BY <1>1, <1>3, <2>1, <2>2 DEF Covered
<1>11. status' = Unfinished /\ ExitIsWarranted'
  BY <1>1, <1>2 DEF ExitIsWarranted, Unfinished
<1>12. (\E Q \in SUBSET DOMAIN first : Reach(Q) /\ CallsOK(Q, walk.calls) /\ Counted(Q) /\ Covered(Q))'
  <2>1. R \in SUBSET DOMAIN first'
    BY <1>1
  <2> QED BY <1>9, <1>10, <2>1
<1>13. walk'.pc # "start"
  BY <1>1
<1> QED BY <1>6, <1>7, <1>8, <1>11, <1>12, <1>13 DEF WalkInv

\* It grows, shrinks or is removed.
LEMMA ChangesInv == \A n \in DOMAIN tree : WalkInv /\ (Grow(n) \/ Shrink(n) \/ Delete(n)) => WalkInv'
<1> SUFFICES ASSUME NEW n \in DOMAIN tree, WalkInv, Grow(n) \/ Shrink(n) \/ Delete(n)
             PROVE  WalkInv'
  OBVIOUS
<1>1. tree[n].kind = "file" /\ DiskOK
  BY DEF Grow, Shrink, Delete, Change, WalkInv
<1>2. tree[n] \in States(n) /\ tree[n].len \in Nat
  BY <1>1, StatesFacts DEF States
<1>3. CASE Grow(n)
  <2>1. PICK file : file = [tree[n] EXCEPT !.len = @ + 1]
    OBVIOUS
  <2>2. file \in States(n)
    BY <1>2, <2>1 DEF States
  <2> QED BY <1>3, <2>1, <2>2, ChangeInv DEF Grow
<1>4. CASE Shrink(n)
  <2>1. PICK file : file = [tree[n] EXCEPT !.len = @ - 1]
    OBVIOUS
  <2>2. file \in States(n)
    BY <1>2, <1>4, <2>1 DEF States, Shrink
  <2> QED BY <1>4, <2>1, <2>2, ChangeInv DEF Shrink
<1>5. CASE Delete(n)
  <2>1. PICK file : file = [tree[n] EXCEPT !.kind = "gone"]
    OBVIOUS
  <2>2. file \in States(n)
    BY <1>2, <2>1 DEF States
  <2> QED BY <1>5, <2>1, <2>2, ChangeInv DEF Delete
<1> QED BY <1>3, <1>4, <1>5

-----------------------------------------------------------------------------
(* The report.                                                             *)

\* When the walk is over.
LEMMA OverFacts ==
  ASSUME WalkInv, walk.pc = "walking", walk.calls = <<>>
  PROVE  /\ TypesOK /\ DiskOK /\ Truthful /\ first \in Trees /\ status = Unfinished
         /\ found.findings \in Seq(Findings) /\ options.bytes \in Nat
         /\ \E R \in SUBSET DOMAIN first :
              /\ Counted(R) /\ FilesOf(R) \subseteq InScope
              /\ found.errors = <<>> /\ found.reasons = {} => \A n \in InScope \ changed : Examined(n)
<1>1. /\ TypesOK /\ DiskOK /\ Truthful /\ first \in Trees /\ status = Unfinished /\ ~Busy
      /\ \E R \in SUBSET DOMAIN first : Reach(R) /\ Counted(R) /\ Covered(R)
  BY DEF WalkInv, DiskOK, Busy
<1>2. found.findings \in Seq(Findings)
  BY <1>1 DEF TypesOK
<1>3. options.bytes \in Nat
  <2>1. options.bytes \in ByteLimits
    BY <1>1 DEF TypesOK, Options
  <2> QED BY <2>1, WalkAssumption
<1>4. PICK R \in SUBSET DOMAIN first : Reach(R) /\ Counted(R) /\ Covered(R)
  BY <1>1
<1>5. FilesOf(R) \subseteq InScope
  BY <1>1, <1>4, FilesFacts
<1>6. ASSUME found.errors = <<>>, found.reasons = {}, NEW n \in InScope \ changed
      PROVE  Examined(n)
  <2> DEFINE S == R \cup changed
  <2>1. S \in SUBSET DOMAIN first
    BY <1>1, <1>4 DEF Reach, DiskOK
  <2>2. \A m \in DOMAIN first : ~ ToCome(m, walk.calls)
    BY DEF ToCome
  <2>3. ASSUME NEW m \in DOMAIN first, first[m].in \in S PROVE m \in S
    <3>1. first[m].in \in DOMAIN first /\ first[m].in # "none"
      BY <1>1, <2>1, <2>3, TreeFacts
    <3>2. first[first[m].in].kind = "dir"
      BY <1>1, <3>1, TreeFacts
    <3>3. first[m].in \in R
      BY <1>1, <2>3, <3>2 DEF DiskOK
    <3>4. m \notin changed => m \in R \/ ToCome(m, walk.calls)
      BY <1>4, <1>6, <3>3 DEF Covered
    <3> QED BY <2>2, <3>4
  <2>4. ClosedBelow(S)
    BY <1>4, <2>3 DEF ClosedBelow, Reach
  <2>5. n \in R /\ first[n].kind = "file"
    BY <1>6, <2>1, <2>4 DEF InScope, Below
  <2> QED BY <1>1, <1>4, <1>6, <2>5 DEF Covered
<1> QED BY <1>1, <1>2, <1>3, <1>4, <1>5, <1>6

\* What is on the disk of an examined file.
LEMMA ExaminedFacts ==
  ASSUME WalkInv, walk.pc = "walking", walk.calls = <<>>, NEW i \in DOMAIN found.findings,
         NEW n, n = found.findings[i].file
  PROVE  /\ n \in InScope /\ n \in DOMAIN first
         /\ found.findings[i].reasons = {} => WholeOf(n)
         /\ found.findings[i].detected => Wanted(n, options.bytes)
         /\ n \notin changed =>
              (found.findings[i].detected <=> Wanted(n, LimitTo(first[n].len)))
<1>1. /\ DiskOK /\ first \in Trees /\ options.bytes \in Nat
      /\ TruthfulOf(found.findings[i]) /\ n \in InScope
  BY OverFacts DEF Truthful, Counted
<1>2. n \in DOMAIN first /\ first[n].at \in Nat /\ first[n].len \in Nat
  <2>1. n \in DOMAIN first
    BY <1>1 DEF InScope
  <2>2. first[n] \in Node(first)
    BY <1>1, <2>1, TreeFacts
  <2> QED BY <2>1, <2>2 DEF Node
<1>3. tree[n].mark = first[n].mark /\ tree[n].at = first[n].at /\ tree[n].len \in Nat
  <2>1. CASE n \in changed
    BY <1>1, <2>1 DEF DiskOK
  <2>2. CASE n \notin changed
    BY <1>1, <1>2, <2>2 DEF DiskOK
  <2> QED BY <2>1, <2>2
<1>4. found.findings[i].reasons = {} => WholeOf(n)
  BY <1>1 DEF TruthfulOf
<1>5. found.findings[i].detected <=>
        /\ first[n].mark # "none" /\ first[n].at <= LimitTo(tree[n].len) /\ Reported(first[n].mark)
  BY <1>1, <1>3 DEF TruthfulOf, Shows
<1>6. found.findings[i].detected => Wanted(n, options.bytes)
  <2>1. LimitTo(tree[n].len) <= options.bytes /\ LimitTo(tree[n].len) \in Nat
    BY <1>1, <1>3 DEF LimitTo
  <2>2. ASSUME first[n].at <= LimitTo(tree[n].len) PROVE first[n].at <= options.bytes
    BY <1>1, <1>2, <2>1, <2>2
  <2> QED BY <1>5, <2>2 DEF Wanted, Shows
<1>7. n \notin changed => (found.findings[i].detected <=> Wanted(n, LimitTo(first[n].len)))
  <2> SUFFICES ASSUME n \notin changed
               PROVE  found.findings[i].detected <=> Wanted(n, LimitTo(first[n].len))
    OBVIOUS
  <2>1. tree[n] = first[n]
    BY <1>1, <1>2 DEF DiskOK
  <2> QED BY <1>5, <2>1 DEF Wanted, Shows
<1> QED BY <1>1, <1>2, <1>4, <1>6, <1>7

\* No file is examined twice, and no more of them than the limit.
LEMMA NumberFacts ==
  ASSUME WalkInv, walk.pc = "walking", walk.calls = <<>>
  PROVE  /\ Cardinality({n \in InScope : Examined(n)}) = Len(found.findings)
         /\ Len(found.findings) <= options.files
<1>1. found.findings \in Seq(Findings) /\ options \in Options /\ found.scanned \in Nat
  BY OverFacts DEF TypesOK
<1>2. /\ Len(found.findings) <= found.scanned /\ found.scanned <= options.files
      /\ \A i, j \in DOMAIN found.findings : found.findings[i].file = found.findings[j].file => i = j
  <2>1. PICK R \in SUBSET DOMAIN first : Counted(R)
    BY OverFacts
  <2>2. ~Busy
    BY DEF Busy
  <2>3. Len(found.findings) + 0 <= found.scanned
    BY <2>1, <2>2 DEF Counted
  <2> QED BY <1>1, <2>1, <2>3, LenProperties DEF Counted
<1>3. PICK s \in Seq(Findings) : s = found.findings
  BY <1>1
<1>4. PICK u : u = [i \in DOMAIN s |-> s[i].file]
  OBVIOUS
<1>5. u \in Seq(DOMAIN first) /\ Len(u) = Len(s) /\ DOMAIN u = DOMAIN s
  <2>1. DOMAIN s = 1..Len(s) /\ Len(s) \in Nat
    BY LenProperties
  <2>2. \A i \in DOMAIN s : s[i].file \in DOMAIN first
    <3>1. \A i \in DOMAIN s : s[i] \in Findings
      BY <2>1, ElementOfSeq
    <3> QED BY <3>1 DEF Findings
  <2>3. u \in [1..Len(s) -> DOMAIN first]
    BY <1>4, <2>1, <2>2
  <2>4. u \in Seq(DOMAIN first)
    BY <2>1, <2>3, SeqDef
  <2>5. Len(u) \in Nat /\ DOMAIN u = 1..Len(u) /\ DOMAIN u = 1..Len(s)
    BY <2>3, <2>4, LenProperties
  <2>6. \A a, b \in Nat : 1..a = 1..b => a = b
    OBVIOUS
  <2>7. Len(u) = Len(s)
    BY <2>1, <2>5, <2>6
  <2> QED BY <2>1, <2>4, <2>5, <2>7
<1>6. Cardinality({u[i] : i \in DOMAIN u}) = Len(u)
  BY <1>2, <1>3, <1>4, <1>5, LenIsCardinality
<1>7. {n \in InScope : Examined(n)} = {u[i] : i \in DOMAIN u}
  <2>1. ASSUME NEW i \in DOMAIN found.findings PROVE found.findings[i].file \in InScope
    <3>1. PICK n : n = found.findings[i].file
      OBVIOUS
    <3> QED BY <3>1, ExaminedFacts
  <2> QED BY <1>3, <1>4, <1>5, <2>1 DEF Examined
<1>8. options.files \in Nat /\ Len(s) \in Nat
  BY <1>1, WalkAssumption, LenProperties DEF Options
<1>9. Len(found.findings) <= options.files
  <2>1. \A a, b, c \in Nat : a <= b /\ b <= c => a <= c
    OBVIOUS
  <2>2. Len(found.findings) \in Nat /\ found.scanned \in Nat /\ options.files \in Nat
    BY <1>1, <1>3, <1>8
  <2> QED BY <1>2, <2>1, <2>2
<1>10. Cardinality({n \in InScope : Examined(n)}) = Len(found.findings)
  BY <1>3, <1>5, <1>6, <1>7
<1> QED BY <1>9, <1>10

\* A record is of the file that was examined at its place.
LEMMA RecordFacts ==
  ASSUME WalkInv, walk.pc = "walking", walk.calls = <<>>, NEW i \in DOMAIN found.findings,
         Records[i] = "success"
  PROVE  WholeOf(found.findings[i].file)
<1>1. found.findings \in Seq(Findings) /\ found.errors \in Seq(DOMAIN first)
  BY OverFacts DEF TypesOK
<1>2. PICK s \in Seq(Findings), e \in Seq(DOMAIN first) : s = found.findings /\ e = found.errors
  BY <1>1
<1>3. PICK u \in Seq({"partial", "success", "error"}) :
        /\ u = [k \in DOMAIN s |-> IF s[k].reasons # {} THEN "partial" ELSE "success"]
        /\ Len(u) = Len(s) /\ DOMAIN s = 1..Len(s) /\ Len(s) \in Nat
  <2>1. DOMAIN s = 1..Len(s) /\ Len(s) \in Nat
    BY LenProperties
  <2>2. PICK u : u = [k \in DOMAIN s |-> IF s[k].reasons # {} THEN "partial" ELSE "success"]
    OBVIOUS
  <2>3. u \in [1..Len(s) -> {"partial", "success", "error"}]
    BY <2>1, <2>2
  <2>4. u \in Seq({"partial", "success", "error"})
    BY <2>1, <2>3, SeqDef
  <2>5. Len(u) \in Nat /\ DOMAIN u = 1..Len(u) /\ DOMAIN u = 1..Len(s)
    BY <2>3, <2>4, LenProperties
  <2>6. \A a, b \in Nat : 1..a = 1..b => a = b
    OBVIOUS
  <2>7. Len(u) = Len(s)
    BY <2>1, <2>5, <2>6
  <2> QED BY <2>1, <2>2, <2>4, <2>7
<1>4. PICK v \in Seq({"partial", "success", "error"}) : v = [k \in DOMAIN e |-> "error"]
  <2>1. DOMAIN e = 1..Len(e) /\ Len(e) \in Nat
    BY LenProperties
  <2>2. PICK w : w = [k \in DOMAIN e |-> "error"]
    OBVIOUS
  <2>3. w \in [1..Len(e) -> {"partial", "success", "error"}]
    BY <2>1, <2>2
  <2>4. w \in Seq({"partial", "success", "error"})
    BY <2>1, <2>3, SeqDef
  <2> QED BY <2>2, <2>4
<1>5. (u \o v)[i] = u[i]
  <2>1. \A k \in 1..(Len(u) + Len(v)) : (u \o v)[k] = IF k <= Len(u) THEN u[k] ELSE v[k - Len(u)]
    BY ConcatProperties
  <2>2. i \in 1..Len(s) /\ Len(u) \in Nat /\ Len(v) \in Nat
    BY <1>2, <1>3, LenProperties
  <2>3. Len(u) = Len(s)
    BY <1>3
  <2>4. \A a, b \in Nat : \A k \in 1..a : k \in 1..(a + b) /\ k <= a
    OBVIOUS
  <2>5. i \in 1..Len(u)
    BY <2>2, <2>3
  <2>6. i \in 1..(Len(u) + Len(v)) /\ i <= Len(u)
    BY <2>2, <2>4, <2>5
  <2> QED BY <2>1, <2>6
<1>6. Records = u \o v
  BY <1>2, <1>3, <1>4 DEF Records
<1>7. u[i] = "success"
  BY <1>5, <1>6
<1>8. found.findings[i].reasons = {}
  BY <1>2, <1>3, <1>7
<1>9. PICK n : n = found.findings[i].file
  OBVIOUS
<1> QED BY <1>8, <1>9, ExaminedFacts

\* What is reported in the end.
LEMMA EmitInv == WalkInv /\ Emit => WalkInv'
<1> SUFFICES ASSUME WalkInv, Emit PROVE WalkInv'
  OBVIOUS
<1>1. /\ walk.pc = "walking" /\ walk.calls = <<>>
      /\ status' = [exit |-> ExitStatus, records |-> Records, last |-> LastStatus]
      /\ walk' = [walk EXCEPT !.pc = "done"]
      /\ tree' = tree /\ first' = first /\ changed' = changed /\ options' = options /\ found' = found
  BY DEF Emit
<1>2. /\ TypesOK /\ DiskOK /\ Truthful /\ first \in Trees /\ options.bytes \in Nat
  BY <1>1, OverFacts
<1>3. DiskOK'
  BY <1>1, <1>2 DEF DiskOK
<1>4. walk'.pc = "done" /\ TypesOK'
  BY <1>1, <1>2 DEF TypesOK, Options, Calls, Findings, Busy, Steps
<1>5. status'.exit = ExitStatus /\ status'.records = Records /\ status'.last = LastStatus
  BY <1>1
<1>6. ASSUME ExitStatus = "0"
      PROVE  \A n \in InScope \ changed : Examined(n) /\ WholeOf(n) /\ ~Wanted(n, first[n].len)
  <2>1. ~AnyDetected /\ found.errors = <<>> /\ Reasons = {}
    BY <1>6 DEF ExitStatus
  <2>2. found.reasons = {} /\ \A i \in DOMAIN found.findings : found.findings[i].reasons = {}
    BY <2>1 DEF Reasons
  <2> TAKE n \in InScope \ changed
  <2>3. Examined(n)
    BY <1>1, <2>1, <2>2, OverFacts
  <2>4. PICK i \in DOMAIN found.findings : found.findings[i].file = n
    BY <2>3 DEF Examined
  <2>5. WholeOf(n) /\ ~Wanted(n, LimitTo(first[n].len))
    BY <1>1, <2>1, <2>2, <2>4, ExaminedFacts DEF AnyDetected
  <2>6. LimitTo(first[n].len) = first[n].len
    BY <2>5 DEF WholeOf, LimitTo
  <2> QED BY <2>3, <2>5, <2>6
<1>7. ASSUME ExitStatus = "4" PROVE \E n \in InScope : Wanted(n, options.bytes)
  <2>1. PICK i \in DOMAIN found.findings : found.findings[i].detected
    BY <1>7 DEF ExitStatus, AnyDetected
  <2>2. PICK n : n = found.findings[i].file
    OBVIOUS
  <2> QED BY <1>1, <2>1, <2>2, ExaminedFacts
<1>8. ASSUME NEW n \in InScope \ changed, Examined(n), Wanted(n, LimitTo(first[n].len))
      PROVE  ExitStatus = "4"
  <2>1. PICK i \in DOMAIN found.findings : found.findings[i].file = n
    BY <1>8 DEF Examined
  <2>2. found.findings[i].detected
    BY <1>1, <1>8, <2>1, ExaminedFacts
  <2> QED BY <2>1, <2>2 DEF ExitStatus, AnyDetected
<1>9. /\ Cardinality({n \in InScope : Examined(n)}) = Len(found.findings)
      /\ Len(found.findings) <= options.files
  BY <1>1, NumberFacts
<1>10. "max_files" \in found.reasons => Cardinality(InScope) > options.files
  BY <1>2 DEF Truthful
<1>11. \A i \in DOMAIN found.findings : Records[i] = "success" => WholeOf(found.findings[i].file)
  BY <1>1, RecordFacts
<1>12. LastStatus = "success" => ExitStatus \in {"0", "4"}
  BY DEF LastStatus, ExitStatus
<1>13. InScope' = InScope /\ \A n : (Examined(n)' <=> Examined(n)) /\ (WholeOf(n)' <=> WholeOf(n))
  BY <1>1 DEF InScope, Below, ClosedBelow, Start, Examined, WholeOf
<1>14. \A n, prefix : Wanted(n, prefix)' <=> Wanted(n, prefix)
  BY <1>1 DEF Wanted, Shows, Reported
<1>15. \A len : LimitTo(len)' = LimitTo(len)
  BY <1>1 DEF LimitTo
<1>16. ExitIsWarranted'
  <2>1. {n \in InScope : Examined(n)}' = {n \in InScope : Examined(n)}
    BY <1>13
  <2>2. /\ status'.exit = "0" =>
             \A n \in InScope \ changed : Examined(n) /\ WholeOf(n) /\ ~Wanted(n, first[n].len)
        /\ status'.exit = "4" => \E n \in InScope : Wanted(n, options.bytes)
        /\ (\E n \in InScope \ changed :
              Examined(n) /\ Wanted(n, LimitTo(first[n].len))) => status'.exit = "4"
        /\ \A i \in DOMAIN found.findings :
             status'.records[i] = "success" => WholeOf(found.findings[i].file)
        /\ status'.last = "success" => status'.exit \in {"0", "4"}
    BY <1>5, <1>6, <1>7, <1>8, <1>11, <1>12
  <2>3. status'.exit = "0" =>
          (\A n \in InScope \ changed : Examined(n) /\ WholeOf(n) /\ ~Wanted(n, first[n].len))'
    BY <1>1, <1>13, <1>14, <2>2
  <2>4. status'.exit = "4" => (\E n \in InScope : Wanted(n, options.bytes))'
    BY <1>1, <1>13, <1>14, <2>2
  <2>5. (\E n \in InScope \ changed : Examined(n) /\ Wanted(n, LimitTo(first[n].len)))' => status'.exit = "4"
    BY <1>1, <1>13, <1>14, <1>15, <2>2
  <2>6. (\A i \in DOMAIN found.findings : status.records[i] = "success" => WholeOf(found.findings[i].file))'
    BY <1>1, <1>13, <2>2
  <2>7. (Cardinality({n \in InScope : Examined(n)}) = Len(found.findings))'
    BY <1>1, <1>9, <2>1
  <2>8. (Len(found.findings) <= options.files)'
        /\ ("max_files" \in found.reasons => Cardinality(InScope) > options.files)'
    BY <1>1, <1>9, <1>10, <1>13
  <2>9. (status.last = "success" => status.exit \in {"0", "4"})'
    BY <2>2
  <2> QED BY <2>3, <2>4, <2>5, <2>6, <2>7, <2>8, <2>9 DEF ExitIsWarranted
<1> QED BY <1>3, <1>4, <1>16 DEF WalkInv

\* One step of the walk, of others, or none.
LEMMA WalkStepInv == WalkInv /\ [WalkNext]_walkVars => WalkInv'
<1> SUFFICES ASSUME WalkInv, [WalkNext]_walkVars PROVE WalkInv'
  OBVIOUS
<1>1. CASE UNCHANGED walkVars
  <2>1. /\ tree' = tree /\ first' = first /\ changed' = changed /\ options' = options
        /\ walk' = walk /\ found' = found /\ status' = status
    BY <1>1 DEF walkVars
  <2>2. DiskOK' /\ TypesOK'
    BY <2>1 DEF WalkInv, DiskOK, TypesOK, Options, Findings, Calls, Busy
  <2>3. InScope' = InScope
    BY <2>1 DEF InScope, Below, ClosedBelow, Start
  <2>4. Fresh' <=> Fresh
    BY <2>1 DEF Fresh
  <2>5. Truthful' <=> Truthful
    BY <2>1, <2>3 DEF Truthful, TruthfulOf, Shows, LimitTo, Reported, WholeOf
  <2>6. ASSUME NEW R
        PROVE  /\ Reach(R)' <=> Reach(R)
               /\ CallsOK(R, walk.calls)' <=> CallsOK(R, walk.calls)
               /\ Counted(R)' <=> Counted(R)
               /\ Covered(R)' <=> Covered(R)
    BY <2>1 DEF Reach, ClosedBelow, Start, CallsOK, Counted, Covered, FilesOf, Busy, Examined, ToCome
  <2>7. ExitIsWarranted' <=> ExitIsWarranted
    BY <2>1, <2>3 DEF ExitIsWarranted, Examined, WholeOf, Wanted, Shows, Reported, LimitTo
  <2>8. WalkInv' <=> WalkInv
    BY <2>1, <2>2, <2>4, <2>5, <2>6, <2>7 DEF WalkInv
  <2> QED BY <2>8
<1>2. CASE \E n \in DOMAIN tree : Grow(n) \/ Shrink(n) \/ Delete(n)
  BY <1>2, ChangesInv
<1> QED BY <1>1, <1>2, RefuseInputInv, BeginFileInv, BeginDirectoryInv, NextEntryInv, LastEntryInv,
        OpenFileInv, ReadFileInv, EmitInv DEF WalkNext

\* The walk, what it has found and what it still has to do are right at every
\* step (run, walk and scan_one of cmd_scan.rs).
THEOREM WalkCorrect == WalkSpec => []WalkInv
<1>1. WalkInit => WalkInv
  BY WalkInitInv
<1>2. WalkInv /\ [WalkNext]_walkVars => WalkInv'
  BY WalkStepInv
<1> QED BY <1>1, <1>2, PTL DEF WalkSpec

\* The exit status and the records say what is so, whatever others change
\* during the walk (run and emit of cmd_scan.rs).
THEOREM ExitStaysWarranted == WalkSpec => []ExitIsWarranted
<1>1. WalkInv => ExitIsWarranted
  BY DEF WalkInv
<1> QED BY <1>1, WalkCorrect, PTL

=============================================================================
