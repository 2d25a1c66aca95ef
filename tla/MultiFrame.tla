----------------------------- MODULE MultiFrame -----------------------------
(***************************************************************************)
(* Multi-frame spreading (multi_frame.rs): a payload is split into n       *)
(* shards that give it back only together.  A byte string is a set of      *)
(* atoms, the payloads and masks it is the exclusive or of, with a length; *)
(* so two strings are equal when and only when the atoms are, which is     *)
(* what random masks give but for a negligible chance.                     *)
(*                                                                         *)
(* The variable is the collection a reader has put together so far: shards *)
(* of several payloads, in any order, missing or repeated.                 *)
(***************************************************************************)
EXTENDS Naturals, Sequences, FiniteSets

CONSTANTS
  Groups,   \* BOUND: the splits a collection may draw from, <<n, len>> each
  MaxHeld   \* BOUND: shards in a collection

ASSUME GroupsAssumption ==
  \A of \in DOMAIN Groups : Groups[of][1] \in Nat \ {0} /\ Groups[of][2] \in Nat

VARIABLE shards
pileVars == <<shards>>

Odd(n) == n % 2 = 1

\* Exclusive or of the strings in a sequence: what occurs an odd number of times.
XorAll(s) == {a \in UNION {s[i] : i \in DOMAIN s} : Odd(Cardinality({i \in DOMAIN s : a \in s[i]}))}

Mask(of, i) == <<"mask", of, i>>
Payload(of) == <<"payload", of>>

\* split, split_payload_bytes: n-1 random masks, and the payload under all of them.
Split(of, n, len) ==
  [i \in 1..n |->
    [index |-> i - 1, total |-> n, len |-> len,
     data |-> IF i = 1 THEN XorAll(<<{Payload(of)}>> \o [j \in 1..(n - 1) |-> {Mask(of, j)}])
                       ELSE {Mask(of, i - 1)}]]

SplitRefused(n, len) == n < 2 \/ n > 8 \/ len = 0

Failed == [failed |-> TRUE]

\* Mutant of Complete: an index may come twice.
CompleteUncounted(s) ==
  /\ s # <<>> /\ Len(s) = s[1].total /\ s[1].total \in 2..8 /\ s[1].len # 0
  /\ \A i \in DOMAIN s : s[i].total = s[1].total /\ s[i].len = s[1].len /\ s[i].index < s[1].total

\* The checks of reconstruct and reconstruct_payload_bytes; their order is only
\* the choice of the message.
Complete(s) ==
  /\ s # <<>> /\ Len(s) = s[1].total /\ s[1].total \in 2..8 /\ s[1].len # 0
  /\ \A i \in DOMAIN s :
       /\ s[i].total = s[1].total /\ s[i].len = s[1].len /\ s[i].index < s[1].total
       /\ \A j \in DOMAIN s : s[i].index = s[j].index => i = j

Reconstruct(s) ==
  IF Complete(s) THEN [failed |-> FALSE, data |-> XorAll([i \in DOMAIN s |-> s[i].data])] ELSE Failed

-----------------------------------------------------------------------------

PileInit == shards = <<>>

\* The next shard in hand: of any payload, perhaps one already there.
Collect ==
  /\ Len(shards) < MaxHeld
  /\ \E of \in DOMAIN Groups :
       LET n == Groups[of][1]
           len == Groups[of][2]
       IN ~ SplitRefused(n, len) /\ \E i \in 1..n : shards' = Append(shards, Split(of, n, len)[i])

PileNext == Collect

PileSpec == PileInit /\ [][PileNext]_pileVars

-----------------------------------------------------------------------------
(* Properties. *)

\* A collection is accepted and gives a payload exactly when it is the shards of
\* that payload, all of them and each once, in any order.  What is accepted
\* otherwise, a mixture of complete groups' halves, is no payload at all
\* (reconstruct: "turns a duplicate/missing-shard bug into a clear error").
RecoversExactly ==
  LET got == Reconstruct(shards) IN
  /\ \A of \in DOMAIN Groups :
       LET all == {Split(of, Groups[of][1], Groups[of][2])[i] : i \in 1..Groups[of][1]}
           whole == Len(shards) = Cardinality(all) /\ {shards[i] : i \in DOMAIN shards} = all
       IN whole <=> ~ got.failed /\ got.data = {Payload(of)}
  /\ ~ got.failed => {shards[i].index : i \in DOMAIN shards} = 0..(Len(shards) - 1)

=============================================================================
