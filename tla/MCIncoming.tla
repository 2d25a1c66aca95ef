----------------------------- MODULE MCIncoming ------------------------------
(***************************************************************************)
(* What a client sends is dealt with in the end: chunks become a message   *)
(* or are given up, artifacts are judged or evicted, polls are answered.   *)
(* Reassembler and FramePipeline share no state (a frame may also come     *)
(* whole, over a WebSocket), so that a behaviour follows one of them.      *)
(*                                                                         *)
(* Chunks of two bytes and messages of at most five, hence at most three   *)
(* chunks.  Messages 1 to 3 can all be in flight, which is more than the   *)
(* retained budget of ten bytes; 3 is one byte too long to be a message, 4 *)
(* is short and finds the other three in flight, and 5 is empty and framed *)
(* as one empty chunk.                                                     *)
(***************************************************************************)
EXTENDS Reassembler, FramePipeline

VARIABLE part   \* which of them

MCMessages ==
  [id \in 1..5 |->
     [k \in 1..(CASE id = 3 -> 6 [] id = 4 -> 3 [] id = 5 -> 0 [] OTHER -> 5) |-> 10 * id + k]]

\* A count of zero, a count over the limit, an index out of range, and a
\* count that is not the one of the message in flight.
MCStrayChunks ==
  {[id |-> 1, index |-> 0, count |-> 0, payload |-> <<>>],
   [id |-> 1, index |-> 0, count |-> 4, payload |-> <<7>>],
   [id |-> 2, index |-> 3, count |-> 3, payload |-> <<7>>],
   [id |-> 3, index |-> 0, count |-> 2, payload |-> <<7>>]}

IncomingInit == part \in {"chunks", "frames"} /\ ReassemblerInit /\ Init

\* The verification thread goes to sleep before any chunk comes: nothing that
\* either part's fairness is about is enabled in a behaviour of the other.
IncomingNext ==
  /\ UNCHANGED part
  /\ \/ part = "chunks" /\ wpc = "locking" /\ WaitForJob /\ UNCHANGED reassemblerVars
     \/ part = "chunks" /\ wpc = "waiting" /\ ReassemblerNext /\ UNCHANGED vars
     \/ part = "frames" /\ Next /\ UNCHANGED reassemblerVars

IncomingSpec ==
  /\ IncomingInit /\ [][IncomingNext]_<<part, reassemblerVars, vars>>
  /\ ReassemblerFairness /\ Fairness

=============================================================================
