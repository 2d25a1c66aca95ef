------------------------------ MODULE HashChain ------------------------------
(***************************************************************************)
(* The hash chain over frames (hash_chain.rs): each frame's hash covers    *)
(* its number, the hash before it and its data; every segment gets a       *)
(* Merkle root.  Hashes are terms: equal when and only when what was       *)
(* hashed is equal, as for a hash without collisions.                      *)
(*                                                                         *)
(* One producer adds frames and closes segments.  A verifier holds a root  *)
(* and the trusted last hash of the segment before it.                     *)
(***************************************************************************)
EXTENDS Naturals, Sequences

CONSTANTS
  SegmentSizes,  \* segment sizes a chain may have; the default is 16
  MaxFrames,     \* BOUND: frames added
  MaxIndex,      \* BOUND: frame numbers
  Data           \* BOUND: what a frame may hold

ASSUME ChainAssumption == SegmentSizes \subseteq Nat \ {0}

VARIABLE chain
chainVars == <<chain>>

Zero == <<"zero">>
Hash(frame, prev) == <<"frame", frame.index, prev, frame.data>>

ChainFrames == [index : 0..MaxIndex, data : Data]

\* Mutant of Up: an odd last hash goes up only if it is alone.
UpDropsOdd(level) ==
  IF Len(level) <= 1 THEN level
  ELSE [i \in 1..(Len(level) \div 2) |-> <<"node", level[2 * i - 1], level[2 * i]>>]

\* One level of the tree: an odd last hash is paired with itself.
Up(level) ==
  IF Len(level) <= 1 THEN level
  ELSE [i \in 1..((Len(level) + 1) \div 2) |->
         <<"node", level[2 * i - 1], level[IF 2 * i <= Len(level) THEN 2 * i ELSE 2 * i - 1]>>]

\* compute_merkle_root: as many levels as leaves are more than enough.
Merkle(leaves) ==
  LET levels[h \in 0..Len(leaves)] == IF h = 0 THEN leaves ELSE Up(levels[h - 1])
  IN IF leaves = <<>> THEN Zero ELSE levels[Len(leaves)][1]

\* The hashes of frames that follow `prev`.
Chained(frames, prev) ==
  LET hash[i \in 0..Len(frames)] == IF i = 0 THEN prev ELSE Hash(frames[i], hash[i - 1])
  IN [i \in 1..Len(frames) |-> hash[i]]

ChainInit ==
  chain = [size |-> 0, hashes |-> <<>>, frames |-> <<>>, roots |-> <<>>, prev |-> Zero, total |-> 0]

New ==
  /\ chain.size = 0
  /\ \E n \in SegmentSizes : chain' = [chain EXCEPT !.size = n]

\* finalize_segment.  `of` records the frames the root is about.
Finalized(c) ==
  [c EXCEPT
    !.roots = Append(@, [root |-> Merkle(c.hashes), last |-> c.hashes[Len(c.hashes)],
                         start |-> c.frames[1].index, count |-> Len(c.hashes),
                         segment |-> Len(c.roots), of |-> c.frames, leaves |-> c.hashes]),
    !.hashes = <<>>, !.frames = <<>>]

\* The caller numbers the frames: a number may be skipped.
AddFrame ==
  /\ chain.size # 0 /\ chain.total < MaxFrames
  /\ \E f \in ChainFrames :
       LET h == Hash(f, chain.prev)
           c == [chain EXCEPT !.hashes = Append(@, h), !.frames = Append(@, f), !.prev = h,
                              !.total = @ + 1]
       IN chain' = IF Len(c.hashes) >= c.size THEN Finalized(c) ELSE c

\* build_root closes a partial segment; with none it only returns the last root.
BuildRoot ==
  /\ chain.hashes # <<>>
  /\ chain' = Finalized(chain)

ChainNext == New \/ AddFrame \/ BuildRoot

ChainSpec == ChainInit /\ [][ChainNext]_chainVars

Consecutive(frames) == \A i \in 1..(Len(frames) - 1) : frames[i + 1].index = frames[i].index + 1

\* Mutant of VerifyChain: the chain is started anew for each segment.
VerifyChainUnlinked(r, frames, prev) ==
  /\ frames # <<>> /\ Len(frames) = r.count /\ frames[1].index = r.start
  /\ (r.segment = 0) <=> (prev = Zero)
  /\ r.segment <= r.start
  /\ Consecutive(frames)
  /\ Merkle(Chained(frames, Zero)) = r.root

VerifyChain(r, frames, prev) ==
  /\ frames # <<>> /\ Len(frames) = r.count /\ frames[1].index = r.start
  /\ (r.segment = 0) <=> (prev = Zero)
  /\ r.segment <= r.start
  /\ Consecutive(frames)
  /\ LET hashes == Chained(frames, prev)
     IN hashes[Len(hashes)] = r.last /\ Merkle(hashes) = r.root

-----------------------------------------------------------------------------
(* Properties. *)

Newest == chain.roots[Len(chain.roots)]
Trusted == IF Len(chain.roots) = 1 THEN Zero ELSE chain.roots[Len(chain.roots) - 1].last

\* A verifier that walks the roots, with each root's last hash trusted for the
\* next, accepts for a segment the very frames that were added to it and no
\* others, and refuses them too when their numbers have a gap; the root alone
\* already binds every leaf, the odd ones of every level included
\* (HashChain::verify_chain against add_frame and finalize_segment).
AcceptsExactlyTheSegment ==
  chain.roots # <<>> /\ chain.hashes = <<>> =>
    /\ \A n \in 1..chain.size : \A f \in [1..n -> ChainFrames] :
         VerifyChain(Newest, f, Trusted) <=>
           f = Newest.of /\ Consecutive(f) /\ Newest.segment <= Newest.start
    /\ \A i \in 1..Newest.count : Merkle([Newest.leaves EXCEPT ![i] = Zero]) # Newest.root

=============================================================================
