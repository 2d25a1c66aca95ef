----------------------------- MODULE MCPacketCli -----------------------------
(* Options, packets of other writers and sizes for TLC.                      *)
EXTENDS PacketCli, TLC

CONSTANTS cover, mid, out,      \* files
          text, noise,          \* payloads; only text shrinks
          alice, bob, leaked,   \* signing keys
          k, pw, place          \* a raw key, a password, an embedding key

MCSize == [p \in {text, noise} |-> IF p = text THEN 2 ELSE 1]

Plain == [in |-> cover, out |-> mid, payload |-> text, signer |-> None,
          compress |-> FALSE, key |-> None, password |-> None, parity |-> 0,
          place |-> None, bits |-> 1, verify |-> FALSE]

MCEncodeOptions == {
  Plain,
  [Plain EXCEPT !.signer = alice, !.compress = TRUE, !.password = pw, !.parity = 2,
                !.place = place, !.verify = TRUE],
  [Plain EXCEPT !.signer = alice, !.key = k, !.parity = 2, !.bits = 2],
  [Plain EXCEPT !.payload = noise, !.compress = TRUE, !.parity = 2],
  [Plain EXCEPT !.compress = TRUE, !.signer = alice, !.in = mid, !.out = out],
  [Plain EXCEPT !.signer = leaked],
  [Plain EXCEPT !.key = k, !.password = pw]}

Bare == [in |-> mid, out |-> out, force |-> FALSE, key |-> None, password |-> None,
         place |-> None, strengths |-> 1..2, trusted |-> None, explicit |-> FALSE]

MCDecodeOptions == {
  Bare,
  [Bare EXCEPT !.password = pw, !.place = place, !.trusted = alice, !.force = TRUE],
  [Bare EXCEPT !.key = k, !.trusted = alice, !.explicit = TRUE],
  [Bare EXCEPT !.in = cover, !.key = k, !.strengths = {1}],
  [Bare EXCEPT !.in = cover, !.out = mid, !.trusted = alice, !.force = TRUE],
  [Bare EXCEPT !.in = cover, !.password = pw, !.trusted = leaked]}

\* Packets that the format admits and apply_with_password never makes.
Other(p, transforms, layers) ==
  [id |-> 0, len |-> MCSize[p], digest |-> p,
   transforms |-> transforms, flags |-> FlagsOf(transforms),
   keyed |-> FALSE, bits |-> 1,
   payload |-> p, layers |-> layers]

MCForeignPackets == {
  \* the stages in another order, and one of them twice
  Other(text, <<Aead, Deflate>>, <<Deflated, Sealed(k, Aad(0, 2))>>),
  Other(text, <<Signature(leaked, noise), Signature(alice, text)>>, <<>>),
  \* a password with nothing to open, and a transform nobody knows
  Other(text, <<Kdf(0)>>, <<>>),
  Other(text, <<[alg |-> "other"]>>, <<>>),
  \* a signature of another key, of a revoked one, and over another payload
  Other(text, <<Signature(bob, text)>>, <<>>),
  Other(noise, <<Signature(alice, text)>>, <<>>),
  Other(text, <<Signature(leaked, text)>>, <<>>),
  \* flags and a digest that do not fit the transforms and the payload
  [Other(text, <<Deflate>>, <<Deflated>>) EXCEPT !.flags = {}],
  [Other(noise, <<Signature(alice, noise)>>, <<>>) EXCEPT !.digest = text],
  \* a packet sealed for another envelope
  Other(text, <<Aead>>, <<Sealed(k, Aad(1, 2))>>)}

Symmetry == Permutations(Commands) \cup Permutations(Chunks)
=============================================================================
