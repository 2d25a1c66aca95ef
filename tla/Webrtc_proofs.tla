---------------------------- MODULE Webrtc_proofs ----------------------------
(***************************************************************************)
(* Proofs about the server's end of WebRTC: the reassembly of data-channel *)
(* messages, and the life of sessions, for any offers, owners and permits. *)
(***************************************************************************)
EXTENDS Reassembler, WebrtcSession, FiniteSetTheorems, SequenceTheorems, TLAPS

-----------------------------------------------------------------------------
(* Sums over finite sets.  The library's induction theorems take a         *)
(* predicate; here the set G of what has the property takes its place.     *)

LEMMA NatInductionSet ==
  ASSUME NEW G, 0 \in G, \A n \in Nat : n \in G => n + 1 \in G
  PROVE  Nat \subseteq G
<1> SUFFICES ASSUME Nat \ G # {} PROVE FALSE
  OBVIOUS
<1>1. PICK n \in Nat \ G : \A m \in Nat \ G : ~ (<<m, n>> \in OpToRel(<, Nat))
  <2>1. Nat \ G \subseteq Nat
    OBVIOUS
  <2> HIDE DEF OpToRel
  <2> QED BY <2>1, NatLessThanWellFounded, WFMin
<1>2. \A m \in Nat : m < n => m \in G
  BY <1>1 DEF OpToRel
<1>3. n # 0 /\ n - 1 \in Nat /\ n - 1 < n /\ (n - 1) + 1 = n
  OBVIOUS
<1>4. n - 1 \in G
  BY <1>2, <1>3
<1> QED BY <1>1, <1>3, <1>4

LEMMA SubsetInduction ==
  ASSUME NEW S, IsFiniteSet(S), NEW G,
         \A T \in SUBSET S : (\A U \in SUBSET T : U # T => U \in G) => T \in G
  PROVE  SUBSET S \subseteq G
<1> SUFFICES ASSUME (SUBSET S) \ G # {} PROVE FALSE
  OBVIOUS
<1>1. PICK T \in (SUBSET S) \ G :
        \A U \in (SUBSET S) \ G : ~ (<<U, T>> \in StrictSubsetOrdering(S))
  <2> DEFINE R == StrictSubsetOrdering(S)
             X == FiniteSubsetsOf(S)
             Bad == (SUBSET S) \ G
  <2>1. Bad \subseteq X /\ Bad # {}
    BY FS_FiniteSubsetsOfFinite
  <2>2. IsWellFoundedOn(R, X)
    BY FS_StrictSubsetOrderingWellFounded
  <2> HIDE DEF R, X, Bad
  <2>3. \E T \in Bad : \A U \in Bad : ~ (<<U, T>> \in R)
    BY <2>1, <2>2, WFMin
  <2> QED BY <2>3 DEF R, Bad
<1>2. \A U \in SUBSET T : U # T => U \in G
  BY <1>1 DEF StrictSubsetOrdering
<1> QED BY <1>1, <1>2

\* The element the library's fold takes first, and one step of the fold.
First(s) == CHOOSE x \in s : TRUE
Summed(f, g, s) == IF s = {} THEN 0 ELSE f[First(s)] + g[s \ {First(s)}]

LEMMA FirstIn == \A s : s # {} => First(s) \in s
BY DEF First

LEMMA SumIsFold ==
  ASSUME NEW f, NEW S
  PROVE  SumFunctionOnSet(f, S)
           = (CHOOSE g : g = [s \in SUBSET S |-> Summed(f, g, s)])[S]
BY DEF SumFunctionOnSet, FoldFunctionOnSet, MapThenFoldSet, Summed, First

\* The recursion of the fold has a solution.
LEMMA SumExists ==
  ASSUME NEW f, NEW S, IsFiniteSet(S)
  PROVE  \E g : g = [s \in SUBSET S |-> Summed(f, g, s)]
<1> DEFINE Solves(g, n) == \A s \in SUBSET S : Cardinality(s) <= n => g[s] = Summed(f, g, s)
           G == {n \in Nat : \E g : Solves(g, n)}
<1>1. \A s \in SUBSET S : /\ IsFiniteSet(s) /\ Cardinality(s) \in Nat
                          /\ Cardinality(s) = 0 <=> s = {}
                          /\ s # {} => Cardinality(s \ {First(s)}) = Cardinality(s) - 1
  <2> TAKE s \in SUBSET S
  <2>1. IsFiniteSet(s)
    BY FS_Subset
  <2> QED BY <2>1, FS_CardinalityType, FS_EmptySet, FS_RemoveElement, FirstIn
<1>2. 0 \in G
  <2>1. PICK g : g = [s \in SUBSET S |-> 0]
    OBVIOUS
  <2>2. Solves(g, 0)
    <3> SUFFICES ASSUME NEW s \in SUBSET S, Cardinality(s) <= 0
                 PROVE  g[s] = Summed(f, g, s)
      OBVIOUS
    <3>1. Cardinality(s) \in Nat
      BY <1>1
    <3>2. Cardinality(s) = 0
      BY <3>1
    <3>3. s = {}
      BY <1>1, <3>2
    <3> QED BY <2>1, <3>3 DEF Summed
  <2> QED BY <2>2
<1>3. \A n \in Nat : n \in G => n + 1 \in G
  <2> TAKE n \in Nat
  <2> HAVE n \in G
  <2>1. PICK g : Solves(g, n)
    OBVIOUS
  <2>2. PICK h : h = [s \in SUBSET S |-> Summed(f, g, s)]
    OBVIOUS
  <2>3. Solves(h, n + 1)
    <3> SUFFICES ASSUME NEW s \in SUBSET S, Cardinality(s) <= n + 1
                 PROVE  h[s] = Summed(f, h, s)
      OBVIOUS
    <3>1. h[s] = Summed(f, g, s)
      BY <2>2
    <3>2. CASE s = {}
      BY <3>1, <3>2 DEF Summed
    <3>3. CASE s # {}
      <4>1. PICK t : t = s \ {First(s)}
        OBVIOUS
      <4>2. t \in SUBSET S /\ Cardinality(t) <= n
        <5>1. Cardinality(s) \in Nat /\ Cardinality(t) = Cardinality(s) - 1
          BY <1>1, <3>3, <4>1
        <5>2. Cardinality(t) <= n
          <6> PICK d : d = Cardinality(s)
            OBVIOUS
          <6> QED BY <5>1
        <5> QED BY <4>1, <5>2
      <4>3. h[t] = g[t]
        BY <2>1, <2>2, <4>2
      <4> QED BY <3>1, <3>3, <4>1, <4>3 DEF Summed
    <3> QED BY <3>2, <3>3
  <2> QED BY <2>3
<1>4. Cardinality(S) \in G
  <2>1. Nat \subseteq G
    <3> HIDE DEF G
    <3> QED BY <1>2, <1>3, NatInductionSet
  <2>2. Cardinality(S) \in Nat
    BY <1>1
  <2> HIDE DEF G
  <2> QED BY <2>1, <2>2
<1>5. PICK g : Solves(g, Cardinality(S))
  BY <1>4
<1>6. \A s \in SUBSET S : g[s] = Summed(f, g, s)
  <2>1. \A s \in SUBSET S : Cardinality(s) <= Cardinality(S)
    BY FS_Subset
  <2> QED BY <1>5, <2>1
<1>7. PICK h : h = [s \in SUBSET S |-> g[s]]
  OBVIOUS
<1>8. \A s \in SUBSET S : Summed(f, h, s) = Summed(f, g, s)
  BY <1>7, FirstIn DEF Summed
<1>9. h = [s \in SUBSET S |-> Summed(f, h, s)]
  BY <1>6, <1>7, <1>8
<1> QED BY <1>9

\* Two solutions agree, so the sum over a subset is read off the solution.
LEMMA SumUnique ==
  ASSUME NEW f, NEW S, IsFiniteSet(S), NEW g, NEW h,
         \A s \in SUBSET S : g[s] = Summed(f, g, s),
         \A s \in SUBSET S : h[s] = Summed(f, h, s)
  PROVE  g[S] = h[S]
<1> DEFINE G == {T \in SUBSET S : g[T] = h[T]}
<1>1. \A T \in SUBSET S : (\A U \in SUBSET T : U # T => U \in G) => T \in G
  <2> TAKE T \in SUBSET S
  <2> HAVE \A U \in SUBSET T : U # T => U \in G
  <2>1. CASE T = {}
    BY <2>1 DEF Summed
  <2>2. CASE T # {}
    <3>1. PICK t : t = T \ {First(T)}
      OBVIOUS
    <3>2. t \in G
      BY <2>2, <3>1, FirstIn
    <3> QED BY <2>2, <3>1, <3>2 DEF Summed
  <2> QED BY <2>1, <2>2
<1>2. S \in G
  <2> HIDE DEF G
  <2> QED BY <1>1, SubsetInduction
<1> QED BY <1>2

LEMMA SumSteps ==
  ASSUME NEW f, NEW S, IsFiniteSet(S)
  PROVE  /\ SumFunctionOnSet(f, {}) = 0
         /\ S # {} => SumFunctionOnSet(f, S)
                        = f[First(S)] + SumFunctionOnSet(f, S \ {First(S)})
<1>1. ASSUME NEW T, IsFiniteSet(T)
      PROVE  \E g : /\ g = [s \in SUBSET T |-> Summed(f, g, s)]
                    /\ SumFunctionOnSet(f, T) = g[T]
  <2>1. PICK g : g = (CHOOSE x : x = [s \in SUBSET T |-> Summed(f, x, s)])
    OBVIOUS
  <2>2. g = [s \in SUBSET T |-> Summed(f, g, s)]
    BY <1>1, <2>1, SumExists
  <2> QED BY <2>1, <2>2, SumIsFold
<1>2. SumFunctionOnSet(f, {}) = 0
  BY <1>1, FS_EmptySet DEF Summed
<1>3. ASSUME S # {}
      PROVE  SumFunctionOnSet(f, S) = f[First(S)] + SumFunctionOnSet(f, S \ {First(S)})
  <2>1. PICK T : T = S \ {First(S)}
    OBVIOUS
  <2>2. IsFiniteSet(T) /\ T \in SUBSET S
    BY <2>1, FS_RemoveElement
  <2>3. PICK g : g = [s \in SUBSET S |-> Summed(f, g, s)] /\ SumFunctionOnSet(f, S) = g[S]
    BY <1>1
  <2>4. PICK h : h = [s \in SUBSET T |-> Summed(f, h, s)] /\ SumFunctionOnSet(f, T) = h[T]
    BY <1>1, <2>2
  <2>5. \A s \in SUBSET T : s \in SUBSET S
    BY <2>2
  <2>6. /\ \A s \in SUBSET T : g[s] = Summed(f, g, s)
        /\ \A s \in SUBSET T : h[s] = Summed(f, h, s)
    BY <2>3, <2>4, <2>5
  <2>7. g[T] = h[T]
    BY <2>2, <2>6, SumUnique
  <2>8. g[S] = f[First(S)] + g[T]
    BY <1>3, <2>1, <2>3 DEF Summed
  <2> QED BY <2>1, <2>3, <2>4, <2>7, <2>8
<1> QED BY <1>2, <1>3

LEMMA SumNat ==
  ASSUME NEW f, NEW S, IsFiniteSet(S), \A x \in S : f[x] \in Nat
  PROVE  \A T \in SUBSET S : SumFunctionOnSet(f, T) \in Nat
<1> DEFINE G == {T \in SUBSET S : SumFunctionOnSet(f, T) \in Nat}
<1>1. \A T \in SUBSET S : (\A U \in SUBSET T : U # T => U \in G) => T \in G
  <2> TAKE T \in SUBSET S
  <2> HAVE \A U \in SUBSET T : U # T => U \in G
  <2>1. IsFiniteSet(T)
    BY FS_Subset
  <2>2. CASE T = {}
    <3>1. SumFunctionOnSet(f, {}) = 0
      BY FS_EmptySet, SumSteps
    <3> QED BY <2>2, <3>1
  <2>3. CASE T # {}
    <3>1. First(T) \in T
      BY <2>3, FirstIn
    <3>2. SumFunctionOnSet(f, T \ {First(T)}) \in Nat /\ f[First(T)] \in Nat
      <4>1. T \ {First(T)} \in G
        BY <3>1
      <4> QED BY <3>1, <4>1
    <3>3. SumFunctionOnSet(f, T) = f[First(T)] + SumFunctionOnSet(f, T \ {First(T)})
      BY <2>1, <2>3, SumSteps
    <3> QED BY <3>2, <3>3
  <2> QED BY <2>2, <2>3
<1>2. SUBSET S \subseteq G
  <2> HIDE DEF G
  <2> QED BY <1>1, SubsetInduction
<1> QED BY <1>2

\* A sum can be taken one element at a time, in any order.
LEMMA SumRemove ==
  ASSUME NEW f, NEW S, IsFiniteSet(S), \A x \in S : f[x] \in Nat
  PROVE  \A x \in S : SumFunctionOnSet(f, S) = f[x] + SumFunctionOnSet(f, S \ {x})
<1> DEFINE Sum(T) == SumFunctionOnSet(f, T)
           G == {T \in SUBSET S : \A x \in T : Sum(T) = f[x] + Sum(T \ {x})}
<1>1. \A T \in SUBSET S : (\A U \in SUBSET T : U # T => U \in G) => T \in G
  <2> SUFFICES ASSUME NEW T \in SUBSET S, \A U \in SUBSET T : U # T => U \in G,
                      NEW x \in T
               PROVE  Sum(T) = f[x] + Sum(T \ {x})
    OBVIOUS
  <2>1. PICK y : y = First(T)
    OBVIOUS
  <2>2. y \in T /\ IsFiniteSet(T) /\ IsFiniteSet(T \ {x})
    BY <2>1, FirstIn, FS_Subset
  <2>3. Sum(T) = f[y] + Sum(T \ {y})
    BY <2>1, <2>2, SumSteps
  <2>4. CASE x = y
    BY <2>3, <2>4
  <2>5. CASE x # y
    <3>1. T \ {y} \in G /\ T \ {x} \in G /\ x \in T \ {y} /\ y \in T \ {x}
      BY <2>2, <2>5
    <3>2. Sum(T \ {y}) = f[x] + Sum((T \ {y}) \ {x}) /\ Sum(T \ {x}) = f[y] + Sum((T \ {x}) \ {y})
      BY <3>1
    <3>3. PICK rest : rest = Sum((T \ {y}) \ {x})
      OBVIOUS
    <3>4. (T \ {y}) \ {x} = (T \ {x}) \ {y}
      OBVIOUS
    <3>5. Sum((T \ {x}) \ {y}) = rest
      BY <3>3, <3>4
    <3>6. rest \in Nat /\ f[x] \in Nat /\ f[y] \in Nat
      <4>1. (T \ {y}) \ {x} \in SUBSET S
        OBVIOUS
      <4> QED BY <2>2, <3>3, <4>1, SumNat
    <3>7. Sum(T) = f[y] + (f[x] + rest) /\ Sum(T \ {x}) = f[y] + rest
      BY <2>3, <3>2, <3>3, <3>5
    <3> HIDE DEF Sum, G
    <3> QED BY <3>6, <3>7
  <2> QED BY <2>4, <2>5
<1>2. SUBSET S \subseteq G
  <2> HIDE DEF G
  <2> QED BY <1>1, SubsetInduction
<1> QED BY <1>2

\* It depends on the values taken in the set only.
LEMMA SumSame ==
  ASSUME NEW f, NEW h, NEW S, IsFiniteSet(S), \A x \in S : f[x] = h[x]
  PROVE  SumFunctionOnSet(f, S) = SumFunctionOnSet(h, S)
<1> DEFINE G == {T \in SUBSET S : SumFunctionOnSet(f, T) = SumFunctionOnSet(h, T)}
<1>1. \A T \in SUBSET S : (\A U \in SUBSET T : U # T => U \in G) => T \in G
  <2> TAKE T \in SUBSET S
  <2> HAVE \A U \in SUBSET T : U # T => U \in G
  <2>1. IsFiniteSet(T)
    BY FS_Subset
  <2>2. CASE T = {}
    BY <2>1, <2>2, SumSteps
  <2>3. CASE T # {}
    <3>1. First(T) \in T
      BY <2>3, FirstIn
    <3>2. /\ SumFunctionOnSet(f, T \ {First(T)}) = SumFunctionOnSet(h, T \ {First(T)})
          /\ f[First(T)] = h[First(T)]
      BY <3>1
    <3>3. /\ SumFunctionOnSet(f, T) = f[First(T)] + SumFunctionOnSet(f, T \ {First(T)})
          /\ SumFunctionOnSet(h, T) = h[First(T)] + SumFunctionOnSet(h, T \ {First(T)})
      BY <2>1, <2>3, SumSteps
    <3> QED BY <3>2, <3>3
  <2> QED BY <2>2, <2>3
<1>2. SUBSET S \subseteq G
  <2> HIDE DEF G
  <2> QED BY <1>1, SubsetInduction
<1>3. S \in G
  <2> HIDE DEF G
  <2> QED BY <1>2
<1> QED BY <1>3

\* A set of elements can be taken out at once.
LEMMA SumSplit ==
  ASSUME NEW f, NEW S, IsFiniteSet(S), \A x \in S : f[x] \in Nat
  PROVE  \A T \in SUBSET S :
           SumFunctionOnSet(f, S) = SumFunctionOnSet(f, T) + SumFunctionOnSet(f, S \ T)
<1> DEFINE Sum(T) == SumFunctionOnSet(f, T)
           G == {T \in SUBSET S : Sum(S) = Sum(T) + Sum(S \ T)}
<1>0. \A T \in SUBSET S : IsFiniteSet(T) /\ Sum(T) \in Nat
  BY FS_Subset, SumNat
<1>1. \A T \in SUBSET S : (\A U \in SUBSET T : U # T => U \in G) => T \in G
  <2> SUFFICES ASSUME NEW T \in SUBSET S, \A U \in SUBSET T : U # T => U \in G
               PROVE  Sum(S) = Sum(T) + Sum(S \ T)
    OBVIOUS
  <2>1. CASE T = {}
    <3>1. Sum(T) = 0 /\ Sum(S \ T) = Sum(S) /\ Sum(S) \in Nat
      <4>1. S \ T = S
        BY <2>1
      <4>2. Sum({}) = 0
        BY FS_EmptySet, SumSteps
      <4> QED BY <1>0, <2>1, <4>1, <4>2
    <3> HIDE DEF Sum
    <3> QED BY <3>1
  <2>2. CASE T # {}
    <3>1. PICK y : y = First(T)
      OBVIOUS
    <3>2. y \in T
      BY <2>2, <3>1, FirstIn
    <3>3. PICK U, V, W : U = T \ {y} /\ V = S \ U /\ W = S \ T
      OBVIOUS
    <3>4. U \in G /\ V \in SUBSET S /\ W \in SUBSET S /\ U \in SUBSET S /\ y \in V /\ V \ {y} = W
      BY <3>2, <3>3
    <3>5. Sum(S) = Sum(U) + Sum(V)
      BY <3>3, <3>4
    <3>6. Sum(T) = f[y] + Sum(U)
      BY <1>0, <3>2, <3>3, SumRemove
    <3>7. Sum(V) = f[y] + Sum(W)
      <4>1. IsFiniteSet(V) /\ \A x \in V : f[x] \in Nat
        BY <1>0, <3>4
      <4>2. SumFunctionOnSet(f, V) = f[y] + SumFunctionOnSet(f, V \ {y})
        BY <3>4, <4>1, SumRemove
      <4> QED BY <3>4, <4>2
    <3>8. Sum(U) \in Nat /\ Sum(W) \in Nat /\ f[y] \in Nat
      BY <1>0, <3>4
    <3>9. Sum(S \ T) = Sum(W)
      BY <3>3
    <3> HIDE DEF Sum, G
    <3> QED BY <3>5, <3>6, <3>7, <3>8, <3>9
  <2> QED BY <2>1, <2>2
<1>2. SUBSET S \subseteq G
  <2> HIDE DEF G
  <2> QED BY <1>1, SubsetInduction
<1> QED BY <1>2

-----------------------------------------------------------------------------
(* The chunks a peer sends.                                                *)

LEMMA CeilDivNat ==
  ASSUME NEW a \in Nat, NEW b \in Nat \ {0}
  PROVE  /\ CeilDiv(a, b) \in Nat
         /\ a <= CeilDiv(a, b) * b
         /\ a > 0 => CeilDiv(a, b) > 0 /\ (CeilDiv(a, b) - 1) * b < a
<1>1. PICK q, m : q = (a + b - 1) \div b /\ m = (a + b - 1) % b
  OBVIOUS
<1>2. q \in Int /\ m \in 0..(b - 1) /\ a + b - 1 = b * q + m
  BY <1>1
<1> QED BY <1>1, <1>2 DEF CeilDiv

Count(id) == Max({CeilDiv(Len(Messages[id]), CHUNK_PAYLOAD_MAX), 1})

LEMMA MaxOfTwo ==
  ASSUME NEW a \in Nat, NEW b \in Nat
  PROVE  Max({a, b}) \in {a, b} /\ Max({a, b}) >= a /\ Max({a, b}) >= b
<1>1. \E x \in {a, b} : \A y \in {a, b} : x >= y
  OBVIOUS
<1> QED BY <1>1 DEF Max

LEMMA MinOfTwo ==
  ASSUME NEW a \in Nat, NEW b \in Nat
  PROVE  Min({a, b}) = IF a <= b THEN a ELSE b
<1>1. \E x \in {a, b} : \A y \in {a, b} : x <= y
  OBVIOUS
<1> QED BY <1>1 DEF Min

Piece(id, k) ==
  [id |-> id, index |-> k - 1, count |-> Count(id),
   payload |-> SubSeq(Messages[id], (k - 1) * CHUNK_PAYLOAD_MAX + 1,
                      Min({Len(Messages[id]), (k - 1) * CHUNK_PAYLOAD_MAX + CHUNK_PAYLOAD_MAX}))]

LEMMA Framed ==
  ASSUME NEW id \in DOMAIN Messages
  PROVE  /\ Messages[id] \in Seq(Nat) /\ Len(Messages[id]) \in Nat
         /\ Count(id) \in Nat \ {0}
         /\ Len(Messages[id]) <= Count(id) * CHUNK_PAYLOAD_MAX
         /\ (Count(id) - 1) * CHUNK_PAYLOAD_MAX <= Len(Messages[id])
         /\ FrameChunks(id, Messages[id]) = [k \in 1..Count(id) |-> Piece(id, k)]
         /\ Len(FrameChunks(id, Messages[id])) = Count(id)
<1>1. Messages[id] \in Seq(Nat) /\ Len(Messages[id]) \in Nat /\ CHUNK_PAYLOAD_MAX \in Nat \ {0}
  BY TrafficAssumption, BudgetAssumption
<1>2. PICK l, q, b : l = Len(Messages[id]) /\ q = CeilDiv(l, b) /\ b = CHUNK_PAYLOAD_MAX
  OBVIOUS
<1>3. /\ q \in Nat /\ l <= q * b
      /\ l > 0 => q > 0 /\ (q - 1) * b < l
  BY <1>1, <1>2, CeilDivNat
<1>4. PICK n : n = Count(id)
  OBVIOUS
<1>5. n \in {q, 1} /\ n >= q /\ n >= 1
  BY <1>2, <1>3, <1>4, MaxOfTwo DEF Count
<1>6. n \in Nat \ {0} /\ l <= n * b /\ (n - 1) * b <= l
  <2>1. l \in Nat /\ b \in Nat \ {0}
    BY <1>1, <1>2
  <2>2. CASE n = q
    <3>1. CASE l > 0
      BY <1>3, <1>5, <2>1, <2>2, <3>1
    <3>2. CASE l = 0
      <4>1. q = 0 \/ q = 1
        BY <1>2, <2>1, <3>2 DEF CeilDiv
      <4> QED BY <1>3, <1>5, <2>1, <2>2, <3>2, <4>1
    <3> QED BY <2>1, <3>1, <3>2
  <2>3. CASE n = 1 /\ n # q
    BY <1>3, <1>5, <2>1, <2>3
  <2> QED BY <1>5, <2>2, <2>3
<1>7. FrameChunks(id, Messages[id]) = [k \in 1..Count(id) |-> Piece(id, k)]
  BY DEF FrameChunks, Count, Piece
<1>8. Len(FrameChunks(id, Messages[id])) = Count(id)
  BY <1>4, <1>6, <1>7
<1> QED BY <1>1, <1>2, <1>4, <1>6, <1>7, <1>8

LEMMA TrafficFacts ==
  ASSUME NEW c \in Traffic
  PROVE  /\ c.id \in Ids /\ c.index \in Nat /\ c.count \in Nat
         /\ c.payload \in Seq(Nat) /\ Len(c.payload) \in Nat /\ c.payload # Missing
         /\ \/ c \in StrayChunks
            \/ /\ c.id \in DOMAIN Messages /\ c.count = Count(c.id)
               /\ c.index + 1 \in 1..Count(c.id)
               /\ c.payload = Piece(c.id, c.index + 1).payload
<1>1. CASE c \in StrayChunks
  BY <1>1, TrafficAssumption DEF Ids
<1>2. CASE c \notin StrayChunks
  <2>1. PICK id \in DOMAIN Messages : c \in ToSet(FrameChunks(id, Messages[id]))
    BY <1>2 DEF Traffic
  <2>2. PICK k \in 1..Count(id) : c = Piece(id, k)
    BY <2>1, Framed DEF ToSet
  <2>3. Count(id) \in Nat \ {0} /\ Messages[id] \in Seq(Nat)
    BY Framed
  <2>4. PICK l : l = (k - 1) * CHUNK_PAYLOAD_MAX
    OBVIOUS
  <2>5. l \in Nat /\ CHUNK_PAYLOAD_MAX \in Nat /\ Len(Messages[id]) \in Nat
    BY <2>3, <2>4, BudgetAssumption
  <2>6. PICK e : e = Min({Len(Messages[id]), l + CHUNK_PAYLOAD_MAX})
    OBVIOUS
  <2>7. e \in Nat /\ e <= Len(Messages[id])
    BY <2>5, <2>6, MinOfTwo
  <2>8. SubSeq(Messages[id], l + 1, e) \in Seq(Nat)
    BY <2>3, <2>5, <2>7, SubSeqProperties
  <2>9. c.id = id /\ c.index = k - 1 /\ c.count = Count(id) /\ c.payload = SubSeq(Messages[id], l + 1, e)
    BY <2>2, <2>4, <2>6 DEF Piece
  <2>10. (k - 1) + 1 = k /\ k - 1 \in Nat
    BY <2>3
  <2>11. c.payload \in Seq(Nat) /\ Len(c.payload) \in Nat
    BY <2>8, <2>9, LenProperties
  <2>12. c.payload # Missing
    BY TrafficAssumption
  <2>13. c.payload = Piece(c.id, c.index + 1).payload
    BY <2>2, <2>9, <2>10
  <2> QED BY <2>3, <2>9, <2>10, <2>11, <2>12, <2>13 DEF Ids
<1> QED BY <1>1, <1>2

-----------------------------------------------------------------------------
(* The inductive invariant.  Sound is what every value of the struct has,  *)
(* also the one a push makes before it hands a whole message on; Open says *)
(* that no message in flight is whole, which holds between the actions.    *)

Payloads == {c.payload : c \in Traffic} \cup {Missing}
Places == UNION {[0..(n - 1) -> Payloads] : n \in 1..MESSAGE_MAX_CHUNKS}
Entries == [chunks : Places, received : Nat, bytes : Nat, age : Nat]
Present(e) == {i \in DOMAIN e.chunks : e.chunks[i] # Missing}
Sizes(e) == [i \in Present(e) |-> Len(e.chunks[i])]

Counted(e) ==
  /\ e.received = Cardinality(Present(e))
  /\ e.bytes = SumFunction(Sizes(e))

Typed(r) ==
  /\ r \in [partial : UNION {[ids -> Entries] : ids \in SUBSET Ids}, retained : Nat]
  /\ IsFiniteSet(DOMAIN r.partial)

Sound(r) ==
  /\ Typed(r)
  /\ \A id \in DOMAIN r.partial :
       /\ Counted(r.partial[id])
       /\ r.partial[id].bytes <= MESSAGE_MAX_BYTES
       /\ Present(r.partial[id]) # {}
  /\ r.retained = BytesOf(r.partial, DOMAIN r.partial)
  /\ Cardinality(DOMAIN r.partial) <= INCOMPLETE_MESSAGE_MAX
  /\ r.retained <= RETAINED_MESSAGE_MAX_BYTES

Open(r) == \A id \in DOMAIN r.partial : Present(r.partial[id]) # DOMAIN r.partial[id].chunks

IInv == Sound(reassembler) /\ Open(reassembler)

LEMMA BudgetFacts ==
  /\ MESSAGE_MAX_CHUNKS \in Nat \ {0} /\ RETAINED_MESSAGE_MAX_BYTES \in Nat
  /\ MESSAGE_MAX_BYTES \in Nat \ {0} /\ INCOMPLETE_MESSAGE_MAX \in Nat \ {0}
  /\ MESSAGE_EXPIRY \in Nat \ {0}
<1>1. /\ MESSAGE_MAX_BYTES \in Nat \ {0} /\ CHUNK_PAYLOAD_MAX \in Nat \ {0}
      /\ INCOMPLETE_MESSAGE_MAX \in Nat \ {0} /\ MESSAGE_EXPIRY \in Nat \ {0}
  BY BudgetAssumption
<1>2. MESSAGE_MAX_CHUNKS \in Nat \ {0}
  <2> PICK q : q = CeilDiv(MESSAGE_MAX_BYTES, CHUNK_PAYLOAD_MAX)
    OBVIOUS
  <2>1. q \in Nat /\ (MESSAGE_MAX_BYTES > 0 => q > 0)
    BY <1>1, CeilDivNat
  <2>2. MESSAGE_MAX_BYTES > 0
    BY <1>1
  <2> QED BY <2>1, <2>2 DEF MESSAGE_MAX_CHUNKS
<1>3. RETAINED_MESSAGE_MAX_BYTES \in Nat
  BY <1>1 DEF RETAINED_MESSAGE_MAX_BYTES
<1> QED BY <1>1, <1>2, <1>3

LEMMA TypedFacts ==
  ASSUME NEW r, Typed(r)
  PROVE  /\ r = [partial |-> r.partial, retained |-> r.retained]
         /\ r.retained \in Nat
         /\ r.partial \in [DOMAIN r.partial -> Entries]
         /\ DOMAIN r.partial \in SUBSET Ids /\ IsFiniteSet(DOMAIN r.partial)
         /\ Cardinality(DOMAIN r.partial) \in Nat
         /\ \A id \in DOMAIN r.partial : r.partial[id] \in Entries
<1>1. r \in [partial : UNION {[ids -> Entries] : ids \in SUBSET Ids}, retained : Nat]
  BY DEF Typed
<1>2. PICK ids \in SUBSET Ids : r.partial \in [ids -> Entries]
  BY <1>1
<1>3. IsFiniteSet(DOMAIN r.partial) /\ Cardinality(DOMAIN r.partial) \in Nat
  BY FS_CardinalityType DEF Typed
<1> QED BY <1>1, <1>2, <1>3

LEMMA EntryFacts ==
  ASSUME NEW e \in Entries
  PROVE  /\ e = [chunks |-> e.chunks, received |-> e.received, bytes |-> e.bytes, age |-> e.age]
         /\ e.received \in Nat /\ e.bytes \in Nat /\ e.age \in Nat /\ e.chunks \in Places
         /\ \E n \in 1..MESSAGE_MAX_CHUNKS :
              n \in Nat /\ e.chunks \in [0..(n - 1) -> Payloads] /\ DOMAIN e.chunks = 0..(n - 1)
         /\ IsFiniteSet(DOMAIN e.chunks) /\ IsFiniteSet(Present(e))
         /\ \A i \in Present(e) : Len(e.chunks[i]) \in Nat
<1>1. e.chunks \in Places
  BY DEF Entries
<1>2. PICK n \in 1..MESSAGE_MAX_CHUNKS : e.chunks \in [0..(n - 1) -> Payloads]
  BY <1>1 DEF Places
<1>3. DOMAIN e.chunks = 0..(n - 1) /\ n \in Nat
  BY <1>2, BudgetFacts
<1>4. IsFiniteSet(DOMAIN e.chunks)
  BY <1>3, FS_Interval
<1>5. IsFiniteSet(Present(e))
  BY <1>4, FS_Subset DEF Present
<1>6. \A i \in Present(e) : Len(e.chunks[i]) \in Nat
  <2> TAKE i \in Present(e)
  <2>1. e.chunks[i] \in Payloads /\ e.chunks[i] # Missing
    BY <1>2 DEF Present
  <2>2. PICK c \in Traffic : e.chunks[i] = c.payload
    BY <2>1 DEF Payloads
  <2> QED BY <2>2, TrafficFacts
<1>7. /\ e = [chunks |-> e.chunks, received |-> e.received, bytes |-> e.bytes, age |-> e.age]
      /\ e.received \in Nat /\ e.bytes \in Nat /\ e.age \in Nat
  BY DEF Entries
<1> QED BY <1>1, <1>2, <1>3, <1>4, <1>5, <1>6, <1>7

\* The bytes of some messages of r, as sums of numbers.
LEMMA BytesFacts ==
  ASSUME NEW r, Typed(r), NEW f, f = [id \in DOMAIN r.partial |-> r.partial[id].bytes]
  PROVE  /\ \A ids : BytesOf(r.partial, ids) = SumFunctionOnSet(f, ids)
         /\ \A id \in DOMAIN r.partial : f[id] \in Nat
         /\ \A ids \in SUBSET DOMAIN r.partial : BytesOf(r.partial, ids) \in Nat
<1>1. \A ids : BytesOf(r.partial, ids) = SumFunctionOnSet(f, ids)
  BY DEF BytesOf
<1>2. \A id \in DOMAIN r.partial : f[id] \in Nat
  BY TypedFacts, EntryFacts
<1>3. \A ids \in SUBSET DOMAIN r.partial : SumFunctionOnSet(f, ids) \in Nat
  <2> PICK S : S = DOMAIN r.partial
    OBVIOUS
  <2>1. IsFiniteSet(S) /\ \A id \in S : f[id] \in Nat
    BY <1>2, TypedFacts
  <2> QED BY <2>1, SumNat
<1> QED BY <1>1, <1>2, <1>3

\* Messages are let go with their bytes (expire_at, remove_message).
LEMMA LetGo ==
  ASSUME NEW r, Sound(r), NEW ids \in SUBSET DOMAIN r.partial, NEW s,
         s = [partial |-> Without(r.partial, ids),
              retained |-> r.retained - BytesOf(r.partial, ids)]
  PROVE  /\ Sound(s)
         /\ DOMAIN s.partial = DOMAIN r.partial \ ids
         /\ \A id \in DOMAIN s.partial : s.partial[id] = r.partial[id]
         /\ s.retained <= r.retained
<1>1. Typed(r)
  BY DEF Sound
<1>2. PICK S, T : S = DOMAIN r.partial /\ T = S \ ids
  OBVIOUS
<1>3. /\ s.partial = [id \in T |-> r.partial[id]] /\ DOMAIN s.partial = T
      /\ s.retained = r.retained - BytesOf(r.partial, ids)
  BY <1>2 DEF Without
<1>4. PICK f : f = [id \in S |-> r.partial[id].bytes]
  OBVIOUS
<1>5. PICK g : g = [id \in T |-> s.partial[id].bytes]
  OBVIOUS
<1>6. IsFiniteSet(S) /\ IsFiniteSet(T) /\ \A id \in S : f[id] \in Nat
  <2>1. IsFiniteSet(S)
    BY <1>1, <1>2, TypedFacts
  <2>2. \A id \in S : f[id] \in Nat
    BY <1>1, <1>2, <1>4, BytesFacts
  <2> QED BY <1>2, <2>1, <2>2, FS_Subset
<1>7. BytesOf(s.partial, T) = SumFunctionOnSet(g, T)
  BY <1>3, <1>5 DEF BytesOf
<1>8. SumFunctionOnSet(g, T) = SumFunctionOnSet(f, T)
  <2>1. \A id \in T : g[id] = f[id]
    BY <1>2, <1>3, <1>4, <1>5
  <2> QED BY <1>6, <2>1, SumSame
<1>9. SumFunctionOnSet(f, S) = SumFunctionOnSet(f, ids) + SumFunctionOnSet(f, T)
  BY <1>2, <1>6, SumSplit
<1>10. /\ SumFunctionOnSet(f, S) \in Nat /\ SumFunctionOnSet(f, ids) \in Nat
       /\ SumFunctionOnSet(f, T) \in Nat
  BY <1>2, <1>6, SumNat
<1>11. r.retained = SumFunctionOnSet(f, S) /\ BytesOf(r.partial, ids) = SumFunctionOnSet(f, ids)
  <2>1. r.retained = BytesOf(r.partial, S)
    BY <1>2 DEF Sound
  <2>2. \A i : BytesOf(r.partial, i) = SumFunctionOnSet(f, i)
    BY <1>1, <1>2, <1>4, BytesFacts
  <2> QED BY <2>1, <2>2
<1>12. /\ s.retained = SumFunctionOnSet(f, T)
       /\ s.retained = BytesOf(s.partial, T) /\ s.retained \in Nat /\ s.retained <= r.retained
  <2>1. s.retained = SumFunctionOnSet(f, S) - SumFunctionOnSet(f, ids)
    BY <1>3, <1>11
  <2>2. s.retained = SumFunctionOnSet(f, T)
    BY <1>9, <1>10, <2>1
  <2>3. s.retained <= r.retained
    BY <1>9, <1>10, <1>11, <2>2
  <2> QED BY <1>7, <1>8, <1>10, <2>2, <2>3
<1>13. Typed(s)
  <2>1. s.partial \in [T -> Entries] /\ T \in SUBSET Ids
    BY <1>1, <1>2, <1>3, TypedFacts
  <2>2. s = [partial |-> s.partial, retained |-> s.retained]
    OBVIOUS
  <2> QED BY <1>3, <1>6, <1>12, <2>1, <2>2 DEF Typed
<1>14. Cardinality(T) <= INCOMPLETE_MESSAGE_MAX
  <2>1. /\ Cardinality(S) \in Nat /\ Cardinality(T) \in Nat /\ Cardinality(T) <= Cardinality(S)
        /\ Cardinality(S) <= INCOMPLETE_MESSAGE_MAX
    BY <1>2, <1>6, FS_Subset, FS_CardinalityType DEF Sound
  <2> QED BY <2>1, BudgetFacts
<1>15. s.retained <= RETAINED_MESSAGE_MAX_BYTES
  <2>1. r.retained \in Nat /\ r.retained <= RETAINED_MESSAGE_MAX_BYTES
    BY <1>1, TypedFacts DEF Sound
  <2> QED BY <1>12, <2>1, BudgetFacts
<1>16. \A id \in DOMAIN s.partial : s.partial[id] = r.partial[id] /\ id \in DOMAIN r.partial
  BY <1>2, <1>3
<1> QED BY <1>2, <1>3, <1>12, <1>13, <1>14, <1>15, <1>16 DEF Sound

LEMMA ExpireSound ==
  ASSUME NEW r, Sound(r)
  PROVE  /\ Sound(ExpireAt(r)) /\ (Open(r) => Open(ExpireAt(r)))
         /\ DOMAIN ExpireAt(r).partial = DOMAIN r.partial \ Stale(r)
         /\ \A id \in DOMAIN ExpireAt(r).partial :
              ExpireAt(r).partial[id] = r.partial[id] /\ id \in DOMAIN r.partial
<1>1. Stale(r) \in SUBSET DOMAIN r.partial
  BY DEF Stale
<1>2. PICK s : s = ExpireAt(r)
  OBVIOUS
<1>3. s = [partial |-> Without(r.partial, Stale(r)),
           retained |-> r.retained - BytesOf(r.partial, Stale(r))]
  BY <1>2 DEF ExpireAt
<1>4. /\ Sound(s) /\ DOMAIN s.partial = DOMAIN r.partial \ Stale(r)
      /\ \A id \in DOMAIN s.partial : s.partial[id] = r.partial[id]
  BY <1>1, <1>3, LetGo
<1> QED BY <1>2, <1>4 DEF Open

LEMMA RemoveSound ==
  ASSUME NEW r, Sound(r), NEW id
  PROVE  /\ Sound(RemoveMessage(r, id))
         /\ DOMAIN RemoveMessage(r, id).partial = DOMAIN r.partial \ {id}
         /\ \A i \in DOMAIN RemoveMessage(r, id).partial :
              /\ RemoveMessage(r, id).partial[i] = r.partial[i]
              /\ i \in DOMAIN r.partial /\ i # id
<1>1. PICK ids, s : ids = {id} \cap DOMAIN r.partial /\ s = RemoveMessage(r, id)
  OBVIOUS
<1>2. s = [partial |-> Without(r.partial, ids), retained |-> r.retained - BytesOf(r.partial, ids)]
  BY <1>1 DEF RemoveMessage
<1>3. /\ Sound(s) /\ DOMAIN s.partial = DOMAIN r.partial \ ids
      /\ \A i \in DOMAIN s.partial : s.partial[i] = r.partial[i]
  BY <1>1, <1>2, LetGo
<1> QED BY <1>1, <1>3

\* An entry for the message of a chunk that is admitted, before it is stored.
LEMMA EntryTaken ==
  ASSUME NEW r, Sound(r), NEW c \in Traffic, ~ BadShape(c), ~ Mismatched(r, c), ~ Duplicate(r, c),
         NEW e, e = Entry(r, c)
  PROVE  /\ e \in Entries /\ Counted(e)
         /\ c.count \in 1..MESSAGE_MAX_CHUNKS /\ c.index \in 0..(c.count - 1)
         /\ e.chunks \in [0..(c.count - 1) -> Payloads]
         /\ c.index \notin Present(e)
         /\ (Known(r, c) => e = r.partial[c.id])
         /\ (~ Known(r, c) => e.bytes = 0 /\ Present(e) = {} /\ e.age = 0)
<1>1. c.count \in 1..MESSAGE_MAX_CHUNKS /\ c.index \in 0..(c.count - 1) /\ c.count \in Nat
  <2> PICK n, i, m : n = c.count /\ i = c.index /\ m = MESSAGE_MAX_CHUNKS
    OBVIOUS
  <2>1. n \in Nat /\ i \in Nat /\ m \in Nat
    BY TrafficFacts, BudgetFacts
  <2>2. ~ (n = 0 \/ n > m \/ i >= n)
    BY DEF BadShape
  <2>3. n \in 1..m /\ i \in 0..(n - 1)
    BY <2>1, <2>2
  <2> QED BY <2>1, <2>3
<1>2. CASE Known(r, c)
  <2>1. e = r.partial[c.id] /\ c.id \in DOMAIN r.partial
    BY <1>2 DEF Entry, Known
  <2>2. e \in Entries /\ Counted(e)
    BY <2>1, TypedFacts DEF Sound
  <2>3. DOMAIN e.chunks = 0..(c.count - 1)
    BY <1>2, <2>1 DEF Mismatched
  <2>4. e.chunks[c.index] = Missing
    BY <1>2, <2>1 DEF Duplicate
  <2>5. e.chunks \in [0..(c.count - 1) -> Payloads]
    BY <2>2, <2>3, EntryFacts
  <2> QED BY <1>1, <1>2, <2>1, <2>2, <2>4, <2>5 DEF Present
<1>3. CASE ~ Known(r, c)
  <2>1. e = [chunks |-> [i \in 0..(c.count - 1) |-> Missing], received |-> 0, bytes |-> 0, age |-> 0]
    BY <1>3 DEF Entry
  <2>2. e.chunks \in [0..(c.count - 1) -> Payloads]
    BY <2>1 DEF Payloads
  <2>3. e \in Entries
    BY <1>1, <2>1, <2>2 DEF Entries, Places
  <2>4. Present(e) = {}
    BY <2>1 DEF Present
  <2>5. Counted(e)
    <3>1. DOMAIN Sizes(e) = {}
      BY <2>4 DEF Sizes
    <3>2. SumFunctionOnSet(Sizes(e), {}) = 0
      BY FS_EmptySet, SumSteps
    <3>3. SumFunction(Sizes(e)) = 0
      BY <3>1, <3>2 DEF SumFunction
    <3>4. Cardinality(Present(e)) = 0
      BY <2>4, FS_EmptySet
    <3>5. e.received = 0 /\ e.bytes = 0
      BY <2>1
    <3> QED BY <3>3, <3>4, <3>5 DEF Counted
  <2>6. e.bytes = 0 /\ e.age = 0
    BY <2>1
  <2>7. c.index \notin Present(e)
    BY <2>4
  <2> HIDE DEF Counted
  <2> QED BY <1>1, <1>3, <2>2, <2>3, <2>4, <2>5, <2>6, <2>7
<1> QED BY <1>2, <1>3

\* m is the message e with the payload of c stored in it.
IsFilled(m, e, c) ==
  /\ m \in Entries /\ Counted(m) /\ m.age = e.age
  /\ m.bytes = e.bytes + Len(c.payload) /\ m.bytes <= MESSAGE_MAX_BYTES
  /\ m.chunks = [e.chunks EXCEPT ![c.index] = c.payload]
  /\ m.chunks \in [0..(c.count - 1) -> Payloads]
  /\ Present(m) = Present(e) \cup {c.index}
  /\ m.received = e.received + 1

LEMMA EntryFilled ==
  ASSUME NEW r, Sound(r), NEW c \in Traffic, Admissible(r, c)
  PROVE  IsFilled(Filled(r, c), Entry(r, c), c)
<1> PICK e, m : e = Entry(r, c) /\ m = Filled(r, c)
  OBVIOUS
<1>1. ~ BadShape(c) /\ ~ Mismatched(r, c) /\ ~ Duplicate(r, c) /\ ~ OverBudget(r, c)
  BY DEF Admissible
<1>2. /\ e \in Entries /\ Counted(e)
      /\ c.count \in 1..MESSAGE_MAX_CHUNKS /\ c.index \in 0..(c.count - 1)
      /\ e.chunks \in [0..(c.count - 1) -> Payloads]
      /\ c.index \notin Present(e)
      /\ (Known(r, c) => e = r.partial[c.id])
      /\ (~ Known(r, c) => e.bytes = 0)
  BY <1>1, EntryTaken
<1>3. PICK l : l = Len(c.payload)
  OBVIOUS
<1>4. l \in Nat /\ c.payload # Missing
  BY <1>3, TrafficFacts
<1>5. m = [chunks |-> [e.chunks EXCEPT ![c.index] = c.payload], received |-> e.received + 1,
           bytes |-> e.bytes + l, age |-> e.age]
  <2>1. m = [e EXCEPT !.chunks[c.index] = c.payload, !.received = @ + 1, !.bytes = @ + l]
    BY <1>3 DEF Filled
  <2>2. e = [chunks |-> e.chunks, received |-> e.received, bytes |-> e.bytes, age |-> e.age]
    BY <1>2, EntryFacts
  <2> QED BY <2>1, <2>2
<1>6. m.chunks \in [0..(c.count - 1) -> Payloads]
  <2>1. c.payload \in Payloads
    BY DEF Payloads
  <2> QED BY <1>2, <1>5, <2>1
<1>7. m \in Entries
  <2>1. e.received \in Nat /\ e.bytes \in Nat /\ e.age \in Nat
    BY <1>2, EntryFacts
  <2>2. m.chunks \in Places
    BY <1>2, <1>6 DEF Places
  <2>3. e.received + 1 \in Nat /\ e.bytes + l \in Nat
    BY <1>4, <2>1
  <2> QED BY <1>5, <2>1, <2>2, <2>3 DEF Entries
<1>8. Present(m) = Present(e) \cup {c.index}
  <2>1. DOMAIN m.chunks = 0..(c.count - 1) /\ DOMAIN e.chunks = 0..(c.count - 1)
    BY <1>2, <1>6
  <2>2. \A i \in 0..(c.count - 1) : m.chunks[i] = IF i = c.index THEN c.payload ELSE e.chunks[i]
    BY <1>2, <1>5
  <2> QED BY <1>2, <1>4, <2>1, <2>2 DEF Present
<1>9. PICK P, Q, f, g : P = Present(e) /\ Q = Present(m) /\ f = Sizes(e) /\ g = Sizes(m)
  OBVIOUS
<1>10. /\ IsFiniteSet(P) /\ IsFiniteSet(Q) /\ Q = P \cup {c.index} /\ c.index \notin P
       /\ \A i \in P : f[i] \in Nat
       /\ \A i \in Q : g[i] \in Nat
  <2>1. IsFiniteSet(P) /\ \A i \in P : f[i] \in Nat
    BY <1>2, <1>9, EntryFacts DEF Sizes
  <2>2. IsFiniteSet(Q) /\ \A i \in Q : g[i] \in Nat
    BY <1>7, <1>9, EntryFacts DEF Sizes
  <2> QED BY <1>2, <1>8, <1>9, <2>1, <2>2
<1>11. Counted(m)
  <2>1. Cardinality(Q) = Cardinality(P) + 1
    BY <1>10, FS_AddElement
  <2>2. SumFunctionOnSet(g, Q) = l + SumFunctionOnSet(f, P)
    <3>1. SumFunctionOnSet(g, Q) = g[c.index] + SumFunctionOnSet(g, Q \ {c.index})
      BY <1>10, SumRemove
    <3>2. Q \ {c.index} = P /\ g[c.index] = l
      <4>1. Q \ {c.index} = P /\ c.index \in Q
        BY <1>10
      <4>2. m.chunks[c.index] = c.payload
        BY <1>2, <1>5
      <4>3. g[c.index] = Len(m.chunks[c.index])
        BY <1>9, <4>1 DEF Sizes
      <4> QED BY <1>3, <4>1, <4>2, <4>3
    <3>3. \A i \in P : g[i] = f[i]
      <4> TAKE i \in P
      <4>1. i \in 0..(c.count - 1) /\ i # c.index /\ i \in Q
        BY <1>2, <1>9, <1>10 DEF Present
      <4>2. m.chunks[i] = e.chunks[i]
        BY <1>2, <1>5, <4>1
      <4> QED BY <1>9, <4>1, <4>2 DEF Sizes
    <3>4. SumFunctionOnSet(g, P) = SumFunctionOnSet(f, P)
      BY <1>10, <3>3, SumSame
    <3> QED BY <3>1, <3>2, <3>4
  <2>3. DOMAIN f = P /\ DOMAIN g = Q
    BY <1>9 DEF Sizes
  <2>4. e.received = Cardinality(P) /\ e.bytes = SumFunctionOnSet(f, P)
    BY <1>2, <1>9, <2>3 DEF Counted, SumFunction
  <2>5. e.bytes + l = l + e.bytes
    BY <1>2, <1>4, EntryFacts
  <2>6. m.received = Cardinality(Q) /\ m.bytes = SumFunctionOnSet(g, Q)
    BY <1>5, <2>1, <2>2, <2>4, <2>5
  <2> QED BY <1>9, <2>3, <2>6 DEF Counted, SumFunction
<1>12. m.bytes <= MESSAGE_MAX_BYTES
  <2>1. PICK held : held = IF Known(r, c) THEN r.partial[c.id].bytes ELSE 0
    OBVIOUS
  <2>2. ~ (held + l > MESSAGE_MAX_BYTES)
    BY <1>1, <1>3, <2>1 DEF OverBudget
  <2>3. held = e.bytes /\ held \in Nat
    BY <1>2, <2>1, EntryFacts
  <2> QED BY <1>4, <1>5, <2>2, <2>3, BudgetFacts
<1>13. m.age = e.age
  BY <1>5
<1>14. m.received = e.received + 1
  BY <1>5
<1>15. m.chunks = [e.chunks EXCEPT ![c.index] = c.payload]
  BY <1>5
<1> QED BY <1>3, <1>5, <1>6, <1>7, <1>8, <1>11, <1>12, <1>13, <1>14, <1>15 DEF IsFilled

\* A chunk that is admitted is stored and charged.
LEMMA StoreSound ==
  ASSUME NEW r, Sound(r), NEW c \in Traffic, Admissible(r, c), NEW s, s = Stored(r, c)
  PROVE  /\ Sound(s)
         /\ DOMAIN s.partial = DOMAIN r.partial \cup {c.id}
         /\ s.partial[c.id] = Filled(r, c)
         /\ \A id \in DOMAIN r.partial : id # c.id => s.partial[id] = r.partial[id]
<1>1. PICK e, m, l, S, T : /\ e = Entry(r, c) /\ m = Filled(r, c) /\ l = Len(c.payload)
                           /\ S = DOMAIN r.partial /\ T = S \cup {c.id}
  OBVIOUS
<1>2. /\ ~ BadShape(c) /\ ~ Mismatched(r, c) /\ ~ Duplicate(r, c)
      /\ ~ Crowded(r, c) /\ ~ OverBudget(r, c)
  BY DEF Admissible
<1>3. /\ e \in Entries /\ (Known(r, c) => e = r.partial[c.id])
      /\ (~ Known(r, c) => e.bytes = 0)
  BY <1>1, <1>2, EntryTaken
<1>4. /\ m \in Entries /\ Counted(m) /\ m.bytes = e.bytes + l
      /\ m.bytes <= MESSAGE_MAX_BYTES /\ Present(m) # {}
  <2>1. IsFilled(m, e, c)
    BY <1>1, EntryFilled
  <2> QED BY <1>1, <2>1 DEF IsFilled
<1>5. /\ s.partial = [id \in T |-> IF id = c.id THEN m ELSE r.partial[id]]
      /\ s.retained = r.retained + l
      /\ s = [partial |-> s.partial, retained |-> s.retained]
  BY <1>1 DEF Stored
<1>6. /\ Typed(r) /\ IsFiniteSet(S) /\ S \in SUBSET Ids /\ r.retained \in Nat
      /\ r.partial \in [S -> Entries] /\ Cardinality(S) \in Nat
  BY <1>1, TypedFacts DEF Sound
<1>7. l \in Nat /\ c.id \in Ids
  BY <1>1, TrafficFacts
<1>8. IsFiniteSet(T) /\ T \in SUBSET Ids
  BY <1>1, <1>6, <1>7, FS_AddElement
<1>9. /\ s.partial \in [T -> Entries] /\ DOMAIN s.partial = T
      /\ s.partial[c.id] = m
      /\ \A id \in S : id # c.id => s.partial[id] = r.partial[id]
  BY <1>1, <1>4, <1>5, <1>6
<1>10. s.retained \in Nat
  BY <1>5, <1>6, <1>7
<1>11. Typed(s)
  BY <1>5, <1>8, <1>9, <1>10 DEF Typed
<1>12. \A id \in DOMAIN s.partial :
         /\ Counted(s.partial[id])
         /\ s.partial[id].bytes <= MESSAGE_MAX_BYTES
         /\ Present(s.partial[id]) # {}
  <2> SUFFICES ASSUME NEW id \in T
               PROVE  /\ Counted(s.partial[id])
                      /\ s.partial[id].bytes <= MESSAGE_MAX_BYTES
                      /\ Present(s.partial[id]) # {}
    BY <1>9
  <2>1. CASE id = c.id
    BY <1>4, <1>9, <2>1
  <2>2. CASE id # c.id
    <3>1. id \in S /\ s.partial[id] = r.partial[id]
      BY <1>1, <1>9, <2>2
    <3>2. /\ Counted(r.partial[id]) /\ r.partial[id].bytes <= MESSAGE_MAX_BYTES
          /\ Present(r.partial[id]) # {}
      BY <1>1, <3>1 DEF Sound
    <3> QED BY <3>1, <3>2
  <2> QED BY <2>1, <2>2
<1>13. s.retained = BytesOf(s.partial, DOMAIN s.partial)
  <2>1. PICK f, g : /\ f = [id \in S |-> r.partial[id].bytes]
                    /\ g = [id \in T |-> s.partial[id].bytes]
    OBVIOUS
  <2>2. /\ r.retained = SumFunctionOnSet(f, S)
        /\ \A id \in S : f[id] \in Nat
    <3>1. r.retained = BytesOf(r.partial, S)
      BY <1>1 DEF Sound
    <3> QED BY <1>1, <1>6, <2>1, <3>1, BytesFacts
  <2>3. /\ BytesOf(s.partial, T) = SumFunctionOnSet(g, T)
        /\ \A id \in T : g[id] \in Nat
    BY <1>9, <1>11, <2>1, BytesFacts
  <2>4. PICK R : R = T \ {c.id}
    OBVIOUS
  <2>5. g[c.id] = e.bytes + l
    <3>1. c.id \in T
      BY <1>1
    <3> QED BY <1>4, <1>9, <2>1, <3>1
  <2>6. SumFunctionOnSet(g, T) = (e.bytes + l) + SumFunctionOnSet(g, R)
    <3>1. c.id \in T
      BY <1>1
    <3>2. SumFunctionOnSet(g, T) = g[c.id] + SumFunctionOnSet(g, T \ {c.id})
      BY <1>8, <2>3, <3>1, SumRemove
    <3> QED BY <2>4, <2>5, <3>2
  <2>7. SumFunctionOnSet(g, R) = SumFunctionOnSet(f, R)
    <3>1. IsFiniteSet(R)
      BY <1>8, <2>4, FS_Subset
    <3>2. \A id \in R : g[id] = f[id]
      BY <1>1, <1>9, <2>1, <2>4
    <3> QED BY <3>1, <3>2, SumSame
  <2>8. SumFunctionOnSet(f, S) = e.bytes + SumFunctionOnSet(f, R)
    <3>1. CASE Known(r, c)
      <4>1. c.id \in S /\ R = S \ {c.id}
        BY <1>1, <2>4, <3>1 DEF Known
      <4>2. f[c.id] = e.bytes
        BY <1>3, <2>1, <3>1, <4>1
      <4>3. SumFunctionOnSet(f, S) = f[c.id] + SumFunctionOnSet(f, S \ {c.id})
        BY <1>6, <2>2, <4>1, SumRemove
      <4> QED BY <4>1, <4>2, <4>3
    <3>2. CASE ~ Known(r, c)
      <4>1. R = S
        BY <1>1, <2>4, <3>2 DEF Known
      <4>2. e.bytes = 0 /\ SumFunctionOnSet(f, S) \in Nat
        BY <1>3, <1>6, <2>2, <3>2, SumNat
      <4> QED BY <4>1, <4>2
    <3> QED BY <3>1, <3>2
  <2>9. SumFunctionOnSet(f, R) \in Nat /\ e.bytes \in Nat
    <3>1. R \in SUBSET S
      BY <1>1, <2>4
    <3> QED BY <1>3, <1>6, <2>2, <3>1, SumNat, EntryFacts
  <2>10. PICK a, b : a = SumFunctionOnSet(f, R) /\ b = e.bytes
    OBVIOUS
  <2>11. (b + a) + l = (b + l) + a
    BY <1>7, <2>9, <2>10
  <2> QED BY <1>5, <1>9, <2>2, <2>3, <2>6, <2>7, <2>8, <2>10, <2>11
<1>14. Cardinality(T) <= INCOMPLETE_MESSAGE_MAX
  <2>1. CASE Known(r, c)
    <3>1. T = S
      BY <1>1, <2>1 DEF Known
    <3> QED BY <1>1, <3>1 DEF Sound
  <2>2. CASE ~ Known(r, c)
    <3>1. Cardinality(T) = Cardinality(S) + 1
      BY <1>1, <1>6, <2>2, FS_AddElement DEF Known
    <3>2. ~ (Cardinality(S) >= INCOMPLETE_MESSAGE_MAX)
      BY <1>1, <1>2, <2>2 DEF Crowded
    <3>3. INCOMPLETE_MESSAGE_MAX \in Nat
      BY BudgetFacts
    <3>4. PICK n : n = Cardinality(S)
      OBVIOUS
    <3>5. n + 1 <= INCOMPLETE_MESSAGE_MAX
      BY <1>6, <3>2, <3>3, <3>4
    <3> QED BY <3>1, <3>4, <3>5
  <2> QED BY <2>1, <2>2
<1>15. s.retained <= RETAINED_MESSAGE_MAX_BYTES
  <2>1. ~ (r.retained + l > RETAINED_MESSAGE_MAX_BYTES)
    BY <1>1, <1>2 DEF OverBudget
  <2>2. RETAINED_MESSAGE_MAX_BYTES \in Nat
    BY BudgetFacts
  <2> QED BY <1>5, <1>6, <1>7, <2>1, <2>2
<1>16. Sound(s)
  BY <1>9, <1>11, <1>12, <1>13, <1>14, <1>15 DEF Sound
<1> QED BY <1>1, <1>9, <1>16

\* Time passes: the ages of the messages change, what they hold does not.
Aged(r) ==
  [partial |-> [id \in DOMAIN r.partial |->
                  [r.partial[id] EXCEPT !.age = Min({@ + 1, MESSAGE_EXPIRY})]],
   retained |-> r.retained]

LEMMA AgeFacts ==
  ASSUME NEW a \in Nat
  PROVE  Min({a + 1, MESSAGE_EXPIRY}) = IF a + 1 <= MESSAGE_EXPIRY THEN a + 1 ELSE MESSAGE_EXPIRY
<1>1. a + 1 \in Nat /\ MESSAGE_EXPIRY \in Nat
  BY BudgetFacts
<1> QED BY <1>1, MinOfTwo

LEMMA AgedSound ==
  ASSUME NEW r, Sound(r), Open(r), NEW s, s = Aged(r)
  PROVE  /\ Sound(s) /\ Open(s)
         /\ DOMAIN s.partial = DOMAIN r.partial
         /\ \A id \in DOMAIN r.partial :
              /\ s.partial[id].chunks = r.partial[id].chunks
              /\ s.partial[id].age = Min({r.partial[id].age + 1, MESSAGE_EXPIRY})
<1>1. PICK S : S = DOMAIN r.partial
  OBVIOUS
<1>2. /\ r = [partial |-> r.partial, retained |-> r.retained] /\ r.retained \in Nat
      /\ S \in SUBSET Ids /\ IsFiniteSet(S) /\ \A id \in S : r.partial[id] \in Entries
  BY <1>1, TypedFacts DEF Sound
<1>3. /\ s.retained = r.retained /\ s = [partial |-> s.partial, retained |-> s.retained]
      /\ s.partial = [id \in S |->
           [r.partial[id] EXCEPT !.age = Min({@ + 1, MESSAGE_EXPIRY})]]
  BY <1>1, <1>2 DEF Aged
<1>4. ASSUME NEW id \in S
      PROVE  /\ s.partial[id] \in Entries
             /\ s.partial[id].chunks = r.partial[id].chunks
             /\ s.partial[id].received = r.partial[id].received
             /\ s.partial[id].bytes = r.partial[id].bytes
             /\ s.partial[id].age = Min({r.partial[id].age + 1, MESSAGE_EXPIRY})
  <2>1. PICK e, d : e = r.partial[id] /\ d = s.partial[id]
    OBVIOUS
  <2>2. /\ e \in Entries
        /\ e = [chunks |-> e.chunks, received |-> e.received, bytes |-> e.bytes, age |-> e.age]
        /\ e.received \in Nat /\ e.bytes \in Nat /\ e.age \in Nat /\ e.chunks \in Places
    <3>1. e \in Entries
      BY <1>2, <2>1
    <3> QED BY <3>1, EntryFacts
  <2>3. PICK a : a = Min({e.age + 1, MESSAGE_EXPIRY})
    OBVIOUS
  <2>4. a \in Nat
    BY <2>2, <2>3, AgeFacts, BudgetFacts
  <2>5. d = [chunks |-> e.chunks, received |-> e.received, bytes |-> e.bytes, age |-> a]
    BY <1>3, <2>1, <2>2, <2>3
  <2>6. d \in Entries
    BY <2>2, <2>4, <2>5 DEF Entries
  <2> QED BY <2>1, <2>3, <2>5, <2>6
<1>5. DOMAIN s.partial = S /\ s.partial \in [S -> Entries]
  BY <1>3, <1>4
<1>6. Typed(s)
  BY <1>2, <1>3, <1>5 DEF Typed
<1>7. \A id \in S : /\ Present(s.partial[id]) = Present(r.partial[id])
                    /\ Sizes(s.partial[id]) = Sizes(r.partial[id])
  BY <1>4 DEF Present, Sizes
<1>8. \A id \in S : /\ Counted(s.partial[id])
                    /\ s.partial[id].bytes <= MESSAGE_MAX_BYTES
                    /\ Present(s.partial[id]) # {}
                    /\ Present(s.partial[id]) # DOMAIN s.partial[id].chunks
  <2> TAKE id \in S
  <2>1. /\ Counted(r.partial[id]) /\ r.partial[id].bytes <= MESSAGE_MAX_BYTES
        /\ Present(r.partial[id]) # {} /\ Present(r.partial[id]) # DOMAIN r.partial[id].chunks
    BY <1>1 DEF Sound, Open
  <2>2. Counted(s.partial[id])
    BY <1>4, <1>7, <2>1 DEF Counted
  <2> QED BY <1>4, <1>7, <2>1, <2>2
<1>9. BytesOf(s.partial, S) = BytesOf(r.partial, S)
  <2>1. [id \in DOMAIN s.partial |-> s.partial[id].bytes]
          = [id \in DOMAIN r.partial |-> r.partial[id].bytes]
    BY <1>1, <1>4, <1>5
  <2> QED BY <2>1 DEF BytesOf
<1>10. /\ r.retained = BytesOf(r.partial, S) /\ Cardinality(S) <= INCOMPLETE_MESSAGE_MAX
       /\ r.retained <= RETAINED_MESSAGE_MAX_BYTES
  BY <1>1 DEF Sound
<1>11. Sound(s) /\ Open(s)
  BY <1>3, <1>5, <1>6, <1>8, <1>9, <1>10 DEF Sound, Open
<1> QED BY <1>1, <1>4, <1>5, <1>11

-----------------------------------------------------------------------------
(* The budgets.                                                            *)

LEMMA IntervalSize ==
  ASSUME NEW n \in Nat
  PROVE  IsFiniteSet(0..(n - 1)) /\ Cardinality(0..(n - 1)) = n
<1>1. IsFiniteSet(0..(n - 1)) /\ Cardinality(0..(n - 1)) = IF 0 > n - 1 THEN 0 ELSE (n - 1) - 0 + 1
  BY FS_Interval
<1> QED BY <1>1

LEMMA InitSound == ReassemblerInit => IInv
<1> SUFFICES ASSUME ReassemblerInit PROVE IInv
  OBVIOUS
<1>1. PICK r : r = reassembler
  OBVIOUS
<1>2. r = [partial |-> <<>>, retained |-> 0] /\ DOMAIN r.partial = {}
  BY <1>1 DEF ReassemblerInit
<1>3. Typed(r)
  <2>1. r.partial \in [{} -> Entries]
    BY <1>2
  <2> QED BY <1>2, <2>1, FS_EmptySet DEF Typed
<1>4. BytesOf(r.partial, {}) = 0
  BY FS_EmptySet, SumSteps DEF BytesOf
<1>5. Cardinality(DOMAIN r.partial) = 0 /\ r.retained = 0
  BY <1>2, FS_EmptySet
<1>6. Sound(r)
  BY <1>2, <1>3, <1>4, <1>5, BudgetFacts DEF Sound
<1>7. Open(r)
  BY <1>2 DEF Open
<1> QED BY <1>1, <1>6, <1>7 DEF IInv

\* A message is whole when as many of its chunks have come as it has.
LEMMA WholeWhenCounted ==
  ASSUME NEW m \in Entries, Counted(m), NEW n \in Nat, DOMAIN m.chunks = 0..(n - 1)
  PROVE  m.received = n <=> Present(m) = DOMAIN m.chunks
<1>1. PICK S, T : S = 0..(n - 1) /\ T = Present(m)
  OBVIOUS
<1>2. IsFiniteSet(S) /\ Cardinality(S) = n /\ T \in SUBSET S /\ m.received = Cardinality(T)
  BY <1>1, IntervalSize DEF Present, Counted
<1>3. Cardinality(T) = Cardinality(S) => T = S
  BY <1>2, FS_Subset
<1> QED BY <1>1, <1>2, <1>3

\* What push does to the struct once the chunk is admitted.
LEMMA StoreKeeps ==
  ASSUME NEW r, Sound(r), Open(r), NEW c \in Traffic, Admissible(r, c),
         NEW m, m = Filled(r, c)
  PROVE  /\ m.received = c.count <=> Present(m) = DOMAIN m.chunks
         /\ m.received # c.count => Sound(Stored(r, c)) /\ Open(Stored(r, c))
         /\ LET s == RemoveMessage(Stored(r, c), c.id)
            IN Sound(s) /\ Open(s)
<1>1. PICK s, t : s = Stored(r, c) /\ t = RemoveMessage(s, c.id)
  OBVIOUS
<1>2. /\ Sound(s) /\ DOMAIN s.partial = DOMAIN r.partial \cup {c.id}
      /\ s.partial[c.id] = m
      /\ \A id \in DOMAIN r.partial : id # c.id => s.partial[id] = r.partial[id]
  BY <1>1, StoreSound
<1>3. m.received = c.count <=> Present(m) = DOMAIN m.chunks
  <2>1. IsFilled(m, Entry(r, c), c)
    BY EntryFilled
  <2>2. m \in Entries /\ Counted(m) /\ m.chunks \in [0..(c.count - 1) -> Payloads]
    BY <2>1 DEF IsFilled
  <2>3. DOMAIN m.chunks = 0..(c.count - 1)
    BY <2>2
  <2>4. c.count \in Nat
    BY TrafficFacts
  <2> QED BY <2>2, <2>3, <2>4, WholeWhenCounted
<1>4. ASSUME m.received # c.count PROVE Open(s)
  BY <1>2, <1>3, <1>4 DEF Open
<1>5. Sound(t) /\ Open(t)
  <2>1. /\ Sound(t) /\ DOMAIN t.partial = DOMAIN s.partial \ {c.id}
        /\ \A i \in DOMAIN t.partial : t.partial[i] = s.partial[i] /\ i \in DOMAIN s.partial /\ i # c.id
    BY <1>1, <1>2, RemoveSound
  <2> QED BY <1>2, <2>1 DEF Open
<1> QED BY <1>1, <1>2, <1>3, <1>4, <1>5

\* A chunk that came before changes nothing, a refused one drops at most its message.
LEMMA RemoveKeeps ==
  ASSUME NEW r, Sound(r), Open(r), NEW id
  PROVE  Sound(RemoveMessage(r, id)) /\ Open(RemoveMessage(r, id))
<1>1. PICK s : s = RemoveMessage(r, id)
  OBVIOUS
<1>2. Sound(s) /\ \A i \in DOMAIN s.partial : s.partial[i] = r.partial[i] /\ i \in DOMAIN r.partial
  BY <1>1, RemoveSound
<1> QED BY <1>1, <1>2 DEF Open

LEMMA StepSound == IInv /\ [ReassemblerNext]_reassemblerVars => IInv'
<1> SUFFICES ASSUME IInv, [ReassemblerNext]_reassemblerVars PROVE IInv'
  OBVIOUS
<1>1. PICK o, n : o = reassembler /\ n = reassembler'
  OBVIOUS
<1>2. Sound(o) /\ Open(o)
  BY <1>1 DEF IInv
<1>3. PICK r : r = ExpireAt(o)
  OBVIOUS
<1>4. Sound(r) /\ Open(r)
  BY <1>2, <1>3, ExpireSound
<1>5. Sound(n) /\ Open(n)
  <2>1. CASE PushUnframed
    BY <1>1, <1>3, <1>4, <2>1 DEF PushUnframed
  <2>2. ASSUME NEW c \in Traffic, PushRefused(c) PROVE Sound(n) /\ Open(n)
    <3>1. n = r \/ n = RemoveMessage(r, c.id)
      BY <1>1, <1>3, <2>2 DEF PushRefused
    <3> QED BY <1>4, <3>1, RemoveKeeps
  <2>3. ASSUME NEW c \in Traffic, PushDuplicate(c) PROVE Sound(n) /\ Open(n)
    BY <1>1, <1>3, <1>4, <2>3 DEF PushDuplicate
  <2>4. ASSUME NEW c \in Traffic, PushStored(c) PROVE Sound(n) /\ Open(n)
    <3>1. PICK m : m = Filled(r, c)
      OBVIOUS
    <3>2. /\ Admissible(r, c)
          /\ n = IF m.received = c.count THEN RemoveMessage(Stored(r, c), c.id) ELSE Stored(r, c)
      BY <1>1, <1>3, <2>4, <3>1 DEF PushStored
    <3> QED BY <1>4, <3>1, <3>2, StoreKeeps
  <2>5. CASE Maintain
    BY <1>1, <1>3, <1>4, <2>5 DEF Maintain
  <2>6. CASE Tick
    <3>1. n = Aged(o)
      BY <1>1, <2>6 DEF Tick, Aged, Partials
    <3> QED BY <1>2, <3>1, AgedSound
  <2>7. CASE UNCHANGED reassemblerVars
    BY <1>1, <1>2, <2>7 DEF reassemblerVars
  <2> QED BY <2>1, <2>2, <2>3, <2>4, <2>5, <2>6, <2>7 DEF ReassemblerNext, Push
<1> QED BY <1>1, <1>5 DEF IInv

LEMMA BudgetsFollow == IInv => BudgetsHold
<1> SUFFICES ASSUME IInv PROVE BudgetsHold
  OBVIOUS
<1>1. PICK r : r = reassembler
  OBVIOUS
<1>2. Sound(r) /\ Open(r) /\ Typed(r)
  BY <1>1 DEF IInv, Sound
<1>3. \A id \in DOMAIN Partials :
        LET chunks == Partials[id].chunks
            present == {i \in DOMAIN chunks : chunks[i] # Missing}
        IN /\ Partials[id].received = Cardinality(present)
           /\ Partials[id].bytes = SumFunction([i \in present |-> Len(chunks[i])])
           /\ present # {} /\ present # DOMAIN chunks
  <2> TAKE id \in DOMAIN Partials
  <2>1. PICK e : e = Partials[id]
    OBVIOUS
  <2>2. Counted(e) /\ Present(e) # {} /\ Present(e) # DOMAIN e.chunks
    BY <1>1, <1>2, <2>1 DEF Sound, Open, Partials
  <2> QED BY <2>1, <2>2 DEF Counted, Present, Sizes
<1>4. Accounted
  <2>1. reassembler.retained = BytesOf(Partials, DOMAIN Partials)
    BY <1>1, <1>2 DEF Sound, Partials
  <2> QED BY <1>3, <2>1, Zenon DEF Accounted
<1>5. \A id \in DOMAIN r.partial :
        /\ r.partial[id].bytes <= MESSAGE_MAX_BYTES
        /\ \E count \in 1..MESSAGE_MAX_CHUNKS : DOMAIN r.partial[id].chunks = 0..(count - 1)
  <2> TAKE id \in DOMAIN r.partial
  <2>1. r.partial[id] \in Entries
    BY <1>2, TypedFacts
  <2>2. \E count \in 1..MESSAGE_MAX_CHUNKS : DOMAIN r.partial[id].chunks = 0..(count - 1)
    BY <2>1, EntryFacts
  <2>3. r.partial[id].bytes <= MESSAGE_MAX_BYTES
    BY <1>2 DEF Sound
  <2> QED BY <2>2, <2>3
<1>6. WithinBudget
  BY <1>1, <1>2, <1>5 DEF WithinBudget, Partials, Sound
<1> QED BY <1>4, <1>6 DEF BudgetsHold

\* What a peer makes the server hold is counted right and within the budgets,
\* for every budget, every set of framed messages and every stray chunk.
THEOREM BudgetsAreKept == ReassemblerSpec => []BudgetsHold
<1>1. ReassemblerSpec => []IInv
  BY InitSound, StepSound, PTL DEF ReassemblerSpec
<1> QED BY <1>1, BudgetsFollow, PTL

-----------------------------------------------------------------------------
(* Putting the pieces together again.                                      *)

\* g[i] is the first i of n sequences put together.
Joins(g, seqs, n) ==
  \A i \in 1..n : g[i] = IF i = 1 THEN seqs[i] ELSE g[i - 1] \o seqs[i]

\* What FlattenSeq makes of n sequences, from the values of its recursion.
LEMMA Flattened ==
  ASSUME NEW n \in Nat \ {0}, NEW seqs, Len(seqs) = n, NEW g, Joins(g, seqs, n)
  PROVE  FlattenSeq(seqs) = g[n]
<1>0. PICK h : h = [i \in 1..n |-> g[i]]
  OBVIOUS
<1>a. h = [i \in 1..n |-> IF i = 1 THEN seqs[i] ELSE h[i - 1] \o seqs[i]]
  <2>1. \A i \in 1..n : i # 1 => i - 1 \in 1..n
    OBVIOUS
  <2>2. \A i \in 1..n : h[i] = IF i = 1 THEN seqs[i] ELSE h[i - 1] \o seqs[i]
    BY <1>0, <2>1 DEF Joins
  <2> QED BY <1>0, <2>2
<1>1. PICK f : f = (CHOOSE x : x = [i \in 1..n |-> IF i = 1 THEN seqs[i] ELSE x[i - 1] \o seqs[i]])
  OBVIOUS
<1>2. f = [i \in 1..n |-> IF i = 1 THEN seqs[i] ELSE f[i - 1] \o seqs[i]]
  BY <1>a, <1>1
<1>3. FlattenSeq(seqs) = f[n]
  BY <1>1 DEF FlattenSeq
<1> DEFINE G == {i \in Nat : i + 1 \in 1..n => f[i + 1] = g[i + 1]}
<1>4. 0 \in G
  <2>1. f[1] = seqs[1] /\ g[1] = seqs[1]
    BY <1>2 DEF Joins
  <2> QED BY <2>1
<1>5. \A i \in Nat : i \in G => i + 1 \in G
  <2> TAKE i \in Nat
  <2> HAVE i \in G
  <2>1. ASSUME (i + 1) + 1 \in 1..n PROVE f[(i + 1) + 1] = g[(i + 1) + 1]
    <3>1. PICK k : k = (i + 1) + 1
      OBVIOUS
    <3>2. k \in 1..n /\ k # 1 /\ k - 1 = i + 1 /\ i + 1 \in 1..n
      BY <2>1, <3>1
    <3>3. f[k - 1] = g[k - 1]
      BY <3>2
    <3>4. f[k] = f[k - 1] \o seqs[k] /\ g[k] = g[k - 1] \o seqs[k]
      BY <1>2, <3>2 DEF Joins
    <3> QED BY <3>1, <3>3, <3>4
  <2>2. i + 1 \in Nat
    OBVIOUS
  <2> QED BY <2>1, <2>2
<1>6. n - 1 \in G
  <2>1. Nat \subseteq G
    <3> HIDE DEF G
    <3> QED BY <1>4, <1>5, NatInductionSet
  <2> HIDE DEF G
  <2> QED BY <2>1
<1>7. f[n] = g[n]
  <2>1. (n - 1) + 1 = n /\ n \in 1..n
    OBVIOUS
  <2> QED BY <1>6, <2>1
<1> QED BY <1>3, <1>7

LEMMA Product == ASSUME NEW a \in Nat, NEW b \in Nat, NEW p \in Nat, a <= b
                 PROVE  a * p <= b * p /\ a * p \in Nat /\ (a + 1) * p = a * p + p
OBVIOUS

\* The pieces of a framed message, in order, are the message.
LEMMA PiecesMakeTheMessage ==
  ASSUME NEW id \in DOMAIN Messages,
         NEW seqs, seqs = [k \in 1..Count(id) |-> Piece(id, k).payload]
  PROVE  FlattenSeq(seqs) = Messages[id]
<1>1. PICK p, n, b, len : /\ p = Messages[id] /\ n = Count(id) /\ b = CHUNK_PAYLOAD_MAX
                          /\ len = Len(Messages[id])
  OBVIOUS
<1>2. /\ p \in Seq(Nat) /\ len \in Nat /\ len = Len(p) /\ n \in Nat \ {0} /\ b \in Nat \ {0}
      /\ len <= n * b /\ (n - 1) * b <= len
  BY <1>1, Framed, BudgetAssumption
<1>3. PICK end : end = [k \in 0..n |-> IF len <= k * b THEN len ELSE k * b]
  OBVIOUS
<1>4. PICK g : g = [k \in 1..n |-> SubSeq(p, 1, end[k])]
  OBVIOUS
<1>5. end[0] = 0 /\ end[n] = len
  <2>1. 0 * b = 0
    BY <1>2
  <2> QED BY <1>2, <1>3, <2>1
<1>6. ASSUME NEW k \in 1..n
      PROVE  /\ end[k - 1] = (k - 1) * b /\ end[k - 1] \in 0..len
             /\ end[k] \in end[k - 1]..len
             /\ seqs[k] = SubSeq(p, end[k - 1] + 1, end[k])
  <2>1. PICK j : j = k - 1
    OBVIOUS
  <2>2. j \in Nat /\ j <= n - 1 /\ n - 1 \in Nat /\ k = j + 1 /\ j \in 0..n /\ k \in 0..n
    BY <1>2, <2>1
  <2>3. PICK q, d : q = j * b /\ d = (n - 1) * b
    OBVIOUS
  <2>4. q <= d /\ q \in Nat /\ k * b = q + b
    BY <1>2, <2>2, <2>3, Product
  <2>5. q <= len
    <3>1. d \in Nat /\ d <= len
      BY <1>2, <2>2, <2>3, Product
    <3> QED BY <1>2, <2>4, <3>1
  <2>6. end[j] = q
    <3>1. end[j] = IF len <= q THEN len ELSE q
      BY <1>3, <2>2, <2>3
    <3> QED BY <1>2, <2>4, <2>5, <3>1
  <2>7. end[k] = IF len <= q + b THEN len ELSE q + b
    BY <1>3, <2>2, <2>4
  <2>8. end[k] \in q..len
    BY <1>2, <2>4, <2>5, <2>7
  <2>9. end[k] = Min({len, q + b})
    BY <1>2, <2>4, <2>7, MinOfTwo
  <2>10. seqs[k] = SubSeq(p, q + 1, Min({len, q + b}))
    BY <1>1, <2>1, <2>3 DEF Piece
  <2>11. end[j] \in 0..len
    BY <1>2, <2>4, <2>5, <2>6
  <2>12. end[j] = j * b /\ end[k] \in end[j]..len /\ seqs[k] = SubSeq(p, end[j] + 1, end[k])
    BY <2>3, <2>6, <2>8, <2>9, <2>10, Zenon
  <2> QED BY <2>1, <2>11, <2>12, Zenon
<1>7. \A k \in 1..n : g[k] = IF k = 1 THEN seqs[k] ELSE g[k - 1] \o seqs[k]
  <2> TAKE k \in 1..n
  <2>1. PICK a, e : a = end[k - 1] /\ e = end[k]
    OBVIOUS
  <2>2. a \in 0..len /\ e \in a..len /\ seqs[k] = SubSeq(p, a + 1, e) /\ g[k] = SubSeq(p, 1, e)
    BY <1>4, <1>6, <2>1
  <2>3. CASE k = 1
    <3>1. k - 1 = 0
      BY <2>3
    <3>2. a = 0
      BY <1>5, <2>1, <3>1
    <3>3. a + 1 = 1
      BY <3>2
    <3>4. seqs[k] = g[k]
      BY <2>2, <3>3
    <3> QED BY <2>3, <3>4
  <2>4. CASE k # 1
    <3>1. k - 1 \in 1..n
      BY <1>2, <2>4
    <3>2. g[k - 1] = SubSeq(p, 1, a)
      BY <1>4, <2>1, <3>1
    <3>3. 1 \in 1..Len(p) + 1 /\ a \in (1 - 1)..Len(p) /\ e \in a..Len(p)
      BY <1>2, <2>2
    <3>4. SubSeq(p, 1, a) \o SubSeq(p, a + 1, e) = SubSeq(p, 1, e)
      BY <1>2, <3>3, ConcatAdjacentSubSeq
    <3> QED BY <2>2, <2>4, <3>2, <3>4
  <2> QED BY <2>3, <2>4
<1>8. Joins(g, seqs, n)
  BY <1>7, Zenon DEF Joins
<1>9. Len(seqs) = n
  BY <1>1, <1>2
<1>10. FlattenSeq(seqs) = g[n]
  BY <1>2, <1>8, <1>9, Flattened, Zenon
<1>11. g[n] = SubSeq(p, 1, len)
  BY <1>2, <1>4, <1>5
<1>12. SubSeq(p, 1, len) = p
  BY <1>2, SubSeqFull
<1> QED BY <1>1, <1>10, <1>11, <1>12

-----------------------------------------------------------------------------
(* Whole messages.  What is held came in chunks that name its message and  *)
(* its place, and since[id] is the age of the message in flight.           *)

Fits(c, id, i, e) ==
  /\ ~ BadShape(c) /\ c.id = id /\ c.index = i
  /\ c.payload = e.chunks[i] /\ DOMAIN e.chunks = 0..(c.count - 1)

Placed(id, e) == \A i \in Present(e) : \E c \in Traffic : Fits(c, id, i, e)

Held(r, ages) ==
  \A id \in DOMAIN r.partial : Placed(id, r.partial[id]) /\ ages[id] = r.partial[id].age

DInv == since \in [Ids -> Nat] /\ Held(reassembler, since) /\ DeliveredIntact

LEMMA SameInterval ==
  ASSUME NEW a \in Nat, NEW b \in Nat, 0..(a - 1) = 0..(b - 1)
  PROVE  a = b
BY IntervalSize

\* A framed message of which every place is taken is the message, in order.
LEMMA WholeIsTheMessage ==
  ASSUME NEW m \in Entries, NEW id \in DOMAIN Messages, Placed(id, m),
         Present(m) = DOMAIN m.chunks
  PROVE  Concatenated(m) = Messages[id]
<1>1. PICK n \in 1..MESSAGE_MAX_CHUNKS : n \in Nat /\ DOMAIN m.chunks = 0..(n - 1)
  BY EntryFacts
<1>2. PICK strays : strays = {c \in StrayChunks : c.id = id /\ ~ BadShape(c)}
  OBVIOUS
<1>3. /\ \A c \in strays : c.count # Count(id)
      /\ \A k \in {c.count : c \in strays} :
           \E i \in 0..(k - 1) : \A c \in strays : c.count = k => c.index # i
  <2>1. Len(FrameChunks(id, Messages[id])) = Count(id)
    BY Framed
  <2>2. LET str == {c \in StrayChunks : c.id = id /\ ~ BadShape(c)}
        IN /\ \A c \in str : c.count # Len(FrameChunks(id, Messages[id]))
           /\ \A k \in {c.count : c \in str} :
                \E i \in 0..(k - 1) : \A c \in str : c.count = k => c.index # i
    BY StrayAssumption
  <2> QED BY <1>2, <2>1, <2>2
<1>4. ASSUME NEW i \in 0..(n - 1)
      PROVE  \E c \in Traffic :
               /\ c.count = n /\ c.index = i /\ c.payload = m.chunks[i] /\ c.id = id
               /\ \/ c \in strays
                  \/ n = Count(id) /\ c.payload = Piece(id, i + 1).payload
  <2>1. PICK c \in Traffic : Fits(c, id, i, m)
    BY <1>1 DEF Placed
  <2>2. /\ ~ BadShape(c) /\ c.id = id /\ c.index = i
        /\ c.payload = m.chunks[i] /\ 0..(n - 1) = 0..(c.count - 1)
    BY <1>1, <2>1 DEF Fits
  <2>3. c.count = n
    BY <1>1, <2>2, TrafficFacts, SameInterval
  <2>4. \/ c \in StrayChunks
        \/ c.count = Count(c.id) /\ c.payload = Piece(c.id, c.index + 1).payload
    BY TrafficFacts
  <2> QED BY <1>2, <2>2, <2>3, <2>4
<1>5. n = Count(id)
  <2> SUFFICES ASSUME n # Count(id) PROVE FALSE
    OBVIOUS
  <2>1. \A i \in 0..(n - 1) : \E c \in strays : c.count = n /\ c.index = i
    BY <1>4
  <2>2. 0 \in 0..(n - 1)
    BY <1>1
  <2>3. n \in {c.count : c \in strays}
    BY <2>1, <2>2
  <2>4. PICK i \in 0..(n - 1) : \A c \in strays : c.count = n => c.index # i
    BY <1>3, <2>3
  <2> QED BY <2>1, <2>4
<1>6. \A i \in 0..(n - 1) : m.chunks[i] = Piece(id, i + 1).payload
  <2> TAKE i \in 0..(n - 1)
  <2>1. PICK c \in Traffic :
          /\ c.count = n /\ c.payload = m.chunks[i]
          /\ c \in strays \/ c.payload = Piece(id, i + 1).payload
    BY <1>4
  <2> QED BY <1>3, <1>5, <2>1
<1>7. PICK seqs : seqs = [k \in 1..n |-> m.chunks[k - 1]]
  OBVIOUS
<1>8. seqs = [k \in 1..Count(id) |-> Piece(id, k).payload]
  <2>1. \A k \in 1..n : k - 1 \in 0..(n - 1) /\ (k - 1) + 1 = k
    BY <1>1
  <2>2. \A k \in 1..n : m.chunks[k - 1] = Piece(id, k).payload
    <3> TAKE k \in 1..n
    <3>1. PICK i : i = k - 1
      OBVIOUS
    <3>2. i \in 0..(n - 1) /\ i + 1 = k
      BY <2>1, <3>1
    <3>3. m.chunks[i] = Piece(id, i + 1).payload
      BY <1>6, <3>2
    <3> QED BY <3>1, <3>2, <3>3, Zenon
  <2> QED BY <1>5, <1>7, <2>2
<1>9. Cardinality(DOMAIN m.chunks) = n
  BY <1>1, IntervalSize
<1>10. Concatenated(m) = FlattenSeq(seqs)
  BY <1>7, <1>9 DEF Concatenated
<1> QED BY <1>8, <1>10, PiecesMakeTheMessage

\* A stored chunk takes its place, and begins the life of a message that it begins.
LEMMA FilledIsPlaced ==
  ASSUME NEW r, Sound(r), NEW ages, Held(r, ages), NEW c \in Traffic, Admissible(r, c),
         NEW m, m = Filled(r, c)
  PROVE  /\ Placed(c.id, m)
         /\ m.age = IF Known(r, c) THEN ages[c.id] ELSE 0
<1>1. PICK e : e = Entry(r, c)
  OBVIOUS
<1>2. ~ BadShape(c) /\ ~ Mismatched(r, c) /\ ~ Duplicate(r, c)
  BY DEF Admissible
<1>3. /\ e.chunks \in [0..(c.count - 1) -> Payloads] /\ c.index \in 0..(c.count - 1)
      /\ (Known(r, c) => e = r.partial[c.id])
      /\ (~ Known(r, c) => Present(e) = {} /\ e.age = 0)
  BY <1>1, <1>2, EntryTaken
<1>4. IsFilled(m, e, c)
  BY <1>1, EntryFilled
<1>5. /\ m.age = e.age /\ m.chunks = [e.chunks EXCEPT ![c.index] = c.payload]
      /\ Present(m) = Present(e) \cup {c.index}
  BY <1>4 DEF IsFilled
<1>6. DOMAIN m.chunks = 0..(c.count - 1) /\ DOMAIN e.chunks = 0..(c.count - 1)
  BY <1>3, <1>5
<1>7. Placed(c.id, e)
  <2>1. CASE Known(r, c)
    BY <1>3, <2>1 DEF Held, Known
  <2>2. CASE ~ Known(r, c)
    BY <1>3, <2>2 DEF Placed
  <2> QED BY <2>1, <2>2
<1>8. Placed(c.id, m)
  <2> SUFFICES ASSUME NEW i \in Present(m)
               PROVE  \E d \in Traffic : Fits(d, c.id, i, m)
    BY DEF Placed
  <2>1. CASE i = c.index
    <3>1. c.payload = m.chunks[i]
      BY <1>3, <1>5, <2>1
    <3>2. Fits(c, c.id, i, m)
      BY <1>2, <1>6, <2>1, <3>1 DEF Fits
    <3> QED BY <3>2
  <2>2. CASE i # c.index
    <3>1. i \in Present(e)
      BY <1>5, <2>2
    <3>2. PICK d \in Traffic : Fits(d, c.id, i, e)
      BY <1>7, <3>1 DEF Placed
    <3>3. m.chunks[i] = e.chunks[i]
      BY <1>3, <1>5, <1>6, <2>2, <3>1 DEF Present
    <3>4. Fits(d, c.id, i, m)
      BY <1>6, <3>2, <3>3 DEF Fits
    <3> QED BY <3>4
  <2> QED BY <2>1, <2>2
<1>9. m.age = IF Known(r, c) THEN ages[c.id] ELSE 0
  <2>1. CASE Known(r, c)
    BY <1>3, <1>5, <2>1 DEF Held, Known
  <2>2. CASE ~ Known(r, c)
    BY <1>3, <1>5, <2>2
  <2> QED BY <2>1, <2>2
<1> QED BY <1>8, <1>9

LEMMA InitHeld == ReassemblerInit => DInv
<1> SUFFICES ASSUME ReassemblerInit PROVE DInv
  OBVIOUS
<1>1. since \in [Ids -> Nat] /\ reassembler.partial = <<>> /\ out.is = "none"
  BY DEF ReassemblerInit, Nothing
<1>2. Held(reassembler, since)
  BY <1>1 DEF Held
<1>3. DeliveredIntact
  BY <1>1 DEF DeliveredIntact
<1> QED BY <1>1, <1>2, <1>3 DEF DInv

\* Letting messages go leaves the others as they are.
LEMMA FewerHeld ==
  ASSUME NEW r, NEW ages, Held(r, ages), NEW s,
         \A id \in DOMAIN s.partial : s.partial[id] = r.partial[id] /\ id \in DOMAIN r.partial
  PROVE  Held(s, ages)
BY DEF Held

\* The four kinds of answer a step leaves.
LEMMA QuietIsIntact == out'.is # "message" => DeliveredIntact'
BY DEF DeliveredIntact

LEMMA StepHeld == IInv /\ DInv /\ [ReassemblerNext]_reassemblerVars => DInv'
<1> SUFFICES ASSUME IInv, DInv, [ReassemblerNext]_reassemblerVars PROVE DInv'
  OBVIOUS
<1>1. PICK o, n, b, a : o = reassembler /\ n = reassembler' /\ b = since /\ a = since'
  OBVIOUS
<1>2. Sound(o) /\ Open(o) /\ Typed(o) /\ Held(o, b) /\ b \in [Ids -> Nat]
  BY <1>1 DEF IInv, DInv, Sound
<1>3. PICK r : r = ExpireAt(o)
  OBVIOUS
<1>4. /\ Sound(r) /\ Open(r) /\ Typed(r)
      /\ DOMAIN r.partial = DOMAIN o.partial \ Stale(o)
      /\ \A id \in DOMAIN r.partial : r.partial[id] = o.partial[id] /\ id \in DOMAIN o.partial
  BY <1>2, <1>3, ExpireSound DEF Sound
<1>5. Held(r, b)
  BY <1>2, <1>4, FewerHeld
<1>6. \A id \in DOMAIN r.partial : b[id] \in Nat /\ b[id] < MESSAGE_EXPIRY
  <2> TAKE id \in DOMAIN r.partial
  <2>1. PICK x : x = o.partial[id].age
    OBVIOUS
  <2>2. id \in DOMAIN o.partial /\ id \notin Stale(o)
    BY <1>4
  <2>3. ~ (x >= MESSAGE_EXPIRY) /\ b[id] = x
    BY <1>2, <2>1, <2>2 DEF Stale, Held
  <2>4. x \in Nat
    BY <1>2, <2>1, <2>2, TypedFacts, EntryFacts
  <2> QED BY <2>3, <2>4, BudgetFacts
<1>7. (a \in [Ids -> Nat] /\ Held(n, a) /\ DeliveredIntact') => DInv'
  BY <1>1 DEF DInv
<1>8. CASE PushUnframed
  <2>1. n = r /\ a = b /\ out'.is = "err"
    BY <1>1, <1>3, <1>8 DEF PushUnframed, Err
  <2> QED BY <1>2, <1>5, <1>7, <2>1, QuietIsIntact
<1>9. ASSUME NEW c \in Traffic, PushRefused(c) PROVE DInv'
  <2>1. (n = r \/ n = RemoveMessage(r, c.id)) /\ a = b /\ out'.is = "err"
    BY <1>1, <1>3, <1>9 DEF PushRefused, Err
  <2>2. Held(n, b)
    <3>1. PICK s : s = RemoveMessage(r, c.id)
      OBVIOUS
    <3>2. \A id \in DOMAIN s.partial : s.partial[id] = r.partial[id] /\ id \in DOMAIN r.partial
      BY <1>4, <3>1, RemoveSound
    <3>3. Held(s, b)
      BY <1>5, <3>2, FewerHeld
    <3> QED BY <1>5, <2>1, <3>1, <3>3
  <2> QED BY <1>2, <1>7, <2>1, <2>2, QuietIsIntact
<1>10. ASSUME NEW c \in Traffic, PushDuplicate(c) PROVE DInv'
  <2>1. n = r /\ a = b /\ out'.is = "none"
    BY <1>1, <1>3, <1>10 DEF PushDuplicate, Nothing
  <2> QED BY <1>2, <1>5, <1>7, <2>1, QuietIsIntact
<1>11. ASSUME NEW c \in Traffic, PushStored(c) PROVE DInv'
  <2>1. PICK m, begun, s : /\ m = Filled(r, c) /\ s = Stored(r, c)
                           /\ begun = IF Known(r, c) THEN b[c.id] ELSE 0
    OBVIOUS
  <2>2. /\ Admissible(r, c) /\ a = [b EXCEPT ![c.id] = begun]
        /\ IF m.received = c.count
           THEN /\ n = RemoveMessage(s, c.id)
                /\ out' = [is |-> "message", id |-> c.id, since |-> begun,
                           payload |-> Concatenated(m)]
           ELSE n = s /\ out' = Nothing
    BY <1>1, <1>3, <1>11, <2>1 DEF PushStored
  <2>3. begun \in Nat /\ begun < MESSAGE_EXPIRY /\ c.id \in Ids
    <3>1. CASE Known(r, c)
      BY <1>6, <2>1, <3>1, TrafficFacts DEF Known
    <3>2. CASE ~ Known(r, c)
      BY <2>1, <3>2, TrafficFacts, BudgetFacts
    <3> QED BY <3>1, <3>2
  <2>4. a \in [Ids -> Nat] /\ a[c.id] = begun /\ \A id \in Ids : id # c.id => a[id] = b[id]
    BY <1>2, <2>2, <2>3
  <2>5. Placed(c.id, m) /\ m.age = begun
    BY <1>4, <1>5, <2>1, <2>2, FilledIsPlaced
  <2>6. /\ DOMAIN s.partial = DOMAIN r.partial \cup {c.id}
        /\ s.partial[c.id] = m /\ Sound(s)
        /\ \A id \in DOMAIN r.partial : id # c.id => s.partial[id] = r.partial[id]
    BY <1>4, <2>1, <2>2, StoreSound
  <2>7. Held(s, a)
    <3> SUFFICES ASSUME NEW id \in DOMAIN s.partial
                 PROVE  Placed(id, s.partial[id]) /\ a[id] = s.partial[id].age
      BY DEF Held
    <3>1. CASE id = c.id
      BY <2>4, <2>5, <2>6, <3>1
    <3>2. CASE id # c.id
      <4>1. id \in DOMAIN r.partial /\ s.partial[id] = r.partial[id] /\ id \in Ids
        BY <1>4, <2>6, <3>2, TypedFacts
      <4> QED BY <1>5, <2>4, <3>2, <4>1 DEF Held
    <3> QED BY <3>1, <3>2
  <2>8. CASE m.received # c.count
    <3>1. n = s /\ out'.is # "message"
      BY <2>2, <2>8 DEF Nothing
    <3> QED BY <1>7, <2>4, <2>7, <3>1, QuietIsIntact
  <2>9. CASE m.received = c.count
    <3>1. /\ n = RemoveMessage(s, c.id)
          /\ out'.is = "message" /\ out'.id = c.id /\ out'.since = begun
          /\ out'.payload = Concatenated(m)
      BY <2>2, <2>9
    <3>2. Held(n, a)
      <4>1. \A id \in DOMAIN n.partial : n.partial[id] = s.partial[id] /\ id \in DOMAIN s.partial
        BY <2>6, <3>1, RemoveSound
      <4> QED BY <2>7, <4>1, FewerHeld
    <3>3. ASSUME c.id \in DOMAIN Messages PROVE Concatenated(m) = Messages[c.id]
      <4>1. m.received = c.count <=> Present(m) = DOMAIN m.chunks
        BY <1>4, <2>1, <2>2, StoreKeeps
      <4>2. m \in Entries
        BY <1>4, <2>1, <2>2, EntryFilled DEF IsFilled
      <4> QED BY <2>5, <2>9, <3>3, <4>1, <4>2, WholeIsTheMessage
    <3>4. DeliveredIntact'
      BY <2>3, <3>1, <3>3 DEF DeliveredIntact
    <3> QED BY <1>7, <2>4, <3>2, <3>4
  <2> QED BY <2>8, <2>9
<1>12. CASE Maintain
  <2>1. n = r /\ a = b /\ out' = out
    BY <1>1, <1>3, <1>12 DEF Maintain
  <2>2. DeliveredIntact'
    BY <2>1 DEF DInv, DeliveredIntact
  <2> QED BY <1>2, <1>5, <1>7, <2>1, <2>2
<1>13. CASE Tick
  <2>1. n = Aged(o) /\ out'.is = "none"
    BY <1>1, <1>13 DEF Tick, Aged, Partials, Nothing
  <2>2. a = [id \in Ids |-> IF id \in DOMAIN o.partial
                            THEN Min({b[id] + 1, MESSAGE_EXPIRY}) ELSE 0]
    BY <1>1, <1>13 DEF Tick, Partials
  <2>3. \A id \in Ids : Min({b[id] + 1, MESSAGE_EXPIRY}) \in Nat
    <3> TAKE id \in Ids
    <3>1. b[id] \in Nat
      BY <1>2
    <3> QED BY <3>1, AgeFacts, BudgetFacts
  <2>4. a \in [Ids -> Nat]
    BY <2>2, <2>3
  <2>5. /\ DOMAIN n.partial = DOMAIN o.partial
        /\ \A id \in DOMAIN o.partial :
             /\ n.partial[id].chunks = o.partial[id].chunks
             /\ n.partial[id].age = Min({o.partial[id].age + 1, MESSAGE_EXPIRY})
    BY <1>2, <2>1, AgedSound
  <2>6. Held(n, a)
    <3> SUFFICES ASSUME NEW id \in DOMAIN o.partial
                 PROVE  Placed(id, n.partial[id]) /\ a[id] = n.partial[id].age
      BY <2>5 DEF Held
    <3>1. n.partial[id].chunks = o.partial[id].chunks
      BY <2>5
    <3>2. Placed(id, o.partial[id]) /\ b[id] = o.partial[id].age
      BY <1>2 DEF Held
    <3>3. Placed(id, n.partial[id])
      BY <3>1, <3>2 DEF Placed, Present, Fits
    <3>4. id \in Ids
      BY <1>2, TypedFacts
    <3>5. a[id] = Min({b[id] + 1, MESSAGE_EXPIRY})
      BY <2>2, <3>4
    <3>6. n.partial[id].age = Min({b[id] + 1, MESSAGE_EXPIRY})
      BY <2>5, <3>2
    <3> QED BY <3>3, <3>5, <3>6
  <2> QED BY <1>7, <2>1, <2>4, <2>6, QuietIsIntact
<1>14. CASE UNCHANGED reassemblerVars
  <2>1. n = o /\ a = b /\ out' = out
    BY <1>1, <1>14 DEF reassemblerVars
  <2>2. DeliveredIntact'
    BY <2>1 DEF DInv, DeliveredIntact
  <2> QED BY <1>2, <1>7, <2>1, <2>2
<1> QED BY <1>8, <1>9, <1>10, <1>11, <1>12, <1>13, <1>14 DEF ReassemblerNext, Push

\* A framed message that is handed on is the message that was framed, whole and
\* in order, and was begun within the expiry: for every order, loss and
\* repetition of the chunks and whatever is sent between them.
THEOREM MessagesAreIntact == ReassemblerSpec => []DeliveredIntact
<1>1. ReassemblerInit => IInv /\ DInv
  BY InitSound, InitHeld
<1>2. IInv /\ DInv /\ [ReassemblerNext]_reassemblerVars => (IInv /\ DInv)'
  BY StepSound, StepHeld
<1>3. IInv /\ DInv => DeliveredIntact
  BY DEF DInv
<1> QED BY <1>1, <1>2, <1>3, PTL DEF ReassemblerSpec

-----------------------------------------------------------------------------
(* The sessions: what the drain gates and the latched stop flag are for.   *)

InsideEncode == {"inside", "joining"}
InsideMedia == {"inside", "publishing", "writing"}
HasEncodeGate == {"mediaGate", "publisher", "unregister"}
HasBothGates == {"publisher", "unregister"}
PeerIsClosed == {"encodeGate"} \cup HasEncodeGate
Removing == {"closing"} \cup PeerIsClosed

\* A handler's place says which of its tasks exist.
HandlerPlaces ==
  /\ \A s \in Sessions : pump[s] # "none" => offer[s] = "done"
  /\ \A s \in Sessions : closer[s] => offer[s] = "done"
  /\ \A s \in registry : Registered(s)

\* Who is past a gate holds it; a job is joined inside the gate.
GatesHeld ==
  /\ \A s \in Sessions : pump[s] \in InsideEncode => encodeDrain[s] = s
  /\ \A s \in Sessions : job[s] # "none" => pump[s] = "joining"
  /\ \A s \in Sessions : media[s] \in InsideMedia => mediaDrain[s] = Media
  /\ \A c \in Callers : call[c] \in HasEncodeGate => encodeDrain[target[c]] = c
  /\ \A c \in Callers : call[c] \in HasBothGates => mediaDrain[target[c]] = c

\* What a call of remove_session has done so far.
Calls ==
  /\ \A s \in Sessions : target[s] = s
  /\ \A s \in Sessions : call[s] \in {"lookup"} \cup Removing => pump[s] = "removing"
  /\ \A c \in Callers : call[c] \in Removing => stopped[target[c]] /\ Registered(target[c])
  /\ \A c \in Callers : call[c] \in PeerIsClosed => peer[target[c]] = "closed"

\* publish_frame makes an encoder for a publisher that is still open.
OpenWhilePublishing ==
  \A s \in Sessions : media[s] \in {"publishing", "writing"} => ~ closed[s]

Inv ==
  /\ Types /\ HandlerPlaces /\ GatesHeld /\ Calls /\ OpenWhilePublishing
  /\ NoWorkAfterRemoval /\ EveryPeerOwned /\ ClosedHasNoEncoder

LEMMA InitInv == Init => Inv
  <1> USE ActorsAssumption DEF Inv, Types, HandlerPlaces, GatesHeld, Calls, OpenWhilePublishing,
        NoWorkAfterRemoval, EveryPeerOwned, ClosedHasNoEncoder, Registered, Removed, Callers, Over,
        InsideEncode, InsideMedia, HasEncodeGate, HasBothGates, PeerIsClosed, Removing
  <1> QED BY DEF Init

\* handle_offer_with_webrtc, and the task its guard's drop spawned.
LEMMA HandlerStep ==
  ASSUME Inv, NEW s \in Sessions, Admit(s) \/ Negotiation(s) \/ DropRequest(s) \/ CloserDone(s)
  PROVE  Inv'
  <1> USE ActorsAssumption DEF Inv, Types, HandlerPlaces, GatesHeld, Calls, OpenWhilePublishing,
        NoWorkAfterRemoval, EveryPeerOwned, ClosedHasNoEncoder, Registered, Removed, Callers, Over,
        InsideEncode, InsideMedia, HasEncodeGate, HasBothGates, PeerIsClosed, Removing,
        offerVars, peerVars, tableVars, pumpVars, mediaVars, drains, callVars
  <1>1. CASE Admit(s)
    BY <1>1 DEF Admit, To
  <1>2. CASE BuildFailed(s)
    BY <1>2 DEF BuildFailed, To
  <1>3. CASE Build(s)
    BY <1>3 DEF Build, To
  <1>4. CASE Reject(s)
    BY <1>4 DEF Reject, To, Stop
  <1>5. CASE Rejected(s)
    BY <1>5 DEF Rejected, To
  <1>6. CASE DropRequest(s)
    BY <1>6 DEF DropRequest, To
  <1>7. CASE CloserDone(s)
    BY <1>7 DEF CloserDone
  <1>8. CASE Accept(s)
    BY <1>8 DEF Accept, To
  <1>9. CASE Register(s)
    BY <1>9 DEF Register, To
  <1>10. CASE InsertPublisher(s)
    BY <1>10 DEF InsertPublisher, To
  <1>11. CASE SpawnMedia(s)
    BY <1>11 DEF SpawnMedia, To
  <1>12. CASE SpawnPump(s)
    BY <1>12 DEF SpawnPump, To
  <1>13. QED BY <1>1, <1>2, <1>3, <1>4, <1>5, <1>6, <1>7, <1>8, <1>9, <1>10, <1>11, <1>12 DEF Negotiation

\* SessionEventHandler.
LEMMA EventStep ==
  ASSUME Inv, NEW s \in Sessions, Event(s)
  PROVE  Inv'
  <1> USE ActorsAssumption DEF Inv, Types, HandlerPlaces, GatesHeld, Calls, OpenWhilePublishing,
        NoWorkAfterRemoval, EveryPeerOwned, ClosedHasNoEncoder, Registered, Removed, Callers, Over,
        InsideEncode, InsideMedia, HasEncodeGate, HasBothGates, PeerIsClosed, Removing,
        offerVars, peerVars, tableVars, pumpVars, mediaVars, drains, callVars
  <1>1. CASE ConnectionLost(s)
    BY <1>1 DEF ConnectionLost, Stop
  <1>2. CASE DataChannelSeen(s)
    BY <1>2 DEF DataChannelSeen
  <1>3. CASE DataChannelSent(s)
    BY <1>3 DEF DataChannelSent
  <1>4. CASE DataChannelRefused(s)
    BY <1>4 DEF DataChannelRefused, Stop
  <1>5. QED BY <1>1, <1>2, <1>3, <1>4 DEF Event

\* run_frame_pump and its encode job.
LEMMA PumpStep ==
  ASSUME Inv, NEW s \in Sessions, Pump(s) \/ Job(s)
  PROVE  Inv'
  <1> USE ActorsAssumption DEF Inv, Types, HandlerPlaces, GatesHeld, Calls, OpenWhilePublishing,
        NoWorkAfterRemoval, EveryPeerOwned, ClosedHasNoEncoder, Registered, Removed, Callers, Over,
        InsideEncode, InsideMedia, HasEncodeGate, HasBothGates, PeerIsClosed, Removing,
        offerVars, peerVars, tableVars, pumpVars, mediaVars, drains, callVars
  <1>1. CASE PumpGivesUp(s)
    BY <1>1 DEF PumpGivesUp, PumpTo
  <1>2. CASE PumpStarts(s)
    BY <1>2 DEF PumpStarts, PumpTo
  <1>3. CASE PumpLeaves(s)
    BY <1>3 DEF PumpLeaves, PumpTo
  <1>4. CASE PumpRequest(s)
    BY <1>4 DEF PumpRequest, PumpTo
  <1>5. CASE PumpGate(s)
    BY <1>5 DEF PumpGate, PumpTo
  <1>6. CASE PumpStopped(s)
    BY <1>6 DEF PumpStopped, PumpTo, OpenEncode
  <1>7. CASE PumpSpawns(s)
    BY <1>7 DEF PumpSpawns, PumpTo
  <1>8. CASE PumpJoins(s)
    BY <1>8 DEF PumpJoins, PumpTo, OpenEncode
  <1>9. CASE PumpRemoves(s)
    BY <1>9 DEF PumpRemoves, PumpTo, Stop
  <1>10. CASE JobStart(s)
    BY <1>10 DEF JobStart
  <1>11. CASE JobEnd(s)
    BY <1>11 DEF JobEnd
  <1>12. QED BY <1>1, <1>2, <1>3, <1>4, <1>5, <1>6, <1>7, <1>8, <1>9, <1>10, <1>11 DEF Pump, Job

\* run_media_pump.
LEMMA MediaStep ==
  ASSUME Inv, NEW s \in Sessions, MediaPump(s)
  PROVE  Inv'
  <1> USE ActorsAssumption DEF Inv, Types, HandlerPlaces, GatesHeld, Calls, OpenWhilePublishing,
        NoWorkAfterRemoval, EveryPeerOwned, ClosedHasNoEncoder, Registered, Removed, Callers, Over,
        InsideEncode, InsideMedia, HasEncodeGate, HasBothGates, PeerIsClosed, Removing,
        offerVars, peerVars, tableVars, pumpVars, mediaVars, drains, callVars
  <1>1. CASE MediaCancelled(s)
    BY <1>1 DEF MediaCancelled, MediaTo
  <1>2. CASE MediaTick(s)
    BY <1>2 DEF MediaTick, MediaTo
  <1>3. CASE MediaGate(s)
    BY <1>3 DEF MediaGate, MediaTo
  <1>4. CASE MediaStopped(s)
    BY <1>4 DEF MediaStopped, MediaTo, OpenMedia
  <1>5. CASE MediaNothingNew(s)
    BY <1>5 DEF MediaNothingNew, MediaTo, OpenMedia
  <1>6. CASE MediaPublishes(s)
    BY <1>6 DEF MediaPublishes, MediaTo
  <1>7. CASE MediaEncodes(s)
    BY <1>7 DEF MediaEncodes, MediaTo
  <1>8. CASE MediaWritten(s)
    BY <1>8 DEF MediaWritten, MediaTo, OpenMedia
  <1>9. CASE MediaFails(s)
    BY <1>9 DEF MediaFails, MediaTo, OpenMedia, Stop
  <1>10. CASE MediaExits(s)
    BY <1>10 DEF MediaExits, MediaTo, Close
  <1>11. CASE MediaUnlists(s)
    BY <1>11 DEF MediaUnlists, MediaTo
  <1>12. QED BY <1>1, <1>2, <1>3, <1>4, <1>5, <1>6, <1>7, <1>8, <1>9, <1>10, <1>11 DEF MediaPump

\* remove_session, called by a frame pump or by the owner.
LEMMA RemoveCall ==
  ASSUME Inv, NEW c \in Callers, RemoveStep(c) \/ CallDropped(c)
  PROVE  Inv'
  <1> USE ActorsAssumption DEF Inv, Types, HandlerPlaces, GatesHeld, Calls, OpenWhilePublishing,
        NoWorkAfterRemoval, EveryPeerOwned, ClosedHasNoEncoder, Registered, Removed, Callers, Over,
        InsideEncode, InsideMedia, HasEncodeGate, HasBothGates, PeerIsClosed, Removing,
        offerVars, peerVars, tableVars, pumpVars, mediaVars, drains, callVars
  <1>1. CASE NotFound(c)
    BY <1>1 DEF NotFound, Return, CallTo
  <1>2. CASE Found(c)
    BY <1>2 DEF Found, CallTo, Stop
  <1>3. CASE PeerClosed(c)
    BY <1>3 DEF PeerClosed, CallTo
  <1>4. CASE DrainEncode(c)
    BY <1>4 DEF DrainEncode, CallTo
  <1>5. CASE DrainMedia(c)
    BY <1>5 DEF DrainMedia, CallTo
  <1>6. CASE ClosePublisher(c)
    <2>1. media[target[c]] \notin InsideMedia
      BY <1>6 DEF ClosePublisher
    <2>2. CASE target[c] \in publishers
      <3>1. /\ closed' = [closed EXCEPT ![target[c]] = TRUE]
            /\ encoder' = [encoder EXCEPT ![target[c]] = FALSE]
        BY <1>6, <2>2 DEF ClosePublisher, Close
      <3>2. Types'
        BY <1>6, <3>1 DEF ClosePublisher, CallTo
      <3>3. HandlerPlaces' /\ GatesHeld' /\ Calls' /\ NoWorkAfterRemoval' /\ EveryPeerOwned'
        BY <1>6 DEF ClosePublisher, CallTo
      <3>4. OpenWhilePublishing' /\ ClosedHasNoEncoder'
        BY <1>6, <2>1, <3>1 DEF ClosePublisher
      <3>5. QED BY <3>2, <3>3, <3>4
    <2>3. CASE target[c] \notin publishers
      BY <1>6, <2>3 DEF ClosePublisher, CallTo
    <2>4. QED BY <2>2, <2>3
  <1>7. CASE Unregister(c)
    BY <1>7 DEF Unregister, CallTo, Return, OpenBoth
  <1>8. CASE CallDropped(c)
    BY <1>8 DEF CallDropped, CallTo, OpenBoth
  <1>9. QED BY <1>1, <1>2, <1>3, <1>4, <1>5, <1>6, <1>7, <1>8 DEF RemoveStep

LEMMA NextInv == Inv /\ [Next]_vars => Inv'
  <1> SUFFICES ASSUME Inv, [Next]_vars PROVE Inv'
    OBVIOUS
  <1>1. CASE UNCHANGED vars
    BY <1>1 DEF vars, Inv, Types, HandlerPlaces, GatesHeld, Calls, OpenWhilePublishing, NoWorkAfterRemoval,
      EveryPeerOwned, ClosedHasNoEncoder, Registered, Removed,
      offerVars, peerVars, tableVars, pumpVars, mediaVars, drains, callVars
  <1>2. CASE \E s \in Sessions : Admit(s) \/ Negotiation(s) \/ DropRequest(s) \/ CloserDone(s)
    BY <1>2, HandlerStep
  <1>3. CASE \E s \in Sessions : Event(s)
    BY <1>3, EventStep
  <1>4. CASE \E s \in Sessions : Pump(s) \/ Job(s)
    BY <1>4, PumpStep
  <1>5. CASE \E s \in Sessions : MediaPump(s)
    BY <1>5, MediaStep
  <1>6. CASE \E c \in Callers : RemoveStep(c) \/ CallDropped(c)
    BY <1>6, RemoveCall
  <1>7. ASSUME NEW c \in Removers, NEW s \in Sessions, CallRemove(c, s) PROVE Inv'
    BY <1>7, ActorsAssumption DEF CallRemove, CallTo, Inv, Types, HandlerPlaces, GatesHeld, Calls, OpenWhilePublishing,
      NoWorkAfterRemoval, EveryPeerOwned, ClosedHasNoEncoder, Registered, Removed, Callers, Over,
      InsideEncode, InsideMedia, HasEncodeGate, HasBothGates, PeerIsClosed, Removing,
      offerVars, peerVars, tableVars, pumpVars, mediaVars, drains, callVars
  <1>8. QED BY <1>1, <1>2, <1>3, <1>4, <1>5, <1>6, <1>7 DEF Next

THEOREM Invariance == Spec => []Inv
  BY InitInv, NextInv, PTL DEF Spec

\* Every task of every session is at one of its steps, and the gates and tables
\* name sessions and callers, for any number of them.
THEOREM TypeCorrect == Spec => []TypeOK
  <1>1. Inv => TypeOK
    BY DEF Inv, TypeOK
  <1>2. QED BY <1>1, Invariance, PTL

\* The drain gates do what the comment in remove_session says, for any number of peers and
\* of owners removing them at once: no job of a removed session is left to replace the cache.
\* And the media gate makes publish_frame's unguarded test of `closed` enough: a closed
\* publisher never gets an encoder again.
THEOREM RemovalDrains == Spec => []RemovalIsFinal
  <1>1. Inv => RemovalIsFinal
    BY DEF Inv, RemovalIsFinal
  <1>2. QED BY <1>1, Invariance, PTL

\* However an offer ends, and at whatever await its request is dropped, a peer that is not
\* closed has a task or a guard that will close it.
THEOREM PeersAreOwned == Spec => []EveryPeerOwned
  <1>1. Inv => EveryPeerOwned
    BY DEF Inv
  <1>2. QED BY <1>1, Invariance, PTL
-----------------------------------------------------------------------------
(* Permits, and what is left behind.                                       *)

\* Only its own pump or its removal holds a session's encode gate, only its media pump
\* or its removal the media gate.
GatesOwned ==
  /\ \A s \in Sessions : encodeDrain[s] # NoOne =>
       \/ encodeDrain[s] = s /\ pump[s] \in InsideEncode
       \/ call[encodeDrain[s]] \in HasEncodeGate /\ target[encodeDrain[s]] = s
  /\ \A s \in Sessions : mediaDrain[s] # NoOne =>
       \/ mediaDrain[s] = Media /\ media[s] \in InsideMedia
       \/ /\ mediaDrain[s] \in Callers
          /\ call[mediaDrain[s]] \in HasBothGates /\ target[mediaDrain[s]] = s

\* What each task cleans up before it is over, and who else may have done it.
Cleanup ==
  /\ \A s \in Sessions : pump[s] = "done" => s \notin registry
  /\ \A s \in publishers : media[s] \notin Over \/ offer[s] = "mediaSpawning"
  /\ \A s \in Sessions : media[s] # "none" => offer[s] \in {"spawning", "done"}
  /\ \A s \in Sessions : guard[s] => offer[s] \notin Over \cup {"building"}
  /\ \A s \in Sessions : encoder[s] => media[s] \notin Over \cup {"unlisting"}

Left == GatesOwned /\ Cleanup

\* A session's permit is taken when its offer is admitted, and never again.
NoNewHolder == \A t \in Sessions : HoldsSlot(t)' => HoldsSlot(t)

LEMMA InitLeft == Init => Left
  <1> USE ActorsAssumption DEF Left, GatesOwned, Cleanup, Over
  <1> QED BY DEF Init

LEMMA HandlerLeft ==
  ASSUME Inv, Left, NEW s \in Sessions, Negotiation(s) \/ DropRequest(s) \/ CloserDone(s)
  PROVE  Left' /\ NoNewHolder
  <1> USE ActorsAssumption
      DEF Inv, Types, HandlerPlaces, GatesHeld, Calls, Left, GatesOwned, Cleanup, NoNewHolder, HoldsSlot, Calling,
        Callers, Over, InsideEncode, InsideMedia, HasEncodeGate, HasBothGates, PeerIsClosed, Removing,
        Registered, offerVars, peerVars, tableVars, pumpVars, mediaVars, drains, callVars
  <1>2. CASE BuildFailed(s)
    BY <1>2 DEF BuildFailed, To
  <1>3. CASE Build(s)
    BY <1>3 DEF Build, To
  <1>4. CASE Reject(s)
    BY <1>4 DEF Reject, To, Stop
  <1>5. CASE Rejected(s)
    BY <1>5 DEF Rejected, To
  <1>6. CASE DropRequest(s)
    BY <1>6 DEF DropRequest, To
  <1>7. CASE CloserDone(s)
    BY <1>7 DEF CloserDone
  <1>8. CASE Accept(s)
    BY <1>8 DEF Accept, To
  <1>9. CASE Register(s)
    BY <1>9 DEF Register, To
  <1>10. CASE InsertPublisher(s)
    BY <1>10 DEF InsertPublisher, To
  <1>11. CASE SpawnMedia(s)
    BY <1>11 DEF SpawnMedia, To
  <1>12. CASE SpawnPump(s)
    BY <1>12 DEF SpawnPump, To
  <1>13. QED BY <1>2, <1>3, <1>4, <1>5, <1>6, <1>7, <1>8, <1>9, <1>10, <1>11, <1>12 DEF Negotiation

LEMMA EventLeft ==
  ASSUME Inv, Left, NEW s \in Sessions, Event(s)
  PROVE  Left' /\ NoNewHolder
  <1> USE ActorsAssumption
      DEF Inv, Types, HandlerPlaces, GatesHeld, Calls, Left, GatesOwned, Cleanup, NoNewHolder, HoldsSlot, Calling,
        Callers, Over, InsideEncode, InsideMedia, HasEncodeGate, HasBothGates, PeerIsClosed, Removing,
        Registered, offerVars, peerVars, tableVars, pumpVars, mediaVars, drains, callVars
  <1>1. CASE ConnectionLost(s)
    BY <1>1 DEF ConnectionLost, Stop
  <1>2. CASE DataChannelSeen(s)
    BY <1>2 DEF DataChannelSeen
  <1>3. CASE DataChannelSent(s)
    BY <1>3 DEF DataChannelSent
  <1>4. CASE DataChannelRefused(s)
    BY <1>4 DEF DataChannelRefused, Stop
  <1>5. QED BY <1>1, <1>2, <1>3, <1>4 DEF Event

LEMMA PumpLeft ==
  ASSUME Inv, Left, NEW s \in Sessions, Pump(s) \/ Job(s)
  PROVE  Left' /\ NoNewHolder
  <1> USE ActorsAssumption
      DEF Inv, Types, HandlerPlaces, GatesHeld, Calls, Left, GatesOwned, Cleanup, NoNewHolder, HoldsSlot, Calling,
        Callers, Over, InsideEncode, InsideMedia, HasEncodeGate, HasBothGates, PeerIsClosed, Removing,
        Registered, offerVars, peerVars, tableVars, pumpVars, mediaVars, drains, callVars
  <1>1. CASE PumpGivesUp(s)
    BY <1>1 DEF PumpGivesUp, PumpTo
  <1>2. CASE PumpStarts(s)
    BY <1>2 DEF PumpStarts, PumpTo
  <1>3. CASE PumpLeaves(s)
    BY <1>3 DEF PumpLeaves, PumpTo
  <1>4. CASE PumpRequest(s)
    BY <1>4 DEF PumpRequest, PumpTo
  <1>5. CASE PumpGate(s)
    BY <1>5 DEF PumpGate, PumpTo
  <1>6. CASE PumpStopped(s)
    BY <1>6 DEF PumpStopped, PumpTo, OpenEncode
  <1>7. CASE PumpSpawns(s)
    BY <1>7 DEF PumpSpawns, PumpTo
  <1>8. CASE PumpJoins(s)
    BY <1>8 DEF PumpJoins, PumpTo, OpenEncode
  <1>9. CASE PumpRemoves(s)
    BY <1>9 DEF PumpRemoves, PumpTo, Stop
  <1>10. CASE JobStart(s)
    BY <1>10 DEF JobStart
  <1>11. CASE JobEnd(s)
    BY <1>11 DEF JobEnd
  <1>12. QED BY <1>1, <1>2, <1>3, <1>4, <1>5, <1>6, <1>7, <1>8, <1>9, <1>10, <1>11 DEF Pump, Job

LEMMA MediaLeft ==
  ASSUME Inv, Left, NEW s \in Sessions, MediaPump(s)
  PROVE  Left' /\ NoNewHolder
  <1> USE ActorsAssumption
      DEF Inv, Types, HandlerPlaces, GatesHeld, Calls, Left, GatesOwned, Cleanup, NoNewHolder, HoldsSlot, Calling,
        Callers, Over, InsideEncode, InsideMedia, HasEncodeGate, HasBothGates, PeerIsClosed, Removing,
        Registered, offerVars, peerVars, tableVars, pumpVars, mediaVars, drains, callVars
  <1>1. CASE MediaCancelled(s)
    BY <1>1 DEF MediaCancelled, MediaTo
  <1>2. CASE MediaTick(s)
    BY <1>2 DEF MediaTick, MediaTo
  <1>3. CASE MediaGate(s)
    BY <1>3 DEF MediaGate, MediaTo
  <1>4. CASE MediaStopped(s)
    BY <1>4 DEF MediaStopped, MediaTo, OpenMedia
  <1>5. CASE MediaNothingNew(s)
    BY <1>5 DEF MediaNothingNew, MediaTo, OpenMedia
  <1>6. CASE MediaPublishes(s)
    BY <1>6 DEF MediaPublishes, MediaTo
  <1>7. CASE MediaEncodes(s)
    BY <1>7 DEF MediaEncodes, MediaTo
  <1>8. CASE MediaWritten(s)
    BY <1>8 DEF MediaWritten, MediaTo, OpenMedia
  <1>9. CASE MediaFails(s)
    BY <1>9 DEF MediaFails, MediaTo, OpenMedia, Stop
  <1>10. CASE MediaExits(s)
    BY <1>10 DEF MediaExits, MediaTo, Close
  <1>11. CASE MediaUnlists(s)
    BY <1>11 DEF MediaUnlists, MediaTo
  <1>12. QED BY <1>1, <1>2, <1>3, <1>4, <1>5, <1>6, <1>7, <1>8, <1>9, <1>10, <1>11 DEF MediaPump

LEMMA RemoveLeft ==
  ASSUME Inv, Left, NEW c \in Callers, RemoveStep(c) \/ CallDropped(c)
  PROVE  Left' /\ NoNewHolder
  <1> USE ActorsAssumption
      DEF Inv, Types, HandlerPlaces, GatesHeld, Calls, Left, GatesOwned, Cleanup, NoNewHolder, HoldsSlot, Calling,
        Callers, Over, InsideEncode, InsideMedia, HasEncodeGate, HasBothGates, PeerIsClosed, Removing,
        Registered, offerVars, peerVars, tableVars, pumpVars, mediaVars, drains, callVars
  <1>1. CASE NotFound(c)
    BY <1>1 DEF NotFound, Return, CallTo
  <1>2. CASE Found(c)
    BY <1>2 DEF Found, CallTo, Stop
  <1>3. CASE PeerClosed(c)
    BY <1>3 DEF PeerClosed, CallTo
  <1>4. CASE DrainEncode(c)
    BY <1>4 DEF DrainEncode, CallTo
  <1>5. CASE DrainMedia(c)
    BY <1>5 DEF DrainMedia, CallTo
  <1>6. CASE ClosePublisher(c)
    BY <1>6 DEF ClosePublisher, CallTo, Close
  <1>7. CASE Unregister(c)
    BY <1>7 DEF Unregister, CallTo, Return, OpenBoth
  <1>8. CASE CallDropped(c)
    BY <1>8 DEF CallDropped, CallTo, OpenBoth
  <1>9. QED BY <1>1, <1>2, <1>3, <1>4, <1>5, <1>6, <1>7, <1>8 DEF RemoveStep

LEMMA NextLeft ==
  ASSUME Inv, Left, [Next]_vars
  PROVE  /\ Left'
         /\ NoNewHolder \/ \E s \in Sessions : Admit(s)
  <1>1. CASE UNCHANGED vars
    BY <1>1 DEF vars, Left, GatesOwned, Cleanup, NoNewHolder, HoldsSlot, Calling,
      offerVars, peerVars, tableVars, pumpVars, mediaVars, drains, callVars
  <1>2. ASSUME NEW s \in Sessions, Admit(s) PROVE Left'
    BY <1>2 DEF Admit, To, Inv, Types, HandlerPlaces, Left, GatesOwned, Cleanup, Over,
      peerVars, tableVars, pumpVars, mediaVars, drains, callVars
  <1>3. ASSUME NEW c \in Removers, NEW s \in Sessions, CallRemove(c, s) PROVE Left' /\ NoNewHolder
    BY <1>3, ActorsAssumption DEF CallRemove, CallTo, Inv, Types, GatesHeld, Left, GatesOwned, Cleanup,
      NoNewHolder, HoldsSlot, Calling, Callers, Over, InsideEncode, InsideMedia, HasEncodeGate, HasBothGates,
      offerVars, peerVars, tableVars, pumpVars, mediaVars, drains, callVars
  <1>4. QED BY <1>1, <1>2, <1>3, HandlerLeft, EventLeft, PumpLeft, MediaLeft, RemoveLeft DEF Next

LEMMA LeftHolds == Spec => []Left
  BY InitLeft, NextLeft, Invariance, PTL DEF Spec

Holders == {s \in Sessions : HoldsSlot(s)}
SlotsInv == IsFiniteSet(Holders) /\ Cardinality(Holders) <= WEBRTC_SESSION_MAX

LEMMA SlotsHold == Spec => []SlotsInv
  <1> USE SlotsAssumption DEF SlotsInv
  <1>1. Init => SlotsInv
    <2>1. Init => Holders = {}
      BY DEF Init, Holders, HoldsSlot, Over, Calling
    <2> QED BY <2>1, FS_EmptySet
  <1>2. Inv /\ Left /\ SlotsInv /\ [Next]_vars => SlotsInv'
    <2> SUFFICES ASSUME Inv, Left, SlotsInv, [Next]_vars PROVE SlotsInv'
      OBVIOUS
    <2>0. Cardinality(Holders) \in Nat
      BY FS_CardinalityType
    <2>1. CASE NoNewHolder
      <3>1. Holders' \in SUBSET Holders
        BY <2>1 DEF NoNewHolder, Holders
      <3>2. IsFiniteSet(Holders') /\ Cardinality(Holders') <= Cardinality(Holders)
        BY <3>1, FS_Subset
      <3>3. Cardinality(Holders') \in Nat
        BY <3>2, FS_CardinalityType
      <3> QED BY <2>0, <3>2, <3>3
    <2>2. ASSUME NEW s \in Sessions, Admit(s) PROVE SlotsInv'
      <3>1. Holders' \in SUBSET (Holders \cup {s})
        BY <2>2 DEF Admit, To, Holders, HoldsSlot, Calling, Over, Inv, Types,
          peerVars, tableVars, pumpVars, mediaVars, drains, callVars
      <3>2. /\ IsFiniteSet(Holders \cup {s})
            /\ Cardinality(Holders \cup {s}) \in {Cardinality(Holders), Cardinality(Holders) + 1}
        BY FS_AddElement
      <3>3. Cardinality(Holders) < WEBRTC_SESSION_MAX
        BY <2>2 DEF Admit, Holders
      <3>4. IsFiniteSet(Holders') /\ Cardinality(Holders') <= Cardinality(Holders \cup {s})
        BY <3>1, <3>2, FS_Subset
      <3>5. Cardinality(Holders') \in Nat
        BY <3>4, FS_CardinalityType
      <3> QED BY <2>0, <3>2, <3>3, <3>4, <3>5
    <2> QED BY <2>1, <2>2, NextLeft
  <1>3. QED BY <1>1, <1>2, Invariance, LeftHolds, PTL DEF Spec

\* For any number of offers, owners and permits: never more sessions alive than permits,
\* and when the last task of a session is over, however it ended, no table entry, open
\* peer, encoder, job or held gate of it is left.
THEOREM PermitsAreAccounted == Spec => []PermitsAccounted
  <1>1. Inv /\ Left => NothingLeft
    <2> SUFFICES ASSUME Inv, Left, NEW s \in Sessions, offer[s] = "done", ~ closer[s],
                        pump[s] \in Over, media[s] \in Over, ~ Calling(s)
                 PROVE  /\ s \notin registry \cup publishers
                        /\ peer[s] # "up" /\ job[s] = "none" /\ ~ encoder[s]
                        /\ encodeDrain[s] = NoOne /\ mediaDrain[s] = NoOne
      BY DEF NothingLeft
    <2>1. s \notin registry
      BY DEF Inv, HandlerPlaces, Registered, Left, Cleanup, Over
    <2>2. s \notin publishers
      BY DEF Left, Cleanup
    <2>3. peer[s] # "up" /\ job[s] = "none" /\ ~ encoder[s]
      BY DEF Inv, EveryPeerOwned, GatesHeld, Left, Cleanup, Over
    <2>4. encodeDrain[s] = NoOne
      <3>1. encodeDrain[s] \in {NoOne} \cup Callers
        BY DEF Inv, Types
      <3> QED BY <3>1 DEF Left, GatesOwned, Over, InsideEncode, HasEncodeGate, Calling
    <2>5. mediaDrain[s] = NoOne
      BY DEF Left, GatesOwned, Over, InsideMedia, HasBothGates, Calling
    <2> QED BY <2>1, <2>2, <2>3, <2>4, <2>5
  <1>2. SlotsInv => SlotsBounded
    BY DEF SlotsInv, SlotsBounded, Holders
  <1>3. QED BY <1>1, <1>2, Invariance, LeftHolds, SlotsHold, PTL DEF PermitsAccounted
=============================================================================
