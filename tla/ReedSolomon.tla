----------------------------- MODULE ReedSolomon -----------------------------
(***************************************************************************)
(* The error correction of a packet's body: the Reed-Solomon code of       *)
(* error_correction.rs, and the transform of transforms.rs that cuts a     *)
(* body into chunks and describes what it did.  A message is a polynomial, *)
(* its codeword the values at the powers of a primitive element; the       *)
(* decoder interpolates an intact codeword and solves Berlekamp and        *)
(* Welch's equations for a damaged one.                                    *)
(*                                                                         *)
(* The field has 2^FieldBits elements, small integers whose bits are the   *)
(* coefficients: 2^8 in the code, with the polynomial 0x11B and ALPHA 3.   *)
(* Between the writer and the reader symbols are damaged, and the          *)
(* descriptor, which nothing authenticates, may be replaced.               *)
(***************************************************************************)
EXTENDS Naturals, Sequences, FiniteSets
LOCAL INSTANCE Bitwise
LOCAL INSTANCE FiniteSetsExt
LOCAL INSTANCE SequencesExt

CONSTANTS
  FieldBits, FieldPolynomial,
  ALPHA,             \* a primitive element
  MAX_ECC_PARITY,    \* 16, as MAX_PARITY_COUNT
  BodiesToCode,       \* BOUND: bodies
  EccChoices,        \* BOUND: [parity, chunk]: what a writer asks for
  Errors,            \* BOUND: what a damaged symbol differs by
  MaxErrors,         \* BOUND: damaged symbols
  Descriptions       \* BOUND: what a descriptor may be replaced by

VARIABLES
  coded,       \* [body, written: the writer's descriptor, sent: its stream]
  received,    \* the stream as it is read
  described    \* the descriptor as it is read

eccVars == <<coded, received, described>>

\* An error: no sequence of symbols.
NoSymbols == <<2^FieldBits>>

-----------------------------------------------------------------------------
(* The field. *)

Symbols == 0..(2^FieldBits - 1)
MAX_CODEWORD_LEN == 2^FieldBits - 1

Bit(a, i) == (a \div 2^i) % 2 = 1

\* The schoolbook product, then the high powers are taken out from the top.
Product(a, b) ==
  LET shifted == FoldLeft(LAMBDA r, i : IF Bit(b, i) THEN r ^^ (a * 2^i) ELSE r,
                          0, [k \in 1..FieldBits |-> k - 1])
  IN FoldLeft(LAMBDA r, i : IF Bit(r, i) THEN r ^^ (FieldPolynomial * 2^(i - FieldBits)) ELSE r,
              shifted, [k \in 1..(FieldBits - 1) |-> 2 * FieldBits - 1 - k])

\* gf_mul and the exclusive or as tables.
Mul == [a \in Symbols, b \in Symbols |-> Product(a, b)]
Plus == [a \in Symbols, b \in Symbols |-> a ^^ b]

GfPow(base, exponent) == FoldLeft(LAMBDA r, i : Mul[r, base], 1, [i \in 1..exponent |-> i])

\* gf_inv: the power 254 of a byte, computed once for all.
GfInv == [a \in Symbols |-> IF a = 0 THEN 0 ELSE GfPow(a, 2^FieldBits - 2)]

GfDiv(a, b) == Mul[a, GfInv[b]]

\* gf_poly_eval: coefficients in ascending order.
Value(polynomial, x) == FoldRight(LAMBDA c, r : Plus[Mul[r, x], c], polynomial, 0)

Points == [i \in 1..MAX_CODEWORD_LEN |-> GfPow(ALPHA, i - 1)]

-----------------------------------------------------------------------------
(* The code (error_correction.rs). *)

LengthsValid(len, parity) == parity <= MAX_ECC_PARITY /\ len + parity <= MAX_CODEWORD_LEN

\* encode.
Codeword(data, parity) ==
  IF parity = 0 THEN data
  ELSE IF ~LengthsValid(Len(data), parity) THEN NoSymbols
  ELSE [i \in 1..(Len(data) + parity) |-> Value(data, Points[i])]

\* mismatch_count.
Mismatches(message, word) ==
  Cardinality({i \in DOMAIN word : Value(message, Points[i]) # word[i]})

\* lagrange_interpolate: Newton's divided differences of the first k values,
\* then the Newton form is multiplied out.
Interpolated(word, k) ==
  LET divided ==
        FoldLeft(LAMBDA d, order :
                   [j \in 1..k |-> IF j <= order THEN d[j]
                                   ELSE GfDiv(Plus[d[j], d[j - 1]], Plus[Points[j], Points[j - order]])],
                 SubSeq(word, 1, k), [order \in 1..(k - 1) |-> order])
      times(p, j) ==    \* p * (x - Points[j]) + divided[j]
        [i \in 1..(Len(p) + 1) |->
           Plus[IF i = 1 THEN divided[j] ELSE p[i - 1],
               IF i > Len(p) THEN 0 ELSE Mul[Points[j], p[i]]]]
  IN IF k = 0 THEN <<>>
     ELSE FoldLeft(times, <<divided[k]>>, [i \in 1..(k - 1) |-> k - i])

\* One column of solve_linear_system, which brings the matrix into reduced
\* echelon form: the first row from next on with a nonzero entry is the pivot.
EliminateColumn(s, column) ==
  LET candidates == {r \in s.next..Len(s.rows) : s.rows[r][column] # 0}
      pivot == Min(candidates)
      swapped == [s.rows EXCEPT ![s.next] = s.rows[pivot], ![pivot] = s.rows[s.next]]
      inverse == GfInv[swapped[s.next][column]]
      unit == [j \in DOMAIN swapped[s.next] |-> Mul[swapped[s.next][j], inverse]]
      cleared(row) == [j \in DOMAIN row |-> Plus[row[j], Mul[row[column], unit[j]]]]
  IN IF candidates = {} THEN [s EXCEPT !.pivots = Append(@, 0)]
     ELSE [rows |-> [r \in DOMAIN swapped |-> IF r = s.next THEN unit ELSE cleared(swapped[r])],
           pivots |-> Append(s.pivots, s.next), next |-> s.next + 1]

\* What the reduced rows say: the solution if there is exactly one.
SolutionOf(s, unknowns) ==
  LET zero(row) == \A j \in 1..unknowns : row[j] = 0
      inconsistent == \E r \in DOMAIN s.rows : zero(s.rows[r]) /\ s.rows[r][unknowns + 1] # 0
  IN IF inconsistent \/ \E c \in 1..unknowns : s.pivots[c] = 0 THEN NoSymbols
     ELSE [c \in 1..unknowns |-> s.rows[s.pivots[c]][unknowns + 1]]

\* solve_linear_system.
Solution(rows, unknowns) ==
  SolutionOf(FoldLeft(EliminateColumn, [rows |-> rows, pivots |-> <<>>, next |-> 1],
                      [c \in 1..unknowns |-> c]),
             unknowns)

\* polynomial_divide_exact, for a monic denominator of degree e.
Quotient(numerator, denominator, len) ==
  LET e == Len(denominator) - 1
      divide(s, degree) ==
        LET c == GfDiv(s.rest[degree], denominator[e + 1])
        IN [quotient |-> <<c>> \o s.quotient,
            rest |-> [i \in DOMAIN s.rest |->
                        IF i \in (degree - e)..degree
                        THEN Plus[s.rest[i], Mul[c, denominator[i - (degree - e) + 1]]]
                        ELSE s.rest[i]]]
      s == FoldLeft(divide, [quotient |-> <<>>, rest |-> numerator],
                    [k \in 1..(Len(numerator) - e) |-> Len(numerator) + 1 - k])
  IN IF \/ Len(numerator) < Len(denominator)
        \/ \E i \in 1..e : s.rest[i] # 0
        \/ Len(s.quotient) # len
     THEN NoSymbols ELSE s.quotient

\* The message of a solution: its first coefficients over the error locator.
MessageIn(solution, len, e) ==
  IF solution = NoSymbols THEN NoSymbols
  ELSE Quotient(SubSeq(solution, 1, len + e), Append(SubSeq(solution, len + e + 1, len + 2 * e), 1), len)

\* berlekamp_welch: Q(x) + y * E(x) = y * x^e at every point, for the unknown
\* coefficients of Q and the lower ones of the error locator E.
Corrected(word, len, e) ==
  LET unknowns == len + 2 * e
      row(i) ==
        [j \in 1..(unknowns + 1) |->
           IF j <= len + e THEN GfPow(Points[i], j - 1)
           ELSE Mul[word[i], GfPow(Points[i], j - 1 - (len + e))]]
  IN IF Len(word) < unknowns THEN NoSymbols
     ELSE MessageIn(Solution([i \in DOMAIN word |-> row(i)], unknowns), len, e)

\* correction_capability.
Correctable(parity) == parity \div 2

\* The message if e symbols are wrong.
Attempt(word, len, e) == IF e = 0 THEN Interpolated(word, len) ELSE Corrected(word, len, e)

\* The message of the fewest errors that explain the word.
Fewest(attempts, word) ==
  LET found == {e \in DOMAIN attempts : attempts[e] # NoSymbols /\ Mismatches(attempts[e], word) <= e}
  IN IF found = {} THEN NoSymbols ELSE attempts[Min(found)]

\* Mutant of DecodeWord: the equations are solved for the most errors only.
DecodeWordMost(word, len, parity) ==
  IF parity = 0 THEN SubSeq(word, 1, len)
  ELSE IF ~LengthsValid(len, parity) THEN NoSymbols
  ELSE Fewest([e \in {0, Correctable(parity)} |-> Attempt(word, len, e)], word)

\* decode: an intact word, or else one error, two, ...; a word is never too short
\* (DescriptorFits).
DecodeWord(word, len, parity) ==
  IF parity = 0 THEN SubSeq(word, 1, len)
  ELSE IF ~LengthsValid(len, parity) THEN NoSymbols
  ELSE Fewest([e \in 0..Correctable(parity) |-> Attempt(word, len, e)], word)

-----------------------------------------------------------------------------
(* The transform (transforms.rs). *)

\* validate_ecc_params.
ParamsValid(parity, chunk) ==
  parity <= MAX_ECC_PARITY /\ chunk # 0 /\ chunk <= MAX_CODEWORD_LEN - parity

\* ecc_encode: every chunk, the last one may be short, is a codeword.
EccEncode(body, parity, chunk) ==
  LET part(i) == SubSeq(body, (i - 1) * chunk + 1, Min({i * chunk, Len(body)}))
  IN FlattenSeq([i \in 1..((Len(body) + chunk - 1) \div chunk) |-> Codeword(part(i), parity)])

\* ecc_params: seven bytes.
EccParams(parity, len, chunk) == [size |-> 7, parity |-> parity, len |-> len, chunk |-> chunk]

\* The length of a stream: validate_ecc_geometry.
StreamLen(d) ==
  LET last == d.len % d.chunk
  IN (d.len \div d.chunk) * (d.chunk + d.parity) + (IF last > 0 THEN last + d.parity ELSE 0)

\* parse_ecc_params and validate_ecc_geometry, the preflight of the transform.
DescriptorFits(d, streamLen) ==
  d.size = 7 /\ ParamsValid(d.parity, d.chunk) /\ StreamLen(d) = streamLen

\* Where the i-th chunk's word begins, and how much data it holds.
WordStart(d, i) == (i - 1) * (d.chunk + d.parity)
ChunkLen(d, i) == Min({d.chunk, d.len - (i - 1) * d.chunk})
Words(d) == 1..((d.len + d.chunk - 1) \div d.chunk)
WordOf(stream, d, i) == SubSeq(stream, WordStart(d, i) + 1, WordStart(d, i) + ChunkLen(d, i) + d.parity)

\* All chunks or nothing.
Together(chunks) ==
  IF NoSymbols \in {chunks[i] : i \in DOMAIN chunks} THEN NoSymbols ELSE FlattenSeq(chunks)

\* ecc_decode.
EccDecode(stream, d) ==
  IF d.parity = 0 THEN SubSeq(stream, 1, d.len)
  ELSE Together([i \in Words(d) |-> DecodeWord(WordOf(stream, d, i), ChunkLen(d, i), d.parity)])

Reversed(stream, d) == IF DescriptorFits(d, Len(stream)) THEN EccDecode(stream, d) ELSE NoSymbols

-----------------------------------------------------------------------------

\* What the writer lets through (apply_with_password): parity zero adds nothing.
EccInit ==
  /\ \E body \in BodiesToCode, c \in {x \in EccChoices : ParamsValid(x.parity, x.chunk) /\ x.parity > 0} :
       coded = [body |-> body, written |-> EccParams(c.parity, Len(body), c.chunk),
                sent |-> EccEncode(body, c.parity, c.chunk)]
  /\ received = coded.sent /\ described = coded.written

Damaged == {i \in DOMAIN received : received[i] # coded.sent[i]}

DamageSymbol ==
  /\ Cardinality(Damaged) < MaxErrors
  /\ \E i \in DOMAIN received \ Damaged, e \in Errors :
       received' = [received EXCEPT ![i] = Plus[@, e]]
  /\ UNCHANGED <<coded, described>>

Redescribe ==
  /\ described = coded.written
  /\ described' \in Descriptions \ {described}
  /\ UNCHANGED <<coded, received>>

EccNext == DamageSymbol \/ Redescribe

-----------------------------------------------------------------------------
(* Properties. *)

ErrorsIn(stream, d, message, i) ==
  LET chunk == SubSeq(message, (i - 1) * d.chunk + 1, (i - 1) * d.chunk + ChunkLen(d, i))
  IN Mismatches(chunk, WordOf(stream, d, i))

Explained(stream, d, message) ==
  \A i \in Words(d) : ErrorsIn(stream, d, message, i) <= d.parity \div 2

\* What is returned under a descriptor, right or wrong.
IsOf(message, stream, d) ==
  message # NoSymbols =>
    Len(message) = d.len /\ (d.parity > 0 => Explained(stream, d, message))

\* "Up to parity_count / 2 corrupted symbols can be corrected", in every chunk,
\* whatever they are and wherever; "the decoder rejects uncorrectable data
\* rather than returning silently corrupted best-effort bytes": what it returns
\* under any descriptor has the length that says, and is a codeword of every
\* chunk but for that many symbols (error_correction::decode, ecc_decode).
DamageIsRepaired ==
  IF described = coded.written /\ Explained(received, described, coded.body)
  THEN Reversed(received, described) = coded.body
  ELSE IsOf(Reversed(received, described), received, described)
=============================================================================
