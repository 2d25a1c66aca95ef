----------------------------- MODULE Reassembler -----------------------------
(***************************************************************************)
(* The framing of application messages over a WebRTC data channel          *)
(* (webrtc.rs): frame_chunks cuts a message into chunks, and one           *)
(* Reassembler per peer puts them together again under four budgets: the   *)
(* chunks of a message, its bytes, the messages in flight and the bytes    *)
(* retained for them, and an absolute lifetime of a message in flight.     *)
(*                                                                         *)
(* The data channel is external.  The peer chooses its reliability and     *)
(* order, so chunks of different messages interleave, get lost, come       *)
(* again or out of order: any chunk of Traffic may come at any time.       *)
(* A byte is a number; a time.Instant is replaced by the age of the        *)
(* message it starts, which stops counting at the expiry.                  *)
(***************************************************************************)
EXTENDS Naturals, Sequences, FiniteSets, FiniteSetsExt, SequencesExt

CONSTANTS
  Messages,         \* message id -> payload, the messages peers frame
  StrayChunks,      \* chunks no message was cut into
  Missing,          \* the chunk of an index that has not come
  CHUNK_PAYLOAD_MAX, MESSAGE_MAX_BYTES, INCOMPLETE_MESSAGE_MAX, MESSAGE_EXPIRY

ASSUME BudgetAssumption ==
  /\ CHUNK_PAYLOAD_MAX \in Nat \ {0}
  /\ MESSAGE_MAX_BYTES \in Nat \ {0}
  /\ INCOMPLETE_MESSAGE_MAX \in Nat \ {0}
  /\ MESSAGE_EXPIRY \in Nat \ {0}

VARIABLES
  reassembler,  \* [partial, retained]: the struct
  out,          \* what the last push returned; Nothing after a tick
  since         \* history: how long ago each message in flight began

reassemblerVars == <<reassembler, out, since>>

CeilDiv(a, b) == (a + b - 1) \div b

MESSAGE_MAX_CHUNKS == CeilDiv(MESSAGE_MAX_BYTES, CHUNK_PAYLOAD_MAX)
RETAINED_MESSAGE_MAX_BYTES == 2 * MESSAGE_MAX_BYTES

Ids == DOMAIN Messages \cup {c.id : c \in StrayChunks}

FrameChunks(id, payload) ==
  LET count == Max({CeilDiv(Len(payload), CHUNK_PAYLOAD_MAX), 1})
      Start(i) == i * CHUNK_PAYLOAD_MAX
      End(i) == Min({Len(payload), Start(i) + CHUNK_PAYLOAD_MAX})
  IN [k \in 1..count |->
        [id |-> id, index |-> k - 1, count |-> count,
         payload |-> SubSeq(payload, Start(k - 1) + 1, End(k - 1))]]

Traffic ==
  StrayChunks \cup
    UNION {ToSet(FrameChunks(id, Messages[id])) : id \in DOMAIN Messages}

\* A byte is a number, and no payload is taken for a chunk that has not come.
ASSUME TrafficAssumption ==
  /\ \A id \in DOMAIN Messages : Messages[id] \in Seq(Nat)
  /\ \A c \in StrayChunks :
       c.index \in Nat /\ c.count \in Nat /\ c.payload \in Seq(Nat)
  /\ \A c \in Traffic : c.payload # Missing

(***************************************************************************)
(* The struct and its private methods, as functions of its value.          *)
(***************************************************************************)
Without(partial, ids) ==
  [id \in DOMAIN partial \ ids |-> partial[id]]

BytesOf(partial, ids) ==
  SumFunctionOnSet([id \in DOMAIN partial |-> partial[id].bytes], ids)

RemoveMessage(r, id) ==
  LET ids == {id} \cap DOMAIN r.partial
  IN [partial |-> Without(r.partial, ids),
      retained |-> r.retained - BytesOf(r.partial, ids)]

Stale(r) == {id \in DOMAIN r.partial : r.partial[id].age >= MESSAGE_EXPIRY}

ExpireAtUncharged(r) == [r EXCEPT !.partial = Without(r.partial, Stale(r))]

ExpireAt(r) ==
  [partial |-> Without(r.partial, Stale(r)),
   retained |-> r.retained - BytesOf(r.partial, Stale(r))]

\* The verdicts of push_at on a framed chunk, in the order it reaches them.
BadShapeUnbounded(c) == c.count = 0 \/ c.index >= c.count

BadShape(c) == c.count = 0 \/ c.count > MESSAGE_MAX_CHUNKS \/ c.index >= c.count

\* A peer gives an id to one message: the stray chunks of a framed id take no
\* place of that message, and do not make up another one.
ASSUME StrayAssumption ==
  \A id \in DOMAIN Messages :
    LET strays == {c \in StrayChunks : c.id = id /\ ~ BadShape(c)}
    IN /\ \A c \in strays : c.count # Len(FrameChunks(id, Messages[id]))
       /\ \A n \in {c.count : c \in strays} :
            \E i \in 0..(n - 1) : \A c \in strays : c.count = n => c.index # i

Known(r, c) == c.id \in DOMAIN r.partial

Mismatched(r, c) ==
  Known(r, c) /\ DOMAIN r.partial[c.id].chunks # 0..(c.count - 1)

Duplicate(r, c) ==
  /\ ~ BadShape(c) /\ Known(r, c) /\ ~ Mismatched(r, c)
  /\ r.partial[c.id].chunks[c.index] # Missing

CrowdedByOne(r, c) ==
  ~ Known(r, c) /\ Cardinality(DOMAIN r.partial) > INCOMPLETE_MESSAGE_MAX

Crowded(r, c) ==
  ~ Known(r, c) /\ Cardinality(DOMAIN r.partial) >= INCOMPLETE_MESSAGE_MAX

OverBudget(r, c) ==
  LET held == IF Known(r, c) THEN r.partial[c.id].bytes ELSE 0
  IN \/ held + Len(c.payload) > MESSAGE_MAX_BYTES
     \/ r.retained + Len(c.payload) > RETAINED_MESSAGE_MAX_BYTES

Admissible(r, c) ==
  /\ ~ BadShape(c) /\ ~ Mismatched(r, c) /\ ~ Duplicate(r, c)
  /\ ~ Crowded(r, c) /\ ~ OverBudget(r, c)

Entry(r, c) ==
  IF Known(r, c) THEN r.partial[c.id]
  ELSE [chunks |-> [i \in 0..(c.count - 1) |-> Missing],
        received |-> 0, bytes |-> 0, age |-> 0]

\* The message of c with c stored in it.
Filled(r, c) ==
  [Entry(r, c) EXCEPT !.chunks[c.index] = c.payload,
                      !.received = @ + 1,
                      !.bytes = @ + Len(c.payload)]

Stored(r, c) ==
  [partial |-> [id \in DOMAIN r.partial \cup {c.id} |->
                  IF id = c.id THEN Filled(r, c) ELSE r.partial[id]],
   retained |-> r.retained + Len(c.payload)]

Concatenated(message) ==
  FlattenSeq([k \in 1..Cardinality(DOMAIN message.chunks) |->
                message.chunks[k - 1]])

(***************************************************************************)
(* Actions.  push expires first, whatever it makes of the chunk.           *)
(***************************************************************************)
Nothing == [is |-> "none"]
Err == [is |-> "err"]

ReassemblerInit ==
  /\ reassembler = [partial |-> <<>>, retained |-> 0]
  /\ out = Nothing
  /\ since = [id \in Ids |-> 0]

\* Shorter than a header, longer than a chunk, or with another magic.
PushUnframed ==
  /\ reassembler' = ExpireAt(reassembler)
  /\ out' = Err
  /\ UNCHANGED since

\* These errors drop the message the chunk names; being crowded does not.
PushRefused(c) ==
  LET r == ExpireAt(reassembler)
      dropped == \/ BadShape(c)
                 \/ Mismatched(r, c)
                 \/ ~ Duplicate(r, c) /\ ~ Crowded(r, c) /\ OverBudget(r, c)
  IN /\ ~ Duplicate(r, c) /\ ~ Admissible(r, c)
     /\ reassembler' = IF dropped THEN RemoveMessage(r, c.id) ELSE r
     /\ out' = Err
     /\ UNCHANGED since

PushDuplicateRefreshes(c) ==
  LET r == ExpireAt(reassembler)
  IN /\ Duplicate(r, c)
     /\ reassembler' = [r EXCEPT !.partial[c.id].age = 0]
     /\ out' = Nothing
     /\ UNCHANGED since

PushDuplicate(c) ==
  LET r == ExpireAt(reassembler)
  IN /\ Duplicate(r, c)
     /\ reassembler' = r
     /\ out' = Nothing
     /\ UNCHANGED since

PushStored(c) ==
  LET r == ExpireAt(reassembler)
      message == Filled(r, c)
      begun == IF Known(r, c) THEN since[c.id] ELSE 0
  IN /\ Admissible(r, c)
     /\ since' = [since EXCEPT ![c.id] = begun]
     /\ IF message.received = c.count
        THEN /\ reassembler' = RemoveMessage(Stored(r, c), c.id)
             /\ out' = [is |-> "message", id |-> c.id, since |-> begun,
                        payload |-> Concatenated(message)]
        ELSE /\ reassembler' = Stored(r, c)
             /\ out' = Nothing

\* The maintenance tick of the session that owns the reassembler.
Maintain ==
  /\ reassembler' = ExpireAt(reassembler)
  /\ UNCHANGED <<out, since>>

Partials == reassembler.partial

Tick ==
  LET Older(age) == Min({age + 1, MESSAGE_EXPIRY})
  IN /\ reassembler' =
            [partial |-> [id \in DOMAIN Partials |->
                            [Partials[id] EXCEPT !.age = Older(@)]],
             retained |-> reassembler.retained]
     /\ since' = [id \in Ids |->
            IF id \in DOMAIN Partials THEN Older(since[id]) ELSE 0]
     /\ out' = Nothing

Push ==
  \/ PushUnframed
  \/ \E c \in Traffic : PushRefused(c) \/ PushDuplicate(c) \/ PushStored(c)

ReassemblerNext == Push \/ Maintain \/ Tick

\* Time passes, and the session's select polls its maintenance interval
\* before the data channel.  Nothing is asked of the peer.
ReassemblerFairness == WF_reassemblerVars(Tick) /\ WF_reassemblerVars(Maintain)

ReassemblerSpec == ReassemblerInit /\ [][ReassemblerNext]_reassemblerVars /\ ReassemblerFairness

(***************************************************************************)
(* Properties.                                                             *)
(***************************************************************************)
\* The counters that every budget is decided on are the truth about the
\* chunks held, after any mixture of storing, completing, refusing and
\* expiring: a counter that drifts up refuses good messages for the rest of
\* the session, one that drifts down underflows or lets the peer hold more.
Accounted ==
  /\ reassembler.retained = BytesOf(Partials, DOMAIN Partials)
  /\ \A id \in DOMAIN Partials :
       LET chunks == Partials[id].chunks
           present == {i \in DOMAIN chunks : chunks[i] # Missing}
       IN /\ Partials[id].received = Cardinality(present)
          /\ Partials[id].bytes = SumFunction([i \in present |-> Len(chunks[i])])
          /\ present # {} /\ present # DOMAIN chunks

\* What a peer makes the server hold stays within the four budgets: messages
\* in flight, chunks of a message (their places are allocated when the first
\* one comes), its bytes, and the bytes of all of them.
WithinBudget ==
  /\ Cardinality(DOMAIN Partials) <= INCOMPLETE_MESSAGE_MAX
  /\ reassembler.retained <= RETAINED_MESSAGE_MAX_BYTES
  /\ \A id \in DOMAIN Partials :
       /\ Partials[id].bytes <= MESSAGE_MAX_BYTES
       /\ \E count \in 1..MESSAGE_MAX_CHUNKS : DOMAIN Partials[id].chunks = 0..(count - 1)

\* A message of a framed id that is handed on is the message that was
\* framed, in order and whole, whatever came between its chunks; and it was
\* begun within the expiry, which chunks that come again do not extend.
DeliveredIntact ==
  out.is = "message" =>
    /\ out.id \in DOMAIN Messages => out.payload = Messages[out.id]
    /\ out.since < MESSAGE_EXPIRY

\* Again and again nothing is held whose lifetime is over, even under a peer that
\* repeats its chunks for ever and never sends anything else: each message is let go.
\* (A push of a chunk of the same id may begin the message again in the same step.)
Overdue(id) == id \in DOMAIN Partials /\ since[id] = MESSAGE_EXPIRY

EventuallyReleased == []<>(\A id \in Ids : ~ Overdue(id))

\* What a peer makes the server hold is counted right and within its budgets
\* (push_at, expire_at and remove_message).
BudgetsHold == Accounted /\ WithinBudget
=============================================================================
