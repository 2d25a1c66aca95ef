------------------------- MODULE StegoElement_proofs -------------------------
(***************************************************************************)
(* What TLC checks of StegoElement for two keys, two packets and a few     *)
(* generations, proved for every value of the constants.                   *)
(***************************************************************************)
EXTENDS StegoElement, TLAPS

(***************************************************************************)
(* Types.                                                                  *)
(***************************************************************************)
\* A record stays one when a field gets a value of the field's type.
LEMMA FieldTypes ==
  ASSUME NEW s \in StreamState
  PROVE  /\ \A v \in LivePackets \cup {Unset} : [s EXCEPT !.packet = v] \in StreamState
         /\ \A v \in Nat : /\ [s EXCEPT !.generation = v] \in StreamState
                           /\ [s EXCEPT !.payloadGen = v] \in StreamState
                           /\ [s EXCEPT !.embedded = v] \in StreamState
         /\ \A v \in BOOLEAN : [s EXCEPT !.delivered = v] \in StreamState
         /\ \A v \in SUBSET Reasons : [s EXCEPT !.warned = v] \in StreamState
BY DEF StreamState

LEMMA NoteSkipType ==
  ASSUME NEW s \in StreamState, NEW reason \in Reasons
  PROVE  NoteSkip(s, reason) \in StreamState
<1>1. s.warned \cup {reason} \in SUBSET Reasons
  BY DEF StreamState
<1> QED BY <1>1, FieldTypes DEF NoteSkip

LEMMA ResetProgressType ==
  ASSUME NEW s \in StreamState
  PROVE  ResetProgress(s) \in StreamState
<1> DEFINE t == [s EXCEPT !.generation = @ + 1]
           u == [t EXCEPT !.delivered = FALSE]
           v == [u EXCEPT !.embedded = 0]
           w == [v EXCEPT !.warned = {}]
<1>1. s.generation + 1 \in Nat
  BY DEF StreamState
<1>2. t \in StreamState
  BY <1>1, FieldTypes
<1>3. u \in StreamState
  BY <1>2, FieldTypes
<1>4. v \in StreamState
  BY <1>3, FieldTypes
<1>5. w \in StreamState
  BY <1>4, FieldTypes
<1>6. w = ResetProgress(s)
  BY DEF ResetProgress
<1> QED BY <1>5, <1>6

LEMMA ReplacePacketType ==
  ASSUME NEW s \in StreamState, NEW packet \in LivePackets \cup {Unset}
  PROVE  ReplacePacket(s, packet) \in StreamState
<1> DEFINE t == [s EXCEPT !.packet = packet]
           u == [t EXCEPT !.payloadGen = @ + 1]
           v == [u EXCEPT !.delivered = FALSE]
<1>1. t \in StreamState
  BY FieldTypes
<1>2. t.payloadGen + 1 \in Nat
  BY <1>1 DEF StreamState
<1>3. u \in StreamState
  BY <1>1, <1>2, FieldTypes
<1>4. v \in StreamState
  BY <1>3, FieldTypes
<1>5. v = ReplacePacket(s, packet)
  BY DEF ReplacePacket
<1> QED BY <1>4, <1>5

LEMMA CompleteType ==
  ASSUME NEW s \in StreamState, NEW snap \in StreamState,
         NEW delivered \in BOOLEAN
  PROVE  StreamComplete(s, snap, delivered) \in StreamState
<1> DEFINE t == [s EXCEPT !.embedded = @ + 1]
           b == t.delivered \/ (delivered /\ s.payloadGen = snap.payloadGen)
           u == [t EXCEPT !.delivered = b]
<1>1. s.embedded + 1 \in Nat
  BY DEF StreamState
<1>2. t \in StreamState
  BY <1>1, FieldTypes
<1>3. u \in StreamState
  BY <1>2, FieldTypes
<1>4. CASE s.generation # snap.generation
  BY <1>4 DEF StreamComplete
<1>5. CASE s.generation = snap.generation
  <2>1. u = StreamComplete(s, snap, delivered)
    BY <1>5 DEF StreamComplete, StreamState
  <2> QED BY <2>1, <1>3
<1> QED BY <1>4, <1>5

LEMMA MethodTypes ==
  ASSUME NEW s \in StreamState
  PROVE  /\ \A reason \in Reasons : NoteSkip(s, reason) \in StreamState
         /\ ResetProgress(s) \in StreamState
         /\ \A packet \in LivePackets \cup {Unset} :
              ReplacePacket(s, packet) \in StreamState
         /\ \A snap \in StreamState, delivered \in BOOLEAN :
              StreamComplete(s, snap, delivered) \in StreamState
BY NoteSkipType, ResetProgressType, ReplacePacketType, CompleteType

\* Resetting advances the generation by one; the other methods keep it.
LEMMA MethodGenerations ==
  ASSUME NEW s \in StreamState
  PROVE  /\ ResetProgress(s).generation = s.generation + 1
         /\ \A reason \in Reasons :
              NoteSkip(s, reason).generation = s.generation
         /\ \A packet \in LivePackets \cup {Unset} :
              ReplacePacket(s, packet).generation = s.generation
         /\ \A snap \in StreamState, delivered \in BOOLEAN :
              StreamComplete(s, snap, delivered).generation = s.generation
<1>1. ResetProgress(s).generation = s.generation + 1
  BY DEF ResetProgress, StreamState
<1>2. \A reason \in Reasons : NoteSkip(s, reason).generation = s.generation
  BY DEF NoteSkip, StreamState
<1>3. \A packet \in LivePackets \cup {Unset} :
        ReplacePacket(s, packet).generation = s.generation
  BY DEF ReplacePacket, StreamState
<1>4. \A snap \in StreamState, delivered \in BOOLEAN :
        StreamComplete(s, snap, delivered).generation = s.generation
  BY DEF StreamComplete, StreamState
<1> QED BY <1>1, <1>2, <1>3, <1>4

\* Every variable keeps its type, for any constants.
THEOREM TypeCorrect == ElementSpec => []ElementTypeOK
<1>1. ElementInit => ElementTypeOK
  <2> SUFFICES ASSUME ElementInit PROVE ElementTypeOK
    OBVIOUS
  <2>1. stream \in StreamState
    BY BitsAssumption DEF ElementInit, StreamState
  <2>2. carries \in [0..MaxGeneration -> Seq(Carry)]
    BY DEF ElementInit
  <2>3. stream.generation <= MaxGeneration
    BY BoundAssumption DEF ElementInit
  <2>4. frame \in Frames /\ frame = NoBuffer
    BY DEF ElementInit, Frames
  <2> QED BY <2>1, <2>2, <2>3, <2>4 DEF ElementInit, ElementTypeOK
<1>2. ElementTypeOK /\ [ElementNext]_elementVars => ElementTypeOK'
  <2> SUFFICES ASSUME ElementTypeOK, [ElementNext]_elementVars PROVE ElementTypeOK'
    OBVIOUS
  <2>a. /\ kind \in {"video", "audio"} /\ running \in BOOLEAN
        /\ stream \in StreamState /\ stream.generation <= MaxGeneration
        /\ stream.generation \in Nat
        /\ info \in {"none", "packed", "unsupported"}
        /\ kind = "audio" => info # "unsupported"
        /\ frame \in Frames /\ carries \in [0..MaxGeneration -> Seq(Carry)]
        /\ frame # NoBuffer => /\ frame.snap.generation <= MaxGeneration
                           /\ frame.snap.packet # Unset
    BY DEF ElementTypeOK, StreamState
  <2>b. ASSUME NEW s \in StreamState,
               stream' = ResetProgress(s), s.generation = stream.generation,
               CanReset
        PROVE  stream' \in StreamState /\ stream'.generation <= MaxGeneration
    <3>1. stream' \in StreamState
      BY <2>b, ResetProgressType
    <3>2. stream'.generation = stream.generation + 1
      BY <2>b, MethodGenerations
    <3>3. stream.generation + 1 <= MaxGeneration
      BY <2>a, <2>b, BoundAssumption DEF CanReset
    <3> QED BY <3>1, <3>2, <3>3
  <2>1. ASSUME NEW key \in Keys, SetKey(key) PROVE ElementTypeOK'
    <3> DEFINE s == [stream EXCEPT !.key = key]
    <3>1. s \in StreamState /\ s.generation = stream.generation
      BY <2>a DEF StreamState
    <3>2. stream' \in StreamState /\ stream'.generation <= MaxGeneration
      BY <2>1, <2>b, <3>1 DEF SetKey
    <3> QED BY <2>1, <2>a, <3>2 DEF SetKey, ElementTypeOK
  <2>2. CASE ClearKey
    <3> DEFINE s == [stream EXCEPT !.key = Unset]
    <3>1. s \in StreamState /\ s.generation = stream.generation
      BY <2>a DEF StreamState
    <3>2. stream' \in StreamState /\ stream'.generation <= MaxGeneration
      BY <2>2, <2>b, <3>1 DEF ClearKey
    <3> QED BY <2>2, <2>a, <3>2 DEF ClearKey, ElementTypeOK
  <2>3. ASSUME NEW packet \in LivePackets \cup {Unset}, SetPacket(packet) PROVE ElementTypeOK'
    <3>1. stream' \in StreamState /\ stream'.generation <= MaxGeneration
      BY <2>3, <2>a, MethodTypes, MethodGenerations DEF SetPacket
    <3> QED BY <2>3, <2>a, <3>1 DEF SetPacket, ElementTypeOK
  <2>4. CASE SetClearPayload
    <3>1. stream' \in StreamState /\ stream'.generation <= MaxGeneration
      BY <2>4, <2>a DEF SetClearPayload, StreamState
    <3> QED BY <2>4, <2>a, <3>1 DEF SetClearPayload, ElementTypeOK
  <2>5. ASSUME NEW bits \in Bits, SetBits(bits) PROVE ElementTypeOK'
    <3> DEFINE s == [stream EXCEPT !.bits = bits]
    <3>1. s \in StreamState /\ s.generation = stream.generation
      BY <2>a DEF StreamState
    <3>2. stream' \in StreamState /\ stream'.generation <= MaxGeneration
      BY <2>5, <2>b, <3>1 DEF SetBits
    <3> QED BY <2>5, <2>a, <3>2 DEF SetBits, ElementTypeOK
  <2>6. CASE Start
    <3>1. stream' \in StreamState /\ stream'.generation <= MaxGeneration
      BY <2>6, <2>a, <2>b DEF Start
    <3> QED BY <2>6, <2>a, <3>1 DEF Start, ElementTypeOK
  <2>7. CASE Stop
    <3>1. stream' \in StreamState /\ stream'.generation <= MaxGeneration
      BY <2>7, <2>a, <2>b DEF Stop
    <3> QED BY <2>7, <2>a, <3>1 DEF Stop, ElementTypeOK
  <2>8. ASSUME NEW caps \in {"packed", "unsupported"}, SetCaps(caps) PROVE ElementTypeOK'
    BY <2>8, <2>a DEF SetCaps, ElementTypeOK
  <2>9. CASE Transform
    <3>1. ASSUME frame' = NoBuffer, stream' \in StreamState,
                 stream'.generation = stream.generation,
                 carries' \in [0..MaxGeneration -> Seq(Carry)],
                 UNCHANGED <<kind, running, info>>
          PROVE  ElementTypeOK'
      BY <3>1, <2>a DEF ElementTypeOK, Frames
    <3>2. ASSUME frame' \in Frames, frame' # NoBuffer,
                 frame'.snap.generation <= MaxGeneration,
                 frame'.snap.packet # Unset,
                 stream' \in StreamState,
                 stream'.generation = stream.generation,
                 UNCHANGED <<kind, running, info, carries>>
          PROVE  ElementTypeOK'
      BY <3>2, <2>a DEF ElementTypeOK
    <3>3. ASSUME frame # NoBuffer
          PROVE  /\ frame.snap \in StreamState
                 /\ frame.snap.generation \in 0..MaxGeneration
                 /\ frame.snap.packet # Unset
      <4>1. frame.snap \in StreamState
        BY <3>3, <2>a DEF Frames
      <4> QED BY <4>1, <3>3, <2>a, BoundAssumption DEF StreamState
    <3>4. CASE TransformIp
      <4>1. frame' \in Frames /\ frame' # NoBuffer /\ frame'.snap = stream
        BY <3>4, <2>a DEF TransformIp, Frames, NoBuffer
      <4> QED BY <3>4, <4>1, <3>2, <2>a DEF TransformIp
    <3>5. CASE PassOrFail
      BY <3>5, <3>1, <2>a DEF PassOrFail
    <3>6. ASSUME NEW reason \in Reasons, frame # NoBuffer, Leave(reason),
                 UNCHANGED <<kind, running, stream, info, carries>>
          PROVE  ElementTypeOK'
      <4>1. /\ frame' \in Frames /\ frame' # NoBuffer /\ frame'.snap = frame.snap
        BY <3>6, <3>3 DEF Leave, Frames, NoBuffer
      <4> QED BY <4>1, <3>6, <3>3, <3>2, <2>a
    <3>7. frame.at # "idle" => frame # NoBuffer
      BY DEF NoBuffer
    <3>8. CASE Unsupported
      BY <3>8, <3>6, <3>7 DEF Unsupported, Reasons
    <3>9. CASE BadLength
      BY <3>9, <3>6, <3>7 DEF BadLength, Reasons
    <3>10. ASSUME frame.at \in {"snapped", "mapped"}, NEW at \in {"mapped", "placing"},
                  frame' = [frame EXCEPT !.at = at], stream' \in StreamState,
                  stream'.generation = stream.generation,
                  UNCHANGED <<kind, running, info, carries>>
           PROVE  ElementTypeOK'
      <4>1. frame \in [at : {"snapped", "mapped", "placing"}, snap : StreamState]
        BY <3>10, <2>a DEF Frames, NoBuffer
      <4>2. /\ frame' \in Frames /\ frame' # NoBuffer /\ frame'.snap = frame.snap
        BY <4>1, <3>10 DEF Frames, NoBuffer
      <4> QED BY <4>2, <3>10, <3>7, <3>3, <3>2, <2>a
    <3>11. CASE Map
      BY <3>11, <3>10, <2>a DEF Map
    <3>12. CASE Skip
      <4>1. frame.reason \in Reasons
        BY <3>12, <2>a DEF Skip, Frames, NoBuffer
      <4> QED BY <3>12, <4>1, <3>1, <2>a, MethodTypes, MethodGenerations DEF Skip
    <3>13. CASE WarnKeyedClear
      <4>1. "KeyedClear" \in Reasons
        BY DEF Reasons
      <4> QED BY <3>13, <4>1, <3>10, <2>a, MethodTypes, MethodGenerations DEF WarnKeyedClear
    <3>14. CASE ClearSlots
      <4>1. frame.snap \in StreamState
        BY <3>14, <3>3, <3>7 DEF ClearSlots
      <4> QED
        BY <3>14, <4>1, <3>1, <2>a, MethodTypes, MethodGenerations DEF ClearSlots
    <3>15. CASE Embed
      <4>1. frame # NoBuffer
        BY <3>15, <3>7 DEF Embed, Placing
      <4>2. CarryOf(frame.snap) \in Carry
        BY <4>1, <3>3 DEF CarryOf, Carry, StreamState
      <4>3. carries' \in [0..MaxGeneration -> Seq(Carry)]
        BY <3>15, <4>1, <4>2, <3>3, <2>a DEF Embed
      <4>4. stream' \in StreamState /\ stream'.generation = stream.generation
        BY <3>15, <4>1, <3>3, <2>a, MethodTypes, MethodGenerations DEF Embed
      <4> QED BY <3>15, <4>3, <4>4, <3>1 DEF Embed
    <3>16. CASE TooSmall
      BY <3>16, <3>6, <3>7 DEF TooSmall, Reasons, Placing
    <3>17. CASE Refused
      BY <3>17, <3>1, <2>a DEF Refused
    <3> QED BY <2>9, <3>4, <3>5, <3>8, <3>9, <3>11, <3>12, <3>13, <3>14, <3>15,
               <3>16, <3>17 DEF Transform
  <2>10. CASE UNCHANGED elementVars
    BY <2>10, <2>a DEF elementVars, ElementTypeOK
  <2> QED BY <2>1, <2>2, <2>3, <2>4, <2>5, <2>6, <2>7, <2>8, <2>9, <2>10
          DEF ElementNext, SetProperty, Lifecycle
<1> QED BY <1>1, <1>2, PTL DEF ElementSpec

(***************************************************************************)
(* The inductive invariant.  A record s -- the shared one, or the snapshot *)
(* in flight -- is Sound when the embeddings of its generation were made   *)
(* with its key and bits, when its counter counts them (keyed placement    *)
(* only: the counter also counts cleared frames, and those are             *)
(* sequential), and when `delivered` is exactly that one of them had its   *)
(* payload.                                                                *)
(***************************************************************************)
Sound(s) ==
  /\ s.delivered => CarriedUnder(s)
  /\ \A i \in DOMAIN carries[s.generation] :
       LET c == carries[s.generation][i]
       IN /\ c.key = s.key
          /\ c.bits = s.bits
          /\ c.payloadGen = s.payloadGen => s.delivered
  /\ s.key # Unset => Len(carries[s.generation]) = s.embedded

\* While the record and a snapshot of it still have a generation in common,
\* they have in common what that generation guards.
Agree(s) ==
  /\ s.generation <= stream.generation
  /\ s.payloadGen <= stream.payloadGen
  /\ s.generation = stream.generation =>
       s.key = stream.key /\ s.bits = stream.bits /\ s.embedded = stream.embedded
  /\ s.payloadGen = stream.payloadGen => s.packet = stream.packet

\* Nothing was carried in a generation, or of a payload, that is to come.
Past ==
  \A g \in 0..MaxGeneration :
    /\ g > stream.generation => carries[g] = <<>>
    /\ \A i \in DOMAIN carries[g] : carries[g][i].payloadGen <= stream.payloadGen

InFlight ==
  frame # NoBuffer =>
    /\ Sound(frame.snap)
    /\ Agree(frame.snap)
    /\ frame.at = "placing" => frame.snap.key # Unset

Inv ==
  /\ ElementTypeOK
  /\ Sound(stream)
  /\ InFlight
  /\ Past
  /\ FrameTimeline
  /\ OnePlacement
  /\ DeliversOnce

\* What Inv says of the shapes of the values it is about.
LEMMA Shapes ==
  ASSUME ElementTypeOK
  PROVE  /\ stream.generation \in 0..MaxGeneration
         /\ stream.payloadGen \in Nat /\ stream.embedded \in Nat
         /\ stream.delivered \in BOOLEAN
         /\ \A g \in 0..MaxGeneration : carries[g] \in Seq(Carry)
         /\ frame # NoBuffer =>
              /\ frame.snap \in StreamState
              /\ frame.snap.generation \in 0..MaxGeneration
              /\ frame.snap.payloadGen \in Nat /\ frame.snap.embedded \in Nat
              /\ frame.snap.delivered \in BOOLEAN
<1>1. stream \in StreamState /\ stream.generation <= MaxGeneration
  BY DEF ElementTypeOK
<1>2. \A g \in 0..MaxGeneration : carries[g] \in Seq(Carry)
  BY DEF ElementTypeOK
<1>3. ASSUME frame # NoBuffer
      PROVE  frame.snap \in StreamState /\ frame.snap.generation <= MaxGeneration
  <2>1. frame.snap \in StreamState
    BY <1>3 DEF ElementTypeOK, Frames
  <2> QED BY <2>1, <1>3 DEF ElementTypeOK
<1>4. \A s \in StreamState :
        /\ s.generation \in Nat /\ s.payloadGen \in Nat /\ s.embedded \in Nat
        /\ s.delivered \in BOOLEAN
  BY DEF StreamState
<1> QED BY <1>1, <1>2, <1>3, <1>4, BoundAssumption

LEMMA CarryTypes ==
  ASSUME ElementTypeOK, NEW g \in 0..MaxGeneration, NEW i \in DOMAIN carries[g]
  PROVE  carries[g][i] \in Carry /\ carries[g][i].payloadGen \in Nat
<1>1. carries[g][i] \in Carry
  BY Shapes
<1> QED BY <1>1 DEF Carry

\* A setter or a state change that alters the placement: the next
\* generation, in which nothing was carried yet.
LEMMA ResetStep ==
  ASSUME Inv, ElementTypeOK',
         stream'.generation = stream.generation + 1,
         stream'.payloadGen = stream.payloadGen,
         stream'.packet = stream.packet,
         ~ stream'.delivered, stream'.embedded = 0,
         UNCHANGED <<frame, carries>>
  PROVE  Inv'
<1> USE DEF Inv
<1>1. stream'.generation \in 0..MaxGeneration
  BY DEF ElementTypeOK, StreamState
<1>2. carries[stream'.generation] = <<>>
  BY <1>1, Shapes DEF Past
<1>3. Sound(stream)'
  BY <1>2 DEF Sound
<1>4. InFlight'
  <2> SUFFICES ASSUME frame # NoBuffer
               PROVE  (Sound(frame.snap) /\ Agree(frame.snap)
                        /\ (frame.at = "placing" => frame.snap.key # Unset))'
    BY DEF InFlight, NoBuffer
  <2>1. Sound(frame.snap)'
    BY DEF InFlight, Sound, CarriedUnder
  <2>2. Agree(frame.snap)'
    BY Shapes DEF InFlight, Agree
  <2> QED BY <2>1, <2>2 DEF InFlight
<1>5. Past'
  BY Shapes DEF Past
<1>6. (FrameTimeline /\ OnePlacement /\ DeliversOnce)'
  BY DEF FrameTimeline, OnePlacement, DeliversOnce
<1> QED BY <1>3, <1>4, <1>5, <1>6

\* Another packet: the next payload generation, of which nothing was
\* carried yet.
LEMMA ReplaceStep ==
  ASSUME Inv, ElementTypeOK',
         stream'.payloadGen = stream.payloadGen + 1,
         stream'.generation = stream.generation,
         stream'.key = stream.key, stream'.bits = stream.bits,
         stream'.embedded = stream.embedded,
         ~ stream'.delivered,
         UNCHANGED <<frame, carries>>
  PROVE  Inv'
<1> USE DEF Inv
<1>1. \A i \in DOMAIN carries[stream.generation] :
        carries[stream.generation][i].payloadGen \in Nat
  BY Shapes, CarryTypes
<1>2. Sound(stream)'
  BY <1>1, Shapes DEF Sound, Past
<1>3. InFlight'
  <2> SUFFICES ASSUME frame # NoBuffer
               PROVE  (Sound(frame.snap) /\ Agree(frame.snap)
                        /\ (frame.at = "placing" => frame.snap.key # Unset))'
    BY DEF InFlight, NoBuffer
  <2>1. Sound(frame.snap)'
    BY DEF InFlight, Sound, CarriedUnder
  <2>2. Agree(frame.snap)'
    BY Shapes DEF InFlight, Agree
  <2> QED BY <2>1, <2>2 DEF InFlight
<1>4. Past'
  <2>1. \A g \in 0..MaxGeneration : \A i \in DOMAIN carries[g] :
          carries[g][i].payloadGen \in Nat
    BY CarryTypes
  <2> QED BY <2>1, Shapes DEF Past
<1>5. (FrameTimeline /\ OnePlacement /\ DeliversOnce)'
  BY DEF FrameTimeline, OnePlacement, DeliversOnce
<1> QED BY <1>2, <1>3, <1>4, <1>5

\* A step that leaves alone all that Inv reads of the record, and lets the
\* buffer go or keeps its snapshot.
LEMMA FlagStep ==
  ASSUME Inv, ElementTypeOK',
         stream'.payloadGen = stream.payloadGen,
         stream'.generation = stream.generation,
         stream'.packet = stream.packet,
         stream'.key = stream.key, stream'.bits = stream.bits,
         stream'.embedded = stream.embedded,
         stream'.delivered = stream.delivered,
         UNCHANGED carries,
         frame' # NoBuffer =>
           /\ frame # NoBuffer /\ frame'.snap = frame.snap
           /\ frame'.at = "placing" => frame.snap.key # Unset
  PROVE  Inv'
<1> USE DEF Inv
<1>1. Sound(stream)'
  BY DEF Sound, CarriedUnder
<1>2. InFlight'
  <2> SUFFICES ASSUME frame' # NoBuffer
               PROVE  (Sound(frame.snap) /\ Agree(frame.snap)
                        /\ (frame.at = "placing" => frame.snap.key # Unset))'
    BY DEF InFlight, NoBuffer
  <2>1. Sound(frame.snap)'
    BY DEF InFlight, Sound, CarriedUnder
  <2>2. Agree(frame.snap)'
    BY DEF InFlight, Agree
  <2> QED BY <2>1, <2>2
<1>3. Past'
  BY DEF Past
<1>4. (FrameTimeline /\ OnePlacement /\ DeliversOnce)'
  BY DEF FrameTimeline, OnePlacement, DeliversOnce
<1> QED BY <1>1, <1>2, <1>3, <1>4

\* What StreamComplete does to the record, field by field.
LEMMA Completed ==
  ASSUME NEW s \in StreamState, NEW snap \in StreamState,
         NEW delivered \in BOOLEAN
  PROVE  LET t == StreamComplete(s, snap, delivered)
         IN /\ t.packet = s.packet /\ t.key = s.key /\ t.bits = s.bits
            /\ t.generation = s.generation /\ t.payloadGen = s.payloadGen
            /\ s.generation # snap.generation =>
                 t.embedded = s.embedded /\ t.delivered = s.delivered
            /\ s.generation = snap.generation =>
                 /\ t.embedded = s.embedded + 1
                 /\ t.delivered <=>
                      s.delivered \/ (delivered /\ s.payloadGen = snap.payloadGen)
<1> DEFINE t == StreamComplete(s, snap, delivered)
<1>1. CASE s.generation # snap.generation
  BY <1>1 DEF StreamComplete
<1>2. CASE s.generation = snap.generation
  <2>1. /\ t.packet = s.packet /\ t.key = s.key /\ t.bits = s.bits
        /\ t.generation = s.generation /\ t.payloadGen = s.payloadGen
    BY <1>2 DEF StreamComplete, StreamState
  <2>2. t.embedded = s.embedded + 1
    BY <1>2 DEF StreamComplete, StreamState
  <2>3. t.delivered <=>
          s.delivered \/ (delivered /\ s.payloadGen = snap.payloadGen)
    BY <1>2 DEF StreamComplete, StreamState
  <2> QED BY <1>2, <2>1, <2>2, <2>3
<1> QED BY <1>1, <1>2

\* A cleared buffer is counted, in a generation that is sequential.
LEMMA ClearStep ==
  ASSUME Inv, ElementTypeOK', ClearSlots
  PROVE  Inv'
<1> USE DEF Inv
<1>1. frame # NoBuffer
  BY DEF ClearSlots, NoBuffer
<1>2. /\ frame.snap \in StreamState /\ stream \in StreamState
      /\ frame.snap.key = Unset /\ frame' = NoBuffer /\ UNCHANGED carries
      /\ stream' = StreamComplete(stream, frame.snap, FALSE)
  BY <1>1, Shapes DEF ClearSlots, ElementTypeOK
<1>3. /\ stream'.packet = stream.packet /\ stream'.key = stream.key
      /\ stream'.bits = stream.bits
      /\ stream'.generation = stream.generation
      /\ stream'.payloadGen = stream.payloadGen
      /\ stream'.delivered <=> stream.delivered
      /\ stream'.embedded = stream.embedded \/ stream.key = Unset
  <2>1. frame.snap.generation = stream.generation => stream.key = Unset
    BY <1>1, <1>2 DEF InFlight, Agree
  <2> QED BY <1>2, <2>1, Completed
<1>4. Sound(stream)'
  BY <1>2, <1>3 DEF Sound, CarriedUnder
<1>5. InFlight'
  BY <1>2 DEF InFlight, NoBuffer
<1>6. Past'
  BY <1>2, <1>3 DEF Past
<1>7. (FrameTimeline /\ OnePlacement /\ DeliversOnce)'
  BY <1>2 DEF FrameTimeline, OnePlacement, DeliversOnce
<1> QED BY <1>4, <1>5, <1>6, <1>7

\* An embedded buffer is appended to its generation, which may be over.
LEMMA EmbedStep ==
  ASSUME Inv, ElementTypeOK', Embed
  PROVE  Inv'
<1> USE DEF Inv
<1> DEFINE snap == frame.snap
           g == snap.generation
           n == Len(carries[g])
<1>1. /\ frame # NoBuffer /\ frame' = NoBuffer
      /\ stream' = StreamComplete(stream, snap, TRUE)
      /\ carries' = [carries EXCEPT ![g] = Append(@, CarryOf(snap))]
      /\ snap.clear /\ snap.delivered => frame.at = "placing"
  BY DEF Embed, Placing, NoBuffer, AlreadyDelivered
<1>2. /\ snap \in StreamState /\ stream \in StreamState
      /\ g \in 0..MaxGeneration /\ carries[g] \in Seq(Carry)
      /\ carries \in [0..MaxGeneration -> Seq(Carry)]
      /\ stream.generation \in 0..MaxGeneration /\ n \in Nat
      /\ snap.embedded \in Nat /\ stream.embedded \in Nat
  BY <1>1, Shapes DEF ElementTypeOK
<1>3. Sound(snap) /\ Agree(snap) /\ (frame.at = "placing" => snap.key # Unset)
  BY <1>1 DEF InFlight
<1>4. /\ \A h \in 0..MaxGeneration : h # g => carries'[h] = carries[h]
      /\ carries'[g] = Append(carries[g], CarryOf(snap))
  BY <1>1, <1>2
<1>5. /\ DOMAIN carries'[g] = 1..(n + 1) /\ Len(carries'[g]) = n + 1
      /\ DOMAIN carries[g] = 1..n
      /\ \A i \in 1..n : carries'[g][i] = carries[g][i]
      /\ carries'[g][n + 1] = CarryOf(snap)
  BY <1>2, <1>4
<1>6. /\ CarryOf(snap).packet = snap.packet /\ CarryOf(snap).key = snap.key
      /\ CarryOf(snap).bits = snap.bits /\ CarryOf(snap).clear = snap.clear
      /\ CarryOf(snap).payloadGen = snap.payloadGen
      /\ CarryOf(snap).index = snap.embedded
  BY DEF CarryOf
<1>7. /\ stream'.packet = stream.packet /\ stream'.key = stream.key
      /\ stream'.bits = stream.bits
      /\ stream'.generation = stream.generation
      /\ stream'.payloadGen = stream.payloadGen
      /\ stream.generation # g =>
           stream'.embedded = stream.embedded /\ stream'.delivered = stream.delivered
      /\ stream.generation = g =>
           /\ stream'.embedded = stream.embedded + 1
           /\ stream'.delivered <=>
                stream.delivered \/ stream.payloadGen = snap.payloadGen
  <2> DEFINE t == StreamComplete(stream, snap, TRUE)
  <2>1. /\ t.packet = stream.packet /\ t.key = stream.key
        /\ t.bits = stream.bits /\ t.generation = stream.generation
        /\ t.payloadGen = stream.payloadGen
    BY <1>2, Completed
  <2>2. stream.generation # g =>
          t.embedded = stream.embedded /\ t.delivered = stream.delivered
    BY <1>2, Completed
  <2>3. stream.generation = g =>
          /\ t.embedded = stream.embedded + 1
          /\ t.delivered <=>
               stream.delivered \/ stream.payloadGen = snap.payloadGen
    <3> SUFFICES ASSUME stream.generation = g
                 PROVE  /\ t.embedded = stream.embedded + 1
                        /\ t.delivered <=>
                             stream.delivered \/ stream.payloadGen = snap.payloadGen
      OBVIOUS
    <3>1. t.embedded = stream.embedded + 1
      BY <1>2, Completed
    <3>2. t.delivered <=>
            stream.delivered \/ stream.payloadGen = snap.payloadGen
      BY <1>2 DEF StreamComplete, StreamState
    <3> QED BY <3>1, <3>2
  <2> HIDE DEF t
  <2>4. stream' = t
    BY <1>1 DEF t
  <2> QED BY <2>1, <2>2, <2>3, <2>4
<1>8. Sound(stream)'
  <2>1. CASE stream.generation # g
    <3>1. carries'[stream'.generation] = carries[stream.generation]
      BY <2>1, <1>2, <1>4, <1>7
    <3>2. /\ stream'.embedded = stream.embedded
          /\ stream'.delivered = stream.delivered
      BY <2>1, <1>7
    <3>3. stream.delivered => CarriedUnder(stream)'
      BY <3>1, <1>7 DEF Sound, CarriedUnder
    <3> QED BY <3>1, <3>2, <3>3, <1>7 DEF Sound
  <2>2. CASE stream.generation = g
    <3>1. snap.key = stream.key /\ snap.bits = stream.bits
      BY <2>2, <1>3 DEF Agree
    <3>2. (stream.delivered \/ stream.payloadGen = snap.payloadGen)
            => CarriedUnder(stream)'
      <4>1. CASE stream.delivered
        <5>1. PICK i \in 1..n :
                LET c == carries[g][i]
                IN c.packet = stream.packet /\ c.key = stream.key
                     /\ c.bits = stream.bits
          BY <4>1, <2>2, <1>5 DEF Sound, CarriedUnder
        <5>2. i \in DOMAIN carries'[g] /\ carries'[g][i] = carries[g][i]
          BY <1>2, <1>5
        <5> QED BY <5>1, <5>2, <1>7, <2>2 DEF CarriedUnder
      <4>2. CASE stream.payloadGen = snap.payloadGen
        <5>1. snap.packet = stream.packet
          BY <4>2, <1>3 DEF Agree
        <5>2. n + 1 \in DOMAIN carries'[g]
          BY <1>2, <1>5
        <5> QED BY <5>1, <5>2, <3>1, <1>5, <1>6, <1>7, <2>2 DEF CarriedUnder
      <4> QED BY <4>1, <4>2
    <3>3. ASSUME NEW i \in 1..(n + 1)
          PROVE  LET c == carries'[g][i]
                 IN /\ c.key = stream.key /\ c.bits = stream.bits
                    /\ c.payloadGen = stream.payloadGen =>
                         stream.delivered \/ stream.payloadGen = snap.payloadGen
      <4>1. CASE i = n + 1
        BY <4>1, <3>1, <1>5, <1>6
      <4>2. CASE i \in 1..n
        BY <4>2, <2>2, <1>5 DEF Sound
      <4> QED BY <4>1, <4>2, <1>2
    <3>4. stream.key # Unset => Len(carries'[g]) = stream'.embedded
      BY <2>2, <1>2, <1>5, <1>7 DEF Sound
    <3> QED BY <3>2, <3>3, <3>4, <2>2, <1>5, <1>7 DEF Sound
  <2> QED BY <2>1, <2>2
<1>9. InFlight'
  BY <1>1 DEF InFlight
<1>10. Past'
  <2>1. ASSUME NEW h \in 0..MaxGeneration, h > stream.generation
        PROVE  carries'[h] = <<>>
    BY <2>1, <1>2, <1>3, <1>4 DEF Agree, Past
  <2>2. ASSUME NEW h \in 0..MaxGeneration, NEW i \in DOMAIN carries'[h]
        PROVE  carries'[h][i].payloadGen <= stream.payloadGen
    <3>1. CASE h # g
      BY <3>1, <2>2, <1>4 DEF Past
    <3>2. CASE h = g /\ i = n + 1
      BY <3>2, <1>3, <1>5, <1>6 DEF Agree
    <3>3. CASE h = g /\ i # n + 1
      BY <3>3, <2>2, <1>2, <1>5 DEF Past
    <3> QED BY <3>1, <3>2, <3>3
  <2> QED BY <2>1, <2>2, <1>7 DEF Past
<1>11. FrameTimeline'
  <2> SUFFICES ASSUME NEW h \in 0..MaxGeneration, NEW i \in DOMAIN carries'[h],
                      carries'[h][i].key # Unset
               PROVE  carries'[h][i].index + 1 = i
    BY DEF FrameTimeline
  <2>1. CASE h # g
    BY <2>1, <1>4 DEF FrameTimeline
  <2>2. CASE h = g /\ i = n + 1
    BY <2>2, <1>2, <1>3, <1>5, <1>6 DEF Sound
  <2>3. CASE h = g /\ i # n + 1
    BY <2>3, <1>2, <1>5 DEF FrameTimeline
  <2> QED BY <2>1, <2>2, <2>3
<1>12. OnePlacement'
  <2> SUFFICES ASSUME NEW h \in 0..MaxGeneration,
                      NEW i \in DOMAIN carries'[h], NEW j \in DOMAIN carries'[h]
               PROVE  /\ carries'[h][i].key = carries'[h][j].key
                      /\ carries'[h][i].bits = carries'[h][j].bits
    BY DEF OnePlacement
  <2>1. CASE h # g
    BY <2>1, <1>4 DEF OnePlacement
  <2>2. \A k \in 1..(n + 1) :
          carries'[g][k].key = snap.key /\ carries'[g][k].bits = snap.bits
    <3> SUFFICES ASSUME NEW k \in 1..(n + 1)
                 PROVE  carries'[g][k].key = snap.key /\ carries'[g][k].bits = snap.bits
      OBVIOUS
    <3>0. \A l \in 1..n :
            carries[g][l].key = snap.key /\ carries[g][l].bits = snap.bits
      BY <1>3, <1>5 DEF Sound
    <3>1. CASE k = n + 1
      BY <3>1, <1>5, <1>6
    <3>2. CASE k \in 1..n
      BY <3>2, <3>0, <1>5
    <3> QED BY <3>1, <3>2, <1>2
  <2> QED BY <2>1, <2>2, <1>5
<1>13. DeliversOnce'
  <2> SUFFICES ASSUME NEW h \in 0..MaxGeneration,
                      NEW i \in DOMAIN carries'[h], NEW j \in DOMAIN carries'[h],
                      carries'[h][i].key = Unset,
                      carries'[h][i].clear, carries'[h][j].clear,
                      carries'[h][i].payloadGen = carries'[h][j].payloadGen
               PROVE  i = j
    BY DEF DeliversOnce
  <2>1. CASE h # g
    BY <2>1, <1>4 DEF DeliversOnce
  <2>2. ASSUME NEW k \in 1..n, snap.clear,
               carries[g][k].payloadGen = snap.payloadGen
        PROVE  snap.key # Unset
    BY <2>2, <1>1, <1>3, <1>5 DEF Sound
  <2>3. CASE h = g
    <3>1. i \in 1..n \cup {n + 1} /\ j \in 1..n \cup {n + 1}
      <4>1. i \in DOMAIN carries'[g] /\ j \in DOMAIN carries'[g]
        BY <2>3
      <4>2. 1..(n + 1) = 1..n \cup {n + 1}
        BY <1>2
      <4> QED BY <4>1, <4>2, <1>5
    <3>2. \A k \in 1..n : carries[g][k].key = snap.key
      BY <1>3, <1>5 DEF Sound
    <3>3. CASE i = n + 1 /\ j = n + 1
      BY <3>3
    <3>4. CASE i = n + 1 /\ j \in 1..n
      BY <3>4, <2>2, <2>3, <1>5, <1>6
    <3>5. CASE i \in 1..n /\ j = n + 1
      BY <3>5, <2>2, <2>3, <3>2, <1>5, <1>6
    <3>6. CASE i \in 1..n /\ j \in 1..n
      <4>1. carries'[g][i] = carries[g][i] /\ carries'[g][j] = carries[g][j]
        BY <3>6, <1>5
      <4>2. i \in DOMAIN carries[g] /\ j \in DOMAIN carries[g]
        BY <3>6, <1>5
      <4>3. carries'[h] = carries'[g]
        BY <2>3
      <4>4. /\ carries[g][i].key = Unset
            /\ carries[g][i].clear /\ carries[g][j].clear
            /\ carries[g][i].payloadGen = carries[g][j].payloadGen
        BY <4>1, <4>3
      <4> QED BY <4>2, <4>4, <1>2 DEF DeliversOnce
    <3> QED BY <3>1, <3>3, <3>4, <3>5, <3>6
  <2> QED BY <2>1, <2>3
<1> QED BY <1>8, <1>9, <1>10, <1>11, <1>12, <1>13

LEMMA StepKeepsInv ==
  ASSUME Inv, ElementTypeOK', [ElementNext]_elementVars
  PROVE  Inv'
<1>1. stream \in StreamState /\ frame \in Frames
  BY DEF Inv, ElementTypeOK
<1>2. frame.at # "idle" => frame # NoBuffer
  BY DEF NoBuffer
<1>3. ASSUME stream' = stream, UNCHANGED carries,
             frame' # NoBuffer =>
               /\ frame # NoBuffer /\ frame'.snap = frame.snap
               /\ frame'.at = "placing" => frame.snap.key # Unset
      PROVE  Inv'
  BY <1>3, FlagStep
<1>4. ASSUME NEW key \in Keys, SetKey(key) PROVE Inv'
  <2>1. /\ stream'.generation = stream.generation + 1
        /\ stream'.payloadGen = stream.payloadGen
        /\ stream'.packet = stream.packet
        /\ ~ stream'.delivered /\ stream'.embedded = 0
    BY <1>1, <1>4 DEF SetKey, ResetProgress, StreamState
  <2> QED BY <2>1, <1>4, ResetStep DEF SetKey
<1>5. CASE ClearKey
  <2>1. /\ stream'.generation = stream.generation + 1
        /\ stream'.payloadGen = stream.payloadGen
        /\ stream'.packet = stream.packet
        /\ ~ stream'.delivered /\ stream'.embedded = 0
    BY <1>1, <1>5 DEF ClearKey, ResetProgress, StreamState
  <2> QED BY <2>1, <1>5, ResetStep DEF ClearKey
<1>6. ASSUME NEW packet \in LivePackets \cup {Unset}, SetPacket(packet) PROVE Inv'
  <2>1. /\ stream'.payloadGen = stream.payloadGen + 1
        /\ stream'.generation = stream.generation
        /\ stream'.key = stream.key /\ stream'.bits = stream.bits
        /\ stream'.embedded = stream.embedded /\ ~ stream'.delivered
    BY <1>1, <1>6 DEF SetPacket, ReplacePacket, StreamState
  <2> QED BY <2>1, <1>6, ReplaceStep DEF SetPacket
<1>7. CASE SetClearPayload
  <2>1. /\ stream'.payloadGen = stream.payloadGen
        /\ stream'.generation = stream.generation
        /\ stream'.packet = stream.packet
        /\ stream'.key = stream.key /\ stream'.bits = stream.bits
        /\ stream'.embedded = stream.embedded
        /\ stream'.delivered = stream.delivered
    BY <1>1, <1>7 DEF SetClearPayload, StreamState
  <2>2. UNCHANGED <<frame, carries>>
    BY <1>7 DEF SetClearPayload
  <2>3. frame # NoBuffer => (frame.at = "placing" => frame.snap.key # Unset)
    BY DEF Inv, InFlight
  <2> QED BY <2>1, <2>2, <2>3, FlagStep
<1>8. ASSUME NEW bits \in Bits, SetBits(bits) PROVE Inv'
  <2>1. /\ stream'.generation = stream.generation + 1
        /\ stream'.payloadGen = stream.payloadGen
        /\ stream'.packet = stream.packet
        /\ ~ stream'.delivered /\ stream'.embedded = 0
    BY <1>1, <1>8 DEF SetBits, ResetProgress, StreamState
  <2> QED BY <2>1, <1>8, ResetStep DEF SetBits
<1>9. CASE Start \/ Stop
  <2>1. /\ stream'.generation = stream.generation + 1
        /\ stream'.payloadGen = stream.payloadGen
        /\ stream'.packet = stream.packet
        /\ ~ stream'.delivered /\ stream'.embedded = 0
    BY <1>1, <1>9 DEF Start, Stop, ResetProgress, StreamState
  <2>2. UNCHANGED <<frame, carries>>
    BY <1>9 DEF Start, Stop
  <2> QED BY <2>1, <2>2, ResetStep
<1>10. ASSUME NEW caps \in {"packed", "unsupported"}, SetCaps(caps) PROVE Inv'
  BY <1>3, <1>10 DEF SetCaps
<1>11. CASE TransformIp
  <2>1. /\ frame' # NoBuffer /\ frame'.snap = stream /\ frame'.at = "snapped"
        /\ UNCHANGED <<stream, carries>>
    BY <1>11 DEF TransformIp, NoBuffer
  <2>2. Sound(frame.snap)'
    BY <2>1 DEF Inv, Sound, CarriedUnder
  <2>3. Agree(frame.snap)'
    BY <2>1, <1>1 DEF Agree, StreamState
  <2>4. InFlight'
    BY <2>1, <2>2, <2>3 DEF InFlight
  <2>5. Sound(stream)'
    BY <2>1 DEF Inv, Sound, CarriedUnder
  <2> QED BY <2>1, <2>4, <2>5
          DEF Inv, Past, FrameTimeline, OnePlacement, DeliversOnce
<1>12. CASE PassOrFail \/ Refused
  BY <1>3, <1>12 DEF PassOrFail, Refused
<1>13. CASE Unsupported \/ BadLength \/ TooSmall
  <2>1. /\ frame # NoBuffer /\ frame'.snap = frame.snap /\ frame'.at = "skipping"
        /\ UNCHANGED <<stream, carries>>
    BY <1>2, <1>13 DEF Unsupported, BadLength, TooSmall, Leave, Placing
  <2> QED BY <2>1, <1>3
<1>14. CASE Map
  <2>1. frame # NoBuffer /\ UNCHANGED <<stream, carries>>
    BY <1>2, <1>14 DEF Map
  <2>2. frame \in [at : {"snapped", "mapped", "placing"}, snap : StreamState]
    BY <1>1, <1>14 DEF Map, Frames, NoBuffer
  <2>3. frame'.snap = frame.snap /\ frame'.at = "mapped"
    BY <2>2, <1>14 DEF Map
  <2> QED BY <2>1, <2>3, <1>3
<1>15. CASE Skip
  <2>1. /\ stream'.payloadGen = stream.payloadGen
        /\ stream'.generation = stream.generation
        /\ stream'.packet = stream.packet
        /\ stream'.key = stream.key /\ stream'.bits = stream.bits
        /\ stream'.embedded = stream.embedded
        /\ stream'.delivered = stream.delivered
    BY <1>1, <1>15 DEF Skip, NoteSkip, StreamState
  <2> QED BY <2>1, <1>15, FlagStep DEF Skip
<1>16. CASE WarnKeyedClear
  <2>1. /\ stream'.payloadGen = stream.payloadGen
        /\ stream'.generation = stream.generation
        /\ stream'.packet = stream.packet
        /\ stream'.key = stream.key /\ stream'.bits = stream.bits
        /\ stream'.embedded = stream.embedded
        /\ stream'.delivered = stream.delivered
    BY <1>1, <1>16 DEF WarnKeyedClear, NoteSkip, StreamState
  <2>2. frame \in [at : {"snapped", "mapped", "placing"}, snap : StreamState]
    BY <1>1, <1>16 DEF WarnKeyedClear, Frames, NoBuffer
  <2>3. frame # NoBuffer /\ frame'.snap = frame.snap /\ frame.snap.key # Unset
    BY <2>2, <1>2, <1>16 DEF WarnKeyedClear
  <2>4. UNCHANGED carries
    BY <1>16 DEF WarnKeyedClear
  <2> QED BY <2>1, <2>3, <2>4, FlagStep
<1>17. CASE ClearSlots
  BY <1>17, ClearStep
<1>18. CASE Embed
  BY <1>18, EmbedStep
<1>19. CASE UNCHANGED elementVars
  <2>1. frame # NoBuffer => (frame.at = "placing" => frame.snap.key # Unset)
    BY DEF Inv, InFlight
  <2> QED BY <2>1, <1>3, <1>19 DEF elementVars
<1> QED
  BY <1>4, <1>5, <1>6, <1>7, <1>8, <1>9, <1>10, <1>11, <1>12, <1>13, <1>14,
     <1>15, <1>16, <1>17, <1>18, <1>19
     DEF ElementNext, SetProperty, Lifecycle, Transform

LEMMA InvHolds == ElementSpec => []Inv
<1>1. ElementInit /\ ElementTypeOK => Inv
  <2> SUFFICES ASSUME ElementInit, ElementTypeOK PROVE Inv
    OBVIOUS
  <2>1. \A g \in 0..MaxGeneration : carries[g] = <<>>
    BY DEF ElementInit
  <2>2. carries[stream.generation] = <<>> /\ stream.key = Unset /\ ~ stream.delivered
    BY <2>1, BoundAssumption DEF ElementInit
  <2>3. frame = NoBuffer
    BY DEF ElementInit
  <2> QED BY <2>1, <2>2, <2>3 DEF Inv, Sound, InFlight, Past, FrameTimeline,
                                   OnePlacement, DeliversOnce
<1>2. Inv /\ ElementTypeOK' /\ [ElementNext]_elementVars => Inv'
  BY StepKeepsInv
<1> QED BY <1>1, <1>2, TypeCorrect, PTL DEF ElementSpec

\* A payload marked as delivered was carried with the key and bits in force,
\* for any number of keys, packets and generations.
THEOREM DeliveryIsTruthful == ElementSpec => []DeliveredMeansCarried
<1>1. Inv => DeliveredMeansCarried
  BY DEF Inv, InFlight, Sound, DeliveredMeansCarried
<1> QED BY <1>1, InvHolds, PTL

\* No frame index of a placement generation is skipped or used twice.
THEOREM TimelineIsDense == ElementSpec => []FrameTimeline
<1>1. Inv => FrameTimeline
  BY DEF Inv
<1> QED BY <1>1, InvHolds, PTL

\* A placement generation has one key and one bits-per-unit.
THEOREM PlacementIsOne == ElementSpec => []OnePlacement
<1>1. Inv => OnePlacement
  BY DEF Inv
<1> QED BY <1>1, InvHolds, PTL

\* A payload to be cleared is carried at most once in a generation.
THEOREM DeliveryIsOnce == ElementSpec => []DeliversOnce
<1>1. Inv => DeliversOnce
  BY DEF Inv
<1> QED BY <1>1, InvHolds, PTL

\* A recipient that reads the keyed frames of a generation in order, with one key
\* and one bits-per-unit, finds each at the index it was embedded with.
THEOREM TimelineIsDecodable == ElementSpec => []DecodableTimeline
<1>1. Inv => DecodableTimeline
  BY DEF Inv, DecodableTimeline
<1> QED BY <1>1, InvHolds, PTL
=============================================================================
