----------------------------- MODULE EventProofs -----------------------------
(***************************************************************************)
(* The safety of what events go through: NodeConn, for every buffer length *)
(* and every sequence of socket events; Framing, for every stream of       *)
(* texts; and Emitter, for every set of events, of listeners and of calls  *)
(* of once(), and for emissions of any depth.                              *)
(*                                                                         *)
(* The argument for NodeConn: the chunks tile the bytes between what was   *)
(* read and what was received, and a read is pending only when there are   *)
(* no chunks; so a data event that is handed over directly continues what  *)
(* was read, and so does the first chunk.                                  *)
(*                                                                         *)
(* The argument for Framing: what has been emitted and kept is at any time *)
(* that of the bytes read, of which each begins a letter that is there     *)
(* whole, begins one that was cut, or adds nothing (Framed).  A read adds  *)
(* its bytes one after the other, and parseChunk() of an input with one    *)
(* character more completes a line or does not; so it keeps this whatever  *)
(* the cuts are.                                                           *)
(***************************************************************************)
EXTENDS Framing, Emitter, Induction

IInv == TypeOK /\ WaitsForNews /\ ChunksAreTheRest

LEMMA BytesFacts ==
  ASSUME NEW bytes \in Bytes, bytes.first <= bytes.last
  PROVE  /\ First(bytes) \in Bytes
         /\ First(bytes).first = bytes.first
         /\ First(bytes).last + 1 - bytes.first \in 1 .. BufferLength
         /\ Fits(bytes) => First(bytes) = bytes
         /\ ~Fits(bytes) => /\ Rest(bytes) \in Bytes
                            /\ Rest(bytes).first = First(bytes).last + 1
                            /\ Rest(bytes).first <= Rest(bytes).last
                            /\ Rest(bytes).last = bytes.last
  <1>1. /\ bytes.first \in Nat \ {0}
        /\ bytes.last \in Nat
        /\ bytes = [first |-> bytes.first, last |-> bytes.last]
    BY DEF Bytes
  <1>2. CASE Fits(bytes)
    BY <1>1, <1>2, NodeConnAssumption DEF First, Fits, Length, Bytes
  <1>3. CASE ~Fits(bytes)
    BY <1>1, <1>3, NodeConnAssumption DEF First, Rest, Fits, Length, Bytes
  <1> QED  BY <1>2, <1>3

LEMMA InitInv == Init => IInv
  <1> SUFFICES ASSUME Init PROVE IInv
    OBVIOUS
  <1>1. chunks = <<>> /\ Len(chunks) = 0 /\ chunks \in Seq(Bytes)
    BY DEF Init
  <1>2. TypeOK
    <2>1. [first |-> 1, last |-> 0] \in Bytes
      BY DEF Bytes
    <2> QED  BY <1>1, <2>1 DEF Init, TypeOK, Wire
  <1>3. ChunksAreTheRest
    BY <1>1 DEF Init, ChunksAreTheRest, NextFirst
  <1> QED  BY <1>2, <1>3 DEF Init, IInv, WaitsForNews

(* A step that leaves the chunks and the last delivery alone.              *)
LEMMA SameBytes ==
  ASSUME IInv, UNCHANGED <<chunks, sent, delivered>>
  PROVE  ChunksAreTheRest'
  BY DEF IInv, ChunksAreTheRest, NextFirst

(* A step that hands bytes over or stores them.                            *)
LEMMA KeepsType ==
  ASSUME IInv,
         chunks' \in Seq(Bytes), delivered' \in Bytes, sent' \in Nat,
         pendingRead' \in BOOLEAN,
         outcome' = outcome, ended' = ended, error' = error, wire' = wire
  PROVE  TypeOK'
  <1>1. ended' \in BOOLEAN /\ error' \in BOOLEAN
    BY DEF IInv, TypeOK
  <1>2. wire' \in Wire /\ outcome' \in {"none", "null", "error"}
    BY DEF IInv, TypeOK
  <1> QED  BY <1>1, <1>2 DEF TypeOK

LEMMA OnDataInv ==
  ASSUME IInv, NEW n \in 1 .. MaxData, OnData(n)
  PROVE  IInv'
  <1> DEFINE data == [first |-> sent + 1, last |-> sent + n]
  <1>1. /\ data \in Bytes
        /\ data.first <= data.last
        /\ n \in Nat
        /\ sent \in Nat
    BY NodeConnAssumption DEF IInv, TypeOK, Bytes
  <1>2. CASE pendingRead
    <2>1. /\ chunks = <<>>
          /\ delivered.last = sent
      BY <1>2 DEF IInv, WaitsForNews, ChunksAreTheRest, NextFirst, TypeOK, Bytes
    <2>2. /\ pendingRead' = FALSE
          /\ delivered' = First(data)
          /\ outcome' = outcome
          /\ chunks' = IF Fits(data) THEN <<>> ELSE <<Rest(data)>>
          /\ sent' = sent + n
          /\ UNCHANGED <<ended, error, wire>>
      BY <1>2, <2>1 DEF OnData, Deliver
    <2>3. CASE Fits(data)
      <3>1. chunks' = <<>> /\ delivered' = data
        BY <2>2, <2>3, <1>1, BytesFacts
      <3> HIDE DEF data
      <3>2. TypeOK'
        <4>1. chunks' \in Seq(Bytes)
          BY <3>1
        <4>2. delivered' \in Bytes /\ sent' \in Nat
          BY <1>1, <2>2, <3>1
        <4> QED  BY <2>2, <4>1, <4>2, KeepsType
      <3>3. ChunksAreTheRest'
        <4>1. delivered'.last = sent + n
          BY <3>1 DEF data
        <4>2. Len(chunks') = 0
          BY <3>1
        <4> QED  BY <1>1, <2>2, <4>1, <4>2 DEF ChunksAreTheRest, NextFirst
      <3> QED  BY <2>2, <3>2, <3>3 DEF IInv, WaitsForNews
    <2>4. CASE ~Fits(data)
      <3>1. /\ chunks' = <<Rest(data)>>
            /\ First(data) \in Bytes
            /\ Rest(data) \in Bytes
            /\ Rest(data).first = First(data).last + 1
            /\ Rest(data).first <= Rest(data).last
            /\ Rest(data).last = sent + n
        BY <2>2, <2>4, <1>1, BytesFacts
      <3> HIDE DEF data
      <3>2. chunks' \in Seq(Bytes) /\ Len(chunks') = 1 /\ chunks'[1] = Rest(data)
        <4> DEFINE rest == Rest(data)
        <4>1. rest \in Bytes /\ chunks' = <<rest>>
          BY <3>1
        <4> HIDE DEF rest
        <4>2. chunks' \in Seq(Bytes) /\ Len(chunks') = 1 /\ chunks'[1] = rest
          BY <4>1
        <4> QED  BY <4>2 DEF rest
      <3>3. TypeOK'
        <4>1. delivered' \in Bytes /\ sent' \in Nat
          BY <1>1, <2>2, <3>1
        <4> QED  BY <2>2, <3>2, <4>1, KeepsType
      <3>4. ChunksAreTheRest'
        BY <1>1, <2>2, <3>1, <3>2 DEF ChunksAreTheRest, NextFirst, Bytes
      <3> QED  BY <2>2, <3>3, <3>4 DEF IInv, WaitsForNews
    <2> QED  BY <2>3, <2>4
  <1>3. CASE ~pendingRead
    <2>1. /\ chunks' = Append(chunks, data)
          /\ UNCHANGED <<pendingRead, delivered, outcome>>
          /\ sent' = sent + n
          /\ UNCHANGED <<ended, error, wire>>
      BY <1>3 DEF OnData, readVars
    <2>2. data.first = sent + 1 /\ data.last = sent + n
      OBVIOUS
    <2> HIDE DEF data
    <2>3. /\ chunks \in Seq(Bytes)
          /\ Len(chunks) \in Nat
          /\ chunks' \in Seq(Bytes)
          /\ Len(chunks') = Len(chunks) + 1
          /\ \A i \in 1 .. Len(chunks) : chunks'[i] = chunks[i]
          /\ chunks'[Len(chunks) + 1] = data
      BY <1>1, <2>1 DEF IInv, TypeOK
    <2>4. TypeOK'
      <3>1. pendingRead' \in BOOLEAN /\ delivered' \in Bytes /\ sent' \in Nat
        BY <1>1, <2>1 DEF IInv, TypeOK
      <3> QED  BY <2>1, <2>3, <3>1, KeepsType
    <2>5. ChunksAreTheRest'
      <3>1. NextFirst(0)' = delivered'.last + 1
        BY <1>1, <2>1, <2>2, <2>3 DEF IInv, ChunksAreTheRest, NextFirst, TypeOK, Bytes
      <3>2. ASSUME NEW i \in 1 .. Len(chunks')
            PROVE  chunks'[i].first <= chunks'[i].last /\ NextFirst(i)' = chunks'[i].last + 1
        <4>1. CASE i = Len(chunks')
          BY <1>1, <2>1, <2>2, <2>3, <4>1 DEF NextFirst
        <4>2. CASE i = Len(chunks)
          BY <1>1, <2>1, <2>2, <2>3, <4>2 DEF IInv, ChunksAreTheRest, NextFirst, TypeOK, Bytes
        <4>3. CASE i \in 1 .. Len(chunks) - 1
          <5>1. /\ i \in 1 .. Len(chunks)
                /\ i + 1 \in 1 .. Len(chunks)
                /\ chunks'[i] = chunks[i]
                /\ chunks'[i + 1] = chunks[i + 1]
            BY <2>3, <4>3
          <5>2. NextFirst(i)' = NextFirst(i)
            BY <2>3, <4>3, <5>1 DEF NextFirst
          <5> QED  BY <5>1, <5>2 DEF IInv, ChunksAreTheRest
        <4> QED  BY <2>3, <4>1, <4>2, <4>3
      <3> QED  BY <3>1, <3>2 DEF ChunksAreTheRest
    <2> QED  BY <1>3, <2>1, <2>4, <2>5 DEF IInv, WaitsForNews
  <1> QED  BY <1>2, <1>3 DEF IInv, TypeOK

LEMMA EventInv ==
  ASSUME IInv, OnEnd \/ OnError \/ OnClose
  PROVE  IInv'
  <1>1. UNCHANGED <<chunks, sent, delivered>> /\ pendingRead' = FALSE
    BY DEF OnEnd, OnError, OnClose, SettleIfPending
  <1>2. ChunksAreTheRest'
    BY <1>1, SameBytes
  <1>3. TypeOK'
    BY <1>1 DEF IInv, TypeOK, OnEnd, OnError, OnClose, SettleIfPending, Wire
  <1> QED  BY <1>1, <1>2, <1>3 DEF IInv, WaitsForNews

LEMMA ReadInv ==
  ASSUME IInv, Read
  PROVE  IInv'
  <1>1. CASE ReadChunk
    <2> DEFINE head == Head(chunks)
    <2>1. /\ chunks # <<>>
          /\ chunks \in Seq(Bytes)
          /\ Len(chunks) \in Nat \ {0}
          /\ head = chunks[1]
          /\ head \in Bytes
          /\ head.first <= head.last
          /\ head.first = delivered.last + 1
      BY <1>1 DEF ReadChunk, IInv, TypeOK, ChunksAreTheRest, NextFirst
    <2>2. /\ pendingRead' = FALSE
          /\ delivered' = First(head)
          /\ UNCHANGED <<outcome, ended, error, wire, sent>>
      BY <1>1 DEF ReadChunk, Read, Deliver, socketVars
    <2>3. CASE Fits(head)
      <3>1. chunks' = Tail(chunks) /\ delivered' = head
        BY <1>1, <2>1, <2>2, <2>3, BytesFacts DEF ReadChunk
      <3>2. TypeOK'
        <4>1. chunks' \in Seq(Bytes)
          BY <2>1, <3>1
        <4>2. delivered' \in Bytes /\ sent' \in Nat
          BY <2>1, <2>2, <3>1 DEF IInv, TypeOK
        <4> QED  BY <2>2, <4>1, <4>2, KeepsType
      <3>3. /\ Len(chunks') = Len(chunks) - 1
            /\ \A i \in 1 .. Len(chunks') : chunks'[i] = chunks[i + 1]
        BY <2>1, <3>1
      <3>4. ChunksAreTheRest'
        <4>1. NextFirst(0)' = delivered'.last + 1
          <5>1. NextFirst(0)' = NextFirst(1)
            BY <2>1, <2>2, <3>3 DEF NextFirst
          <5>2. NextFirst(1) = head.last + 1
            BY <2>1 DEF IInv, ChunksAreTheRest
          <5> QED  BY <3>1, <5>1, <5>2
        <4>2. ASSUME NEW i \in 1 .. Len(chunks')
              PROVE  chunks'[i].first <= chunks'[i].last /\ NextFirst(i)' = chunks'[i].last + 1
          <5>1. i + 1 \in 1 .. Len(chunks) /\ chunks'[i] = chunks[i + 1]
            BY <2>1, <3>3
          <5>2. NextFirst(i)' = NextFirst(i + 1)
            BY <2>1, <2>2, <3>3, <5>1 DEF NextFirst
          <5> QED  BY <5>1, <5>2 DEF IInv, ChunksAreTheRest
        <4> QED  BY <4>1, <4>2 DEF ChunksAreTheRest
      <3> QED  BY <2>2, <3>2, <3>4 DEF IInv, WaitsForNews
    <2>4. CASE ~Fits(head)
      <3> DEFINE rest == Rest(head)
      <3>1. /\ chunks' = <<rest>> \o Tail(chunks)
            /\ First(head) \in Bytes
            /\ rest \in Bytes
            /\ rest.first = First(head).last + 1
            /\ rest.first <= rest.last
            /\ rest.last = head.last
        BY <1>1, <2>1, <2>4, BytesFacts DEF ReadChunk
      <3> HIDE DEF rest
      <3>2. /\ chunks' \in Seq(Bytes)
            /\ Len(chunks') = Len(chunks)
            /\ chunks'[1] = rest
            /\ \A i \in 2 .. Len(chunks) : chunks'[i] = chunks[i]
        BY <2>1, <3>1
      <3>3. TypeOK'
        <4>1. delivered' \in Bytes /\ sent' \in Nat
          BY <2>2, <3>1 DEF IInv, TypeOK
        <4> QED  BY <2>2, <3>2, <4>1, KeepsType
      <3>4. ChunksAreTheRest'
        <4>1. NextFirst(0)' = delivered'.last + 1
          BY <2>1, <2>2, <3>1, <3>2 DEF NextFirst
        <4>2. ASSUME NEW i \in 1 .. Len(chunks')
              PROVE  chunks'[i].first <= chunks'[i].last /\ NextFirst(i)' = chunks'[i].last + 1
          <5>1. chunks'[i].first <= chunks'[i].last /\ chunks'[i].last = chunks[i].last
            BY <2>1, <3>1, <3>2 DEF IInv, ChunksAreTheRest
          <5>2. NextFirst(i)' = NextFirst(i)
            BY <2>1, <2>2, <3>2 DEF NextFirst
          <5> QED  BY <3>2, <5>1, <5>2 DEF IInv, ChunksAreTheRest
        <4> QED  BY <4>1, <4>2 DEF ChunksAreTheRest
      <3> QED  BY <2>2, <3>3, <3>4 DEF IInv, WaitsForNews
    <2> QED  BY <2>3, <2>4
  <1>2. CASE ReadOver
    <2>1. UNCHANGED <<chunks, sent, delivered, pendingRead, ended, error, wire>>
      BY <1>2 DEF ReadOver, Read, socketVars
    <2>2. ~pendingRead' /\ outcome' \in {"null", "error"}
      BY <1>2, <2>1 DEF ReadOver, Read
    <2> QED  BY <2>1, <2>2, SameBytes DEF IInv, TypeOK, WaitsForNews
  <1>3. CASE ReadWaits
    <2>1. UNCHANGED <<chunks, sent, delivered, outcome, ended, error, wire>>
      BY <1>3 DEF ReadWaits, Read, socketVars
    <2> QED  BY <1>3, <2>1, SameBytes DEF IInv, TypeOK, WaitsForNews, ReadWaits, Read
  <1> QED  BY <1>1, <1>2, <1>3 DEF Read

LEMMA StepInv == IInv /\ [Next]_vars => IInv'
  <1> SUFFICES ASSUME IInv, [Next]_vars PROVE IInv'
    OBVIOUS
  <1>1. ASSUME NEW n \in 1 .. MaxData, OnData(n) PROVE IInv'
    BY <1>1, OnDataInv
  <1>2. CASE OnEnd \/ OnError \/ OnClose
    BY <1>2, EventInv
  <1>3. CASE Read
    BY <1>3, ReadInv
  <1>4. CASE CloseDestroys \/ CloseEnds
    <2>1. UNCHANGED <<chunks, sent, delivered, pendingRead, outcome, ended, error>>
      BY <1>4 DEF CloseDestroys, CloseEnds, readVars
    <2>2. wire' \in Wire
      BY <1>4 DEF CloseDestroys, CloseEnds, Wire
    <2> QED  BY <2>1, <2>2, SameBytes DEF IInv, TypeOK, WaitsForNews
  <1>5. CASE UNCHANGED vars
    <2>1. UNCHANGED <<chunks, sent, delivered, pendingRead, outcome, ended, error, wire>>
      BY <1>5 DEF vars, readVars, socketVars
    <2> QED  BY <2>1, SameBytes DEF IInv, TypeOK, WaitsForNews
  <1> QED  BY <1>1, <1>2, <1>3, <1>4, <1>5 DEF Next

(* The fields of the connection keep their types.                          *)
THEOREM TypeCorrect == Spec => []TypeOK
  <1>1. IInv => TypeOK  BY DEF IInv
  <1> QED  BY <1>1, InitInv, StepInv, PTL DEF Spec

(* A read waits only while there is nothing to tell it.                    *)
THEOREM NoLostWakeUp == Spec => []WaitsForNews
  <1>1. IInv => WaitsForNews  BY DEF IInv
  <1> QED  BY <1>1, InitInv, StepInv, PTL DEF Spec

(* The chunks are what was received and not yet read, in order.            *)
THEOREM NothingIsLost == Spec => []ChunksAreTheRest
  <1>1. IInv => ChunksAreTheRest  BY DEF IInv
  <1> QED  BY <1>1, InitInv, StepInv, PTL DEF Spec

(* Each successful read continues the one before it, within the buffer.    *)
LEMMA ReadsFollow ==
  ASSUME IInv, Next, delivered' # delivered
  PROVE  delivered'.first = delivered.last + 1 /\ Length(delivered') \in 1 .. BufferLength
  <1> DEFINE A == delivered'.first = delivered.last + 1 /\ Length(delivered') \in 1 .. BufferLength
  <1>0. ASSUME NEW bytes \in Bytes, bytes.first <= bytes.last,
               bytes.first = delivered.last + 1, delivered' = First(bytes)
        PROVE  A
    <2>1. /\ delivered'.first = bytes.first
          /\ delivered'.last + 1 - bytes.first \in 1 .. BufferLength
      BY <1>0, BytesFacts
    <2>2. Length(delivered') = delivered'.last + 1 - bytes.first
      <3>1. /\ delivered' \in Bytes
            /\ delivered'.first \in Nat /\ delivered'.last \in Nat /\ bytes.first \in Nat
        BY <1>0, BytesFacts DEF Bytes
      <3> QED  BY <2>1, <3>1 DEF Length
    <2>3. delivered'.first = delivered.last + 1
      BY <1>0, <2>1
    <2> QED  BY <2>1, <2>2, <2>3
  <1>1. ASSUME NEW n \in 1 .. MaxData, OnData(n) PROVE A
    <2> DEFINE data == [first |-> sent + 1, last |-> sent + n]
    <2>1. pendingRead /\ delivered' = First(data)
      BY <1>1 DEF OnData, Deliver, readVars
    <2>2. data \in Bytes /\ data.first <= data.last
      BY <1>1, NodeConnAssumption DEF IInv, TypeOK, Bytes
    <2>3. delivered.last + 1 = data.first
      BY <2>1 DEF IInv, WaitsForNews, ChunksAreTheRest, NextFirst
    <2> HIDE DEF data
    <2> QED  BY <1>0, <2>1, <2>2, <2>3
  <1>2. CASE Read
    <2> DEFINE head == Head(chunks)
    <2>1. chunks # <<>> /\ delivered' = First(head)
      BY <1>2 DEF Read, ReadChunk, ReadOver, ReadWaits, Deliver
    <2>2. head \in Bytes /\ head.first <= head.last /\ head.first = delivered.last + 1
      BY <2>1 DEF IInv, TypeOK, ChunksAreTheRest, NextFirst
    <2> HIDE DEF head
    <2> QED  BY <1>0, <2>1, <2>2
  <1>3. ASSUME OnEnd \/ OnError \/ OnClose \/ CloseDestroys \/ CloseEnds PROVE FALSE
    BY <1>3 DEF OnEnd, OnError, OnClose, SettleIfPending, CloseDestroys, CloseEnds, readVars
  <1> QED  BY <1>1, <1>2, <1>3 DEF Next

(* A read returns the bytes that follow those of the read before it, and   *)
(* never more than its buffer holds.                                       *)
THEOREM ReadsContinue == Spec => ReadsFollowOn
  <1> DEFINE A == delivered' # delivered => /\ delivered'.first = delivered.last + 1
                                            /\ Length(delivered') \in 1 .. BufferLength
  <1>1. IInv /\ [Next]_vars => [A]_vars
    BY ReadsFollow
  <1> QED  BY <1>1, InitInv, StepInv, PTL DEF Spec, ReadsFollowOn

-----------------------------------------------------------------------------
(* For the refinement two more facts are needed: a socket emits no data    *)
(* once a read may have reported its end, and no chunk goes beyond what    *)
(* was received, which the tiling alone gives only by induction.           *)
Quiet == ended \/ error \/ outcome # "none" => wire \notin {"open", "closing"}
InRange == \A i \in 1 .. Len(chunks) : chunks[i].last <= sent
JInv == IInv /\ Quiet /\ InRange

LEMMA InitJ == Init => JInv
  <1> SUFFICES ASSUME Init PROVE JInv
    OBVIOUS
  <1>1. Len(chunks) = 0
    BY DEF Init
  <1> QED  BY <1>1, InitInv DEF Init, JInv, Quiet, InRange

LEMMA QuietStep == JInv /\ [Next]_vars => Quiet'
  <1> SUFFICES ASSUME JInv, [Next]_vars PROVE Quiet'
    OBVIOUS
  <1>1. ASSUME NEW n \in 1 .. MaxData, OnData(n) PROVE Quiet'
    BY <1>1 DEF JInv, Quiet, OnData, Deliver, readVars
  <1>2. CASE OnEnd
    BY <1>2 DEF Quiet, OnEnd
  <1>3. CASE OnError
    BY <1>3 DEF Quiet, OnError
  <1>4. CASE OnClose
    BY <1>4 DEF Quiet, OnClose
  <1>5. CASE Read
    BY <1>5 DEF JInv, Quiet, Read, ReadChunk, ReadOver, ReadWaits, Deliver, socketVars
  <1>6. CASE CloseDestroys
    BY <1>6 DEF Quiet, CloseDestroys
  <1>7. CASE CloseEnds
    BY <1>7 DEF JInv, Quiet, CloseEnds, readVars
  <1>8. CASE UNCHANGED vars
    BY <1>8 DEF JInv, Quiet, vars, readVars, socketVars
  <1> QED  BY <1>1, <1>2, <1>3, <1>4, <1>5, <1>6, <1>7, <1>8 DEF Next

LEMMA InRangeStep == JInv /\ [Next]_vars => InRange'
  <1> SUFFICES ASSUME JInv, [Next]_vars PROVE InRange'
    OBVIOUS
  <1>0. /\ chunks \in Seq(Bytes)
        /\ Len(chunks) \in Nat
        /\ sent \in Nat
        /\ \A i \in 1 .. Len(chunks) : /\ chunks[i] \in Bytes
                                       /\ chunks[i].last \in Nat
                                       /\ chunks[i].last <= sent
    <2>1. chunks \in Seq(Bytes) /\ sent \in Nat /\ InRange
      BY DEF JInv, IInv, TypeOK
    <2>2. \A i \in 1 .. Len(chunks) : chunks[i] \in Bytes
      BY <2>1
    <2>3. \A b \in Bytes : b.last \in Nat
      BY DEF Bytes
    <2> QED  BY <2>1, <2>2, <2>3 DEF InRange
  <1>1. ASSUME NEW n \in 1 .. MaxData, OnData(n) PROVE InRange'
    <2> DEFINE data == [first |-> sent + 1, last |-> sent + n]
               rest == Rest(data)
    <2>1. /\ sent' = sent + n
          /\ chunks' \in {chunks, Append(chunks, rest), Append(chunks, data)}
      BY <1>1 DEF OnData, readVars
    <2>2. n \in Nat /\ data.last = sent + n /\ rest.last = sent + n
      BY <1>0, NodeConnAssumption DEF Rest
    <2> HIDE DEF data, rest
    <2>3. CASE chunks' = chunks
      BY <1>0, <2>1, <2>2, <2>3 DEF InRange
    <2>4. ASSUME NEW b, b.last = sent + n, chunks' = Append(chunks, b) PROVE InRange'
      <3>1. /\ Len(chunks') = Len(chunks) + 1
            /\ \A i \in 1 .. Len(chunks) : chunks'[i] = chunks[i]
            /\ chunks'[Len(chunks) + 1] = b
        BY <1>0, <2>4
      <3>2. ASSUME NEW i \in 1 .. Len(chunks') PROVE chunks'[i].last <= sent'
        <4>1. CASE i = Len(chunks')
          BY <1>0, <2>1, <2>2, <2>4, <3>1, <4>1
        <4>2. CASE i \in 1 .. Len(chunks)
          BY <1>0, <2>1, <2>2, <3>1, <4>2
        <4> QED  BY <1>0, <3>1, <4>1, <4>2
      <3> QED  BY <3>2 DEF InRange
    <2> QED  BY <2>1, <2>2, <2>3, <2>4
  <1>2. CASE ReadChunk /\ Read
    <2> DEFINE head == Head(chunks)
               rest == Rest(head)
    <2>1. /\ sent' = sent
          /\ chunks # <<>>
          /\ chunks' \in {Tail(chunks), <<rest>> \o Tail(chunks)}
      BY <1>2 DEF ReadChunk, Read, socketVars
    <2>2. rest.last = chunks[1].last
      BY <1>0, <2>1 DEF Rest
    <2> HIDE DEF rest
    <2>3. CASE chunks' = Tail(chunks)
      BY <1>0, <2>1, <2>3 DEF InRange
    <2>4. CASE chunks' = <<rest>> \o Tail(chunks)
      <3>1. /\ Len(chunks') = Len(chunks)
            /\ chunks'[1] = rest
            /\ \A i \in 2 .. Len(chunks) : chunks'[i] = chunks[i]
        BY <1>0, <2>1, <2>4
      <3> QED  BY <1>0, <2>1, <2>2, <3>1 DEF InRange
    <2> QED  BY <2>1, <2>3, <2>4
  <1>3. CASE UNCHANGED <<chunks, sent>>
    BY <1>3 DEF JInv, InRange
  <1>4. CASE OnEnd \/ OnError \/ OnClose \/ CloseDestroys \/ CloseEnds \/ UNCHANGED vars
    BY <1>3, <1>4 DEF OnEnd, OnError, OnClose, CloseDestroys, CloseEnds, vars, socketVars
  <1>5. CASE Read /\ ~ReadChunk
    BY <1>3, <1>5 DEF Read, ReadOver, ReadWaits, socketVars
  <1> QED  BY <1>1, <1>2, <1>4, <1>5 DEF Next

LEMMA InvariantJ == Spec => []JInv
  <1>1. JInv /\ [Next]_vars => JInv'
    BY StepInv, QuietStep, InRangeStep DEF JInv
  <1> QED  BY <1>1, InitJ, PTL DEF Spec

(* The safety part of IsByteStream: every event of the socket and every    *)
(* read is a step of a byte stream, or none.                               *)
THEOREM ImplementsByteStream == Spec => Stream!Init /\ [][Stream!Next]_Stream!vars
  <1>1. Init => Stream!Init
    BY DEF Init, Stream!Init
  <1>2. JInv /\ [Next]_vars => [Stream!Next]_Stream!vars
    <2> SUFFICES ASSUME JInv, [Next]_vars PROVE [Stream!Next]_Stream!vars
      OBVIOUS
    <2> USE DEF JInv
    <2>0. /\ sent \in Nat
          /\ delivered.last \in Nat
          /\ BufferLength \in Nat \ {0}
      BY NodeConnAssumption DEF IInv, TypeOK, Bytes
    <2>1. ASSUME NEW bytes \in Bytes, bytes.first <= bytes.last,
                 bytes.first = delivered.last + 1, delivered' = First(bytes)
          PROVE  \E k \in 1 .. BufferLength :
                    /\ delivered'.last = delivered.last + k
                    /\ delivered'.last <= bytes.last
      <3> DEFINE k == First(bytes).last + 1 - bytes.first
      <3>1. /\ k \in 1 .. BufferLength
            /\ First(bytes) \in Bytes
        BY <2>1, BytesFacts
      <3>2. /\ bytes.first \in Nat /\ bytes.last \in Nat
            /\ First(bytes).last \in Nat
        BY <3>1 DEF Bytes
      <3>3. First(bytes).last = delivered.last + k
        BY <2>0, <2>1, <3>2
      <3>4. First(bytes).last <= bytes.last
        BY <2>0, <2>1, <3>2 DEF First, Fits, Length
      <3> HIDE DEF k
      <3> QED  BY <2>1, <3>1, <3>3, <3>4
    <2>2. pendingRead \/ chunks = <<>> => delivered.last = sent
      BY <2>0 DEF IInv, WaitsForNews, ChunksAreTheRest, NextFirst
    <2>3. ASSUME NEW n \in 1 .. MaxData, OnData(n) PROVE Stream!Next
      <3>1. n \in Nat \ {0} /\ sent' = sent + n /\ outcome = "none" /\ outcome' = outcome
        BY <2>3, NodeConnAssumption DEF OnData, Quiet, Deliver, readVars
      <3>2. CASE pendingRead
        <4> DEFINE data == [first |-> sent + 1, last |-> sent + n]
        <4>1. /\ data \in Bytes
              /\ data.first <= data.last
              /\ data.first = delivered.last + 1
              /\ delivered' = First(data)
              /\ data.last = sent'
          BY <2>0, <2>2, <2>3, <3>1, <3>2 DEF OnData, Deliver, Bytes
        <4> HIDE DEF data
        <4>2. PICK k \in 1 .. BufferLength :
                /\ delivered'.last = delivered.last + k
                /\ delivered'.last <= data.last
          BY <2>1, <4>1
        <4>3. Stream!Pass(k)
          BY <2>0, <2>2, <3>1, <3>2, <4>1, <4>2 DEF Stream!Pass
        <4> QED  BY <4>3 DEF Stream!Next
      <3>3. CASE ~pendingRead
        <4>1. delivered' = delivered
          BY <2>3, <3>3 DEF OnData, readVars
        <4> QED  BY <2>0, <3>1, <4>1 DEF Stream!Next, Stream!Arrive
      <3> QED  BY <3>2, <3>3
    <2>4. CASE Read /\ ReadChunk
      <3> DEFINE head == Head(chunks)
      <3>1. /\ chunks # <<>>
            /\ delivered' = First(head)
            /\ outcome = "none" /\ outcome' = outcome /\ sent' = sent
        BY <2>4 DEF Read, ReadChunk, Deliver, socketVars
      <3>2. /\ head \in Bytes
            /\ head.first <= head.last
            /\ head.first = delivered.last + 1
            /\ head.last <= sent
            /\ head.last \in Nat
        <4>1. chunks \in Seq(Bytes) /\ InRange /\ ChunksAreTheRest
          BY DEF IInv, TypeOK
        <4>2. /\ Len(chunks) \in Nat \ {0}
              /\ head = chunks[1]
              /\ head \in Bytes
          BY <3>1, <4>1
        <4>3. \A b \in Bytes : b.last \in Nat
          BY DEF Bytes
        <4>4. head.first <= head.last /\ head.first = delivered.last + 1
          BY <4>1, <4>2 DEF ChunksAreTheRest, NextFirst
        <4> QED  BY <4>1, <4>2, <4>3, <4>4 DEF InRange
      <3> HIDE DEF head
      <3>3. PICK k \in 1 .. BufferLength :
              /\ delivered'.last = delivered.last + k
              /\ delivered'.last <= head.last
        BY <2>1, <3>1, <3>2
      <3>4. Stream!Take(k)
        BY <2>0, <3>1, <3>2, <3>3 DEF Stream!Take
      <3> QED  BY <3>4 DEF Stream!Next
    <2>5. CASE Read /\ ~ReadChunk
      <3>1. UNCHANGED <<sent, delivered>> /\ outcome = "none" /\ chunks = <<>>
        BY <2>5 DEF Read, ReadOver, ReadWaits, socketVars
      <3> QED  BY <2>2, <2>5, <3>1 DEF Read, ReadOver, ReadWaits, Stream!Next, Stream!End, Stream!vars
    <2>6. CASE OnEnd \/ OnError \/ OnClose
      <3>1. /\ UNCHANGED <<sent, delivered>>
            /\ outcome' = outcome \/ (pendingRead /\ outcome' \in {"null", "error"})
        BY <2>6 DEF OnEnd, OnError, OnClose, SettleIfPending
      <3>2. pendingRead => outcome = "none" /\ delivered.last = sent
        BY <2>2 DEF IInv, WaitsForNews
      <3> QED  BY <3>1, <3>2 DEF Stream!Next, Stream!End, Stream!vars
    <2>7. CASE CloseDestroys \/ CloseEnds \/ UNCHANGED vars
      <3>1. UNCHANGED <<sent, delivered, outcome>>
        BY <2>7 DEF CloseDestroys, CloseEnds, vars, readVars, socketVars
      <3> QED  BY <3>1 DEF Stream!vars
    <2> QED  BY <2>3, <2>4, <2>5, <2>6, <2>7 DEF Next
  <1> QED  BY <1>1, <1>2, InvariantJ, PTL DEF Spec

-----------------------------------------------------------------------------
(* The lines of Framing.  What parseChunk() makes of an input is followed  *)
(* from each place of it on, so that feeding it one more character can     *)
(* complete the line it had begun or not, and do nothing else: ParseOne.   *)
(* What parseChunk() makes of an input from each place of it on.           *)
Parsed(T) == [messages : Seq(Seq(T)), remainder : Seq(T)]
EndsFrom(input, start) == {i \in start .. Len(input) : EndsLine(input, i)}
NoLine(input, start) == [messages |-> <<>>, remainder |-> SubSeq(input, start, Len(input))]
Onto(line, parsed) == [messages |-> <<line>> \o parsed.messages, remainder |-> parsed.remainder]
Line(input, start) == SubSeq(input, start, Min(EndsFrom(input, start)) - 1)
Parses(f, T, input) ==
  /\ f \in [1 .. Len(input) + 1 -> Parsed(T)]
  /\ \A start \in 1 .. Len(input) + 1 :
       f[start] = IF EndsFrom(input, start) = {} THEN NoLine(input, start)
                  ELSE Onto(Line(input, start), f[Min(EndsFrom(input, start)) + 2])

LEMMA EndsAre ==
  ASSUME NEW T, NEW input \in Seq(T), NEW start \in 1 .. Len(input) + 1
  PROVE  /\ NoLine(input, start) \in Parsed(T)
         /\ EndsFrom(input, start) # {} =>
              /\ Min(EndsFrom(input, start)) \in EndsFrom(input, start)
              /\ Min(EndsFrom(input, start)) \in start .. Len(input) - 1
              /\ \A i \in EndsFrom(input, start) : Min(EndsFrom(input, start)) <= i
              /\ Line(input, start) \in Seq(T)
              /\ start \in 1 .. Len(input)
<1>1. PICK n \in Nat : n = Len(input)
  OBVIOUS
<1>2. PICK s \in Nat : s = start /\ s >= 1 /\ s <= n + 1
  BY <1>1
<1>3. NoLine(input, start) \in Parsed(T)
  <2>1. SubSeq(input, start, Len(input)) \in Seq(T)
    <3>1. Len(input) \in 0 .. Len(input)
      BY <1>1
    <3> QED
      BY <3>1, Piece
  <2>2. <<>> \in Seq(Seq(T))
    OBVIOUS
  <2> QED
    BY <2>1, <2>2 DEF NoLine, Parsed
<1>4. ASSUME EndsFrom(input, start) # {}
      PROVE  /\ Min(EndsFrom(input, start)) \in EndsFrom(input, start)
             /\ Min(EndsFrom(input, start)) \in start .. Len(input) - 1
             /\ \A i \in EndsFrom(input, start) : Min(EndsFrom(input, start)) <= i
             /\ Line(input, start) \in Seq(T)
             /\ start \in 1 .. Len(input)
  <2>1. PICK E : E = EndsFrom(input, start)
    OBVIOUS
  <2>2. E \in SUBSET Nat /\ E # {}
    BY <1>1, <1>2, <1>4, <2>1 DEF EndsFrom
  <2>3. PICK e \in Nat : e = Min(E) /\ e \in E /\ \A i \in E : e <= i
    BY <2>2, Smallest
  <2>4. e \in s .. n /\ e < n
    BY <1>1, <1>2, <2>1, <2>3 DEF EndsFrom, EndsLine
  <2>5. e \in start .. Len(input) - 1 /\ s <= n
    BY <1>1, <1>2, <2>4
  <2>6. SubSeq(input, start, e - 1) \in Seq(T)
    <3>1. e - 1 \in 0 .. Len(input)
      BY <1>1, <1>2, <2>4
    <3> QED
      BY <3>1, Piece
  <2> QED
    BY <1>1, <1>2, <2>1, <2>3, <2>5, <2>6 DEF Line
<1> QED
  BY <1>3, <1>4

LEMMA OntoType ==
  ASSUME NEW T, NEW line \in Seq(T), NEW p \in Parsed(T)
  PROVE  Onto(line, p) \in Parsed(T)
<1>1. p.messages \in Seq(Seq(T)) /\ p.remainder \in Seq(T) /\ <<line>> \in Seq(Seq(T))
  BY DEF Parsed
<1>2. <<line>> \o p.messages \in Seq(Seq(T))
  BY <1>1, Concatenates
<1> QED
  BY <1>1, <1>2 DEF Onto, Parsed

LEMMA ParseSteps ==
  ASSUME NEW T, NEW input \in Seq(T)
  PROVE  \E f : Parses(f, T, input) /\ ParseChunk(input) = f[1]
<1> DEFINE E(i) == EndsFrom(input, i)
           N(i) == NoLine(input, i)
           L(i) == Line(input, i)
           Step(i, p) == Onto(L(i), p)
           Later(i) == Min(E(i)) + 2
           Parse(f) == f = [i \in 1 .. Len(input) + 1 |-> IF E(i) = {} THEN N(i) ELSE Step(i, f[Later(i)])]
           from == CHOOSE f : Parse(f)
<1>1. PICK n \in Nat : n = Len(input)
  OBVIOUS
<1>2. ParseChunk(input) = from[1]
  BY DEF ParseChunk, EndsFrom, NoLine, Line, Onto
<1>3. PICK V : V = Parsed(T)
  OBVIOUS
<1>4. ASSUME NEW i \in 1 .. n + 1
      PROVE  /\ N(i) \in V
             /\ E(i) # {} => i \in 1 .. n /\ Later(i) \in i + 1 .. n + 1 /\ \A p \in V : Step(i, p) \in V
  <2>1. N(i) \in V
    BY <1>1, <1>3, EndsAre
  <2>2. ASSUME E(i) # {}
        PROVE  i \in 1 .. n /\ Later(i) \in i + 1 .. n + 1 /\ \A p \in V : Step(i, p) \in V
    <3>1. PICK e \in Nat : e = Min(E(i)) /\ e \in i .. n - 1 /\ L(i) \in Seq(T)
      <4>1. Min(E(i)) \in i .. n - 1 /\ L(i) \in Seq(T)
        BY <1>1, <2>2, EndsAre
      <4> QED
        BY <4>1
    <3>2. e + 2 \in i + 1 .. n + 1 /\ i \in 1 .. n
      BY <3>1
    <3>3. \A p \in V : Step(i, p) \in V
      BY <1>3, <3>1, OntoType
    <3> QED
      BY <3>1, <3>2, <3>3
  <2> QED
    BY <2>1, <2>2
<1> HIDE DEF E, N, L, Step, Later, from
<1>5. PICK f \in [1 .. n + 1 -> V] :
        \A i \in 1 .. n + 1 : f[i] = IF E(i) = {} THEN N(i) ELSE Step(i, f[Later(i)])
  <2> DEFINE G == [p \in V \X (1 .. n) |-> IF E(p[2]) = {} THEN N(p[2]) ELSE Step(p[2], p[1])]
             next == [i \in 1 .. n |-> IF E(i) = {} THEN n + 1 ELSE Later(i)]
  <2>1. /\ G \in [V \X (1 .. n) -> V]
        /\ \A s \in V, i \in 1 .. n : G[<<s, i>>] = IF E(i) = {} THEN N(i) ELSE Step(i, s)
    <3>1. ASSUME NEW s \in V, NEW i \in 1 .. n
          PROVE  (IF E(i) = {} THEN N(i) ELSE Step(i, s)) \in V
      <4>1. i \in 1 .. n + 1
        OBVIOUS
      <4> QED
        BY <1>4, <4>1
    <3> QED
      BY <3>1
  <2>2. ASSUME NEW i \in 1 .. n
        PROVE  next[i] = (IF E(i) = {} THEN n + 1 ELSE Later(i)) /\ next[i] \in i + 1 .. n + 1
    <3>1. i \in 1 .. n + 1
      OBVIOUS
    <3>2. E(i) # {} => Later(i) \in i + 1 .. n + 1
      BY <1>4, <3>1
    <3>3. n + 1 \in i + 1 .. n + 1
      OBVIOUS
    <3> QED
      BY <3>2, <3>3
  <2>3. next \in [1 .. n -> Nat]
    <3>1. \A i \in 1 .. n : next[i] \in Nat
      BY <2>2
    <3> QED
      BY <3>1
  <2> HIDE DEF G, next
  <2>4. N(n + 1) \in V /\ E(n + 1) = {}
    <3>1. n + 1 \in 1 .. n + 1 /\ n + 1 \notin 1 .. n
      OBVIOUS
    <3> QED
      BY <1>4, <3>1
  <2>5. PICK f : Unwinds(f, n, V, N(n + 1), next, G)
    <3>1. G \in Steps(V, n) /\ Onward(next, n)
      BY <2>1, <2>2, <2>3 DEF Steps, Onward
    <3> QED
      BY <2>4, <3>1, Backwards
  <2>6. f \in [1 .. n + 1 -> V] /\ f[n + 1] = N(n + 1)
    BY <2>5 DEF Unwinds
  <2>7. ASSUME NEW i \in 1 .. n PROVE f[i] = IF E(i) = {} THEN N(i) ELSE Step(i, f[Later(i)])
    <3>1. f[i] = G[<<f[next[i]], i>>]
      BY <2>5 DEF Unwinds
    <3>2. next[i] = (IF E(i) = {} THEN n + 1 ELSE Later(i)) /\ next[i] \in 1 .. n + 1
      BY <2>2
    <3>3. f[next[i]] \in V
      BY <2>6, <3>2
    <3>4. f[i] = IF E(i) = {} THEN N(i) ELSE Step(i, f[next[i]])
      BY <2>1, <3>1, <3>3
    <3> QED
      BY <3>2, <3>4
  <2>8. ASSUME NEW i \in 1 .. n + 1 PROVE f[i] = IF E(i) = {} THEN N(i) ELSE Step(i, f[Later(i)])
    <3>1. i \in 1 .. n \/ i = n + 1
      OBVIOUS
    <3> QED
      BY <2>4, <2>6, <2>7, <3>1
  <2> QED
    BY <2>6, <2>8
<1>6. Parse(f)
  BY <1>1, <1>5
<1>7. Parse(from)
  BY <1>6, Zenon DEF from
<1>8. \A i \in 1 .. n + 1 : from[i] = IF E(i) = {} THEN N(i) ELSE Step(i, from[Later(i)])
  BY <1>1, <1>7
<1> HIDE DEF Parse
<1> DEFINE S == {i \in 1 .. n + 1 : from[i] = f[i]}
<1>9. n + 1 \in S
  <2>1. n + 1 \in 1 .. n + 1 /\ n + 1 \notin 1 .. n
    OBVIOUS
  <2>2. E(n + 1) = {}
    BY <1>4, <2>1
  <2> QED
    BY <1>5, <1>8, <2>1, <2>2
<1>10. ASSUME NEW i \in 1 .. n, \A j \in i + 1 .. n + 1 : j \in S PROVE i \in S
  <2>1. i \in 1 .. n + 1
    OBVIOUS
  <2>2. CASE E(i) = {}
    BY <1>5, <1>8, <2>1, <2>2
  <2>3. CASE E(i) # {}
    <3>1. from[Later(i)] = f[Later(i)]
      BY <1>4, <1>10, <2>1, <2>3
    <3> QED
      BY <1>5, <1>8, <2>1, <2>3, <3>1
  <2> QED
    BY <2>2, <2>3
<1>11. 1 \in S
  <2>1. 1 \in 1 .. n + 1
    OBVIOUS
  <2> HIDE DEF S
  <2> QED
    BY <1>9, <1>10, <2>1, DownFrom
<1>12. Parses(f, T, input)
  BY <1>1, <1>3, <1>5 DEF Parses, E, N, L, Step, Later
<1> QED
  BY <1>2, <1>11, <1>12

(* What one more character does to what parseChunk() returns.              *)
EndsInCr(s) == s # <<>> /\ s[Len(s)] = "cr"
Feed(p, c) ==
  IF c = "lf" /\ EndsInCr(p.remainder)
  THEN [messages |-> p.messages \o <<SubSeq(p.remainder, 1, Len(p.remainder) - 1)>>,
        remainder |-> <<>>]
  ELSE [messages |-> p.messages, remainder |-> p.remainder \o <<c>>]

LEMMA FeedOnto ==
  ASSUME NEW T, NEW p \in Parsed(T), NEW c \in T, NEW line \in Seq(T)
  PROVE  Onto(line, Feed(p, c)) = Feed(Onto(line, p), c)
<1>1. p.messages \in Seq(Seq(T)) /\ p.remainder \in Seq(T) /\ <<line>> \in Seq(Seq(T))
  BY DEF Parsed
<1>2. PICK last : last = SubSeq(p.remainder, 1, Len(p.remainder) - 1)
  OBVIOUS
<1>3. CASE c = "lf" /\ EndsInCr(p.remainder)
  <2>1. last \in Seq(T)
    <3>1. Len(p.remainder) - 1 \in 0 .. Len(p.remainder) /\ 1 \in 1 .. Len(p.remainder) + 1
      BY <1>1, <1>3 DEF EndsInCr
    <3> QED
      BY <1>1, <1>2, <3>1, Piece
  <2>2. <<last>> \in Seq(Seq(T))
    BY <2>1
  <2>3. <<line>> \o (p.messages \o <<last>>) = (<<line>> \o p.messages) \o <<last>>
    <3>1. PICK U, ms, a, b : U = Seq(T) /\ ms = p.messages /\ a = <<line>> /\ b = <<last>>
      OBVIOUS
    <3>2. ms \in Seq(U) /\ a \in Seq(U) /\ b \in Seq(U)
      BY <1>1, <2>2, <3>1
    <3>3. a \o (ms \o b) = (a \o ms) \o b
      BY <3>2, ConcatMoves
    <3> QED
      BY <3>1, <3>3
  <2> QED
    BY <1>2, <1>3, <2>3 DEF Onto, Feed
<1>4. CASE ~(c = "lf" /\ EndsInCr(p.remainder))
  BY <1>4 DEF Onto, Feed
<1> QED
  BY <1>3, <1>4

LEMMA EndsGrow ==
  ASSUME NEW T, NEW s \in Seq(T), NEW c \in T, NEW i \in 1 .. Len(s) + 1
  PROVE  EndsFrom(s \o <<c>>, i)
           = EndsFrom(s, i) \cup (IF i <= Len(s) /\ c = "lf" /\ s[Len(s)] = "cr" THEN {Len(s)} ELSE {})
<1>1. PICK y, n : y = s \o <<c>> /\ n = Len(s)
  OBVIOUS
<1>2. y \in Seq(T) /\ Len(y) = n + 1 /\ y[n + 1] = c /\ n \in Nat /\ \A k \in 1 .. n : y[k] = s[k]
  BY <1>1
<1>3. i \in Nat /\ i >= 1 /\ i <= n + 1
  BY <1>1, <1>2
<1>4. ASSUME NEW k \in i .. n - 1 PROVE EndsLine(y, k) <=> EndsLine(s, k)
  <2>1. k \in 1 .. n /\ k + 1 \in 1 .. n /\ k < n /\ k < n + 1
    BY <1>2, <1>3
  <2>2. y[k] = s[k] /\ y[k + 1] = s[k + 1]
    BY <1>2, <2>1
  <2> QED
    BY <1>1, <1>2, <2>1, <2>2 DEF EndsLine
<1>5. EndsFrom(s, i) = {k \in i .. n - 1 : EndsLine(s, k)}
  BY <1>1, <1>2, <1>3 DEF EndsFrom, EndsLine
<1>6. EndsFrom(y, i) = {k \in i .. n : EndsLine(y, k)}
  BY <1>2, <1>3 DEF EndsFrom, EndsLine
<1>7. i <= n => (EndsLine(y, n) <=> c = "lf" /\ s[n] = "cr")
  <2>1. i <= n => n \in 1 .. n /\ n < n + 1
    BY <1>2, <1>3
  <2> QED
    BY <1>2, <2>1 DEF EndsLine
<1>8. EndsFrom(y, i) = EndsFrom(s, i) \cup (IF i <= n /\ c = "lf" /\ s[n] = "cr" THEN {n} ELSE {})
  <2>1. CASE i <= n
    <3>1. i .. n = (i .. n - 1) \cup {n}
      BY <1>2, <1>3, <2>1
    <3> QED
      BY <1>4, <1>5, <1>6, <1>7, <2>1, <3>1
  <2>2. CASE ~(i <= n)
    <3>1. i .. n = {} /\ i .. n - 1 = {}
      BY <1>2, <1>3, <2>2
    <3> QED
      BY <1>5, <1>6, <2>2, <3>1
  <2> QED
    BY <2>1, <2>2
<1> QED
  BY <1>1, <1>8

LEMMA ParseOne ==
  ASSUME NEW T, NEW input \in Seq(T), NEW c \in T
  PROVE  ParseChunk(input \o <<c>>) = Feed(ParseChunk(input), c)
<1>1. PICK y, n : y = input \o <<c>> /\ n = Len(input)
  OBVIOUS
<1>2. /\ y \in Seq(T) /\ Len(y) = n + 1 /\ y[n + 1] = c /\ n \in Nat
      /\ \A k \in 1 .. n : y[k] = input[k]
  BY <1>1
<1>3. PICK f : Parses(f, T, input) /\ ParseChunk(input) = f[1]
  BY ParseSteps
<1>4. PICK g : Parses(g, T, y) /\ ParseChunk(y) = g[1]
  BY <1>2, ParseSteps
<1>5. /\ f \in [1 .. n + 1 -> Parsed(T)]
      /\ \A i \in 1 .. n + 1 :
           f[i] = IF EndsFrom(input, i) = {} THEN NoLine(input, i)
                  ELSE Onto(Line(input, i), f[Min(EndsFrom(input, i)) + 2])
  BY <1>1, <1>3 DEF Parses
<1>6. /\ g \in [1 .. (n + 1) + 1 -> Parsed(T)]
      /\ \A i \in 1 .. (n + 1) + 1 :
           g[i] = IF EndsFrom(y, i) = {} THEN NoLine(y, i)
                  ELSE Onto(Line(y, i), g[Min(EndsFrom(y, i)) + 2])
  BY <1>2, <1>4 DEF Parses
<1>7. \A i \in 1 .. n + 1 :
        /\ EndsFrom(y, i) = EndsFrom(input, i) \cup (IF i <= n /\ c = "lf" /\ input[n] = "cr" THEN {n} ELSE {})
        /\ SubSeq(y, i, n + 1) = SubSeq(input, i, n) \o <<c>>
        /\ \A j \in 0 .. n : SubSeq(y, i, j) = SubSeq(input, i, j)
  BY <1>1, EndsGrow, PieceGrown, PieceSame
<1> DEFINE S == {i \in 1 .. n + 1 : g[i] = Feed(f[i], c)}
<1>8. ASSUME NEW i \in 1 .. n + 1, EndsFrom(input, i) = {} PROVE g[i] = Feed(f[i], c)
  <2>1. PICK r : r = SubSeq(input, i, n)
    OBVIOUS
  <2>2. /\ r \in Seq(T) /\ Len(r) = IF i <= n THEN (n - i) + 1 ELSE 0
        /\ \A k \in 1 .. (n - i) + 1 : r[k] = input[(i + k) - 1]
    <3>1. n \in 0 .. Len(input) /\ i \in 1 .. Len(input) + 1
      BY <1>1, <1>2
    <3> QED
      BY <2>1, <3>1, Piece
  <2>3. Len(r) = (n + 1) - i
    BY <1>2, <2>2
  <2>4. f[i] = [messages |-> <<>>, remainder |-> r]
    BY <1>1, <1>5, <1>8, <2>1 DEF NoLine
  <2>5. EndsInCr(r) <=> i <= n /\ input[n] = "cr"
    <3>1. CASE i <= n
      <4>1. Len(r) \in 1 .. (n - i) + 1 /\ (i + Len(r)) - 1 = n
        BY <1>2, <2>3, <3>1
      <4>2. r[Len(r)] = input[n] /\ r # <<>>
        BY <2>2, <4>1
      <4> QED
        BY <3>1, <4>2 DEF EndsInCr
    <3>2. CASE ~(i <= n)
      <4>1. Len(r) = 0
        BY <2>2, <3>2
      <4> QED
        BY <2>2, <3>2, <4>1 DEF EndsInCr
    <3> QED
      BY <3>1, <3>2
  <2>6. CASE c = "lf" /\ EndsInCr(r)
    <3>1. EndsFrom(y, i) = {n} /\ i <= n /\ i \in 1 .. (n + 1) + 1
      BY <1>2, <1>7, <1>8, <2>5, <2>6
    <3>2. Min({n}) = n
      BY <1>2, SmallestIs
    <3>3. g[i] = Onto(SubSeq(y, i, n - 1), g[n + 2])
      BY <1>6, <3>1, <3>2 DEF Line
    <3>4. g[n + 2] = [messages |-> <<>>, remainder |-> <<>>]
      <4>1. n + 2 \in 1 .. (n + 1) + 1 /\ (n + 2) .. (n + 1) = {}
        BY <1>2
      <4>2. EndsFrom(y, n + 2) = {}
        BY <1>2, <4>1 DEF EndsFrom
      <4>3. SubSeq(y, n + 2, n + 1) = <<>>
        <5>1. n + 2 \in 1 .. Len(y) + 1 /\ n + 1 \in 0 .. Len(y) /\ ~(n + 2 <= n + 1)
          BY <1>2
        <5>2. Len(SubSeq(y, n + 2, n + 1)) = 0 /\ SubSeq(y, n + 2, n + 1) \in Seq(T)
          BY <1>2, <5>1, Piece
        <5> QED
          BY <5>2
      <4> QED
        BY <1>2, <1>6, <4>1, <4>2, <4>3 DEF NoLine
    <3>5. SubSeq(y, i, n - 1) = SubSeq(input, i, n - 1)
      <4>1. n - 1 \in 0 .. n
        BY <1>2, <3>1
      <4> QED
        BY <1>7, <4>1
    <3>6. SubSeq(r, 1, Len(r) - 1) = SubSeq(input, i, n - 1)
      <4>1. PICK m \in Nat : m = Len(r) - 1 /\ m = n - i
        BY <1>2, <2>3, <3>1
      <4>2. m \in 0 .. Len(r) /\ 1 \in 1 .. Len(r) + 1 /\ n - 1 \in 0 .. Len(input)
            /\ i \in 1 .. Len(input) + 1 /\ i \in 1 .. n
        BY <1>1, <1>2, <2>3, <3>1, <4>1
      <4>3. PICK u, v : u = SubSeq(r, 1, m) /\ v = SubSeq(input, i, n - 1)
        OBVIOUS
      <4>4. /\ u \in Seq(T) /\ Len(u) = IF 1 <= m THEN (m - 1) + 1 ELSE 0
            /\ \A k \in 1 .. (m - 1) + 1 : u[k] = r[(1 + k) - 1]
        BY <2>2, <4>2, <4>3, Piece
      <4>5. /\ v \in Seq(T) /\ Len(v) = IF i <= n - 1 THEN ((n - 1) - i) + 1 ELSE 0
            /\ \A k \in 1 .. ((n - 1) - i) + 1 : v[k] = input[(i + k) - 1]
        BY <4>2, <4>3, Piece
      <4>6. Len(u) = m /\ Len(v) = m
        <5>1. m = n - i /\ m \in Nat /\ i \in Nat /\ n \in Nat
          BY <1>2, <4>1, <4>2
        <5>2. Len(u) = IF 1 <= m THEN (m - 1) + 1 ELSE 0
          BY <4>4
        <5>3. Len(v) = IF i <= n - 1 THEN ((n - 1) - i) + 1 ELSE 0
          BY <4>5
        <5> QED
          BY <5>1, <5>2, <5>3
      <4>7. ASSUME NEW k \in 1 .. m PROVE u[k] = v[k]
        <5>1. k \in 1 .. (m - 1) + 1 /\ (1 + k) - 1 = k /\ k \in 1 .. (n - i) + 1
              /\ k \in 1 .. ((n - 1) - i) + 1
          BY <1>2, <4>1, <4>2
        <5> QED
          BY <2>2, <4>4, <4>5, <5>1
      <4> QED
        BY <4>1, <4>3, <4>4, <4>5, <4>6, <4>7, SeqEqual
    <3>7. PICK l : l = SubSeq(input, i, n - 1)
      OBVIOUS
    <3>8. g[i] = [messages |-> <<l>>, remainder |-> <<>>]
      <4>1. PICK z : z = <<l>>
        OBVIOUS
      <4>2. z \o <<>> = z
        BY <4>1, OneConcat
      <4>3. g[i] = Onto(l, [messages |-> <<>>, remainder |-> <<>>])
        BY <3>3, <3>4, <3>5, <3>7
      <4>4. Onto(l, [messages |-> <<>>, remainder |-> <<>>]) = [messages |-> z \o <<>>, remainder |-> <<>>]
        BY <4>1 DEF Onto
      <4> QED
        BY <4>1, <4>2, <4>3, <4>4
    <3>9. Feed(f[i], c) = [messages |-> <<l>>, remainder |-> <<>>]
      <4>1. PICK z : z = <<l>>
        OBVIOUS
      <4>2. <<>> \o z = z
        BY <4>1, OneConcat
      <4>3. PICK p : p = f[i] /\ p.messages = <<>> /\ p.remainder = r
        BY <2>4
      <4>4. Feed(p, c) = [messages |-> <<>> \o <<SubSeq(r, 1, Len(r) - 1)>>, remainder |-> <<>>]
        BY <2>6, <4>3 DEF Feed
      <4> QED
        BY <3>6, <3>7, <4>1, <4>2, <4>3, <4>4
    <3> QED
      BY <3>8, <3>9
  <2>7. CASE ~(c = "lf" /\ EndsInCr(r))
    <3>1. EndsFrom(y, i) = {} /\ i \in 1 .. (n + 1) + 1
      BY <1>2, <1>7, <1>8, <2>5, <2>7
    <3>2. g[i] = [messages |-> <<>>, remainder |-> r \o <<c>>]
      BY <1>2, <1>6, <1>7, <2>1, <3>1 DEF NoLine
    <3> QED
      BY <2>4, <2>7, <3>2 DEF Feed
  <2> QED
    BY <2>6, <2>7
<1>9. n + 1 \in S
  <2>1. n + 1 \in 1 .. n + 1 /\ (n + 1) .. n = {}
    BY <1>2
  <2>2. EndsFrom(input, n + 1) = {}
    BY <1>1, <2>1 DEF EndsFrom
  <2> QED
    BY <1>8, <2>1, <2>2
<1>10. ASSUME NEW i \in 1 .. n, \A j \in i + 1 .. n + 1 : j \in S PROVE i \in S
  <2>1. i \in 1 .. n + 1 /\ i \in 1 .. (n + 1) + 1 /\ i \in 1 .. Len(input) + 1
    BY <1>1, <1>2
  <2>2. CASE EndsFrom(input, i) = {}
    BY <1>8, <2>1, <2>2
  <2>3. CASE EndsFrom(input, i) # {}
    <3>1. PICK e \in Nat : /\ e = Min(EndsFrom(input, i)) /\ e \in EndsFrom(input, i)
                           /\ e \in i .. n - 1 /\ \A k \in EndsFrom(input, i) : e <= k
                           /\ Line(input, i) \in Seq(T)
      <4>1. Min(EndsFrom(input, i)) \in i .. n - 1
        BY <1>1, <2>1, <2>3, EndsAre
      <4> QED
        BY <1>1, <2>1, <2>3, <4>1, EndsAre
    <3>2. EndsFrom(y, i) \in SUBSET Nat /\ e \in EndsFrom(y, i) /\ \A k \in EndsFrom(y, i) : e <= k
      <4>1. EndsFrom(y, i) \in SUBSET Nat
        BY <1>2, <2>1 DEF EndsFrom
      <4>2. e <= n
        BY <1>2, <3>1
      <4> QED
        BY <1>7, <2>1, <3>1, <4>1, <4>2
    <3>3. Min(EndsFrom(y, i)) = e
      BY <3>2, SmallestIs
    <3>4. e + 2 \in i + 1 .. n + 1
      BY <1>2, <3>1
    <3>5. g[e + 2] = Feed(f[e + 2], c) /\ f[e + 2] \in Parsed(T)
      <4>1. e + 2 \in S /\ e + 2 \in 1 .. n + 1
        BY <1>10, <3>4
      <4> QED
        BY <1>5, <4>1
    <3>6. Line(y, i) = Line(input, i)
      <4>1. e - 1 \in 0 .. n
        BY <1>2, <3>1
      <4> QED
        BY <1>7, <2>1, <3>1, <3>3, <4>1 DEF Line
    <3>7. f[i] = Onto(Line(input, i), f[e + 2])
      BY <1>5, <2>1, <2>3, <3>1
    <3>8. g[i] = Onto(Line(input, i), g[e + 2])
      BY <1>6, <2>1, <3>2, <3>3, <3>6
    <3>9. Onto(Line(input, i), Feed(f[e + 2], c)) = Feed(Onto(Line(input, i), f[e + 2]), c)
      BY <3>1, <3>5, FeedOnto
    <3> QED
      BY <2>1, <3>5, <3>7, <3>8, <3>9
  <2> QED
    BY <2>2, <2>3
<1>11. 1 \in S
  <2>1. 1 \in 1 .. n + 1
    BY <1>2
  <2> HIDE DEF S
  <2> QED
    BY <1>2, <1>9, <1>10, <2>1, DownFrom
<1> QED
  BY <1>1, <1>3, <1>4, <1>11

LEMMA ParseType ==
  ASSUME NEW T, NEW input \in Seq(T)
  PROVE  /\ ParseChunk(input) \in Parsed(T)
         /\ EndsFrom(input, 1) = {} => ParseChunk(input) = [messages |-> <<>>, remainder |-> input]
<1>1. PICK f : Parses(f, T, input) /\ ParseChunk(input) = f[1]
  BY ParseSteps
<1>2. 1 \in 1 .. Len(input) + 1
  OBVIOUS
<1>3. f[1] \in Parsed(T) /\ (EndsFrom(input, 1) = {} => f[1] = NoLine(input, 1))
  BY <1>1, <1>2 DEF Parses
<1>4. SubSeq(input, 1, Len(input)) = input
  <2>1. PICK v : v = SubSeq(input, 1, Len(input))
    OBVIOUS
  <2>2. Len(input) \in 0 .. Len(input) /\ Len(input) \in Nat
    OBVIOUS
  <2>3. /\ v \in Seq(T) /\ Len(v) = IF 1 <= Len(input) THEN (Len(input) - 1) + 1 ELSE 0
        /\ \A k \in 1 .. (Len(input) - 1) + 1 : v[k] = input[(1 + k) - 1]
    BY <1>2, <2>1, <2>2, Piece
  <2>4. Len(v) = Len(input)
    BY <2>2, <2>3
  <2>5. ASSUME NEW k \in 1 .. Len(v) PROVE v[k] = input[k]
    <3>1. k \in 1 .. (Len(input) - 1) + 1 /\ (1 + k) - 1 = k
      BY <2>2, <2>4
    <3> QED
      BY <2>3, <3>1
  <2> QED
    BY <2>1, <2>3, <2>4, <2>5, SeqEqual
<1> QED
  BY <1>1, <1>3, <1>4 DEF NoLine

-----------------------------------------------------------------------------
(* What the places from a to b contribute.                                 *)
Char == Alphabet \cup {Replacement, "cr"}
Position == 1 .. MaxSent
Places(a, b) == [k \in 1 .. (b + 1) - a |-> (a + k) - 1]
Span(K, a, b) == Sift(Places(a, b), K)

LEMMA PlacesType ==
  ASSUME NEW a \in Nat, NEW b \in Nat, a >= 1, b <= MaxSent, a <= b + 1
  PROVE  Places(a, b) \in Seq(Position) /\ Len(Places(a, b)) = (b + 1) - a
<1>1. (b + 1) - a \in Nat
  OBVIOUS
<1>2. MaxSent \in Nat
  BY NodeConnAssumption
<1>3. \A k \in 1 .. (b + 1) - a : (a + k) - 1 \in Position
  BY <1>2 DEF Position
<1> QED
  BY <1>1, <1>3 DEF Places

LEMMA SpanNone ==
  ASSUME NEW K, NEW a \in Nat
  PROVE  Span(K, a + 1, a) = <<>>
<1>1. 1 .. (a + 1) - (a + 1) = {}
  OBVIOUS
<1>2. Places(a + 1, a) = <<>>
  BY <1>1 DEF Places
<1> QED
  BY <1>2, SiftNone DEF Span

LEMMA SpanGrows ==
  ASSUME NEW U, NEW K \in Contributes(Position, U), NEW a \in Nat, NEW b \in Nat,
         a >= 1, b + 1 <= MaxSent, a <= b + 1
  PROVE  /\ Span(K, a, b) \in Seq(U) /\ K[b + 1] \in Seq(U)
         /\ Span(K, a, b + 1) = Span(K, a, b) \o K[b + 1]
<1>1. MaxSent \in Nat
  BY NodeConnAssumption
<1>2. PICK s, t : s = Places(a, b) /\ t = Places(a, b + 1)
  OBVIOUS
<1>3. s \in Seq(Position) /\ Len(s) = (b + 1) - a
  <2>1. b <= MaxSent
    BY <1>1
  <2> QED
    BY <1>2, <2>1, PlacesType
<1>4. t \in Seq(Position) /\ Len(t) = ((b + 1) + 1) - a
  <2>1. b + 1 \in Nat /\ a <= (b + 1) + 1
    OBVIOUS
  <2> QED
    BY <1>2, <2>1, PlacesType
<1>5. b + 1 \in Position
  BY <1>1 DEF Position
<1>6. t = Append(s, b + 1)
  <2>1. PICK u : u = Append(s, b + 1)
    OBVIOUS
  <2>2. /\ u \in Seq(Position) /\ Len(u) = Len(s) + 1 /\ u[Len(s) + 1] = b + 1
        /\ \A k \in 1 .. Len(s) : u[k] = s[k]
    BY <1>3, <1>5, <2>1
  <2>3. ASSUME NEW k \in 1 .. Len(t) PROVE t[k] = u[k]
    <3>1. t[k] = (a + k) - 1
      BY <1>2, <1>4 DEF Places
    <3>2. CASE k <= Len(s)
      <4>1. k \in 1 .. (b + 1) - a
        BY <1>3, <3>2
      <4>2. s[k] = (a + k) - 1
        BY <1>2, <4>1 DEF Places
      <4> QED
        BY <1>3, <2>2, <3>1, <4>1, <4>2
    <3>3. CASE ~(k <= Len(s))
      <4>1. k = Len(s) + 1 /\ (a + k) - 1 = b + 1
        BY <1>3, <1>4, <3>3
      <4> QED
        BY <2>2, <3>1, <4>1
    <3> QED
      BY <3>2, <3>3
  <2>4. Len(t) = Len(u)
    BY <1>3, <1>4, <2>2
  <2> QED
    BY <1>4, <2>1, <2>2, <2>3, <2>4, SeqEqual
<1>7. Sift(Append(s, b + 1), K) = Sift(s, K) \o K[b + 1]
  BY <1>3, <1>5, SiftAppend
<1>8. Sift(s, K) \in Seq(U)
  BY <1>3, SiftType
<1>9. K[b + 1] \in Seq(U)
  BY <1>5 DEF Contributes
<1> QED
  BY <1>2, <1>6, <1>7, <1>8, <1>9 DEF Span

LEMMA SpanSame ==
  ASSUME NEW K, NEW M, NEW a \in Nat, NEW b \in Nat, a >= 1,
         \A i \in a .. b : K[i] = M[i]
  PROVE  Span(K, a, b) = Span(M, a, b)
<1>1. \A k \in 1 .. (b + 1) - a : (a + k) - 1 \in a .. b
  OBVIOUS
<1>2. \A k \in 1 .. (b + 1) - a : K[(a + k) - 1] = M[(a + k) - 1]
  BY <1>1
<1>3. PICK s : s = Places(a, b)
  OBVIOUS
<1>4. DOMAIN s = 1 .. (b + 1) - a /\ \A k \in DOMAIN s : s[k] = (a + k) - 1
  BY <1>3 DEF Places
<1>5. \A k \in DOMAIN s : K[s[k]] = M[s[k]]
  BY <1>2, <1>4
<1>6. [k \in DOMAIN s |-> K[s[k]]] = [k \in DOMAIN s |-> M[s[k]]]
  BY <1>5
<1> QED
  BY <1>3, <1>6 DEF Span, Sift

(* The letters of a line.                                                  *)
Keep == [c \in Char |-> IF c = Replacement THEN <<>> ELSE <<c>>]

LEMMA KeptIs ==
  ASSUME NEW line \in Seq(Char)
  PROVE  Kept(line) = Sift(line, Keep)
<1>1. \A k \in DOMAIN line : line[k] \in Char
  OBVIOUS
<1>2. \A k \in DOMAIN line : Keep[line[k]] = IF line[k] = Replacement THEN <<>> ELSE <<line[k]>>
  BY <1>1 DEF Keep
<1>3. [k \in DOMAIN line |-> Keep[line[k]]]
        = [k \in DOMAIN line |-> IF line[k] = Replacement THEN <<>> ELSE <<line[k]>>]
  BY <1>2
<1> QED
  BY <1>3 DEF Kept, Sift

LEMMA KeepType == Keep \in Contributes(Char, Char)
<1>1. \A c \in Char : (IF c = Replacement THEN <<>> ELSE <<c>>) \in Seq(Char)
  OBVIOUS
<1> QED
  BY <1>1 DEF Keep, Contributes

LEMMA KeptGrows ==
  ASSUME NEW line \in Seq(Char), NEW c \in Char
  PROVE  /\ line \o <<c>> \in Seq(Char) /\ Kept(line) \in Seq(Char)
         /\ Kept(line \o <<c>>) = Kept(line) \o Keep[c]
         /\ Kept(<<>>) = <<>>
<1>1. Append(line, c) = line \o <<c>> /\ Append(line, c) \in Seq(Char)
  BY AppendsOne
<1>2. Sift(Append(line, c), Keep) = Sift(line, Keep) \o Keep[c]
  BY KeepType, SiftAppend
<1>3. Sift(line, Keep) \in Seq(Char)
  BY KeepType, SiftType
<1>4. <<>> \in Seq(Char)
  OBVIOUS
<1> QED
  BY <1>1, <1>2, <1>3, <1>4, KeptIs, SiftNone

-----------------------------------------------------------------------------
(* What has been emitted and what is kept, when the first n bytes have     *)
(* been read and K are the letters that come of them.                      *)
Start(n) == IF LineEnds(n) = {} THEN 0 ELSE 1 + Max(LineEnds(n))
LinesRead(K, ls, n) ==
  /\ Len(ls) = Cardinality(LineEnds(n))
  /\ \A end \in LineEnds(n) :
       Kept(ls[Cardinality(LineEnds(end + 1))]) = Span(K, Start(end) + 1, end - 1)
RestRead(K, ch, n) ==
  /\ Kept(ch) = Span(K, Start(n) + 1, n)
  /\ EndsFrom(ch, 1) = {}
  /\ EndsInCr(ch) <=> n > 0 /\ stream[n] = "cr"
Framed(K, p, n) == LinesRead(K, p.messages, n) /\ RestRead(K, p.remainder, n)

\* The stream, and the letters that the places of a line end contribute.
Streamed == stream \in Seq(Char) /\ Len(stream) >= MaxSent /\ IsText(stream) /\ IsMarked(stream)
Lettering(K) == /\ K \in Contributes(Position, Char)
                /\ \A i \in Position : stream[i] = "cr" => K[i] = <<"cr">>

LEMMA LineEndsAre ==
  ASSUME NEW n \in Nat, Streamed
  PROVE  /\ LineEnds(n) \in SUBSET (1 .. n - 1)
         /\ IsFiniteSet(LineEnds(n)) /\ Cardinality(LineEnds(n)) \in Nat
         /\ Start(n) \in 0 .. n
<1>1. LineEnds(n) \in SUBSET (1 .. n - 1)
  BY DEF LineEnds
<1>2. IsFiniteSet(LineEnds(n)) /\ Cardinality(LineEnds(n)) \in Nat
  <2>1. IsFiniteSet(1 .. n - 1)
    BY FS_Interval
  <2> QED
    BY <1>1, <2>1, FS_Subset, FS_CardinalityType
<1>3. Start(n) \in 0 .. n
  <2>1. CASE LineEnds(n) = {}
    BY <2>1 DEF Start
  <2>2. CASE LineEnds(n) # {}
    <3>1. LineEnds(n) \in SUBSET (1 .. n)
      BY <1>1
    <3>2. Max(LineEnds(n)) \in LineEnds(n)
      BY <2>2, <3>1, Greatest
    <3>3. Max(LineEnds(n)) \in 1 .. n - 1
      BY <1>1, <3>2
    <3> QED
      BY <2>2, <3>3 DEF Start
  <2> QED
    BY <2>1, <2>2
<1> QED
  BY <1>1, <1>2, <1>3

LEMMA LineEndsGrow ==
  ASSUME NEW i \in Position, Streamed
  PROVE  LineEnds(i) = LineEnds(i - 1)
           \cup (IF i - 1 > 0 /\ stream[i - 1] = "cr" /\ stream[i] = "lf" THEN {i - 1} ELSE {})
<1>1. MaxSent \in Nat /\ i \in Nat /\ i >= 1 /\ i <= MaxSent /\ i <= Len(stream)
  BY NodeConnAssumption DEF Streamed, Position
<1>2. LineEnds(i) = {j \in 1 .. i - 1 : EndsLine(stream, j)}
  BY DEF LineEnds
<1>3. LineEnds(i - 1) = {j \in 1 .. (i - 1) - 1 : EndsLine(stream, j)}
  BY DEF LineEnds
<1>4. i - 1 > 0 => (EndsLine(stream, i - 1) <=> stream[i - 1] = "cr" /\ stream[i] = "lf")
  <2>1. (i - 1) + 1 = i /\ (i - 1 < Len(stream))
    <3>1. Len(stream) \in Nat
      BY DEF Streamed
    <3> QED
      BY <1>1, <3>1
  <2> QED
    BY <2>1 DEF EndsLine
<1>5. CASE i - 1 > 0
  <2>1. 1 .. i - 1 = (1 .. (i - 1) - 1) \cup {i - 1}
    BY <1>1, <1>5
  <2> QED
    BY <1>2, <1>3, <1>4, <1>5, <2>1
<1>6. CASE ~(i - 1 > 0)
  <2>1. 1 .. i - 1 = {} /\ 1 .. (i - 1) - 1 = {}
    BY <1>1, <1>6
  <2> QED
    BY <1>2, <1>3, <1>6, <2>1
<1> QED
  BY <1>5, <1>6

\* The index of a line, and what a new line end changes.
LEMMA LineIndex ==
  ASSUME NEW n \in Nat, Streamed, NEW end \in LineEnds(n)
  PROVE  Cardinality(LineEnds(end + 1)) \in 1 .. Cardinality(LineEnds(n))
<1>1. end \in 1 .. n - 1 /\ EndsLine(stream, end)
  BY DEF LineEnds
<1>2. end + 1 \in Nat
  BY <1>1
<1>3. LineEnds(end + 1) \subseteq LineEnds(n) /\ end \in LineEnds(end + 1)
  BY <1>1 DEF LineEnds
<1>4. /\ IsFiniteSet(LineEnds(n)) /\ Cardinality(LineEnds(n)) \in Nat
      /\ IsFiniteSet(LineEnds(end + 1)) /\ Cardinality(LineEnds(end + 1)) \in Nat
  BY <1>2, LineEndsAre
<1>5. Cardinality(LineEnds(end + 1)) <= Cardinality(LineEnds(n))
  BY <1>3, <1>4, FS_Subset
<1>6. Cardinality(LineEnds(end + 1)) # 0
  BY <1>3, <1>4, FS_EmptySet
<1> QED
  BY <1>4, <1>5, <1>6

\* No place that may give no character follows a "cr".
LEMMA GoesOn ==
  ASSUME NEW i \in Position, Streamed, stream[i] \in {"trail", "bom"}, i - 1 > 0
  PROVE  stream[i - 1] # "cr"
<1>1. MaxSent \in Nat /\ i \in Nat /\ i >= 2 /\ i <= Len(stream) /\ Len(stream) \in Nat
  BY NodeConnAssumption DEF Streamed, Position
<1>2. i \in DOMAIN stream /\ i - 1 \in DOMAIN stream
  BY <1>1 DEF Streamed
<1>4. SUFFICES ASSUME stream[i - 1] = "cr" PROVE FALSE
  OBVIOUS
<1>10. stream[i] = "trail"
  <2>1. i > 1
    BY <1>1
  <2>2. ~(stream[i] = "bom")
    BY <1>2, <1>4, <2>1 DEF Streamed, IsMarked
  <2> QED
    BY <2>2
<1>3. PICK j \in 1 .. i - 1 : i < j + Size(stream[j])
  BY <1>2, <1>10 DEF Streamed, IsText
<1>5. Size("cr") = 1
  BY DEF Size
<1>6. j # i - 1
  BY <1>1, <1>3, <1>4, <1>5
<1>7. j \in 1 .. (i - 1) - 1 /\ Size(stream[j]) \in Nat
  BY <1>1, <1>3, <1>6 DEF Size
<1>8. i - 1 < j + Size(stream[j])
  BY <1>1, <1>3, <1>7
<1>9. stream[i - 1] = "trail"
  BY <1>2, <1>7, <1>8 DEF Streamed, IsText
<1> QED
  BY <1>4, <1>9

\* A place that gives no character.
LEMMA SilentPlace ==
  ASSUME NEW i \in Position, Streamed, stream[i] \in {"trail", "bom"},
         NEW K, Lettering(K), K[i] = <<>>,
         NEW p \in Parsed(Char), Framed(K, p, i - 1)
  PROVE  Framed(K, p, i)
<1>1. MaxSent \in Nat /\ i \in Nat /\ i >= 1 /\ i <= MaxSent /\ i - 1 \in Nat /\ (i - 1) + 1 = i
  BY NodeConnAssumption DEF Position
<1>2. LineEnds(i) = LineEnds(i - 1)
  BY LineEndsGrow
<1>3. Start(i) = Start(i - 1)
  BY <1>2 DEF Start
<1>4. LinesRead(K, p.messages, i)
  BY <1>2 DEF Framed, LinesRead
<1>5. Kept(p.remainder) = Span(K, Start(i) + 1, i)
  <2>1. PICK a, b \in Nat : a = Start(i - 1) + 1 /\ b = i - 1
    <3>1. Start(i - 1) \in 0 .. i - 1
      BY <1>1, LineEndsAre
    <3> QED
      BY <1>1, <3>1
  <2>2. a >= 1 /\ b + 1 <= MaxSent /\ a <= b + 1 /\ b + 1 = i
    <3>1. Start(i - 1) \in 0 .. i - 1
      BY <1>1, LineEndsAre
    <3> QED
      BY <1>1, <2>1, <3>1
  <2>3. Span(K, a, b) \in Seq(Char) /\ Span(K, a, b + 1) = Span(K, a, b) \o K[b + 1]
    BY <2>2, SpanGrows DEF Lettering
  <2>4. Span(K, a, b) \o <<>> = Span(K, a, b)
    BY <2>3, ConcatEmptySeq
  <2>5. Kept(p.remainder) = Span(K, a, b)
    BY <2>1 DEF Framed, RestRead
  <2> QED
    BY <1>3, <2>1, <2>2, <2>3, <2>4, <2>5
<1>6. EndsInCr(p.remainder) <=> i > 0 /\ stream[i] = "cr"
  BY GoesOn DEF Framed, RestRead
<1> QED
  BY <1>4, <1>5, <1>6 DEF Framed, RestRead

\* A place that gives a character, which is "cr" or "lf" if the byte is.
LEMMA CharacterPlace ==
  ASSUME NEW i \in Position, Streamed, NEW c \in Char,
         c = "cr" <=> stream[i] = "cr", c = "lf" <=> stream[i] = "lf",
         NEW K, Lettering(K), K[i] = Keep[c],
         NEW p \in Parsed(Char), Framed(K, p, i - 1)
  PROVE  Framed(K, Feed(p, c), i)
<1>1. MaxSent \in Nat /\ i \in Nat /\ i >= 1 /\ i <= MaxSent /\ i - 1 \in Nat /\ (i - 1) + 1 = i
  BY NodeConnAssumption DEF Position
<1>2. PICK ls, ch : ls = p.messages /\ ch = p.remainder /\ ls \in Seq(Seq(Char)) /\ ch \in Seq(Char)
  BY DEF Parsed
<1>3. LinesRead(K, ls, i - 1) /\ RestRead(K, ch, i - 1)
  BY <1>2 DEF Framed
<1>4. PICK a, b \in Nat : a = Start(i - 1) + 1 /\ b = i - 1 /\ a >= 1 /\ a <= b + 1 /\ b + 1 = i
  <2>1. Start(i - 1) \in 0 .. i - 1
    BY <1>1, LineEndsAre
  <2> QED
    BY <1>1, <2>1
<1>5. /\ Span(K, a, b) \in Seq(Char) /\ K[i] \in Seq(Char)
      /\ Span(K, a, i) = Span(K, a, b) \o K[i]
  <2>1. b + 1 <= MaxSent
    BY <1>1, <1>4
  <2> QED
    BY <1>4, <2>1, SpanGrows DEF Lettering
<1>6. /\ Kept(ch) = Span(K, a, b) /\ EndsFrom(ch, 1) = {}
      /\ EndsInCr(ch) <=> i - 1 > 0 /\ stream[i - 1] = "cr"
  BY <1>3, <1>4 DEF RestRead
<1>7. CASE c = "lf" /\ EndsInCr(ch)
  <2>1. i - 1 > 0 /\ stream[i - 1] = "cr" /\ stream[i] = "lf"
    BY <1>6, <1>7
  <2>2. LineEnds(i) = LineEnds(i - 1) \cup {i - 1} /\ i - 1 \notin LineEnds(i - 1)
    <3>1. LineEnds(i - 1) \in SUBSET (1 .. (i - 1) - 1)
      BY <1>1, LineEndsAre
    <3> QED
      BY <1>1, <2>1, <3>1, LineEndsGrow
  <2>3. PICK n \in Nat : n = Len(ls) /\ n = Cardinality(LineEnds(i - 1))
    BY <1>2, <1>3 DEF LinesRead
  <2>4. Cardinality(LineEnds(i)) = n + 1
    <3>1. IsFiniteSet(LineEnds(i - 1))
      BY <1>1, LineEndsAre
    <3> QED
      <4>1. Cardinality(LineEnds(i - 1) \cup {i - 1}) = Cardinality(LineEnds(i - 1)) + 1
        BY <2>2, <3>1, FS_AddElement
      <4> QED
        BY <2>2, <2>3, <4>1
  <2>5. PICK front : front = SubSeq(ch, 1, Len(ch) - 1)
    OBVIOUS
  <2>6. front \in Seq(Char) /\ ch = front \o <<"cr">>
    <3>1. ch # <<>> /\ ch[Len(ch)] = "cr"
      BY <1>7 DEF EndsInCr
    <3> QED
      BY <1>2, <2>5, <3>1, FrontAndLast
  <2>7. Feed(p, c) = [messages |-> ls \o <<front>>, remainder |-> <<>>]
    BY <1>2, <1>7, <2>5 DEF Feed
  <2>8. Kept(front) = Span(K, a, b - 1)
    <3>1. PICK d \in Nat : d + 1 = b /\ d = b - 1 /\ a <= d + 1 /\ d + 1 <= MaxSent
      <4>1. b - 1 \in Nat /\ (b - 1) + 1 = b /\ b <= MaxSent
        BY <1>1, <1>4, <2>1
      <4>2. a <= b
        <5>1. Start(i - 1) \in 0 .. i - 1
          BY <1>1, LineEndsAre
        <5>2. Start(i - 1) # i - 1
          <6>1. CASE LineEnds(i - 1) = {}
            BY <2>1, <6>1 DEF Start
          <6>2. CASE LineEnds(i - 1) # {}
            <7>1. LineEnds(i - 1) \in SUBSET (1 .. i - 1)
              <8>1. LineEnds(i - 1) \in SUBSET (1 .. (i - 1) - 1)
                BY <1>1, LineEndsAre
              <8> QED
                BY <1>1, <8>1
            <7>2. PICK e : e = Max(LineEnds(i - 1)) /\ e \in LineEnds(i - 1)
              BY <1>1, <6>2, <7>1, Greatest
            <7>3. e \in 1 .. (i - 1) - 1 /\ EndsLine(stream, e)
              BY <7>2 DEF LineEnds
            <7>4. stream[e + 1] = "lf"
              BY <7>3 DEF EndsLine
            <7>5. e + 1 # i - 1
              BY <2>1, <7>4
            <7> QED
              BY <1>1, <6>2, <7>2, <7>3, <7>5 DEF Start
          <6> QED
            BY <6>1, <6>2
        <5> QED
          BY <1>1, <1>4, <5>1, <5>2
      <4> QED
        BY <1>4, <4>1, <4>2
    <3>2. Span(K, a, d) \in Seq(Char) /\ Span(K, a, d + 1) = Span(K, a, d) \o K[d + 1]
      BY <1>4, <3>1, SpanGrows DEF Lettering
    <3>3. K[b] = <<"cr">>
      <4>1. b \in Position
        BY <1>1, <1>4, <2>1 DEF Position
      <4> QED
        BY <1>4, <2>1, <4>1 DEF Lettering
    <3>4. "cr" \in Char /\ Keep["cr"] = <<"cr">>
      BY DEF Char, Keep, Replacement
    <3>5. Kept(front) \in Seq(Char) /\ Kept(front \o <<"cr">>) = Kept(front) \o <<"cr">>
      BY <2>6, <3>4, KeptGrows
    <3>6. Kept(front) \o <<"cr">> = Span(K, a, d) \o <<"cr">>
      BY <1>6, <2>6, <3>1, <3>2, <3>3, <3>5
    <3>7. Kept(front) = Span(K, a, d)
      <4>1. PICK x, y : x = Kept(front) /\ y = Span(K, a, d)
        OBVIOUS
      <4>2. x \in Seq(Char) /\ y \in Seq(Char) /\ x \o <<"cr">> = y \o <<"cr">>
        BY <3>2, <3>5, <3>6, <4>1
      <4>3. x = y
        BY <3>4, <4>2, Cancel
      <4> QED
        BY <4>1, <4>3
    <3> QED
      BY <3>1, <3>7
  <2>9. LinesRead(K, ls \o <<front>>, i)
    <3>1. PICK qs : qs = ls \o <<front>>
      OBVIOUS
    <3>2. Len(qs) = n + 1 /\ qs[n + 1] = front /\ \A k \in 1 .. n : qs[k] = ls[k]
      <4>1. PICK U : U = Seq(Char)
        OBVIOUS
      <4>2. front \in U /\ ls \in Seq(U)
        BY <1>2, <2>6, <4>1
      <4>3. Len(qs) = Len(ls) + 1 /\ qs[Len(ls) + 1] = front /\ \A k \in 1 .. Len(ls) : qs[k] = ls[k]
        BY <3>1, <4>2, OneMore
      <4> QED
        BY <2>3, <4>3
    <3>3. ASSUME NEW end \in LineEnds(i)
          PROVE  Kept(qs[Cardinality(LineEnds(end + 1))]) = Span(K, Start(end) + 1, end - 1)
      <4>1. CASE end = i - 1
        <5>1. LineEnds(end + 1) = LineEnds(i)
          BY <1>1, <4>1
        <5>2. qs[Cardinality(LineEnds(end + 1))] = front
          BY <2>4, <3>2, <5>1
        <5>3. Start(end) + 1 = a /\ end - 1 = b - 1
          BY <1>4, <4>1
        <5> QED
          BY <2>8, <5>2, <5>3
      <4>2. CASE end # i - 1
        <5>1. end \in LineEnds(i - 1)
          BY <2>2, <4>2
        <5>2. Cardinality(LineEnds(end + 1)) \in 1 .. n
          BY <1>1, <2>3, <5>1, LineIndex
        <5>3. Kept(ls[Cardinality(LineEnds(end + 1))]) = Span(K, Start(end) + 1, end - 1)
          BY <1>3, <5>1 DEF LinesRead
        <5> QED
          BY <3>2, <5>2, <5>3
      <4> QED
        BY <4>1, <4>2
    <3> QED
      BY <2>4, <3>1, <3>2, <3>3 DEF LinesRead
  <2>10. RestRead(K, <<>>, i)
    <3>1. Start(i) = i
      <4>1. LineEnds(i) \in SUBSET (1 .. i) /\ i - 1 \in LineEnds(i) /\ \A x \in LineEnds(i) : i - 1 >= x
        <5>1. LineEnds(i) \in SUBSET (1 .. i - 1)
          BY <1>1, LineEndsAre
        <5> QED
          BY <1>1, <2>2, <5>1
      <4>2. Max(LineEnds(i)) = i - 1
        BY <1>1, <4>1, GreatestIs
      <4> QED
        BY <1>1, <4>1, <4>2 DEF Start
    <3>2. Kept(<<>>) = Span(K, Start(i) + 1, i)
      <4>1. Kept(<<>>) = <<>>
        BY <1>2, KeptGrows
      <4> QED
        BY <1>1, <3>1, <4>1, SpanNone
    <3>3. EndsFrom(<<>>, 1) = {}
      BY DEF EndsFrom
    <3>4. ~EndsInCr(<<>>) /\ stream[i] # "cr"
      BY <2>1 DEF EndsInCr
    <3> QED
      BY <3>2, <3>3, <3>4 DEF RestRead
  <2> QED
    BY <2>7, <2>9, <2>10 DEF Framed
<1>8. CASE ~(c = "lf" /\ EndsInCr(ch))
  <2>1. Feed(p, c) = [messages |-> ls, remainder |-> ch \o <<c>>]
    BY <1>2, <1>8 DEF Feed
  <2>2. LineEnds(i) = LineEnds(i - 1)
    <3>1. ~(i - 1 > 0 /\ stream[i - 1] = "cr" /\ stream[i] = "lf")
      BY <1>6, <1>8
    <3> QED
      BY <3>1, LineEndsGrow
  <2>3. LinesRead(K, ls, i)
    BY <1>3, <2>2 DEF LinesRead
  <2>4. Start(i) + 1 = a
    BY <1>4, <2>2 DEF Start
  <2>5. Kept(ch \o <<c>>) = Span(K, Start(i) + 1, i)
    <3>1. Kept(ch \o <<c>>) = Kept(ch) \o Keep[c]
      BY <1>2, KeptGrows
    <3> QED
      BY <1>5, <1>6, <2>4, <3>1
  <2>6. EndsFrom(ch \o <<c>>, 1) = {}
    <3>1. 1 \in 1 .. Len(ch) + 1
      BY <1>2
    <3>2. EndsFrom(ch \o <<c>>, 1)
            = EndsFrom(ch, 1) \cup (IF 1 <= Len(ch) /\ c = "lf" /\ ch[Len(ch)] = "cr" THEN {Len(ch)} ELSE {})
      BY <1>2, <3>1, EndsGrow
    <3>3. ~(1 <= Len(ch) /\ c = "lf" /\ ch[Len(ch)] = "cr")
      <4>1. 1 <= Len(ch) => ch # <<>>
        BY <1>2
      <4> QED
        BY <1>8, <4>1 DEF EndsInCr
    <3> QED
      BY <1>6, <3>2, <3>3
  <2>7. EndsInCr(ch \o <<c>>) <=> i > 0 /\ stream[i] = "cr"
    <3>1. PICK t : t = ch \o <<c>>
      OBVIOUS
    <3>2. t # <<>> /\ t[Len(t)] = c
      BY <1>2, <3>1
    <3> QED
      BY <1>1, <3>1, <3>2 DEF EndsInCr
  <2> QED
    BY <2>1, <2>3, <2>5, <2>6, <2>7 DEF Framed, RestRead
<1> QED
  BY <1>7, <1>8

\* The letters, when the reads have cut the bytes at C.
Lost(C, i) == \/ \E cut \in C : i <= cut /\ cut < i + Size(stream[i]) - 1
              \/ stream[i] = "bom" /\ i - 1 \in C \cup {0}
Letters(C) == [i \in Position |-> IF Begins(i) /\ ~Lost(C, i) THEN <<stream[i]>> ELSE <<>>]

LEMMA StreamIs ==
  ASSUME Streamed, NEW i \in Position
  PROVE  /\ i \in DOMAIN stream /\ stream[i] \in Char /\ stream[i] # Replacement
         /\ i \in Nat /\ i >= 1 /\ i <= MaxSent /\ MaxSent \in Nat
         /\ i - 1 \in Nat /\ (i - 1) + 1 = i
<1>1. MaxSent \in Nat /\ i \in Nat /\ i >= 1 /\ i <= MaxSent /\ i <= Len(stream) /\ Len(stream) \in Nat
  BY NodeConnAssumption DEF Streamed, Position
<1>2. i \in DOMAIN stream
  BY <1>1 DEF Streamed
<1>3. stream[i] \in Char
  BY <1>2 DEF Streamed
<1>4. stream[i] # Replacement
  BY <1>2 DEF Streamed, IsText
<1> QED
  BY <1>1, <1>2, <1>3, <1>4

LEMMA Sizes ==
  ASSUME NEW b
  PROVE  /\ Size(b) \in 1 .. 3
         /\ b \in {"cr", "lf", "trail"} => Size(b) = 1
  BY DEF Size

LEMMA LettersType ==
  ASSUME Streamed, NEW C \in SUBSET Nat
  PROVE  Lettering(Letters(C))
<1>1. ASSUME NEW i \in Position
      PROVE  /\ Letters(C)[i] = IF Begins(i) /\ ~Lost(C, i) THEN <<stream[i]>> ELSE <<>>
             /\ Letters(C)[i] \in Seq(Char)
  <2>1. <<stream[i]>> \in Seq(Char) /\ <<>> \in Seq(Char)
    BY StreamIs
  <2> QED
    BY <2>1 DEF Letters
<1>2. Letters(C) \in Contributes(Position, Char)
  BY <1>1 DEF Letters, Contributes
<1>3. ASSUME NEW i \in Position, stream[i] = "cr" PROVE Letters(C)[i] = <<"cr">>
  <2>1. Size(stream[i]) = 1 /\ Begins(i)
    BY <1>3, Sizes DEF Begins
  <2>2. i \in Nat
    BY StreamIs
  <2>3. \A cut \in C : ~(i <= cut /\ cut < i + 1 - 1)
    BY <2>2
  <2>4. ~Lost(C, i)
    BY <1>3, <2>1, <2>3 DEF Lost
  <2> QED
    BY <1>1, <1>3, <2>1, <2>4
<1> QED
  BY <1>2, <1>3 DEF Lettering

\* A later cut changes no letter of what has been read.
LEMMA LettersStay ==
  ASSUME Streamed, NEW n \in Nat, NEW m \in Nat, n < m, m <= MaxSent,
         NEW C \in SUBSET (1 .. n), n = 0 \/ n \in C, NEW i \in 1 .. n
  PROVE  Letters(C)[i] = Letters(C \cup {m})[i]
<1>1. i \in Position /\ Size(stream[i]) \in Nat /\ n \in C
  BY NodeConnAssumption, Sizes DEF Position
<1>2. (\E cut \in C \cup {m} : i <= cut /\ cut < i + Size(stream[i]) - 1)
        <=> (\E cut \in C : i <= cut /\ cut < i + Size(stream[i]) - 1)
  BY <1>1
<1>3. i - 1 \in (C \cup {m}) \cup {0} <=> i - 1 \in C \cup {0}
  OBVIOUS
<1>4. Lost(C \cup {m}, i) <=> Lost(C, i)
  BY <1>2, <1>3 DEF Lost
<1> QED
  BY <1>1, <1>4 DEF Letters

\* Only the letters that have been read matter.
LEMMA FramedStays ==
  ASSUME Streamed, NEW K, NEW M, NEW n \in Nat, NEW p,
         \A i \in 1 .. n : K[i] = M[i], Framed(K, p, n)
  PROVE  Framed(M, p, n)
<1>1. LineEnds(n) \in SUBSET (1 .. n - 1) /\ Start(n) \in 0 .. n
  BY LineEndsAre
<1>2. ASSUME NEW end \in LineEnds(n)
      PROVE  Span(K, Start(end) + 1, end - 1) = Span(M, Start(end) + 1, end - 1)
  <2>1. end \in 1 .. n - 1 /\ end \in Nat
    BY <1>1
  <2>2. PICK s \in 0 .. end : s = Start(end)
    BY <2>1, LineEndsAre
  <2>3. s + 1 \in Nat /\ s + 1 >= 1 /\ end - 1 \in Nat /\ \A i \in s + 1 .. end - 1 : i \in 1 .. n
    BY <2>1
  <2>4. Span(K, s + 1, end - 1) = Span(M, s + 1, end - 1)
    BY <2>3, SpanSame
  <2> QED
    BY <2>2, <2>4
<1>3. Span(K, Start(n) + 1, n) = Span(M, Start(n) + 1, n)
  <2>1. PICK s \in 0 .. n : s = Start(n)
    BY <1>1
  <2>2. s + 1 \in Nat /\ s + 1 >= 1 /\ \A i \in s + 1 .. n : i \in 1 .. n
    BY <2>1
  <2>3. Span(K, s + 1, n) = Span(M, s + 1, n)
    BY <2>2, SpanSame
  <2> QED
    BY <2>1, <2>3
<1>4. LinesRead(M, p.messages, n)
  BY <1>2 DEF Framed, LinesRead
<1>5. RestRead(M, p.remainder, n)
  BY <1>3 DEF Framed, RestRead
<1> QED
  BY <1>4, <1>5 DEF Framed

\* A byte that is decoded: the character that it becomes, if any, and the
\* letter that comes of it.
Silent(bytes, K, i) == stream[i] \in {"trail", "bom"} /\ Chars(bytes, i) = <<>> /\ K[i] = <<>>
Gives(bytes, K, i, c) == /\ c = "cr" <=> stream[i] = "cr"
                         /\ c = "lf" <=> stream[i] = "lf"
                         /\ Chars(bytes, i) = <<c>>
                         /\ K[i] = Keep[c]

LEMMA ByteIs ==
  ASSUME Streamed, NEW bytes, NEW n \in Nat, NEW m \in Nat, n < m, m <= MaxSent,
         bytes.first = n + 1, bytes.last = m,
         NEW C \in SUBSET (1 .. n), n = 0 \/ n \in C, NEW i \in n + 1 .. m
  PROVE  \/ Silent(bytes, Letters(C \cup {m}), i)
         \/ \E c \in Char : Gives(bytes, Letters(C \cup {m}), i, c)
<1>1. i \in Position /\ i \in Nat /\ stream[i] \in Char /\ stream[i] # Replacement
  <2>1. i \in Position
    BY NodeConnAssumption DEF Position
  <2> QED
    BY <2>1, StreamIs
<1>2. PICK z \in 1 .. 3 : z = Size(stream[i])
  BY Sizes
<1>3. Letters(C \cup {m})[i]
        = IF Begins(i) /\ ~Lost(C \cup {m}, i) THEN <<stream[i]>> ELSE <<>>
  BY <1>1 DEF Letters
<1>4. Lost(C \cup {m}, i) <=> ~Whole(i, m) \/ (stream[i] = "bom" /\ i = n + 1)
  <2>1. (\E cut \in C \cup {m} : i <= cut /\ cut < i + z - 1) <=> ~Whole(i, m)
    BY <1>1, <1>2 DEF Whole
  <2>2. i - 1 \in (C \cup {m}) \cup {0} <=> i = n + 1
    BY <1>1
  <2> QED
    BY <1>2, <2>1, <2>2 DEF Lost
<1>5. /\ Replacement \in Char /\ Keep[Replacement] = <<>>
      /\ \A c \in Char : c # Replacement => Keep[c] = <<c>>
      /\ Replacement # "cr" /\ Replacement # "lf"
  BY DEF Char, Keep, Replacement
<1>9. CASE Begins(i) /\ Whole(i, m) /\ stream[i] = "bom" /\ i = n + 1
  <2>1. Chars(bytes, i) = <<>>
    BY <1>9 DEF Chars
  <2>2. Letters(C \cup {m})[i] = <<>>
    BY <1>3, <1>4, <1>9
  <2> QED
    BY <1>9, <2>1, <2>2 DEF Silent
<1>6. CASE Begins(i) /\ Whole(i, m) /\ ~(stream[i] = "bom" /\ i = n + 1)
  <2>1. Chars(bytes, i) = <<stream[i]>>
    BY <1>6 DEF Chars
  <2>2. Letters(C \cup {m})[i] = Keep[stream[i]]
    BY <1>1, <1>3, <1>4, <1>5, <1>6
  <2> QED
    BY <1>1, <2>1, <2>2 DEF Gives
<1>7. CASE Begins(i) /\ ~Whole(i, m)
  <2>1. Chars(bytes, i) = <<Replacement>>
    BY <1>7 DEF Chars
  <2>2. z # 1
    BY <1>1, <1>2, <1>7 DEF Whole
  <2>3. stream[i] # "cr" /\ stream[i] # "lf"
    BY <1>2, <2>2, Sizes
  <2>4. Letters(C \cup {m})[i] = <<>>
    BY <1>3, <1>4, <1>7
  <2> QED
    BY <1>5, <2>1, <2>3, <2>4 DEF Gives
<1>8. CASE ~Begins(i)
  <2>1. stream[i] = "trail" /\ Letters(C \cup {m})[i] = <<>>
    BY <1>3, <1>8 DEF Begins
  <2>2. Chars(bytes, i) = <<>> \/ Chars(bytes, i) = <<Replacement>>
    BY <1>8 DEF Chars
  <2> QED
    BY <1>5, <2>1, <2>2 DEF Gives, Silent
<1> QED
  BY <1>6, <1>7, <1>8, <1>9

\* The characters of the bytes from first to i.
CharsOf(bytes) == [i \in Position |-> Chars(bytes, i)]

LEMMA DecodeIs ==
  ASSUME Streamed, NEW bytes, NEW n \in Nat, NEW m \in Nat, n < m, m <= MaxSent,
         bytes.first = n + 1, bytes.last = m
  PROVE  Decode(bytes) = Span(CharsOf(bytes), n + 1, m)
<1>1. PICK s : s = Places(n + 1, m)
  OBVIOUS
<1>2. DOMAIN s = 1 .. (m + 1) - (n + 1) /\ \A k \in DOMAIN s : s[k] = ((n + 1) + k) - 1
  BY <1>1 DEF Places
<1>3. \A k \in DOMAIN s : s[k] \in Position
  <2>1. \A k \in 1 .. (m + 1) - (n + 1) : ((n + 1) + k) - 1 \in Position
    BY NodeConnAssumption DEF Position
  <2> QED
    BY <1>2, <2>1
<1>4. \A k \in DOMAIN s : CharsOf(bytes)[s[k]] = Chars(bytes, ((n + 1) + k) - 1)
  BY <1>2, <1>3 DEF CharsOf
<1>5. [k \in DOMAIN s |-> CharsOf(bytes)[s[k]]]
        = [k \in 1 .. (m + 1) - (n + 1) |-> Chars(bytes, ((n + 1) + k) - 1)]
  BY <1>2, <1>4
<1> QED
  <2>1. Length(bytes) = (m + 1) - (n + 1)
    BY DEF Length
  <2>2. PICK e : e = [k \in 1 .. Length(bytes) |-> Chars(bytes, (bytes.first + k) - 1)]
    OBVIOUS
  <2>3. e = [k \in 1 .. (m + 1) - (n + 1) |-> Chars(bytes, ((n + 1) + k) - 1)]
    BY <2>1, <2>2
  <2>4. Decode(bytes) = FlattenSeq(e)
    BY <2>2 DEF Decode
  <2> QED
    BY <1>1, <1>5, <2>3, <2>4 DEF Span, Sift

\* What is emitted and kept after a read whose characters parse to p.
After(ls, p) == [messages |-> ls \o p.messages, remainder |-> p.remainder]

LEMMA AfterType ==
  ASSUME NEW ls \in Seq(Seq(Char)), NEW p \in Parsed(Char)
  PROVE  After(ls, p) \in Parsed(Char)
<1>1. p.messages \in Seq(Seq(Char)) /\ p.remainder \in Seq(Char)
  BY DEF Parsed
<1>2. ls \o p.messages \in Seq(Seq(Char))
  BY <1>1, Concatenates
<1> QED
  BY <1>1, <1>2 DEF After, Parsed

LEMMA FeedAfter ==
  ASSUME NEW ls \in Seq(Seq(Char)), NEW p \in Parsed(Char), NEW c \in Char
  PROVE  After(ls, Feed(p, c)) = Feed(After(ls, p), c)
<1>1. PICK U, ms : U = Seq(Char) /\ ms = p.messages
  OBVIOUS
<1>2. ms \in Seq(U) /\ ls \in Seq(U) /\ p.remainder \in Seq(Char)
  BY <1>1 DEF Parsed
<1>3. CASE c = "lf" /\ EndsInCr(p.remainder)
  <2>1. PICK front, b : front = SubSeq(p.remainder, 1, Len(p.remainder) - 1) /\ b = <<front>>
    OBVIOUS
  <2>2. front \in U
    BY <1>1, <1>2, <1>3, <2>1, FrontAndLast DEF EndsInCr
  <2>3. b \in Seq(U)
    BY <2>1, <2>2
  <2>4. ls \o (ms \o b) = (ls \o ms) \o b
    BY <1>2, <2>3, ConcatMoves
  <2> QED
    BY <1>1, <1>3, <2>1, <2>4 DEF After, Feed
<1>4. CASE ~(c = "lf" /\ EndsInCr(p.remainder))
  BY <1>4 DEF After, Feed
<1> QED
  BY <1>3, <1>4

\* After a read, what has been emitted and what is kept are those of all
\* the bytes that have been read.
LEMMA ReadFrames ==
  ASSUME Streamed, NEW bytes, NEW n \in Nat, NEW m \in Nat, n < m, m <= MaxSent,
         bytes.first = n + 1, bytes.last = m,
         NEW C \in SUBSET (1 .. n), n = 0 \/ n \in C,
         NEW ls \in Seq(Seq(Char)), NEW ch \in Seq(Char),
         Framed(Letters(C), [messages |-> ls, remainder |-> ch], n)
  PROVE  /\ ParseChunk(ch \o Decode(bytes)) \in Parsed(Char)
         /\ Framed(Letters(C \cup {m}), After(ls, ParseChunk(ch \o Decode(bytes))), m)
<1> DEFINE D(i) == Span(CharsOf(bytes), n + 1, i)
           P(i) == ParseChunk(ch \o D(i))
<1>1. PICK K : K = Letters(C \cup {m})
  OBVIOUS
<1>2. Lettering(K) /\ MaxSent \in Nat
  BY <1>1, LettersType, NodeConnAssumption
<1>3. CharsOf(bytes) \in Contributes(Position, Char)
  <2>1. ASSUME NEW i \in Position PROVE Chars(bytes, i) \in Seq(Char)
    <3>1. stream[i] \in Char
      BY StreamIs
    <3>2. Replacement \in Char
      BY DEF Char
    <3> QED
      BY <3>1, <3>2 DEF Chars
  <2> QED
    BY <2>1 DEF CharsOf, Contributes
<1>4. ASSUME NEW i \in n .. m, i < m
      PROVE  D(i) \in Seq(Char) /\ D(i + 1) = D(i) \o Chars(bytes, i + 1)
  <2>1. n + 1 \in Nat /\ i \in Nat /\ n + 1 >= 1 /\ i + 1 <= MaxSent /\ n + 1 <= i + 1
    BY <1>2, <1>4
  <2>2. i + 1 \in Position
    BY <2>1 DEF Position
  <2>3. /\ Span(CharsOf(bytes), n + 1, i) \in Seq(Char)
        /\ Span(CharsOf(bytes), n + 1, i + 1) = Span(CharsOf(bytes), n + 1, i) \o CharsOf(bytes)[i + 1]
    BY <1>3, <2>1, SpanGrows
  <2> QED
    BY <2>2, <2>3 DEF CharsOf
<1>5. D(n) = <<>>
  BY SpanNone
<1>6. Decode(bytes) = D(m)
  BY DecodeIs
<1> HIDE DEF D
<1> DEFINE At(i) == /\ D(i) \in Seq(Char) /\ P(i) \in Parsed(Char)
                    /\ Framed(K, After(ls, P(i)), i)
           S == {k \in 0 .. m - n : At(n + k)}
<1>7. At(n)
  <2>1. D(n) \in Seq(Char) /\ ch \o D(n) = ch
    <3>1. ch \o <<>> = ch /\ <<>> \in Seq(Char)
      BY ConcatEmptySeq
    <3> QED
      BY <1>5, <3>1
  <2>2. EndsFrom(ch, 1) = {}
    BY DEF Framed, RestRead
  <2>3. P(n) = [messages |-> <<>>, remainder |-> ch] /\ P(n) \in Parsed(Char)
    BY <2>1, <2>2, ParseType
  <2>4. After(ls, P(n)) = [messages |-> ls, remainder |-> ch]
    <3>1. ls \o <<>> = ls
      BY ConcatEmptySeq
    <3> QED
      BY <2>3, <3>1 DEF After
  <2>5. \A i \in 1 .. n : Letters(C)[i] = K[i]
    BY <1>1, LettersStay
  <2>6. Framed(K, [messages |-> ls, remainder |-> ch], n)
    BY <2>5, FramedStays
  <2> QED
    BY <2>1, <2>3, <2>4, <2>6
<1>8. ASSUME NEW k \in 1 .. m - n, k - 1 \in S PROVE k \in S
  <2>1. PICK i \in n + 1 .. m : i = n + k /\ n + (k - 1) = i - 1
    OBVIOUS
  <2>2. At(i - 1)
    BY <1>8, <2>1
  <2>3. i - 1 \in n .. m /\ i - 1 < m /\ (i - 1) + 1 = i /\ i \in Position
    BY <1>2, <2>1 DEF Position
  <2>4. D(i) = D(i - 1) \o Chars(bytes, i)
    BY <1>4, <2>3
  <2>5. PICK p \in Parsed(Char), d \in Seq(Char) : p = P(i - 1) /\ d = D(i - 1) /\ p = ParseChunk(ch \o d)
    BY <2>2
  <2>6. Framed(K, After(ls, p), i - 1) /\ After(ls, p) \in Parsed(Char)
    BY <2>2, <2>5, AfterType
  <2>7. CASE Silent(bytes, K, i)
    <3>1. D(i) = d
      <4>1. d \o <<>> = d
        BY ConcatEmptySeq
      <4> QED
        BY <2>4, <2>5, <2>7, <4>1 DEF Silent
    <3>2. Framed(K, After(ls, p), i)
      BY <1>2, <2>3, <2>6, <2>7, SilentPlace DEF Silent
    <3>3. At(i)
      BY <2>5, <3>1, <3>2
    <3> QED
      BY <2>1, <3>3
  <2>8. ASSUME NEW c \in Char, Gives(bytes, K, i, c) PROVE k \in S
    <3>1. D(i) = d \o <<c>> /\ D(i) \in Seq(Char)
      BY <2>4, <2>5, <2>8 DEF Gives
    <3>2. PICK x : x = ch \o d
      OBVIOUS
    <3>3. x \in Seq(Char)
      BY <3>2
    <3>4. ch \o D(i) = x \o <<c>>
      <4>1. PICK z : z = <<c>>
        OBVIOUS
      <4>2. z \in Seq(Char)
        BY <4>1
      <4>3. ch \o (d \o z) = (ch \o d) \o z
        BY <4>2, ConcatMoves
      <4> QED
        BY <3>1, <3>2, <4>1, <4>3
    <3>5. P(i) = Feed(p, c)
      BY <2>5, <3>2, <3>3, <3>4, ParseOne
    <3>6. P(i) \in Parsed(Char)
      <4>1. x \o <<c>> \in Seq(Char)
        BY <3>3, OneMore
      <4> QED
        BY <3>4, <4>1, ParseType
    <3>7. Framed(K, Feed(After(ls, p), c), i)
      BY <1>2, <2>3, <2>6, <2>8, CharacterPlace DEF Gives
    <3>8. At(i)
      BY <3>1, <3>5, <3>6, <3>7, FeedAfter
    <3> QED
      BY <2>1, <3>8
  <2> QED
    <3>1. Silent(bytes, K, i) \/ \E c \in Char : Gives(bytes, K, i, c)
      <4>1. Silent(bytes, Letters(C \cup {m}), i) \/ \E c \in Char : Gives(bytes, Letters(C \cup {m}), i, c)
        BY ByteIs
      <4> QED
        BY <1>1, <4>1
    <3> QED
      BY <2>7, <2>8, <3>1
<1>9. m - n \in S
  <2>1. m - n \in Nat /\ m - n \in 0 .. m - n /\ 0 \in 0 .. m - n /\ n + 0 = n
    OBVIOUS
  <2>2. 0 \in S
    BY <1>7, <2>1
  <2> HIDE DEF S
  <2> QED
    BY <1>8, <2>1, <2>2, UpTo
<1>10. At(m)
  <2>1. n + (m - n) = m
    OBVIOUS
  <2> QED
    BY <1>9, <2>1
<1> QED
  BY <1>1, <1>6, <1>10

\* The bytes that have been read were sent.
OnlySent == delivered.last <= sent /\ delivered.last \in Nat /\ sent \in Nat

LEMMA ReadIsSent == JInv => OnlySent
<1> SUFFICES ASSUME JInv PROVE OnlySent
  OBVIOUS
<1>1. /\ chunks \in Seq(Bytes) /\ sent \in Nat /\ delivered \in Bytes
      /\ NextFirst(0) = delivered.last + 1
      /\ \A i \in 1 .. Len(chunks) : chunks[i].first <= chunks[i].last /\ chunks[i].last <= sent
  BY DEF JInv, InRange, IInv, TypeOK, ChunksAreTheRest
<1>2. delivered.last \in Nat
  BY <1>1 DEF Bytes
<1>3. CASE Len(chunks) = 0
  <2>1. NextFirst(0) = sent + 1
    BY <1>3 DEF NextFirst
  <2>2. sent + 1 = delivered.last + 1 /\ sent \in Nat
    BY <1>1, <2>1
  <2>3. sent = delivered.last
    BY <1>2, <2>2
  <2> QED
    BY <1>2, <2>2, <2>3 DEF OnlySent
<1>4. CASE Len(chunks) # 0
  <2>1. 1 \in 1 .. Len(chunks) /\ 0 + 1 = 1
    BY <1>1, <1>4
  <2>2. NextFirst(0) = chunks[1].first
    BY <1>4, <2>1 DEF NextFirst
  <2>3. chunks[1].first \in Nat /\ chunks[1].last \in Nat
    <3>1. chunks[1] \in Bytes
      BY <1>1, <2>1
    <3> QED
      BY <3>1 DEF Bytes
  <2>4. chunks[1].first = delivered.last + 1 /\ chunks[1].first <= chunks[1].last /\ chunks[1].last <= sent
    BY <1>1, <2>1, <2>2
  <2>5. sent \in Nat
    BY <1>1
  <2>6. delivered.last <= sent
    BY <1>2, <2>3, <2>4, <2>5
  <2> QED
    BY <1>2, <2>5, <2>6 DEF OnlySent
<1>5. sent \in Nat /\ (Len(chunks) = 0 \/ Len(chunks) # 0)
  BY <1>1
<1> QED
  BY <1>2, <1>3, <1>4, <1>5 DEF OnlySent

FrameInv ==
  /\ stream \in Streams
  /\ sent <= MaxSent
  /\ lines \in Seq(Seq(Char)) /\ chunk \in Seq(Char)
  /\ cuts \in SUBSET (1 .. delivered.last)
  /\ delivered.last = 0 \/ delivered.last \in cuts
  /\ Framed(Letters(cuts), [messages |-> lines, remainder |-> chunk], delivered.last)

LEMMA StreamedIs == stream \in Streams => Streamed
<1> SUFFICES ASSUME stream \in Streams PROVE Streamed
  OBVIOUS
<1>1. stream \in Seq(Alphabet) /\ Len(stream) >= MaxSent /\ IsText(stream) /\ IsMarked(stream)
  BY FramingAssumption
<1>2. stream \in Seq(Char)
  BY <1>1 DEF Char
<1> QED
  BY <1>1, <1>2 DEF Streamed

LEMMA FrameStarts == FrameInit => FrameInv
<1> SUFFICES ASSUME FrameInit PROVE FrameInv
  OBVIOUS
<1>1. /\ stream \in Streams /\ sent = 0 /\ lines = <<>> /\ chunk = <<>> /\ cuts = {}
      /\ delivered = [first |-> 1, last |-> 0]
  BY DEF FrameInit, Init
<1>2. delivered.last = 0 /\ sent <= MaxSent
  BY <1>1, NodeConnAssumption
<1>3. LineEnds(0) = {}
  BY DEF LineEnds
<1>4. Cardinality(LineEnds(0)) = 0 /\ Start(0) = 0
  BY <1>3, FS_EmptySet DEF Start
<1>5. LinesRead(Letters({}), <<>>, 0)
  BY <1>3, <1>4 DEF LinesRead
<1>6. RestRead(Letters({}), <<>>, 0)
  <2>1. Kept(<<>>) = <<>>
    <3>1. <<>> \in Seq(Char)
      OBVIOUS
    <3> QED
      BY <3>1, KeptIs, SiftNone
  <2>2. Span(Letters({}), 0 + 1, 0) = <<>>
    BY SpanNone
  <2>3. EndsFrom(<<>>, 1) = {} /\ ~EndsInCr(<<>>)
    BY DEF EndsFrom, EndsInCr
  <2> QED
    BY <1>4, <2>1, <2>2, <2>3 DEF RestRead
<1>7. Framed(Letters(cuts), [messages |-> lines, remainder |-> chunk], delivered.last)
  BY <1>1, <1>2, <1>5, <1>6 DEF Framed
<1> QED
  BY <1>1, <1>2, <1>7 DEF FrameInv

\* What is framed stays so, as the stream does.
LEMMA StreamSame ==
  ASSUME stream' = stream, NEW C, NEW p, NEW n, Framed(Letters(C), p, n)
  PROVE  Framed(Letters(C), p, n)'
<1>1. Letters(C)' = Letters(C)
  BY DEF Letters, Begins, Lost
<1>2. \A k : LineEnds(k)' = LineEnds(k)
  BY DEF LineEnds
<1>3. \A k : Start(k)' = Start(k)
  BY <1>2 DEF Start
<1>4. LinesRead(Letters(C), p.messages, n)'
  BY <1>1, <1>2, <1>3 DEF Framed, LinesRead
<1>5. RestRead(Letters(C), p.remainder, n)'
  BY <1>1, <1>2, <1>3 DEF Framed, RestRead
<1> QED
  BY <1>4, <1>5 DEF Framed

LEMMA FrameSteps == IInv /\ OnlySent /\ OnlySent' /\ FrameInv /\ [FrameNext]_allVars => FrameInv'
<1> SUFFICES ASSUME IInv, OnlySent, OnlySent', FrameInv, [FrameNext]_allVars PROVE FrameInv'
  OBVIOUS
<1>1. Streamed /\ stream' = stream /\ [Next]_vars
  BY StreamedIs DEF FrameInv, FrameNext, allVars, frameVars
<1>2. sent' <= MaxSent
  <2>1. CASE FrameNext
    BY <2>1 DEF FrameInv, FrameNext, Next, OnData, OnEnd, OnError, OnClose, Read, CloseDestroys, CloseEnds, socketVars
  <2>2. CASE UNCHANGED allVars
    BY <2>2 DEF FrameInv, allVars, vars, socketVars
  <2> QED
    BY <2>1, <2>2
<1>3. CASE delivered' = delivered
  <2>1. UNCHANGED <<chunk, lines, cuts>>
    BY <1>3 DEF FrameNext, Continue, allVars, frameVars
  <2>2. PICK C, p, n : C = cuts /\ p = [messages |-> lines, remainder |-> chunk] /\ n = delivered.last
    OBVIOUS
  <2>3. Framed(Letters(C), p, n)'
    BY <1>1, <2>2, StreamSame DEF FrameInv
  <2>4. C = cuts' /\ p = [messages |-> lines', remainder |-> chunk'] /\ n = delivered'.last
    BY <1>3, <2>1, <2>2
  <2>5. Framed(Letters(cuts), [messages |-> lines, remainder |-> chunk], delivered.last)'
    BY <2>3, <2>4
  <2> QED
    BY <1>1, <1>2, <1>3, <2>1, <2>5 DEF FrameInv
<1>4. CASE delivered' # delivered
  <2>1. Consume(delivered')
    BY <1>4 DEF FrameNext, Continue, allVars, vars, readVars
  <2>2. delivered'.first = delivered.last + 1 /\ Length(delivered') \in 1 .. BufferLength
    <3>1. Next
      BY <1>1, <1>4 DEF vars, readVars
    <3> QED
      BY <1>4, <3>1, ReadsFollow
  <2>3. PICK bytes, n, m, C, ls, ch :
          /\ bytes = delivered' /\ n = delivered.last /\ m = delivered'.last
          /\ C = cuts /\ ls = lines /\ ch = chunk
    OBVIOUS
  <2>4. n \in Nat /\ m \in Nat /\ m <= MaxSent
    <3>1. delivered'.last <= sent' /\ delivered'.last \in Nat /\ sent' \in Nat
      BY DEF OnlySent
    <3> QED
      BY <1>2, <2>3, <3>1, NodeConnAssumption DEF OnlySent
  <2>5. bytes.first = n + 1 /\ bytes.last = m /\ n < m
    BY <2>2, <2>3, <2>4, NodeConnAssumption DEF Length
  <2>6. /\ C \in SUBSET (1 .. n) /\ (n = 0 \/ n \in C)
        /\ ls \in Seq(Seq(Char)) /\ ch \in Seq(Char)
        /\ Framed(Letters(C), [messages |-> ls, remainder |-> ch], n)
    BY <2>3 DEF FrameInv
  <2>7. PICK q : q = ParseChunk(ch \o Decode(bytes))
    OBVIOUS
  <2>8. q \in Parsed(Char) /\ Framed(Letters(C \cup {m}), After(ls, q), m)
    BY <1>1, <2>4, <2>5, <2>6, <2>7, ReadFrames
  <2>9. lines' = ls \o q.messages /\ chunk' = q.remainder /\ cuts' = C \cup {m}
    BY <2>1, <2>3, <2>7 DEF Consume
  <2>10. After(ls, q) = [messages |-> lines', remainder |-> chunk']
    BY <2>9 DEF After
  <2>11. Framed(Letters(C \cup {m}), After(ls, q), m)'
    <3>1. PICK D, p : D = C \cup {m} /\ p = After(ls, q)
      OBVIOUS
    <3>2. Framed(Letters(D), p, m)'
      BY <1>1, <2>8, <3>1, StreamSame
    <3> QED
      BY <3>1, <3>2
  <2>12. Framed(Letters(cuts), [messages |-> lines, remainder |-> chunk], delivered.last)'
    BY <2>3, <2>9, <2>10, <2>11
  <2>13. lines' \in Seq(Seq(Char)) /\ chunk' \in Seq(Char)
    <3>1. q.messages \in Seq(Seq(Char)) /\ q.remainder \in Seq(Char)
      BY <2>8 DEF Parsed
    <3> QED
      BY <2>6, <2>9, <3>1, Concatenates
  <2>14. cuts' \in SUBSET (1 .. m) /\ m \in cuts'
    BY <2>4, <2>5, <2>6, <2>9
  <2>15. m = delivered'.last /\ stream' \in Streams
    BY <1>1, <2>3 DEF FrameInv
  <2> QED
    BY <1>2, <2>12, <2>13, <2>14, <2>15 DEF FrameInv
<1> QED
  BY <1>3, <1>4

LEMMA FramedArrive == OnlySent /\ FrameInv => LinesArrive
<1> SUFFICES ASSUME OnlySent, FrameInv PROVE LinesArrive
  OBVIOUS
<1>1. PICK n, K : n = delivered.last /\ K = Letters(cuts)
  OBVIOUS
<1>2. LinesRead(K, lines, n)
  BY <1>1 DEF FrameInv, Framed
<1>3. Streamed /\ n \in Nat /\ n <= MaxSent /\ MaxSent \in Nat
  BY <1>1, StreamedIs, NodeConnAssumption DEF FrameInv, OnlySent
<1>4. ASSUME NEW end \in LineEnds(n) PROVE Uncut(end) = Span(K, Start(end) + 1, end - 1)
  <2>1. end \in 1 .. n - 1 /\ end \in Nat
    BY <1>3, LineEndsAre
  <2>2. {i \in LineEnds(MaxSent) : i < end} = LineEnds(end)
    BY <1>3, <2>1 DEF LineEnds
  <2>3. Previous(end) = Start(end)
    BY <2>2 DEF Previous, Start
  <2>4. PICK s \in 0 .. end : s = Start(end)
    BY <1>3, <2>1, LineEndsAre
  <2>5. PICK t : t = Places(s + 1, end - 1)
    OBVIOUS
  <2>6. end - (s + 1) = ((end - 1) + 1) - (s + 1)
    BY <2>1
  <2>7. DOMAIN t = 1 .. end - (s + 1) /\ \A k \in DOMAIN t : t[k] = ((s + 1) + k) - 1
    BY <2>5, <2>6 DEF Places
  <2>8. \A k \in DOMAIN t : t[k] \in Position
    <3>1. \A k \in 1 .. end - (s + 1) : ((s + 1) + k) - 1 \in Position
      BY <1>3, <2>1 DEF Position
    <3> QED
      BY <2>7, <3>1
  <2>9. \A i \in Position : K[i] = Letter(i)
    <3> TAKE i \in Position
    <3>1. Letters(cuts)[i] = IF Begins(i) /\ ~IsCut(i) /\ ~IsDropped(i) THEN <<stream[i]>> ELSE <<>>
      <4>1. Letters(cuts)[i] = IF Begins(i) /\ ~Lost(cuts, i) THEN <<stream[i]>> ELSE <<>>
        BY DEF Letters
      <4>2. Lost(cuts, i) <=> IsCut(i) \/ IsDropped(i)
        BY DEF IsCut, IsDropped, Lost
      <4> QED
        BY <4>1, <4>2, Zenon
    <3> QED
      BY <1>1, <3>1 DEF Letter
  <2>10. \A k \in DOMAIN t : K[t[k]] = Letter(((s + 1) + k) - 1)
    BY <2>7, <2>8, <2>9
  <2>11. [k \in DOMAIN t |-> K[t[k]]] = [k \in 1 .. end - (s + 1) |-> Letter(((s + 1) + k) - 1)]
    BY <2>7, <2>10
  <2>12. Uncut(end) = FlattenSeq([k \in 1 .. end - (s + 1) |-> Letter(((s + 1) + k) - 1)])
    <3>1. Uncut(end) = FlattenSeq([k \in 1 .. end - (Previous(end) + 1)
                                     |-> Letter((Previous(end) + 1) + k - 1)])
      BY Zenon DEF Uncut
    <3>2. Previous(end) = s
      BY <2>3, <2>4
    <3>3. ASSUME NEW k \in 1 .. end - (s + 1)
          PROVE  (Previous(end) + 1) + k - 1 = ((s + 1) + k) - 1
      BY <3>2
    <3>4. PICK u : u = [k \in 1 .. end - (Previous(end) + 1) |-> Letter((Previous(end) + 1) + k - 1)]
      OBVIOUS
    <3>5. u = [k \in 1 .. end - (s + 1) |-> Letter(((s + 1) + k) - 1)]
      BY <3>2, <3>3, <3>4
    <3> QED
      BY <3>1, <3>4, <3>5, Zenon
  <2> QED
    BY <2>4, <2>5, <2>11, <2>12 DEF Span, Sift
<1> QED
  BY <1>1, <1>2, <1>4 DEF LinesRead, LinesArrive

LEMMA FrameRuns == FrameSpec => [](JInv /\ OnlySent /\ FrameInv)
<1>1. FrameInit => JInv /\ OnlySent /\ FrameInv
  BY InitJ, ReadIsSent, FrameStarts DEF FrameInit
<1>2. JInv /\ OnlySent /\ FrameInv /\ [FrameNext]_allVars => (JInv /\ OnlySent /\ FrameInv)'
  <2> SUFFICES ASSUME JInv, OnlySent, FrameInv, [FrameNext]_allVars
               PROVE  JInv' /\ OnlySent' /\ FrameInv'
    OBVIOUS
  <2>1. [Next]_vars
    BY DEF FrameNext, allVars
  <2>2. JInv'
    BY <2>1, StepInv, QuietStep, InRangeStep DEF JInv
  <2>3. OnlySent'
    <3>1. (JInv => OnlySent)'
      BY ReadIsSent, PTL
    <3> QED
      BY <2>2, <3>1
  <2>4. IInv
    BY DEF JInv
  <2> QED
    BY <2>2, <2>3, <2>4, FrameSteps
<1> QED
  BY <1>1, <1>2, PTL DEF FrameSpec

(* However the bytes were cut into data events and reads, a line is        *)
(* emitted for each line end that was read, with all its letters but those *)
(* a read has cut: loop(), read() and parseChunk() together, for every     *)
(* stream, every length of the buffer and every size of the data events.   *)
THEOREM LinesArriveWhole == FrameSpec => []LinesArrive
  BY FrameRuns, FramedArrive, PTL

-----------------------------------------------------------------------------

(* A Set holds no listener twice.                                          *)
Distinct == \A e \in Event : \A i, j \in DOMAIN listeners[e] :
              listeners[e][i] = listeners[e][j] => i = j

(* A loop over the listeners ls is at a place of theirs or past the end,   *)
(* and whoever was there from its beginning has been called or has its     *)
(* place still to come.                                                    *)
Ahead(ls, f, l) == \E j \in DOMAIN ls : ls[j] = l /\ (j < f.next => l \in f.heard)
Attentive(ls, f) == /\ f.next \in 1 .. (Len(ls) + 1)
                    /\ \A l \in f.present : Ahead(ls, f, l)
LoopsAttend == \A k \in DOMAIN stack : Attentive(listeners[stack[k].event], stack[k])

(* The memorized listeners are still there, and are no fewer than counted. *)
MemorizedStay == \A e \in Event : /\ plugins[e] \subseteq ToSet(listeners[e])
                                  /\ memorized[e] <= Cardinality(plugins[e])

(* A listener that once() has made is added nowhere before on() and after  *)
(* it was called, and in between only where off() takes it away from.      *)
Listed(w) == {e \in Event : w \in ToSet(listeners[e])}
OnceKept(w) == /\ made[w].state = "new" => Listed(w) = {}
               /\ made[w].state # "ready" => calls[w] = 0
               /\ made[w].state = "ready" => Listed(w) \subseteq Range(RemapEventNames(made[w].names))
               /\ calls[w] \in {0, 1}
               /\ calls[w] = 1 => Listed(w) = {}
CallsKept == \A w \in Wrapper : OnceKept(w)

EmitterInv == EmitterTypeOK /\ Distinct /\ LoopsAttend /\ MemorizedStay /\ CallsKept

-----------------------------------------------------------------------------
(* What is left of a sequence when the element at place p is removed.      *)
LEMMA Removed ==
  ASSUME NEW T, NEW s \in Seq(T), NEW p \in 1 .. Len(s)
  PROVE  /\ RemoveAt(s, p) \in Seq(T)
         /\ Len(RemoveAt(s, p)) = Len(s) - 1
         /\ \A j \in 1 .. (Len(s) - 1) : RemoveAt(s, p)[j] = IF j < p THEN s[j] ELSE s[j + 1]
<1> DEFINE front == SubSeq(s, 1, p - 1)
           back == SubSeq(s, p + 1, Len(s))
<1>1. /\ front \in Seq(T) /\ Len(front) = p - 1
      /\ \A j \in 1 .. (p - 1) : front[j] = s[j]
  OBVIOUS
<1>2. /\ back \in Seq(T) /\ Len(back) = Len(s) - p
      /\ \A j \in 1 .. (Len(s) - p) : back[j] = s[p + j]
  OBVIOUS
<1> HIDE DEF front, back
<1>3. /\ front \o back \in Seq(T) /\ Len(front \o back) = Len(s) - 1
      /\ \A j \in 1 .. (Len(s) - 1) :
           (front \o back)[j] = IF j < p THEN front[j] ELSE back[j - (p - 1)]
  <2> DEFINE whole == front \o back
  <2>1. /\ whole \in Seq(T) /\ Len(whole) = Len(front) + Len(back)
        /\ \A j \in 1 .. (Len(front) + Len(back)) :
             whole[j] = IF j <= Len(front) THEN front[j] ELSE back[j - Len(front)]
    BY <1>1, <1>2, ConcatProperties
  <2> HIDE DEF whole
  <2>2. Len(front) = p - 1 /\ Len(front) + Len(back) = Len(s) - 1
    BY <1>1, <1>2
  <2>3. \A j \in 1 .. (Len(s) - 1) : j <= p - 1 <=> j < p
    OBVIOUS
  <2>4. whole \in Seq(T) /\ Len(whole) = Len(s) - 1
    BY <2>1, <2>2
  <2>5. \A j \in 1 .. (Len(s) - 1) : whole[j] = IF j < p THEN front[j] ELSE back[j - (p - 1)]
    BY <2>1, <2>2, <2>3
  <2> QED
    BY <2>4, <2>5 DEF whole
<1>4. RemoveAt(s, p) = front \o back
  BY DEF RemoveAt, front, back
<1>5. ASSUME NEW j \in 1 .. (Len(s) - 1)
      PROVE  (front \o back)[j] = IF j < p THEN s[j] ELSE s[j + 1]
  <2>1. CASE j < p
    BY <1>1, <1>3, <2>1
  <2>2. CASE ~(j < p)
    <3>1. j - (p - 1) \in 1 .. (Len(s) - p) /\ p + (j - (p - 1)) = j + 1
      BY <2>2
    <3> QED
      BY <1>2, <1>3, <2>2, <3>1
  <2> QED
    BY <2>1, <2>2
<1> QED
  BY <1>3, <1>4, <1>5

(* The elements that are left of a sequence.                               *)
LEMMA RemovedElements ==
  ASSUME NEW T, NEW s \in Seq(T), NEW p \in DOMAIN s,
         \A i, j \in DOMAIN s : s[i] = s[j] => i = j
  PROVE  /\ ToSet(RemoveAt(s, p)) = ToSet(s) \ {s[p]}
         /\ \A i, j \in DOMAIN RemoveAt(s, p) :
              RemoveAt(s, p)[i] = RemoveAt(s, p)[j] => i = j
<1> DEFINE r == RemoveAt(s, p)
<1>1. /\ r \in Seq(T) /\ DOMAIN r = 1 .. (Len(s) - 1)
      /\ \A j \in 1 .. (Len(s) - 1) : r[j] = IF j < p THEN s[j] ELSE s[j + 1]
  <2>1. p \in 1 .. Len(s) /\ Len(s) \in Nat
    OBVIOUS
  <2>2. r \in Seq(T) /\ Len(r) = Len(s) - 1
    BY <2>1, Removed
  <2>3. \A j \in 1 .. (Len(s) - 1) : r[j] = IF j < p THEN s[j] ELSE s[j + 1]
    BY <2>1, Removed
  <2> HIDE DEF r
  <2> QED
    BY <2>2, <2>3
<1> HIDE DEF r
<1>2. \A i \in DOMAIN r : r[i] \in ToSet(s) \ {s[p]}
  <2> TAKE i \in DOMAIN r
  <2>1. CASE i < p
    BY <1>1, <2>1 DEF ToSet
  <2>2. CASE ~(i < p)
    <3>1. i + 1 \in DOMAIN s /\ i + 1 # p /\ r[i] = s[i + 1]
      BY <1>1, <2>2
    <3> QED
      BY <3>1 DEF ToSet
  <2> QED
    BY <2>1, <2>2
<1>3. \A i \in DOMAIN s : i # p => s[i] \in ToSet(r)
  <2> SUFFICES ASSUME NEW i \in DOMAIN s, i # p PROVE \E j \in DOMAIN r : r[j] = s[i]
    BY DEF ToSet
  <2>1. CASE i < p
    BY <1>1, <2>1
  <2>2. CASE i > p
    <3>1. i - 1 \in DOMAIN r /\ ~(i - 1 < p) /\ i - 1 + 1 = i
      BY <1>1, <2>2
    <3> QED
      BY <1>1, <3>1
  <2> QED
    BY <2>1, <2>2
<1>4. \A i, j \in DOMAIN r : r[i] = r[j] => i = j
  <2> DEFINE at(i) == IF i < p THEN i ELSE i + 1
  <2>1. \A i \in DOMAIN r : at(i) \in DOMAIN s /\ r[i] = s[at(i)]
    BY <1>1
  <2>2. \A i, j \in DOMAIN r : at(i) = at(j) => i = j
    BY <1>1
  <2> HIDE DEF at
  <2> QED
    BY <2>1, <2>2
<1> QED
  BY <1>2, <1>3, <1>4 DEF ToSet, r

-----------------------------------------------------------------------------
(* A loop stays attentive when a listener is added, when it calls the next *)
(* one, and when off() deletes one.                                        *)
LEMMA AppendAttends ==
  ASSUME NEW ls \in Seq(Listener), NEW m \in Listener, NEW f \in Frame, Attentive(ls, f)
  PROVE  Attentive(Append(ls, m), f)
<1>1. Len(Append(ls, m)) = Len(ls) + 1 /\ DOMAIN Append(ls, m) = 1 .. (Len(ls) + 1)
  OBVIOUS
<1>2. \A j \in DOMAIN ls : j \in DOMAIN Append(ls, m) /\ Append(ls, m)[j] = ls[j]
  OBVIOUS
<1> DEFINE longer == Append(ls, m)
<1> HIDE DEF longer
<1>3. \A l \in f.present : Ahead(longer, f, l)
  BY <1>2 DEF Attentive, Ahead, longer
<1>4. f.next \in 1 .. (Len(longer) + 1)
  BY <1>1 DEF Attentive, longer
<1> QED
  BY <1>3, <1>4 DEF Attentive, longer

LEMMA CallAttends ==
  ASSUME NEW ls \in Seq(Listener), NEW f \in Frame, Attentive(ls, f), f.next <= Len(ls)
  PROVE  LET l == ls[f.next]
             g == [f EXCEPT !.next = @ + 1, !.running = l, !.heard = @ \cup {l}]
         IN  g \in Frame /\ g.event = f.event /\ Attentive(ls, g)
<1> DEFINE l == ls[f.next]
           g == [f EXCEPT !.next = @ + 1, !.running = l, !.heard = @ \cup {l}]
<1>1. f.next \in DOMAIN ls /\ l \in Listener
  BY DEF Attentive
<1>2. /\ g \in Frame /\ g.event = f.event /\ g.next = f.next + 1 /\ g.present = f.present
      /\ g.heard = f.heard \cup {l}
  <2> DEFINE n == f.next + 1
             h == f.heard \cup {l}
  <2>1. n \in Nat /\ h \in SUBSET Listener /\ l \in Listener
    BY <1>1 DEF Frame
  <2>2. g = [f EXCEPT !.next = n, !.running = l, !.heard = h]
    OBVIOUS
  <2> HIDE DEF n, h, l, g
  <2>3. /\ g \in Frame /\ g.event = f.event /\ g.next = n /\ g.present = f.present
        /\ g.heard = h
    BY <2>1, <2>2 DEF Frame
  <2> QED
    BY <2>3 DEF n, h
<1> HIDE DEF g
<1>3. \A m \in g.present : Ahead(ls, g, m)
  <2> TAKE m \in g.present
  <2>1. PICK j \in DOMAIN ls : ls[j] = m /\ (j < f.next => m \in f.heard)
    BY <1>2 DEF Attentive, Ahead
  <2>2. j < g.next => m \in g.heard
    BY <1>2, <2>1 DEF Attentive
  <2> QED
    BY <2>1, <2>2 DEF Ahead
<1>4. g.next \in 1 .. (Len(ls) + 1)
  BY <1>2 DEF Attentive
<1> QED
  BY <1>2, <1>3, <1>4 DEF Attentive, g

LEMMA RemoveAttends ==
  ASSUME NEW ls \in Seq(Listener), NEW f \in Frame, Attentive(ls, f), NEW p \in DOMAIN ls
  PROVE  LET g == [f EXCEPT !.present = @ \ {ls[p]}, !.next = IF p < @ THEN @ - 1 ELSE @]
         IN  g \in Frame /\ g.event = f.event /\ Attentive(RemoveAt(ls, p), g)
<1> DEFINE g == [f EXCEPT !.present = @ \ {ls[p]}, !.next = IF p < @ THEN @ - 1 ELSE @]
           r == RemoveAt(ls, p)
<1>1. f.next \in 1 .. (Len(ls) + 1)
  BY DEF Attentive
<1>2. /\ g \in Frame /\ g.event = f.event /\ g.next = IF p < f.next THEN f.next - 1 ELSE f.next
      /\ g.present = f.present \ {ls[p]} /\ g.heard = f.heard
  <2> DEFINE n == IF p < f.next THEN f.next - 1 ELSE f.next
             q == f.present \ {ls[p]}
  <2>1. n \in Nat /\ q \in SUBSET Listener
    BY <1>1 DEF Frame
  <2>2. g = [f EXCEPT !.present = q, !.next = n]
    OBVIOUS
  <2> HIDE DEF n, q, g
  <2>3. g \in Frame /\ g.event = f.event /\ g.next = n /\ g.heard = f.heard /\ g.present = q
    BY <2>1, <2>2 DEF Frame
  <2> QED
    BY <2>3 DEF n, q
<1>3. /\ r \in Seq(Listener) /\ Len(r) = Len(ls) - 1 /\ DOMAIN r = 1 .. (Len(ls) - 1)
      /\ \A j \in 1 .. (Len(ls) - 1) : r[j] = IF j < p THEN ls[j] ELSE ls[j + 1]
  BY Removed
<1> HIDE DEF g, r
<1>4. \A m \in g.present : Ahead(r, g, m)
  <2> TAKE m \in g.present
  <2>1. PICK j \in DOMAIN ls : ls[j] = m /\ (j < f.next => m \in f.heard)
    BY <1>2 DEF Attentive, Ahead
  <2>2. j # p
    BY <1>2, <2>1
  <2>3. CASE j < p
    <3>1. j \in DOMAIN r /\ r[j] = m /\ (j < g.next => j < f.next)
      BY <1>1, <1>2, <1>3, <2>1, <2>3
    <3> QED
      BY <1>2, <2>1, <3>1 DEF Ahead
  <2>4. CASE j > p
    <3>1. j - 1 \in DOMAIN r /\ r[j - 1] = m
      BY <1>3, <2>1, <2>4
    <3>2. j - 1 < g.next => j < f.next
      BY <1>1, <1>2, <2>4
    <3> QED
      BY <1>2, <2>1, <3>1, <3>2 DEF Ahead
  <2> QED
    BY <2>2, <2>3, <2>4
<1>5. g.next \in 1 .. (Len(r) + 1)
  BY <1>1, <1>2, <1>3
<1> QED
  BY <1>2, <1>4, <1>5 DEF Attentive, g, r

-----------------------------------------------------------------------------
(* A sequence has no more elements than places, and as many when none is   *)
(* there twice.                                                            *)
LEMMA ElementsCounted ==
  ASSUME NEW T, NEW s \in Seq(T)
  PROVE  /\ IsFiniteSet(ToSet(s))
         /\ Cardinality(ToSet(s)) \in Nat
         /\ (\A i, j \in DOMAIN s : s[i] = s[j] => i = j) => Cardinality(ToSet(s)) = Len(s)
<1>1. /\ IsFiniteSet(1 .. Len(s)) /\ Cardinality(1 .. Len(s)) = Len(s)
  <2>1. Len(s) \in Nat /\ 1 \in Int /\ Len(s) \in Int /\ (IF 1 > Len(s) THEN 0 ELSE Len(s) - 1 + 1) = Len(s)
    OBVIOUS
  <2> QED
    BY <2>1, FS_Interval
<1>2. s \in Surjection(1 .. Len(s), ToSet(s))
  BY DEF Surjection, ToSet
<1>3. (\A i, j \in DOMAIN s : s[i] = s[j] => i = j) => s \in Injection(1 .. Len(s), ToSet(s))
  BY DEF Injection, IsInjective, ToSet
<1>4. IsFiniteSet(ToSet(s))
  BY <1>1, <1>2, FS_Surjection
<1>5. s \in Injection(1 .. Len(s), ToSet(s)) => Cardinality(ToSet(s)) = Len(s)
  BY <1>1, <1>2, FS_Surjection
<1>6. Cardinality(ToSet(s)) \in Nat
  BY <1>4, FS_CardinalityType
<1> QED
  BY <1>3, <1>4, <1>5, <1>6

(* The place of a listener of an event.                                    *)
LEMMA Placed ==
  ASSUME EmitterTypeOK, NEW e \in Event, NEW l
  PROVE  /\ Contains(listeners[e], l) <=> l \in ToSet(listeners[e])
         /\ Contains(listeners[e], l) => /\ Place(e, l) \in DOMAIN listeners[e]
                                         /\ listeners[e][Place(e, l)] = l
<1>1. listeners[e] \in Seq(Listener) /\ DOMAIN listeners[e] = 1 .. Len(listeners[e])
  BY DEF EmitterTypeOK
<1>2. Contains(listeners[e], l) <=> \E i \in DOMAIN listeners[e] : listeners[e][i] = l
  BY <1>1 DEF Contains
<1> QED
  BY <1>2 DEF Place, ToSet

(* The events that names stand for.                                        *)
LEMMA RemapTyped ==
  ASSUME NEW names \in Subscription
  PROVE  RemapEventNames(names) \in Seq(Event)
<1> DEFINE remapped == [i \in DOMAIN names |->
                          IF names[i] \in DOMAIN Multi THEN Multi[names[i]] ELSE <<names[i]>>]
<1>1. names \in Seq(Event \cup DOMAIN Multi)
  BY EmitterAssumption
<1>2. \A i \in DOMAIN names : remapped[i] \in Seq(Event)
  BY <1>1, EmitterAssumption
<1>3. remapped \in Seq(Seq(Event))
  <2> DEFINE T == Seq(Event)
  <2> HIDE DEF T
  <2>1. \A i \in DOMAIN names : remapped[i] \in T
    BY <1>2 DEF T
  <2>2. DOMAIN names = 1 .. Len(names) /\ Len(names) \in Nat
    BY <1>1
  <2> HIDE DEF remapped
  <2>3. DOMAIN remapped = DOMAIN names
    BY DEF remapped
  <2>4. remapped = [i \in 1 .. Len(names) |-> remapped[i]]
    BY <2>2, <2>3 DEF remapped
  <2>5. remapped \in Seq(T)
    BY <2>1, <2>2, <2>4, IsASeq
  <2> QED
    BY <2>5 DEF T
<1> HIDE DEF remapped
<1>4. FlattenSeq(remapped) \in Seq(Event)
  BY <1>3, Flattened DEF Flat
<1> QED
  BY <1>4 DEF RemapEventNames, remapped

(* What a listener that is added to some events changes.                   *)
LEMMA Grown ==
  ASSUME EmitterTypeOK, Distinct, LoopsAttend, MemorizedStay, NEW l \in Listener,
         NEW names \in Subscription,
         listeners' = Subscribe(l, names).ls, UNCHANGED <<memorized, stack, plugins>>
  PROVE  /\ listeners' \in [Event -> Seq(Listener)]
         /\ Distinct' /\ LoopsAttend' /\ MemorizedStay'
         /\ \A e \in Event : \/ listeners'[e] = listeners[e]
                             \/ /\ e \in Range(RemapEventNames(names))
                                /\ ToSet(listeners'[e]) = ToSet(listeners[e]) \cup {l}
<1>1. /\ listeners' \in [Event -> Seq(Listener)]
      /\ \A e \in Event : \/ listeners'[e] = listeners[e]
                          \/ /\ e \in Range(RemapEventNames(names))
                             /\ l \notin ToSet(listeners[e])
                             /\ listeners'[e] = Append(listeners[e], l)
  <2> DEFINE events == RemapEventNames(names)
             taken == {i \in DOMAIN events : \A j \in 1 .. i : Accepts(l, events, j)}
  <2>1. listeners' = [e \in Event |-> IF \E i \in taken : events[i] = e
                                      THEN Append(listeners[e], l) ELSE listeners[e]]
    BY DEF Subscribe
  <2>2. ASSUME NEW e \in Event, NEW i \in taken, events[i] = e
        PROVE  e \in Range(events) /\ l \notin ToSet(listeners[e])
    <3>1. i \in DOMAIN events /\ i \in 1 .. i
      BY RemapTyped
    <3>2. ~Contains(listeners[events[i]], l)
      BY <3>1 DEF Accepts
    <3>3. events[i] \in Range(events)
      BY <3>1 DEF Range
    <3> QED
      BY <2>2, <3>2, <3>3, Placed
  <2> HIDE DEF events, taken
  <2>3. \A e \in Event : Append(listeners[e], l) \in Seq(Listener) /\ listeners[e] \in Seq(Listener)
    BY DEF EmitterTypeOK
  <2> QED
    BY <2>1, <2>2, <2>3 DEF events
<1>2. \A e \in Event : listeners[e] \in Seq(Listener) /\ DOMAIN listeners[e] = 1 .. Len(listeners[e])
  BY DEF EmitterTypeOK
<1>3. \A e \in Event : \/ listeners'[e] = listeners[e]
                       \/ /\ e \in Range(RemapEventNames(names))
                          /\ ToSet(listeners'[e]) = ToSet(listeners[e]) \cup {l}
  <2> SUFFICES ASSUME NEW e \in Event, listeners'[e] = Append(listeners[e], l)
               PROVE  ToSet(listeners'[e]) = ToSet(listeners[e]) \cup {l}
    BY <1>1
  <2> QED
    BY <1>2, AppendElements
<1>4. Distinct'
  <2> SUFFICES ASSUME NEW e \in Event, NEW i \in DOMAIN listeners'[e], NEW j \in DOMAIN listeners'[e],
                      listeners'[e][i] = listeners'[e][j]
               PROVE  i = j
    BY DEF Distinct
  <2>1. CASE listeners'[e] = listeners[e]
    BY <2>1 DEF Distinct
  <2>2. CASE l \notin ToSet(listeners[e]) /\ listeners'[e] = Append(listeners[e], l)
    <3>1. \A k \in DOMAIN listeners'[e] : IF k = Len(listeners[e]) + 1 THEN listeners'[e][k] = l
            ELSE k \in DOMAIN listeners[e] /\ listeners'[e][k] = listeners[e][k]
      BY <1>2, <2>2
    <3>2. \A k \in DOMAIN listeners[e] : listeners[e][k] # l
      BY <2>2 DEF ToSet
    <3> QED
      BY <3>1, <3>2 DEF Distinct
  <2> QED
    BY <1>1, <2>1, <2>2
<1>5. LoopsAttend'
  <2> SUFFICES ASSUME NEW k \in DOMAIN stack
               PROVE  Attentive(listeners'[stack[k].event], stack[k])
    BY DEF LoopsAttend
  <2>1. stack[k] \in Frame /\ stack[k].event \in Event
    <3>1. stack[k] \in Frame
      BY DEF EmitterTypeOK
    <3> QED
      BY <3>1 DEF Frame
  <2>2. Attentive(listeners[stack[k].event], stack[k])
    BY DEF LoopsAttend
  <2>3. PICK ls \in Seq(Listener) : ls = listeners[stack[k].event]
    BY <1>2, <2>1
  <2>4. Attentive(Append(ls, l), stack[k])
    BY <2>1, <2>2, <2>3, AppendAttends
  <2>5. listeners'[stack[k].event] \in {ls, Append(ls, l)}
    BY <1>1, <2>1, <2>3
  <2> QED
    BY <2>2, <2>3, <2>4, <2>5
<1>6. MemorizedStay'
  BY <1>3 DEF MemorizedStay
<1> QED
  BY <1>1, <1>3, <1>4, <1>5, <1>6

(* What off() changes, for the loops it is called in.                      *)
LEMMA Shrunk ==
  ASSUME EmitterTypeOK, Distinct, MemorizedStay, NEW l \in Listener, NEW names, NEW frames \in Seq(Frame),
         \A k \in DOMAIN frames : Attentive(listeners[frames[k].event], frames[k]),
         Unsubscribe(l, names, frames)
  PROVE  /\ listeners' \in [Event -> Seq(Listener)]
         /\ memorized' \in [Event -> Nat]
         /\ plugins' \in [Event -> SUBSET Listener]
         /\ stack' \in Seq(Frame)
         /\ Distinct' /\ LoopsAttend' /\ MemorizedStay'
         /\ \A e \in Event : ToSet(listeners'[e]) =
              IF e \in Range(RemapEventNames(names)) THEN ToSet(listeners[e]) \ {l} ELSE ToSet(listeners[e])
<1> DEFINE events == {e \in Range(RemapEventNames(names)) : Contains(listeners[e], l)}
<1>1. \A e \in Event : /\ listeners[e] \in Seq(Listener)
                       /\ DOMAIN listeners[e] = 1 .. Len(listeners[e])
                       /\ \A i, j \in DOMAIN listeners[e] : listeners[e][i] = listeners[e][j] => i = j
  BY DEF EmitterTypeOK, Distinct
<1>2. \A e \in events \cap Event : /\ Place(e, l) \in DOMAIN listeners[e]
                                   /\ listeners[e][Place(e, l)] = l
  BY Placed
<1>3. \A e \in Event : e \in events <=> e \in Range(RemapEventNames(names)) /\ l \in ToSet(listeners[e])
  BY Placed
<1>4. /\ listeners' = [e \in Event |-> IF e \in events THEN RemoveAt(listeners[e], Place(e, l))
                                       ELSE listeners[e]]
      /\ memorized' = [e \in Event |-> IF e \in events /\ memorized[e] > 0
                                       THEN memorized[e] - 1 ELSE memorized[e]]
      /\ plugins' = [e \in Event |-> IF e \in events THEN plugins[e] \ {l} ELSE plugins[e]]
      /\ stack' = Leaves(frames, l, events)
  BY DEF Unsubscribe, Without
<1> HIDE DEF events
<1>5. ASSUME NEW e \in Event
      PROVE  /\ listeners'[e] \in Seq(Listener)
             /\ \A i, j \in DOMAIN listeners'[e] : listeners'[e][i] = listeners'[e][j] => i = j
             /\ ToSet(listeners'[e]) = IF e \in events THEN ToSet(listeners[e]) \ {l} ELSE ToSet(listeners[e])
  <2>1. CASE e \in events
    <3>1. listeners'[e] = RemoveAt(listeners[e], Place(e, l))
      BY <1>4, <2>1
    <3>2. Place(e, l) \in 1 .. Len(listeners[e]) /\ Place(e, l) \in DOMAIN listeners[e]
      BY <1>1, <1>2, <2>1
    <3>3. listeners'[e] \in Seq(Listener)
      BY <1>1, <3>1, <3>2, Removed
    <3>4. /\ \A i, j \in DOMAIN listeners'[e] : listeners'[e][i] = listeners'[e][j] => i = j
          /\ ToSet(listeners'[e]) = ToSet(listeners[e]) \ {listeners[e][Place(e, l)]}
      BY <1>1, <3>1, <3>2, RemovedElements
    <3> QED
      BY <1>2, <2>1, <3>3, <3>4
  <2>2. CASE e \notin events
    BY <1>1, <1>4, <2>2
  <2> QED
    BY <2>1, <2>2
<1>6. Distinct'
  BY <1>5 DEF Distinct
<1>7. ASSUME NEW k \in DOMAIN frames
      PROVE  stack'[k] \in Frame /\ Attentive(listeners'[stack'[k].event], stack'[k])
  <2> DEFINE f == frames[k]
  <2>1. /\ f \in Frame /\ f.event \in Event
        /\ Attentive(listeners[f.event], f)
    <3>1. f \in Frame
      OBVIOUS
    <3> QED
      BY <3>1 DEF Frame
  <2>2. stack'[k] = IF f.event \in events
                    THEN [f EXCEPT !.present = @ \ {l}, !.next = IF Place(f.event, l) < @ THEN @ - 1 ELSE @]
                    ELSE f
    BY <1>4 DEF Leaves
  <2> HIDE DEF f
  <2>3. CASE f.event \in events
    <3>1. /\ Place(f.event, l) \in DOMAIN listeners[f.event]
          /\ l = listeners[f.event][Place(f.event, l)]
      BY <1>2, <2>1, <2>3
    <3>2. /\ stack'[k] \in Frame /\ stack'[k].event = f.event
          /\ Attentive(RemoveAt(listeners[f.event], Place(f.event, l)), stack'[k])
      <4> DEFINE ls == listeners[f.event]
                 q == Place(f.event, l)
                 g == [f EXCEPT !.present = @ \ {ls[q]}, !.next = IF q < @ THEN @ - 1 ELSE @]
      <4>1. stack'[k] = g
        BY <2>2, <2>3, <3>1
      <4>2. ls \in Seq(Listener) /\ q \in DOMAIN ls /\ Attentive(ls, f) /\ f \in Frame
        BY <1>1, <2>1, <3>1
      <4> HIDE DEF ls, q
      <4>3. g \in Frame /\ g.event = f.event /\ Attentive(RemoveAt(ls, q), g)
        BY <4>2, RemoveAttends
      <4> QED
        BY <4>1, <4>3 DEF ls, q
    <3> QED
      BY <1>4, <2>1, <2>3, <3>2
  <2>4. CASE f.event \notin events
    BY <1>4, <2>1, <2>2, <2>4
  <2> QED
    BY <2>3, <2>4
<1>8. stack' \in Seq(Frame) /\ LoopsAttend'
  <2>1. DOMAIN frames = 1 .. Len(frames) /\ Len(frames) \in Nat
    OBVIOUS
  <2>2. DOMAIN stack' = DOMAIN frames /\ stack' = [k \in DOMAIN frames |-> stack'[k]]
    BY <1>4 DEF Leaves
  <2>3. \A k \in 1 .. Len(frames) : stack'[k] \in Frame
    BY <1>7, <2>1
  <2>4. stack' \in Seq(Frame)
    BY <2>1, <2>2, <2>3
  <2> QED
    BY <1>7, <2>2, <2>4 DEF LoopsAttend
<1>9. \A e \in Event : memorized'[e] \in Nat /\ plugins'[e] \in SUBSET Listener
  BY <1>4 DEF EmitterTypeOK
<1>10. MemorizedStay'
  <2> SUFFICES ASSUME NEW e \in Event
               PROVE  plugins'[e] \subseteq ToSet(listeners'[e]) /\ memorized'[e] <= Cardinality(plugins'[e])
    BY DEF MemorizedStay
  <2>1. plugins[e] \subseteq ToSet(listeners[e]) /\ memorized[e] <= Cardinality(plugins[e]) /\ memorized[e] \in Nat
    BY DEF MemorizedStay, EmitterTypeOK
  <2>2. IsFiniteSet(plugins[e])
    <3>1. IsFiniteSet(ToSet(listeners[e]))
      BY <1>1, ElementsCounted
    <3> QED
      BY <2>1, <3>1, FS_Subset
  <2>3. Cardinality(plugins[e]) \in Nat
    BY <2>2, FS_CardinalityType
  <2>4. CASE e \in events
    <3>1. plugins'[e] = plugins[e] \ {l} /\ memorized'[e] = IF memorized[e] > 0 THEN memorized[e] - 1 ELSE memorized[e]
      BY <1>4, <2>4
    <3>2. Cardinality(plugins'[e]) = IF l \in plugins[e] THEN Cardinality(plugins[e]) - 1 ELSE Cardinality(plugins[e])
      BY <2>2, <3>1, FS_RemoveElement
    <3>3. IsFiniteSet(plugins'[e])
      BY <2>2, <3>1, FS_RemoveElement
    <3>4. Cardinality(plugins'[e]) \in Nat
      BY <3>3, FS_CardinalityType
    <3>5. memorized'[e] <= Cardinality(plugins'[e])
      BY <2>1, <2>3, <3>1, <3>2, <3>4
    <3> QED
      BY <1>5, <2>1, <2>4, <3>1, <3>5
  <2>5. CASE e \notin events
    BY <1>4, <2>1, <2>5
  <2> QED
    BY <2>4, <2>5
<1>11. \A e \in Event : ToSet(listeners'[e]) =
         IF e \in Range(RemapEventNames(names)) THEN ToSet(listeners[e]) \ {l} ELSE ToSet(listeners[e])
  BY <1>3, <1>5
<1> QED
  BY <1>4, <1>5, <1>6, <1>8, <1>9, <1>10, <1>11

-----------------------------------------------------------------------------
LEMMA EmitterStarts == EmitterInit => EmitterInv
<1> SUFFICES ASSUME EmitterInit PROVE EmitterInv
  OBVIOUS
<1>1. \A e \in Event : listeners[e] = <<>> /\ ToSet(listeners[e]) = {} /\ plugins[e] = {} /\ memorized[e] = 0
  BY DEF EmitterInit, ToSet
<1>2. EmitterTypeOK
  <2>1. <<>> \in Seq(Listener) /\ <<>> \in Seq(Frame)
    OBVIOUS
  <2>2. [state |-> "new", names |-> <<>>] \in Made
    BY DEF Made
  <2> QED
    BY <2>1, <2>2 DEF EmitterInit, EmitterTypeOK
<1>3. Distinct /\ LoopsAttend
  BY <1>1 DEF EmitterInit, Distinct, LoopsAttend
<1>4. MemorizedStay
  <2>1. Cardinality({}) = 0 /\ 0 <= 0
    BY FS_EmptySet
  <2> QED
    BY <1>1, <2>1 DEF MemorizedStay
<1>5. CallsKept
  BY <1>1 DEF EmitterInit, CallsKept, OnceKept, Listed
<1> QED
  BY <1>2, <1>3, <1>4, <1>5 DEF EmitterInv

(* A step that only moves the loops.                                       *)
LEMMA LoopsMove ==
  ASSUME EmitterInv, UNCHANGED <<listeners, memorized, made, loaded, plugins, calls>>,
         stack' \in Seq(Frame),
         \A k \in DOMAIN stack' : Attentive(listeners[stack'[k].event], stack'[k])
  PROVE  EmitterInv'
<1>1. EmitterTypeOK' /\ Distinct' /\ LoopsAttend' /\ MemorizedStay'
  BY DEF EmitterInv, EmitterTypeOK, Distinct, LoopsAttend, MemorizedStay
<1>2. CallsKept'
  BY DEF EmitterInv, CallsKept, OnceKept, Listed
<1> QED
  BY <1>1, <1>2 DEF EmitterInv

(* An exception, and the end of a loop, leave the loops around it alone.   *)
LEMMA UnwindKeeps ==
  ASSUME EmitterInv, stack # <<>>, stack' = Unwind(stack),
         UNCHANGED <<listeners, memorized, made, loaded, plugins, calls>>
  PROVE  EmitterInv'
<1>1. stack \in Seq(Frame) /\ Len(stack) \in Nat \ {0} /\ stack' = SubSeq(stack, 1, Len(stack) - 1)
  BY DEF EmitterInv, EmitterTypeOK, Unwind, Front
<1>2. /\ stack' \in Seq(Frame) /\ Len(stack') = Len(stack) - 1
      /\ \A k \in 1 .. (Len(stack) - 1) : stack'[k] = stack[k]
  <2> DEFINE n == Len(stack) - 1
  <2>1. /\ n \in Nat /\ n \in Int /\ 1 \in Int /\ stack' = SubSeq(stack, 1, n)
        /\ \A k \in 1 .. n : stack[k] \in Frame
        /\ n - 1 + 1 = n /\ \A k \in 1 .. n : 1 + k - 1 = k
    BY <1>1
  <2> HIDE DEF n
  <2>2. (IF 1 <= n THEN n - 1 + 1 ELSE 0) = n
    BY <2>1
  <2>3. stack' \in Seq(Frame) /\ Len(stack') = n
    BY <2>1, <2>2, SubSeqProperties
  <2>4. \A k \in 1 .. n : stack'[k] = stack[k]
    BY <2>1, SubSeqProperties
  <2> QED
    BY <2>3, <2>4 DEF n
<1>3. \A k \in DOMAIN stack' : k \in DOMAIN stack /\ stack'[k] = stack[k]
  BY <1>1, <1>2
<1> QED
  BY <1>2, <1>3, LoopsMove DEF EmitterInv, LoopsAttend

(* A call of the next listener.                                            *)
LEMMA CallingKeeps ==
  ASSUME EmitterInv, More
  PROVE  /\ NextListener \in Listener
         /\ Loop.event \in Event
         /\ NextListener \in ToSet(listeners[Loop.event])
         /\ Calling(NextListener) \in Seq(Frame)
         /\ \A k \in DOMAIN Calling(NextListener) :
              LET f == Calling(NextListener)[k] IN Attentive(listeners[f.event], f)
<1> DEFINE n == Len(stack)
           l == NextListener
           g == [Loop EXCEPT !.next = @ + 1, !.running = l, !.heard = @ \cup {l}]
<1>1. /\ stack \in Seq(Frame) /\ n \in Nat \ {0} /\ n \in DOMAIN stack /\ Loop = stack[n]
      /\ \A k \in DOMAIN stack : Attentive(listeners[stack[k].event], stack[k])
  BY DEF EmitterInv, EmitterTypeOK, More, Loop, Last, LoopsAttend
<1>2. Loop \in Frame /\ Loop.event \in Event /\ Attentive(listeners[Loop.event], Loop)
  <2>1. Loop \in Frame /\ Attentive(listeners[Loop.event], Loop)
    BY <1>1
  <2> QED
    BY <2>1 DEF Frame
<1>3. listeners[Loop.event] \in Seq(Listener) /\ Loop.next <= Len(listeners[Loop.event])
  BY <1>2 DEF EmitterInv, EmitterTypeOK, More
<1>4. Loop.next \in DOMAIN listeners[Loop.event]
  BY <1>2, <1>3 DEF Attentive
<1>5. l \in Listener /\ l \in ToSet(listeners[Loop.event])
  BY <1>3, <1>4 DEF NextListener, ToSet
<1>6. g \in Frame /\ g.event = Loop.event /\ Attentive(listeners[Loop.event], g)
  BY <1>2, <1>3, CallAttends DEF NextListener
<1>7. Calling(l) = [stack EXCEPT ![n] = g]
  BY DEF Calling
<1> HIDE DEF g, l, n
<1>8. Calling(l) \in Seq(Frame)
  BY <1>1, <1>6, <1>7
<1>9. \A k \in DOMAIN Calling(l) : k \in DOMAIN stack /\ Calling(l)[k] = IF k = n THEN g ELSE stack[k]
  BY <1>1, <1>7
<1>10. \A k \in DOMAIN Calling(l) : Attentive(listeners[Calling(l)[k].event], Calling(l)[k])
  BY <1>1, <1>6, <1>9
<1> QED
  BY <1>2, <1>5, <1>8, <1>10 DEF l

-----------------------------------------------------------------------------
LEMMA OnKeeps ==
  ASSUME EmitterInv, NEW l \in Plain, NEW names \in Subscription, On(l, names)
  PROVE  EmitterInv'
<1>1. l \in Listener /\ \A w \in Wrapper : w # l
  BY EmitterAssumption DEF Listener
<1>2. /\ listeners' \in [Event -> Seq(Listener)] /\ Distinct' /\ LoopsAttend' /\ MemorizedStay'
      /\ \A e \in Event : \/ listeners'[e] = listeners[e]
                          \/ ToSet(listeners'[e]) = ToSet(listeners[e]) \cup {l}
  BY <1>1, Grown DEF On, EmitterInv
<1>3. EmitterTypeOK'
  BY <1>2 DEF On, EmitterInv, EmitterTypeOK
<1>4. \A w \in Wrapper : Listed(w)' = Listed(w)
  BY <1>1, <1>2 DEF Listed
<1>5. CallsKept'
  BY <1>4 DEF On, EmitterInv, CallsKept, OnceKept
<1> QED
  BY <1>2, <1>3, <1>5 DEF EmitterInv

LEMMA OnceKeeps ==
  ASSUME EmitterInv, NEW w \in Wrapper, NEW names \in Subscription, Once(w, names)
  PROVE  EmitterInv'
<1>1. w \in Listener
  BY DEF Listener
<1>2. /\ listeners' \in [Event -> Seq(Listener)] /\ Distinct' /\ LoopsAttend' /\ MemorizedStay'
      /\ \A e \in Event : \/ listeners'[e] = listeners[e]
                          \/ /\ e \in Range(RemapEventNames(names))
                             /\ ToSet(listeners'[e]) = ToSet(listeners[e]) \cup {w}
  BY <1>1, Grown DEF Once, EmitterInv
<1>3. PICK m \in Made : /\ made' = [made EXCEPT ![w] = m]
                        /\ \/ m = [state |-> "ready", names |-> names]
                           \/ m.state = "broken"
  <2> DEFINE m == IF Subscribe(w, names).ok THEN [state |-> "ready", names |-> names]
                  ELSE [state |-> "broken", names |-> <<>>]
  <2>1. made' = [made EXCEPT ![w] = m]
    BY DEF Once
  <2>2. m \in Made /\ (m = [state |-> "ready", names |-> names] \/ m.state = "broken")
    BY DEF Made
  <2> QED
    BY <2>1, <2>2
<1>4. EmitterTypeOK'
  <2>1. made' \in [Wrapper -> Made]
    BY <1>3 DEF EmitterInv, EmitterTypeOK
  <2> QED
    BY <1>2, <2>1 DEF Once, EmitterInv, EmitterTypeOK
<1>5. \A v \in Wrapper : v # w => Listed(v)' = Listed(v) /\ made'[v] = made[v]
  <2> TAKE v \in Wrapper
  <2>1. HAVE v # w
  <2>2. \A e \in Event : v \in ToSet(listeners'[e]) <=> v \in ToSet(listeners[e])
    BY <1>2, <2>1
  <2>3. Listed(v)' = Listed(v)
    BY <2>2 DEF Listed
  <2>4. made'[v] = made[v]
    BY <1>3, <2>1 DEF EmitterInv, EmitterTypeOK
  <2> QED
    BY <2>3, <2>4
<1>6. Listed(w)' \subseteq Listed(w) \cup Range(RemapEventNames(names))
  BY <1>2 DEF Listed
<1>7. /\ made[w].state = "new" /\ Listed(w) = {} /\ calls[w] = 0 /\ calls' = calls /\ made'[w] = m
      /\ made \in [Wrapper -> Made]
  BY <1>3 DEF Once, EmitterInv, CallsKept, OnceKept, EmitterTypeOK
<1>8. OnceKept(w)'
  <2>1. Listed(w)' \subseteq Range(RemapEventNames(names))
    BY <1>6, <1>7
  <2>2. CASE m = [state |-> "ready", names |-> names]
    BY <1>7, <2>1, <2>2 DEF OnceKept
  <2>3. CASE m.state = "broken"
    BY <1>7, <2>3 DEF OnceKept
  <2> QED
    BY <1>3, <2>2, <2>3
<1>9. \A v \in Wrapper : v # w => OnceKept(v)'
  BY <1>5, <1>7 DEF EmitterInv, CallsKept, OnceKept
<1> QED
  BY <1>2, <1>4, <1>8, <1>9 DEF EmitterInv, CallsKept

LEMMA OffKeeps ==
  ASSUME EmitterInv, NEW l \in Plain, NEW names \in Subscription, Off(l, names)
  PROVE  EmitterInv'
<1>1. l \in Listener /\ \A w \in Wrapper : w # l
  BY EmitterAssumption DEF Listener
<1>2. stack \in Seq(Frame) /\ \A k \in DOMAIN stack : Attentive(listeners[stack[k].event], stack[k])
  BY DEF EmitterInv, EmitterTypeOK, LoopsAttend
<1>3. /\ listeners' \in [Event -> Seq(Listener)] /\ memorized' \in [Event -> Nat]
      /\ plugins' \in [Event -> SUBSET Listener] /\ stack' \in Seq(Frame)
      /\ Distinct' /\ LoopsAttend' /\ MemorizedStay'
      /\ \A e \in Event : ToSet(listeners'[e]) =
           IF e \in Range(RemapEventNames(names)) THEN ToSet(listeners[e]) \ {l} ELSE ToSet(listeners[e])
  BY <1>1, <1>2, Shrunk DEF Off, EmitterInv
<1>4. EmitterTypeOK'
  BY <1>3 DEF Off, EmitterInv, EmitterTypeOK
<1>5. \A w \in Wrapper : Listed(w)' = Listed(w)
  BY <1>1, <1>3 DEF Listed
<1>6. CallsKept'
  BY <1>5 DEF Off, EmitterInv, CallsKept, OnceKept
<1> QED
  BY <1>3, <1>4, <1>6 DEF EmitterInv

(* The listener that once() has made is in no set any more when it calls   *)
(* its own, so that nothing can call it again.                             *)
LEMMA CallWrapperKeeps ==
  ASSUME EmitterInv, CallWrapper
  PROVE  EmitterInv'
<1>0. PICK w \in Wrapper : w = NextListener
  BY DEF CallWrapper
<1> DEFINE names == made[w].names
<1>1. /\ More /\ w \in Wrapper /\ made[w].state = "ready" /\ CallOnce(w)
      /\ calls' = [calls EXCEPT ![w] = @ + 1] /\ made' = made /\ loaded' = loaded
  BY <1>0 DEF CallWrapper, CallOnce
<1>2. /\ w \in Listener /\ Loop.event \in Event /\ w \in ToSet(listeners[Loop.event])
      /\ Calling(w) \in Seq(Frame)
      /\ \A k \in DOMAIN Calling(w) : Attentive(listeners[Calling(w)[k].event], Calling(w)[k])
  BY <1>0, <1>1, CallingKeeps
<1>3. Unsubscribe(w, names, Calling(w))
  BY <1>1 DEF CallOnce
<1> HIDE DEF names
<1>4. /\ listeners' \in [Event -> Seq(Listener)] /\ memorized' \in [Event -> Nat]
      /\ plugins' \in [Event -> SUBSET Listener] /\ stack' \in Seq(Frame)
      /\ Distinct' /\ LoopsAttend' /\ MemorizedStay'
      /\ \A e \in Event : ToSet(listeners'[e]) =
           IF e \in Range(RemapEventNames(names)) THEN ToSet(listeners[e]) \ {w} ELSE ToSet(listeners[e])
  BY <1>2, <1>3, Shrunk DEF EmitterInv
<1>5. EmitterTypeOK'
  BY <1>1, <1>4 DEF EmitterInv, EmitterTypeOK
<1>6. OnceKept(w) /\ Listed(w) # {}
  BY <1>1, <1>2 DEF EmitterInv, CallsKept, Listed
<1>7. calls[w] = 0 /\ Listed(w) \subseteq Range(RemapEventNames(names))
  BY <1>1, <1>6 DEF OnceKept, names
<1>8. Listed(w)' = {}
  BY <1>4, <1>7 DEF Listed
<1>9. OnceKept(w)'
  <2>1. calls'[w] = 1 /\ made'[w].state = "ready"
    BY <1>1, <1>7 DEF EmitterInv, EmitterTypeOK
  <2> QED
    BY <1>8, <2>1 DEF OnceKept
<1>10. \A v \in Wrapper : v # w => OnceKept(v)'
  <2> TAKE v \in Wrapper
  <2>1. HAVE v # w
  <2>2. Listed(v)' = Listed(v) /\ calls'[v] = calls[v] /\ made'[v] = made[v]
    BY <1>1, <1>4, <2>1 DEF Listed, EmitterInv, EmitterTypeOK
  <2> QED
    BY <2>2 DEF EmitterInv, CallsKept, OnceKept
<1> QED
  BY <1>4, <1>5, <1>9, <1>10 DEF EmitterInv, CallsKept

(* What emit() and the plain listeners do.                                 *)
LEMMA EmitKeeps ==
  ASSUME EmitterInv, NEW e \in Event, NEW isError \in BOOLEAN, Emit(e, isError)
  PROVE  EmitterInv'
<1> DEFINE f == [event |-> e, next |-> 1, running |-> Nobody, heard |-> {}, present |-> ToSet(listeners[e])]
<1>1. listeners[e] \in Seq(Listener) /\ stack \in Seq(Frame)
  BY DEF EmitterInv, EmitterTypeOK
<1>2. f \in Frame
  <2>1. ToSet(listeners[e]) \in SUBSET Listener
    BY <1>1 DEF ToSet
  <2> QED
    BY <2>1 DEF Frame
<1>3. Attentive(listeners[f.event], f)
  <2>1. \A l \in ToSet(listeners[e]) : \E j \in DOMAIN listeners[e] : listeners[e][j] = l /\ ~(j < 1)
    BY <1>1 DEF ToSet
  <2>2. 1 \in 1 .. (Len(listeners[e]) + 1)
    BY <1>1
  <2> QED
    BY <2>1, <2>2 DEF Attentive, Ahead
<1>4. stack' = Append(stack, f)
  BY DEF Emit
<1> HIDE DEF f
<1>5. stack' \in Seq(Frame) /\ \A k \in DOMAIN stack' : stack'[k] = f \/ (k \in DOMAIN stack /\ stack'[k] = stack[k])
  BY <1>1, <1>2, <1>4
<1> QED
  BY <1>3, <1>5, LoopsMove DEF Emit, EmitterInv, LoopsAttend

LEMMA ReturnKeeps == EmitterInv /\ Return => EmitterInv'
<1> SUFFICES ASSUME EmitterInv, Return PROVE EmitterInv'
  OBVIOUS
<1> DEFINE n == Len(stack)
           g == [stack[n] EXCEPT !.running = Nobody]
<1>1. stack \in Seq(Frame) /\ n \in DOMAIN stack /\ stack[n] \in Frame
  BY DEF EmitterInv, EmitterTypeOK, Return
<1>2. g \in Frame /\ g.event = stack[n].event /\ g.next = stack[n].next
      /\ g.heard = stack[n].heard /\ g.present = stack[n].present
  BY <1>1 DEF Frame
<1>3. stack' = [stack EXCEPT ![n] = g]
  BY DEF Return
<1> HIDE DEF g, n
<1>4. /\ stack' \in Seq(Frame)
      /\ \A k \in DOMAIN stack' : k \in DOMAIN stack /\ stack'[k] = IF k = n THEN g ELSE stack[k]
  BY <1>1, <1>2, <1>3
<1>5. Attentive(listeners[g.event], g)
  BY <1>1, <1>2 DEF EmitterInv, LoopsAttend, Attentive, Ahead
<1> QED
  BY <1>4, <1>5, LoopsMove DEF Return, EmitterInv, LoopsAttend

LEMMA MemorizeKeeps == EmitterInv /\ MemorizeCurrentListenerCounts => EmitterInv'
<1> SUFFICES ASSUME EmitterInv, MemorizeCurrentListenerCounts PROVE EmitterInv'
  OBVIOUS
<1>1. \A e \in Event : /\ listeners[e] \in Seq(Listener)
                       /\ \A i, j \in DOMAIN listeners[e] : listeners[e][i] = listeners[e][j] => i = j
  BY DEF EmitterInv, EmitterTypeOK, Distinct
<1>2. \A e \in Event : Cardinality(ToSet(listeners[e])) = Len(listeners[e]) /\ Len(listeners[e]) \in Nat
  BY <1>1, ElementsCounted
<1>3. \A e \in Event : ToSet(listeners[e]) \in SUBSET Listener
  BY <1>1 DEF ToSet
<1>4. EmitterTypeOK'
  BY <1>2, <1>3 DEF MemorizeCurrentListenerCounts, EmitterInv, EmitterTypeOK
<1>5. Distinct' /\ LoopsAttend' /\ CallsKept'
  BY DEF MemorizeCurrentListenerCounts, EmitterInv, Distinct, LoopsAttend, CallsKept, OnceKept, Listed
<1>6. MemorizedStay'
  BY <1>2 DEF MemorizeCurrentListenerCounts, MemorizedStay
<1> QED
  BY <1>4, <1>5, <1>6 DEF EmitterInv

LEMMA EmitterSteps == EmitterInv /\ [EmitterNext]_emitterVars => EmitterInv'
<1> SUFFICES ASSUME EmitterInv, [EmitterNext]_emitterVars PROVE EmitterInv'
  OBVIOUS
<1>1. ASSUME NEW l \in Plain, NEW names \in Subscription, On(l, names) \/ Off(l, names) PROVE EmitterInv'
  BY <1>1, OnKeeps, OffKeeps
<1>2. ASSUME NEW w \in Wrapper, NEW names \in Subscription, Once(w, names) PROVE EmitterInv'
  BY <1>2, OnceKeeps
<1>3. ASSUME NEW e \in Event, NEW isError \in BOOLEAN, Emit(e, isError) PROVE EmitterInv'
  BY <1>3, EmitKeeps
<1>4. CASE Throw \/ CallBroken \/ Finish
  <2>1. stack # <<>> /\ stack' = Unwind(stack) /\ UNCHANGED <<listeners, memorized, made, loaded, plugins, calls>>
    BY <1>4 DEF Throw, CallBroken, Finish, More
  <2> QED
    BY <2>1, UnwindKeeps
<1>5. CASE Return
  BY <1>5, ReturnKeeps
<1>6. CASE CallPlain
  <2>1. More /\ stack' = Calling(NextListener) /\ UNCHANGED <<listeners, memorized, made, loaded, plugins, calls>>
    BY <1>6 DEF CallPlain
  <2>2. /\ stack' \in Seq(Frame)
        /\ \A k \in DOMAIN stack' : Attentive(listeners[stack'[k].event], stack'[k])
    BY <2>1, CallingKeeps
  <2> QED
    BY <2>1, <2>2, LoopsMove
<1>7. CASE CallWrapper
  BY <1>7, CallWrapperKeeps
<1>8. CASE MemorizeCurrentListenerCounts
  BY <1>8, MemorizeKeeps
<1>9. CASE UNCHANGED emitterVars
  <2>1. stack' \in Seq(Frame) /\ \A k \in DOMAIN stack' : Attentive(listeners[stack'[k].event], stack'[k])
    BY <1>9 DEF emitterVars, EmitterInv, EmitterTypeOK, LoopsAttend
  <2> QED
    BY <1>9, <2>1, LoopsMove DEF emitterVars
<1> QED
  BY <1>1, <1>2, <1>3, <1>4, <1>5, <1>6, <1>7, <1>8, <1>9 DEF EmitterNext

LEMMA EmitterInvariance == EmitterSpec => []EmitterInv
  BY EmitterStarts, EmitterSteps, PTL DEF EmitterSpec

-----------------------------------------------------------------------------
(* The fields of the emitter keep their types.                             *)
THEOREM EmitterTypeCorrect == EmitterSpec => []EmitterTypeOK
<1>1. EmitterInv => EmitterTypeOK
  BY DEF EmitterInv
<1> QED
  BY <1>1, EmitterInvariance, PTL

(* An emission of core/events.ts that comes to its end has called everyone *)
(* who was there from its beginning, at any depth of emissions and         *)
(* whatever they add, remove, emit and throw.                              *)
THEOREM EmissionsReachEveryone == EmitterSpec => []EveryoneHears
<1>1. EmitterInv => EveryoneHears
  <2> SUFFICES ASSUME EmitterInv, NEW i \in DOMAIN stack, NEW l \in stack[i].present,
                      stack[i].next > Len(listeners[stack[i].event])
               PROVE  l \in stack[i].heard
    BY DEF EveryoneHears
  <2>1. stack[i] \in Frame /\ Attentive(listeners[stack[i].event], stack[i])
    BY DEF EmitterInv, EmitterTypeOK, LoopsAttend
  <2>2. stack[i].event \in Event /\ stack[i].next \in Nat
    BY <2>1 DEF Frame
  <2>3. listeners[stack[i].event] \in Seq(Listener)
    BY <2>2 DEF EmitterInv, EmitterTypeOK
  <2> QED
    BY <2>1, <2>2, <2>3 DEF Attentive, Ahead
<1> QED
  BY <1>1, EmitterInvariance, PTL

(* once() of core/events.ts calls its listener at most once, for any       *)
(* subscription, however the emissions of its events are nested.           *)
THEOREM OnceCallsOnce == EmitterSpec => []OnceIsOnce
<1>1. EmitterInv => OnceIsOnce
  BY DEF EmitterInv, CallsKept, OnceKept, OnceIsOnce
<1> QED
  BY <1>1, EmitterInvariance, PTL

(* count() of core/events.ts is at least the number of the listeners that  *)
(* are not the plugins': emit() throws no error that somebody handles.     *)
THEOREM HandledErrorsAreNotThrown == EmitterSpec => []HandledIsNotThrown
<1>1. EmitterInv => HandledIsNotThrown
  <2> SUFFICES ASSUME EmitterInv, NEW e \in Event PROVE Count(e) >= Cardinality(Users(e))
    BY DEF HandledIsNotThrown
  <2>1. listeners[e] \in Seq(Listener) /\ memorized[e] \in Nat /\ Len(listeners[e]) \in Nat
    BY DEF EmitterInv, EmitterTypeOK
  <2>2. IsFiniteSet(ToSet(listeners[e])) /\ Cardinality(ToSet(listeners[e])) = Len(listeners[e])
    BY <2>1, ElementsCounted DEF EmitterInv, Distinct
  <2>3. plugins[e] \subseteq ToSet(listeners[e]) /\ memorized[e] <= Cardinality(plugins[e])
    BY DEF EmitterInv, MemorizedStay
  <2>4. ToSet(listeners[e]) \cap plugins[e] = plugins[e] /\ IsFiniteSet(plugins[e])
    BY <2>2, <2>3, FS_Subset
  <2>5. Cardinality(Users(e)) = Len(listeners[e]) - Cardinality(plugins[e]) /\ Cardinality(plugins[e]) \in Nat
    <3>1. Cardinality(plugins[e]) \in Nat
      BY <2>4, FS_CardinalityType
    <3>2. Cardinality(Users(e)) = Len(listeners[e]) - Cardinality(ToSet(listeners[e]) \cap plugins[e])
      BY <2>2, FS_Difference DEF Users
    <3> QED
      BY <2>4, <3>1, <3>2
  <2> QED
    BY <2>1, <2>3, <2>5 DEF Count
<1> QED
  BY <1>1, EmitterInvariance, PTL
=============================================================================
