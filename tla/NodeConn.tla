------------------------------ MODULE NodeConn ------------------------------
(***************************************************************************)
(* The Conn that runtime/node.ts (and, but for close(), runtime/bun.ts)    *)
(* builds from a socket that emits events.  Data events push, reads pull:  *)
(* what is pushed while nobody reads is kept in `chunks`, a read that      *)
(* finds nothing is kept in `pendingRead`.                                 *)
(*                                                                         *)
(* A byte is its position in the stream, so an array of bytes is the       *)
(* interval from its first to its last byte.                               *)
(***************************************************************************)
EXTENDS Naturals, Sequences

CONSTANTS BufferLength,  \* the length of the buffer given to read()
          MaxData,       \* bound: bytes in one data event
          MaxSent        \* bound: bytes sent by the other side

ASSUME NodeConnAssumption == /\ BufferLength \in Nat \ {0}
                             /\ MaxData \in Nat
                             /\ MaxSent \in Nat

VARIABLES chunks,        \* this.chunks
          pendingRead,   \* this.pendingRead # null
          ended,         \* this.ended
          error,         \* this.error # null
          wire,          \* the socket: which events it may still emit
          sent,          \* history: bytes the socket has emitted
          delivered,     \* history: what the last successful read returned
          outcome        \* how the last read ended that was not successful

socketVars == <<wire, sent>>
readVars == <<pendingRead, delivered, outcome>>
vars == <<chunks, ended, error, socketVars, readVars>>

Wire == {"open", "closing", "destroyed", "ended", "failed", "closed"}
Bytes == [first : Nat \ {0}, last : Nat]
Length(bytes) == (bytes.last + 1) - bytes.first

(* buffer.set(chunk.subarray(0, len)), and the rest of the chunk.          *)
Fits(bytes) == Length(bytes) <= BufferLength
First(bytes) == IF Fits(bytes) THEN bytes
                ELSE [first |-> bytes.first, last |-> bytes.first + BufferLength - 1]
Rest_Bug_OffByOne(bytes) == [first |-> bytes.first + BufferLength + 1, last |-> bytes.last]
Rest(bytes) == [first |-> bytes.first + BufferLength, last |-> bytes.last]

Init == /\ chunks = <<>>
        /\ pendingRead = FALSE
        /\ ended = FALSE
        /\ error = FALSE
        /\ wire = "open"
        /\ sent = 0
        /\ delivered = [first |-> 1, last |-> 0]
        /\ outcome = "none"

-----------------------------------------------------------------------------
(* A pending read is settled and forgotten.                                *)
Deliver(bytes) == /\ pendingRead' = FALSE
                  /\ delivered' = First(bytes)
                  /\ UNCHANGED outcome
SettleIfPending_Bug_Forgets(result) == UNCHANGED readVars
SettleIfPending(result) == /\ pendingRead' = FALSE
                           /\ outcome' = IF pendingRead THEN result ELSE outcome
                           /\ UNCHANGED delivered

(* socket.on("data")                                                       *)
OnData(n) ==
  /\ wire \in {"open", "closing"}
  /\ sent + n <= MaxSent
  /\ sent' = sent + n
  /\ LET data == [first |-> sent + 1, last |-> sent + n]
     IN  IF pendingRead
         THEN /\ Deliver(data)
              /\ chunks' = IF Fits(data) THEN chunks ELSE Append(chunks, Rest(data))
         ELSE /\ chunks' = Append(chunks, data)
              /\ UNCHANGED readVars
  /\ UNCHANGED <<ended, error, wire>>

(* socket.on("end")                                                        *)
OnEnd ==
  /\ wire \in {"open", "closing"}
  /\ wire' = "ended"
  /\ ended' = TRUE
  /\ SettleIfPending("null")
  /\ UNCHANGED <<chunks, error, sent>>

(* socket.on("error"), which is followed by "close".                       *)
OnError ==
  /\ wire \in {"open", "closing", "ended"}
  /\ wire' = "failed"
  /\ error' = TRUE
  /\ SettleIfPending("error")
  /\ UNCHANGED <<chunks, ended, sent>>

(* socket.on("close"), the last event.                                     *)
OnClose ==
  /\ wire \in {"ended", "failed", "destroyed"}
  /\ wire' = "closed"
  /\ ended' = TRUE
  /\ SettleIfPending("null")
  /\ UNCHANGED <<chunks, error, sent>>

-----------------------------------------------------------------------------
(* read(buffer): what is there comes first, then the end, then the error.  *)
ReadChunk ==
  /\ chunks # <<>>
  /\ Deliver(Head(chunks))
  /\ chunks' = IF Fits(Head(chunks)) THEN Tail(chunks)
               ELSE <<Rest(Head(chunks))>> \o Tail(chunks)

ReadOver == /\ chunks = <<>>
            /\ ended \/ error
            /\ outcome' = IF ended THEN "null" ELSE "error"
            /\ UNCHANGED <<chunks, pendingRead, delivered>>

ReadWaits == /\ chunks = <<>>
             /\ ~ended
             /\ ~error
             /\ pendingRead' = TRUE
             /\ UNCHANGED <<chunks, delivered, outcome>>

(* The read loop of the client: one read at a time, until one fails.       *)
Read == /\ ~pendingRead
        /\ outcome = "none"
        /\ ReadChunk \/ ReadOver \/ ReadWaits
        /\ UNCHANGED <<ended, error, socketVars>>

(* close() destroys the socket on Node.  On Bun it only ends this side, so *)
(* data may go on arriving.                                                *)
CloseDestroys == /\ wire \in {"open", "ended"}
                 /\ wire' = "destroyed"
                 /\ UNCHANGED <<chunks, ended, error, sent, readVars>>

CloseEnds == /\ wire = "open"
             /\ wire' = "closing"
             /\ UNCHANGED <<chunks, ended, error, sent, readVars>>

-----------------------------------------------------------------------------
Next == \/ \E n \in 1 .. MaxData : OnData(n)
        \/ OnEnd \/ OnError \/ OnClose
        \/ Read \/ CloseDestroys \/ CloseEnds

(* The loop reads again as soon as a read has settled, and the last event  *)
(* of a socket is emitted.                                                 *)
Spec == Init /\ [][Next]_vars /\ WF_vars(Read) /\ WF_vars(OnClose)

-----------------------------------------------------------------------------
(* The types of the connection's fields.                                   *)
TypeOK == /\ chunks \in Seq(Bytes)
          /\ pendingRead \in BOOLEAN
          /\ ended \in BOOLEAN
          /\ error \in BOOLEAN
          /\ wire \in Wire
          /\ sent \in Nat
          /\ delivered \in Bytes
          /\ outcome \in {"none", "null", "error"}

(* No wake-up is lost: a read waits only while there is really nothing to  *)
(* tell it, neither bytes nor the end nor an error.                        *)
WaitsForNews == pendingRead => chunks = <<>> /\ ~ended /\ ~error /\ outcome = "none"

(* The chunks follow on from what was read, one on the other, up to the    *)
(* last byte received.                                                     *)
NextFirst(i) == IF i = Len(chunks) THEN sent + 1 ELSE chunks[i + 1].first
ChunksAreTheRest ==
  /\ NextFirst(0) = delivered.last + 1
  /\ \A i \in 1 .. Len(chunks) : /\ chunks[i].first <= chunks[i].last
                                 /\ NextFirst(i) = chunks[i].last + 1

(* A read returns the bytes that follow those of the read before it, and   *)
(* never more than its buffer holds.                                       *)
ReadsFollowOn ==
  [][delivered' # delivered => /\ delivered'.first = delivered.last + 1
                               /\ Length(delivered') \in 1 .. BufferLength]_vars

(* The connection is a byte stream for its reader: everything received is  *)
(* delivered once and in order, and the end is reported after all of it.   *)
Stream == INSTANCE ByteStream WITH Limit <- BufferLength,
                                   got <- delivered.last,
                                   over <- outcome # "none"
IsByteStream == Stream!Spec

(* A socket that was closed, on either side, ends the read loop.           *)
CloseEndsReads == wire \in {"destroyed", "ended", "failed"} ~> outcome # "none"
=============================================================================
