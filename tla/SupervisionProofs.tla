------------------------- MODULE SupervisionProofs --------------------------
(***************************************************************************)
(* Proofs about the client and the plugins that watch over its connection, *)
(* for any number of connect() calls, servers, attempts and lines.  The    *)
(* first part is about core/client.ts alone (Spec), the second about the   *)
(* client with the plugins.                                                *)
(***************************************************************************)
EXTENDS Supervision, TLAPS

-----------------------------------------------------------------------------
(* What the helpers return.                                                *)
LEMMA Joined ==
  ASSUME NEW a, NEW b
  PROVE  <<a>> \o <<>> = <<a>> /\ <<a>> \o <<b>> = <<a, b>>
<1> DEFINE S == {a, b}
<1>1. a \in S /\ b \in S
  OBVIOUS
<1> HIDE DEF S
<1>2. <<a>> \o <<>> = <<a>>
  <2>1. \A s \in Seq(S) : s \o <<>> = s
    OBVIOUS
  <2>2. <<a>> \in Seq(S)
    BY <1>1
  <2> QED
    BY <2>1, <2>2
<1>3. <<a>> \o <<b>> = <<a, b>>
  <2>1. <<a>> \in Seq(S) /\ <<b>> \in Seq(S) /\ <<a, b>> \in Seq(S)
    BY <1>1
  <2>2. /\ Len(<<a>>) = 1 /\ Len(<<b>>) = 1 /\ Len(<<a, b>>) = 2
        /\ <<a>>[1] = a /\ <<b>>[1] = b /\ <<a, b>>[1] = a /\ <<a, b>>[2] = b
    OBVIOUS
  <2> DEFINE t == <<a>> \o <<b>>
  <2>3. t \in Seq(S) /\ Len(t) = 2 /\ t[1] = a /\ t[2] = b
    BY <2>1, <2>2
  <2>4. \A s, u \in Seq(S) : Len(s) = 2 /\ Len(u) = 2 /\ s[1] = u[1] /\ s[2] = u[2] => s = u
    OBVIOUS
  <2> HIDE DEF t
  <2>5. t = <<a, b>>
    BY <2>1, <2>2, <2>3, <2>4
  <2> QED
    BY <2>5 DEF t
<1> QED
  BY <1>2, <1>3

LEMMA ClosingCases ==
  ASSUME NEW h, NEW closing \in Closing(h)
  PROVE  LET told == ConnEvent("disconnected", h)
         IN  closing \in {<<>>, <<told>>, <<Error("close")>>, <<told, Error("close")>>}
<1> DEFINE told == ConnEvent("disconnected", h)
<1>1. \A f \in {<<>>, <<Error("close")>>} : <<told>> \o f \in {<<told>>, <<told, Error("close")>>}
  BY Joined
<1>2. \A silent : EmitError("close", silent) \in {<<>>, <<Error("close")>>}
  BY DEF EmitError
<1> QED
  BY <1>1, <1>2 DEF Closing

LEMMA CloseTypes ==
  ASSUME TypeOK, NEW h \in Host \cup {NoHost}
  PROVE  /\ Closing(h) \subseteq Seq(Event)
         /\ CloseEvents(h) \subseteq Seq(Event)
         /\ CloseSocket \in [Conn -> SocketState]
<1>1. ConnEvent("disconnected", h) \in Event /\ Error("close") \in Event
  BY DEF ConnEvent, Error, Event
<1>2. \A e, f \in Event : <<>> \in Seq(Event) /\ <<e>> \in Seq(Event) /\ <<e, f>> \in Seq(Event)
  OBVIOUS
<1>3. ASSUME NEW closing \in Closing(h) PROVE closing \in Seq(Event)
  <2>1. closing \in {<<>>, <<ConnEvent("disconnected", h)>>, <<Error("close")>>,
                    <<ConnEvent("disconnected", h), Error("close")>>}
    BY ClosingCases
  <2> QED
    BY <1>1, <1>2, <2>1
<1>4. CloseEvents(h) \subseteq Seq(Event)
  <2>1. CloseEvents(h) = {<<>>} \/ CloseEvents(h) = Closing(h)
    BY DEF CloseEvents
  <2>2. <<>> \in Seq(Event)
    OBVIOUS
  <2> QED
    BY <1>3, <2>1, <2>2
<1>5. CloseSocket \in [Conn -> SocketState]
  BY DEF CloseSocket, ClosedNow, SocketState, TypeOK
<1> QED
  BY <1>3, <1>4, <1>5

LEMMA ClosingSeq ==
  ASSUME NEW h, NEW closing \in Closing(h)
  PROVE  closing \in Seq({ConnEvent("disconnected", h), Error("close")})
<1> DEFINE told == ConnEvent("disconnected", h)
           S == {told, Error("close")}
<1>1. closing \in {<<>>, <<told>>, <<Error("close")>>, <<told, Error("close")>>}
  BY ClosingCases
<1>2. told \in S /\ Error("close") \in S
  OBVIOUS
<1> HIDE DEF told, S
<1>3. \A e, f \in S : <<>> \in Seq(S) /\ <<e>> \in Seq(S) /\ <<e, f>> \in Seq(S)
  OBVIOUS
<1>4. closing \in Seq(S)
  BY <1>1, <1>2, <1>3
<1> QED
  BY <1>4 DEF S, told

LEMMA ErrorTypes ==
  ASSUME NEW kind \in {"connect", "read", "write", "close"}, NEW silent \in BOOLEAN
  PROVE  EmitError(kind, silent) \in Seq(Event)
<1>1. Error(kind) \in Event
  BY DEF Error, Event
<1> QED
  BY <1>1 DEF EmitError

LEMMA ParsedType ==
  ASSUME TypeOK, NEW c \in Conn, NEW cmds \in Lines
  PROVE  Parsed(c, cmds) \in Seq(Line)
<1>1. PICK n \in 0 .. MaxLines : cmds \in [1 .. n -> Command]
  BY DEF Lines
<1>2. n \in Nat
  BY <1>1, ClientAssumption
<1>3. DOMAIN cmds = 1 .. n
  BY <1>1
<1>4. ASSUME NEW i \in 1 .. n
      PROVE  [command |-> cmds[i], from |-> IF i = 1 THEN chunk \cup {c} ELSE {c}] \in Line
  BY <1>1, <1>4 DEF Line, TypeOK
<1>5. Parsed(c, cmds) \in [1 .. n -> Line]
  BY <1>3, <1>4 DEF Parsed
<1> QED
  BY <1>2, <1>5

-----------------------------------------------------------------------------
LEMMA InitTypeOK == Init => TypeOK
<1> QED
  BY ClientAssumption DEF Init, TypeOK, SocketState, LoopState

(* Every operation of the client keeps its types.                          *)
LEMMA NextTypeOK == TypeOK /\ [Next]_vars => TypeOK'
<1> SUFFICES ASSUME TypeOK, [Next]_vars PROVE TypeOK'
  OBVIOUS
<1>1. CASE UNCHANGED vars
  BY <1>1 DEF vars, TypeOK
<1>2. ASSUME NEW c \in Conn, NEW h \in Host, Connect(c, h) PROVE TypeOK'
  <2>1. CloseEvents(h) \subseteq Seq(Event) /\ CloseSocket \in [Conn -> SocketState]
    BY CloseTypes
  <2>2. ConnEvent("connecting", h) \in Event
    BY DEF ConnEvent, Event
  <2>3. events' \in Seq(Event)
    BY <1>2, <2>1, <2>2 DEF Connect, CallConnect, ConnectCall
  <2>4. socket' \in [Conn -> SocketState]
    BY <1>2, <2>1 DEF Connect, CallConnect, ConnectCall, SocketState
  <2> QED
    BY <1>2, <2>3, <2>4 DEF Connect, CallConnect, ConnectCall, TypeOK
<1>3. ASSUME NEW c \in Conn, ConnectSettles(c) PROVE TypeOK'
  <2>1. \A type \in {"connected", "disconnected"} : \A h \in Host \cup {NoHost} :
          ConnEvent(type, h) \in Event
    BY DEF ConnEvent, Event
  <2>2. Error("connect") \in Event /\ Error("read") \in Event
    BY DEF Error, Event
  <2>3. host[c] \in Host \cup {NoHost} /\ remoteAddr \in Host \cup {NoHost}
    BY DEF TypeOK
  <2>4. CASE ConnectSucceeds(c)
    BY <2>1, <2>3, <2>4 DEF ConnectSucceeds, Established, TypeOK, SocketState, LoopState
  <2>5. CASE ConnectedThrows(c)
    BY <2>1, <2>2, <2>3, <2>5 DEF ConnectedThrows, Established, TypeOK, SocketState
  <2>6. CASE ConnectedDisconnects(c)
    <3>1. PICK closing \in Closing(remoteAddr) :
            events' = <<ConnEvent("connected", host[c])>> \o closing \o <<Error("read")>>
      BY <2>6 DEF ConnectedDisconnects
    <3>2. closing \in Seq(Event)
      BY <2>3, <3>1, CloseTypes
    <3>3. <<ConnEvent("connected", host[c])>> \in Seq(Event) /\ <<Error("read")>> \in Seq(Event)
      BY <2>1, <2>2, <2>3
    <3>4. events' \in Seq(Event)
      BY <3>1, <3>2, <3>3
    <3> QED
      BY <2>6, <3>4 DEF ConnectedDisconnects, Established, TypeOK, SocketState
  <2>7. ASSUME NEW silent \in BOOLEAN, ConnectFails(c, silent) PROVE TypeOK'
    <3>1. events' \in Seq(Event)
      BY <2>7, ErrorTypes DEF ConnectFails
    <3> QED
      BY <2>7, <3>1 DEF ConnectFails, TypeOK, SocketState
  <2> QED
    BY <1>3, <2>4, <2>5, <2>6, <2>7 DEF ConnectSettles, Silent
<1>4. ASSUME NEW c \in Conn, NEW cmds \in Lines, NEW rest \in BOOLEAN,
             LoopReads(c, cmds, rest)
      PROVE  TypeOK'
  <2>1. batch' \in Seq(Line)
    BY <1>4, ParsedType DEF LoopReads
  <2>2. chunk' \subseteq Conn
    BY <1>4 DEF LoopReads, Remainder, TypeOK
  <2>3. events' \in Seq(Event)
    BY <1>4 DEF LoopReads
  <2> QED
    BY <1>4, <2>1, <2>2, <2>3 DEF LoopReads, TypeOK
<1>5. CASE Dispatch
  <2>1. Head(batch) \in Line /\ Tail(batch) \in Seq(Line)
    BY <1>5 DEF Dispatch, TypeOK
  <2>2. Raw(Head(batch)) \in Event
    BY <2>1 DEF Raw, Event
  <2> QED
    BY <1>5, <2>1, <2>2 DEF Dispatch, TypeOK
<1>6. ASSUME NEW c \in Conn, LoopBreaks(c), NEW ev \in Seq(Event),
             \E closing \in CloseEvents(remoteAddr) : events' = ev \o closing,
             UNCHANGED <<remoteAddr, host, chunk, batch, writing>>
      PROVE  TypeOK'
  <2>1. CloseEvents(remoteAddr) \subseteq Seq(Event) /\ CloseSocket \in [Conn -> SocketState]
    BY CloseTypes DEF TypeOK
  <2>2. events' \in Seq(Event)
    BY <1>6, <2>1
  <2> QED
    BY <1>6, <2>1, <2>2 DEF LoopBreaks, Close, TypeOK, LoopState
<1>7. ASSUME NEW c \in Conn, LoopEof(c) PROVE TypeOK'
  <2>1. CloseEvents(remoteAddr) \subseteq Seq(Event) /\ CloseSocket \in [Conn -> SocketState]
    BY CloseTypes DEF TypeOK
  <2> QED
    BY <1>7, <2>1 DEF LoopEof, LoopBreaks, Close, TypeOK, LoopState
<1>8. ASSUME NEW c \in Conn, NEW silent \in BOOLEAN, LoopError(c, silent) PROVE TypeOK'
  <2>1. EmitError("read", silent) \in Seq(Event)
    BY ErrorTypes
  <2> QED
    BY <1>6, <1>8, <2>1 DEF LoopError
<1>9. CASE Disconnect
  <2>1. CloseEvents(remoteAddr) \subseteq Seq(Event) /\ CloseSocket \in [Conn -> SocketState]
    BY CloseTypes DEF TypeOK
  <2> QED
    BY <1>9, <2>1 DEF Disconnect, Close, TypeOK
<1>10. CASE Send
  <2>1. Error("write") \in Event
    BY DEF Error, Event
  <2>2. writing' \subseteq Conn
    BY <1>10 DEF Send, TypeOK
  <2>3. events' = <<Error("write")>> \/ events' = <<>>
    BY <1>10 DEF Send
  <2>4. <<Error("write")>> \in Seq(Event) /\ <<>> \in Seq(Event)
    BY <2>1
  <2>5. events' \in Seq(Event)
    BY <2>3, <2>4
  <2> QED
    BY <1>10, <2>2, <2>5 DEF Send, TypeOK
<1>11. ASSUME NEW c \in Conn, NEW failed \in BOOLEAN, NEW silent \in BOOLEAN,
              WriteSettles(c, failed, silent)
       PROVE  TypeOK'
  <2>1. EmitError("write", silent) \in Seq(Event)
    BY ErrorTypes
  <2>2. events' \in Seq(Event)
    BY <1>11, <2>1 DEF WriteSettles
  <2> QED
    BY <1>11, <2>2 DEF WriteSettles, TypeOK
<1>12. ASSUME NEW c \in Conn, ServerEnds(c) PROVE TypeOK'
  BY <1>12 DEF ServerEnds, TypeOK, SocketState
<1> QED
  BY <1>1, <1>2, <1>3, <1>4, <1>5, <1>7, <1>8, <1>9, <1>10, <1>11, <1>12
  DEF Next, Application, Runtime, Silent

(* The variables of CoreClient keep their types, whatever the application, *)
(* the runtime and the server do.                                          *)
THEOREM TypeCorrect == Spec => []TypeOK
<1> QED
  BY InitTypeOK, NextTypeOK, PTL DEF Spec

-----------------------------------------------------------------------------
(* A connect() that is awaited has found no connection, or closed it; and  *)
(* no two are awaited at once.                                             *)
ConnectsAlone == /\ \A c, d \in Connecting : c = d
                 /\ Connecting # {} => conn = NoConn

(* A read loop runs on a connection that was open once.                    *)
LoopsHaveSockets ==
  \A c \in Conn : loop[c] = "reading" => c \in Alive \cup Shut

(* While there is a connection, no loop of another one is left.            *)
LoopsAlone == conn # NoConn => \A c \in Conn : loop[c] = "reading" => c = conn

SerialInv == TypeOK /\ OneConnection /\ ConnectsAlone
PromptInv == SerialInv /\ LoopsHaveSockets /\ LoopsAlone

LEMMA InitSerialInv == Init => SerialInv /\ PromptInv
<1> SUFFICES ASSUME Init PROVE SerialInv /\ PromptInv
  OBVIOUS
<1>1. TypeOK
  BY InitTypeOK
<1> QED
  BY <1>1 DEF Init, SerialInv, PromptInv, OneConnection, ConnectsAlone, Alive,
              Connecting, LoopsHaveSockets, LoopsAlone

(* After close() no connection is open and there is no this.conn.          *)
LEMMA CloseLeavesNone ==
  ASSUME SerialInv, Close
  PROVE  /\ Alive' = {} /\ conn' = NoConn /\ Connecting' = Connecting
         /\ socket' \in [Conn -> SocketState]
         /\ \A c \in Conn : IF c = conn THEN c \in Shut' ELSE socket'[c] = socket[c]
<1>1. \A c \in Conn : IF c = conn THEN c \in Shut' ELSE socket'[c] = socket[c]
  BY DEF Close, CloseSocket, ClosedNow, Shut
<1>2. Alive' = {}
  BY <1>1 DEF SerialInv, OneConnection, Alive, Shut
<1>3. Connecting' = Connecting
  BY <1>1, ClientAssumption DEF SerialInv, OneConnection, Alive, Connecting, Shut
<1>4. socket' \in [Conn -> SocketState]
  BY DEF Close, CloseSocket, ClosedNow, SocketState, SerialInv, TypeOK
<1> QED
  BY <1>1, <1>2, <1>3, <1>4 DEF Close

LEMMA NextSerialInv ==
  ASSUME SerialConnect, SerialInv, [Next]_vars
  PROVE  SerialInv'
<1>1. TypeOK'
  BY NextTypeOK DEF SerialInv
<1> USE DEF SerialInv
<1>2. CASE UNCHANGED <<conn, socket>>
  BY <1>1, <1>2 DEF OneConnection, ConnectsAlone, Alive, Connecting
<1>3. CASE Close
  BY <1>1, <1>3, CloseLeavesNone DEF OneConnection, ConnectsAlone
<1>4. ASSUME NEW c \in Conn, NEW h \in Host, Connect(c, h) PROVE SerialInv'
  <2>1. Connecting = {} /\ conn' = NoConn
    BY <1>4 DEF Connect, CallConnect, ConnectCall
  <2>2. \A d \in Conn : socket'[d] = IF d = c THEN "connecting"
                                     ELSE IF d = conn THEN ClosedNow ELSE socket[d]
    BY <1>4 DEF Connect, CallConnect, ConnectCall, CloseSocket, TypeOK
  <2>3. Alive' = {} /\ Connecting' = {c}
    BY <2>1, <2>2 DEF OneConnection, Alive, Connecting, ClosedNow
  <2> QED
    BY <1>1, <2>1, <2>3 DEF OneConnection, ConnectsAlone
<1>5. ASSUME NEW c \in Conn, ConnectSettles(c) PROVE SerialInv'
  <2>1. c \in Connecting /\ Connecting = {c} /\ conn = NoConn /\ Alive = {}
    BY <1>5, ClientAssumption
    DEF ConnectSettles, ConnectSucceeds, ConnectedThrows, ConnectedDisconnects,
                ConnectFails, Established, Connecting, ConnectsAlone, OneConnection, Alive
  <2>2. CASE /\ socket' = [socket EXCEPT ![c] = "open"]
             /\ conn' = c
    <3>1. Alive' = {c} /\ Connecting' = {}
      BY <2>1, <2>2 DEF Alive, Connecting, TypeOK
    <3> QED
      BY <1>1, <2>2, <3>1 DEF OneConnection, ConnectsAlone
  <2>3. CASE /\ socket' \in {[socket EXCEPT ![c] = "closed"], [socket EXCEPT ![c] = "failed"]}
             /\ conn' = NoConn
    <3>1. Alive' = {} /\ Connecting' = {}
      BY <2>1, <2>3 DEF Alive, Connecting, TypeOK
    <3> QED
      BY <1>1, <2>3, <3>1 DEF OneConnection, ConnectsAlone
  <2> QED
    BY <1>5, <2>1, <2>2, <2>3
    DEF ConnectSettles, ConnectSucceeds, ConnectedThrows, ConnectedDisconnects, ConnectFails
<1>6. ASSUME NEW c \in Conn, ServerEnds(c) PROVE SerialInv'
  <2>1. Alive' = Alive /\ Connecting' = Connecting /\ conn' = conn
    BY <1>6 DEF ServerEnds, Alive, Connecting, TypeOK
  <2> QED
    BY <1>1, <2>1 DEF OneConnection, ConnectsAlone
<1> QED
  BY <1>2, <1>3, <1>4, <1>5, <1>6
  DEF Next, Application, Runtime, vars, Dispatch, LoopReads, LoopEof, LoopError,
      LoopBreaks, Disconnect, Send, WriteSettles

(* One instance manages one connection, as long as the caller awaits each  *)
(* connect(): whatever fails, ends or is closed in between, no open        *)
(* connection is forgotten and this.conn is never a dead one.              *)
THEOREM OneConnectionAtATime == ASSUME SerialConnect PROVE Spec => []OneConnection
<1>1. SerialInv /\ [Next]_vars => SerialInv'
  BY NextSerialInv
<1>2. SerialInv => OneConnection
  BY DEF SerialInv
<1> QED
  BY <1>1, <1>2, InitSerialInv, PTL DEF Spec

-----------------------------------------------------------------------------
LEMMA NextPromptInv ==
  ASSUME SerialConnect, PromptClose, PromptInv, [Next]_vars
  PROVE  PromptInv'
<1>1. SerialInv'
  BY NextSerialInv DEF PromptInv
<1> USE DEF PromptInv
<1>2. CASE UNCHANGED <<conn, socket, loop>>
  BY <1>1, <1>2 DEF LoopsHaveSockets, LoopsAlone, Alive, Shut
<1>3. CASE Close /\ UNCHANGED loop
  BY <1>1, <1>3, CloseLeavesNone DEF LoopsHaveSockets, LoopsAlone, Alive, Shut
<1>4. ASSUME NEW c \in Conn, LoopBreaks(c) PROVE PromptInv'
  <2>1. \A d \in Conn : loop'[d] = "reading" => loop[d] = "reading"
    BY <1>4 DEF LoopBreaks, SerialInv, TypeOK
  <2> QED
    BY <1>1, <1>4, <2>1, CloseLeavesNone DEF LoopBreaks, LoopsHaveSockets, LoopsAlone, Alive, Shut
<1>5. ASSUME NEW c \in Conn, NEW h \in Host, Connect(c, h) PROVE PromptInv'
  <2>1. conn' = NoConn /\ loop' = loop /\ socket[c] = "unused"
    BY <1>5 DEF Connect, CallConnect, ConnectCall
  <2>2. \A d \in Conn : socket'[d] = IF d = c THEN "connecting"
                                     ELSE IF d = conn THEN ClosedNow ELSE socket[d]
    BY <1>5 DEF Connect, CallConnect, ConnectCall, CloseSocket, SerialInv, TypeOK
  <2> QED
    BY <1>1, <2>1, <2>2 DEF LoopsHaveSockets, LoopsAlone, Alive, Shut, ClosedNow
<1>6. ASSUME NEW c \in Conn, ConnectSettles(c) PROVE PromptInv'
  <2>1. socket[c] = "connecting" /\ loop[c] # "reading"
    BY <1>6 DEF ConnectSettles, ConnectSucceeds, ConnectedThrows, ConnectedDisconnects,
                ConnectFails, Established, LoopsHaveSockets, Alive, Shut
  <2>2. Alive = {} /\ conn = NoConn
    BY <2>1, ClientAssumption DEF SerialInv, ConnectsAlone, Connecting, OneConnection, Alive
  <2>3. Established(c) => \A d \in Conn : loop[d] # "reading"
    BY <2>2 DEF Established, LoopsHaveSockets, Alive, Shut
  <2>4. CASE ConnectSucceeds(c)
    BY <1>1, <2>3, <2>4
    DEF ConnectSucceeds, LoopsHaveSockets, LoopsAlone, Alive, SerialInv, TypeOK
  <2>5. CASE ConnectedThrows(c)
    BY <1>1, <2>3, <2>5 DEF ConnectedThrows, LoopsHaveSockets, LoopsAlone
  <2>6. CASE ConnectedDisconnects(c)
    BY <1>1, <2>3, <2>6 DEF ConnectedDisconnects, LoopsHaveSockets, LoopsAlone
  <2>7. ASSUME NEW silent \in BOOLEAN, ConnectFails(c, silent) PROVE PromptInv'
    BY <1>1, <2>1, <2>2, <2>7
    DEF ConnectFails, LoopsHaveSockets, LoopsAlone, Alive, Shut, SerialInv, TypeOK
  <2> QED
    BY <1>6, <2>4, <2>5, <2>6, <2>7 DEF ConnectSettles, Silent
<1>7. ASSUME NEW c \in Conn, ServerEnds(c) PROVE PromptInv'
  BY <1>1, <1>7 DEF ServerEnds, LoopsHaveSockets, LoopsAlone, Alive, Shut, SerialInv, TypeOK
<1> QED
  BY <1>2, <1>3, <1>4, <1>5, <1>6, <1>7
  DEF Next, Application, Runtime, vars, Dispatch, LoopReads, LoopEof, LoopError,
      Disconnect, Send, WriteSettles

(* On a runtime that ends the read of a closed connection at once, a read  *)
(* loop never closes a connection other than its own.                      *)
THEOREM LoopsCloseTheirOwn ==
  ASSUME SerialConnect, PromptClose PROVE Spec => LoopClosesItsOwn
<1>1. PromptInv /\ [Next]_vars => PromptInv'
  BY NextPromptInv
<1>2. PromptInv /\ [Next]_vars =>
        [\A c \in Conn : loop[c] = "reading" /\ loop'[c] = "over" /\ conn' # conn
                         => conn = c]_vars
  <2> SUFFICES ASSUME PromptInv, [Next]_vars, NEW c \in Conn,
                      loop[c] = "reading", loop'[c] = "over", conn' # conn
               PROVE  conn = c
    OBVIOUS
  <2>1. CASE conn # NoConn
    BY <2>1 DEF PromptInv, LoopsAlone
  <2>2. CASE conn = NoConn
    <3>1. PICK d \in Conn : ConnectSettles(d)
      BY <2>2 DEF Next, Application, Runtime, vars, Dispatch, LoopReads, LoopEof, LoopError,
                  LoopBreaks, Close, Disconnect, Send, WriteSettles, ServerEnds, Connect,
                  CallConnect, ConnectCall
    <3>2. loop' = loop \/ loop' = [loop EXCEPT ![d] = "reading"]
      BY <3>1 DEF ConnectSettles, ConnectSucceeds, ConnectedThrows, ConnectedDisconnects,
                  ConnectFails
    <3> QED
      BY <3>2 DEF PromptInv, SerialInv, TypeOK
  <2> QED
    BY <2>1, <2>2
<1> QED
  BY <1>1, <1>2, InitSerialInv, PTL DEF Spec, LoopClosesItsOwn

-----------------------------------------------------------------------------
(* No loop begins before its connection is there.                          *)
NoLoopYet == \A c \in Conn : socket[c] \in {"unused", "connecting"} => loop[c] = "none"

LEMMA NextNoLoopYet ==
  ASSUME TypeOK, NoLoopYet, [Next]_vars
  PROVE  NoLoopYet'
<1>1. CASE UNCHANGED <<socket, loop>>
  BY <1>1 DEF NoLoopYet
<1>2. CASE Close /\ UNCHANGED loop
  BY <1>2 DEF NoLoopYet, Close, CloseSocket, ClosedNow, TypeOK
<1>3. ASSUME NEW c \in Conn, LoopBreaks(c), loop[c] = "reading" PROVE NoLoopYet'
  BY <1>3 DEF NoLoopYet, LoopBreaks, Close, CloseSocket, ClosedNow, TypeOK
<1>4. ASSUME NEW c \in Conn, NEW h \in Host, Connect(c, h) PROVE NoLoopYet'
  BY <1>4 DEF NoLoopYet, Connect, CallConnect, ConnectCall, CloseSocket, ClosedNow, TypeOK
<1>5. ASSUME NEW c \in Conn, ConnectSettles(c) PROVE NoLoopYet'
  BY <1>5 DEF NoLoopYet, ConnectSettles, ConnectSucceeds, ConnectedThrows,
              ConnectedDisconnects, ConnectFails, Established, TypeOK
<1>6. ASSUME NEW c \in Conn, ServerEnds(c) PROVE NoLoopYet'
  BY <1>6 DEF NoLoopYet, ServerEnds, TypeOK
<1> QED
  BY <1>1, <1>2, <1>3, <1>4, <1>5, <1>6
  DEF Next, Application, Runtime, vars, Dispatch, LoopReads, LoopEof, LoopError,
      Disconnect, Send, WriteSettles

(* this.conn always has its loop, unless a "connected" listener threw: no  *)
(* other sequence of calls and events leaves the client with a connection  *)
(* that nobody reads, however many connects overlap.                       *)
THEOREM ConnectionStaysRead == Spec => []ConnectionIsRead
<1>1. Init => ConnectionIsRead /\ NoLoopYet
  BY DEF Init, ConnectionIsRead, NoLoopYet
<1>2. TypeOK /\ NoLoopYet /\ ConnectionIsRead /\ [Next]_vars => ConnectionIsRead'
  <2> SUFFICES ASSUME TypeOK, NoLoopYet, ConnectionIsRead, [Next]_vars PROVE ConnectionIsRead'
    OBVIOUS
  <2>1. CASE UNCHANGED <<conn, loop>>
    BY <2>1 DEF ConnectionIsRead
  <2>2. CASE conn' = NoConn
    BY <2>2 DEF ConnectionIsRead
  <2>3. ASSUME NEW c \in Conn, ConnectSucceeds(c) PROVE ConnectionIsRead'
    BY <2>3 DEF ConnectSucceeds, ConnectionIsRead, TypeOK
  <2>4. ASSUME NEW c \in Conn, ConnectedThrows(c) PROVE ConnectionIsRead'
    BY <2>4 DEF ConnectedThrows, Established, ConnectionIsRead, NoLoopYet, TypeOK
  <2> QED
    BY <2>1, <2>2, <2>3, <2>4
    DEF Next, Application, Runtime, vars, Dispatch, LoopReads, LoopEof, LoopError,
        LoopBreaks, Close, Disconnect, Send, WriteSettles, ServerEnds, Connect,
        CallConnect, ConnectCall, ConnectSettles, ConnectedDisconnects, ConnectFails
<1>3. TypeOK /\ NoLoopYet /\ [Next]_vars => NoLoopYet'
  BY NextNoLoopYet
<1> QED
  BY <1>1, <1>2, <1>3, TypeCorrect, PTL DEF Spec

(* An error of conn.close() reaches the listeners.                         *)
CloseIsHeard == "throw" \in OnClose => "close" \notin SilentErrors

(* What close() emits tells that it closed.                                *)
Announced == Emits("disconnected") \/ EmitsErrorOf("close")

LEMMA ClosingTells ==
  ASSUME CloseIsHeard, NEW h, NEW closing \in Closing(h)
  PROVE  LET told == ConnEvent("disconnected", h)
         IN  closing \in {<<told>>, <<Error("close")>>, <<told, Error("close")>>}
<1> DEFINE told == ConnEvent("disconnected", h)
<1>1. \A f \in {<<>>, <<Error("close")>>} : <<told>> \o f \in {<<told>>, <<told, Error("close")>>}
  BY Joined
<1>2. \A silent : EmitError("close", silent) \in {<<>>, <<Error("close")>>}
  BY DEF EmitError
<1>3. "throw" \in OnClose => \A silent \in Silent("close") : EmitError("close", silent) = <<Error("close")>>
  BY DEF CloseIsHeard, Silent, EmitError
<1> QED
  BY <1>1, <1>2, <1>3 DEF Closing

LEMMA ClosingFirst ==
  ASSUME CloseIsHeard, NEW h, NEW closing \in Closing(h)
  PROVE  /\ closing \in Seq({ConnEvent("disconnected", h), Error("close")})
         /\ closing # <<>>
<1> DEFINE told == ConnEvent("disconnected", h)
<1>1. closing \in {<<told>>, <<Error("close")>>, <<told, Error("close")>>}
  BY ClosingTells
<1>2. \A a, b : <<a>> # <<>> /\ <<a, b>> # <<>>
  OBVIOUS
<1> HIDE DEF told
<1>3. closing # <<>>
  BY <1>1, <1>2
<1> QED
  BY <1>3, ClosingSeq

LEMMA Tells ==
  ASSUME NEW h, NEW i \in DOMAIN events',
         events'[i] = ConnEvent("disconnected", h) \/ events'[i] = Error("close")
  PROVE  Announced
<1> QED
  BY DEF Announced, Emits, EmitsErrorOf, ConnEvent, Error

(* When a connection ceases to be this.conn, the step emits an event.      *)
LEMMA ChangeIsAnnounced ==
  ASSUME CloseIsHeard, SerialInv, [Next]_vars, conn # NoConn, conn' # conn
  PROVE  Announced
<1> USE DEF SerialInv
<1>1. \A h : CloseEvents(h) = Closing(h)
  BY DEF CloseEvents
<1>2. ASSUME NEW c \in Conn, NEW h \in Host, Connect(c, h) PROVE Announced
  <2>1. PICK closing \in Closing(h) : events' = Append(closing, ConnEvent("connecting", h))
    BY <1>1, <1>2 DEF Connect, CallConnect, ConnectCall
  <2>2. closing \in Seq({ConnEvent("disconnected", h), Error("close")}) /\ closing # <<>>
    BY ClosingFirst
  <2>3. 1 \in DOMAIN events' /\ events'[1] \in {ConnEvent("disconnected", h), Error("close")}
    BY <2>1, <2>2
  <2> QED
    BY <2>3, Tells
<1>3. ASSUME NEW c \in Conn, ConnectSettles(c) PROVE FALSE
  BY <1>3 DEF ConnectSettles, ConnectSucceeds, ConnectedThrows, ConnectedDisconnects,
              ConnectFails, Established, ConnectsAlone, Connecting
<1>4. CASE events' \in CloseEvents(remoteAddr)
  <2>1. /\ events' \in Seq({ConnEvent("disconnected", remoteAddr), Error("close")})
        /\ events' # <<>>
    BY <1>1, <1>4, ClosingFirst
  <2>2. 1 \in DOMAIN events' /\ events'[1] \in {ConnEvent("disconnected", remoteAddr), Error("close")}
    BY <2>1
  <2> QED
    BY <2>2, Tells
<1>5. ASSUME NEW c \in Conn, NEW silent \in BOOLEAN, LoopError(c, silent) PROVE Announced
  <2>1. PICK closing \in Closing(remoteAddr) : events' = EmitError("read", silent) \o closing
    BY <1>1, <1>5 DEF LoopError
  <2>2. closing \in Seq({ConnEvent("disconnected", remoteAddr), Error("close")}) /\ closing # <<>>
    BY ClosingFirst
  <2>3. EmitError("read", silent) = <<>> \/ EmitError("read", silent) = <<Error("read")>>
    BY DEF EmitError
  <2>4. \E i \in {1, 2} : /\ i \in DOMAIN events'
                         /\ events'[i] \in {ConnEvent("disconnected", remoteAddr), Error("close")}
    BY <2>1, <2>2, <2>3
  <2> QED
    BY <2>4, Tells
<1> QED
  BY <1>2, <1>3, <1>4, <1>5
  DEF Next, Application, Runtime, vars, Dispatch, LoopReads, LoopEof, Disconnect, Send,
      WriteSettles, ServerEnds, Silent

(* A connection never ceases to be this.conn without a "disconnected"      *)
(* event or the error of its close(), unless the runtime calls that error  *)
(* silent.                                                                 *)
THEOREM ChangesAreAnnounced ==
  ASSUME SerialConnect, CloseIsHeard PROVE Spec => NoSilentChange
<1>1. SerialInv /\ [Next]_vars => SerialInv'
  BY NextSerialInv
<1>2. SerialInv /\ [Next]_vars =>
        [conn # NoConn /\ conn' # conn => Emits("disconnected") \/ EmitsErrorOf("close")]_vars
  BY ChangeIsAnnounced DEF Announced
<1> QED
  BY <1>1, <1>2, InitSerialInv, PTL DEF Spec, NoSilentChange
-----------------------------------------------------------------------------
(* state.remoteAddr is the address of the server, also of one that a       *)
(* connect() is waiting for.                                               *)
AddressInv == /\ SerialInv
              /\ conn # NoConn => remoteAddr = host[conn]
              /\ \A c \in Connecting : host[c] = remoteAddr

LEMMA NextAddressInv ==
  ASSUME SerialConnect, AddressInv, [Next]_vars
  PROVE  AddressInv'
<1>1. SerialInv'
  BY NextSerialInv DEF AddressInv
<1> USE DEF AddressInv
<1>2. CASE UNCHANGED <<conn, socket, host, remoteAddr>>
  BY <1>1, <1>2 DEF Connecting
<1>3. CASE Close /\ UNCHANGED <<host, remoteAddr>>
  BY <1>1, <1>3, CloseLeavesNone
<1>4. ASSUME NEW c \in Conn, NEW h \in Host, Connect(c, h) PROVE AddressInv'
  <2>1. Connecting = {} /\ conn' = NoConn /\ remoteAddr' = h /\ host'[c] = h
    BY <1>4 DEF Connect, CallConnect, ConnectCall, SerialInv, TypeOK
  <2>2. \A d \in Conn : socket'[d] = IF d = c THEN "connecting"
                                     ELSE IF d = conn THEN ClosedNow ELSE socket[d]
    BY <1>4 DEF Connect, CallConnect, ConnectCall, CloseSocket, SerialInv, TypeOK
  <2>3. Connecting' = {c}
    BY <2>1, <2>2 DEF Connecting, ClosedNow
  <2> QED
    BY <1>1, <2>1, <2>3
<1>5. ASSUME NEW c \in Conn, ConnectSettles(c) PROVE AddressInv'
  <2>1. c \in Connecting /\ UNCHANGED <<host, remoteAddr>>
    BY <1>5 DEF ConnectSettles, ConnectSucceeds, ConnectedThrows, ConnectedDisconnects,
                ConnectFails, Established, Connecting
  <2>2. Connecting' \subseteq Connecting /\ conn' \in {c, conn, NoConn}
    BY <1>5 DEF ConnectSettles, ConnectSucceeds, ConnectedThrows, ConnectedDisconnects,
                ConnectFails, Connecting, SerialInv, TypeOK
  <2> QED
    BY <1>1, <2>1, <2>2
<1>6. ASSUME NEW c \in Conn, ServerEnds(c) PROVE AddressInv'
  <2>1. Connecting' = Connecting /\ UNCHANGED <<conn, host, remoteAddr>>
    BY <1>6 DEF ServerEnds, Connecting, SerialInv, TypeOK
  <2> QED
    BY <1>1, <2>1
<1> QED
  BY <1>2, <1>3, <1>4, <1>5, <1>6
  DEF Next, Application, Runtime, vars, Dispatch, LoopReads, LoopEof, LoopError,
      LoopBreaks, Disconnect, Send, WriteSettles

(* The host that a "disconnected" event reports.                           *)
Told(h) == \A i \in DOMAIN events' : events'[i].type = "disconnected" => events'[i].host = h

LEMMA ClosingAddress ==
  ASSUME NEW h, NEW closing \in Closing(h), NEW before, NEW after,
         before \in {<<>>, <<Error("read")>>} \cup {<<ConnEvent("connected", g)>> : g \in Host \cup {NoHost}},
         after \in {<<>>, <<Error("read")>>},
         events' = before \o closing \o after
  PROVE  Told(h)
<1> DEFINE told == ConnEvent("disconnected", h)
           Said(e) == e.type = "disconnected" => e.host = h
<1>1. Said(told) /\ Said(Error("close")) /\ Said(Error("read"))
      /\ \A g : Said(ConnEvent("connected", g))
  BY DEF ConnEvent, Error
<1> DEFINE S == {told, Error("close"), Error("read")} \cup {ConnEvent("connected", g) : g \in Host \cup {NoHost}}
<1>2. \A e \in S : Said(e)
  BY <1>1
<1>3. closing \in Seq(S)
  <2>1. told \in S /\ Error("close") \in S
    OBVIOUS
  <2> HIDE DEF S, told
  <2>2. <<>> \in Seq(S) /\ <<told>> \in Seq(S) /\ <<Error("close")>> \in Seq(S)
        /\ <<told, Error("close")>> \in Seq(S)
    BY <2>1
  <2> QED
    BY <2>2, ClosingCases DEF told
<1>4. before \in Seq(S) /\ after \in Seq(S)
  <2>1. /\ Error("read") \in S
        /\ \A g \in Host \cup {NoHost} : ConnEvent("connected", g) \in S
    OBVIOUS
  <2> HIDE DEF S
  <2>2. <<>> \in Seq(S) /\ \A e \in S : <<e>> \in Seq(S)
    OBVIOUS
  <2> QED
    BY <2>1, <2>2
<1> HIDE DEF S
<1>5. events' \in Seq(S)
  BY <1>3, <1>4
<1>6. \A i \in DOMAIN events' : Said(events'[i])
  BY <1>2, <1>5
<1> QED
  BY <1>6 DEF Told

LEMMA AddressIsTold ==
  ASSUME AddressInv, [Next]_vars, NEW i \in DOMAIN events',
         events'[i].type = "disconnected", ~Emits("connecting"), vars' # vars
  PROVE  \E c \in Conn : /\ conn = c \/ (socket[c] = "connecting" /\ socket'[c] = "closed")
                        /\ events'[i].host = host[c]
<1> USE DEF AddressInv
<1>1. ASSUME NEW closing \in CloseEvents(remoteAddr), NEW before \in {<<>>, <<Error("read")>>},
             events' = before \o closing
      PROVE  conn \in Conn /\ events'[i].host = host[conn]
  <2>1. conn # NoConn
    <3>1. CASE conn = NoConn
      <4>1. closing = <<>>
        BY <1>1, <3>1 DEF CloseEvents
      <4>2. events' = <<>> \/ events' = <<Error("read")>>
        BY <1>1, <4>1
      <4> QED
        BY <4>2 DEF Error
    <3> QED
      BY <3>1
  <2>2. closing \in Closing(remoteAddr)
    BY <1>1, <2>1 DEF CloseEvents
  <2>3. Told(remoteAddr)
    <3>1. closing \in Seq({ConnEvent("disconnected", remoteAddr), Error("close")})
      BY <2>2, ClosingSeq
    <3>2. before \o closing = before \o closing \o <<>>
      BY <1>1, <3>1
    <3> QED
      BY <1>1, <2>2, <3>2, ClosingAddress
  <2> QED
    BY <2>1, <2>3 DEF Told, SerialInv, TypeOK
<1>2. CASE events' \in CloseEvents(remoteAddr)
  <2>1. \A closing \in CloseEvents(remoteAddr) : <<>> \o closing = closing
    BY ClosingSeq DEF CloseEvents
  <2> QED
    BY <1>1, <1>2, <2>1
<1>3. ASSUME NEW c \in Conn, NEW silent \in BOOLEAN, LoopError(c, silent)
      PROVE  conn \in Conn /\ events'[i].host = host[conn]
  <2>1. EmitError("read", silent) \in {<<>>, <<Error("read")>>}
    BY DEF EmitError
  <2> QED
    BY <1>1, <1>3, <2>1 DEF LoopError
<1>4. ASSUME NEW c \in Conn, NEW h \in Host, Connect(c, h) PROVE FALSE
  <2>1. PICK closing \in CloseEvents(h) : events' = Append(closing, ConnEvent("connecting", h))
    BY <1>4 DEF Connect, CallConnect, ConnectCall
  <2>2. closing \in Seq({ConnEvent("disconnected", h), Error("close")})
    <3>1. closing \in {<<>>} \/ closing \in Closing(h)
      BY <2>1 DEF CloseEvents
    <3>2. <<>> \in Seq({ConnEvent("disconnected", h), Error("close")})
      OBVIOUS
    <3> QED
      BY <3>1, <3>2, ClosingSeq
  <2>3. Len(events') \in DOMAIN events' /\ events'[Len(events')] = ConnEvent("connecting", h)
    BY <2>1, <2>2
  <2> QED
    BY <2>3 DEF Emits, ConnEvent
<1>5. ASSUME NEW c \in Conn, ConnectSettles(c)
      PROVE  socket[c] = "connecting" /\ socket'[c] = "closed" /\ events'[i].host = host[c]
  <2>1. socket[c] = "connecting" /\ host[c] = remoteAddr
    BY <1>5 DEF ConnectSettles, ConnectSucceeds, ConnectedThrows, ConnectedDisconnects,
                ConnectFails, Established, Connecting
  <2>2. ConnectedDisconnects(c)
    BY <1>5 DEF ConnectSettles, ConnectSucceeds, ConnectedThrows, ConnectFails, EmitError,
                ConnEvent, Error
  <2>3. PICK closing \in Closing(remoteAddr) :
          events' = <<ConnEvent("connected", host[c])>> \o closing \o <<Error("read")>>
    BY <2>2 DEF ConnectedDisconnects
  <2>4. Told(remoteAddr)
    BY <2>3, ClosingAddress DEF SerialInv, TypeOK
  <2>5. socket'[c] = "closed"
    BY <2>2 DEF ConnectedDisconnects, SerialInv, TypeOK
  <2> QED
    BY <2>1, <2>4, <2>5 DEF Told
<1>6. CASE events' \in {<<>>, <<Error("write")>>}
  BY <1>6 DEF Error
<1>7. CASE Dispatch
  BY <1>7 DEF Dispatch, Raw
<1> QED
  BY <1>2, <1>3, <1>4, <1>5, <1>6, <1>7
  DEF Next, Application, Runtime, vars, LoopReads, LoopEof, Disconnect, Send,
      WriteSettles, ServerEnds, Silent, EmitError

(* A "disconnected" event reports the address of the server that was       *)
(* connected, unless connect() is what closed the connection.              *)
THEOREM AddressIsTheServers == ASSUME SerialConnect PROVE Spec => AddressIsServers
<1>1. Init => AddressInv
  BY InitSerialInv DEF Init, AddressInv, Connecting
<1>2. AddressInv /\ [Next]_vars => AddressInv'
  BY NextAddressInv
<1>3. AddressInv /\ [Next]_vars =>
        [\A i \in DOMAIN events' : events'[i].type = "disconnected" /\ ~Emits("connecting") =>
           \E c \in Conn : /\ conn = c \/ (socket[c] = "connecting" /\ socket'[c] = "closed")
                          /\ events'[i].host = host[c]]_vars
  BY AddressIsTold
<1> QED
  BY <1>1, <1>2, <1>3, PTL DEF Spec, AddressIsServers

-----------------------------------------------------------------------------
(* The client with the plugins.                                            *)

(* The application calls connect() once, awaits it, and calls nothing from *)
(* the listener of a line; closing a connection ends its read at once, and *)
(* an error of conn.close() is emitted.                                    *)
OneCaller == /\ SerialConnect /\ PromptClose /\ ~ListenersDisconnect
             /\ ApplicationConnects <= 1
             /\ CloseIsHeard /\ "bytes" \notin OnClose

-----------------------------------------------------------------------------
(* What is heard of a sequence of events that are all in S.                *)
LEMMA Hears ==
  ASSUME NEW S, events' \in Seq(S)
  PROVE  /\ \A type : (\A e \in S : e.type # type) => ~Emits(type)
         /\ (\A e \in S : e.type # "raw") => \A cmd : ~EmitsLine(cmd)
         /\ (\A e \in S : e.type # "raw" /\ (e.type = "error" => e.kind # "connect"))
              => ~HearsFailure
<1>1. \A i \in DOMAIN events' : events'[i] \in S
  OBVIOUS
<1> QED
  BY <1>1 DEF Emits, EmitsErrorOf, EmitsLine, HearsFailure

Closed == {Error("close")} \cup {ConnEvent("disconnected", h) : h \in Host \cup {NoHost}}
Calling == {ConnEvent("connecting", h) : h \in Host}
Opening == {ConnEvent("connected", h) : h \in Host \cup {NoHost}}
Trouble == {Error("read"), Error("write")}
Quiet == Closed \cup Opening \cup Trouble

LEMMA CloseEventsClose ==
  ASSUME NEW h \in Host \cup {NoHost}
  PROVE  /\ Closing(h) \subseteq Seq(Closed)
         /\ CloseEvents(h) \subseteq Seq(Closed)
<1>1. ConnEvent("disconnected", h) \in Closed /\ Error("close") \in Closed
  BY DEF Closed
<1>2. \A e, f \in Closed : <<>> \in Seq(Closed) /\ <<e>> \in Seq(Closed) /\ <<e, f>> \in Seq(Closed)
  OBVIOUS
<1> QED
  BY <1>1, <1>2, ClosingCases DEF CloseEvents

(* A step that opens or closes at most is no failure and no call.          *)
LEMMA QuietHears ==
  ASSUME events' \in Seq(Quiet)
  PROVE  ~Emits("connecting") /\ ~HearsFailure /\ \A cmd : ~EmitsLine(cmd)
<1>1. \A e \in Quiet :
        e.type \in {"disconnected", "connected", "error"} /\ (e.type = "error" => e.kind # "connect")
  BY DEF Quiet, Closed, Opening, Trouble, ConnEvent, Error
<1>2. \A e \in Quiet : e.type # "raw" /\ e.type # "connecting"
  BY <1>1
<1> QED
  BY <1>1, <1>2, Hears

LEMMA CallHears ==
  ASSUME events' \in Seq(Closed \cup Calling)
  PROVE  ~HearsFailure /\ \A cmd : ~EmitsLine(cmd)
<1>1. \A e \in Closed \cup Calling :
        e.type \in {"disconnected", "connecting", "error"} /\ (e.type = "error" => e.kind = "close")
  BY DEF Closed, Calling, ConnEvent, Error
<1>2. \A e \in Closed \cup Calling :
         e.type # "raw" /\ (e.type = "error" => e.kind # "connect")
  BY <1>1
<1> QED
  BY <1>2, Hears

LEMMA SettlingHears ==
  ASSUME events' \in Seq(Quiet \cup {Error("connect")})
  PROVE  ~Emits("connecting") /\ \A cmd : ~EmitsLine(cmd)
<1>1. \A e \in Quiet \cup {Error("connect")} :
        e.type \in {"disconnected", "connected", "error"}
  BY DEF Quiet, Closed, Opening, Trouble, ConnEvent, Error
<1>2. \A e \in Quiet \cup {Error("connect")} :
        e.type # "raw" /\ e.type # "connecting"
  BY <1>1
<1> QED
  BY <1>2, Hears

-----------------------------------------------------------------------------
(* The client as the plugins find it: its invariant; nothing was closed    *)
(* while lines were being emitted; and lines are of a connection.          *)
NoDraining == \A c \in Conn : socket[c] # "draining"
LinesHaveConn == batch # <<>> => conn # NoConn
CInv == SerialInv /\ NoDraining /\ LinesHaveConn

(* What every step of the client means to the plugins ...                  *)
ClientFacts == /\ CInv'
               /\ conn # NoConn /\ conn' # conn => Announced
               /\ \A cmd : EmitsLine(cmd) => conn' = conn /\ conn # NoConn
               /\ HearsFailure => Connecting' = {}

(* ... and every one that calls no connect().                              *)
NoCall == /\ ~Emits("connecting")
          /\ remoteAddr' = remoteAddr
          /\ Connecting' \subseteq Connecting
          /\ Connecting = {} => conn' \in {conn, NoConn}

(* connect(), of the application or of the reconnect plugin.               *)
LEMMA CallFacts ==
  ASSUME OneCaller, CInv, StackEmpty, Connecting = {},
         NEW c \in Conn, NEW h \in Host, CallConnect(c, h)
  PROVE  /\ ClientFacts /\ ~HearsFailure
         /\ remoteAddr' = h /\ Emits("connecting")
<1>1. [Next]_vars
  BY DEF Connect, Next, Application
<1>2. SerialInv'
  BY <1>1, NextSerialInv DEF OneCaller, CInv
<1>3. PICK closing \in CloseEvents(h) :
        /\ conn' = NoConn /\ remoteAddr' = h /\ batch' = batch
        /\ socket' = [CloseSocket EXCEPT ![c] = "connecting"]
        /\ events' = Append(closing, ConnEvent("connecting", h))
  BY DEF CallConnect, ConnectCall
<1>4. NoDraining' /\ LinesHaveConn'
  BY <1>3 DEF CInv, NoDraining, LinesHaveConn, CloseSocket, ClosedNow, StackEmpty, OneCaller
<1>5. events' \in Seq(Closed \cup Calling)
  <2>1. ConnEvent("connecting", h) \in Closed \cup Calling
    BY DEF Calling
  <2>2. closing \in Seq(Closed \cup Calling)
    BY <1>3, CloseEventsClose
  <2> QED
    BY <1>3, <2>1, <2>2
<1>6. ~HearsFailure /\ \A cmd : ~EmitsLine(cmd)
  BY <1>5, CallHears
<1>7. conn # NoConn /\ conn' # conn => Announced
  BY <1>1, ChangeIsAnnounced DEF CInv, OneCaller
<1>8. Emits("connecting")
  <2>1. closing \in Seq(Closed)
    BY <1>3, CloseEventsClose
  <2>2. events'[Len(events')] = ConnEvent("connecting", h) /\ Len(events') \in DOMAIN events'
    BY <1>3, <2>1
  <2> QED
    BY <2>2 DEF Emits, ConnEvent
<1> QED
  BY <1>2, <1>3, <1>4, <1>6, <1>7, <1>8 DEF ClientFacts, CInv

(* A step that only closes.                                                *)
LEMMA CloseFacts ==
  ASSUME OneCaller, CInv, StackEmpty, Close,
         UNCHANGED <<remoteAddr, batch>>,
         events' \in Seq(Quiet), SerialInv', conn # NoConn => Announced
  PROVE  ClientFacts /\ NoCall
<1>1. ~Emits("connecting") /\ ~HearsFailure /\ \A cmd : ~EmitsLine(cmd)
  BY QuietHears
<1>2. conn' = NoConn /\ Connecting' = Connecting
  BY CloseLeavesNone DEF CInv
<1>3. NoDraining' /\ LinesHaveConn'
  BY DEF CInv, NoDraining, LinesHaveConn, Close, CloseSocket, ClosedNow, StackEmpty, OneCaller
<1>4. ClientFacts
  BY <1>1, <1>3 DEF ClientFacts, CInv
<1> QED
  BY <1>1, <1>2, <1>4 DEF NoCall

(* A step that neither opens nor closes.                                   *)
LEMMA PlainFacts ==
  ASSUME CInv, SerialInv', UNCHANGED <<conn, remoteAddr>>, NoDraining', LinesHaveConn',
         Connecting' = Connecting, events' \in Seq(Quiet)
  PROVE  ClientFacts /\ NoCall
<1>1. ~Emits("connecting") /\ ~HearsFailure /\ \A cmd : ~EmitsLine(cmd)
  BY QuietHears
<1> QED
  BY <1>1 DEF ClientFacts, NoCall, CInv

LEMMA QuietEvents ==
  /\ <<>> \in Seq(Quiet)
  /\ \A h \in Host \cup {NoHost} : /\ Closing(h) \subseteq Seq(Quiet)
                                  /\ CloseEvents(h) \subseteq Seq(Quiet)
  /\ \A silent \in BOOLEAN : /\ EmitError("read", silent) \in Seq(Quiet)
                             /\ EmitError("write", silent) \in Seq(Quiet)
<1>1. Error("read") \in Quiet /\ Error("write") \in Quiet
  BY DEF Quiet, Trouble
<1>2. Seq(Closed) \subseteq Seq(Quiet)
  BY DEF Quiet
<1>3. \A h \in Host \cup {NoHost} : /\ Closing(h) \subseteq Seq(Quiet)
                                  /\ CloseEvents(h) \subseteq Seq(Quiet)
  BY <1>2, CloseEventsClose
<1>4. \A e \in Quiet : <<>> \in Seq(Quiet) /\ <<e>> \in Seq(Quiet)
  OBVIOUS
<1> QED
  BY <1>1, <1>3, <1>4 DEF EmitError

(* A connect() that was awaited settles.                                   *)
LEMMA SettleFacts ==
  ASSUME OneCaller, CInv, NEW c \in Conn, ConnectSettles(c)
  PROVE  ClientFacts /\ NoCall
<1>1. SerialInv'
  BY NextSerialInv DEF OneCaller, CInv, Next, Runtime
<1>2. /\ c \in Connecting /\ Connecting = {c} /\ conn = NoConn /\ batch' = batch /\ StackEmpty
      /\ remoteAddr' = remoteAddr
  BY DEF ConnectSettles, ConnectSucceeds, ConnectedThrows, ConnectedDisconnects,
         ConnectFails, Established, Connecting, CInv, SerialInv, ConnectsAlone
<1>3. \E s \in {"open", "closed", "failed"} : socket' = [socket EXCEPT ![c] = s]
  BY DEF ConnectSettles, ConnectSucceeds, ConnectedThrows, ConnectedDisconnects, ConnectFails
<1>4. NoDraining' /\ Connecting' = {}
  BY <1>2, <1>3 DEF CInv, NoDraining, Connecting, SerialInv, TypeOK
<1>5. events' \in Seq(Quiet \cup {Error("connect")})
  <2> DEFINE S == Quiet \cup {Error("connect")}
  <2>1. /\ ConnEvent("connected", host[c]) \in S /\ Error("connect") \in S /\ Error("read") \in S
        /\ Closing(remoteAddr) \subseteq Seq(S)
    <3>1. Seq(Quiet) \subseteq Seq(S)
      OBVIOUS
    <3>2. Closing(remoteAddr) \subseteq Seq(S)
      BY <3>1, QuietEvents DEF CInv, SerialInv, TypeOK
    <3> QED
      BY <3>2 DEF Quiet, Opening, Trouble, CInv, SerialInv, TypeOK
  <2> HIDE DEF S
  <2>2. /\ <<>> \in Seq(S)
        /\ \A e \in S : <<e>> \in Seq(S)
        /\ \A e, f \in S : <<e, f>> \in Seq(S)
        /\ \A e, f \in S : \A t \in Seq(S) : <<e>> \o t \o <<f>> \in Seq(S)
    OBVIOUS
  <2>3. events' \in Seq(S)
    BY <2>1, <2>2 DEF ConnectSettles, ConnectSucceeds, ConnectedThrows,
                      ConnectedDisconnects, ConnectFails, EmitError
  <2> QED
    BY <2>3 DEF S
<1>6. ~Emits("connecting") /\ \A cmd : ~EmitsLine(cmd)
  BY <1>5, SettlingHears
<1>7. LinesHaveConn'
  BY <1>2 DEF LinesHaveConn, StackEmpty
<1> QED
  BY <1>1, <1>2, <1>4, <1>6, <1>7 DEF ClientFacts, NoCall, CInv

(* The lines of a read are those of this.conn.                             *)
LEMMA DispatchFacts ==
  ASSUME OneCaller, CInv, Dispatch
  PROVE  ClientFacts /\ NoCall
<1>1. SerialInv'
  BY NextSerialInv DEF OneCaller, CInv, Next
<1>2. /\ conn # NoConn /\ UNCHANGED <<conn, socket, remoteAddr>>
      /\ events' = <<Raw(Head(batch))>>
  BY DEF Dispatch, CInv, LinesHaveConn
<1>3. Connecting' = {} /\ Connecting = {}
  BY <1>2 DEF Connecting, CInv, SerialInv, ConnectsAlone
<1>4. ~Emits("connecting")
  BY <1>2 DEF Emits, Raw
<1> QED
  BY <1>1, <1>2, <1>3, <1>4 DEF ClientFacts, NoCall, CInv, NoDraining, LinesHaveConn

(* Every other step of the client that is not a call.                      *)
LEMMA RuntimeFacts ==
  ASSUME OneCaller, CInv, NEW c \in Conn, RuntimeStep(c)
  PROVE  ClientFacts /\ NoCall
<1>1. [Next]_vars
  BY DEF RuntimeStep, Next, Runtime
<1>2. SerialInv'
  BY <1>1, NextSerialInv DEF OneCaller, CInv
<1>3. remoteAddr \in Host \cup {NoHost}
  BY DEF CInv, SerialInv, TypeOK
<1>4. \A silent \in Silent("read") \cup Silent("write") : silent \in BOOLEAN
  BY DEF Silent
<1>5. CASE ConnectSettles(c)
  BY <1>5, SettleFacts
<1>6. ASSUME LoopBreaks(c), StackEmpty, UNCHANGED <<remoteAddr, batch>>, events' \in Seq(Quiet)
      PROVE  ClientFacts /\ NoCall
  <2>1. Close
    BY <1>6 DEF LoopBreaks
  <2>2. conn' = NoConn
    BY <2>1 DEF Close
  <2>3. conn # NoConn => Announced
    BY <1>1, <2>2, ChangeIsAnnounced DEF CInv, OneCaller
  <2> QED
    BY <1>2, <1>6, <2>1, <2>3, CloseFacts
<1>7. CASE LoopEof(c)
  BY <1>3, <1>6, <1>7, QuietEvents DEF LoopEof
<1>8. ASSUME NEW silent \in Silent("read"), LoopError(c, silent)
      PROVE  ClientFacts /\ NoCall
  <2>1. EmitError("read", silent) \in Seq(Quiet) /\ CloseEvents(remoteAddr) \subseteq Seq(Quiet)
    BY <1>3, <1>4, QuietEvents
  <2>2. events' \in Seq(Quiet)
    BY <1>8, <2>1 DEF LoopError
  <2> QED
    BY <1>6, <1>8, <2>2 DEF LoopError
<1>9. ASSUME UNCHANGED <<conn, remoteAddr, socket>>, LinesHaveConn', events' \in Seq(Quiet)
      PROVE  ClientFacts /\ NoCall
  <2>1. NoDraining' /\ Connecting' = Connecting
    BY <1>9 DEF CInv, NoDraining, Connecting
  <2> QED
    BY <1>2, <1>9, <2>1, PlainFacts
<1>10. ASSUME NEW cmds \in Lines, NEW rest \in BOOLEAN, LoopReads(c, cmds, rest)
       PROVE  ClientFacts /\ NoCall
  <2>1. c \in Alive
    BY <1>10 DEF LoopReads, Readable, OneCaller, CInv, NoDraining
  <2>2. conn = c /\ c # NoConn
    BY <2>1, ClientAssumption DEF CInv, SerialInv, OneConnection
  <2> QED
    BY <1>9, <1>10, <2>2, QuietEvents DEF LoopReads, LinesHaveConn
<1>11. ASSUME NEW failed \in BOOLEAN, NEW silent \in Silent("write"), WriteSettles(c, failed, silent)
       PROVE  ClientFacts /\ NoCall
  BY <1>4, <1>9, <1>11, QuietEvents DEF WriteSettles, CInv, LinesHaveConn
<1>12. CASE ServerEnds(c)
  <2>1. NoDraining' /\ Connecting' = Connecting /\ LinesHaveConn'
    BY <1>12 DEF ServerEnds, CInv, NoDraining, Connecting, LinesHaveConn, SerialInv, TypeOK
  <2> QED
    BY <1>2, <1>12, <2>1, PlainFacts, QuietEvents DEF ServerEnds
<1> QED
  BY <1>5, <1>7, <1>8, <1>10, <1>11, <1>12 DEF RuntimeStep

(* disconnect(), of the application ...                                    *)
LEMMA DisconnectFacts ==
  ASSUME OneCaller, CInv, StackEmpty, Disconnect
  PROVE  ClientFacts /\ NoCall
<1>1. [Next]_vars
  BY DEF Next, Application
<1>2. SerialInv' /\ Close /\ UNCHANGED <<remoteAddr, batch>>
  BY <1>1, NextSerialInv DEF OneCaller, CInv, Disconnect
<1>3. conn # NoConn => Announced
  BY <1>1, <1>2, ChangeIsAnnounced DEF CInv, Close, OneCaller
<1>4. events' \in Seq(Quiet)
  BY QuietEvents DEF Disconnect, CInv, SerialInv, TypeOK
<1> QED
  BY <1>2, <1>3, <1>4, CloseFacts

(* ... or, with an error, of the ping timeout.                             *)
LEMMA TimesOutFacts ==
  ASSUME OneCaller, CInv, EmitPingTimeout
  PROVE  ClientFacts /\ NoCall /\ ~Registers
<1>1. PICK closing \in CloseEvents(remoteAddr) :
        /\ StackEmpty /\ Close /\ UNCHANGED <<remoteAddr, host, loop, chunk, batch, writing>>
        /\ events' = Append(closing, Error("read"))
  BY DEF EmitPingTimeout
<1>2. remoteAddr \in Host \cup {NoHost}
  BY DEF CInv, SerialInv, TypeOK
<1>3. Error("read") \in Event /\ Error("read") \in Quiet
  BY DEF Error, Event, Quiet, Trouble
<1>4. events' \in Seq(Event) /\ events' \in Seq(Quiet)
  BY <1>1, <1>2, <1>3, CloseTypes, QuietEvents DEF CInv, SerialInv
<1>5. SerialInv'
  <2>1. TypeOK'
    BY <1>1, <1>4, CloseLeavesNone DEF CInv, SerialInv, TypeOK
  <2>2. OneConnection' /\ ConnectsAlone'
    BY <1>1, CloseLeavesNone DEF CInv, SerialInv, OneConnection, ConnectsAlone
  <2> QED
    BY <2>1, <2>2 DEF SerialInv
<1>6. conn # NoConn => Announced
  <2>1. conn # NoConn => closing \in Closing(remoteAddr)
    BY <1>1 DEF CloseEvents
  <2>2. conn # NoConn =>
          closing # <<>> /\ closing \in Seq({ConnEvent("disconnected", remoteAddr), Error("close")})
    BY <2>1, ClosingFirst DEF OneCaller
  <2>3. conn # NoConn =>
          1 \in DOMAIN events' /\ events'[1] \in {ConnEvent("disconnected", remoteAddr), Error("close")}
    BY <1>1, <2>2
  <2> QED
    BY <2>3, Tells
<1>7. ~Registers
  BY <1>4, QuietHears DEF Registers
<1> QED
  BY <1>1, <1>4, <1>5, <1>6, <1>7, CloseFacts

(* The ping itself.                                                        *)
LEMMA SendFacts ==
  ASSUME OneCaller, CInv, StackEmpty, Send
  PROVE  ClientFacts /\ NoCall /\ (conn # NoConn => events' = <<>>)
<1>1. SerialInv'
  BY NextSerialInv DEF OneCaller, CInv, Next, Application
<1>2. UNCHANGED <<conn, remoteAddr, socket, batch>>
  BY DEF Send
<1>3. EmitError("write", FALSE) = <<Error("write")>>
  BY DEF EmitError
<1>4. events' \in Seq(Quiet)
  BY <1>3, QuietEvents DEF Send
<1>5. NoDraining' /\ Connecting' = Connecting /\ LinesHaveConn'
  BY <1>2 DEF CInv, NoDraining, Connecting, LinesHaveConn
<1> QED
  BY <1>1, <1>2, <1>4, <1>5, PlainFacts DEF Send

-----------------------------------------------------------------------------
(* ping_timeout: what the functions of the plugin make of its variables.   *)
Sound(t) == /\ ~(t.server /\ t.timeout)
            /\ t.started <=> (t.server \/ t.timeout)
PingState == [started : BOOLEAN, server : BOOLEAN, timeout : BOOLEAN]

LEMMA PingFunctions ==
  ASSUME NEW t \in PingState, Sound(t)
  PROVE  /\ StartPingTimer(t) \in PingState /\ Sound(StartPingTimer(t))
         /\ Restart(t) \in PingState /\ Sound(Restart(t))
         /\ ~Restart(t).timeout /\ (Restart(t).started => t.started)
         /\ StopPingTimer(t) \in PingState /\ Sound(StopPingTimer(t))
         /\ ~StopPingTimer(t).started /\ ~StopPingTimer(t).timeout
<1>1. PICK a, b, c \in BOOLEAN : t = [started |-> a, server |-> b, timeout |-> c]
  BY DEF PingState
<1>2. CASE t.started
  BY <1>1, <1>2 DEF StartPingTimer, StopPingTimer, Restart, PingState, Sound
<1>3. CASE ~t.started
  BY <1>1, <1>3 DEF StartPingTimer, StopPingTimer, Restart, PingState, Sound
<1> QED
  BY <1>2, <1>3

PingInv == /\ Timers \in PingState /\ Sound(Timers)
           /\ started => conn # NoConn
           /\ pingTimeout => pinged = conn

(* The listeners hear that a connection ends, and stop; only RPL_WELCOME,  *)
(* a line of this.conn, starts the timers.                                 *)
LEMMA PingListenersKeep ==
  ASSUME PingInv, PingListeners,
         conn # NoConn /\ conn' # conn => Announced,
         EmitsLine("welcome") => conn' = conn /\ conn # NoConn
  PROVE  PingInv'
<1>1. Timers \in PingState /\ Sound(Timers) /\ Timers.started = started /\ Timers.timeout = pingTimeout
  BY DEF PingInv, Timers
<1>2. PICK t \in PingState :
        /\ Become(t) /\ Sound(t)
        /\ Announced => ~t.started
        /\ t.started => started \/ EmitsLine("welcome")
        /\ t.timeout => pingTimeout
  <2>1. LET t == StopPingTimer(Timers)
        IN  t \in PingState /\ Sound(t) /\ ~t.started /\ ~t.timeout
    BY <1>1, PingFunctions
  <2>6. Announced => Emits("disconnected") \/ EmitsError
    BY DEF Announced, Emits, EmitsErrorOf, EmitsError
  <2>2. CASE Emits("disconnected") \/ EmitsError
    BY <2>1, <2>2 DEF PingListeners, React
  <2>3. CASE ~(Emits("disconnected") \/ EmitsError) /\ EmitsLine("welcome")
    <3>1. StartPingTimer(Timers) \in PingState /\ Sound(StartPingTimer(Timers))
      BY <1>1, PingFunctions
    <3>2. LET t == Restart(StartPingTimer(Timers))
          IN  t \in PingState /\ Sound(t) /\ ~t.timeout
      BY <3>1, PingFunctions
    <3> QED
      BY <2>3, <2>6, <3>2 DEF PingListeners, React
  <2>4. CASE ~(Emits("disconnected") \/ EmitsError) /\ ~EmitsLine("welcome") /\ Emits("raw")
    <3>1. LET t == Restart(Timers)
          IN  t \in PingState /\ Sound(t) /\ ~t.timeout /\ (t.started => started)
      BY <1>1, PingFunctions
    <3> QED
      BY <2>4, <2>6, <3>1 DEF PingListeners, React
  <2>5. CASE ~(Emits("disconnected") \/ EmitsError) /\ ~EmitsLine("welcome") /\ ~Emits("raw")
    BY <1>1, <2>5, <2>6 DEF PingListeners, React
  <2> QED
    BY <2>2, <2>3, <2>4, <2>5, <2>6
<1>3. started' = t.started /\ pingServer' = t.server /\ pingTimeout' = t.timeout /\ pinged' = pinged
  BY <1>2 DEF Become, PingListeners
<1>4. Timers' \in PingState /\ Sound(Timers)'
  BY <1>2, <1>3 DEF Timers, PingState, Sound
<1>5. started' => conn' # NoConn
  BY <1>2, <1>3 DEF PingInv
<1>6. pingTimeout' => pinged' = conn'
  BY <1>2, <1>3 DEF PingInv, Sound, Timers
<1> QED
  BY <1>4, <1>5, <1>6 DEF PingInv

LEMMA PingServerKeeps ==
  ASSUME OneCaller, CInv, PingInv, PingServer
  PROVE  PingInv' /\ ClientFacts /\ NoCall /\ ~Registers
<1>1. started /\ ~pingTimeout /\ conn # NoConn
  BY DEF PingInv, Sound, Timers, PingServer
<1>2. ClientFacts /\ NoCall /\ events' = <<>> /\ conn' = conn
  BY <1>1, SendFacts DEF PingServer, Send
<1>3. ~EmitsError /\ ~Registers
  BY <1>2 DEF EmitsError, Emits, EmitsLine, Registers
<1>4. started' = started /\ ~pingServer' /\ pingServer' \in BOOLEAN /\ pingTimeout' = TRUE /\ pinged' = conn
  BY <1>3 DEF PingServer, Become, Timers
<1> QED
  BY <1>1, <1>2, <1>3, <1>4 DEF PingInv, Sound, Timers, PingState

LEMMA EmitPingTimeoutKeeps ==
  ASSUME PingInv, EmitPingTimeout
  PROVE  PingInv' /\ pinged # NoConn /\ conn = pinged
<1>1. started = TRUE /\ pingTimeout /\ conn # NoConn /\ pinged = conn
  BY DEF PingInv, Sound, Timers, PingState, EmitPingTimeout
<1>2. started' = FALSE /\ pingServer' = FALSE /\ pingTimeout' = FALSE
  BY <1>1 DEF EmitPingTimeout, Become, StopPingTimer, Timers
<1> QED
  BY <1>1, <1>2 DEF PingInv, Sound, Timers, PingState

-----------------------------------------------------------------------------
(* reconnect: before the first connect() nothing has happened ...          *)
Fresh == /\ conn = NoConn /\ batch = <<>> /\ writing = {}
         /\ \A c \in Conn : socket[c] = "unused" /\ loop[c] = "none"
         /\ timer = NoTimer /\ currentAttempts = 0 /\ reconnects = 0

AskedInv == /\ asked \in Nat
            /\ asked = 0 => Fresh
            /\ asked # 0 => remoteAddr \in Host

(* ... the timer runs while no connect() is awaited, with attempts left ... *)
TimerInv == timer # NoTimer => Connecting = {} /\ timer.addr \in Host

(* ... and an attempt of the plugin is counted by "connecting".            *)
Budget == Attempts # 0 => /\ currentAttempts \in 0 .. Attempts /\ reconnects \in Nat
                          /\ reconnects <= currentAttempts
                          /\ registered = NoConn /\ asked # 0 => reconnects + 1 <= currentAttempts
                          /\ asked = 0 => reconnects = 0
                          /\ timer # NoTimer => currentAttempts < Attempts

LEMMA ListenersKeep ==
  ASSUME remoteAddr \in Host, TimerInv, Budget, ClientFacts, NoCall, ReconnectListeners,
         asked # 0, asked' = asked, registered' = NoConn => registered = NoConn /\ ~Registers
  PROVE  TimerInv' /\ Budget'
<1>1. CASE HearsFailure
  <2>1. timer' # NoTimer => timer'.addr = remoteAddr' /\ currentAttempts # Attempts
    BY <1>1 DEF ReconnectListeners, Heard, DelayReconnect
  <2>2. TimerInv'
    BY <1>1, <2>1 DEF TimerInv, ClientFacts, NoCall
  <2>3. Budget'
    BY <2>1, ReconnectAssumption DEF Budget, NoCall, ReconnectListeners, Heard
  <2> QED
    BY <2>2, <2>3
<1>2. CASE ~HearsFailure
  <2>1. timer' = timer
    BY <1>2 DEF ReconnectListeners, Heard
  <2>2. TimerInv'
    BY <2>1 DEF TimerInv, NoCall
  <2>3. Budget'
    BY <2>1, ReconnectAssumption DEF Budget, NoCall, ReconnectListeners, Heard
  <2> QED
    BY <2>2, <2>3
<1> QED
  BY <1>1, <1>2

(* A new client does nothing before it is asked to.                        *)
LEMMA FreshStays ==
  ASSUME OneCaller, CInv, AskedInv, asked = 0, Others, asked' = asked
  PROVE  ClientFacts /\ Fresh'
<1>1. Fresh /\ asked \in Nat
  BY DEF AskedInv
<1>2. ApplicationStep
  BY <1>1 DEF Others, Listeners, Unasked, Fresh, Dispatch, RuntimeStep, ConnectSettles, ConnectSucceeds, Established,
              ConnectedThrows, ConnectedDisconnects, ConnectFails, LoopReads, LoopEof, LoopError,
              WriteSettles, ServerEnds
<1>3. Disconnect
  BY <1>1, <1>2 DEF ApplicationStep
<1>4. ClientFacts
  BY <1>1, <1>3, DisconnectFacts DEF Fresh, StackEmpty
<1>5. /\ conn' = NoConn /\ batch' = <<>> /\ writing' = {} /\ events' = <<>>
      /\ \A c \in Conn : socket'[c] = "unused" /\ loop'[c] = "none"
  BY <1>1, <1>3, ClientAssumption DEF Disconnect, Fresh, Close, CloseSocket, CloseEvents
<1>6. timer' = NoTimer /\ currentAttempts' = 0 /\ reconnects' = 0
  BY <1>1, <1>5 DEF Fresh, Others, ReconnectListeners, Heard, Emits, EmitsLine, EmitsErrorOf, Registers, HearsFailure, Listeners, Unasked
<1> QED
  BY <1>4, <1>5, <1>6 DEF Fresh

-----------------------------------------------------------------------------
SupervisionInv == CInv /\ AskedInv /\ TimerInv /\ Budget /\ PingInv

LEMMA InitSupervisionInv == SupervisionInit => SupervisionInv
<1> SUFFICES ASSUME SupervisionInit PROVE SupervisionInv
  OBVIOUS
<1> USE DEF SupervisionInit
<1>1. CInv
  BY InitSerialInv DEF Init, CInv, NoDraining, LinesHaveConn
<1>2. AskedInv /\ TimerInv
  BY DEF AskedInv, Fresh, TimerInv, Init, ReconnectInit
<1>3. Budget
  BY ReconnectAssumption DEF Budget, ReconnectInit
<1>4. PingInv
  BY DEF PingInv, PingInit, Timers, PingState, Sound
<1> QED
  BY <1>1, <1>2, <1>3, <1>4 DEF SupervisionInv

(* The step of the client, the listeners of both plugins included.         *)
LEMMA OthersKeep ==
  ASSUME OneCaller, SupervisionInv, Others
  PROVE  SupervisionInv'
<1>1. ReconnectListeners /\ PingListeners
  BY DEF Others, Listeners, Unasked
<1>2. SUFFICES ClientFacts /\ AskedInv' /\ TimerInv' /\ Budget'
  <2>1. ASSUME ClientFacts PROVE PingInv'
    BY <1>1, <2>1, PingListenersKeep DEF ClientFacts, SupervisionInv
  <2> QED
    BY <2>1 DEF SupervisionInv, ClientFacts
<1>3. CASE asked' # asked
  <2>1. PICK c \in Conn, h \in Host : Connect(c, h)
    BY <1>3 DEF Others, Listeners, Unasked, ApplicationStep
  <2>2. asked = 0 /\ asked' = 1 /\ Fresh
    BY <1>3, SupervisionAssumption DEF Others, Listeners, Unasked, ApplicationStep, OneCaller, SupervisionInv, AskedInv
  <2>3. StackEmpty /\ Connecting = {} /\ CallConnect(c, h)
    BY <2>1, <2>2 DEF Connect, OneCaller, Fresh, StackEmpty, Connecting
  <2>4. ClientFacts /\ ~HearsFailure /\ remoteAddr' = h
    BY <2>3, CallFacts DEF SupervisionInv
  <2>5. timer' = NoTimer /\ reconnects' = 0 /\ currentAttempts' = 1
    BY <1>1, <2>2, <2>3, <2>4, CallFacts DEF Fresh, ReconnectListeners, Heard, SupervisionInv
  <2>6. AskedInv' /\ TimerInv'
    BY <2>2, <2>4, <2>5 DEF AskedInv, TimerInv
  <2>7. Budget'
    BY <2>2, <2>5, ReconnectAssumption DEF Budget
  <2> QED
    BY <2>4, <2>6, <2>7
<1>4. CASE asked' = asked /\ asked = 0
  <2>1. ClientFacts /\ Fresh'
    BY <1>4, FreshStays DEF SupervisionInv
  <2>2. AskedInv' /\ TimerInv'
    BY <1>4, <2>1 DEF AskedInv, TimerInv, Fresh
  <2>3. Budget'
    BY <1>4, <2>1, ReconnectAssumption DEF Budget, Fresh
  <2> QED
    BY <2>1, <2>2, <2>3
<1>5. CASE asked' = asked /\ asked # 0
  <2>1. \/ StackEmpty /\ Disconnect
        \/ Dispatch
        \/ \E c \in Conn : RuntimeStep(c)
    BY <1>5 DEF Others, Listeners, Unasked, ApplicationStep, OneCaller, SupervisionInv, AskedInv
  <2>2. ClientFacts /\ NoCall
    BY <2>1, DisconnectFacts, DispatchFacts, RuntimeFacts DEF SupervisionInv
  <2>5. registered' = NoConn => registered = NoConn /\ ~Registers
    BY <1>1, <2>2 DEF PingListeners, ClientFacts, Registers
  <2>3. TimerInv' /\ Budget'
    BY <1>1, <1>5, <2>2, <2>5, ListenersKeep DEF SupervisionInv, AskedInv
  <2>4. AskedInv'
    BY <1>5, <2>2 DEF SupervisionInv, AskedInv, NoCall
  <2> QED
    BY <2>2, <2>3, <2>4
<1> QED
  BY <1>3, <1>4, <1>5

(* The timer of reconnect.                                                 *)
LEMMA ReconnectsKeep ==
  ASSUME OneCaller, SupervisionInv, NEW c \in Conn, Reconnects(c)
  PROVE  SupervisionInv'
<1>1. timer # NoTimer /\ StackEmpty /\ CallConnect(c, timer.addr)
  BY DEF Reconnects, Fire, TimerMayFire
<1>2. Connecting = {} /\ timer.addr \in Host
  BY <1>1 DEF SupervisionInv, TimerInv
<1>3. ClientFacts /\ ~HearsFailure /\ remoteAddr' \in Host /\ Emits("connecting")
  BY <1>1, <1>2, CallFacts DEF SupervisionInv
<1>4. /\ timer' = NoTimer /\ reconnects' = reconnects + 1
      /\ currentAttempts' = currentAttempts + 1
  BY <1>3 DEF Reconnects, Fire, Heard
<1>5. asked # 0 /\ asked' = asked
  BY <1>1 DEF SupervisionInv, AskedInv, Fresh, Reconnects
<1>6. PingInv'
  BY <1>3, PingListenersKeep DEF ClientFacts, SupervisionInv, Reconnects
<1>8. registered' = NoConn => registered = NoConn
  BY <1>3 DEF Reconnects, PingListeners, ClientFacts
<1>7. Budget'
  BY <1>1, <1>4, <1>5, <1>8, ReconnectAssumption DEF SupervisionInv, Budget
<1> QED
  BY <1>3, <1>4, <1>5, <1>6, <1>7 DEF SupervisionInv, ClientFacts, AskedInv, TimerInv

LEMMA SupervisionStep ==
  ASSUME OneCaller, SupervisionInv, [SupervisionNext]_allVars
  PROVE  SupervisionInv'
<1> USE DEF SupervisionInv
<1>1. ASSUME UNCHANGED <<vars, reconnectVars, asked, started, pingServer, pingTimeout,
                          registered, pinged>>
      PROVE  SupervisionInv'
  <2>1. CInv'
    BY <1>1 DEF CInv, SerialInv, TypeOK, OneConnection, ConnectsAlone, Alive, Connecting,
                NoDraining, LinesHaveConn, vars
  <2>2. AskedInv' /\ TimerInv' /\ Budget'
    BY <1>1 DEF AskedInv, Fresh, TimerInv, Budget, Connecting, vars, reconnectVars
  <2>3. PingInv'
    BY <1>1 DEF PingInv, Timers, vars
  <2> QED
    BY <2>1, <2>2, <2>3
<1>2. CASE UNCHANGED allVars
  BY <1>1, <1>2 DEF allVars, pingVars
<1>3. CASE Others
  BY <1>3, OthersKeep
<1>4. ASSUME started, ClientFacts, NoCall, PingInv', ReconnectListeners,
             UNCHANGED <<asked, registered>>, ~Registers
      PROVE  SupervisionInv'
  <2>1. asked # 0
    BY <1>4 DEF AskedInv, Fresh, PingInv
  <2>2. remoteAddr \in Host
    BY <2>1 DEF AskedInv
  <2>3. TimerInv' /\ Budget'
    BY <1>4, <2>1, <2>2, ListenersKeep
  <2> QED
    BY <1>4, <2>1, <2>2, <2>3 DEF ClientFacts, NoCall, AskedInv
<1>5. CASE Pings
  BY <1>4, <1>5, PingServerKeeps DEF Pings, PingServer, PingInv, Sound, Timers
<1>6. CASE TimesOut
  BY <1>4, <1>6, EmitPingTimeoutKeeps, TimesOutFacts DEF TimesOut, EmitPingTimeout, PingInv, Sound, Timers
<1>7. ASSUME NEW c \in Conn, Silences(c) PROVE SupervisionInv'
  BY <1>1, <1>7 DEF Silences, GoesMute
<1>8. ASSUME NEW c \in Conn, Reconnects(c) PROVE SupervisionInv'
  BY <1>8, ReconnectsKeep
<1> QED
  BY <1>2, <1>3, <1>5, <1>6, <1>7, <1>8 DEF SupervisionNext

(* The timers of ping_timeout are armed for the connection that is there,  *)
(* and one of them exactly while the plugin is started.                    *)
THEOREM PingTimersFollow == ASSUME OneCaller PROVE SupervisionSpec => []TimersFollowStarted
<1>1. SupervisionInv /\ [SupervisionNext]_allVars => SupervisionInv'
  BY SupervisionStep
<1>2. SupervisionInv => TimersFollowStarted
  BY DEF SupervisionInv, PingInv, Sound, Timers, PingState, TimersFollowStarted
<1> QED
  BY <1>1, <1>2, InitSupervisionInv, PTL DEF SupervisionSpec

(* With a limit above 0 the reconnect plugin calls connect() at most that  *)
(* often between two registrations, and once less before the first.        *)
THEOREM PluginGivesUp ==
  ASSUME OneCaller, Attempts # 0 PROVE SupervisionSpec => []GivesUp
<1>1. SupervisionInv /\ [SupervisionNext]_allVars => SupervisionInv'
  BY SupervisionStep
<1>2. SupervisionInv => GivesUp
  BY ReconnectAssumption DEF SupervisionInv, Budget, GivesUp
<1> QED
  BY <1>1, <1>2, InitSupervisionInv, PTL DEF SupervisionSpec

(* A ping timeout closes the connection on which the ping was sent.        *)
THEOREM PingedIsLeft == ASSUME OneCaller PROVE SupervisionSpec => TimeoutHitsPinged
<1>1. SupervisionInv /\ [SupervisionNext]_allVars => SupervisionInv'
  BY SupervisionStep
<1>2. SupervisionInv /\ [SupervisionNext]_allVars =>
        [TimesOut => pinged # NoConn /\ conn = pinged]_allVars
  BY EmitPingTimeoutKeeps DEF SupervisionInv, TimesOut
<1> QED
  BY <1>1, <1>2, InitSupervisionInv, PTL DEF SupervisionSpec, TimeoutHitsPinged
=============================================================================
