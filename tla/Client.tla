------------------------------- MODULE Client -------------------------------
(***************************************************************************)
(* The connection life cycle of core/client.ts: connect(), the read loop,  *)
(* close(), send() and the dispatching of what was read.  The program is   *)
(* one JavaScript thread, so an action is what runs between two awaits; a  *)
(* connect(), a read or a write that is awaited completes in an action of  *)
(* its own, in any order with the rest.                                    *)
(*                                                                         *)
(* Plugins and applications see the client through the events it emits:    *)
(* `events` is the sequence emitted by the last step, and the modules that *)
(* model plugins react to events'.  Errors have a listener, as the plugins *)
(* require: emit() would throw one that nobody listens to.                 *)
(***************************************************************************)
EXTENDS Naturals, Sequences

CONSTANTS
  Conn,           \* the connections, one for each call of connect()
  NoConn,         \* null
  Host,           \* the servers connect() may be given
  NoHost,         \* the empty remoteAddr of a new client
  Command,        \* what the lines sent by a server may be
  MaxLines,       \* bound: complete lines in one read
  SerialConnect,  \* does the caller await connect() before calling it again?
  PromptClose,    \* does closing a connection end its read at once?
  SilentErrors,   \* the kinds of error the runtime may call silent
  OnConnected,    \* what "connected" listeners may do besides returning
  OnClose         \* what close() may meet besides closing

ASSUME ClientAssumption == /\ NoConn \notin Conn
                           /\ NoHost \notin Host
                           /\ MaxLines \in Nat
                           /\ SerialConnect \in BOOLEAN
                           /\ PromptClose \in BOOLEAN
                           /\ SilentErrors \subseteq {"connect", "read", "write", "close"}
                           /\ OnConnected \subseteq {"throw", "disconnect"}
                           /\ OnClose \subseteq {"throw", "listener", "bytes"}

VARIABLES
  conn,           \* this.conn
  remoteAddr,     \* this.state.remoteAddr
  host,           \* the hostname argument of each connect()
  socket,         \* the state of each connection
  loop,           \* how far the loop(conn) of each connection is
  chunk,          \* the connections whose bytes are in this.chunk
  batch,          \* the lines of the last read that are still to be emitted
  writing,        \* the connections with an unsettled write
  events          \* the events emitted by the last step

vars == <<conn, remoteAddr, host, socket, loop, chunk, batch, writing, events>>

(* "ended": the server has closed or lost it, this side has not noticed.   *)
(* "draining": closed here while the runtime may hold bytes of it that the *)
(* loop will still read.                                                   *)
SocketState == {"unused", "connecting", "failed", "open", "ended", "closed", "draining"}
LoopState == {"none", "reading", "over"}
Alive == {c \in Conn : socket[c] \in {"open", "ended"}}
Shut == {c \in Conn : socket[c] \in {"closed", "draining"}}
Connecting == {c \in Conn : socket[c] = "connecting"}
Readable == Alive \cup (IF PromptClose THEN {c \in Conn : socket[c] = "draining"} ELSE Shut)

(* A line and the connections its bytes came from.                         *)
Line == [command : Command, from : SUBSET Conn]

Event == [type : {"connecting", "connected", "disconnected"}, host : Host \cup {NoHost}]
         \cup [type : {"error"}, kind : {"connect", "read", "write", "close"}]
         \cup [type : {"raw"}, line : Line]

ConnEvent(type, h) == [type |-> type, host |-> h]
Error(kind) == [type |-> "error", kind |-> kind]
Raw(line) == [type |-> "raw", line |-> line]

(* What a listener hears in this step.                                     *)
Emits(type) == \E i \in DOMAIN events' : events'[i].type = type
EmitsErrorOf(kind) == \E i \in DOMAIN events' :
                         events'[i].type = "error" /\ events'[i].kind = kind
EmitsLine(cmd) == \E i \in DOMAIN events' :
                     events'[i].type = "raw" /\ events'[i].line.command = cmd

(* emitError(): an error the runtime calls silent is dropped.              *)
Silent(kind) == IF kind \in SilentErrors THEN BOOLEAN ELSE {FALSE}
EmitError(kind, silent) == IF silent THEN <<>> ELSE <<Error(kind)>>

Init == /\ conn = NoConn
        /\ remoteAddr = NoHost
        /\ host = [c \in Conn |-> NoHost]
        /\ socket = [c \in Conn |-> "unused"]
        /\ loop = [c \in Conn |-> "none"]
        /\ chunk = {}
        /\ batch = <<>>
        /\ writing = {}
        /\ events = <<>>

(* I/O completes only when the stack is empty: no line is being emitted.   *)
StackEmpty == batch = <<>>

-----------------------------------------------------------------------------
(* close(): the sequences it may emit, `addr` being remoteAddr when it     *)
(* runs.  conn.close() may "throw" (the one error of the runtimes says that *)
(* the connection is closed already), and so may a "listener" of           *)
(* "disconnected"; both pass for an error of kind "close".                 *)
Closing_Bug_Swallows(addr) == {<<>>, <<ConnEvent("disconnected", addr)>>}
Closing(addr) ==
  LET told == <<ConnEvent("disconnected", addr)>>
      failures == {EmitError("close", silent) : silent \in Silent("close")}
  IN  {told} \cup (IF "throw" \in OnClose THEN failures ELSE {})
             \cup (IF "listener" \in OnClose THEN {told \o f : f \in failures} ELSE {})
CloseEvents(addr) == IF conn = NoConn THEN {<<>>} ELSE Closing(addr)

(* What it leaves behind, thrown or not: it closes whatever this.conn is.  *)
(* Bytes are left while lines are being emitted; on Node also after a call *)
(* that runs between two reads, of which the loop has not taken the second. *)
ClosedNow == IF StackEmpty /\ "bytes" \notin OnClose THEN "closed" ELSE "draining"
CloseSocket == [c \in Conn |-> IF c = conn THEN ClosedNow ELSE socket[c]]
Close == conn' = NoConn /\ socket' = CloseSocket

(* connect(h) up to its await: remoteAddr is replaced, then a connection   *)
(* that is still there is closed, then the new one is asked for.           *)
ConnectCall_Bug_KeepsOld(c, h) ==
  /\ conn' = conn
  /\ socket' = [socket EXCEPT ![c] = "connecting"]
  /\ events' = <<ConnEvent("connecting", h)>>
ConnectCall(c, h) ==
  /\ conn' = NoConn
  /\ socket' = [CloseSocket EXCEPT ![c] = "connecting"]
  /\ \E closing \in CloseEvents(h) :
        events' = Append(closing, ConnEvent("connecting", h))

CallConnect(c, h) ==
  /\ socket[c] = "unused"
  /\ ConnectCall(c, h)
  /\ remoteAddr' = h
  /\ host' = [host EXCEPT ![c] = h]
  /\ UNCHANGED <<loop, chunk, batch, writing>>

(* The application calls connect().                                        *)
Connect(c, h) == /\ SerialConnect => Connecting = {}
                 /\ CallConnect(c, h)

(* The runtime has connected, and `c` is about to become this.conn.  With  *)
(* PromptClose the read of a connection closed earlier has ended by now.   *)
Established(c) ==
  /\ socket[c] = "connecting"
  /\ StackEmpty
  /\ PromptClose => \A d \in Shut : loop[d] # "reading"
  /\ UNCHANGED <<remoteAddr, host, chunk, batch, writing>>

(* connect() after its await: "connected" is emitted, the loop starts.     *)
ConnectSucceeds(c) ==
  /\ Established(c)
  /\ conn' = c
  /\ socket' = [socket EXCEPT ![c] = "open"]
  /\ loop' = [loop EXCEPT ![c] = "reading"]
  /\ events' = <<ConnEvent("connected", host[c])>>

(* A "connected" listener throws inside connect()'s try: the error passes  *)
(* for a connect error and no loop is started.                             *)
ConnectedThrows(c) ==
  /\ "throw" \in OnConnected
  /\ Established(c)
  /\ conn' = c
  /\ socket' = [socket EXCEPT ![c] = "open"]
  /\ events' = <<ConnEvent("connected", host[c]), Error("connect")>>
  /\ UNCHANGED loop

(* A "connected" listener disconnects: loop(null) fails on its first read. *)
ConnectedDisconnects(c) ==
  /\ "disconnect" \in OnConnected
  /\ Established(c)
  /\ conn' = NoConn
  /\ socket' = [socket EXCEPT ![c] = "closed"]
  /\ \E closing \in Closing(remoteAddr) :
        events' = <<ConnEvent("connected", host[c])>> \o closing \o <<Error("read")>>
  /\ UNCHANGED loop

(* The runtime could not connect.                                          *)
ConnectFails(c, silent) ==
  /\ socket[c] = "connecting"
  /\ StackEmpty
  /\ socket' = [socket EXCEPT ![c] = "failed"]
  /\ events' = EmitError("connect", silent)
  /\ UNCHANGED <<conn, remoteAddr, host, loop, chunk, batch, writing>>

-----------------------------------------------------------------------------
(* loop(c) after a successful read: `cmds` are the lines completed by the  *)
(* data, and `rest` says whether bytes follow the last \r\n.  The first    *)
(* line starts with what this.chunk held.                                  *)
Parsed(c, cmds) == [i \in DOMAIN cmds |->
                      [command |-> cmds[i], from |-> IF i = 1 THEN chunk \cup {c} ELSE {c}]]
Remainder(c, cmds, rest) == (IF cmds = <<>> THEN chunk ELSE {})
                            \cup (IF rest THEN {c} ELSE {})

LoopReads(c, cmds, rest) ==
  /\ loop[c] = "reading"
  /\ c \in Readable
  /\ StackEmpty
  /\ cmds # <<>> \/ rest
  /\ batch' = Parsed(c, cmds)
  /\ chunk' = Remainder(c, cmds, rest)
  /\ events' = <<>>
  /\ UNCHANGED <<conn, remoteAddr, host, socket, loop, writing>>

(* loop() emits the lines one after the other; listeners run in between.   *)
Dispatch ==
  /\ batch # <<>>
  /\ batch' = Tail(batch)
  /\ events' = <<Raw(Head(batch))>>
  /\ UNCHANGED <<conn, remoteAddr, host, socket, loop, chunk, writing>>

(* loop(c) is over: a read gave null, and this.close() follows.            *)
LoopBreaks_Bug_NoClose(c) == conn' = conn /\ socket' = socket /\ loop' = [loop EXCEPT ![c] = "over"]
LoopBreaks(c) == Close /\ loop' = [loop EXCEPT ![c] = "over"]

LoopEof(c) ==
  /\ loop[c] = "reading"
  /\ socket[c] \in {"ended", "closed", "draining"}
  /\ StackEmpty
  /\ LoopBreaks(c)
  /\ events' \in CloseEvents(remoteAddr)
  /\ UNCHANGED <<remoteAddr, host, chunk, batch, writing>>

LoopError(c, silent) ==
  /\ loop[c] = "reading"
  /\ c \in Alive
  /\ StackEmpty
  /\ LoopBreaks(c)
  /\ \E closing \in CloseEvents(remoteAddr) : events' = EmitError("read", silent) \o closing
  /\ UNCHANGED <<remoteAddr, host, chunk, batch, writing>>

-----------------------------------------------------------------------------
(* disconnect()                                                            *)
Disconnect ==
  /\ Close
  /\ events' \in CloseEvents(remoteAddr)
  /\ UNCHANGED <<remoteAddr, host, loop, chunk, batch, writing>>

(* send() up to its await.                                                 *)
Send == \/ /\ conn = NoConn
           /\ events' = <<Error("write")>>
           /\ UNCHANGED <<conn, remoteAddr, host, socket, loop, chunk, batch, writing>>
        \/ /\ conn # NoConn
           /\ writing' = writing \cup {conn}
           /\ events' = <<>>
           /\ UNCHANGED <<conn, remoteAddr, host, socket, loop, chunk, batch>>

(* The write settles; it fails on a connection that is lost, and silently  *)
(* on one that was closed here.                                            *)
WriteSettles(c, failed, silent) ==
  /\ c \in writing
  /\ StackEmpty
  /\ writing' = writing \ {c}
  /\ failed => socket[c] # "open"
  /\ events' = IF failed /\ c \notin Shut THEN EmitError("write", silent) ELSE <<>>
  /\ UNCHANGED <<conn, remoteAddr, host, socket, loop, chunk, batch>>

(* The server closes the connection, or it is lost.                        *)
ServerEnds(c) ==
  /\ socket[c] = "open"
  /\ StackEmpty
  /\ socket' = [socket EXCEPT ![c] = "ended"]
  /\ events' = <<>>
  /\ UNCHANGED <<conn, remoteAddr, host, loop, chunk, batch, writing>>

-----------------------------------------------------------------------------
Lines == UNION {[1 .. n -> Command] : n \in 0 .. MaxLines}

ConnectSettles(c) == \/ ConnectSucceeds(c) \/ ConnectedThrows(c) \/ ConnectedDisconnects(c)
                     \/ \E silent \in Silent("connect") : ConnectFails(c, silent)

Runtime(c) == \/ ConnectSettles(c)
              \/ \E cmds \in Lines, rest \in BOOLEAN : LoopReads(c, cmds, rest)
              \/ LoopEof(c)
              \/ \E silent \in Silent("read") : LoopError(c, silent)
              \/ \E failed \in BOOLEAN, silent \in Silent("write") : WriteSettles(c, failed, silent)
              \/ ServerEnds(c)

Application == \/ \E c \in Conn, h \in Host : Connect(c, h)
               \/ Disconnect
               \/ Send

Next == Application \/ Dispatch \/ \E c \in Conn : Runtime(c)

(* The runtime settles what it was asked.  A connection that has ended or  *)
(* was closed holds finitely many bytes, so its reads come to null however *)
(* many lines are dispatched on the way: hence strong fairness.            *)
Fairness == /\ WF_vars(Dispatch)
            /\ \A c \in Conn : /\ WF_vars(ConnectSettles(c))
                               /\ SF_vars(LoopEof(c))

Spec == Init /\ [][Next]_vars /\ Fairness

-----------------------------------------------------------------------------
(* The types of the client's state.                                        *)
TypeOK == /\ conn \in Conn \cup {NoConn}
          /\ remoteAddr \in Host \cup {NoHost}
          /\ host \in [Conn -> Host \cup {NoHost}]
          /\ socket \in [Conn -> SocketState]
          /\ loop \in [Conn -> LoopState]
          /\ chunk \subseteq Conn
          /\ batch \in Seq(Line)
          /\ writing \subseteq Conn
          /\ events \in Seq(Event)

(* One instance manages one connection: a connection that is open is       *)
(* this.conn, so none is forgotten while it still talks to its server, and *)
(* this.conn is never a dead one.                                          *)
OneConnection == /\ \A c \in Alive : conn = c
                 /\ conn # NoConn => conn \in Alive

(* this.conn is being read, so a client that believes it is connected      *)
(* notices a message or the end of the connection.  The only connection    *)
(* without a loop is one whose "connected" listener threw, and its loop    *)
(* never began.                                                            *)
ConnectionIsRead ==
  conn # NoConn => \/ loop[conn] = "reading"
                   \/ "throw" \in OnConnected /\ loop[conn] = "none"

(* this.conn never changes behind the back of the plugins: when a          *)
(* connection ceases to be this.conn, the step emits "disconnected", or    *)
(* the error of a close() that failed.  (A runtime that calls that error   *)
(* silent is left out of the run: there the connection goes without one.)  *)
NoSilentChange ==
  [][conn # NoConn /\ conn' # conn => Emits("disconnected") \/ EmitsErrorOf("close")]_vars

(* The end of a read loop closes the connection it was reading and no      *)
(* other.                                                                  *)
LoopClosesItsOwn ==
  [][\A c \in Conn : loop[c] = "reading" /\ loop'[c] = "over" /\ conn' # conn
                     => conn = c]_vars

(* "disconnected" reports the address of the server that was connected:    *)
(* of this.conn, or of the connection that was made and closed by a        *)
(* listener in this step.  The exception is a connect() that finds a       *)
(* connection: it replaces state.remoteAddr before it closes, and          *)
(* "disconnected" reports the next server.                                 *)
AddressIsServers ==
  [][\A i \in DOMAIN events' : events'[i].type = "disconnected" /\ ~Emits("connecting") =>
       \E c \in Conn : /\ conn = c \/ (socket[c] = "connecting" /\ socket'[c] = "closed")
                      /\ events'[i].host = host[c]]_vars

(* A line that is emitted was received whole from one connection.          *)
LinesAreWhole == \A i \in DOMAIN batch : \E c \in Conn : batch[i].from = {c}

(* When the server ends a connection that is read, the client closes it.   *)
EndIsNoticed == \A c \in Conn : socket[c] = "ended" /\ loop[c] = "reading" ~> c \in Shut
=============================================================================
