---------------------------- MODULE PingTimeout -----------------------------
(***************************************************************************)
(* plugins/ping_timeout.ts on top of the client: a server that says        *)
(* nothing is pinged, and left if it goes on saying nothing.  Both delays  *)
(* are the same and nothing else in the program depends on how long they   *)
(* are, so an armed timer fires at any time.  Supervision.tla composes the *)
(* plugin with the rest of the program.                                    *)
(***************************************************************************)
EXTENDS Client

VARIABLES
  started,        \* `started`
  pingServer,     \* is the timer of `pingServerId` armed?
  pingTimeout,    \* is the timer of `pingTimeoutId` armed?
  registered,     \* history: the connection on which the client has registered
  pinged,         \* history: the connection on which the last PING was sent
  mute            \* the connections whose server will say nothing any more

pingVars == <<started, pingServer, pingTimeout, registered, pinged, mute>>

PingInit == /\ started = FALSE /\ pingServer = FALSE /\ pingTimeout = FALSE
            /\ registered = NoConn /\ pinged = NoConn
            /\ mute = {}

-----------------------------------------------------------------------------
(* The three variables of the plugin, and what its functions make of them. *)
Timers == [started |-> started, server |-> pingServer, timeout |-> pingTimeout]
Become(t) == started' = t.started /\ pingServer' = t.server /\ pingTimeout' = t.timeout

StartPingTimer(t) == IF t.started THEN t ELSE [t EXCEPT !.started = TRUE, !.server = TRUE]
StopPingTimer_Bug_KeepsTimeout(t) == IF t.started THEN [t EXCEPT !.started = FALSE, !.server = FALSE]
                                     ELSE t
StopPingTimer(t) == IF t.started THEN [started |-> FALSE, server |-> FALSE, timeout |-> FALSE]
                    ELSE t

(* A line restarts a started timer.  The register plugin is loaded first,  *)
(* so RPL_WELCOME has emitted "register" by then.  monitor.ts turns        *)
(* ERR_MONLISTFULL into an "error", throw_on_error.ts does it with ERROR.  *)
Restart_Bug_Forgets(t) == StopPingTimer(t)
Restart(t) == IF t.started THEN StartPingTimer(StopPingTimer(t)) ELSE t

EmitsError == Emits("error") \/ EmitsLine("monlistfull") \/ EmitsLine("error")

React(t) ==
  Become(IF Emits("disconnected") \/ EmitsError THEN StopPingTimer(t)
         ELSE IF EmitsLine("welcome") THEN Restart(StartPingTimer(t))
         ELSE IF Emits("raw") THEN Restart(t)
         ELSE t)

PingListeners ==
  /\ React(Timers)
  /\ registered' = IF EmitsLine("welcome") THEN conn ELSE registered
  /\ UNCHANGED <<pinged, mute>>

-----------------------------------------------------------------------------
(* pingServer(): client.ping() sends; if that fails at once, "error" has   *)
(* stopped the timers before the next one is armed all the same.           *)
PingServer ==
  /\ pingServer
  /\ StackEmpty
  /\ Send
  /\ LET fired == [Timers EXCEPT !.server = FALSE]
     IN  Become([IF EmitsError THEN StopPingTimer(fired) ELSE fired EXCEPT !.timeout = TRUE])
  /\ pinged' = conn
  /\ UNCHANGED <<registered, mute>>

(* emitPingTimeout()                                                       *)
EmitPingTimeout ==
  /\ pingTimeout
  /\ StackEmpty
  /\ Close
  /\ \E closing \in CloseEvents(remoteAddr) : events' = Append(closing, Error("read"))
  /\ Become(StopPingTimer([Timers EXCEPT !.timeout = FALSE]))
  /\ UNCHANGED <<remoteAddr, host, loop, chunk, batch, writing, registered, pinged, mute>>

(* The server on which the client has registered says nothing from now on. *)
GoesMute(c) == /\ c \in Alive \ mute
               /\ c = registered
               /\ StackEmpty
               /\ mute' = mute \cup {c}
               /\ UNCHANGED <<started, pingServer, pingTimeout, registered, pinged>>

-----------------------------------------------------------------------------
(* The plugin is started exactly while one of its timers is armed, and     *)
(* only for a connection: a timer that is left over would hit the next     *)
(* connection, none at all would mean that silence is never noticed.       *)
TimersFollowStarted ==
  /\ ~(pingServer /\ pingTimeout)
  /\ started <=> pingServer \/ pingTimeout
  /\ started => conn # NoConn
=============================================================================
