---------------------------- MODULE Supervision -----------------------------
(***************************************************************************)
(* The client with the two plugins that watch over its connection.  Both   *)
(* listen to each step of the client, and each acts on it from timers of   *)
(* its own: what one does to the connection, the other hears.              *)
(***************************************************************************)
EXTENDS Reconnect, PingTimeout

CONSTANTS
  ListenersDisconnect, \* may the listener of a line call connect() or disconnect()?
  ApplicationConnects  \* bound: calls of connect() made by the application

ASSUME SupervisionAssumption == /\ ListenersDisconnect \in BOOLEAN
                                /\ ApplicationConnects \in Nat

VARIABLE asked  \* how often the application has called connect()

allVars == <<vars, reconnectVars, pingVars, asked>>

SupervisionInit == Init /\ ReconnectInit /\ PingInit /\ asked = 0

-----------------------------------------------------------------------------
(* The server of a mute connection sends no line.                          *)
RuntimeStep(c) ==
  \/ ConnectSettles(c)
  \/ /\ c \notin mute
     /\ \E cmds \in Lines, rest \in BOOLEAN : LoopReads(c, cmds, rest)
  \/ LoopEof(c)
  \/ \E silent \in Silent("read") : LoopError(c, silent)
  \/ \E failed \in BOOLEAN, silent \in Silent("write") : WriteSettles(c, failed, silent)
  \/ ServerEnds(c)

(* send() is left to pingServer(): it emits nothing else these plugins     *)
(* listen to.                                                              *)
ApplicationStep ==
  /\ StackEmpty \/ ListenersDisconnect
  /\ \/ /\ asked < ApplicationConnects
        /\ \E c \in Conn, h \in Host : Connect(c, h)
        /\ asked' = asked + 1
     \/ Disconnect /\ UNCHANGED asked

Listeners == ReconnectListeners /\ PingListeners
Unasked == Listeners /\ UNCHANGED asked

Others == \/ ApplicationStep /\ Listeners
          \/ (Dispatch \/ \E c \in Conn : RuntimeStep(c)) /\ Unasked

Reconnects(c) == Fire(c) /\ PingListeners /\ UNCHANGED asked
Pings == PingServer /\ ReconnectListeners /\ UNCHANGED asked
TimesOut == EmitPingTimeout /\ ReconnectListeners /\ UNCHANGED asked
Silences(c) == GoesMute(c) /\ UNCHANGED <<vars, reconnectVars, asked>>

SupervisionNext == \/ Others \/ Pings \/ TimesOut
                   \/ \E c \in Conn : Reconnects(c) \/ Silences(c)

(* Timers fire.  The lines of a server put off those of ping_timeout, and  *)
(* its ERROR lines that of reconnect: strong fairness for the latter says  *)
(* that a server does not send them without end.  Reads come to an end as  *)
(* in Client.                                                              *)
SupervisionSpec ==
  /\ SupervisionInit /\ [][SupervisionNext]_allVars
  /\ WF_allVars(Dispatch /\ Unasked)
  /\ WF_allVars(Pings) /\ WF_allVars(TimesOut)
  /\ SF_allVars(\E c \in Conn : Reconnects(c))
  /\ \A c \in Conn : /\ WF_allVars(ConnectSettles(c) /\ Unasked)
                     /\ SF_allVars(LoopEof(c) /\ Unasked)

-----------------------------------------------------------------------------
(* "Number of attempts before giving up": between two registrations the    *)
(* plugin never calls connect() more often than that, and before the first *)
(* one the application's own call is one of the attempts.                  *)
GivesUp == reconnects + (IF registered = NoConn THEN 1 ELSE 0) <= Attempts

(* After a failure the client is connected again, or has used up its       *)
(* attempts, the first of which is the application's: the plugin never     *)
(* just stops, also when an attempt of its own fails.  (Or it has used up  *)
(* Conn, the bound.)                                                       *)
HasFailed == \E i \in DOMAIN events :
               \/ events[i].type = "error" /\ events[i].kind = "connect"
               \/ events[i].type = "raw" /\ events[i].line.command = "error"
HasConnected == \E i \in DOMAIN events : events[i].type = "connected"
RecoversOrGivesUp ==
  HasFailed ~> \/ HasConnected /\ ~HasFailed
               \/ currentAttempts >= Attempts
               \/ \A c \in Conn : socket[c] # "unused"

(* A ping timeout disconnects only from the server that was pinged.        *)
TimeoutHitsPinged == [][TimesOut => pinged # NoConn /\ conn = pinged]_allVars

(* "Maximum timeout before to be disconnected from server": a server that  *)
(* goes silent after the registration is left; after an ERROR, which stops *)
(* the timers of ping_timeout, it is the timer of reconnect that leaves    *)
(* it.  (Or Conn, the bound, is used up when that timer fires.)            *)
SilenceIsNoticed ==
  \A c \in Conn : c \in mute /\ conn = c /\ registered = c
                   ~> \/ conn # c
                      \/ timer # NoTimer /\ \A d \in Conn : socket[d] # "unused"
=============================================================================
