----------------------------- MODULE Reconnect ------------------------------
(***************************************************************************)
(* plugins/reconnect.ts on top of the client.  The plugin keeps a counter  *)
(* and one timer; its listeners run inside the step that emits the event,  *)
(* and the timer's callback calls connect() like the application does, but *)
(* without asking whether a connect() is awaited or a connection is there. *)
(* Supervision.tla composes it with the rest of the program.               *)
(***************************************************************************)
EXTENDS Client

CONSTANTS
  Attempts,     \* options.reconnect.attempts
  Exponential   \* options.reconnect.exponentialBackoff

ASSUME ReconnectAssumption == /\ Attempts \in Nat
                              /\ Exponential \in BOOLEAN
                              /\ "error" \in Command

VARIABLES
  currentAttempts,    \* `currentAttempts`
  timer,              \* the pending setTimeout: its address and its delay
  reconnects          \* history: connect() calls of the timer since the last welcome

reconnectVars == <<currentAttempts, timer, reconnects>>

(* Delays are in halves of options.reconnect.delay.                        *)
NoTimer == [addr |-> NoHost, wait |-> 0]
Wait(n) == IF Exponential THEN 2 ^ n ELSE 2

ReconnectInit == /\ currentAttempts = 0
                 /\ timer = NoTimer
                 /\ reconnects = 0

-----------------------------------------------------------------------------
(* What makes the plugin reconnect.                                        *)
HearsFailure == EmitsLine("error") \/ EmitsErrorOf("connect")

(* delayReconnect(): the pending timer is dropped; unless the attempts are *)
(* used up, another one is started for the current address.                *)
DelayReconnect_Bug_NoLimit == [addr |-> remoteAddr', wait |-> Wait(currentAttempts)]
DelayReconnect_Bug_OneShort ==
  IF currentAttempts + 1 = Attempts THEN NoTimer
  ELSE [addr |-> remoteAddr', wait |-> Wait(currentAttempts)]
DelayReconnect ==
  IF currentAttempts = Attempts THEN NoTimer
  ELSE [addr |-> remoteAddr', wait |-> Wait(currentAttempts)]

(* "register" is emitted on RPL_WELCOME and nothing else.                  *)
Registers == EmitsLine("welcome")

(* The listeners, `pending` being the timer that is running.               *)
Heard(pending) ==
  /\ currentAttempts' = IF Emits("connecting") THEN currentAttempts + 1
                        ELSE IF Registers THEN 0 ELSE currentAttempts
  /\ timer' = IF HearsFailure THEN DelayReconnect ELSE pending

ReconnectListeners == /\ Heard(timer)
                      /\ reconnects' = IF Registers THEN 0 ELSE reconnects

(* A timer is a macrotask: no line is being emitted, and the bytes a       *)
(* connection closed earlier had left have been read.                      *)
TimerMayFire == /\ timer # NoTimer
                /\ StackEmpty
                /\ \A c \in Conn : ~(socket[c] = "draining" /\ loop[c] = "reading")

(* The callback of setTimeout.                                             *)
Fire(c) == /\ TimerMayFire
           /\ CallConnect(c, timer.addr)
           /\ Heard(NoTimer)
           /\ reconnects' = reconnects + 1
=============================================================================
