----------------------------- MODULE Antiflood ------------------------------
(***************************************************************************)
(* plugins/antiflood.ts: PRIVMSGs go through a queue of one slot, and a    *)
(* message keeps the slot for floodDelay after it was sent.  The tasks of  *)
(* the queue are the messages.                                             *)
(***************************************************************************)
EXTENDS Queue

CONSTANTS Delay,       \* options.floodDelay, in ticks
          MaxEnds,     \* bound: how often the connection is lost
          Tagged       \* the PRIVMSGs that are sent with tags

ASSUME AntifloodAssumption == /\ Concurrency = 1
                              /\ Delay \in Nat \ {0}
                              /\ MaxEnds \in Nat
                              /\ Tagged \cap Task = {}

VARIABLES phase,       \* what the function of each running task awaits
          remaining,   \* ticks before the timer of a delaying task is due
          connected,   \* is there a connection to write to?
          ends,        \* bound: connections lost so far
          since,       \* history: ticks since each message was written, up to Delay
          written,     \* history: the messages that were written, in order
          confirmed    \* history: those for which send() gave the raw message

floodVars == <<phase, remaining, connected, ends, since, written, confirmed>>
allVars == <<vars, floodVars>>

Message == Task \cup Tagged

FloodInit == /\ Init
             /\ phase = [t \in Task |-> "idle"]
             /\ remaining = [t \in Task |-> 0]
             /\ connected = TRUE
             /\ ends = 0
             /\ since = [m \in Message |-> 0]
             /\ written = <<>>
             /\ confirmed = {}

-----------------------------------------------------------------------------
(* The task that starts in this step, if any, writes at once when there is *)
(* a connection to write to; the task `over` ends.                         *)
Starting == {t \in Task : status[t] # "running" /\ status'[t] = "running"}

StartNext(over) ==
  /\ phase' = [t \in Task |-> IF t \in Starting THEN "sending"
                              ELSE IF t = over THEN "idle" ELSE phase[t]]
  /\ written' = IF connected /\ Starting # {}
                THEN Append(written, CHOOSE t \in Starting : TRUE) ELSE written
  /\ UNCHANGED <<remaining, connected, ends, since>>

(* send("PRIVMSG", ...): the hook queues it.                               *)
CallSend(t) == /\ Add(t)
               /\ StartNext(t)
               /\ UNCHANGED confirmed

(* send(tags, "PRIVMSG", ...): `command` is an object, so the hook lets it *)
(* through.                                                                *)
Written(m) == \E i \in DOMAIN written : written[i] = m

CallSendTagged(m) == /\ connected
                     /\ ~Written(m)
                     /\ written' = Append(written, m)
                     /\ confirmed' = confirmed \cup {m}
                     /\ UNCHANGED <<vars, phase, remaining, connected, ends, since>>

(* send() gives the raw message: the task goes on to wait.                 *)
Sent_Bug_NoDelay(t) == /\ phase[t] = "sending"
                       /\ Written(t)
                       /\ confirmed' = confirmed \cup {t}
                       /\ Settle(t, "fulfilled")
                       /\ StartNext(t)
Sent(t) == /\ phase[t] = "sending"
           /\ Written(t)
           /\ confirmed' = confirmed \cup {t}
           /\ phase' = [phase EXCEPT ![t] = "delaying"]
           /\ remaining' = [remaining EXCEPT ![t] = Delay]
           /\ UNCHANGED <<vars, connected, ends, since, written>>

(* send() gives null, or throws because nobody listens to "error".         *)
NotSent_Bug_KeepsSlot(t, outcome) ==
  /\ phase[t] = "sending"
  /\ phase' = [phase EXCEPT ![t] = "idle"]
  /\ UNCHANGED <<vars, remaining, connected, ends, since, written, confirmed>>
NotSent(t, outcome) == /\ phase[t] = "sending"
                       /\ Settle(t, outcome)
                       /\ StartNext(t)
                       /\ UNCHANGED confirmed

(* The timer of delay() fires, at the earliest when it is due.             *)
DelayOver(t) == /\ phase[t] = "delaying"
                /\ remaining[t] = 0
                /\ Settle(t, "fulfilled")
                /\ StartNext(t)
                /\ UNCHANGED confirmed

Aging == {m \in Message : Written(m) /\ since[m] < Delay}
Tick == /\ Aging # {} \/ \E t \in Task : remaining[t] > 0
        /\ since' = [m \in Message |-> IF m \in Aging THEN since[m] + 1 ELSE since[m]]
        /\ remaining' = [t \in Task |-> IF remaining[t] > 0 THEN remaining[t] - 1 ELSE 0]
        /\ UNCHANGED <<vars, phase, connected, ends, written, confirmed>>

(* The connection is lost, or another one is there.                        *)
ConnChanges == /\ connected => ends < MaxEnds
               /\ connected' = ~connected
               /\ ends' = IF connected THEN ends + 1 ELSE ends
               /\ UNCHANGED <<vars, phase, remaining, since, written, confirmed>>

FloodNext == \/ \E t \in Task : \/ CallSend(t)
                                \/ Sent(t)
                                \/ \E outcome \in Outcome : NotSent(t, outcome)
                                \/ DelayOver(t)
             \/ \E m \in Tagged : CallSendTagged(m)
             \/ Tick
             \/ ConnChanges

FloodSpec ==
  /\ FloodInit /\ [][FloodNext]_allVars
  /\ WF_allVars(Tick)
  /\ \A t \in Task : /\ WF_allVars(Sent(t) \/ \E o \in Outcome : NotSent(t, o))
                     /\ WF_allVars(DelayOver(t))

-----------------------------------------------------------------------------
(* When a message of the queue is written, all those of the queue that     *)
(* were written are of earlier calls, and the delay has passed since every *)
(* one that was sent, whatever was lost, failed or reconnected in between. *)
Calls(t) == CHOOSE i \in DOMAIN added : added[i] = t
SpacedInOrder ==
  [][\A t \in Task : Written(t)' /\ ~Written(t) =>
       /\ \A m \in Task : Written(m) => Calls(m) < Calls(t)'
       /\ \A m \in confirmed \cap Task : since[m] = Delay]_allVars

(* The plugin uses the queue as the queue expects: every task settles,     *)
(* also the one whose message could not be sent, so a lost connection      *)
(* never blocks the messages behind it.                                    *)
UsesQueue == Spec
=============================================================================
