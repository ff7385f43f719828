------------------------------ MODULE Emitter -------------------------------
(***************************************************************************)
(* The EventEmitter of core/events.ts.  Everything is synchronous: while   *)
(* emit() calls a listener, that listener may add and remove listeners and *)
(* emit again, so emissions are a stack of loops over sets that change     *)
(* under them.  A Set is iterated in the order of insertion; it is kept as *)
(* a sequence, and a loop as the place it has come to in that sequence.    *)
(***************************************************************************)
EXTENDS Naturals, Sequences, FiniteSets, SequencesExt

CONSTANTS Event,         \* the events that are emitted
          Multi,         \* multiEventNames: the events of a multi event, in order
          Subscription,  \* what on(), once() and off() may be given: sequences of names
          Plain,         \* listeners given to on()
          Wrapper,       \* the listeners once() makes, one for each call
          Nobody,        \* no listener
          MaxListeners,  \* options.maxListeners
          MaxDepth       \* bound: emissions within emissions

ASSUME EmitterAssumption == /\ DOMAIN Multi \cap Event = {}
                            /\ \A name \in DOMAIN Multi : Multi[name] \in Seq(Event)
                            /\ Subscription \subseteq Seq(Event \cup DOMAIN Multi)
                            /\ Plain \cap Wrapper = {}
                            /\ Nobody \notin Plain \cup Wrapper
                            /\ MaxListeners \in Nat \ {0}
                            /\ MaxDepth \in Nat \ {0}

VARIABLES listeners,     \* this.listeners
          memorized,     \* this.memorizedListenerCounts
          stack,         \* the running emit() loops, the innermost last
          made,          \* the calls of once(): what removeListener() is bound to
          loaded,        \* has the constructor come to memorizeCurrentListenerCounts()?
          plugins,       \* history: the listeners that were memorized, by event
          calls          \* history: how often the listener given to once() was called

emitterVars == <<listeners, memorized, stack, made, loaded, plugins, calls>>

Listener == Plain \cup Wrapper

(* A loop: the place of the next listener to call, and the one it has      *)
(* called.  History: whom it has called, and who was there all the time.   *)
Frame == [event : Event, next : Nat, running : Listener \cup {Nobody},
          heard : SUBSET Listener, present : SUBSET Listener]

(* once() that has not been called, one whose on() has returned, and one   *)
(* whose on() has thrown half way: its removeListener is never assigned.   *)
Made == [state : {"new", "ready", "broken"}, names : Subscription \cup {<<>>}]

EmitterInit == /\ listeners = [e \in Event |-> <<>>]
               /\ memorized = [e \in Event |-> 0]
               /\ stack = <<>>
               /\ made = [w \in Wrapper |-> [state |-> "new", names |-> <<>>]]
               /\ loaded = FALSE
               /\ plugins = [e \in Event |-> {}]
               /\ calls = [w \in Wrapper |-> 0]

(* count().                                                                *)
Count(e) == Len(listeners[e]) - memorized[e]

RemapEventNames(names) ==
  FlattenSeq([i \in DOMAIN names |->
                IF names[i] \in DOMAIN Multi THEN Multi[names[i]] ELSE <<names[i]>>])

(* Code runs outside of any emission, or in the listener that the          *)
(* innermost one has called.                                               *)
CodeRuns == stack # <<>> => Last(stack).running # Nobody

-----------------------------------------------------------------------------
(* on(): the events are taken one by one, and the first that is full, or   *)
(* that has the listener, which an event taken before may have got, ends   *)
(* it with an exception.                                                   *)
Accepts(l, events, i) == /\ Count(events[i]) # MaxListeners
                         /\ ~Contains(listeners[events[i]], l)
                         /\ \A j \in 1 .. (i - 1) : events[j] # events[i]
Subscribe(l, names) ==
  LET events == RemapEventNames(names)
      taken == {i \in DOMAIN events : \A j \in 1 .. i : Accepts(l, events, j)}
  IN  [ls |-> [e \in Event |-> IF \E i \in taken : events[i] = e
                               THEN Append(listeners[e], l) ELSE listeners[e]],
       ok |-> taken = DOMAIN events]

On(l, names) == /\ CodeRuns
                /\ listeners' = Subscribe(l, names).ls
                /\ UNCHANGED <<memorized, stack, made, loaded, plugins, calls>>

(* once(): on() with a listener of its own.                                *)
Once(w, names) ==
  /\ CodeRuns
  /\ made[w].state = "new"
  /\ LET subscribed == Subscribe(w, names)
     IN  /\ listeners' = subscribed.ls
         /\ made' = [made EXCEPT ![w] = IF subscribed.ok
                                        THEN [state |-> "ready", names |-> names]
                                        ELSE [state |-> "broken", names |-> <<>>]]
  /\ UNCHANGED <<memorized, stack, loaded, plugins, calls>>

(* off(), with the loops `frames` running: a loop that has come past the   *)
(* place of a deleted listener does not skip the one that follows.         *)
Place(e, l) == CHOOSE i \in DOMAIN listeners[e] : listeners[e][i] = l
Without(e, l) == RemoveAt(listeners[e], Place(e, l))
Leaves_Bug_Splice(frames, l, events) ==
  [i \in DOMAIN frames |->
     IF frames[i].event \in events THEN [frames[i] EXCEPT !.present = @ \ {l}] ELSE frames[i]]
Leaves(frames, l, events) ==
  [i \in DOMAIN frames |->
     LET f == frames[i]
     IN  IF f.event \in events
         THEN [f EXCEPT !.present = @ \ {l},
                        !.next = IF Place(f.event, l) < @ THEN @ - 1 ELSE @]
         ELSE f]

Unsubscribe_Bug_KeepsCount(l, names, frames) ==
  LET events == {e \in Range(RemapEventNames(names)) : Contains(listeners[e], l)}
  IN  /\ listeners' = [e \in Event |-> IF e \in events THEN Without(e, l) ELSE listeners[e]]
      /\ plugins' = [e \in Event |-> IF e \in events THEN plugins[e] \ {l} ELSE plugins[e]]
      /\ stack' = Leaves(frames, l, events)
      /\ UNCHANGED memorized
Unsubscribe(l, names, frames) ==
  LET events == {e \in Range(RemapEventNames(names)) : Contains(listeners[e], l)}
  IN  /\ listeners' = [e \in Event |-> IF e \in events THEN Without(e, l) ELSE listeners[e]]
      /\ memorized' = [e \in Event |-> IF e \in events /\ memorized[e] > 0
                                       THEN memorized[e] - 1 ELSE memorized[e]]
      /\ plugins' = [e \in Event |-> IF e \in events THEN plugins[e] \ {l} ELSE plugins[e]]
      /\ stack' = Leaves(frames, l, events)

Off(l, names) == /\ CodeRuns
                 /\ Unsubscribe(l, names, stack)
                 /\ UNCHANGED <<made, loaded, calls>>

-----------------------------------------------------------------------------
(* emit(): an Error that nobody but the plugins listens to is thrown.      *)
Emit(e, isError) ==
  /\ CodeRuns
  /\ Len(stack) < MaxDepth
  /\ ~(isError /\ Count(e) = 0)
  /\ stack' = Append(stack, [event |-> e, next |-> 1, running |-> Nobody,
                             heard |-> {}, present |-> ToSet(listeners[e])])
  /\ UNCHANGED <<listeners, memorized, made, loaded, plugins, calls>>

(* An exception leaves the listener that runs, and the loop that has       *)
(* called it; the code around that emit() may catch it or throw in turn.   *)
Unwind(frames) == Front(frames)
Throw == /\ stack # <<>>
         /\ CodeRuns
         /\ stack' = Unwind(stack)
         /\ UNCHANGED <<listeners, memorized, made, loaded, plugins, calls>>

Return == /\ stack # <<>>
          /\ CodeRuns
          /\ stack' = [stack EXCEPT ![Len(stack)].running = Nobody]
          /\ UNCHANGED <<listeners, memorized, made, loaded, plugins, calls>>

(* The innermost loop goes on: with the next listener, if there is one.    *)
Loop == Last(stack)
More == stack # <<>> /\ ~CodeRuns /\ Loop.next <= Len(listeners[Loop.event])
NextListener == listeners[Loop.event][Loop.next]
Calling(l) == [stack EXCEPT ![Len(stack)] =
                 [Loop EXCEPT !.next = @ + 1, !.running = l, !.heard = @ \cup {l}]]

CallPlain == /\ More
             /\ NextListener \in Plain
             /\ stack' = Calling(NextListener)
             /\ UNCHANGED <<listeners, memorized, made, loaded, plugins, calls>>

(* The listener that once() has made removes itself, then calls its own.   *)
CallOnce_Bug_KeepsIt(w) == /\ calls' = [calls EXCEPT ![w] = @ + 1]
                           /\ stack' = Calling(w)
                           /\ UNCHANGED <<listeners, memorized, made, loaded, plugins>>
CallOnce(w) == /\ calls' = [calls EXCEPT ![w] = @ + 1]
               /\ Unsubscribe(w, made[w].names, Calling(w))
               /\ UNCHANGED <<made, loaded>>

CallWrapper == More /\ NextListener \in Wrapper /\ made[NextListener].state = "ready"
               /\ CallOnce(NextListener)

(* removeListener is not there: the call throws.                           *)
CallBroken == /\ More
              /\ NextListener \in Wrapper
              /\ made[NextListener].state # "ready"
              /\ stack' = Unwind(stack)
              /\ UNCHANGED <<listeners, memorized, made, loaded, plugins, calls>>

Finish == /\ stack # <<>>
          /\ ~CodeRuns
          /\ ~More
          /\ stack' = Unwind(stack)
          /\ UNCHANGED <<listeners, memorized, made, loaded, plugins, calls>>

(* The constructor of the client, once the plugins have been loaded.       *)
MemorizeCurrentListenerCounts ==
  /\ ~loaded
  /\ stack = <<>>
  /\ loaded' = TRUE
  /\ memorized' = [e \in Event |-> Len(listeners[e])]
  /\ plugins' = [e \in Event |-> ToSet(listeners[e])]
  /\ UNCHANGED <<listeners, stack, made, calls>>

EmitterNext == \/ \E l \in Plain, names \in Subscription : On(l, names) \/ Off(l, names)
               \/ \E w \in Wrapper, names \in Subscription : Once(w, names)
               \/ \E e \in Event, isError \in BOOLEAN : Emit(e, isError)
               \/ Throw \/ Return
               \/ CallPlain \/ CallWrapper \/ CallBroken \/ Finish
               \/ MemorizeCurrentListenerCounts

EmitterSpec == EmitterInit /\ [][EmitterNext]_emitterVars

-----------------------------------------------------------------------------
(* Those who listen to an event, the plugins of the constructor apart.     *)
Users(e) == ToSet(listeners[e]) \ plugins[e]

(* The types of the emitter's fields.                                      *)
EmitterTypeOK == /\ listeners \in [Event -> Seq(Listener)]
                 /\ memorized \in [Event -> Nat]
                 /\ stack \in Seq(Frame)
                 /\ made \in [Wrapper -> Made]
                 /\ loaded \in BOOLEAN
                 /\ plugins \in [Event -> SUBSET Listener]
                 /\ calls \in [Wrapper -> Nat]

(* An emission that comes to its end has called everyone who was there     *)
(* from its beginning, whatever was added, removed and emitted meanwhile.  *)
EveryoneHears ==
  \A i \in DOMAIN stack :
    stack[i].next > Len(listeners[stack[i].event]) => stack[i].present \subseteq stack[i].heard

(* A listener given to once() is called at most once, for however many     *)
(* events it was added and however often they are emitted within it.       *)
OnceIsOnce == \A w \in Wrapper : calls[w] <= 1

(* count() is never below the number of those who listen: an error that    *)
(* somebody besides the plugins handles is never thrown.                   *)
HandledIsNotThrown == \A e \in Event : Count(e) >= Cardinality(Users(e))
=============================================================================
