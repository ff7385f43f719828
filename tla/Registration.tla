---------------------------- MODULE Registration ----------------------------
(***************************************************************************)
(* plugins/cap.ts and plugins/registration.ts: what the client says to a   *)
(* server from "connected" to RPL_WELCOME, with a capability negotiation   *)
(* and SASL on the way.  Both sides write into a FIFO channel; the server  *)
(* is external, as the handlers of the plugins and the tests expect it.    *)
(*                                                                         *)
(* The plugins add listeners when a connection is there and remove them    *)
(* when the answer arrives.  Nothing removes them when the connection is   *)
(* lost, so they are state that outlives it.                               *)
(***************************************************************************)
EXTENDS Naturals, Sequences, FiniteSets, SequencesExt

CONSTANTS Cap,             \* capabilities, among them "sasl"
          Requested,       \* client.state.caps.requested
          Offers,          \* what a server may advertise: sets of capabilities
          Options,         \* [method, password, tls, timeout]: the options considered
          MaxConnections,  \* bound: connections made
          MaxNotices       \* bound: lines nobody asked for on one connection

ASSUME RegistrationAssumption ==
  /\ "sasl" \in Cap
  /\ Requested \subseteq Cap \ {"sasl"} /\ Requested # {} /\ IsFiniteSet(Requested)
  /\ Offers \subseteq SUBSET Cap
  /\ Options \subseteq [method : {"NickServ", "sasl", "saslThenNickServ", "saslExternal"},
                        password : BOOLEAN, tls : BOOLEAN, timeout : BOOLEAN]
  /\ MaxConnections \in Nat /\ MaxNotices \in Nat

VARIABLES
  options,           \* the options of the client
  epoch,             \* which connection it is, counted from 1
  up,                \* is the connection there?
  available,         \* client.state.caps.available
  enabled,           \* client.state.caps.enabled
  completeAfterAck,  \* `completeAfterAck`
  capListeners,      \* the listeners of "raw:cap" but the first, which stays
  authOnce,          \* how many once("raw:authenticate") wait
  successOnce,       \* how many once("raw:rpl_saslsuccess") wait
  timers,            \* the SASL timers that are armed, by connection
  saslTimeoutId,     \* `saslTimeoutId`, 0 if undefined
  toServer,          \* lines sent to the server and not handled yet
  toClient,          \* lines sent to the client and not handled yet
  server,            \* what the server knows of this connection
  welcomed,          \* history: has this connection got its RPL_WELCOME?
  reported,          \* history: was a failure reported on this connection?
  ends,              \* history: CAP ENDs sent on this connection
  mechanisms         \* history: AUTHENTICATE <mechanism>s sent on this connection

capVars == <<available, enabled, completeAfterAck, capListeners>>
saslVars == <<authOnce, successOnce, timers, saslTimeoutId>>
channels == <<toServer, toClient>>
history == <<welcomed, reported, ends, mechanisms>>
vars == <<options, epoch, up, capVars, saslVars, channels, server, history>>

UsesSasl == \/ options.method = "saslExternal"
            \/ options.password /\ options.method # "NickServ"
Wanted == IF UsesSasl THEN Requested \cup {"sasl"} ELSE Requested

Line(verb, caps) == [verb |-> verb, caps |-> caps]
Say(verb) == Line(verb, {})

(* What the client sends is lost when there is no connection.              *)
Sends(lines) ==
  LET many(verb) == IF up THEN Cardinality({i \in DOMAIN lines : lines[i].verb = verb}) ELSE 0
  IN  /\ toServer' = IF up THEN toServer \o lines ELSE toServer
      /\ ends' = ends + many("END")
      /\ mechanisms' = mechanisms + many("MECHANISM")

-----------------------------------------------------------------------------
(* The listener that cap.ts adds at load, as a function of what the CAP    *)
(* line finds; `out` is what is sent meanwhile.                            *)
Completed_Bug_Repeats(s) == IF s.complete THEN [s EXCEPT !.out = Append(@, Say("END"))] ELSE s
Completed(s) == IF s.complete THEN [s EXCEPT !.complete = FALSE, !.out = Append(@, Say("END"))]
                ELSE s

Requests(s, caps) == s.out \o SetToSeq({Line("REQ", {c}) : c \in caps \cap Requested})

Track_Bug_KeepsDeleted(s, m) ==
  CASE m.verb = "ACK" -> Completed([s EXCEPT !.enabled = @ \cup m.caps])
    [] m.verb = "NAK" -> Completed(s)
    [] m.verb = "NEW" -> [s EXCEPT !.available = @ \cup m.caps, !.out = Requests(s, m.caps)]
    [] m.verb = "DEL" -> [s EXCEPT !.available = @ \ m.caps]
    [] OTHER -> s
Track_Bug_NakForgotten(s, m) ==
  CASE m.verb = "ACK" -> Completed([s EXCEPT !.enabled = @ \cup m.caps])
    [] m.verb = "NEW" -> [s EXCEPT !.available = @ \cup m.caps, !.out = Requests(s, m.caps)]
    [] m.verb = "DEL" -> [s EXCEPT !.enabled = @ \ m.caps, !.available = @ \ m.caps]
    [] OTHER -> s
Track(s, m) ==
  CASE m.verb = "ACK" -> Completed([s EXCEPT !.enabled = @ \cup m.caps])
    [] m.verb = "NAK" -> Completed(s)
    [] m.verb = "NEW" -> [s EXCEPT !.available = @ \cup m.caps, !.out = Requests(s, m.caps)]
    [] m.verb = "DEL" -> [s EXCEPT !.enabled = @ \ m.caps, !.available = @ \ m.caps]
    [] OTHER -> s

(* onLs of negotiateCapabilities(): it collects the lines of a CAP LS and  *)
(* removes itself at the last one.                                         *)
OnLs(s, l, m) ==
  LET collected == l.lsCaps \cup m.caps
      known == s.available \cup collected
  IN  CASE m.verb = "LS*" -> [s EXCEPT !.listeners = Append(@, [l EXCEPT !.lsCaps = collected])]
        [] m.verb = "LS" -> IF Wanted \cap known # {}
                            THEN [s EXCEPT !.available = known,
                                           !.out = Append(@, Line("REQ", Wanted \cap known))]
                            ELSE Completed([s EXCEPT !.available = known])
        [] OTHER -> [s EXCEPT !.listeners = Append(@, l)]

(* capListener of trySasl() and trySaslExternal(): any CAP line whose      *)
(* third parameter has the word "sasl".                                    *)
CapListener(s, l, m) ==
  IF "sasl" \in m.words
  THEN [s EXCEPT !.out = Append(@, Say("MECHANISM"))]
  ELSE [s EXCEPT !.listeners = Append(@, l)]

Hear(s, l, m) == IF l.kind = "ls" THEN OnLs(s, l, m) ELSE CapListener(s, l, m)
HearAll(s, ls, m) == FoldLeft(LAMBDA t, l : Hear(t, l, m), s, ls)

OnCap(m) ==
  LET before == [available |-> available, enabled |-> enabled, complete |-> completeAfterAck,
                 listeners |-> <<>>, out |-> <<>>]
      after == HearAll(Track(before, m), capListeners, m)
  IN  /\ available' = after.available
      /\ enabled' = after.enabled
      /\ completeAfterAck' = after.complete
      /\ capListeners' = after.listeners
      /\ Sends(after.out)
      /\ UNCHANGED <<saslVars, welcomed, reported>>

-----------------------------------------------------------------------------
ClearSaslTimeout == timers \ {saslTimeoutId}

(* onSaslFail().                                                           *)
SaslFails_Bug_AlwaysFallsBack(armed) ==
  /\ timers' = armed
  /\ Sends(<<Say("END"), Say("IDENTIFY")>>)
  /\ UNCHANGED reported
SaslFails(armed) ==
  /\ timers' = armed
  /\ IF options.method = "saslThenNickServ"
     THEN Sends(<<Say("END"), Say("IDENTIFY")>>) /\ UNCHANGED reported
     ELSE Sends(<<Say("END")>>) /\ reported' = TRUE

OnSaslFail == /\ SaslFails(ClearSaslTimeout)
              /\ UNCHANGED <<capVars, authOnce, successOnce, saslTimeoutId, welcomed>>

(* onSuccess() of waitForSaslSuccess(), as often as it was added.          *)
OnSaslSuccess ==
  /\ successOnce' = 0
  /\ timers' = IF successOnce > 0 THEN ClearSaslTimeout ELSE timers
  /\ Sends(FlattenSeq([i \in 1 .. successOnce |-> <<Say("END"), Say("REGISTER")>>]))
  /\ UNCHANGED <<capVars, authOnce, saslTimeoutId, welcomed, reported>>

(* The listeners of once("raw:authenticate").                              *)
OnAuthenticate ==
  /\ authOnce' = 0
  /\ Sends([i \in 1 .. authOnce |-> Say("CREDENTIALS")])
  /\ UNCHANGED <<capVars, successOnce, timers, saslTimeoutId, welcomed, reported>>

OnNotRegistered == /\ Sends(<<Say("REGISTER")>>)
                   /\ UNCHANGED <<capVars, saslVars, welcomed, reported>>

OnWelcome == /\ welcomed' = TRUE
             /\ UNCHANGED <<capVars, saslVars, reported, ends, mechanisms, toServer>>

Receive ==
  /\ toClient # <<>>
  /\ LET m == Head(toClient)
     IN  CASE m.verb \in {"+"} -> OnAuthenticate
           [] m.verb = "903" -> OnSaslSuccess
           [] m.verb \in {"904", "906"} -> OnSaslFail
           [] m.verb = "451" -> OnNotRegistered
           [] m.verb = "001" -> OnWelcome
           [] OTHER -> OnCap(m)
  /\ toClient' = Tail(toClient)
  /\ UNCHANGED <<options, epoch, up, server>>

(* The callback of the timer.  Its off("raw:rpl_saslsuccess", onSuccess)   *)
(* removes nothing: once() has added a listener of its own.                *)
SaslTimer(e) ==
  /\ e \in timers
  /\ SaslFails((timers \ {e}) \ {saslTimeoutId})
  /\ UNCHANGED <<options, epoch, up, capVars, authOnce, successOnce, saslTimeoutId,
                 toClient, server, welcomed>>

-----------------------------------------------------------------------------
(* The listener of "connected".                                            *)
Negotiate(complete) ==
  /\ completeAfterAck' = complete
  /\ UNCHANGED <<available, enabled>>
LsListener == [kind |-> "ls", lsCaps |-> {}]
SaslListener == [kind |-> "sasl", lsCaps |-> {}]

BeginSasl ==
  /\ Negotiate(FALSE)
  /\ capListeners' = capListeners \o <<LsListener, SaslListener>>
  /\ authOnce' = authOnce + 1
  /\ successOnce' = successOnce + 1
  /\ timers' = IF options.timeout THEN timers \cup {epoch'} ELSE timers
  /\ saslTimeoutId' = IF options.timeout THEN epoch' ELSE saslTimeoutId

BeginPlain == /\ Negotiate(TRUE)
              /\ capListeners' = Append(capListeners, LsListener)
              /\ UNCHANGED saslVars

Greeting == IF UsesSasl THEN <<Say("LS")>>
            ELSE IF options.password THEN <<Say("LS"), Say("REGISTER"), Say("IDENTIFY")>>
            ELSE <<Say("REGISTER"), Say("LS")>>

NoTls == options.method = "saslExternal" /\ ~options.tls

Connected(offers, bare) ==
  /\ ~up
  /\ epoch < MaxConnections
  /\ up' = TRUE
  /\ epoch' = epoch + 1
  /\ IF NoTls THEN UNCHANGED <<capVars, saslVars>>
     ELSE IF UsesSasl THEN BeginSasl ELSE BeginPlain
  /\ toServer' = IF NoTls THEN <<>> ELSE Greeting
  /\ reported' = NoTls
  /\ server' = [offers |-> offers, bare |-> bare, negotiation |-> "none", acked |-> {},
                sasl |-> "idle", loggedIn |-> FALSE, user |-> FALSE, registered |-> FALSE,
                identified |-> FALSE, demanded |-> FALSE, notices |-> 0]
  /\ toClient' = <<>>
  /\ welcomed' = FALSE /\ ends' = 0 /\ mechanisms' = 0
  /\ UNCHANGED options

Lost == /\ up
        /\ up' = FALSE
        /\ toServer' = <<>> /\ toClient' = <<>>
        /\ UNCHANGED <<options, epoch, capVars, saslVars, server, history>>

-----------------------------------------------------------------------------
(* The server.  A line is a reply with the capabilities it lists and, in   *)
(* `words`, those a reader of its third parameter finds there: not those   *)
(* with a value ("sasl=PLAIN"), and none in an unfinished CAP LS.          *)
Word(caps) == IF server.bare THEN caps ELSE caps \ {"sasl"}
Reply(verb, caps, words) == [verb |-> verb, caps |-> caps, words |-> words]
Short(verb) == Reply(verb, {}, {})

Registered(s) == s.user /\ s.negotiation # "open"
(* The server in state `s` replies; it welcomes who has just registered.   *)
Replies(s, lines) ==
  LET welcomes == Registered(s) /\ ~s.registered
  IN  /\ server' = [s EXCEPT !.registered = @ \/ welcomes]
      /\ toClient' = toClient \o (IF welcomes THEN Append(lines, Short("001")) ELSE lines)

Opened == IF server.registered THEN server ELSE [server EXCEPT !.negotiation = "open"]

HandleLs == \E first \in SUBSET server.offers :
              Replies(Opened, IF first = {} THEN <<Reply("LS", server.offers, Word(server.offers))>>
                              ELSE <<Reply("LS*", first, {}),
                                     Reply("LS", server.offers \ first, Word(server.offers \ first))>>)

HandleReq(caps) ==
  IF caps \subseteq server.offers
  THEN Replies([Opened EXCEPT !.acked = @ \cup caps], <<Reply("ACK", caps, caps)>>)
  ELSE Replies(Opened, <<Reply("NAK", caps, caps)>>)

HandleEnd == Replies([server EXCEPT !.negotiation = "ended", !.sasl = "idle"],
                     IF server.sasl = "asked" THEN <<Short("906")>> ELSE <<>>)

HandleMechanism ==
  IF server.loggedIn THEN Replies(server, <<Short("907")>>)
  ELSE IF server.sasl = "idle" /\ "sasl" \in server.acked
  THEN Replies([server EXCEPT !.sasl = "asked"], <<Short("+")>>)
  ELSE Replies([server EXCEPT !.sasl = "idle"], <<Short("904")>>)

HandleCredentials ==
  \/ /\ server.sasl = "asked"
     /\ Replies([server EXCEPT !.sasl = "idle", !.loggedIn = TRUE], <<Short("903")>>)
  \/ Replies([server EXCEPT !.sasl = "idle"], <<Short("904")>>)

HandleRegister == Replies([server EXCEPT !.user = TRUE], <<>>)

Demand(s) == Replies([s EXCEPT !.demanded = TRUE], <<Short("451")>>)

HandleIdentify == IF server.registered THEN Replies([server EXCEPT !.identified = TRUE], <<>>)
                  ELSE Demand(server)

ServerHandles ==
  /\ toServer # <<>>
  /\ LET m == Head(toServer)
     IN  CASE m.verb = "LS" -> HandleLs
           [] m.verb = "REQ" -> HandleReq(m.caps)
           [] m.verb = "END" -> HandleEnd
           [] m.verb = "MECHANISM" -> HandleMechanism
           [] m.verb = "CREDENTIALS" -> HandleCredentials
           [] m.verb = "REGISTER" -> HandleRegister
           [] m.verb = "IDENTIFY" -> HandleIdentify
  /\ toServer' = Tail(toServer)
  /\ UNCHANGED <<options, epoch, up, capVars, saslVars, history>>

(* CAP NEW and CAP DEL, which a client that said CAP LS 302 gets.          *)
ServerNotifies(c) ==
  /\ up
  /\ server.negotiation # "none"
  /\ server.notices < MaxNotices
  /\ LET counted == [server EXCEPT !.notices = @ + 1]
     IN  IF c \in server.offers
         THEN Replies([counted EXCEPT !.offers = @ \ {c}, !.acked = @ \ {c}],
                      <<Reply("DEL", {c}, {c})>>)
         ELSE Replies([counted EXCEPT !.offers = @ \cup {c}], <<Reply("NEW", {c}, Word({c}))>>)
  /\ UNCHANGED <<options, epoch, up, capVars, saslVars, toServer, history>>

(* ERR_NOTREGISTERED for what the application, or another plugin, says too *)
(* early.                                                                  *)
ServerDemands ==
  /\ up
  /\ ~server.registered
  /\ server.notices < MaxNotices
  /\ Demand([server EXCEPT !.notices = @ + 1])
  /\ UNCHANGED <<options, epoch, up, capVars, saslVars, toServer, history>>

-----------------------------------------------------------------------------
Init == /\ options \in Options
        /\ epoch = 0 /\ up = FALSE
        /\ available = {} /\ enabled = {}
        /\ completeAfterAck = FALSE
        /\ capListeners = <<>> /\ authOnce = 0 /\ successOnce = 0
        /\ timers = {} /\ saslTimeoutId = 0
        /\ toServer = <<>> /\ toClient = <<>>
        /\ server = [offers |-> {}, bare |-> FALSE, negotiation |-> "none", acked |-> {},
                     sasl |-> "idle", loggedIn |-> FALSE, user |-> FALSE, registered |-> FALSE,
                     identified |-> FALSE, demanded |-> FALSE, notices |-> 0]
        /\ welcomed = FALSE /\ reported = FALSE /\ ends = 0 /\ mechanisms = 0

Next == \/ \E offers \in Offers, bare \in BOOLEAN : Connected(offers, bare)
        \/ Receive
        \/ \E e \in 1 .. MaxConnections : SaslTimer(e)
        \/ Lost
        \/ ServerHandles
        \/ \E c \in Cap : ServerNotifies(c)
        \/ ServerDemands

(* Lines arrive and are handled; an armed timer fires.                     *)
Spec == /\ Init /\ [][Next]_vars
        /\ WF_vars(Receive) /\ WF_vars(ServerHandles)
        /\ \A e \in 1 .. MaxConnections : WF_vars(SaslTimer(e))

-----------------------------------------------------------------------------
FirstConnection == epoch = 1

(* The types of the plugins' state.                                        *)
TypeOK == /\ options \in Options
          /\ epoch \in 0 .. MaxConnections /\ up \in BOOLEAN
          /\ available \subseteq Cap /\ enabled \subseteq Cap
          /\ completeAfterAck \in BOOLEAN
          /\ capListeners \in Seq([kind : {"ls", "sasl"}, lsCaps : SUBSET Cap])
          /\ authOnce \in 0 .. epoch /\ successOnce \in 0 .. epoch
          /\ timers \subseteq 1 .. epoch /\ saslTimeoutId \in 0 .. epoch

(* The client's picture of the capabilities is the server's, as soon as    *)
(* all lines have arrived (on the first connection: `caps` is never        *)
(* cleared).                                                               *)
CapsFollowServer ==
  FirstConnection /\ up /\ toClient = <<>> =>
    /\ enabled = server.acked
    /\ server.negotiation # "none" /\ ~server.registered => available = server.offers

(* Without SASL the client ends a negotiation at most once: not for every  *)
(* ACK or NAK it meets, nor for every listener that an earlier connection  *)
(* has left behind.  With `sasl` and `saslExternal` it does not end it     *)
(* before SASL has succeeded, or its failure is reported, on this          *)
(* connection; after that it may say CAP END again (the timer's, then one  *)
(* for the 906 that this one provokes and one for a late 904).  On a first *)
(* connection it announces a mechanism at most once, although the listener *)
(* reacts to every CAP line with the word "sasl".                          *)
NegotiatesOrderly ==
  /\ ~UsesSasl => ends <= 1
  /\ UsesSasl /\ options.method # "saslThenNickServ" /\ ends > 0 => server.loggedIn \/ reported
  /\ FirstConnection => mechanisms <= 1

(* "Errors out if SASL fails": with `sasl` and `saslExternal` a server     *)
(* registers the client only when SASL has succeeded on that very          *)
(* connection, whatever earlier ones have left behind.  The one exception  *)
(* is a server that says 451 meanwhile, to which the client always answers *)
(* with NICK and USER: it may be registered without being logged in, but   *)
(* not before the failure is reported.                                     *)
NeverUnauthenticated ==
  UsesSasl /\ options.method # "saslThenNickServ" /\ server.registered =>
    server.loggedIn \/ (server.demanded /\ reported)

(* A connection that lasts is registered or a failure is reported, unless  *)
(* the application has disabled the SASL timeout.  (With saslThenNickServ  *)
(* it may be neither, see FallsBack.)                                      *)
Settles ==
  \A e \in 1 .. MaxConnections :
    up /\ epoch = e /\ options.method # "saslThenNickServ" /\ (options.timeout \/ ~UsesSasl)
      ~> ~up \/ epoch # e \/ welcomed \/ reported

(* "Try SASL PLAIN, fallback to NickServ": a connection that lasts is      *)
(* logged in one way or the other.                                         *)
FallsBack ==
  \A e \in 1 .. MaxConnections :
    up /\ epoch = e /\ options.method = "saslThenNickServ"
      ~> ~up \/ epoch # e \/ server.loggedIn \/ server.identified
=============================================================================
