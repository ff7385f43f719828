----------------------------- MODULE Collectors -----------------------------
(***************************************************************************)
(* Replies of several lines, which plugins collect and report at the last: *)
(* who.ts, whois.ts, list.ts, motd.ts, monitor.ts, names.ts with           *)
(* userhost_in_names.ts, and batch.ts, which collects whatever a server    *)
(* puts in a batch and keeps it from all others.                           *)
(*                                                                         *)
(* The server answers the requests of one kind one after the other, those  *)
(* of different kinds at the same time.  A line carries, besides what the  *)
(* plugins read, the number of the request and of the connection it was    *)
(* sent for.  The order within a reply is left out.                        *)
(***************************************************************************)
EXTENDS Naturals, Sequences, FiniteSets

CONSTANTS
  Channel, Nick,
  Token,           \* the tokens that an application may give, which are numbers
  Field,           \* the first fields of a WHOX reply without a token
  Server,          \* what servers do: see CollectorsAssumption
  MaxConnections,  \* bound: connections made
  MaxRequests,     \* bound: requests of the client
  MaxParts,        \* bound: lines between the first and the last of a reply
  MaxAways         \* bound: messages to a nick that is away

(* Does the server send RPL_LISTSTART, the masks of userhost-in-names, and *)
(* the token of WHOX?  No channel or nick looks like a token.              *)
ASSUME CollectorsAssumption ==
  /\ Server \subseteq [liststart : BOOLEAN, masks : BOOLEAN, token : BOOLEAN]
  /\ MaxParts \in Nat /\ Token \subseteq Nat \ {0}
  /\ \A target \in Channel \cup Nick : target \notin Nat

Kind == {"who", "whois", "away", "list", "motd", "monitor", "names"}

VARIABLES
  up, server,      \* is there a connection, and what its server does
  connections, requests, aways,  \* bounds: how many so far
  answers,         \* lines sent by the server and not yet read, by kind
  whoBuffers, tokenMap, tokenCounter,  \* of who.ts
  disputed,        \* history: the requests whose token was taken for another target
  whoisBuffers,    \* `buffers` of whois.ts: the fields of each nick
  listBuffer,      \* `buffer` of list.ts
  motd,            \* `motd` of motd.ts
  monitorBuffer,   \* `listBuffer` of monitor.ts
  namesBuffers,    \* `buffers` of names.ts
  userhostBuffers, \* `buffers` of userhost_in_names.ts
  userhosts,       \* state.userhosts
  batches,         \* state.batches: the messages of each open batch
  event,           \* history: the last line of a reply, if this step has read one,
                   \* and the lines that were reported for it
  listed           \* history: the masks listed last on this connection

serverVars == <<up, server, connections, requests, aways>>
whoVars == <<whoBuffers, tokenMap, tokenCounter, disputed>>
plainVars == <<listBuffer, motd, monitorBuffer>>
namesVars == <<namesBuffers, userhostBuffers, userhosts, listed>>
vars == <<serverVars, answers, whoVars, whoisBuffers, plainVars, namesVars, batches, event>>

With(f, k, v) == [x \in DOMAIN f \cup {k} |-> IF x = k THEN v ELSE f[x]]
Without(f, k) == [x \in DOMAIN f \ {k} |-> f[x]]
At(f, k) == IF k \in DOMAIN f THEN f[k] ELSE {}
Collect(f, k, line) == With(f, k, At(f, k) \cup {line})
Nothing == [k \in {} |-> {}]
NoEvent == [last |-> "none"]
Untagged == <<>>

Init == /\ up = FALSE /\ server \in Server
        /\ connections = 0 /\ requests = 0 /\ aways = 0
        /\ answers = [k \in Kind |-> <<>>]
        /\ whoBuffers = Nothing /\ tokenMap = Nothing /\ tokenCounter = 0
        /\ disputed = {}
        /\ whoisBuffers = Nothing
        /\ listBuffer = {} /\ motd = {} /\ monitorBuffer = {}
        /\ namesBuffers = Nothing /\ userhostBuffers = Nothing
        /\ userhosts = Nothing /\ listed = Nothing
        /\ batches = Nothing
        /\ event = NoEvent

-----------------------------------------------------------------------------
(* The answers of a server.  A reply is a first line, if there is one, its *)
(* parts, which the plugins keep under `key`, and a last line.  It         *)
(* remembers which parts there were, and if the plugin can be expected to  *)
(* find them (`sound`).                                                    *)
Part(command, key, target, n) ==
  [command |-> command, key |-> key, target |-> target, part |-> n,
   request |-> requests + 1, connection |-> connections, batch |-> Untagged]
First(command) == <<[command |-> command, batch |-> Untagged]>>
Last(command, key, parts, sound) ==
  [command |-> command, key |-> key, sent |-> {parts[i] : i \in DOMAIN parts},
   sound |-> sound, batch |-> Untagged]
Reply(part, key, n, last) ==
  LET parts == [i \in 1 .. n |-> Part(part, key, key, i)]
  IN  Append(parts, Last(last, key, parts, TRUE))

(* With a label, or when it likes, a server puts a reply in a batch, part  *)
(* of it in one within.  The batches of a kind are always called the same. *)
BatchLine(sign, ref, inside, lines) ==
  [command |-> "BATCH", sign |-> sign, key |-> ref, batch |-> inside,
   sent |-> {lines[i] : i \in DOMAIN lines}, sound |-> TRUE]

InBatches(kind, lines) ==
  LET tagged(ref, some) == [i \in DOMAIN some |-> [some[i] EXCEPT !.batch = ref]]
      inner == tagged(<<kind, 2>>, SubSeq(lines, 1, 1))
      outer == tagged(<<kind, 1>>, Tail(lines))
  IN  <<BatchLine("+", <<kind, 1>>, Untagged, <<>>), BatchLine("+", <<kind, 2>>, <<kind, 1>>, <<>>)>>
      \o inner \o <<BatchLine("-", <<kind, 2>>, <<kind, 1>>, inner)>>
      \o outer \o <<BatchLine("-", <<kind, 1>>, Untagged, outer)>>

Answer(kind, lines, batched) ==
  answers' = [answers EXCEPT ![kind] = @ \o IF batched THEN InBatches(kind, lines) ELSE lines]

(* A request of the application.                                           *)
Requests == /\ up /\ requests < MaxRequests
            /\ requests' = requests + 1
            /\ event' = NoEvent
            /\ UNCHANGED <<up, server, connections, aways, whoBuffers, whoisBuffers, plainVars,
                           namesVars, batches>>
NoTokens == UNCHANGED <<tokenMap, tokenCounter, disputed>>

(* who(), of a channel or of a nick, whose line names some channel.        *)
AskWho(target, where, n, batched) ==
  /\ Requests /\ NoTokens
  /\ LET parts == [i \in 1 .. n |-> Part("RPL_WHOREPLY", where, target, i)]
     IN  Answer("who", Append(parts, Last("RPL_ENDOFWHO", target, parts, where = target)), batched)

(* The token of a who() with fields: the one that the application gives,   *)
(* whether it is in use or not, or the next number.  A reply that is on    *)
(* its way with this token, to a WHO of another target, is in dispute.     *)
Drawn == 0
TokenOf(given) == IF given = Drawn THEN tokenCounter + 1 ELSE given

Draws(target, given) ==
  LET token == TokenOf(given)
      lines == {answers["who"][i] : i \in DOMAIN answers["who"]}
  IN  /\ tokenCounter' = IF given = Drawn THEN tokenCounter + 1 ELSE tokenCounter
      /\ tokenMap' = With(tokenMap, token, target)
      /\ disputed' = disputed \cup {line.request : line \in
                        {l \in lines : /\ l.command = "RPL_WHOSPCRPL" /\ l.batch = Untagged
                                       /\ l.key = token /\ l.target # target}}

(* A server that sends no token begins with the first of the fields: with  *)
(* a channel, or with a user name, which may be like a nick or a token.    *)
(* And the tokens of a target are forgotten when a WHO of it ends.         *)
FirstFields(token, n) == IF server.token THEN {[i \in 1 .. n |-> token]} ELSE [1 .. n -> Field]

AskWhox(target, given, n, batched) ==
  /\ Requests
  /\ Draws(target, given)
  /\ \E fields \in FirstFields(TokenOf(given), n) :
       LET parts == [i \in 1 .. n |-> Part("RPL_WHOSPCRPL", fields[i], target, i)]
           alone == \A i \in DOMAIN answers["who"] :
                      LET line == answers["who"][i]
                      IN  line.command = "RPL_ENDOFWHO" => line.key # target
       IN  Answer("who", Append(parts, Last("RPL_ENDOFWHO", target, parts, server.token /\ alone)),
                  batched)

(* Without a connection only the token is remembered: send() fails.        *)
AskWhoxUnsent(target, given) ==
  /\ ~up /\ requests < MaxRequests
  /\ requests' = requests + 1
  /\ Draws(target, given)
  /\ event' = NoEvent
  /\ UNCHANGED <<up, server, connections, aways, answers, whoBuffers, whoisBuffers, plainVars,
                 namesVars, batches>>

(* whois(), the second of whose lines says that the nick is away.          *)
AwayPart == 2
AskWhois(nick, n, batched) ==
  /\ Requests /\ NoTokens
  /\ Answer("whois", Reply("RPL_WHOIS", nick, n, "RPL_ENDOFWHOIS"), batched)

AskList(n, batched) ==
  /\ Requests /\ NoTokens
  /\ LET start == IF server.liststart THEN First("RPL_LISTSTART") ELSE <<>>
     IN  Answer("list", start \o Reply("RPL_LIST", "", n, "RPL_LISTEND"), batched)

AskMotd(n, batched) ==
  /\ Requests /\ NoTokens
  /\ Answer("motd", IF n = 0 THEN Reply("", "", 0, "ERR_NOMOTD")
                    ELSE First("RPL_MOTDSTART") \o Reply("RPL_MOTD", "", n, "RPL_ENDOFMOTD"), batched)

AskMonitor(n, batched) ==
  /\ Requests /\ NoTokens
  /\ Answer("monitor", Reply("RPL_MONLIST", "", n, "RPL_ENDOFMONLIST"), batched)

AskNames(channel, n, batched) ==
  /\ Requests /\ NoTokens
  /\ Answer("names", Reply("RPL_NAMREPLY", channel, n, "RPL_ENDOFNAMES"), batched)

(* A message to a nick that is away is answered by a line of WHOIS.        *)
WritesToAway(nick) ==
  /\ up /\ aways < MaxAways
  /\ aways' = aways + 1
  /\ answers' = [answers EXCEPT !["away"] =
                   Append(@, [Part("RPL_WHOIS", nick, nick, AwayPart) EXCEPT !.request = 0])]
  /\ event' = NoEvent
  /\ UNCHANGED <<up, server, connections, requests, whoVars, whoisBuffers, plainVars, namesVars, batches>>

-----------------------------------------------------------------------------
Connects(s) ==
  /\ ~up /\ connections < MaxConnections
  /\ up' = TRUE /\ server' = s /\ connections' = connections + 1
  /\ event' = NoEvent
  /\ UNCHANGED <<requests, aways, answers, whoVars, whoisBuffers, plainVars, namesVars, batches>>

(* "disconnected", with lines that were not read.  who.ts, monitor.ts,     *)
(* userhost_in_names.ts and batch.ts forget; whois.ts, list.ts, motd.ts    *)
(* and names.ts do not.                                                    *)
Forgets_Bug_KeepsBuffers ==
  /\ whoBuffers' = Nothing /\ tokenMap' = Nothing
  /\ monitorBuffer' = {}
  /\ userhosts' = Nothing
  /\ batches' = Nothing
  /\ UNCHANGED userhostBuffers
Forgets ==
  /\ whoBuffers' = Nothing /\ tokenMap' = Nothing
  /\ monitorBuffer' = {}
  /\ userhosts' = Nothing /\ userhostBuffers' = Nothing
  /\ batches' = Nothing

Disconnected ==
  /\ up /\ connections < MaxConnections
  /\ up' = FALSE
  /\ answers' = [k \in Kind |-> <<>>]
  /\ Forgets
  /\ listed' = Nothing
  /\ event' = NoEvent
  /\ UNCHANGED <<server, connections, requests, aways, tokenCounter, disputed, whoisBuffers, listBuffer,
                 motd, namesBuffers>>

-----------------------------------------------------------------------------
(* The client reads a line of a kind: raw:* is emitted.                    *)
Line(kind) == Head(answers[kind])
Hidden(line) == line.command # "BATCH" /\ line.batch \in DOMAIN batches

Takes(kind) == /\ answers[kind] # <<>>
               /\ answers' = [answers EXCEPT ![kind] = Tail(@)]
               /\ UNCHANGED serverVars
Reads(kind, command) == /\ Takes(kind)
                        /\ Line(kind).command = command /\ ~Hidden(Line(kind))
Silently == event' = NoEvent
Reports(kind, lines) == event' = [last |-> Line(kind), lines |-> lines]

(* The hook of batch.ts on emit().                                         *)
CollectsInBatch(kind) ==
  /\ Takes(kind) /\ Hidden(Line(kind))
  /\ batches' = [batches EXCEPT ![Line(kind).batch] = @ \cup {Line(kind)}]
  /\ Silently
  /\ UNCHANGED <<whoVars, whoisBuffers, plainVars, namesVars>>

OnBatch(kind) ==
  /\ Reads(kind, "BATCH")
  /\ LET ref == Line(kind).key
     IN  IF Line(kind).sign = "+"
         THEN batches' = With(batches, ref, {}) /\ Silently
         ELSE /\ batches' = Without(batches, ref)
              /\ IF ref \in DOMAIN batches THEN Reports(kind, batches[ref]) ELSE Silently
  /\ UNCHANGED <<whoVars, whoisBuffers, plainVars, namesVars>>

OnWhoreply ==
  /\ Reads("who", "RPL_WHOREPLY")
  /\ whoBuffers' = Collect(whoBuffers, Line("who").key, Line("who"))
  /\ Silently
  /\ UNCHANGED <<tokenMap, tokenCounter, disputed, whoisBuffers, plainVars, namesVars, batches>>

OnWhospcrpl ==
  /\ Reads("who", "RPL_WHOSPCRPL")
  /\ LET token == Line("who").key
         target == IF token \in DOMAIN tokenMap THEN tokenMap[token] ELSE token
     IN  whoBuffers' = Collect(whoBuffers, target, Line("who"))
  /\ Silently
  /\ UNCHANGED <<tokenMap, tokenCounter, disputed, whoisBuffers, plainVars, namesVars, batches>>

OnEndofwho ==
  /\ Reads("who", "RPL_ENDOFWHO")
  /\ LET target == Line("who").key
     IN  /\ Reports("who", At(whoBuffers, target))
         /\ whoBuffers' = Without(whoBuffers, target)
         /\ tokenMap' = [t \in {t \in DOMAIN tokenMap : tokenMap[t] # target} |-> tokenMap[t]]
  /\ UNCHANGED <<tokenCounter, disputed, whoisBuffers, plainVars, namesVars, batches>>

(* The listeners of RPL_WHOISUSER, RPL_AWAY and so on: each sets its field.*)
OnWhois(kind) ==
  /\ Reads(kind, "RPL_WHOIS")
  /\ LET nick == Line(kind).key
         others == {line \in At(whoisBuffers, nick) : line.part # Line(kind).part}
     IN  whoisBuffers' = With(whoisBuffers, nick, others \cup {Line(kind)})
  /\ Silently
  /\ UNCHANGED <<whoVars, plainVars, namesVars, batches>>

OnEndofwhois_Bug_Keeps ==
  /\ Reads("whois", "RPL_ENDOFWHOIS")
  /\ Reports("whois", At(whoisBuffers, Line("whois").key))
  /\ UNCHANGED <<whoisBuffers, whoVars, plainVars, namesVars, batches>>
OnEndofwhois ==
  /\ Reads("whois", "RPL_ENDOFWHOIS")
  /\ Reports("whois", At(whoisBuffers, Line("whois").key))
  /\ whoisBuffers' = Without(whoisBuffers, Line("whois").key)
  /\ UNCHANGED <<whoVars, plainVars, namesVars, batches>>

OnListstart == /\ Reads("list", "RPL_LISTSTART") /\ listBuffer' = {} /\ Silently
               /\ UNCHANGED <<whoVars, whoisBuffers, motd, monitorBuffer, namesVars, batches>>
OnListLine == /\ Reads("list", "RPL_LIST") /\ listBuffer' = listBuffer \cup {Line("list")} /\ Silently
              /\ UNCHANGED <<whoVars, whoisBuffers, motd, monitorBuffer, namesVars, batches>>
OnListend == /\ Reads("list", "RPL_LISTEND") /\ listBuffer' = {} /\ Reports("list", listBuffer)
             /\ UNCHANGED <<whoVars, whoisBuffers, motd, monitorBuffer, namesVars, batches>>

OnMotdstart == /\ Reads("motd", "RPL_MOTDSTART") /\ motd' = {} /\ Silently
               /\ UNCHANGED <<whoVars, whoisBuffers, listBuffer, monitorBuffer, namesVars, batches>>
OnMotdLine == /\ Reads("motd", "RPL_MOTD") /\ motd' = motd \cup {Line("motd")} /\ Silently
              /\ UNCHANGED <<whoVars, whoisBuffers, listBuffer, monitorBuffer, namesVars, batches>>
OnEndofmotd == /\ Reads("motd", "RPL_ENDOFMOTD") /\ Reports("motd", motd)
               /\ UNCHANGED <<whoVars, whoisBuffers, plainVars, namesVars, batches>>
OnNomotd == /\ Reads("motd", "ERR_NOMOTD") /\ Reports("motd", {})
            /\ UNCHANGED <<whoVars, whoisBuffers, plainVars, namesVars, batches>>

OnMonlist == /\ Reads("monitor", "RPL_MONLIST") /\ Silently
             /\ monitorBuffer' = monitorBuffer \cup {Line("monitor")}
             /\ UNCHANGED <<whoVars, whoisBuffers, listBuffer, motd, namesVars, batches>>
OnEndofmonlist == /\ Reads("monitor", "RPL_ENDOFMONLIST") /\ Reports("monitor", monitorBuffer)
                  /\ monitorBuffer' = {}
                  /\ UNCHANGED <<whoVars, whoisBuffers, listBuffer, motd, namesVars, batches>>

(* Both plugins collect; a line without masks leaves an empty buffer.      *)
OnNamreply ==
  /\ Reads("names", "RPL_NAMREPLY")
  /\ LET line == Line("names")
         masks == IF server.masks THEN {line} ELSE {}
     IN  /\ namesBuffers' = Collect(namesBuffers, line.key, line)
         /\ userhostBuffers' = With(userhostBuffers, line.key, At(userhostBuffers, line.key) \cup masks)
  /\ Silently
  /\ UNCHANGED <<userhosts, listed, whoVars, whoisBuffers, plainVars, batches>>

(* names.ts emits "names_reply" if it has a buffer, and userhost_in_names  *)
(* hears it.                                                               *)
OnEndofnames ==
  /\ Reads("names", "RPL_ENDOFNAMES")
  /\ LET c == Line("names").key
         sent == Line("names").sent
     IN  /\ Reports("names", At(namesBuffers, c))
         /\ namesBuffers' = Without(namesBuffers, c)
         /\ IF c \in DOMAIN namesBuffers \cap DOMAIN userhostBuffers
            THEN /\ userhosts' = With(userhosts, c, userhostBuffers[c])
                 /\ userhostBuffers' = Without(userhostBuffers, c)
            ELSE UNCHANGED <<userhosts, userhostBuffers>>
         /\ listed' = IF sent = {} THEN listed
                      ELSE With(listed, c, IF server.masks THEN sent ELSE {})
  /\ UNCHANGED <<whoVars, whoisBuffers, plainVars, batches>>

-----------------------------------------------------------------------------
Application ==
  \E n \in 0 .. MaxParts, batched \in BOOLEAN :
    \/ \E target \in Channel \cup Nick, where \in Channel : AskWho(target, where, n, batched)
    \/ \E target \in Channel, given \in {Drawn} \cup Token : AskWhox(target, given, n, batched)
    \/ \E nick \in Nick : AskWhois(nick, n, batched)
    \/ AskList(n, batched) \/ AskMotd(n, batched) \/ AskMonitor(n, batched)
    \/ \E channel \in Channel : AskNames(channel, n, batched)

Reader == \/ \E kind \in Kind : CollectsInBatch(kind) \/ OnBatch(kind)
          \/ OnWhoreply \/ OnWhospcrpl \/ OnEndofwho
          \/ OnWhois("whois") \/ OnWhois("away") \/ OnEndofwhois
          \/ OnListstart \/ OnListLine \/ OnListend
          \/ OnMotdstart \/ OnMotdLine \/ OnEndofmotd \/ OnNomotd
          \/ OnMonlist \/ OnEndofmonlist
          \/ OnNamreply \/ OnEndofnames

Next == \/ \E s \in Server : Connects(s)
        \/ Disconnected
        \/ Application
        \/ \E target \in Channel, given \in {Drawn} \cup Token : AskWhoxUnsent(target, given)
        \/ \E nick \in Nick : WritesToAway(nick)
        \/ Reader

Spec == Init /\ [][Next]_vars

-----------------------------------------------------------------------------
(* What a plugin may report besides the lines of the request: who.ts those *)
(* of a WHO of a nick, which it keeps under a channel, those whose token   *)
(* was taken for this target before they were read, and those without a    *)
(* token whose first field is the target or looks like a token; whois.ts a *)
(* line nobody asked for; whois.ts, names.ts and, if the server sends no   *)
(* RPL_LISTSTART, list.ts those of a connection that was lost.             *)
Mistaken(last, line) ==
  \/ line.request \in disputed
  \/ ~server.token /\ (line.key = last.key \/ line.key \in Nat)
Foreign(last, line) ==
  LET left == line.connection # connections
  IN  CASE last.command = "RPL_ENDOFWHO" ->
             /\ ~left
             /\ \/ line.command = "RPL_WHOREPLY" /\ line.key = last.key /\ line.target # line.key
                \/ line.command = "RPL_WHOSPCRPL" /\ Mistaken(last, line)
        [] last.command = "RPL_ENDOFWHOIS" -> line.key = last.key /\ (line.request = 0 \/ left)
        [] last.command = "RPL_LISTEND" -> left /\ ~server.liststart
        [] last.command = "RPL_ENDOFNAMES" -> line.key = last.key /\ left
        [] OTHER -> FALSE

(* "Emitted when the full reply has been received": when the last line of  *)
(* a reply is read, all lines of that request are reported, and none that  *)
(* was sent for another, whatever came in between, was lost with a         *)
(* connection or was taken by a batch; but for what `sound`, `disputed`    *)
(* and Foreign leave out: two requests of who() are not mixed up unless    *)
(* the second has the token of the first while its reply is on the way, or *)
(* the server sends no tokens.                                             *)
RepliesAreExact ==
  event # NoEvent =>
    LET last == event.last
        replaced(line, other) == line.request = 0 /\ line.part = other.part
    IN  /\ last.sound => \A line \in last.sent :
             \/ line \in event.lines \/ line.request \in disputed
             \/ \E other \in event.lines : replaced(other, line)
        /\ \A line \in event.lines \ last.sent : Foreign(last, line)

(* state.userhosts has the masks of the last NAMES of a channel on this    *)
(* connection, and nothing of a connection before.                         *)
UserhostsFollowNames == userhosts = listed
=============================================================================
