------------------------------ MODULE Messages ------------------------------
(***************************************************************************)
(* What clients say to each other: texts (plugins/privmsg.ts, notice.ts,   *)
(* message_split.ts, echo_message.ts), CTCP (ctcp.ts, action.ts, ping.ts,  *)
(* version.ts, time.ts, clientinfo.ts, dcc.ts) and tags (message_tags.ts). *)
(* Several clients, each of them a deno-irc, in one channel of an external *)
(* server. A step of a client is a call of its application or the handling *)
(* of one line, with every listener the line runs through.                 *)
(*                                                                         *)
(* A line with a CTCP in it is [ctcp |-> its command], a text has ctcp     *)
(* "none", and "tags" is what has only tags. CTCPs and tags are taken to   *)
(* fit in a line. The connections stay.                                    *)
(***************************************************************************)
EXTENDS Texts, Dcc, Tags

CONSTANTS
  Clients,     \* the clients, each named by the nick it begins with
  SpareNicks,  \* the other nicks
  Chan,        \* the channel
  Commands,    \* the methods that say a text: "privmsg", "notice", "msg"
  Sayings,     \* the texts that are said
  Queries,     \* the CTCPs that are sent: <<command, parameter>>
  Offers,      \* the DCC offers
  TagLists,    \* the tags of tagmsg(): sequences of tags with different keys
  Width,       \* the length of each nick and of the channel's name
  UserLength,  \* the length of the user name a client registers with
  UserShown,   \* the length of what the server shows of it
  Hosts,       \* the lengths of the hosts the server may show of a client
  FirstHost,   \* the length of each client's host at first
  HostDefault, \* DEFAULT_HOST_LENGTH
  MaxLength,   \* IRC_MAX_LENGTH
  MaxSaid,     \* how much is said, as long as nothing is changed
  MaxChanges   \* how many nicks and hosts are changed around one saying

ASSUME LengthsAssumption ==
  /\ Width \in [Clients \cup SpareNicks \cup {Chan} -> Nat]
  /\ {UserLength, UserShown, HostDefault, MaxLength} \cup Hosts \subseteq Nat
  /\ FirstHost \in [Clients -> Hosts]
ASSUME ChanAssumption == Chan \notin Clients \cup SpareNicks
ASSUME CommandsAssumption == Commands \subseteq {"privmsg", "notice", "msg"}
ASSUME SayingsAssumption == Sayings \subseteq Seq(STRING)
ASSUME QueriesAssumption ==
  \A q \in Queries : q[1] \in STRING \ {"none", "dcc", "tags"} /\ q[2] \in Seq(STRING)
ASSUME OffersAssumption == Offers \subseteq Command
ASSUME TagsAssumption ==
  \A tags \in TagLists :
    /\ tags \in Seq([key : Seq(STRING), given : BOOLEAN, value : Seq(STRING)])
    /\ \A i, j \in DOMAIN tags : tags[i].key = tags[j].key => i = j
ASSUME BoundsAssumption == {MaxSaid, MaxChanges} \subseteq Nat

Nicks == Clients \cup SpareNicks
NoCmd == [action |-> "none"]

VARIABLES
  echo,      \* whether the server has granted echo-message
  nick,      \* the server's nick of each client
  host,      \* the length of the host the server shows of it
  toServer,  \* lines sent and not yet relayed
  toClient,  \* lines relayed and not yet handled
  known,     \* state.user.nick of each client
  hostname,  \* the length of hostname of its message_split
  said,      \* what the applications have said (history)
  heard,     \* the events they have received (history)
  told,      \* the host each was told of last, HostDefault before (history)
  overrun,   \* whether one was shown with a longer prefix than it knew (history)
  renames,   \* how often a nick was changed (history)
  changes    \* how often a nick or a host was (history)

vars == <<echo, nick, host, toServer, toClient, known, hostname, said, heard, told,
          overrun, renames, changes>>

Init ==
  /\ echo \in BOOLEAN
  /\ nick = [c \in Clients |-> c]
  /\ host = FirstHost
  /\ toServer = [c \in Clients |-> <<>>]
  /\ toClient = [c \in Clients |-> <<>>]
  /\ known = nick
  /\ hostname = [c \in Clients |-> HostDefault]
  /\ said = <<>>
  /\ heard = [c \in Clients |-> <<>>]
  /\ told = hostname
  /\ overrun = [c \in Clients |-> FALSE]
  /\ renames = 0
  /\ changes = 0

(***************************************************************************)
(* Saying                                                                  *)
(***************************************************************************)
Verbs == [privmsg |-> "PRIVMSG", msg |-> "PRIVMSG", notice |-> "NOTICE"]
VerbLength == [PRIVMSG |-> 7, NOTICE |-> 6, TAGMSG |-> 6]

CalcOverhead_Bug_NoCrlf(nickname, hostLength, verb, target) ==
  1 + Width[nickname] + 1 + UserLength + 1 + hostLength
    + 1 + VerbLength[verb] + 1 + Width[target] + 2

\* calcOverhead(): ":nick!username@hostname COMMAND target :" and CRLF.
CalcOverhead(nickname, hostLength, verb, target) ==
  1 + Width[nickname] + 1 + UserLength + 1 + hostLength
    + 1 + VerbLength[verb] + 1 + Width[target] + 2 + 2

\* Nicks, hosts and targets leave room for any unit.
ASSUME RoomAssumption ==
  \A n \in Nicks, h \in Hosts \cup {HostDefault}, target \in Clients \cup {Chan} :
    MaxLength - CalcOverhead(n, h, "PRIVMSG", target) >= 3

\* The hooks are on privmsg and notice: msg is the method without its hook.
Parts(c, command, target, text) ==
  IF command = "msg" THEN <<text>>
  ELSE SplitMessage(text,
         MaxLength - CalcOverhead(known[c], hostname[c], Verbs[command], target))

Line(verb, target, ctcp, text) ==
  [verb |-> verb, target |-> target, ctcp |-> ctcp, text |-> text, prefix |-> 0]

\* A line of a text, with the length of the nick, the user name and the host
\* that its author had been told of when it was cut (history).
TextLine(c, verb, target, text) ==
  [verb |-> verb, target |-> target, ctcp |-> "none", text |-> text,
   prefix |-> Width[known[c]] + UserLength + told[c]]

\* The bounds: either several things are said or some nicks and hosts are
\* changed around one of them; offers and tags are sent alone.
SentAlone == \E i \in DOMAIN said : said[i].ctcp \in {"dcc", "tags"}
MoreToSay ==
  ~SentAlone /\ Len(said) < MaxSaid /\ (said = <<>> \/ changes = 0)
MoreToChange == ~SentAlone /\ Len(said) <= 1 /\ changes < MaxChanges

Log(c, verb, target, ctcp, text, offer, tags) ==
  said' = Append(said, [by |-> c, verb |-> verb, target |-> target, ctcp |-> ctcp,
                        text |-> text, offer |-> offer, tags |-> tags])

Send(c, lines) == toServer' = [toServer EXCEPT ![c] = @ \o lines]

\* privmsg(), notice() and msg().
Say(c, command, target, text) ==
  LET parts == Parts(c, command, target, text)
  IN /\ Log(c, Verbs[command], target, "none", text, NoCmd, {})
     /\ Send(c, [i \in DOMAIN parts |->
                   TextLine(c, Verbs[command], target, AsSent(parts[i]))])
     /\ UNCHANGED <<echo, nick, host, toClient, known, hostname, heard, told, overrun,
                    renames, changes>>

\* ctcp(), and action(), ping(), version(), time(), clientinfo() by it.
Query(c, target, ctcp, param) ==
  /\ Log(c, "PRIVMSG", target, ctcp, param, NoCmd, {})
  /\ Send(c, <<Line("PRIVMSG", target, ctcp, param)>>)
  /\ UNCHANGED <<echo, nick, host, toClient, known, hostname, heard, told, overrun,
                 renames, changes>>

\* dcc().
Offer(c, target, cmd) ==
  /\ Log(c, "PRIVMSG", target, "dcc", FormatDcc(cmd), cmd, {})
  /\ Send(c, <<Line("PRIVMSG", target, "dcc", FormatDcc(cmd))>>)
  /\ UNCHANGED <<echo, nick, host, toClient, known, hostname, heard, told, overrun,
                 renames, changes>>

\* tagmsg().
Tagmsg(c, target, tags) ==
  /\ Log(c, "TAGMSG", target, "tags", <<>>, NoCmd, ToSet(tags))
  /\ Send(c, <<Line("TAGMSG", target, "tags", FormatTags(tags))>>)
  /\ UNCHANGED <<echo, nick, host, toClient, known, hostname, heard, told, overrun,
                 renames, changes>>

Application ==
  /\ MoreToSay
  /\ \E c \in Clients, target \in Clients \cup {Chan} :
       /\ target # c
       /\ \/ \E command \in Commands, text \in Sayings : Say(c, command, target, text)
          \/ \E query \in Queries : Query(c, target, query[1], query[2])
          \/ /\ said = <<>> /\ changes = 0
             /\ \/ target # Chan /\ \E cmd \in Offers : Offer(c, target, cmd)
                \/ \E tags \in TagLists : Tagmsg(c, target, tags)

(***************************************************************************)
(* The server (external)                                                   *)
(***************************************************************************)
\* What the server makes of a line: the source in front, the text after
\* " :", CRLF at the end, and of a text nothing beyond the length of a line.
\* Queries, answers, offers and tags are taken to fit.
Shown(c) == Width[nick[c]] + UserShown + host[c]
Relayed(c, line) ==
  LET room == MaxLength - (1 + 1 + 1 + Shown(c) + 1 + VerbLength[line.verb]
                             + 1 + Width[line.target] + 2 + 2)
      fits == Max({k \in 0 .. Len(line.text) :
                     Bytes(SubSeq(line.text, 1, k)) <= Max({room, 0})})
      text == IF line.ctcp = "none" THEN SubSeq(line.text, 1, fits) ELSE line.text
  IN [verb |-> line.verb, author |-> c, source |-> nick[c],
      target |-> line.target, ctcp |-> line.ctcp, text |-> Decoded(text)]

\* A line reaches those it is for, and its author where echo-message is on.
\* A text of nothing is refused.
Relay(c) ==
  /\ toServer[c] # <<>>
  /\ LET sent == Head(toServer[c])
         line == Relayed(c, sent)
         empty == line.ctcp = "none" /\ line.text = <<>>
         Copies(d) ==
           (IF nick[d] = line.target \/ (line.target = Chan /\ d # c)
            THEN <<line>> ELSE <<>>)
             \o (IF echo /\ d = c THEN <<line>> ELSE <<>>)
     IN /\ toClient' = IF empty THEN toClient
                       ELSE [d \in Clients |-> toClient[d] \o Copies(d)]
        /\ overrun' = [overrun EXCEPT ![c] =
                        @ \/ (sent.ctcp = "none" /\ Shown(c) > sent.prefix)]
  /\ toServer' = [toServer EXCEPT ![c] = Tail(@)]
  /\ UNCHANGED <<echo, nick, host, known, hostname, said, heard, told, renames, changes>>

Notice(verb, c, target) ==
  [verb |-> verb, author |-> c, source |-> nick[c], target |-> target,
   ctcp |-> "none", text |-> <<>>]

\* A client is renamed, and everyone in the channel told.
Rename(c, n) ==
  /\ MoreToChange
  /\ n \notin {nick[d] : d \in Clients}
  /\ renames' = renames + 1
  /\ changes' = changes + 1
  /\ nick' = [nick EXCEPT ![c] = n]
  /\ toClient' = [d \in Clients |-> Append(toClient[d], Notice("NICK", c, n))]
  /\ UNCHANGED <<echo, host, toServer, known, hostname, said, heard, told, overrun>>

\* The server shows another host of a client, and tells it (RPL_HOSTHIDDEN).
HideHost(c, h) ==
  /\ MoreToChange
  /\ h # host[c]
  /\ changes' = changes + 1
  /\ host' = [host EXCEPT ![c] = h]
  /\ toClient' = [toClient EXCEPT ![c] = Append(@, Notice("396", c, h))]
  /\ UNCHANGED <<echo, nick, toServer, known, hostname, said, heard, told, overrun,
                 renames>>

\* It does so without that: by a CHGHOST, which message_split does not read,
\* or by none at all.
ShowHost(c, h) ==
  /\ MoreToChange
  /\ h # host[c]
  /\ changes' = changes + 1
  /\ host' = [host EXCEPT ![c] = h]
  /\ UNCHANGED <<echo, nick, toServer, toClient, known, hostname, said, heard, told,
                 overrun, renames>>

Server ==
  \/ \E c \in Clients : Relay(c)
  \/ \E c \in Clients, h \in Hosts : HideHost(c, h) \/ ShowHost(c, h)
  \/ \E c \in Clients, n \in Nicks : Rename(c, n)

(***************************************************************************)
(* Hearing: what the listeners of one line emit and send                   *)
(***************************************************************************)
Event(name, line, offer, tags) ==
  [event |-> name, from |-> line.author, verb |-> line.verb,
   chan |-> line.target = Chan, text |-> line.text, offer |-> offer, tags |-> tags]

Nothing == [events |-> <<>>, sends |-> <<>>]
Emits(name, line) == [events |-> <<Event(name, line, NoCmd, {})>>, sends |-> <<>>]

\* Emits the query and answers it with a NOTICE to its source.
Answers(name, line, reply) ==
  [events |-> <<Event(name, line, NoCmd, {})>>,
   sends |-> <<Line("NOTICE", line.source, line.ctcp, reply)>>]

OnText_Bug_FirstNick(c, line) ==
  IF line.source = c THEN Emits("echo", line) ELSE Emits("message", line)

\* privmsg and notice: the hook of echo_message turns the client's own into
\* an echo.
OnText(c, line) ==
  IF line.source = known[c] THEN Emits("echo", line) ELSE Emits("message", line)

OnAction(line) ==
  IF line.verb = "PRIVMSG" /\ line.text # <<>> THEN Emits("ctcp_action", line)
  ELSE Nothing

OnPing(line) ==
  CASE line.verb = "NOTICE" -> Emits("ctcp_ping_reply", line)
    [] line.verb = "PRIVMSG" /\ line.text # <<>> -> Answers("ctcp_ping", line, line.text)
    [] OTHER -> Nothing

OnVersion_Bug_AnswersAll(line) ==
  IF line.verb = "NOTICE" THEN Answers("ctcp_version_reply", line, <<"DEFAULT_VERSION">>)
  ELSE Answers("ctcp_version", line, <<"DEFAULT_VERSION">>)

OnVersion(line) ==
  IF line.verb = "NOTICE" THEN Emits("ctcp_version_reply", line)
  ELSE Answers("ctcp_version", line, <<"DEFAULT_VERSION">>)

OnTime(line) ==
  IF line.verb = "NOTICE" THEN Emits("ctcp_time_reply", line)
  ELSE Answers("ctcp_time", line, <<"now">>)

OnClientinfo(line) ==
  IF line.verb = "NOTICE" THEN Emits("ctcp_clientinfo_reply", line)
  ELSE Answers("ctcp_clientinfo", line, <<"PING", " ", "TIME", " ", "VERSION">>)

\* Offers are read in a NOTICE as well; what createDcc() cannot read is dropped.
OnDcc(line) ==
  IF CreateDcc(line.text) = NoOffer THEN Nothing
  ELSE [events |-> <<Event("dcc", line, CreateDcc(line.text), {})>>, sends |-> <<>>]

\* The hook of echo_message leaves these alone.
OnTagmsg(line) ==
  [events |-> <<Event("tagmsg", line, NoCmd, ParseTags(line.text))>>, sends |-> <<>>]

\* The listeners of raw:privmsg and raw:notice, that of ctcp or those of
\* privmsg and notice, and the one of raw:tagmsg. A command that is not in
\* CTCP_COMMANDS has no listener.
Listeners(c, line) ==
  CASE line.ctcp = "none" -> OnText(c, line)
    [] line.ctcp = "action" -> OnAction(line)
    [] line.ctcp = "ping" -> OnPing(line)
    [] line.ctcp = "version" -> OnVersion(line)
    [] line.ctcp = "time" -> OnTime(line)
    [] line.ctcp = "clientinfo" -> OnClientinfo(line)
    [] line.ctcp = "dcc" -> OnDcc(line)
    [] line.ctcp = "tags" -> OnTagmsg(line)
    [] OTHER -> Nothing

ReceiveMessage(c) ==
  LET line == Head(toClient[c])
      effect == Listeners(c, line)
  IN /\ line.verb \in DOMAIN VerbLength
     /\ heard' = [heard EXCEPT ![c] = @ \o effect.events]
     /\ Send(c, effect.sends)
     /\ UNCHANGED <<known, hostname, told>>

\* registration.ts follows the own nick.
ReceiveNick(c) ==
  LET line == Head(toClient[c])
  IN /\ line.verb = "NICK"
     /\ known' = IF line.source = known[c] THEN [known EXCEPT ![c] = line.target]
                 ELSE known
     /\ UNCHANGED <<hostname, heard, told, toServer>>

\* message_split.ts follows the host.
ReceiveHost(c) ==
  LET line == Head(toClient[c])
  IN /\ line.verb = "396"
     /\ hostname' = [hostname EXCEPT ![c] = line.target]
     /\ told' = [told EXCEPT ![c] = line.target]
     /\ UNCHANGED <<known, heard, toServer>>

Receive(c) ==
  /\ toClient[c] # <<>>
  /\ ReceiveMessage(c) \/ ReceiveNick(c) \/ ReceiveHost(c)
  /\ toClient' = [toClient EXCEPT ![c] = Tail(@)]
  /\ UNCHANGED <<echo, nick, host, said, overrun, renames, changes>>

Next == Application \/ Server \/ \E c \in Clients : Receive(c)

Spec == Init /\ [][Next]_vars

(***************************************************************************)
(* Properties                                                              *)
(***************************************************************************)
Idle == \A c \in Clients : toServer[c] = <<>> /\ toClient[c] = <<>>

\* What is said in the channel arrives; what is said to a nick does as long
\* as nobody is renamed.
Arrives(target, d) == target = Chan \/ (target = d /\ renames = 0)

\* What the things said by c contribute to a sequence for d, and what the
\* events of c contribute to it at d.
OfSaid(c, d, Part(_)) ==
  FlattenSeq([i \in DOMAIN said |->
    IF said[i].by = c /\ c # d /\ Arrives(said[i].target, d) THEN Part(said[i]) ELSE <<>>])
OfHeard(c, d, Part(_)) ==
  FlattenSeq([i \in DOMAIN heard[d] |->
    IF heard[d][i].from = c /\ c # d /\ (heard[d][i].chan \/ renames = 0)
    THEN Part(heard[d][i]) ELSE <<>>])

Arrive(c, d, Made(_), Taken(_)) ==
  /\ IsPrefix(OfHeard(c, d, Taken), OfSaid(c, d, Made))
  /\ Idle => OfHeard(c, d, Taken) = OfSaid(c, d, Made)

Words(text) ==
  FlattenSeq([i \in DOMAIN text |-> IF text[i] = Space THEN <<>> ELSE <<text[i]>>])

SaidWords(s) == IF s.ctcp = "none" THEN Words(s.text) ELSE <<>>
HeardWords(h) == IF h.event = "message" THEN Words(h.text) ELSE <<>>

\* Texts that are said by the methods that cut them, and can be read where
\* they are cut. The properties of texts are about these.
PlainSayings == Commands \subseteq {"privmsg", "notice"} /\ \A text \in Sayings : Readable(text)

\* Offers and tags that can be written: a file has a name, a key is not
\* taken for a separator, and nothing has half of a pair, which no reader
\* decodes as it was. The property of offers and tags is about these.
PlainTag(tag) ==
  /\ tag.key # <<>> /\ \A i \in DOMAIN tag.key : tag.key[i] \notin {"=", ";", " "}
  /\ ~tag.given => tag.value = <<>>
PlainData ==
  /\ \A cmd \in Offers : NoHalves(cmd.file) /\ (HasFile(cmd.action) => cmd.file # <<>>)
  /\ \A tags \in TagLists : \A i \in DOMAIN tags :
       PlainTag(tags[i]) /\ NoHalves(tags[i].key) /\ NoHalves(tags[i].value)

\* Whatever the split, the prefixes and the truncation at the length of a
\* line do, everyone hears the words that were said, whole and in order: a
\* part that is too long would be truncated, one cut or prefixed wrongly
\* would be missing a unit. Spaces may be lost where a text was cut.
\* Of a client that was shown, with some line of a text, by a longer prefix
\* than it had been told of when it cut the text, nothing is said: a nick
\* change, a host or a user name that it did not read of by then makes the
\* server truncate (message_split.ts).
TextArrives ==
  \A c, d \in Clients : ~overrun[c] => Arrive(c, d, SaidWords, HeardWords)

\* With echo-message a client hears itself, but never as a message of
\* somebody else, nor somebody else as its echo, while nicks are changed and
\* taken over (echo_message.ts).
EchoIsOwn ==
  \A c \in Clients : \A i \in DOMAIN heard[c] :
    /\ heard[c][i].event = "message" => heard[c][i].from # c
    /\ heard[c][i].event = "echo" => heard[c][i].from = c

\* The kinds of the queries that are answered, and of the answers.
Asked(ctcp, text) ==
  IF ctcp \in {"version", "time", "clientinfo"} \/ (ctcp = "ping" /\ text # <<>>)
  THEN <<ctcp>> ELSE <<>>
AnswerTo ==
  [ctcp_ping_reply |-> "ping", ctcp_version_reply |-> "version",
   ctcp_time_reply |-> "time", ctcp_clientinfo_reply |-> "clientinfo"]

SaidQueries(s) == Asked(s.ctcp, s.text)
HeardAnswers(h) == IF h.event \in DOMAIN AnswerTo THEN <<AnswerTo[h.event]>> ELSE <<>>

\* Everyone a query reaches answers it once, in the order of the queries and
\* each by its own kind: never more answers than queries, so that two clients
\* of this kind never answer each other's answers for ever, and as many once
\* all is delivered and nobody was renamed (ctcp.ts, ping.ts, version.ts,
\* time.ts, clientinfo.ts).
AnsweredOnce ==
  renames = 0 => \A c, d \in Clients :
    LET queries == OfSaid(c, d, SaidQueries)
        answers == OfHeard(d, c, HeardAnswers)
    IN /\ IsPrefix(answers, queries)
       /\ Idle => answers = queries

SaidOffers(s) ==
  IF s.ctcp = "dcc" /\ Meaning(s.offer) # NoOffer THEN <<Meaning(s.offer)>> ELSE <<>>
HeardOffers(h) == IF h.event = "dcc" THEN <<h.offer>> ELSE <<>>
SaidTags(s) == IF s.ctcp = "tags" THEN <<s.tags>> ELSE <<>>
HeardTags(h) == IF h.event = "tagmsg" THEN <<h.tags>> ELSE <<>>

\* An offer means to its reader what it means to its writer, whatever is in
\* the file name, however the host is spelt, passive or not; what has no
\* meaning is not reported (dcc.ts).  The tags that are read are the tags that
\* were set, with and without a value: what separates and escapes on the wire
\* does not show (parsers.ts, client.ts).
DataArrives ==
  renames = 0 => \A c, d \in Clients :
    /\ Arrive(c, d, SaidOffers, HeardOffers)
    /\ Arrive(c, d, SaidTags, HeardTags)
=============================================================================
