------------------------------ MODULE Channels ------------------------------
(***************************************************************************)
(* The lists of nicknames: plugins/nicklist.ts with what it is fed by,     *)
(* names.ts, mode.ts, chanmodes.ts, join.ts, part.ts, kick.ts, quit.ts,    *)
(* nick.ts, kill.ts, the nick of registration.ts and the hook of batch.ts, *)
(* against a server that keeps the membership of the channels.             *)
(*                                                                         *)
(* Nothing the client does changes the membership while it reads, so the   *)
(* server takes its next step when its lines have been read; only the      *)
(* connection may be lost between two lines.                               *)
(***************************************************************************)
EXTENDS Integers, SequencesExt

CONSTANTS
  Nick, Channel,
  Profile,         \* the kinds of servers: their modes and prefixes
  MaxConnections,  \* bound: connections made
  MaxChanges       \* bound: what happens on the server while connected

(* A profile has the type of each of its channel modes, "a" to "d" as in   *)
(* CHANMODES; those of PREFIX are of type "b".  `ranks` are the modes of   *)
(* PREFIX, the highest first, operators among them.                        *)
Rank == {"q", "o", "h", "v"}
ASSUME ChannelsAssumption ==
  /\ IsFiniteSet(Nick)
  /\ \A p \in Profile : /\ DOMAIN p = {"types", "ranks"}
                        /\ p.ranks \in Seq(Rank) /\ IsInjective(p.ranks)
                        /\ \E i \in DOMAIN p.ranks : p.ranks[i] = "o"
                        /\ \A i \in DOMAIN p.ranks : /\ p.ranks[i] \in DOMAIN p.types
                                                    /\ p.types[p.ranks[i]] = "b"
  /\ MaxConnections \in Nat /\ MaxChanges \in Nat

VARIABLES
  session,     \* "none", "up", or "over" when the client was killed
  server,      \* the profile of the server
  me,          \* the nick of the client on the server
  online,      \* the nicks in use
  members,     \* the nicks in each channel, with the modes they have
  lines,       \* lines sent by the server and not yet read
  nick,        \* state.user.nick
  chanmodes,   \* state.chanmodes: the type and the prefix of each mode
  prefixes,    \* state.prefixes, by priority
  buffers,     \* `buffers` of names.ts
  namesMap,    \* `namesMap` of nicklist.ts
  nicklists,   \* state.nicklists
  batches,     \* state.batches: the messages of each open batch
  connections, \* bound: connections so far
  changes,     \* bound: what happened so far
  known,       \* history: channels joined and listed on this connection
  carried      \* history: channels whose buffer survived a connection

serverVars == <<session, server, me, online, members, connections, changes>>
modeVars == <<chanmodes, prefixes>>
listVars == <<buffers, namesMap, nicklists>>
history == <<known, carried>>
vars == <<serverVars, lines, nick, modeVars, listVars, batches, history>>

Elements(s) == {s[i] : i \in DOMAIN s}
With(f, k, v) == [x \in DOMAIN f \cup {k} |-> IF x = k THEN v ELSE f[x]]
Without(f, k) == [x \in DOMAIN f \ {k} |-> f[x]]
At(f, k, default) == IF k \in DOMAIN f THEN f[k] ELSE default
Over(f, g) == [x \in DOMAIN f \cup DOMAIN g |-> IF x \in DOMAIN f THEN f[x] ELSE g[x]]

-----------------------------------------------------------------------------
(* The names of a channel map each nick to an array of prefixes, by        *)
(* priority: the pairs of those that are there.  "" is no prefix.          *)
Symbol(letter) == CASE letter = "q" -> "~" [] letter = "o" -> "@"
                    [] letter = "h" -> "%" [] letter = "v" -> "+"

Put(array, index, prefix) ==
  {pair \in array : pair[1] # index} \cup IF prefix = "" THEN {} ELSE {<<index, prefix>>}
Highest(array) ==
  IF array = {} THEN ""
  ELSE (CHOOSE pair \in array : \A other \in array : pair[1] <= other[1])[2]

Priority(prefix) == CHOOSE i \in DOMAIN prefixes : prefixes[i] = prefix

(* createNicklist(), whose order is left out: a nick is listed with the    *)
(* first of its prefixes, if the server still has that prefix.             *)
CreateNicklist(names) ==
  {entry \in {[nick |-> n, prefix |-> Highest(names[n])] : n \in DOMAIN names} :
     entry.prefix \in Elements(prefixes) \cup {""}}

NoNames == [n \in {} |-> {}]
NoLists == [c \in {} |-> {}]

(* state.chanmodes before any server has been met, as far as the profiles  *)
(* have these modes, and state.prefixes.                                   *)
DefaultModes ==
  [l \in {"b", "k", "l", "m", "q", "o", "h", "v"} |->
     [type |-> CASE l = "b" -> "a" [] l = "l" -> "c" [] l \in {"m", "q"} -> "d" [] OTHER -> "b",
      prefix |-> IF l \in {"o", "h", "v"} THEN Symbol(l) ELSE ""]]

Init == /\ session = "none"
        /\ server \in Profile
        /\ me \in Nick
        /\ online = Nick \ {me}
        /\ members = [c \in Channel |-> NoNames]
        /\ lines = <<>>
        /\ nick = me
        /\ chanmodes = DefaultModes
        /\ prefixes = <<"@", "%", "+">>
        /\ buffers = NoLists
        /\ namesMap = NoLists
        /\ nicklists = NoLists
        /\ batches = NoLists
        /\ connections = 0
        /\ changes = 0
        /\ known = {}
        /\ carried = {}

-----------------------------------------------------------------------------
(* The lines of the server.                                                *)
Welcome(n) == [command |-> "RPL_WELCOME", nick |-> n]
Myinfo(p) == [command |-> "RPL_MYINFO", chanmodes |-> DOMAIN p.types]
Chanmodes(p) == [command |-> "CHANMODES",
                 types |-> [l \in DOMAIN p.types \ Elements(p.ranks) |-> p.types[l]]]
Prefix(p) == [command |-> "PREFIX", ranks |-> p.ranks]
Join(n, c) == [command |-> "JOIN", source |-> n, channel |-> c]
Removal(command, n, c) == [command |-> command, nick |-> n, channel |-> c]
QuitLine(n, ref) == [command |-> "QUIT", nick |-> n, batch |-> ref]
KillLine(n) == [command |-> "KILL", nick |-> n]
NickLine(n, new) == [command |-> "NICK", source |-> n, nick |-> new]
ModeLine(c, flags, args) == [command |-> "MODE", channel |-> c, flags |-> flags, args |-> args]
Namreply(c, names) == [command |-> "RPL_NAMREPLY", channel |-> c, names |-> names]
EndOfNames(c) == [command |-> "RPL_ENDOFNAMES", channel |-> c]
BatchLine(sign) == [command |-> "BATCH", sign |-> sign, ref |-> "split"]

Inside(c) == me \in DOMAIN members[c]
Meets(n) == \E c \in Channel : Inside(c) /\ n \in DOMAIN members[c]
Tell(heard, line) == lines' = IF heard THEN <<line>> ELSE <<>>

(* The names of a channel, `some` of them in a first line.                 *)
Listing(c, names, some) ==
  LET reply(ns) == IF ns = {} THEN <<>> ELSE <<Namreply(c, [n \in ns |-> names[n]])>>
  IN  reply(some) \o reply(DOMAIN names \ some) \o <<EndOfNames(c)>>

(* The client registers, with a server it knows or another one.  On        *)
(* another one all nicks but `free` are in use, and the others are         *)
(* operators of the channels `held`.                                       *)
Registers(p, n, free, held, first) ==
  /\ session = "none"
  /\ IF p = server /\ connections > 0
     THEN /\ n \notin online /\ n = free /\ held = {}
          /\ online' = online \cup {n}
          /\ UNCHANGED members
     ELSE LET others == Nick \ {n, free}
          IN  /\ online' = others \cup {n}
              /\ members' = [c \in Channel |-> [m \in IF c \in held THEN others ELSE {} |-> {"o"}]]
  /\ session' = "up"
  /\ server' = p
  /\ me' = n
  /\ connections' = connections + 1
  /\ lines' = <<Welcome(n), Myinfo(p)>> \o IF first = "CHANMODES" THEN <<Chanmodes(p), Prefix(p)>>
                                           ELSE <<Prefix(p), Chanmodes(p)>>
  /\ UNCHANGED <<changes, nick, modeVars, listVars, batches, history>>

(* The connection is lost, with the lines that were not read; the server   *)
(* may not have noticed when the client comes back.  Of what is modelled   *)
(* here, only the batches are dropped on "disconnected".                   *)
Loses(noticed) ==
  /\ session # "none" /\ connections < MaxConnections
  /\ session' = "none"
  /\ IF noticed THEN /\ online' = online \ {me}
                     /\ members' = [c \in Channel |-> Without(members[c], me)]
                ELSE UNCHANGED <<online, members>>
  /\ lines' = <<>>
  /\ batches' = NoLists
  /\ known' = {}
  /\ carried' = carried \cup DOMAIN buffers
  /\ UNCHANGED <<server, me, connections, changes, nick, modeVars, listVars>>

(* Something happens on the server, all of whose lines have been read.     *)
Happens == /\ session = "up" /\ lines = <<>> /\ changes < MaxChanges
           /\ changes' = changes + 1
           /\ UNCHANGED <<server, connections, nick, modeVars, listVars, batches, carried>>

SameUsers == UNCHANGED <<session, me, online, known>>

IJoin(c, some) ==
  /\ Happens /\ SameUsers
  /\ ~Inside(c)
  /\ LET names == With(members[c], me, IF members[c] = NoNames THEN {"o"} ELSE {})
     IN  /\ some \subseteq DOMAIN names
         /\ members' = [members EXCEPT ![c] = names]
         /\ lines' = <<Join(me, c)>> \o Listing(c, names, some)

(* names(), of any channel.                                                *)
IAskNames(c, some) ==
  /\ Happens /\ SameUsers
  /\ some \subseteq DOMAIN members[c]
  /\ lines' = Listing(c, members[c], some)
  /\ UNCHANGED members

Joins(n, c) ==
  /\ Happens /\ SameUsers
  /\ n \in (online \ {me}) \ DOMAIN members[c]
  /\ members' = [members EXCEPT ![c] = With(@, n, {})]
  /\ Tell(Inside(c), Join(n, c))

(* PART or KICK, of the client as well.                                    *)
Leaves(command, n, c) ==
  /\ Happens /\ SameUsers
  /\ n \in DOMAIN members[c]
  /\ members' = [members EXCEPT ![c] = Without(@, n)]
  /\ Tell(Inside(c), Removal(command, n, c))

Quits(n) ==
  /\ Happens /\ UNCHANGED <<session, me, known>>
  /\ n \in online \ {me}
  /\ online' = online \ {n}
  /\ members' = [c \in Channel |-> Without(members[c], n)]
  /\ Tell(Meets(n), QuitLine(n, "none"))

(* A netsplit: the QUITs come in a batch, if the client sees any.          *)
Netsplit(gone) ==
  /\ Happens /\ UNCHANGED <<session, me>>
  /\ gone # {} /\ gone \subseteq online \ {me}
  /\ online' = online \ gone
  /\ members' = [c \in Channel |-> [n \in DOMAIN members[c] \ gone |-> members[c][n]]]
  /\ LET seen == SetToSeq({n \in gone : Meets(n)})
         quits == [i \in DOMAIN seen |-> QuitLine(seen[i], "split")]
     IN  lines' = IF seen = <<>> THEN <<>> ELSE <<BatchLine("+")>> \o quits \o <<BatchLine("-")>>
  /\ known' = {c \in known : gone \cap DOMAIN members[c] = {}}

Renames(n, new) ==
  /\ Happens /\ UNCHANGED <<session, known>>
  /\ n \in online /\ new \notin online
  /\ online' = (online \ {n}) \cup {new}
  /\ me' = IF n = me THEN new ELSE me
  /\ members' = [c \in Channel |-> IF n \in DOMAIN members[c]
                                   THEN Without(With(members[c], new, members[c][n]), n)
                                   ELSE members[c]]
  /\ Tell(n = me \/ Meets(n), NickLine(n, new))

(* A mode of PREFIX is given or taken, after another mode or alone.        *)
Flags(letters) == [sign : {"+", "-"}, letter : letters]
OtherFlags == Flags(DOMAIN server.types \ Elements(server.ranks))
TakesArg(flag) == \/ server.types[flag.letter] \in {"a", "b"}
                  \/ server.types[flag.letter] = "c" /\ flag.sign = "+"

SetsMode(c, before, flag, n) ==
  /\ Happens /\ SameUsers
  /\ Inside(c) /\ n \in DOMAIN members[c]
  /\ members' = [members EXCEPT ![c][n] = IF flag.sign = "+" THEN @ \cup {flag.letter}
                                          ELSE @ \ {flag.letter}]
  /\ LET args == IF before # <<>> /\ TakesArg(Head(before)) THEN <<"argument">> ELSE <<>>
     IN  lines' = <<ModeLine(c, Append(before, flag), Append(args, n))>>

(* The client is killed: the server sends nothing after that.              *)
Killed ==
  /\ Happens /\ UNCHANGED <<me, known>>
  /\ session' = "over"
  /\ online' = online \ {me}
  /\ members' = [c \in Channel |-> Without(members[c], me)]
  /\ lines' = <<KillLine(me)>>

-----------------------------------------------------------------------------
(* The client reads a line: raw:* is emitted, and every listener runs.     *)
Line == Head(lines)
Reads(command) == /\ lines # <<>> /\ Line.command = command
                  /\ lines' = Tail(lines)
                  /\ UNCHANGED serverVars

(* "register" (registration.ts).                                           *)
OnWelcome == /\ Reads("RPL_WELCOME")
             /\ nick' = Line.nick
             /\ UNCHANGED <<modeVars, listVars, batches, history>>

OnMyinfo ==
  /\ Reads("RPL_MYINFO")
  /\ chanmodes' = [l \in Line.chanmodes |-> At(chanmodes, l, [type |-> "d", prefix |-> ""])]
  /\ UNCHANGED <<nick, prefixes, listVars, batches, history>>

OnChanmodes ==
  /\ Reads("CHANMODES")
  /\ chanmodes' = Over([l \in DOMAIN Line.types |-> [type |-> Line.types[l], prefix |-> ""]],
                         chanmodes)
  /\ UNCHANGED <<nick, prefixes, listVars, batches, history>>

Symbols(ranks) == [i \in DOMAIN ranks |-> Symbol(ranks[i])]
RankModes(ranks) == [l \in Elements(ranks) |-> [type |-> "b", prefix |-> Symbol(l)]]

OnPrefix_Bug_NoReset ==
  /\ Reads("PREFIX")
  /\ LET new == Symbols(Line.ranks)
     IN  prefixes' = new \o SelectSeq(prefixes, LAMBDA p : p \notin Elements(new))
  /\ chanmodes' = Over(RankModes(Line.ranks), chanmodes)
  /\ UNCHANGED <<nick, listVars, batches, history>>
OnPrefix ==
  /\ Reads("PREFIX")
  /\ prefixes' = Symbols(Line.ranks)
  /\ chanmodes' = Over(RankModes(Line.ranks), chanmodes)
  /\ UNCHANGED <<nick, listVars, batches, history>>

(* What follows a change of the names of `cs`: their lists are made again. *)
Relist(cs) ==
  nicklists' = [c \in DOMAIN nicklists \cup cs |->
                  IF c \in cs THEN CreateNicklist(At(namesMap', c, NoNames)) ELSE nicklists[c]]

OnJoin ==
  /\ Reads("JOIN")
  /\ LET c == Line.channel
     IN  /\ namesMap' = With(namesMap, c, With(At(namesMap, c, NoNames), Line.source, {}))
         /\ Relist({c})
         /\ known' = IF Line.source = nick THEN known \ {c} ELSE known
  /\ UNCHANGED <<nick, modeVars, buffers, batches, carried>>

(* removeNick(): the channels are forgotten if it is the client's own.     *)
RemoveNick(n, cs) ==
  IF n = nick
  THEN /\ namesMap' = [c \in DOMAIN namesMap \ cs |-> namesMap[c]]
       /\ nicklists' = [c \in DOMAIN nicklists \ cs |-> nicklists[c]]
  ELSE /\ namesMap' = [c \in DOMAIN namesMap |->
                         IF c \in cs THEN Without(namesMap[c], n) ELSE namesMap[c]]
       /\ Relist(cs)

OnLeave == /\ Reads("PART") \/ Reads("KICK")
           /\ RemoveNick(Line.nick, {Line.channel})
           /\ UNCHANGED <<nick, modeVars, buffers, batches, history>>

(* The hook of batch.ts on emit(): a line of an open batch is kept, and no *)
(* listener hears of it.                                                   *)
Batched == Line.batch \in DOMAIN batches

OnQuit ==
  /\ Reads("QUIT")
  /\ IF Batched
     THEN /\ batches' = [batches EXCEPT ![Line.batch] = Append(@, Line)]
          /\ UNCHANGED <<namesMap, nicklists>>
     ELSE RemoveNick(Line.nick, DOMAIN namesMap) /\ UNCHANGED batches
  /\ UNCHANGED <<nick, modeVars, buffers, history>>

OnKill == /\ Reads("KILL")
          /\ RemoveNick(Line.nick, DOMAIN namesMap)
          /\ UNCHANGED <<nick, modeVars, buffers, batches, history>>

OnBatch ==
  /\ Reads("BATCH")
  /\ batches' = IF Line.sign = "+" THEN With(batches, Line.ref, <<>>)
                ELSE Without(batches, Line.ref)
  /\ UNCHANGED <<nick, modeVars, listVars, history>>

(* registration.ts and nicklist.ts hear it, in this order.                 *)
OwnNick_Bug_Anyone(line) == line.nick
OwnNick(line) == IF line.source = nick THEN line.nick ELSE nick

OnNick ==
  /\ Reads("NICK")
  /\ nick' = OwnNick(Line)
  /\ LET cs == {c \in DOMAIN namesMap : Line.source \in DOMAIN namesMap[c]}
         renamed(names) == Without(With(names, Line.nick, names[Line.source]), Line.source)
     IN  /\ namesMap' = [c \in DOMAIN namesMap |-> IF c \in cs THEN renamed(namesMap[c])
                                                   ELSE namesMap[c]]
         /\ Relist(cs)
  /\ UNCHANGED <<modeVars, buffers, batches, history>>

(* parseModes(): the flags take the arguments in turn, as far as the type  *)
(* of the mode has one; a mode that is not known has none.                 *)
ModeType(f) == IF f.letter \in DOMAIN chanmodes THEN chanmodes[f.letter].type ELSE "d"
Takes(f) == ModeType(f) \in {"a", "b"} \/ (ModeType(f) = "c" /\ f.sign = "+")
Parse(parsed, f) ==
  IF ~Takes(f) THEN [parsed EXCEPT !.modes = Append(@, [flag |-> f, args |-> <<>>])]
  ELSE IF parsed.args = <<>> THEN parsed
  ELSE [modes |-> Append(parsed.modes, [flag |-> f, args |-> <<Head(parsed.args)>>]),
        args |-> Tail(parsed.args)]
ParseModes_Bug_UnsetTakes(flags, args) ==
  LET ParseAny(parsed, f) ==
        IF ModeType(f) = "d" \/ parsed.args = <<>> THEN Parse(parsed, f)
        ELSE [modes |-> Append(parsed.modes, [flag |-> f, args |-> <<Head(parsed.args)>>]),
              args |-> Tail(parsed.args)]
  IN  FoldLeft(ParseAny, [modes |-> <<>>, args |-> args], flags).modes
ParseModes(flags, args) == FoldLeft(Parse, [modes |-> <<>>, args |-> args], flags).modes

(* "mode:channel", once for each mode: those that have an argument and a   *)
(* prefix change the names.  (A prefix that is not in state.prefixes would *)
(* throw; PrefixesFollowServer excludes it.)                               *)
SetPrefix(names, mode) ==
  LET prefix == chanmodes[mode.flag.letter].prefix
      arg == mode.args[1]
  IN  IF mode.args = <<>> \/ prefix = "" THEN names
      ELSE With(names, arg, Put(At(names, arg, {}), Priority(prefix),
                                IF mode.flag.sign = "+" THEN prefix ELSE ""))

OnMode ==
  /\ Reads("MODE")
  /\ LET c == Line.channel
         names == FoldLeft(SetPrefix, At(namesMap, c, NoNames), ParseModes(Line.flags, Line.args))
     IN  namesMap' = With(namesMap, c, names) /\ Relist({c})
  /\ UNCHANGED <<nick, modeVars, buffers, batches, history>>

(* "raw:rpl_namreply": the names are collected.                            *)
OnNamreply ==
  /\ Reads("RPL_NAMREPLY")
  /\ LET array(letters) == {<<Priority(Symbol(l)), Symbol(l)>> : l \in letters}
         listed == [n \in DOMAIN Line.names |-> array(Line.names[n])]
     IN  buffers' = With(buffers, Line.channel, Over(listed, At(buffers, Line.channel, NoNames)))
  /\ UNCHANGED <<nick, modeVars, namesMap, nicklists, batches, history>>

(* "raw:rpl_endofnames" and "names_reply".                                 *)
OnEndOfNames ==
  /\ Reads("RPL_ENDOFNAMES")
  /\ LET c == Line.channel
     IN  /\ IF c \in DOMAIN buffers
            THEN namesMap' = With(namesMap, c, buffers[c]) /\ Relist({c})
            ELSE UNCHANGED <<namesMap, nicklists>>
         /\ buffers' = Without(buffers, c)
         /\ known' = IF c \in DOMAIN buffers \ carried THEN known \cup {c} ELSE known \ {c}
         /\ carried' = carried \ {c}
  /\ UNCHANGED <<nick, modeVars, batches>>

-----------------------------------------------------------------------------
World == \/ \E p \in Profile, n, free \in Nick, held \in {{}, Channel},
              first \in {"CHANMODES", "PREFIX"} : Registers(p, n, free, held, first)
         \/ \E noticed \in BOOLEAN : Loses(noticed)
         \/ \E c \in Channel, some \in {{}} \cup {{n} : n \in Nick} : IJoin(c, some)
         \/ \E c \in Channel, some \in {{}} \cup {{n} : n \in Nick} : IAskNames(c, some)
         \/ \E n \in Nick, c \in Channel : Joins(n, c)
         \/ \E n \in Nick, c \in Channel, command \in {"PART", "KICK"} : Leaves(command, n, c)
         \/ \E n \in Nick : Quits(n)
         \/ \E gone \in SUBSET Nick : Netsplit(gone)
         \/ \E n, new \in Nick : Renames(n, new)
         \/ \E c \in Channel, n \in Nick, flag \in Flags(Elements(server.ranks)),
              before \in {<<>>} \cup {<<f>> : f \in OtherFlags} :
              SetsMode(c, before, flag, n)
         \/ Killed

Reader == \/ OnWelcome \/ OnMyinfo \/ OnChanmodes \/ OnPrefix
          \/ OnJoin \/ OnLeave \/ OnQuit \/ OnKill \/ OnBatch \/ OnNick \/ OnMode
          \/ OnNamreply \/ OnEndOfNames

Next == World \/ Reader
Spec == Init /\ [][Next]_vars

-----------------------------------------------------------------------------
Settled == session = "up" /\ lines = <<>>

(* "Nicknames joined to this channel": whenever everything the server sent *)
(* has been read, the list of a channel is its membership, each nick with  *)
(* its highest prefix.  Two things break it until the next NAMES, and are  *)
(* left out by `known`: a netsplit, whose QUITs batch.ts keeps to itself,  *)
(* and a connection lost within a NAMES reply, whose buffer survives it.   *)
TopPrefix(modes) ==
  LET held == {i \in DOMAIN server.ranks : server.ranks[i] \in modes}
  IN  IF held = {} THEN ""
      ELSE Symbol(server.ranks[CHOOSE i \in held : \A j \in held : i <= j])

NicklistFollows ==
  Settled => \A c \in known : Inside(c) =>
    /\ c \in DOMAIN nicklists
    /\ nicklists[c] = {[nick |-> n, prefix |-> TopPrefix(members[c][n])] : n \in DOMAIN members[c]}

(* The client knows its own nick, whatever it was on an earlier connection *)
(* and whoever was renamed: its own departure from a channel depends on it.*)
OwnNickIsKnown == Settled => nick = me

(* The modes and prefixes the client has learnt are those of the server it *)
(* is connected to, whichever servers and defaults there were before.      *)
PrefixesFollowServer ==
  Settled =>
    /\ prefixes = Symbols(server.ranks)
    /\ \A l \in DOMAIN server.types :
         /\ l \in DOMAIN chanmodes
         /\ chanmodes[l].type = server.types[l]
         /\ chanmodes[l].prefix = IF l \in Elements(server.ranks) THEN Symbol(l) ELSE ""
=============================================================================
