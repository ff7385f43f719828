-------------------------- MODULE CollectorsProofs --------------------------
(***************************************************************************)
(* Every reply that is reported holds the lines of its request and no      *)
(* others, for every set of channels, nicks and servers and any number of  *)
(* requests, connections and lines: proofs about plugins/who.ts, whois.ts, *)
(* list.ts, motd.ts, monitor.ts, names.ts, userhost_in_names.ts and        *)
(* batch.ts.                                                               *)
(* The argument. A server answers the requests of one kind one after the   *)
(* other, so the client is at any time at one place in the replies of that *)
(* kind: Progress, which parts of the reply under way it has read and what *)
(* its open batches have collected. The lines still on their way lead from *)
(* there to a place between two replies (Leads), each of them one that the *)
(* server may send next (Due); and what the plugins keep follows from the  *)
(* place (Keeps). A last line remembers the parts of its reply, so when it *)
(* is due the parts read are those parts, and the plugin's buffer holds    *)
(* them. The invariant asks for a place with both; asking appends lines    *)
(* that lead from between to between, reading moves the place along its    *)
(* first line, and a lost connection starts again at Between.              *)
(* A reply sent for who() may carry a token, and the buffer is found       *)
(* through the token map: EndsWho says that the map holds the token of     *)
(* every sound reply until its parts are read, unless it is in dispute.    *)
(***************************************************************************)
EXTENDS Collectors, TLAPS

(* The references of the batches of a kind, an outer and an inner one.     *)
Refs(kind) == {<<kind, 1>>, <<kind, 2>>}
(* The kinds of replies; RPL_AWAY is no part of one.                       *)
Replying == Kind \ {"away"}

(* The commands of first lines and of parts; the others are last lines.    *)
Starts == {"RPL_LISTSTART", "RPL_MOTDSTART"}
Parts == {"RPL_WHOREPLY", "RPL_WHOSPCRPL", "RPL_WHOIS", "RPL_LIST", "RPL_MOTD", "RPL_MONLIST",
          "RPL_NAMREPLY"}

(* How far the client is in the replies of a kind: the parts that were     *)
(* read of a reply that is not complete, whether its first line was, and   *)
(* what its open batches have collected.                                   *)
Progress(seen, begun, open) == [seen |-> seen, begun |-> begun, open |-> open]
Between == Progress({}, FALSE, Nothing)

(* The place after a line was read.                                        *)
After(s, line) ==
  IF line.command = "BATCH"
  THEN Progress(s.seen, s.begun, IF line.sign = "+" THEN With(s.open, line.key, {})
                                 ELSE Without(s.open, line.key))
  ELSE IF line.batch # Untagged
  THEN Progress(s.seen, s.begun, With(s.open, line.batch, s.open[line.batch] \cup {line}))
  ELSE IF line.command \in Starts THEN Progress(s.seen, TRUE, s.open)
  ELSE IF line.command \in Parts THEN Progress(s.seen \cup {line}, s.begun, s.open)
  ELSE Progress({}, FALSE, s.open)

(* A line that a server may send then: one of an open batch; one of a      *)
(* batch that is at its end, with all of its lines; a part that is like    *)
(* those before; or a last line that remembers them.                       *)
Begins(kind, start) == kind = "motd" \/ (kind = "list" /\ start)
Due(kind, start, s, line) ==
  IF line.command = "BATCH"
  THEN /\ line.key \in Refs(kind)
       /\ line.sign # "+" => line.key \in DOMAIN s.open /\ line.sent = s.open[line.key]
  ELSE IF line.batch # Untagged THEN line.batch \in DOMAIN s.open
  ELSE IF line.command \in Starts THEN s.seen = {}
  ELSE IF line.command \in Parts
  THEN /\ \A other \in s.seen : other.part # line.part
       /\ Begins(kind, start) => s.begun
  ELSE /\ line.sent = s.seen
       /\ \A other \in s.seen : other.target = line.key
       /\ Begins(kind, start) /\ line.command # "ERR_NOMOTD" => s.begun
       /\ line.command = "ERR_NOMOTD" => s.seen = {}

(* The lines lead from s to t, each of them being due.                     *)
Leads(kind, start, lines, s, t) ==
  \E f : /\ f[0] = s /\ f[Len(lines)] = t
         /\ \A i \in 1 .. Len(lines) : /\ Due(kind, start, f[i - 1], lines[i])
                                       /\ f[i] = After(f[i - 1], lines[i])

(* A sequence, whatever its elements.                                      *)
Listed(q) == \E S : q \in Seq(S)

-----------------------------------------------------------------------------
(* The token that a server has sent is, if it is known, that of the        *)
(* target, but for a dispute.                                              *)
Known(line, target) == /\ line.key \in DOMAIN tokenMap
                       /\ tokenMap[line.key] = target
Tokened(line) ==
  server.token => /\ line.key \in Nat
                  /\ \/ line.key \notin DOMAIN tokenMap \/ Known(line, line.target)
                     \/ line.request \in disputed

(* Which lines are on their way, out of batches.                           *)
Sends(kind, line) ==
  line.batch = Untagged /\ line.command \in Parts =>
    /\ line.connection = connections
    /\ line.request \in 1 .. requests
    /\ kind # "who" => line.key = line.target
    /\ kind = "who" /\ line.command = "RPL_WHOSPCRPL" => Tokened(line)

(* A part of a sound reply to who() is on its way.                         *)
OnWay(part) == \E j \in DOMAIN answers["who"] : answers["who"][j] = part

Found(part, target) == Known(part, target) \/ part.request \in disputed \/ ~OnWay(part)
KnownNext(part, target) == part.key \in DOMAIN tokenMap' /\ tokenMap'[part.key] = target
FoundNext(part, target) ==
  \/ KnownNext(part, target) \/ part.request \in disputed'
  \/ ~\E j \in DOMAIN answers'["who"] : answers'["who"][j] = part

(* The token of a sound reply to who() is known until its parts are read.  *)
EndsWho(i) ==
  LET line == answers["who"][i]
  IN  line.batch = Untagged /\ line.command = "RPL_ENDOFWHO" =>
        /\ line.key \in Channel \cup Nick
        /\ line.sound => \A part \in line.sent :
             /\ part.request \in 1 .. requests
             /\ part.command = "RPL_WHOREPLY" => part.key = line.key
             /\ part.command = "RPL_WHOSPCRPL" =>
                  /\ part.target = line.key /\ part.batch = Untagged
                  /\ Found(part, line.key)
                  /\ \A j \in 1 .. i - 1 : /\ answers["who"][j].command = "RPL_ENDOFWHO"
                                           /\ answers["who"][j].batch = Untagged
                                           => answers["who"][j].key # line.key

(* RPL_AWAY is not part of a reply to whois() and nobody asked for it.     *)
SendsAway(line) ==
  /\ line.command = "RPL_WHOIS" /\ line.batch = Untagged /\ line.request = 0
  /\ line.connection = connections

(* What the plugins keep, when the parts in `seen` were read.              *)
Older(line) == line.connection \in 0 .. connections /\ (up => line.connection # connections)

(* The buffers of who.ts: the parts of a sound reply are there until its   *)
(* last line, and what else is there came on this connection.              *)
Strays(target, line) ==
  \/ line.request \in disputed
  \/ ~server.token /\ (line.key = target \/ line.key \in Nat)
WhoKeeps(seen) ==
  /\ \A i \in DOMAIN answers["who"] :
       LET line == answers["who"][i]
       IN  line.batch = Untagged /\ line.command = "RPL_ENDOFWHO" /\ line.sound =>
             \A part \in line.sent \cap seen :
               part \in At(whoBuffers, line.key) \/ part.request \in disputed
  /\ \A target \in DOMAIN whoBuffers \cap (Channel \cup Nick) : \A line \in whoBuffers[target] :
       /\ line.connection = connections
       /\ \/ /\ line.command = "RPL_WHOSPCRPL"
             /\ (line.target = target /\ line \in seen) \/ Strays(target, line)
          \/ line.command = "RPL_WHOREPLY" /\ line.key = target
             /\ (line \in seen \/ line.target # line.key)

(* The buffers of whois.ts: every part read, unless RPL_AWAY took its      *)
(* place.                                                                  *)
WhoisKeeps(seen) ==
  /\ \A line \in seen : \E other \in At(whoisBuffers, line.key) :
       other = line \/ (other.request = 0 /\ other.part = line.part)
  /\ \A nick \in DOMAIN whoisBuffers : \A line \in whoisBuffers[nick] :
       /\ line.key = nick
       /\ line \in seen \/ line.request = 0 \/ Older(line)

(* The buffer of list.ts, which a first line resets if the server sends    *)
(* one.                                                                    *)
ListKeeps(s) ==
  /\ s.seen \subseteq listBuffer
  /\ up /\ server.liststart /\ s.begun => listBuffer = s.seen
  /\ \A line \in listBuffer : line \in s.seen \/ Older(line)

(* The buffers of motd.ts and of monitor.ts.                               *)
MotdKeeps(s) == s.begun => motd = s.seen
MonitorKeeps(seen) == monitorBuffer = seen

(* The buffers of names.ts and of userhost_in_names.ts.                    *)
NamesKeep(seen) ==
  /\ \A line \in seen : line \in At(namesBuffers, line.key)
  /\ \A c \in DOMAIN namesBuffers : \A line \in namesBuffers[c] :
       /\ line.key = c
       /\ line \in seen \/ Older(line)
  /\ userhostBuffers = [c \in {line.key : line \in seen} |->
                          IF server.masks THEN {line \in seen : line.key = c} ELSE {}]

(* What batch.ts has collected of the open batches of a kind.              *)
OpenBatches(kind) == [ref \in DOMAIN batches \cap Refs(kind) |-> batches[ref]]

(* What the plugins keep at a place of the replies of a kind.              *)
Keeps(kind, s) ==
  /\ s.open = OpenBatches(kind)
  /\ \A line \in s.seen : /\ line.connection = connections
                          /\ line.request \in 1 .. requests
                          /\ kind # "who" => line.key = line.target
  /\ kind = "who" => WhoKeeps(s.seen)
  /\ kind = "whois" => WhoisKeeps(s.seen)
  /\ kind = "list" => ListKeeps(s)
  /\ kind = "motd" => MotdKeeps(s)
  /\ kind = "monitor" => MonitorKeeps(s.seen)
  /\ kind = "names" => NamesKeep(s.seen)

(* The types that the proofs need.                                         *)
Basics ==
  /\ up \in BOOLEAN /\ server \in Server
  /\ connections \in Nat /\ requests \in Nat /\ tokenCounter \in Nat
  /\ DOMAIN tokenMap \subseteq Nat
  /\ DOMAIN batches \subseteq UNION {Refs(kind) : kind \in Replying}
  /\ DOMAIN answers = Kind
  /\ ~up => whoBuffers = Nothing /\ \A kind \in Kind : answers[kind] = <<>>

(* What is on its way.                                                     *)
Sending ==
  /\ \A kind \in Kind : Listed(answers[kind])
  /\ \A kind \in Replying : \A i \in DOMAIN answers[kind] : Sends(kind, answers[kind][i])
  /\ \A i \in DOMAIN answers["who"] : EndsWho(i)
  /\ \A i \in DOMAIN answers["away"] : SendsAway(answers["away"][i])

(* There is a place from which the lines on their way lead to between two  *)
(* replies, and which the plugins' buffers agree with.                     *)
Keeping(kind) ==
  \E s : /\ Leads(kind, server.liststart, answers[kind], s, Between)
         /\ Keeps(kind, s)

(* The inductive invariant.                                                *)
IInv == /\ Basics
        /\ Sending
        /\ \A kind \in Replying : Keeping(kind)
        /\ RepliesAreExact
        /\ UserhostsFollowNames
-----------------------------------------------------------------------------
(* Sequences of lines.                                                     *)
LEMMA ListedLen ==
  ASSUME NEW q, Listed(q)
  PROVE  Len(q) \in Nat /\ DOMAIN q = 1 .. Len(q)
BY DEF Listed

(* Concatenation, a single line, a sequence by its elements, and the tail. *)
LEMMA ListedConcat ==
  ASSUME NEW q, NEW b, Listed(q), Listed(b)
  PROVE  /\ Listed(q \o b)
         /\ Len(q \o b) = Len(q) + Len(b)
         /\ \A i \in 1 .. Len(q) : (q \o b)[i] = q[i]
         /\ \A i \in 1 .. Len(b) : (q \o b)[Len(q) + i] = b[i]
         /\ \A i \in 1 .. Len(q \o b) : \/ i \in 1 .. Len(q) /\ (q \o b)[i] = q[i]
                                        \/ i - Len(q) \in 1 .. Len(b) /\ (q \o b)[i] = b[i - Len(q)]
<1>1. PICK S : q \in Seq(S)
  BY DEF Listed
<1>2. PICK T : b \in Seq(T)
  BY DEF Listed
<1>3. q \in Seq(S \cup T) /\ b \in Seq(S \cup T)
  BY <1>1, <1>2
<1>4. q \o b \in Seq(S \cup T)
  BY <1>3
<1>5. Len(q \o b) = Len(q) + Len(b)
  BY <1>3
<1>6. \A i \in 1 .. Len(q) : (q \o b)[i] = q[i]
  BY <1>3
<1>7. \A i \in 1 .. Len(b) : (q \o b)[Len(q) + i] = b[i]
  BY <1>3
<1>8. ASSUME NEW i \in 1 .. Len(q \o b)
      PROVE  \/ i \in 1 .. Len(q) /\ (q \o b)[i] = q[i]
             \/ i - Len(q) \in 1 .. Len(b) /\ (q \o b)[i] = b[i - Len(q)]
  BY <1>3, <1>5, <1>6, <1>7
<1> QED
  BY <1>4, <1>5, <1>6, <1>7, <1>8 DEF Listed

LEMMA ListedOne ==
  ASSUME NEW line
  PROVE  Listed(<<line>>) /\ Len(<<line>>) = 1 /\ <<line>>[1] = line /\ DOMAIN <<line>> = {1}
<1>1. <<line>> \in Seq({line})
  OBVIOUS
<1>2. Listed(<<line>>)
  BY <1>1 DEF Listed
<1>3. Len(<<line>>) = 1 /\ <<line>>[1] = line
  OBVIOUS
<1>4. DOMAIN <<line>> = 1 .. 1
  OBVIOUS
<1> QED
  BY <1>2, <1>3, <1>4

LEMMA ListedOf ==
  ASSUME NEW n \in Nat, NEW q, q = [i \in 1 .. n |-> q[i]]
  PROVE  Listed(q) /\ Len(q) = n /\ DOMAIN q = 1 .. n
<1> DEFINE S == {q[i] : i \in 1 .. n}
<1>1. q \in [1 .. n -> S]
  OBVIOUS
<1>2. q \in Seq(S)
  BY <1>1
<1>3. Len(q) = n /\ DOMAIN q = 1 .. n
  BY <1>1
<1> QED
  BY <1>2, <1>3 DEF Listed

LEMMA ListedTail ==
  ASSUME NEW q, Listed(q), q # <<>>
  PROVE  /\ Listed(Tail(q))
         /\ Len(Tail(q)) = Len(q) - 1 /\ Len(q) \in Nat \ {0}
         /\ Head(q) = q[1]
         /\ \A i \in 1 .. Len(q) - 1 : Tail(q)[i] = q[i + 1]
<1>1. PICK S : q \in Seq(S)
  BY DEF Listed
<1>2. Tail(q) \in Seq(S) /\ Len(Tail(q)) = Len(q) - 1 /\ Len(q) \in Nat \ {0}
  BY <1>1
<1>3. Head(q) = q[1] /\ \A i \in 1 .. Len(q) - 1 : Tail(q)[i] = q[i + 1]
  BY <1>1
<1> QED
  BY <1>2, <1>3 DEF Listed

-----------------------------------------------------------------------------
(* Lines that lead somewhere, one after the other.                         *)
LEMMA LeadsNone ==
  ASSUME NEW kind, NEW start, NEW s
  PROVE  /\ Leads(kind, start, <<>>, s, s)
         /\ \A t : Leads(kind, start, <<>>, s, t) => s = t
<1>1. Len(<<>>) = 0 /\ 1 .. 0 = {}
  OBVIOUS
<1>2. Leads(kind, start, <<>>, s, s)
  <2> DEFINE f == [i \in {0} |-> s]
  <2>1. f[0] = s
    OBVIOUS
  <2> HIDE DEF f
  <2> QED
    BY <1>1, <2>1 DEF Leads
<1>3. ASSUME NEW t, Leads(kind, start, <<>>, s, t) PROVE s = t
  BY <1>1, <1>3 DEF Leads
<1> QED
  BY <1>2, <1>3

(* A line that is due leads to the place after it.                         *)
LEMMA LeadsOne ==
  ASSUME NEW kind, NEW start, NEW s, NEW line, Due(kind, start, s, line)
  PROVE  Leads(kind, start, <<line>>, s, After(s, line))
<1> DEFINE f == [i \in {0, 1} |-> IF i = 0 THEN s ELSE After(s, line)]
<1>1. f[0] = s /\ f[1] = After(s, line)
  OBVIOUS
<1> HIDE DEF f
<1>2. ASSUME NEW i \in 1 .. 1
      PROVE  Due(kind, start, f[i - 1], <<line>>[i]) /\ f[i] = After(f[i - 1], <<line>>[i])
  <2>1. i = 1 /\ i - 1 = 0
    OBVIOUS
  <2> QED
    BY <1>1, <2>1, ListedOne
<1> QED
  BY <1>1, <1>2, ListedOne DEF Leads

(* Leading is transitive.                                                  *)
LEMMA LeadsConcat ==
  ASSUME NEW kind, NEW start, NEW q, NEW b, NEW s, NEW t, NEW u, Listed(q), Listed(b),
         Leads(kind, start, q, s, t), Leads(kind, start, b, t, u)
  PROVE  Leads(kind, start, q \o b, s, u)
<1> DEFINE m == Len(q)
           n == Len(b)
<1>1. PICK f : /\ f[0] = s /\ f[m] = t
               /\ \A i \in 1 .. m : Due(kind, start, f[i - 1], q[i]) /\ f[i] = After(f[i - 1], q[i])
  BY DEF Leads
<1>2. PICK g : /\ g[0] = t /\ g[n] = u
               /\ \A i \in 1 .. n : Due(kind, start, g[i - 1], b[i]) /\ g[i] = After(g[i - 1], b[i])
  BY DEF Leads
<1>3. m \in Nat /\ n \in Nat
  BY ListedLen
<1> DEFINE h == [i \in 0 .. m + n |-> IF i <= m THEN f[i] ELSE g[i - m]]
<1>4. Len(q \o b) = m + n
  BY ListedConcat
<1> HIDE DEF m, n
<1>5. h[0] = s /\ h[m + n] = u
  <2>1. 0 \in 0 .. m + n /\ m + n \in 0 .. m + n
    BY <1>3
  <2>2. h[0] = s
    BY <1>1, <1>3, <2>1
  <2>3. CASE n = 0
    BY <1>1, <1>2, <1>3, <2>1, <2>3
  <2>4. CASE n # 0
    <3>1. ~(m + n <= m) /\ (m + n) - m = n
      BY <1>3, <2>4
    <3> QED
      BY <1>2, <2>1, <2>2, <3>1
  <2> QED
    BY <2>3, <2>4
<1>6. ASSUME NEW i \in 1 .. m + n
      PROVE  Due(kind, start, h[i - 1], (q \o b)[i]) /\ h[i] = After(h[i - 1], (q \o b)[i])
  <2>1. i \in 0 .. m + n /\ i - 1 \in 0 .. m + n
    BY <1>3
  <2>2. CASE i <= m
    <3>1. h[i] = f[i] /\ h[i - 1] = f[i - 1] /\ i \in 1 .. m
      BY <1>3, <2>1, <2>2
    <3>2. (q \o b)[i] = q[i]
      BY <3>1, ListedConcat DEF m
    <3> QED
      BY <1>1, <3>1, <3>2
  <2>3. CASE ~(i <= m)
    <3> DEFINE j == i - m
    <3>1. j \in 1 .. n /\ i = m + j
      BY <1>3, <2>3
    <3>2. h[i] = g[j]
      BY <2>1, <2>3
    <3>3. h[i - 1] = g[j - 1]
      <4>1. CASE j = 1
        <5>1. i - 1 = m /\ j - 1 = 0
          BY <1>3, <4>1
        <5> QED
          BY <1>1, <1>2, <1>3, <2>1, <5>1
      <4>2. CASE j # 1
        <5>1. ~(i - 1 <= m) /\ (i - 1) - m = j - 1
          BY <1>3, <2>3, <4>2
        <5> QED
          BY <2>1, <5>1
      <4> QED
        BY <4>1, <4>2
    <3>4. (q \o b)[i] = b[j]
      <4>1. (q \o b)[m + j] = b[j]
        BY <3>1, ListedConcat DEF m, n
      <4> QED
        BY <3>1, <4>1
    <3> HIDE DEF j
    <3> QED
      BY <1>2, <3>1, <3>2, <3>3, <3>4
  <2> QED
    BY <2>2, <2>3
<1> HIDE DEF h
<1> QED
  BY <1>4, <1>5, <1>6 DEF Leads

(* The first of the lines that lead somewhere is due, and the rest lead    *)
(* on.                                                                     *)
LEMMA LeadsTail ==
  ASSUME NEW kind, NEW start, NEW q, NEW s, NEW t, Listed(q), q # <<>>,
         Leads(kind, start, q, s, t)
  PROVE  /\ Due(kind, start, s, Head(q))
         /\ Leads(kind, start, Tail(q), After(s, Head(q)), t)
<1> DEFINE n == Len(q)
<1>1. PICK f : /\ f[0] = s /\ f[n] = t
               /\ \A i \in 1 .. n : Due(kind, start, f[i - 1], q[i]) /\ f[i] = After(f[i - 1], q[i])
  BY DEF Leads
<1>2. n \in Nat \ {0} /\ Len(Tail(q)) = n - 1 /\ Head(q) = q[1]
  BY ListedTail
<1>3. Due(kind, start, s, Head(q)) /\ f[1] = After(s, Head(q))
  <2>1. 1 \in 1 .. n /\ 1 - 1 = 0
    BY <1>2
  <2> QED
    BY <1>1, <1>2, <2>1
<1> DEFINE g == [i \in 0 .. n - 1 |-> f[i + 1]]
<1>4. g[0] = f[1] /\ g[n - 1] = f[n]
  <2>1. 0 \in 0 .. n - 1 /\ n - 1 \in 0 .. n - 1 /\ 0 + 1 = 1 /\ (n - 1) + 1 = n
    BY <1>2
  <2> QED
    BY <2>1
<1>5. ASSUME NEW i \in 1 .. n - 1
      PROVE  Due(kind, start, g[i - 1], Tail(q)[i]) /\ g[i] = After(g[i - 1], Tail(q)[i])
  <2>1. g[i] = f[i + 1] /\ g[i - 1] = f[i] /\ i + 1 \in 1 .. n /\ (i + 1) - 1 = i
    BY <1>2
  <2>2. Tail(q)[i] = q[i + 1]
    BY ListedTail
  <2> HIDE DEF g, n
  <2> QED
    BY <1>1, <2>1, <2>2
<1> HIDE DEF g, n
<1>6. Leads(kind, start, Tail(q), f[1], t)
  BY <1>1, <1>2, <1>4, <1>5 DEF Leads
<1> QED
  BY <1>3, <1>6

-----------------------------------------------------------------------------
(* The lines of a reply lead from one reply to the next.                   *)
Plain(line) == line.batch = Untagged /\ line.command # "BATCH"
Numbered(parts) ==
  \A i \in DOMAIN parts : /\ parts[i].batch = Untagged /\ parts[i].command \in Parts
                          /\ parts[i].part = i
Elements(lines) == {lines[i] : i \in DOMAIN lines}

(* No command is of two of the sets.                                       *)
LEMMA Commands ==
  /\ \A c \in Parts : c \notin Starts /\ c # "BATCH"
  /\ \A c \in Starts : c \notin Parts /\ c # "BATCH"
BY DEF Parts, Starts

(* Parts of different numbers lead from a place to one where all of them   *)
(* were read.                                                              *)
LEMMA LeadsParts ==
  ASSUME NEW kind, NEW start, NEW parts, Listed(parts), Numbered(parts),
         NEW begun, Begins(kind, start) => begun
  PROVE  Leads(kind, start, parts, Progress({}, begun, Nothing),
               Progress(Elements(parts), begun, Nothing))
<1> DEFINE n == Len(parts)
           Seen(i) == {parts[j] : j \in 1 .. i}
           f == [i \in 0 .. n |-> Progress(Seen(i), begun, Nothing)]
<1>1. n \in Nat /\ DOMAIN parts = 1 .. n
  BY ListedLen
<1> HIDE DEF n
<1>2. Seen(0) = {} /\ Seen(n) = Elements(parts)
  BY <1>1 DEF Elements
<1>3. \A i \in 0 .. n : f[i] = Progress(Seen(i), begun, Nothing)
  OBVIOUS
<1> HIDE DEF f, Seen
<1>4. f[0] = Progress({}, begun, Nothing) /\ f[n] = Progress(Elements(parts), begun, Nothing)
  BY <1>1, <1>2, <1>3
<1>5. ASSUME NEW i \in 1 .. n
      PROVE  Due(kind, start, f[i - 1], parts[i]) /\ f[i] = After(f[i - 1], parts[i])
  <2>1. /\ f[i - 1] = Progress(Seen(i - 1), begun, Nothing)
        /\ f[i] = Progress(Seen(i), begun, Nothing)
    BY <1>1, <1>3
  <2>2. Seen(i) = Seen(i - 1) \cup {parts[i]}
    <3>1. 1 .. i = 1 .. i - 1 \cup {i}
      BY <1>1
    <3> QED
      BY <3>1 DEF Seen
  <2>3. /\ parts[i].batch = Untagged /\ parts[i].command \in Parts
        /\ parts[i].command \notin Starts /\ parts[i].command # "BATCH"
    BY <1>1, Commands DEF Numbered
  <2>4. \A other \in Seen(i - 1) : other.part # parts[i].part
    <3>1. ASSUME NEW j \in 1 .. i - 1 PROVE parts[j].part # parts[i].part
      <4>1. j \in 1 .. n /\ j # i
        BY <1>1
      <4> QED
        BY <1>1, <4>1 DEF Numbered
    <3> QED
      BY <3>1 DEF Seen
  <2>5. /\ Progress(Seen(i - 1), begun, Nothing).seen = Seen(i - 1)
        /\ Progress(Seen(i - 1), begun, Nothing).begun = begun
        /\ Progress(Seen(i - 1), begun, Nothing).open = Nothing
    BY DEF Progress
  <2>6. After(f[i - 1], parts[i]) = f[i]
    BY <2>1, <2>2, <2>3, <2>5 DEF After
  <2>7. Due(kind, start, f[i - 1], parts[i])
    BY <2>1, <2>3, <2>4, <2>5 DEF Due
  <2> QED
    BY <2>6, <2>7
<1> QED
  BY <1>4, <1>5 DEF Leads, n

(* A whole reply leads from between two replies to there.                  *)
LEMMA LeadsReply ==
  ASSUME NEW kind, NEW start, NEW parts, Listed(parts), Numbered(parts),
         NEW last, Plain(last), last.command \notin Starts, last.command \notin Parts,
         last.sent = Elements(parts), \A i \in DOMAIN parts : parts[i].target = last.key,
         last.command = "ERR_NOMOTD" => DOMAIN parts = {},
         NEW begun, Begins(kind, start) => begun
  PROVE  /\ Leads(kind, start, Append(parts, last), Progress({}, begun, Nothing), Between)
         /\ Append(parts, last) = parts \o <<last>>
         /\ Listed(Append(parts, last)) /\ Append(parts, last) # <<>>
<1> DEFINE s == Progress(Elements(parts), begun, Nothing)
<1>1. s.seen = Elements(parts) /\ s.begun = begun /\ s.open = Nothing
  BY DEF Progress
<1> HIDE DEF s
<1>2. Due(kind, start, s, last)
  <2>1. \A other \in s.seen : other.target = last.key
    BY <1>1 DEF Elements
  <2>2. last.command = "ERR_NOMOTD" => s.seen = {}
    BY <1>1 DEF Elements
  <2> QED
    BY <1>1, <2>1, <2>2 DEF Due, Plain
<1>3. After(s, last) = Between
  BY <1>1 DEF After, Plain, Between
<1>4. Leads(kind, start, <<last>>, s, Between)
  BY <1>2, <1>3, LeadsOne
<1>5. Leads(kind, start, parts, Progress({}, begun, Nothing), s)
  BY LeadsParts DEF s
<1>6. Append(parts, last) = parts \o <<last>>
  BY DEF Listed
<1>7. Listed(parts \o <<last>>) /\ Len(parts \o <<last>>) = Len(parts) + 1
  BY ListedOne, ListedConcat
<1>8. parts \o <<last>> # <<>>
  <2>1. Len(parts) \in Nat /\ Len(<<>>) = 0
    BY ListedLen
  <2> QED
    BY <1>7, <2>1
<1>9. Leads(kind, start, parts \o <<last>>, Progress({}, begun, Nothing), Between)
  BY <1>4, <1>5, ListedOne, LeadsConcat
<1> QED
  BY <1>6, <1>7, <1>8, <1>9

(* Functions with one value set, or one place taken away.                  *)
LEMMA WithTwice ==
  ASSUME NEW f, NEW k, NEW v, NEW w
  PROVE  With(With(f, k, v), k, w) = With(f, k, w)
BY DEF With

(* Maps with a key set, and without one.                                   *)
LEMMA WithAt ==
  ASSUME NEW f, NEW k, NEW v
  PROVE  /\ With(f, k, v)[k] = v /\ DOMAIN With(f, k, v) = DOMAIN f \cup {k}
         /\ \A x \in DOMAIN f : x # k => With(f, k, v)[x] = f[x]
BY DEF With

LEMMA WithoutAt ==
  ASSUME NEW f, NEW k
  PROVE  /\ DOMAIN Without(f, k) = DOMAIN f \ {k}
         /\ \A x \in DOMAIN f : x # k => Without(f, k)[x] = f[x]
BY DEF Without

IsMap(f) == f = [x \in DOMAIN f |-> f[x]]

(* A key set to what it is, and a key set and removed.                     *)
LEMMA WithItself ==
  ASSUME NEW f, NEW k \in DOMAIN f, IsMap(f)
  PROVE  With(f, k, f[k]) = f
<1>1. DOMAIN f \cup {k} = DOMAIN f
  OBVIOUS
<1>2. With(f, k, f[k]) = [x \in DOMAIN f |-> f[x]]
  BY <1>1 DEF With
<1> QED
  BY <1>2 DEF IsMap

(* A batch collects lines that are tagged with it.                         *)
LEMMA LeadsTagged ==
  ASSUME NEW kind, NEW start, NEW lines, Listed(lines), NEW ref, ref # Untagged,
         \A i \in DOMAIN lines : lines[i].batch = ref /\ lines[i].command # "BATCH",
         NEW begun, NEW open, ref \in DOMAIN open, open[ref] = {}, IsMap(open)
  PROVE  Leads(kind, start, lines, Progress({}, begun, open),
               Progress({}, begun, With(open, ref, Elements(lines))))
<1> DEFINE n == Len(lines)
           Seen(i) == {lines[j] : j \in 1 .. i}
           f == [i \in 0 .. n |-> Progress({}, begun, With(open, ref, Seen(i)))]
<1>1. n \in Nat /\ DOMAIN lines = 1 .. n
  BY ListedLen
<1> HIDE DEF n
<1>2. Seen(0) = {} /\ Seen(n) = Elements(lines)
  BY <1>1 DEF Elements
<1>3. \A i \in 0 .. n : f[i] = Progress({}, begun, With(open, ref, Seen(i)))
  OBVIOUS
<1> HIDE DEF f, Seen
<1>4. f[0] = Progress({}, begun, open)
  <2>1. f[0] = Progress({}, begun, With(open, ref, Seen(0)))
    BY <1>1, <1>3
  <2>2. With(open, ref, Seen(0)) = open
    BY <1>2, WithItself
  <2> QED
    BY <2>1, <2>2
<1>5. f[n] = Progress({}, begun, With(open, ref, Elements(lines)))
  BY <1>1, <1>2, <1>3
<1>6. ASSUME NEW i \in 1 .. n
      PROVE  Due(kind, start, f[i - 1], lines[i]) /\ f[i] = After(f[i - 1], lines[i])
  <2> DEFINE before == With(open, ref, Seen(i - 1))
  <2>1. /\ f[i - 1] = Progress({}, begun, before)
        /\ f[i] = Progress({}, begun, With(open, ref, Seen(i)))
    BY <1>1, <1>3
  <2>2. Seen(i) = Seen(i - 1) \cup {lines[i]}
    <3>1. 1 .. i = 1 .. i - 1 \cup {i}
      BY <1>1
    <3> QED
      BY <3>1 DEF Seen
  <2>3. lines[i].batch = ref /\ lines[i].command # "BATCH"
    BY <1>1
  <2>4. before[ref] = Seen(i - 1) /\ ref \in DOMAIN before
    BY DEF With
  <2>5. With(before, ref, before[ref] \cup {lines[i]}) = With(open, ref, Seen(i))
    BY <2>2, <2>4, WithTwice
  <2> HIDE DEF before
  <2>6. /\ Progress({}, begun, before).seen = {}
        /\ Progress({}, begun, before).begun = begun
        /\ Progress({}, begun, before).open = before
    BY DEF Progress
  <2>7. After(f[i - 1], lines[i]) = f[i]
    BY <2>1, <2>3, <2>5, <2>6 DEF After
  <2>8. Due(kind, start, f[i - 1], lines[i])
    BY <2>1, <2>3, <2>4, <2>6 DEF Due
  <2> QED
    BY <2>7, <2>8
<1> QED
  BY <1>4, <1>5, <1>6 DEF Leads, n

(* The batches of two kinds, and an outer and an inner one, differ.        *)
LEMMA RefsDiffer ==
  ASSUME NEW kind
  PROVE  /\ <<kind, 1>> # Untagged /\ <<kind, 2>> # Untagged
         /\ <<kind, 1>> # <<kind, 2>>
         /\ \A other, i, j : <<kind, i>> = <<other, j>> => kind = other
<1>1. <<kind, 1>> # <<>>
  OBVIOUS
<1>2. <<kind, 2>> # <<>>
  OBVIOUS
<1>3. <<kind, 1>>[2] = 1 /\ <<kind, 2>>[2] = 2
  OBVIOUS
<1>4. \A other, i, j : <<kind, i>> = <<other, j>> => kind = other
  OBVIOUS
<1> QED
  BY <1>1, <1>2, <1>3, <1>4 DEF Untagged

(* The same lines with a tag.                                              *)
Tagged(ref, some) == [i \in DOMAIN some |-> [some[i] EXCEPT !.batch = ref]]
Lines(some) == \A i \in DOMAIN some : /\ {"command", "batch"} \subseteq DOMAIN some[i]
                                      /\ some[i].command # "BATCH"

(* What tagging the lines of a reply with a batch does to them.            *)
LEMMA TaggedLines ==
  ASSUME NEW ref, NEW some, Listed(some), Lines(some)
  PROVE  /\ Listed(Tagged(ref, some)) /\ Len(Tagged(ref, some)) = Len(some)
         /\ \A i \in DOMAIN Tagged(ref, some) : /\ Tagged(ref, some)[i].batch = ref
                                                /\ Tagged(ref, some)[i].command # "BATCH"
<1> DEFINE t == Tagged(ref, some)
           n == Len(some)
<1>1. n \in Nat /\ DOMAIN some = 1 .. n
  BY ListedLen
<1>2. t = [i \in 1 .. n |-> [some[i] EXCEPT !.batch = ref]]
  BY <1>1 DEF Tagged
<1> HIDE DEF t, n
<1>3. t = [i \in 1 .. n |-> t[i]] /\ DOMAIN t = 1 .. n
  BY <1>2
<1>4. Listed(t) /\ Len(t) = n
  BY <1>1, <1>3, ListedOf
<1>5. ASSUME NEW i \in 1 .. n PROVE t[i].batch = ref /\ t[i].command # "BATCH"
  <2> DEFINE line == some[i]
  <2>1. /\ "command" \in DOMAIN line /\ "batch" \in DOMAIN line
        /\ line.command # "BATCH"
    BY <1>1 DEF Lines
  <2>2. t[i] = [line EXCEPT !.batch = ref]
    BY <1>2
  <2> HIDE DEF line
  <2> QED
    BY <2>1, <2>2
<1> QED
  BY <1>3, <1>4, <1>5 DEF t, n

(* A reply in batches leads from between to between, whatever is in it:    *)
(* its lines are collected in the batch, and removed with it.              *)
LEMMA LeadsInBatches ==
  ASSUME NEW kind, NEW start, NEW lines, Listed(lines), Lines(lines), lines # <<>>
  PROVE  /\ Leads(kind, start, InBatches(kind, lines), Between, Between)
         /\ Listed(InBatches(kind, lines))
         /\ \A i \in DOMAIN InBatches(kind, lines) : ~Plain(InBatches(kind, lines)[i])
<1> DEFINE r1 == <<kind, 1>>
           r2 == <<kind, 2>>
           inner == Tagged(r2, SubSeq(lines, 1, 1))
           outer == Tagged(r1, Tail(lines))
           b1 == BatchLine("+", r1, Untagged, <<>>)
           b2 == BatchLine("+", r2, r1, <<>>)
           b3 == BatchLine("-", r2, r1, inner)
           b4 == BatchLine("-", r1, Untagged, outer)
<1>1. InBatches(kind, lines) = <<b1, b2>> \o inner \o <<b3>> \o outer \o <<b4>>
  BY DEF InBatches, Tagged
<1>2. r1 # Untagged /\ r2 # Untagged /\ r1 # r2 /\ r1 \in Refs(kind) /\ r2 \in Refs(kind)
  BY RefsDiffer DEF Refs
<1>3. Listed(SubSeq(lines, 1, 1)) /\ Lines(SubSeq(lines, 1, 1))
  <2>1. PICK S : lines \in Seq(S)
    BY DEF Listed
  <2>2. Len(lines) \in Nat \ {0}
    BY ListedTail
  <2>3. SubSeq(lines, 1, 1) \in Seq(S) /\ Len(SubSeq(lines, 1, 1)) = 1
        /\ SubSeq(lines, 1, 1)[1] = lines[1]
    BY <2>1, <2>2
  <2>4. DOMAIN SubSeq(lines, 1, 1) = 1 .. 1 /\ 1 \in DOMAIN lines
    BY <2>1, <2>2, <2>3
  <2> QED
    BY <2>3, <2>4 DEF Listed, Lines
<1>4. Listed(Tail(lines)) /\ Lines(Tail(lines))
  <2> DEFINE n == Len(lines)
  <2>1. /\ Listed(Tail(lines)) /\ n \in Nat \ {0} /\ Len(Tail(lines)) = n - 1
        /\ \A i \in 1 .. n - 1 : Tail(lines)[i] = lines[i + 1]
    BY ListedTail
  <2>2. DOMAIN Tail(lines) = 1 .. n - 1 /\ DOMAIN lines = 1 .. n
    BY <2>1, ListedLen
  <2> HIDE DEF n
  <2>3. ASSUME NEW i \in 1 .. n - 1
        PROVE  /\ {"command", "batch"} \subseteq DOMAIN Tail(lines)[i]
               /\ Tail(lines)[i].command # "BATCH"
    <3>1. i + 1 \in 1 .. n /\ Tail(lines)[i] = lines[i + 1]
      BY <2>1
    <3> QED
      BY <2>2, <3>1 DEF Lines
  <2> QED
    BY <2>1, <2>2, <2>3 DEF Lines
<1>5. /\ Listed(inner) /\ \A i \in DOMAIN inner : inner[i].batch = r2 /\ inner[i].command # "BATCH"
      /\ Listed(outer) /\ \A i \in DOMAIN outer : outer[i].batch = r1 /\ outer[i].command # "BATCH"
  BY <1>3, <1>4, TaggedLines
<1> DEFINE o1 == With(Nothing, r1, {})
           o2 == With(o1, r2, {})
           o3 == With(o2, r2, Elements(inner))
           o4 == Without(o3, r2)
           o5 == With(o4, r1, Elements(outer))
           o6 == Without(o5, r1)
           Opened(open) == Progress({}, FALSE, open)
<1>6. /\ DOMAIN o1 = {r1} /\ o1[r1] = {}
      /\ DOMAIN o2 = {r1, r2} /\ o2[r1] = {} /\ o2[r2] = {}
      /\ DOMAIN o3 = {r1, r2} /\ o3[r1] = {} /\ o3[r2] = Elements(inner)
      /\ DOMAIN o4 = {r1} /\ o4[r1] = {}
      /\ DOMAIN o5 = {r1} /\ o5[r1] = Elements(outer)
      /\ DOMAIN o6 = {}
  <2> HIDE DEF r1, r2, inner, outer
  <2>1. DOMAIN o1 = {r1} /\ o1[r1] = {}
    BY DEF With, Nothing
  <2> HIDE DEF o1
  <2>2. DOMAIN o2 = {r1, r2} /\ o2[r1] = {} /\ o2[r2] = {}
    BY <1>2, <2>1 DEF With
  <2> HIDE DEF o2
  <2>3. DOMAIN o3 = {r1, r2} /\ o3[r1] = {} /\ o3[r2] = Elements(inner)
    BY <1>2, <2>2 DEF With
  <2> HIDE DEF o3
  <2>4. DOMAIN o4 = {r1} /\ o4[r1] = {}
    BY <1>2, <2>3 DEF Without
  <2> HIDE DEF o4
  <2>5. DOMAIN o5 = {r1} /\ o5[r1] = Elements(outer)
    BY <1>2, <2>4 DEF With
  <2> HIDE DEF o5
  <2>6. DOMAIN o6 = {}
    BY <2>5 DEF Without
  <2> QED
    BY <2>1, <2>2, <2>3, <2>4, <2>5, <2>6
<1>7. IsMap(o2) /\ IsMap(o4) /\ o6 = Nothing
  <2>1. IsMap(o2) /\ IsMap(o4)
    BY DEF IsMap, With, Without
  <2>2. o6 = [x \in DOMAIN o6 |-> o6[x]]
    BY DEF Without
  <2> QED
    BY <1>6, <2>1, <2>2 DEF Nothing
<1>8. /\ b1.command = "BATCH" /\ b1.sign = "+" /\ b1.key = r1
      /\ b2.command = "BATCH" /\ b2.sign = "+" /\ b2.key = r2
      /\ b3.command = "BATCH" /\ b3.sign = "-" /\ b3.key = r2 /\ b3.sent = Elements(inner)
      /\ b4.command = "BATCH" /\ b4.sign = "-" /\ b4.key = r1 /\ b4.sent = Elements(outer)
  BY DEF BatchLine, Elements
<1> HIDE DEF r1, r2, inner, outer, b1, b2, b3, b4
<1>9. Opened(Nothing) = Between
  BY DEF Between
<1>10. /\ Leads(kind, start, <<b1>>, Opened(Nothing), Opened(o1))
       /\ Leads(kind, start, <<b2>>, Opened(o1), Opened(o2))
       /\ Leads(kind, start, <<b3>>, Opened(o3), Opened(o4))
       /\ Leads(kind, start, <<b4>>, Opened(o5), Opened(o6))
  <2> DEFINE new(open, line) == IF line.sign = "+" THEN With(open, line.key, {})
                                ELSE Without(open, line.key)
  <2>1. ASSUME NEW open, NEW line, line.command = "BATCH", line.key \in Refs(kind),
               line.sign # "+" => line.key \in DOMAIN open /\ line.sent = open[line.key]
        PROVE  Leads(kind, start, <<line>>, Opened(open), Opened(new(open, line)))
    <3>1. Opened(open).seen = {} /\ Opened(open).begun = FALSE /\ Opened(open).open = open
      BY DEF Progress
    <3>2. Due(kind, start, Opened(open), line)
      BY <2>1, <3>1 DEF Due
    <3>3. After(Opened(open), line) = Opened(new(open, line))
      BY <2>1, <3>1 DEF After
    <3> QED
      BY <3>2, <3>3, LeadsOne
  <2>2. new(Nothing, b1) = o1 /\ new(o1, b2) = o2 /\ new(o3, b3) = o4 /\ new(o5, b4) = o6
    BY <1>8
  <2> HIDE DEF Opened, o1, o2, o3, o4, o5, o6
  <2>3. Leads(kind, start, <<b1>>, Opened(Nothing), Opened(new(Nothing, b1)))
    BY <1>2, <1>8, <2>1
  <2>4. Leads(kind, start, <<b2>>, Opened(o1), Opened(new(o1, b2)))
    BY <1>2, <1>8, <2>1
  <2>5. Leads(kind, start, <<b3>>, Opened(o3), Opened(new(o3, b3)))
    BY <1>2, <1>6, <1>8, <2>1
  <2>6. Leads(kind, start, <<b4>>, Opened(o5), Opened(new(o5, b4)))
    BY <1>2, <1>6, <1>8, <2>1
  <2> QED
    BY <2>2, <2>3, <2>4, <2>5, <2>6
<1>11. /\ Leads(kind, start, inner, Opened(o2), Opened(o3))
       /\ Leads(kind, start, outer, Opened(o4), Opened(o5))
  <2> HIDE DEF o2, o4
  <2> QED
    BY <1>2, <1>5, <1>6, <1>7, LeadsTagged
<1> HIDE DEF Opened, o1, o2, o3, o4, o5, o6
<1> DEFINE q2 == <<b1>> \o <<b2>>
           q3 == q2 \o inner
           q4 == q3 \o <<b3>>
           q5 == q4 \o outer
           q6 == q5 \o <<b4>>
<1>12. Listed(<<b1>>) /\ Listed(<<b2>>) /\ Listed(<<b3>>) /\ Listed(<<b4>>)
  BY ListedOne
<1>13. Listed(q2) /\ Leads(kind, start, q2, Opened(Nothing), Opened(o2))
  BY <1>10, <1>12, ListedConcat, LeadsConcat
<1> HIDE DEF q2
<1>14. Listed(q3) /\ Leads(kind, start, q3, Opened(Nothing), Opened(o3))
  BY <1>5, <1>11, <1>13, ListedConcat, LeadsConcat
<1> HIDE DEF q3
<1>15. Listed(q4) /\ Leads(kind, start, q4, Opened(Nothing), Opened(o4))
  BY <1>10, <1>12, <1>14, ListedConcat, LeadsConcat
<1> HIDE DEF q4
<1>16. Listed(q5) /\ Leads(kind, start, q5, Opened(Nothing), Opened(o5))
  BY <1>5, <1>11, <1>15, ListedConcat, LeadsConcat
<1> HIDE DEF q5
<1>17. Listed(q6) /\ Leads(kind, start, q6, Opened(Nothing), Opened(o6))
  BY <1>10, <1>12, <1>16, ListedConcat, LeadsConcat
<1>18. InBatches(kind, lines) = q6
  <2>1. <<b1, b2>> = <<b1>> \o <<b2>>
    <3>1. \A b, c : <<b>> \o <<c>> = <<b, c>>
      <4> TAKE b, c
      <4>1. <<b>> \in Seq({b, c}) /\ <<c>> \in Seq({b, c})
        OBVIOUS
      <4>2. <<b>> \o <<c>> \in Seq({b, c}) /\ Len(<<b>> \o <<c>>) = 2
        BY <4>1
      <4>3. (<<b>> \o <<c>>)[1] = b /\ (<<b>> \o <<c>>)[2] = c
        BY <4>1
      <4>4. <<b, c>> \in Seq({b, c}) /\ Len(<<b, c>>) = 2
        OBVIOUS
      <4>5. <<b, c>>[1] = b /\ <<b, c>>[2] = c
        OBVIOUS
      <4> DEFINE x == <<b>> \o <<c>>
                 y == <<b, c>>
      <4> HIDE DEF x, y
      <4>6. x = [i \in 1 .. 2 |-> x[i]] /\ y = [i \in 1 .. 2 |-> y[i]]
        BY <4>2, <4>4 DEF x, y
      <4>7. \A i \in 1 .. 2 : x[i] = y[i]
        <5>1. \A i \in 1 .. 2 : i = 1 \/ i = 2
          OBVIOUS
        <5> QED
          BY <4>3, <4>5, <5>1 DEF x, y
      <4> QED
        BY <4>6, <4>7 DEF x, y
    <3> QED
      BY <3>1
  <2> QED
    BY <1>1, <2>1 DEF q2, q3, q4, q5
<1>19. \A i \in DOMAIN q6 : ~Plain(q6[i])
  <2> DEFINE Hides(q) == \A i \in 1 .. Len(q) : ~Plain(q[i])
  <2>1. Hides(<<b1>>) /\ Hides(<<b2>>) /\ Hides(<<b3>>) /\ Hides(<<b4>>)
    <3>1. \A b : b.command = "BATCH" => \A i \in 1 .. Len(<<b>>) : ~Plain(<<b>>[i])
      <4> TAKE b
      <4>1. Len(<<b>>) = 1 /\ <<b>>[1] = b
        BY ListedOne
      <4>2. \A i \in 1 .. 1 : i = 1
        OBVIOUS
      <4> QED
        BY <4>1, <4>2 DEF Plain
    <3> QED
      BY <1>8, <3>1
  <2>2. Hides(inner) /\ Hides(outer)
    BY <1>2, <1>5, ListedLen DEF Plain
  <2>3. ASSUME NEW q, NEW b, Listed(q), Listed(b), Hides(q), Hides(b) PROVE Hides(q \o b)
    BY <2>3, ListedConcat
  <2> HIDE DEF Hides, q6
  <2>4. Hides(q2)
    BY <1>12, <2>1, <2>3 DEF q2
  <2>5. Hides(q3)
    BY <1>5, <1>13, <2>2, <2>3, <2>4 DEF q3
  <2>6. Hides(q4)
    BY <1>12, <1>14, <2>1, <2>3, <2>5 DEF q4
  <2>7. Hides(q5)
    BY <1>5, <1>15, <2>2, <2>3, <2>6 DEF q5
  <2>8. Hides(q6)
    BY <1>12, <1>16, <2>1, <2>3, <2>7 DEF q6
  <2> QED
    BY <1>17, <2>8, ListedLen DEF Hides
<1> QED
  BY <1>7, <1>9, <1>17, <1>18, <1>19

-----------------------------------------------------------------------------
(* What the requests leave behind.                                         *)
Same(kind) ==
  /\ answers'[kind] = answers[kind]
  /\ OpenBatches(kind)' = OpenBatches(kind)
  /\ kind = "who" => whoBuffers' = whoBuffers /\ disputed \subseteq disputed'
  /\ kind = "whois" => whoisBuffers' = whoisBuffers
  /\ kind = "list" => listBuffer' = listBuffer
  /\ kind = "motd" => motd' = motd
  /\ kind = "monitor" => monitorBuffer' = monitorBuffer
  /\ kind = "names" => namesBuffers' = namesBuffers /\ userhostBuffers' = userhostBuffers

(* A kind keeps its place when neither its lines nor its buffers change.   *)
LEMMA Untouched ==
  ASSUME NEW kind \in Replying, Keeping(kind), Same(kind),
         UNCHANGED <<up, server, connections>>,
         requests \in Nat, requests' \in Nat, requests' >= requests
  PROVE  Keeping(kind)'
<1>1. PICK s : /\ Leads(kind, server.liststart, answers[kind], s, Between)
               /\ Keeps(kind, s)
  BY DEF Keeping
<1>2. Leads(kind, server'.liststart, answers'[kind], s, Between)
  BY <1>1 DEF Same
<1>3. s.open = OpenBatches(kind)'
  BY <1>1 DEF Keeps, Same
<1>4. \A line \in s.seen : /\ line.connection = connections'
                           /\ line.request \in 1 .. requests'
                           /\ kind # "who" => line.key = line.target
  BY <1>1 DEF Keeps
<1>5. kind = "who" => WhoKeeps(s.seen)'
  BY <1>1 DEF Keeps, Same, WhoKeeps, At, Strays
<1>6. kind = "whois" => WhoisKeeps(s.seen)'
  BY <1>1 DEF Keeps, Same, WhoisKeeps, At, Older
<1>7. kind = "list" => ListKeeps(s)'
  BY <1>1 DEF Keeps, Same, ListKeeps, Older
<1>8. kind = "motd" => MotdKeeps(s)'
  BY <1>1 DEF Keeps, Same, MotdKeeps
<1>9. kind = "monitor" => MonitorKeeps(s.seen)'
  BY <1>1 DEF Keeps, Same, MonitorKeeps
<1>10. kind = "names" => NamesKeep(s.seen)'
  BY <1>1 DEF Keeps, Same, NamesKeep, At, Older
<1>11. Keeps(kind, s)'
  BY <1>3, <1>4, <1>5, <1>6, <1>7, <1>8, <1>9, <1>10 DEF Keeps
<1> QED
  BY <1>2, <1>11 DEF Keeping

(* A kind whose server sends more, for what leads from between to between, *)
(* keeps its place.                                                        *)
LEMMA Answered ==
  ASSUME DOMAIN answers = Kind, NEW kind \in Replying, Listed(answers[kind]),
         NEW lines, Listed(lines), Lines(lines), lines # <<>>,
         Leads(kind, server.liststart, lines, Between, Between),
         NEW batched \in BOOLEAN, Answer(kind, lines, batched)
  PROVE  /\ DOMAIN answers' = Kind
         /\ \A other \in Kind : other # kind => answers'[other] = answers[other]
         /\ Listed(answers'[kind])
         /\ \A s : Leads(kind, server.liststart, answers[kind], s, Between)
                   => Leads(kind, server.liststart, answers'[kind], s, Between)
         /\ \A i \in DOMAIN answers'[kind] :
              \/ i \in DOMAIN answers[kind] /\ answers'[kind][i] = answers[kind][i]
              \/ ~Plain(answers'[kind][i])
              \/ /\ i - Len(answers[kind]) \in DOMAIN lines
                 /\ answers'[kind][i] = lines[i - Len(answers[kind])]
         /\ Len(answers[kind]) \in Nat
<1> DEFINE more == IF batched THEN InBatches(kind, lines) ELSE lines
           q == answers[kind]
<1>1. kind \in Kind
  BY DEF Replying
<1>2. /\ DOMAIN answers' = Kind
      /\ \A other \in Kind : other # kind => answers'[other] = answers[other]
      /\ answers'[kind] = q \o more
  BY <1>1 DEF Answer
<1>3. Leads(kind, server.liststart, more, Between, Between) /\ Listed(more)
  BY LeadsInBatches
<1>4. \A i \in DOMAIN more : ~Plain(more[i]) \/ (i \in DOMAIN lines /\ more[i] = lines[i])
  BY LeadsInBatches
<1> HIDE DEF more, q
<1>5. Listed(q)
  BY DEF q
<1>6. /\ Listed(q \o more) /\ Len(q) \in Nat
      /\ DOMAIN q = 1 .. Len(q) /\ DOMAIN more = 1 .. Len(more)
      /\ DOMAIN (q \o more) = 1 .. Len(q \o more)
  BY <1>3, <1>5, ListedConcat, ListedLen
<1>7. \A i \in 1 .. Len(q \o more) : \/ i \in 1 .. Len(q) /\ (q \o more)[i] = q[i]
                                     \/ i - Len(q) \in 1 .. Len(more) /\ (q \o more)[i] = more[i - Len(q)]
  BY <1>3, <1>5, ListedConcat
<1>8. ASSUME NEW i \in DOMAIN (q \o more)
      PROVE  \/ i \in DOMAIN q /\ (q \o more)[i] = q[i]
             \/ ~Plain((q \o more)[i])
             \/ i - Len(q) \in DOMAIN lines /\ (q \o more)[i] = lines[i - Len(q)]
  <2>1. CASE i \in 1 .. Len(q) /\ (q \o more)[i] = q[i]
    BY <1>6, <2>1
  <2>2. CASE i - Len(q) \in 1 .. Len(more) /\ (q \o more)[i] = more[i - Len(q)]
    BY <1>4, <1>6, <2>2
  <2> QED
    BY <1>6, <1>7, <2>1, <2>2
<1>9. \A s : Leads(kind, server.liststart, q, s, Between)
             => Leads(kind, server.liststart, q \o more, s, Between)
  BY <1>3, <1>5, LeadsConcat
<1> QED
  BY <1>2, <1>6, <1>8, <1>9 DEF q

(* The lines of a new reply, and what is asked with them about tokens.     *)
NewLines(kind, lines) ==
  \A i \in DOMAIN lines : lines[i].command \in Parts =>
    /\ lines[i].connection = connections
    /\ lines[i].request = requests + 1
    /\ kind # "who" => lines[i].key = lines[i].target
(* who() with WHOX takes a token, or does not.  What is on its way with a  *)
(* token that is taken is for the same target, or in dispute.              *)
NewTokens ==
  /\ tokenCounter' \in Nat
  /\ DOMAIN tokenMap \subseteq DOMAIN tokenMap' /\ DOMAIN tokenMap' \subseteq Nat
  /\ disputed \subseteq disputed'
  /\ \A i \in DOMAIN answers["who"] :
       LET line == answers["who"][i]
       IN  line.batch = Untagged /\ line.command = "RPL_WHOSPCRPL" /\ line.key \in DOMAIN tokenMap' =>
             \/ line.key \in DOMAIN tokenMap /\ tokenMap'[line.key] = tokenMap[line.key]
             \/ tokenMap'[line.key] = line.target
             \/ line.request \in disputed'
(* The lines a server may send for who().                                  *)
NewWho(lines) ==
  /\ \A i \in DOMAIN lines : lines[i].command = "RPL_WHOSPCRPL" => Tokened(lines[i])'
  /\ \A i \in DOMAIN lines : lines[i].command = "RPL_ENDOFWHO" =>
       /\ i = Len(lines)
       /\ lines[i].key \in Channel \cup Nick
       /\ lines[i].sound => \A part \in lines[i].sent :
            /\ part.request = requests + 1
            /\ part.command = "RPL_WHOREPLY" => part.key = lines[i].key
            /\ part.command = "RPL_WHOSPCRPL" =>
                 /\ part.target = lines[i].key /\ part.batch = Untagged
                 /\ Known(part, lines[i].key)'
                 /\ \A j \in DOMAIN answers["who"] :
                      answers["who"][j].command = "RPL_ENDOFWHO" => answers["who"][j].key # lines[i].key

(* who() preserves the invariant when the server sends such lines.         *)
LEMMA AskedWho ==
  ASSUME Basics, Sending, NEW s, Keeps("who", s),
         NEW lines, Listed(lines), NewTokens, NewLines("who", lines), NewWho(lines),
         Requests,
         Listed(answers'["who"]),
         \A i \in DOMAIN answers'["who"] :
              \/ i \in DOMAIN answers["who"] /\ answers'["who"][i] = answers["who"][i]
              \/ ~Plain(answers'["who"][i])
              \/ /\ i - Len(answers["who"]) \in DOMAIN lines
                 /\ answers'["who"][i] = lines[i - Len(answers["who"])]
  PROVE  /\ \A i \in DOMAIN answers'["who"] : EndsWho(i)'
         /\ UNCHANGED whoBuffers => WhoKeeps(s.seen)'
<1> DEFINE q == answers["who"]
           n == Len(q)
           r == answers'["who"]
<1>1. Listed(q) /\ n \in Nat /\ DOMAIN q = 1 .. n /\ DOMAIN lines = 1 .. Len(lines) /\ Len(lines) \in Nat
  BY ListedLen DEF Sending, Kind
<1>2. requests' = requests + 1 /\ requests \in Nat /\ connections' = connections /\ up' = up
  BY DEF Requests, Basics
<1>3. DOMAIN r = 1 .. Len(r) /\ Len(r) \in Nat
  BY ListedLen
<1>4. \A i \in DOMAIN r : \/ i \in DOMAIN q /\ r[i] = q[i]
                          \/ ~Plain(r[i])
                          \/ i - n \in DOMAIN lines /\ r[i] = lines[i - n]
  OBVIOUS
<1>5. \A i \in DOMAIN q : EndsWho(i)
  BY DEF Sending
<1> HIDE DEF q, n, r
<1>8. ASSUME NEW part, NEW target, part.request \in 1 .. requests, part.command = "RPL_WHOSPCRPL",
             part.target = target, part.batch = Untagged,
             Found(part, target)
      PROVE  FoundNext(part, target)
  <2>1. "RPL_WHOSPCRPL" \in Parts
    BY DEF Parts
  <2> SUFFICES ASSUME NEW j \in DOMAIN r, r[j] = part, part.request \notin disputed'
               PROVE  KnownNext(part, target)
    BY DEF FoundNext, r
  <2>2. j \in DOMAIN r /\ r[j] = part
    OBVIOUS
  <2>3. Plain(r[j])
    BY <1>8, <2>1, <2>2, Commands DEF Plain
  <2>4. ASSUME j - n \in DOMAIN lines, r[j] = lines[j - n] PROVE FALSE
    <3>1. part.request = requests + 1
      BY <1>8, <2>1, <2>2, <2>4 DEF NewLines
    <3> QED
      BY <1>2, <1>8, <3>1
  <2>5. j \in DOMAIN q /\ q[j] = part
    BY <1>4, <2>2, <2>3, <2>4
  <2>6. Known(part, target)
    BY <1>8, <2>5 DEF Found, OnWay, NewTokens, q
  <2>7. part.key \in DOMAIN tokenMap'
    BY <2>6 DEF Known, NewTokens
  <2>8. \/ part.key \in DOMAIN tokenMap /\ tokenMap'[part.key] = tokenMap[part.key]
        \/ tokenMap'[part.key] = part.target
    BY <1>8, <2>5, <2>7 DEF NewTokens, q
  <2> QED
    BY <1>8, <2>6, <2>7, <2>8 DEF Known, KnownNext
<1>6. ASSUME NEW i \in DOMAIN r PROVE EndsWho(i)'
  <2> SUFFICES ASSUME r[i].batch = Untagged, r[i].command = "RPL_ENDOFWHO"
               PROVE  /\ r[i].key \in Channel \cup Nick
                      /\ r[i].sound => \A part \in r[i].sent :
                           /\ part.request \in 1 .. requests'
                           /\ part.command = "RPL_WHOREPLY" => part.key = r[i].key
                           /\ part.command = "RPL_WHOSPCRPL" =>
                                /\ part.target = r[i].key /\ part.batch = Untagged
                                /\ FoundNext(part, r[i].key)
                                /\ \A j \in 1 .. i - 1 : /\ r[j].command = "RPL_ENDOFWHO"
                                                         /\ r[j].batch = Untagged
                                                         => r[j].key # r[i].key
    BY DEF EndsWho, r, Found, FoundNext, Known, KnownNext, OnWay
  <2>1. Plain(r[i])
    BY DEF Plain
  <2>2. CASE i \in DOMAIN q /\ r[i] = q[i]
    <3>1. /\ q[i].key \in Channel \cup Nick
          /\ q[i].sound => \A part \in q[i].sent :
               /\ part.request \in 1 .. requests
               /\ part.command = "RPL_WHOREPLY" => part.key = q[i].key
               /\ part.command = "RPL_WHOSPCRPL" =>
                    /\ part.target = q[i].key /\ part.batch = Untagged
                    /\ Found(part, q[i].key)
                    /\ \A j \in 1 .. i - 1 : /\ q[j].command = "RPL_ENDOFWHO"
                                             /\ q[j].batch = Untagged
                                             => q[j].key # q[i].key
      BY <1>5, <2>2 DEF EndsWho, q
    <3>2. ASSUME NEW j \in 1 .. i - 1, r[j].command = "RPL_ENDOFWHO", r[j].batch = Untagged
          PROVE  j \in DOMAIN q /\ r[j] = q[j]
      <4>1. j \in DOMAIN q /\ j \in DOMAIN r /\ j - n \notin DOMAIN lines
        BY <1>1, <1>3, <2>2
      <4>2. Plain(r[j])
        BY <3>2 DEF Plain
      <4> QED
        BY <1>4, <4>1, <4>2
    <3>3. PICK key : key = q[i].key
      OBVIOUS
    <3>4. ASSUME q[i].sound, NEW part \in q[i].sent
          PROVE  /\ part.request \in 1 .. requests'
                 /\ part.command = "RPL_WHOREPLY" => part.key = key
                 /\ part.command = "RPL_WHOSPCRPL" =>
                      /\ part.target = key /\ part.batch = Untagged
                      /\ FoundNext(part, key)
                      /\ \A j \in 1 .. i - 1 : /\ q[j].command = "RPL_ENDOFWHO"
                                               /\ q[j].batch = Untagged
                                               => q[j].key # key
      <4>1. part.request \in 1 .. requests /\ (part.command = "RPL_WHOREPLY" => part.key = key)
        BY <3>1, <3>3, <3>4
      <4>2. part.command = "RPL_WHOSPCRPL" =>
              /\ part.target = key /\ part.batch = Untagged
              /\ Found(part, key)
              /\ \A j \in 1 .. i - 1 : /\ q[j].command = "RPL_ENDOFWHO"
                                       /\ q[j].batch = Untagged
                                       => q[j].key # key
        BY <3>1, <3>3, <3>4
      <4>3. part.command = "RPL_WHOSPCRPL" =>
              FoundNext(part, key)
        BY <1>8, <4>1, <4>2
      <4> QED
        BY <1>2, <4>1, <4>2, <4>3
    <3> QED
      BY <2>2, <3>1, <3>2, <3>3, <3>4
  <2>3. CASE i - n \in DOMAIN lines /\ r[i] = lines[i - n]
    <3>1. /\ i - n = Len(lines)
          /\ r[i].key \in Channel \cup Nick
          /\ r[i].sound => \A part \in r[i].sent :
               /\ part.request = requests + 1
               /\ part.command = "RPL_WHOREPLY" => part.key = r[i].key
               /\ part.command = "RPL_WHOSPCRPL" =>
                    /\ part.target = r[i].key /\ part.batch = Untagged
                    /\ KnownNext(part, r[i].key)
                    /\ \A j \in DOMAIN q : q[j].command = "RPL_ENDOFWHO" => q[j].key # r[i].key
      BY <2>3 DEF NewWho, q, Known, KnownNext
    <3>2. ASSUME NEW j \in 1 .. i - 1, r[j].command = "RPL_ENDOFWHO", r[j].batch = Untagged
          PROVE  j \in DOMAIN q /\ r[j] = q[j]
      <4>1. j \in DOMAIN r
        BY <1>3
      <4>2. Plain(r[j])
        BY <3>2 DEF Plain
      <4>3. ASSUME j - n \in DOMAIN lines, r[j] = lines[j - n] PROVE FALSE
        <5>1. j - n = Len(lines)
          BY <3>2, <4>3 DEF NewWho
        <5> QED
          BY <1>1, <1>3, <3>1, <5>1
      <4> QED
        BY <1>4, <4>1, <4>2, <4>3
    <3>3. requests + 1 \in 1 .. requests'
      BY <1>2
    <3>4. \A part, key : KnownNext(part, key) => FoundNext(part, key)
      BY DEF FoundNext
    <3> QED
      BY <3>1, <3>2, <3>3, <3>4
  <2> QED
    BY <1>4, <2>1, <2>2, <2>3
<1>7. ASSUME UNCHANGED whoBuffers PROVE WhoKeeps(s.seen)'
  <2>1. WhoKeeps(s.seen) /\ \A line \in s.seen : line.request \in 1 .. requests
    BY DEF Keeps
  <2>2. ASSUME NEW i \in DOMAIN r, r[i].batch = Untagged, r[i].command = "RPL_ENDOFWHO", r[i].sound,
               NEW part \in r[i].sent \cap s.seen
        PROVE  part \in At(whoBuffers, r[i].key) \/ part.request \in disputed
    <3>1. Plain(r[i])
      BY <2>2 DEF Plain
    <3>2. CASE i \in DOMAIN q /\ r[i] = q[i]
      BY <2>1, <2>2, <3>2 DEF WhoKeeps, q
    <3>3. CASE i - n \in DOMAIN lines /\ r[i] = lines[i - n]
      <4>1. part.request = requests + 1
        BY <2>2, <3>3 DEF NewWho
      <4>2. part.request \in 1 .. requests
        BY <2>1
      <4> QED
        BY <1>2, <4>1, <4>2
    <3> QED
      BY <1>4, <3>1, <3>2, <3>3
  <2>3. whoBuffers' = whoBuffers
    BY <1>7
  <2>4. \A i \in DOMAIN r : r[i].batch = Untagged /\ r[i].command = "RPL_ENDOFWHO" /\ r[i].sound =>
           \A part \in r[i].sent \cap s.seen :
             part \in At(whoBuffers', r[i].key) \/ part.request \in disputed'
    BY <2>2, <2>3 DEF NewTokens
  <2>5. disputed \subseteq disputed' /\ server' = server
    BY DEF NewTokens, Requests
  <2>6. \A target, line : Strays(target, line) => Strays(target, line)'
    BY <2>5 DEF Strays
  <2> QED
    BY <1>2, <1>7, <2>1, <2>4, <2>6 DEF WhoKeeps, r
<1> QED
  BY <1>6, <1>7 DEF r

(* The lines that are on their way stay as they are when a request is      *)
(* made.                                                                   *)
LEMMA StillSends ==
  ASSUME NEW kind, NEW i \in DOMAIN answers[kind], NEW line, line = answers[kind][i],
         Sends(kind, line), UNCHANGED <<connections, server>>,
         requests \in Nat, requests' \in Nat, requests' >= requests, NewTokens
  PROVE  Sends(kind, line)'
<1> SUFFICES ASSUME line.batch = Untagged, line.command \in Parts
             PROVE  /\ line.connection = connections'
                    /\ line.request \in 1 .. requests'
                    /\ kind # "who" => line.key = line.target
                    /\ kind = "who" /\ line.command = "RPL_WHOSPCRPL" => Tokened(line)'
  BY DEF Sends
<1>1. /\ line.connection = connections
      /\ line.request \in 1 .. requests
      /\ kind # "who" => line.key = line.target
      /\ kind = "who" /\ line.command = "RPL_WHOSPCRPL" => Tokened(line)
  BY DEF Sends
<1>2. ASSUME kind = "who", line.command = "RPL_WHOSPCRPL", server.token PROVE Tokened(line)'
  <2>1. /\ line.key \in Nat
        /\ line.key \notin DOMAIN tokenMap \/ Known(line, line.target) \/ line.request \in disputed
    BY <1>1, <1>2 DEF Tokened
  <2>2. line.key \in DOMAIN tokenMap' =>
          \/ line.key \in DOMAIN tokenMap /\ tokenMap'[line.key] = tokenMap[line.key]
          \/ tokenMap'[line.key] = line.target
          \/ line.request \in disputed'
    BY <1>2 DEF NewTokens
  <2>3. disputed \subseteq disputed'
    BY DEF NewTokens
  <2> QED
    BY <2>1, <2>2, <2>3 DEF Tokened, Known
<1>3. kind = "who" /\ line.command = "RPL_WHOSPCRPL" => Tokened(line)'
  <2>1. CASE server.token
    BY <1>2, <2>1
  <2>2. CASE ~server.token
    BY <2>2 DEF Tokened
  <2> QED
    BY <2>1, <2>2
<1> QED
  BY <1>1, <1>3

(* So do the last lines of who(), when the request is another.             *)
LEMMA EndStays ==
  ASSUME NEW i \in DOMAIN answers["who"], EndsWho(i), answers'["who"] = answers["who"],
         requests \in Nat, requests' \in Nat, requests' >= requests, NewTokens
  PROVE  EndsWho(i)'
<1> DEFINE q == answers["who"]
<1>1. answers'["who"] = q
  BY DEF q
<1>2. ASSUME NEW part, NEW target, part.command = "RPL_WHOSPCRPL", part.target = target,
             part.batch = Untagged,
             Found(part, target)
      PROVE  FoundNext(part, target)
  <2> SUFFICES ASSUME NEW j \in DOMAIN q, q[j] = part, part.request \notin disputed'
               PROVE  KnownNext(part, target)
    BY <1>1 DEF FoundNext
  <2>1. q[j] = part
    OBVIOUS
  <2>2. Known(part, target)
    BY <1>2, <2>1 DEF NewTokens, Found, OnWay, q
  <2>3. part.key \in DOMAIN tokenMap'
    BY <2>2 DEF Known, NewTokens
  <2>4. \/ part.key \in DOMAIN tokenMap /\ tokenMap'[part.key] = tokenMap[part.key]
        \/ tokenMap'[part.key] = part.target
    BY <1>2, <2>1, <2>3 DEF NewTokens, q
  <2> QED
    BY <1>2, <2>2, <2>3, <2>4 DEF Known, KnownNext
<1> HIDE DEF q
<1> SUFFICES ASSUME q[i].batch = Untagged, q[i].command = "RPL_ENDOFWHO"
             PROVE  /\ q[i].key \in Channel \cup Nick
                    /\ q[i].sound => \A part \in q[i].sent :
                         /\ part.request \in 1 .. requests'
                         /\ part.command = "RPL_WHOREPLY" => part.key = q[i].key
                         /\ part.command = "RPL_WHOSPCRPL" =>
                              /\ part.target = q[i].key /\ part.batch = Untagged
                              /\ FoundNext(part, q[i].key)
                              /\ \A j \in 1 .. i - 1 : /\ q[j].command = "RPL_ENDOFWHO"
                                                       /\ q[j].batch = Untagged
                                                       => q[j].key # q[i].key
  BY <1>1 DEF EndsWho, Found, FoundNext, Known, KnownNext, OnWay
<1>3. PICK key : key = q[i].key
  OBVIOUS
<1>4. /\ key \in Channel \cup Nick
      /\ q[i].sound => \A part \in q[i].sent :
           /\ part.request \in 1 .. requests
           /\ part.command = "RPL_WHOREPLY" => part.key = key
           /\ part.command = "RPL_WHOSPCRPL" =>
                /\ part.target = key /\ part.batch = Untagged
                /\ Found(part, key)
                /\ \A j \in 1 .. i - 1 : /\ q[j].command = "RPL_ENDOFWHO"
                                         /\ q[j].batch = Untagged
                                         => q[j].key # key
  BY <1>3 DEF EndsWho, q
<1>5. 1 .. requests \subseteq 1 .. requests'
  OBVIOUS
<1> QED
  BY <1>2, <1>3, <1>4, <1>5

(* The other commands preserve the invariant when what the server sends    *)
(* leads from between to between.                                          *)
LEMMA Asked ==
  ASSUME IInv, NEW kind \in Replying,
         NEW lines, Listed(lines), Lines(lines), lines # <<>>,
         Leads(kind, server.liststart, lines, Between, Between),
         NEW batched \in BOOLEAN, Answer(kind, lines, batched), Requests,
         NewLines(kind, lines), NewTokens, kind = "who" => NewWho(lines)
  PROVE  IInv'
<1>1. Basics /\ Sending /\ \A k \in Replying : Keeping(k)
  BY DEF IInv
<1>2. /\ UNCHANGED <<up, server, connections, whoBuffers, whoisBuffers, plainVars, namesVars, batches>>
      /\ requests' = requests + 1 /\ event' = NoEvent /\ up
  BY DEF Requests
<1>3. requests \in Nat /\ requests' \in Nat /\ requests' >= requests /\ tokenCounter \in Nat
  BY <1>1, <1>2 DEF Basics
<1>4. Listed(answers[kind]) /\ DOMAIN answers = Kind /\ kind \in Kind
  BY <1>1 DEF Sending, Basics, Replying
<1>5. /\ DOMAIN answers' = Kind
      /\ \A other \in Kind : other # kind => answers'[other] = answers[other]
      /\ Listed(answers'[kind])
      /\ \A s : Leads(kind, server.liststart, answers[kind], s, Between)
                => Leads(kind, server.liststart, answers'[kind], s, Between)
      /\ \A i \in DOMAIN answers'[kind] :
           \/ i \in DOMAIN answers[kind] /\ answers'[kind][i] = answers[kind][i]
           \/ ~Plain(answers'[kind][i])
           \/ /\ i - Len(answers[kind]) \in DOMAIN lines
              /\ answers'[kind][i] = lines[i - Len(answers[kind])]
  BY <1>1, <1>4, Answered
<1>6. Basics'
  <2>1. /\ up' \in BOOLEAN /\ server' \in Server
        /\ connections' \in Nat /\ requests' \in Nat /\ tokenCounter' \in Nat
        /\ DOMAIN tokenMap' \subseteq Nat
        /\ DOMAIN batches' \subseteq UNION {Refs(k) : k \in Replying}
    BY <1>1, <1>2, <1>3 DEF Basics, NewTokens
  <2> QED
    BY <1>2, <1>5, <2>1 DEF Basics
<1>7. Sending'
  <2>1. \A k \in Kind : Listed(answers'[k])
    BY <1>1, <1>5 DEF Sending
  <2>2. ASSUME NEW k \in Replying, NEW i \in DOMAIN answers'[k], NEW line, line = answers'[k][i]
        PROVE  Sends(k, line)'
    <3>1. ASSUME i \in DOMAIN answers[k], line = answers[k][i] PROVE Sends(k, line)'
      <4>1. Sends(k, answers[k][i])
        BY <1>1, <3>1 DEF Sending
      <4> QED
        BY <1>2, <1>3, <3>1, <4>1, StillSends
    <3>2. ASSUME ~Plain(line) PROVE Sends(k, line)'
      <4>1. ~(line.batch = Untagged /\ line.command \in Parts)
        BY <3>2, Commands DEF Plain
      <4> QED
        BY <4>1 DEF Sends
    <3>3. ASSUME k = kind, NEW j \in DOMAIN lines, line = lines[j] PROVE Sends(k, line)'
      <4>1. \A l : /\ l.command \in Parts => /\ l.connection = connections
                                             /\ l.request = requests + 1
                                             /\ kind # "who" => l.key = l.target
                   /\ kind = "who" /\ l.command = "RPL_WHOSPCRPL" => Tokened(l)'
                   => Sends(kind, l)'
        <5>1. requests + 1 \in 1 .. requests'
          BY <1>2, <1>3
        <5> QED
          BY <1>2, <5>1 DEF Sends
      <4>2. lines[j].command \in Parts => /\ lines[j].connection = connections
                                          /\ lines[j].request = requests + 1
                                          /\ kind # "who" => lines[j].key = lines[j].target
        BY DEF NewLines
      <4>3. kind = "who" /\ lines[j].command = "RPL_WHOSPCRPL" => Tokened(lines[j])'
        BY DEF NewWho
      <4>4. Sends(kind, lines[j])'
        BY <4>1, <4>2, <4>3
      <4> QED
        BY <3>3, <4>4
    <3>4. CASE k = kind
      BY <1>5, <2>2, <3>1, <3>2, <3>3, <3>4
    <3>5. CASE k # kind
      <4>1. answers'[k] = answers[k]
        BY <1>5, <3>5 DEF Replying
      <4> QED
        BY <2>2, <3>1, <4>1
    <3> QED
      BY <3>4, <3>5
  <2>3. \A i \in DOMAIN answers'["who"] : EndsWho(i)'
    <3>1. CASE kind = "who"
      <4>1. PICK s : Keeps("who", s)
        BY <1>1, <3>1 DEF Keeping
      <4> QED
        BY <1>1, <1>5, <3>1, <4>1, AskedWho
    <3>2. CASE kind # "who"
      <4>1. answers'["who"] = answers["who"]
        BY <1>5, <3>2 DEF Kind
      <4>2. \A i \in DOMAIN answers["who"] : EndsWho(i)
        BY <1>1 DEF Sending
      <4>3. ASSUME NEW i \in DOMAIN answers["who"] PROVE EndsWho(i)'
        BY <1>1, <1>2, <1>3, <4>1, <4>2, <4>3, EndStays
      <4> QED
        BY <4>1, <4>3
    <3> QED
      BY <3>1, <3>2
  <2>4. \A i \in DOMAIN answers'["away"] : SendsAway(answers["away"][i])'
    <3>1. answers'["away"] = answers["away"]
      BY <1>5 DEF Replying, Kind
    <3> QED
      BY <1>1, <1>2, <3>1 DEF Sending, SendsAway
  <2>5. \A k \in Replying : \A i \in DOMAIN answers'[k] : Sends(k, answers[k][i])'
    BY <2>2
  <2> QED
    BY <2>1, <2>3, <2>4, <2>5 DEF Sending
<1>8. ASSUME NEW k \in Replying PROVE Keeping(k)'
  <2>1. CASE k # kind
    <3>1. Same(k)
      BY <1>2, <1>3, <1>5, <2>1 DEF Same, Replying, OpenBatches, plainVars, namesVars, NewTokens
    <3> QED
      BY <1>1, <1>2, <1>3, <3>1, Untouched
  <2>2. CASE k = kind
    <3>1. PICK s : /\ Leads(kind, server.liststart, answers[kind], s, Between)
                   /\ Keeps(kind, s)
      BY <1>1 DEF Keeping
    <3>2. Leads(kind, server'.liststart, answers'[kind], s, Between)
      BY <1>2, <1>5, <3>1
    <3>3. s.open = OpenBatches(kind)'
      BY <1>2, <3>1 DEF Keeps, OpenBatches
    <3>4. \A line \in s.seen : /\ line.connection = connections'
                               /\ line.request \in 1 .. requests'
                               /\ kind # "who" => line.key = line.target
      BY <1>2, <1>3, <3>1 DEF Keeps
    <3>5. kind = "who" => WhoKeeps(s.seen)'
      <4>1. ASSUME kind = "who" PROVE WhoKeeps(s.seen)'
        BY <1>1, <1>2, <1>5, <3>1, <4>1, AskedWho
      <4> QED
        BY <4>1
    <3>6. kind = "whois" => WhoisKeeps(s.seen)'
      BY <1>2, <3>1 DEF Keeps, WhoisKeeps, At, Older
    <3>7. kind = "list" => ListKeeps(s)'
      BY <1>2, <3>1 DEF Keeps, ListKeeps, Older, plainVars
    <3>8. kind = "motd" => MotdKeeps(s)'
      BY <1>2, <3>1 DEF Keeps, MotdKeeps, plainVars
    <3>9. kind = "monitor" => MonitorKeeps(s.seen)'
      BY <1>2, <3>1 DEF Keeps, MonitorKeeps, plainVars
    <3>10. kind = "names" => NamesKeep(s.seen)'
      BY <1>2, <3>1 DEF Keeps, NamesKeep, At, Older, namesVars
    <3>11. Keeps(kind, s)'
      BY <3>3, <3>4, <3>5, <3>6, <3>7, <3>8, <3>9, <3>10 DEF Keeps
    <3> QED
      BY <2>2, <3>2, <3>11 DEF Keeping
  <2> QED
    BY <2>1, <2>2
<1>9. RepliesAreExact' /\ UserhostsFollowNames'
  BY <1>2 DEF RepliesAreExact, UserhostsFollowNames, IInv, namesVars
<1> QED
  BY <1>6, <1>7, <1>8, <1>9 DEF IInv

-----------------------------------------------------------------------------
(* The replies that servers send.                                          *)
PartsOf(command, keys, target, n) == [i \in 1 .. n |-> Part(command, keys[i], target, i)]
Equal(key, n) == [i \in 1 .. n |-> key]
(* A reply by its parts and its last line.                                 *)
ReplyOf(command, key, target, n, lastCommand, sound) ==
  Append(PartsOf(command, key, target, n),
         Last(lastCommand, target, PartsOf(command, key, target, n), sound))
LastCommand(command) == command \notin Starts /\ command \notin Parts /\ command # "BATCH"

(* The lines of Reply, one by one.                                         *)
LEMMA PartIs ==
  ASSUME NEW command, NEW key, NEW target, NEW i
  PROVE  LET part == Part(command, key, target, i)
         IN  /\ part.command = command /\ part.key = key /\ part.target = target /\ part.part = i
             /\ part.request = requests + 1 /\ part.connection = connections
             /\ part.batch = Untagged
             /\ {"command", "batch"} \subseteq DOMAIN part
BY DEF Part

(* The parts that all have the same key.                                   *)
LEMMA PartsEqual ==
  ASSUME NEW command, NEW key, NEW target, NEW n
  PROVE  /\ [i \in 1 .. n |-> Part(command, key, target, i)] = PartsOf(command, Equal(key, n), target, n)
         /\ \A i \in 1 .. n : Equal(key, n)[i] = key
<1>1. \A i \in 1 .. n : Equal(key, n)[i] = key
  BY DEF Equal
<1>2. \A i \in 1 .. n : Part(command, key, target, i) = Part(command, Equal(key, n)[i], target, i)
  BY <1>1
<1> QED
  BY <1>1, <1>2 DEF PartsOf

LEMMA ReplyIs ==
  ASSUME NEW command, NEW key, NEW n, NEW last, NEW sound, sound = TRUE
  PROVE  Reply(command, key, n, last) = ReplyOf(command, Equal(key, n), key, n, last, sound)
<1>1. PICK parts : parts = PartsOf(command, Equal(key, n), key, n)
  OBVIOUS
<1>2. parts = [i \in 1 .. n |-> Part(command, key, key, i)]
  BY <1>1, PartsEqual
<1>3. Reply(command, key, n, last) = Append(parts, Last(last, key, parts, TRUE))
  BY <1>2 DEF Reply
<1>4. ReplyOf(command, Equal(key, n), key, n, last, sound) = Append(parts, Last(last, key, parts, sound))
  BY <1>1 DEF ReplyOf
<1> QED
  BY <1>3, <1>4

LEMMA ReplyAt ==
  ASSUME NEW n \in Nat, NEW command, NEW keys, NEW target, NEW lastCommand, NEW sound
  PROVE  LET lines == ReplyOf(command, keys, target, n, lastCommand, sound)
         IN  /\ DOMAIN lines = 1 .. n + 1 /\ Len(lines) = n + 1
             /\ \A i \in 1 .. n : lines[i] = Part(command, keys[i], target, i)
             /\ lines[n + 1] = Last(lastCommand, target, PartsOf(command, keys, target, n), sound)
<1> DEFINE parts == PartsOf(command, keys, target, n)
           last == Last(lastCommand, target, parts, sound)
           S == {parts[i] : i \in 1 .. n} \cup {last}
<1>1. \A i \in 1 .. n : parts[i] = Part(command, keys[i], target, i)
  BY DEF PartsOf
<1>2. parts \in Seq(S) /\ Len(parts) = n
  <2>1. parts = [i \in 1 .. n |-> parts[i]]
    BY DEF PartsOf
  <2> HIDE DEF parts, last
  <2> QED
    BY <2>1
<1> HIDE DEF parts, last
<1>3. last \in S
  OBVIOUS
<1> HIDE DEF S
<1> DEFINE lines == Append(parts, last)
<1>4. /\ DOMAIN lines = 1 .. n + 1 /\ Len(lines) = n + 1
      /\ \A i \in 1 .. n : lines[i] = parts[i]
      /\ lines[n + 1] = last
  BY <1>2, <1>3
<1>5. ReplyOf(command, keys, target, n, lastCommand, sound) = lines
  BY DEF ReplyOf, parts, last
<1> HIDE DEF lines
<1> QED
  BY <1>1, <1>4, <1>5 DEF parts, last

LEMMA ReplyLines ==
  ASSUME NEW kind, NEW start, NEW n \in Nat, NEW command, n = 0 \/ command \in Parts,
         NEW keys, NEW target, NEW lastCommand, LastCommand(lastCommand), NEW sound,
         lastCommand = "ERR_NOMOTD" => n = 0,
         NEW begun, Begins(kind, start) => begun
  PROVE  LET lines == ReplyOf(command, keys, target, n, lastCommand, sound)
         IN  /\ Leads(kind, start, lines, Progress({}, begun, Nothing), Between)
             /\ Listed(lines) /\ lines # <<>> /\ Lines(lines)
<1> DEFINE lines == ReplyOf(command, keys, target, n, lastCommand, sound)
           parts == PartsOf(command, keys, target, n)
           last == Last(lastCommand, target, parts, sound)
<1>1. Listed(parts) /\ DOMAIN parts = 1 .. n /\ Len(parts) = n
  <2>1. parts = [i \in 1 .. n |-> parts[i]]
    BY DEF PartsOf
  <2> HIDE DEF parts
  <2> QED
    BY <2>1, ListedOf
<1>2. \A i \in 1 .. n : parts[i] = Part(command, keys[i], target, i)
  BY DEF PartsOf
<1>3. \A i \in 1 .. n : /\ parts[i].batch = Untagged /\ parts[i].part = i
                        /\ parts[i].target = target /\ parts[i].command = command
                        /\ {"command", "batch"} \subseteq DOMAIN parts[i]
  <2> HIDE DEF parts
  <2> QED
    BY <1>2, PartIs
<1>4. /\ last.command = lastCommand /\ last.key = target /\ last.batch = Untagged
      /\ last.sent = Elements(parts)
      /\ {"command", "batch"} \subseteq DOMAIN last
  BY DEF Last, Elements
<1> HIDE DEF parts, last
<1>5. Numbered(parts)
  BY <1>1, <1>3 DEF Numbered
<1>6. Plain(last) /\ last.command \notin Starts /\ last.command \notin Parts
  BY <1>4 DEF Plain, LastCommand
<1>7. lines = Append(parts, last)
  BY DEF parts, last, ReplyOf
<1> HIDE DEF lines
<1>8. /\ Leads(kind, start, lines, Progress({}, begun, Nothing), Between)
      /\ lines = parts \o <<last>> /\ Listed(lines) /\ lines # <<>>
  <2>1. \A i \in DOMAIN parts : parts[i].target = last.key
    BY <1>1, <1>3, <1>4
  <2>0. last.command = "ERR_NOMOTD" => DOMAIN parts = {}
    BY <1>1, <1>4
  <2>2. /\ Leads(kind, start, Append(parts, last), Progress({}, begun, Nothing), Between)
        /\ Append(parts, last) = parts \o <<last>>
        /\ Listed(Append(parts, last)) /\ Append(parts, last) # <<>>
    BY <1>1, <1>4, <1>5, <1>6, <2>0, <2>1, LeadsReply
  <2> QED
    BY <1>7, <2>2
<1>9. /\ Len(lines) = n + 1 /\ DOMAIN lines = 1 .. n + 1
      /\ \A i \in 1 .. n : lines[i] = parts[i]
      /\ lines[n + 1] = last
  <2>1. Listed(<<last>>) /\ Len(<<last>>) = 1 /\ <<last>>[1] = last
    BY ListedOne
  <2>2. 1 \in 1 .. 1
    OBVIOUS
  <2>3. /\ Len(parts \o <<last>>) = n + 1
        /\ \A i \in 1 .. n : (parts \o <<last>>)[i] = parts[i]
        /\ (parts \o <<last>>)[n + 1] = <<last>>[1]
    BY <1>1, <2>1, <2>2, ListedConcat
  <2> QED
    BY <1>8, <2>1, <2>3, ListedLen
<1>10. Lines(lines)
  <2>1. ASSUME NEW i \in 1 .. n + 1
        PROVE  {"command", "batch"} \subseteq DOMAIN lines[i] /\ lines[i].command # "BATCH"
    <3>1. CASE i = n + 1
      BY <1>4, <1>6, <1>9, <3>1 DEF Plain
    <3>2. CASE i # n + 1
      <4>1. i \in 1 .. n
        BY <3>2
      <4>2. command \in Parts
        BY <4>1
      <4> QED
        BY <1>3, <1>9, <4>1, <4>2, Commands
    <3> QED
      BY <3>1, <3>2
  <2> QED
    BY <1>9, <2>1 DEF Lines
<1> QED
  BY <1>8, <1>10 DEF lines

(* A reply with a first line.                                              *)
LEMMA FirstLine ==
  ASSUME NEW kind, NEW start, NEW command \in Starts
  PROVE  /\ Leads(kind, start, First(command), Between, Progress({}, TRUE, Nothing))
         /\ Listed(First(command)) /\ Len(First(command)) = 1
         /\ First(command)[1] = [command |-> command, batch |-> Untagged]
<1> DEFINE line == [command |-> command, batch |-> Untagged]
<1>1. First(command) = <<line>>
  BY DEF First
<1>2. line.command = command /\ line.batch = Untagged
  OBVIOUS
<1> HIDE DEF line
<1>3. Between.seen = {} /\ Between.begun = FALSE /\ Between.open = Nothing
  BY DEF Between, Progress
<1>4. command # "BATCH"
  BY Commands
<1>5. Due(kind, start, Between, line)
  BY <1>2, <1>3, <1>4 DEF Due
<1>6. After(Between, line) = Progress({}, TRUE, Nothing)
  BY <1>2, <1>3, <1>4 DEF After
<1>7. Listed(<<line>>) /\ Len(<<line>>) = 1 /\ <<line>>[1] = line
  BY ListedOne
<1>8. Leads(kind, start, <<line>>, Between, After(Between, line))
  BY <1>5, LeadsOne
<1> QED
  BY <1>1, <1>6, <1>7, <1>8 DEF line

(* A reply with a first line.                                              *)
LEMMA BegunLines ==
  ASSUME NEW kind, NEW start, NEW command \in Starts,
         NEW rest, Leads(kind, start, rest, Progress({}, TRUE, Nothing), Between),
         Listed(rest), rest # <<>>, Lines(rest), NewLines(kind, rest)
  PROVE  /\ Leads(kind, start, First(command) \o rest, Between, Between)
         /\ Listed(First(command) \o rest) /\ First(command) \o rest # <<>>
         /\ Lines(First(command) \o rest) /\ NewLines(kind, First(command) \o rest)
<1> DEFINE f == First(command)
           q == f \o rest
<1>1. /\ Leads(kind, start, f, Between, Progress({}, TRUE, Nothing))
      /\ Listed(f) /\ Len(f) = 1
      /\ f[1] = [command |-> command, batch |-> Untagged]
  BY FirstLine
<1> HIDE DEF f
<1>2. /\ Listed(q) /\ Len(q) = 1 + Len(rest)
      /\ \A i \in 1 .. Len(q) : \/ i \in 1 .. 1 /\ q[i] = f[i]
                                \/ i - 1 \in 1 .. Len(rest) /\ q[i] = rest[i - 1]
  <2>1. /\ Listed(q) /\ Len(q) = Len(f) + Len(rest)
        /\ \A i \in 1 .. Len(q) : \/ i \in 1 .. Len(f) /\ q[i] = f[i]
                                  \/ i - Len(f) \in 1 .. Len(rest) /\ q[i] = rest[i - Len(f)]
    BY <1>1, ListedConcat
  <2> QED
    BY <1>1, <2>1
<1>3. Leads(kind, start, q, Between, Between)
  BY <1>1, LeadsConcat
<1> HIDE DEF q
<1>4. DOMAIN q = 1 .. Len(q) /\ DOMAIN rest = 1 .. Len(rest) /\ Len(rest) \in Nat
  BY <1>2, ListedLen
<1>5. q # <<>>
  <2>1. Len(<<>>) = 0
    OBVIOUS
  <2> QED
    BY <1>2, <1>4, <2>1
<1>6. ASSUME NEW i \in DOMAIN q
      PROVE  \/ q[i] = [command |-> command, batch |-> Untagged]
             \/ \E j \in DOMAIN rest : q[i] = rest[j]
  <2>1. \A j \in 1 .. 1 : j = 1
    OBVIOUS
  <2> QED
    BY <1>1, <1>2, <1>4, <2>1
<1>7. \A line : line = [command |-> command, batch |-> Untagged] =>
         /\ {"command", "batch"} \subseteq DOMAIN line /\ line.command = command
  OBVIOUS
<1>8. Lines(q)
  BY <1>6, <1>7, Commands DEF Lines
<1>9. NewLines(kind, q)
  BY <1>6, <1>7, Commands DEF NewLines
<1> QED
  BY <1>2, <1>3, <1>5, <1>8, <1>9 DEF q, f

(* A request that takes no token.                                          *)
LEMMA NothingTaken ==
  ASSUME Basics, NoTokens
  PROVE  NewTokens
<1>1. /\ tokenCounter' = tokenCounter /\ tokenMap' = tokenMap /\ disputed' = disputed
      /\ tokenCounter \in Nat /\ DOMAIN tokenMap \subseteq Nat
  BY DEF NoTokens, Basics
<1>2. \A key \in DOMAIN tokenMap' : key \in DOMAIN tokenMap /\ tokenMap'[key] = tokenMap[key]
  BY <1>1
<1>3. tokenCounter' \in Nat /\ DOMAIN tokenMap \subseteq DOMAIN tokenMap' /\ DOMAIN tokenMap' \subseteq Nat
  BY <1>1
<1> QED
  BY <1>1, <1>2, <1>3 DEF NewTokens

(* A request of any kind but WHO.                                          *)
LEMMA AskedPlainly ==
  ASSUME IInv, NEW kind \in Replying, kind # "who",
         NEW lines, Listed(lines), Lines(lines), lines # <<>>, NewLines(kind, lines),
         Leads(kind, server.liststart, lines, Between, Between),
         NEW batched \in BOOLEAN, Answer(kind, lines, batched), Requests, NoTokens
  PROVE  IInv'
<1>1. NewTokens
  BY NothingTaken DEF IInv
<1> QED
  BY <1>1, Asked

(* A reply without a first line leads from between to between.             *)
LEMMA NewReply ==
  ASSUME NEW kind, NEW lines, NEW n \in Nat, DOMAIN lines = 1 .. n + 1,
         NEW command, NEW key, NEW last, LastCommand(last.command),
         \A i \in 1 .. n : lines[i] = Part(command, key, key, i),
         lines[n + 1] = last
  PROVE  NewLines(kind, lines)
<1> SUFFICES ASSUME NEW i \in 1 .. n + 1, lines[i].command \in Parts
             PROVE  /\ lines[i].connection = connections
                    /\ lines[i].request = requests + 1
                    /\ kind # "who" => lines[i].key = lines[i].target
  BY DEF NewLines
<1>1. i # n + 1
  BY DEF LastCommand
<1>2. lines[i] = Part(command, key, key, i)
  BY <1>1
<1> QED
  BY <1>2, PartIs

(* Which commands are of last lines.                                       *)
LEMMA LastCommands ==
  \A c \in {"RPL_ENDOFWHO", "RPL_ENDOFWHOIS", "RPL_LISTEND", "RPL_ENDOFMOTD", "ERR_NOMOTD",
            "RPL_ENDOFMONLIST", "RPL_ENDOFNAMES"} : LastCommand(c)
BY DEF LastCommand, Starts, Parts

(* The commands whose replies have no first line; those whose replies have *)
(* one; and ERR_NOMOTD.                                                    *)
LEMMA PlainReply ==
  ASSUME NEW kind, NEW start, ~Begins(kind, start), NEW n \in Nat, NEW command \in Parts, NEW key,
         NEW last, LastCommand(last), last # "ERR_NOMOTD",
         NEW lines, lines = Reply(command, key, n, last)
  PROVE  /\ Leads(kind, start, lines, Between, Between)
         /\ Listed(lines) /\ lines # <<>> /\ Lines(lines) /\ NewLines(kind, lines)
<1>0. PICK sound, begun : sound = TRUE /\ begun = FALSE
  OBVIOUS
<1>1. lines = ReplyOf(command, Equal(key, n), key, n, last, sound)
  BY <1>0, ReplyIs
<1>2. Between = Progress({}, begun, Nothing)
  BY <1>0 DEF Between
<1>3. /\ Leads(kind, start, lines, Between, Between)
      /\ Listed(lines) /\ lines # <<>> /\ Lines(lines)
      /\ DOMAIN lines = 1 .. n + 1
      /\ \A i \in 1 .. n : lines[i] = Part(command, key, key, i)
      /\ lines[n + 1] = Last(last, key, PartsOf(command, Equal(key, n), key, n), sound)
  <2>1. Begins(kind, start) => begun
    OBVIOUS
  <2>2. n = 0 \/ command \in Parts
    OBVIOUS
  <2> DEFINE reply == ReplyOf(command, Equal(key, n), key, n, last, sound)
  <2>3. Leads(kind, start, reply, Progress({}, begun, Nothing), Between)
    BY <2>1, <2>2, ReplyLines
  <2>4. Listed(reply) /\ reply # <<>> /\ Lines(reply)
    BY <2>1, <2>2, ReplyLines
  <2>5. DOMAIN lines = 1 .. n + 1
    BY <1>1, ReplyAt
  <2>6. \A i \in 1 .. n : lines[i] = Part(command, key, key, i)
    BY <1>1, ReplyAt, PartsEqual
  <2>7. lines[n + 1] = Last(last, key, PartsOf(command, Equal(key, n), key, n), sound)
    BY <1>1, ReplyAt
  <2> HIDE DEF reply
  <2> QED
    BY <1>1, <1>2, <2>3, <2>4, <2>5, <2>6, <2>7 DEF reply
<1>4. PICK end : end = Last(last, key, PartsOf(command, Equal(key, n), key, n), sound)
  OBVIOUS
<1>5. NewLines(kind, lines)
  <2>1. LastCommand(end.command)
    BY <1>4 DEF Last
  <2>2. /\ DOMAIN lines = 1 .. n + 1 /\ lines[n + 1] = end
        /\ \A i \in 1 .. n : lines[i] = Part(command, key, key, i)
    BY <1>3, <1>4
  <2> QED
    BY <2>1, <2>2, NewReply
<1> QED
  BY <1>3, <1>5

LEMMA BegunReply ==
  ASSUME NEW kind, NEW start, NEW n \in Nat, NEW command \in Parts, NEW key,
         NEW last, LastCommand(last), last # "ERR_NOMOTD", NEW first \in Starts,
         NEW lines, lines = First(first) \o Reply(command, key, n, last)
  PROVE  /\ Leads(kind, start, lines, Between, Between)
         /\ Listed(lines) /\ lines # <<>> /\ Lines(lines) /\ NewLines(kind, lines)
<1>0. PICK sound, begun : sound = TRUE /\ begun = TRUE
  OBVIOUS
<1>1. PICK rest : rest = Reply(command, key, n, last)
  OBVIOUS
<1>2. rest = ReplyOf(command, Equal(key, n), key, n, last, sound)
  BY <1>0, <1>1, ReplyIs
<1>3. /\ Leads(kind, start, rest, Progress({}, begun, Nothing), Between)
      /\ Listed(rest) /\ rest # <<>> /\ Lines(rest)
      /\ DOMAIN rest = 1 .. n + 1
      /\ \A i \in 1 .. n : rest[i] = Part(command, key, key, i)
      /\ rest[n + 1] = Last(last, key, PartsOf(command, Equal(key, n), key, n), sound)
  <2>1. Begins(kind, start) => begun
    BY <1>0
  <2>2. n = 0 \/ command \in Parts
    OBVIOUS
  <2> DEFINE reply == ReplyOf(command, Equal(key, n), key, n, last, sound)
  <2>3. Leads(kind, start, reply, Progress({}, begun, Nothing), Between)
    BY <2>1, <2>2, ReplyLines
  <2>4. Listed(reply) /\ reply # <<>> /\ Lines(reply)
    BY <2>1, <2>2, ReplyLines
  <2>5. DOMAIN rest = 1 .. n + 1
    BY <1>2, ReplyAt
  <2>6. \A i \in 1 .. n : rest[i] = Part(command, key, key, i)
    BY <1>2, ReplyAt, PartsEqual
  <2>7. rest[n + 1] = Last(last, key, PartsOf(command, Equal(key, n), key, n), sound)
    BY <1>2, ReplyAt
  <2> HIDE DEF reply
  <2> QED
    BY <1>2, <2>3, <2>4, <2>5, <2>6, <2>7 DEF reply
<1>4. PICK end : end = Last(last, key, PartsOf(command, Equal(key, n), key, n), sound)
  OBVIOUS
<1>5. NewLines(kind, rest)
  <2>1. LastCommand(end.command)
    BY <1>4 DEF Last
  <2>2. /\ DOMAIN rest = 1 .. n + 1 /\ rest[n + 1] = end
        /\ \A i \in 1 .. n : rest[i] = Part(command, key, key, i)
    BY <1>3, <1>4
  <2>3. ASSUME NEW i \in 1 .. n + 1, rest[i].command \in Parts
        PROVE  rest[i].connection = connections /\ rest[i].request = requests + 1 /\ rest[i].key = rest[i].target
    <3>1. i # n + 1
      BY <2>1, <2>2, <2>3 DEF LastCommand
    <3>2. rest[i] = Part(command, key, key, i)
      BY <2>2, <3>1
    <3> QED
      BY <3>2, PartIs
  <2> QED
    BY <2>2, <2>3 DEF NewLines
<1>6. lines = First(first) \o rest
  BY <1>1
<1> QED
  BY <1>0, <1>3, <1>5, <1>6, BegunLines

LEMMA NomotdReply ==
  ASSUME NEW start, NEW n, n = 0, NEW key, NEW lines, lines = Reply(key, key, n, "ERR_NOMOTD")
  PROVE  /\ Leads("motd", start, lines, Between, Between)
         /\ Listed(lines) /\ lines # <<>> /\ Lines(lines) /\ NewLines("motd", lines)
<1>0. PICK sound, begun : sound = TRUE /\ begun = TRUE
  OBVIOUS
<1> DEFINE parts == PartsOf(key, Equal(key, n), key, n)
           last == Last("ERR_NOMOTD", key, parts, sound)
<1>1. DOMAIN parts = {}
  BY DEF PartsOf
<1>2. lines = ReplyOf(key, Equal(key, n), key, n, "ERR_NOMOTD", sound)
  BY <1>0, ReplyIs
<1>3. DOMAIN lines = {1} /\ Len(lines) = 1 /\ lines[1] = last
  <2>1. n \in Nat /\ n + 1 = 1 /\ 1 .. 1 = {1}
    OBVIOUS
  <2>2. \A m \in Nat : /\ DOMAIN ReplyOf(key, Equal(key, n), key, m, "ERR_NOMOTD", sound) = 1 .. m + 1
                       /\ Len(ReplyOf(key, Equal(key, n), key, m, "ERR_NOMOTD", sound)) = m + 1
    BY ReplyAt
  <2>3. lines[n + 1] = last
    BY <1>2, <2>1, ReplyAt
  <2> QED
    BY <1>2, <2>1, <2>2, <2>3
<1>4. Listed(lines) /\ lines # <<>> /\ Lines(lines)
  <2>1. Begins("motd", start) => begun
    BY <1>0
  <2> QED
    BY <1>2, <2>1, LastCommands, ReplyLines
<1> HIDE DEF parts
<1>5. last.command = "ERR_NOMOTD" /\ last.batch = Untagged /\ last.sent = {}
  BY <1>1 DEF Last
<1> HIDE DEF last
<1>6. LastCommand(last.command)
  BY <1>5, LastCommands
<1>7. Between.seen = {} /\ Between.begun = FALSE /\ Between.open = Nothing
  BY DEF Between, Progress
<1>8. Due("motd", start, Between, last)
  BY <1>5, <1>6, <1>7 DEF Due, LastCommand
<1>9. After(Between, last) = Between
  BY <1>5, <1>6, <1>7 DEF After, LastCommand, Between
<1>10. Leads("motd", start, lines, Between, Between)
  <2> DEFINE f == [i \in {0, 1} |-> Between]
  <2>1. f[0] = Between /\ f[1] = Between
    OBVIOUS
  <2> HIDE DEF f
  <2>2. ASSUME NEW i \in 1 .. 1
        PROVE  Due("motd", start, f[i - 1], lines[i]) /\ f[i] = After(f[i - 1], lines[i])
    <3>1. i = 1 /\ i - 1 = 0
      OBVIOUS
    <3> QED
      BY <1>3, <1>8, <1>9, <2>1, <3>1
  <2> QED
    BY <1>3, <2>1, <2>2 DEF Leads
<1>11. NewLines("motd", lines)
  BY <1>3, <1>6 DEF NewLines, LastCommand
<1> QED
  BY <1>4, <1>10, <1>11

(* Every command but who() preserves the invariant.                        *)
LEMMA AskSteps ==
  ASSUME IInv, NEW n \in 0 .. MaxParts, NEW batched \in BOOLEAN,
         \/ \E nick \in Nick : AskWhois(nick, n, batched)
         \/ AskList(n, batched) \/ AskMotd(n, batched) \/ AskMonitor(n, batched)
         \/ \E channel \in Channel : AskNames(channel, n, batched)
  PROVE  IInv'
<1> DEFINE start == server.liststart
<1>1. n \in Nat
  BY CollectorsAssumption
<1>2. /\ ~Begins("whois", start) /\ ~Begins("monitor", start) /\ ~Begins("names", start)
      /\ start = FALSE => ~Begins("list", start)
  BY DEF Begins
<1>3. /\ {"whois", "list", "motd", "monitor", "names"} \subseteq Replying \ {"who"}
      /\ {"RPL_WHOIS", "RPL_LIST", "RPL_MOTD", "RPL_MONLIST", "RPL_NAMREPLY"} \subseteq Parts
      /\ {"RPL_LISTSTART", "RPL_MOTDSTART"} \subseteq Starts
  BY DEF Replying, Kind, Parts, Starts
<1>4. start \in BOOLEAN
  BY CollectorsAssumption DEF IInv, Basics
<1> HIDE DEF start
<1>5. ASSUME NEW kind \in Replying \ {"who"}, NEW lines, Requests, NoTokens, Answer(kind, lines, batched),
             Leads(kind, start, lines, Between, Between),
             Listed(lines), lines # <<>>, Lines(lines), NewLines(kind, lines)
      PROVE  IInv'
  BY <1>5, AskedPlainly DEF start
<1>6. ASSUME NEW nick \in Nick, AskWhois(nick, n, batched) PROVE IInv'
  <2>1. PICK lines : lines = Reply("RPL_WHOIS", nick, n, "RPL_ENDOFWHOIS")
    OBVIOUS
  <2>2. Requests /\ NoTokens /\ Answer("whois", lines, batched)
    BY <1>6, <2>1 DEF AskWhois
  <2>3. /\ Leads("whois", start, lines, Between, Between)
        /\ Listed(lines) /\ lines # <<>> /\ Lines(lines) /\ NewLines("whois", lines)
    BY <1>1, <1>2, <1>3, <2>1, LastCommands, PlainReply
  <2> QED
    BY <1>3, <1>5, <2>2, <2>3
<1>7. ASSUME AskList(n, batched) PROVE IInv'
  <2>1. CASE start = TRUE
    <3>1. PICK lines : lines = First("RPL_LISTSTART") \o Reply("RPL_LIST", "", n, "RPL_LISTEND")
      OBVIOUS
    <3>2. Requests /\ NoTokens /\ Answer("list", lines, batched)
      BY <1>7, <2>1, <3>1 DEF AskList, start
    <3>3. /\ Leads("list", start, lines, Between, Between)
          /\ Listed(lines) /\ lines # <<>> /\ Lines(lines) /\ NewLines("list", lines)
      BY <1>1, <1>3, <3>1, LastCommands, BegunReply
    <3> QED
      BY <1>3, <1>5, <3>2, <3>3
  <2>2. CASE start = FALSE
    <3>1. PICK lines : lines = Reply("RPL_LIST", "", n, "RPL_LISTEND")
      OBVIOUS
    <3>2. /\ Leads("list", start, lines, Between, Between)
          /\ Listed(lines) /\ lines # <<>> /\ Lines(lines) /\ NewLines("list", lines)
      BY <1>1, <1>2, <1>3, <2>2, <3>1, LastCommands, PlainReply
    <3>3. <<>> \o lines = lines
      BY <3>2 DEF Listed
    <3>4. Requests /\ NoTokens /\ Answer("list", lines, batched)
      BY <1>7, <2>2, <3>1, <3>3 DEF AskList, start
    <3> QED
      BY <1>3, <1>5, <3>2, <3>4
  <2> QED
    BY <1>4, <2>1, <2>2
<1>8. ASSUME AskMotd(n, batched) PROVE IInv'
  <2>1. CASE n = 0
    <3>1. PICK lines : lines = Reply("", "", 0, "ERR_NOMOTD")
      OBVIOUS
    <3>2. Requests /\ NoTokens /\ Answer("motd", lines, batched)
      BY <1>8, <2>1, <3>1 DEF AskMotd
    <3>3. /\ Leads("motd", start, lines, Between, Between)
          /\ Listed(lines) /\ lines # <<>> /\ Lines(lines) /\ NewLines("motd", lines)
      BY <3>1, NomotdReply
    <3> QED
      BY <1>3, <1>5, <3>2, <3>3
  <2>2. CASE n # 0
    <3>1. PICK lines : lines = First("RPL_MOTDSTART") \o Reply("RPL_MOTD", "", n, "RPL_ENDOFMOTD")
      OBVIOUS
    <3>2. Requests /\ NoTokens /\ Answer("motd", lines, batched)
      BY <1>8, <2>2, <3>1 DEF AskMotd
    <3>3. /\ Leads("motd", start, lines, Between, Between)
          /\ Listed(lines) /\ lines # <<>> /\ Lines(lines) /\ NewLines("motd", lines)
      BY <1>1, <1>3, <3>1, LastCommands, BegunReply
    <3> QED
      BY <1>3, <1>5, <3>2, <3>3
  <2> QED
    BY <2>1, <2>2
<1>9. ASSUME AskMonitor(n, batched) PROVE IInv'
  <2>1. PICK lines : lines = Reply("RPL_MONLIST", "", n, "RPL_ENDOFMONLIST")
    OBVIOUS
  <2>2. Requests /\ NoTokens /\ Answer("monitor", lines, batched)
    BY <1>9, <2>1 DEF AskMonitor
  <2>3. /\ Leads("monitor", start, lines, Between, Between)
        /\ Listed(lines) /\ lines # <<>> /\ Lines(lines) /\ NewLines("monitor", lines)
    BY <1>1, <1>2, <1>3, <2>1, LastCommands, PlainReply
  <2> QED
    BY <1>3, <1>5, <2>2, <2>3
<1>10. ASSUME NEW channel \in Channel, AskNames(channel, n, batched) PROVE IInv'
  <2>1. PICK lines : lines = Reply("RPL_NAMREPLY", channel, n, "RPL_ENDOFNAMES")
    OBVIOUS
  <2>2. Requests /\ NoTokens /\ Answer("names", lines, batched)
    BY <1>10, <2>1 DEF AskNames
  <2>3. /\ Leads("names", start, lines, Between, Between)
        /\ Listed(lines) /\ lines # <<>> /\ Lines(lines) /\ NewLines("names", lines)
    BY <1>1, <1>2, <1>3, <2>1, LastCommands, PlainReply
  <2> QED
    BY <1>3, <1>5, <2>2, <2>3
<1> QED
  BY <1>6, <1>7, <1>8, <1>9, <1>10

(* What the keys and the target of a reply to who() are.                   *)
WhoKeyed(command, keys, target, n, sound) ==
  /\ command = "RPL_WHOREPLY" => \A i \in 1 .. n : sound => keys[i] = target
  /\ command = "RPL_WHOSPCRPL" =>
       /\ server'.token => \A i \in 1 .. n : /\ keys[i] \in Nat /\ keys[i] \in DOMAIN tokenMap'
                                             /\ tokenMap'[keys[i]] = target
       /\ sound => /\ server'.token
                   /\ \A j \in DOMAIN answers["who"] :
                        answers["who"][j].command = "RPL_ENDOFWHO" => answers["who"][j].key # target

(* The reply to who(), with or without a token.                            *)
LEMMA WhoAsked ==
  ASSUME IInv, NEW n \in Nat, NEW batched \in BOOLEAN,
         NEW command \in {"RPL_WHOREPLY", "RPL_WHOSPCRPL"},
         NEW keys, NEW target \in Channel \cup Nick, NEW sound, NEW lines,
         lines = ReplyOf(command, keys, target, n, "RPL_ENDOFWHO", sound),
         Requests, Answer("who", lines, batched), NewTokens,
         WhoKeyed(command, keys, target, n, sound)
  PROVE  IInv'
<1>0. PICK begun : begun = FALSE
  OBVIOUS
<1> DEFINE last == Last("RPL_ENDOFWHO", target, PartsOf(command, keys, target, n), sound)
<1> DEFINE Sent(part) == /\ part.request = requests + 1 /\ part.target = target
                         /\ part.command = command /\ part.batch = Untagged
                         /\ \E i \in 1 .. n : part.key = keys[i]
<1>1. ~Begins("who", server.liststart) /\ command \in Parts
  BY DEF Begins, Parts
<1>2. LastCommand("RPL_ENDOFWHO")
  BY LastCommands
<1>3. /\ Leads("who", server.liststart, lines, Between, Between)
      /\ Listed(lines) /\ lines # <<>> /\ Lines(lines)
  <2>1. Begins("who", server.liststart) => begun
    BY <1>1
  <2>2. n = 0 \/ command \in Parts
    BY <1>1
  <2>3. Leads("who", server.liststart, lines, Progress({}, begun, Nothing), Between)
    BY <1>2, <2>1, <2>2, ReplyLines
  <2>4. Listed(lines) /\ lines # <<>> /\ Lines(lines)
    BY <1>2, <2>1, <2>2, ReplyLines
  <2> QED
    BY <1>0, <2>3, <2>4 DEF Between
<1>4. DOMAIN lines = 1 .. n + 1 /\ Len(lines) = n + 1
  BY ReplyAt
<1>5. \A i \in 1 .. n : lines[i] = Part(command, keys[i], target, i)
  BY ReplyAt
<1>6. lines[n + 1] = last
  BY ReplyAt
<1>7. /\ last.command = "RPL_ENDOFWHO" /\ last.key = target /\ last.sound = sound
      /\ \A part \in last.sent : Sent(part)
  <2> DEFINE parts == PartsOf(command, keys, target, n)
  <2>1. DOMAIN parts = 1 .. n /\ \A i \in 1 .. n : parts[i] = Part(command, keys[i], target, i)
    BY DEF PartsOf
  <2> HIDE DEF parts
  <2>2. \A i \in DOMAIN parts : Sent(parts[i])
    BY <2>1, PartIs
  <2>3. /\ last.command = "RPL_ENDOFWHO" /\ last.key = target /\ last.sound = sound
        /\ last.sent = {parts[i] : i \in DOMAIN parts}
    BY DEF Last, parts
  <2> HIDE DEF last
  <2> QED
    BY <2>2, <2>3
<1> HIDE DEF last
<1>8. ASSUME NEW i \in 1 .. n + 1
      PROVE  \/ /\ i \in 1 .. n
                /\ lines[i].command = command /\ lines[i].key = keys[i] /\ lines[i].target = target
                /\ lines[i].request = requests + 1 /\ lines[i].connection = connections
             \/ i = n + 1 /\ lines[i] = last
  <2>1. CASE i = n + 1
    BY <1>6, <2>1
  <2>2. CASE i # n + 1
    <3>1. i \in 1 .. n
      BY <2>2
    <3>2. PICK k : k = keys[i]
      OBVIOUS
    <3>3. lines[i] = Part(command, k, target, i)
      BY <1>5, <3>1, <3>2
    <3>4. /\ lines[i].command = command /\ lines[i].key = k /\ lines[i].target = target
          /\ lines[i].request = requests + 1 /\ lines[i].connection = connections
      BY <3>3, PartIs
    <3> QED
      BY <3>1, <3>2, <3>4
  <2> QED
    BY <2>1, <2>2
<1>9. "RPL_ENDOFWHO" \notin Parts
  BY DEF Parts
<1>10. NewLines("who", lines)
  BY <1>4, <1>7, <1>8, <1>9 DEF NewLines
<1>11. NewWho(lines)
  <2>1. ASSUME NEW i \in DOMAIN lines, lines[i].command = "RPL_WHOSPCRPL"
        PROVE  Tokened(lines[i])'
    <3>1. /\ i \in 1 .. n /\ command = "RPL_WHOSPCRPL"
          /\ lines[i].key = keys[i] /\ lines[i].target = target
      BY <1>4, <1>7, <1>8, <2>1
    <3> QED
      BY <3>1 DEF Tokened, Known, WhoKeyed
  <2>2. ASSUME NEW i \in DOMAIN lines, lines[i].command = "RPL_ENDOFWHO"
        PROVE  /\ i = Len(lines) /\ lines[i].key = target /\ lines[i].sound = sound
               /\ \A part \in lines[i].sent : Sent(part)
    <3>1. i = n + 1 /\ lines[i] = last
      BY <1>4, <1>8, <2>2
    <3> QED
      BY <1>4, <1>7, <3>1
  <2>3. ASSUME sound, NEW part, Sent(part)
        PROVE  /\ part.request = requests + 1
               /\ part.command = "RPL_WHOREPLY" => part.key = target
               /\ part.command = "RPL_WHOSPCRPL" =>
                    /\ part.target = target /\ part.batch = Untagged
                    /\ Known(part, target)'
                    /\ \A j \in DOMAIN answers["who"] :
                         answers["who"][j].command = "RPL_ENDOFWHO" => answers["who"][j].key # target
    <3>1. PICK i \in 1 .. n : part.key = keys[i]
      BY <2>3
    <3>2. /\ part.request = requests + 1 /\ part.command = command
          /\ part.target = target /\ part.batch = Untagged
      BY <2>3
    <3>3. command = "RPL_WHOREPLY" => part.key = target
      BY <2>3, <3>1 DEF WhoKeyed
    <3>4. command = "RPL_WHOSPCRPL" =>
            /\ Known(part, target)'
            /\ \A j \in DOMAIN answers["who"] :
                 answers["who"][j].command = "RPL_ENDOFWHO" => answers["who"][j].key # target
      BY <2>3, <3>1 DEF Known, WhoKeyed
    <3> QED
      BY <3>2, <3>3, <3>4
  <2> HIDE DEF Sent
  <2>4. ASSUME NEW i \in DOMAIN lines, lines[i].command = "RPL_ENDOFWHO"
        PROVE  /\ i = Len(lines) /\ lines[i].key \in Channel \cup Nick
               /\ lines[i].sound => \A part \in lines[i].sent :
                    /\ part.request = requests + 1
                    /\ part.command = "RPL_WHOREPLY" => part.key = lines[i].key
                    /\ part.command = "RPL_WHOSPCRPL" =>
                         /\ part.target = lines[i].key /\ part.batch = Untagged
                         /\ Known(part, lines[i].key)'
                         /\ \A j \in DOMAIN answers["who"] :
                              answers["who"][j].command = "RPL_ENDOFWHO" => answers["who"][j].key # lines[i].key
    <3>1. PICK k : k = lines[i].key
      OBVIOUS
    <3>2. /\ i = Len(lines) /\ k = target /\ lines[i].sound = sound
          /\ \A part \in lines[i].sent : Sent(part)
      BY <2>2, <2>4, <3>1
    <3> QED
      BY <2>3, <3>1, <3>2
  <2> QED
    BY <2>1, <2>4 DEF NewWho
<1>12. "who" \in Replying
  BY DEF Replying, Kind
<1> QED
  BY <1>3, <1>10, <1>11, <1>12, Asked

(* What taking a token leaves behind.                                      *)
Maps(given, target) ==
  /\ TokenOf(given) \in Nat /\ TokenOf(given) \in DOMAIN tokenMap'
  /\ tokenMap'[TokenOf(given)] = target

LEMMA TokenTaken ==
  ASSUME Basics, NEW target, NEW given \in {Drawn} \cup Token, Draws(target, given)
  PROVE  NewTokens /\ Maps(given, target)
<1>1. /\ tokenCounter \in Nat /\ DOMAIN tokenMap \subseteq Nat /\ Token \subseteq Nat
  BY CollectorsAssumption DEF Basics
<1>2. PICK token : token = TokenOf(given)
  OBVIOUS
<1>3. token \in Nat
  BY <1>1, <1>2 DEF TokenOf, Drawn
<1>4. /\ tokenCounter' \in Nat
      /\ tokenMap' = With(tokenMap, token, target)
      /\ disputed' = disputed \cup
           {line.request : line \in
              {l \in {answers["who"][i] : i \in DOMAIN answers["who"]} :
                 /\ l.command = "RPL_WHOSPCRPL" /\ l.batch = Untagged
                 /\ l.key = token /\ l.target # target}}
  BY <1>1, <1>2 DEF Draws
<1>5. /\ DOMAIN tokenMap' = DOMAIN tokenMap \cup {token} /\ tokenMap'[token] = target
      /\ \A t \in DOMAIN tokenMap : t # token => tokenMap'[t] = tokenMap[t]
  BY <1>4 DEF With
<1>6. ASSUME NEW i \in DOMAIN answers["who"], NEW line, line = answers["who"][i],
             line.batch = Untagged, line.command = "RPL_WHOSPCRPL", line.key \in DOMAIN tokenMap'
      PROVE  \/ line.key \in DOMAIN tokenMap /\ tokenMap'[line.key] = tokenMap[line.key]
             \/ tokenMap'[line.key] = line.target
             \/ line.request \in disputed'
  <2>1. CASE line.key # token
    BY <1>5, <1>6, <2>1
  <2>2. CASE line.key = token /\ line.target = target
    BY <1>5, <2>2
  <2>3. CASE line.key = token /\ line.target # target
    BY <1>4, <1>6, <2>3
  <2> QED
    BY <2>1, <2>2, <2>3
<1>7. /\ tokenCounter' \in Nat /\ disputed \subseteq disputed'
      /\ DOMAIN tokenMap \subseteq DOMAIN tokenMap' /\ DOMAIN tokenMap' \subseteq Nat
  BY <1>1, <1>3, <1>4, <1>5
<1>8. NewTokens
  BY <1>6, <1>7 DEF NewTokens
<1>9. Maps(given, target)
  BY <1>2, <1>3, <1>5 DEF Maps
<1> QED
  BY <1>8, <1>9

(* who() preserves the invariant.                                          *)
LEMMA AskWhoSteps ==
  ASSUME IInv, NEW n \in 0 .. MaxParts, NEW batched \in BOOLEAN,
         \/ \E target \in Channel \cup Nick, where \in Channel : AskWho(target, where, n, batched)
         \/ \E target \in Channel, given \in {Drawn} \cup Token : AskWhox(target, given, n, batched)
  PROVE  IInv'
<1>1. n \in Nat
  BY CollectorsAssumption
<1>2. /\ requests \in Nat /\ tokenCounter \in Nat /\ DOMAIN tokenMap \subseteq Nat
  BY DEF IInv, Basics
<1>3. ASSUME NEW target \in Channel \cup Nick, NEW where \in Channel, AskWho(target, where, n, batched)
      PROVE  IInv'
  <2>1. PICK sound : sound = (where = target)
    OBVIOUS
  <2>2. PICK command \in {"RPL_WHOREPLY", "RPL_WHOSPCRPL"} : command = "RPL_WHOREPLY"
    OBVIOUS
  <2>3. PICK keys, lines : /\ keys = Equal(where, n)
                           /\ lines = ReplyOf(command, keys, target, n, "RPL_ENDOFWHO", sound)
    OBVIOUS
  <2>4. Requests /\ NoTokens /\ Answer("who", lines, batched)
    <3>1. PICK parts : parts = PartsOf(command, keys, target, n)
      OBVIOUS
    <3>2. parts = [i \in 1 .. n |-> Part("RPL_WHOREPLY", where, target, i)]
      BY <2>2, <2>3, <3>1, PartsEqual
    <3>3. lines = Append(parts, Last("RPL_ENDOFWHO", target, parts, where = target))
      BY <2>1, <2>3, <3>1 DEF ReplyOf
    <3> QED
      BY <1>3, <3>2, <3>3 DEF AskWho
  <2>5. NewTokens
    BY <2>4, NothingTaken DEF IInv
  <2>6. WhoKeyed(command, keys, target, n, sound)
    <3>1. \A i \in 1 .. n : sound => keys[i] = target
      BY <2>1, <2>3, PartsEqual
    <3>2. command # "RPL_WHOSPCRPL"
      BY <2>2
    <3> QED
      BY <3>1, <3>2 DEF WhoKeyed
  <2> QED
    BY <1>1, <2>3, <2>4, <2>5, <2>6, WhoAsked
<1>4. ASSUME NEW target \in Channel, NEW given \in {Drawn} \cup Token, AskWhox(target, given, n, batched)
      PROVE  IInv'
  <2> DEFINE alone == \A i \in DOMAIN answers["who"] :
                        LET line == answers["who"][i]
                        IN  line.command = "RPL_ENDOFWHO" => line.key # target
  <2>1. PICK sound : sound = (server.token /\ alone)
    OBVIOUS
  <2>2. PICK command \in {"RPL_WHOREPLY", "RPL_WHOSPCRPL"} : command = "RPL_WHOSPCRPL"
    OBVIOUS
  <2>3. PICK fields \in FirstFields(TokenOf(given), n) :
          LET parts == [i \in 1 .. n |-> Part("RPL_WHOSPCRPL", fields[i], target, i)]
          IN  Answer("who", Append(parts, Last("RPL_ENDOFWHO", target, parts, server.token /\ alone)),
                     batched)
    BY <1>4 DEF AskWhox
  <2>4. PICK lines : lines = ReplyOf(command, fields, target, n, "RPL_ENDOFWHO", sound)
    OBVIOUS
  <2>5. Requests /\ Answer("who", lines, batched)
    BY <1>4, <2>1, <2>2, <2>3, <2>4 DEF AskWhox, ReplyOf, PartsOf
  <2>6. NewTokens /\ Maps(given, target)
    BY <1>4, TokenTaken DEF AskWhox, IInv
  <2>7. /\ server'.token => \A i \in 1 .. n : /\ fields[i] \in Nat /\ fields[i] \in DOMAIN tokenMap'
                                              /\ tokenMap'[fields[i]] = target
    <3> SUFFICES ASSUME server'.token, NEW i \in 1 .. n
                 PROVE  /\ fields[i] \in Nat /\ fields[i] \in DOMAIN tokenMap'
                        /\ tokenMap'[fields[i]] = target
      OBVIOUS
    <3>1. server.token
      BY <2>5 DEF Requests
    <3>2. fields[i] = TokenOf(given)
      BY <3>1 DEF FirstFields
    <3> QED
      BY <2>6, <3>2 DEF Maps
  <2>8. server' = server
    BY <2>5 DEF Requests
  <2>9. sound => /\ server'.token
                 /\ \A j \in DOMAIN answers["who"] :
                      answers["who"][j].command = "RPL_ENDOFWHO" => answers["who"][j].key # target
    BY <2>1, <2>8
  <2>10. command # "RPL_WHOREPLY" /\ target \in Channel \cup Nick
    BY <2>2
  <2> HIDE DEF alone
  <2>11. WhoKeyed(command, fields, target, n, sound)
    BY <2>7, <2>9, <2>10 DEF WhoKeyed
  <2> QED
    BY <1>1, <2>4, <2>5, <2>6, <2>10, <2>11, WhoAsked
<1> QED
  BY <1>3, <1>4

-----------------------------------------------------------------------------
(* Without a connection nothing is on its way.                             *)
LEMMA NothingSent ==
  ASSUME \A k \in Kind : answers'[k] = <<>>
  PROVE  Sending'
<1>1. Listed(<<>>) /\ DOMAIN <<>> = {}
  <2>1. <<>> \in Seq({})
    OBVIOUS
  <2> QED
    BY <2>1 DEF Listed
<1>2. "who" \in Kind /\ "away" \in Kind /\ Replying \subseteq Kind
  BY DEF Kind, Replying
<1> QED
  BY <1>1, <1>2 DEF Sending

(* What is kept between two replies, when nothing is on its way.           *)
LEMMA KeepsNothing ==
  ASSUME NEW kind \in Replying, answers'[kind] = <<>>, OpenBatches(kind)' = Nothing,
         kind = "who" => whoBuffers' = Nothing,
         kind = "whois" => \A nick \in DOMAIN whoisBuffers' : \A line \in whoisBuffers'[nick] :
                             line.key = nick /\ (line.request = 0 \/ Older(line)'),
         kind = "list" => \A line \in listBuffer' : Older(line)',
         kind = "monitor" => monitorBuffer' = {},
         kind = "names" => /\ \A c \in DOMAIN namesBuffers' : \A line \in namesBuffers'[c] :
                                line.key = c /\ Older(line)'
                           /\ userhostBuffers' = Nothing
  PROVE  Keeping(kind)'
<1>1. PICK begun : begun = FALSE
  OBVIOUS
<1>2. PICK s : s = Progress({}, begun, Nothing)
  OBVIOUS
<1>3. s = Between /\ s.seen = {} /\ s.begun = begun /\ s.open = Nothing
  BY <1>1, <1>2 DEF Between, Progress
<1>4. Leads(kind, server'.liststart, answers'[kind], s, Between)
  BY <1>3, LeadsNone
<1>5. kind = "who" => WhoKeeps(s.seen)'
  BY <1>3 DEF WhoKeeps, Nothing
<1>6. kind = "whois" => WhoisKeeps(s.seen)'
  BY <1>3 DEF WhoisKeeps
<1>7. kind = "list" => ListKeeps(s)'
  BY <1>1, <1>3 DEF ListKeeps
<1>8. kind = "motd" => MotdKeeps(s)'
  BY <1>1, <1>3 DEF MotdKeeps
<1>9. kind = "monitor" => MonitorKeeps(s.seen)'
  BY <1>3 DEF MonitorKeeps
<1>10. kind = "names" => NamesKeep(s.seen)'
  <2> SUFFICES ASSUME kind = "names" PROVE NamesKeep(s.seen)'
    OBVIOUS
  <2>1. userhostBuffers' = [c \in {line.key : line \in s.seen} |->
                              IF server'.masks THEN {line \in s.seen : line.key = c} ELSE {}]
    BY <1>3 DEF Nothing
  <2> QED
    BY <1>3, <2>1 DEF NamesKeep
<1>11. Keeps(kind, s)'
  BY <1>3, <1>5, <1>6, <1>7, <1>8, <1>9, <1>10 DEF Keeps
<1> QED
  BY <1>4, <1>11 DEF Keeping

(* who() whose line was not sent draws a token that nobody answers.        *)
LEMMA Unsent ==
  ASSUME IInv, NEW target \in Channel, NEW given \in {Drawn} \cup Token, AskWhoxUnsent(target, given)
  PROVE  IInv'
<1>1. /\ UNCHANGED <<up, server, connections, answers, whoBuffers, whoisBuffers, plainVars, namesVars,
                     batches>>
      /\ ~up /\ requests' = requests + 1 /\ event' = NoEvent
      /\ Draws(target, given)
  BY DEF AskWhoxUnsent
<1>2. /\ Basics /\ requests \in Nat /\ tokenCounter \in Nat
      /\ \A k \in Kind : answers[k] = <<>>
  BY <1>1 DEF IInv, Basics
<1>3. Basics'
  <2>1. NewTokens
    BY <1>1, <1>2, TokenTaken
  <2>2. requests' \in Nat
    BY <1>1, <1>2
  <2> QED
    BY <1>1, <1>2, <2>1, <2>2 DEF Basics, NewTokens
<1>4. Sending'
  BY <1>1, <1>2, NothingSent
<1>5. ASSUME NEW k \in Replying PROVE Keeping(k)'
  <2>1. Same(k)
    <3>1. NewTokens
      BY <1>1, <1>2, TokenTaken
    <3> QED
      BY <1>1, <1>2, <3>1 DEF Same, OpenBatches, plainVars, namesVars, NewTokens, Replying
  <2>2. Keeping(k) /\ requests' \in Nat /\ requests' >= requests
    BY <1>1, <1>2 DEF IInv
  <2> QED
    BY <1>1, <1>2, <2>1, <2>2, Untouched
<1>6. RepliesAreExact' /\ UserhostsFollowNames'
  BY <1>1 DEF RepliesAreExact, UserhostsFollowNames, IInv, namesVars
<1> QED
  BY <1>3, <1>4, <1>5, <1>6 DEF IInv

(* A PRIVMSG to somebody who is away has RPL_AWAY sent.                    *)
LEMMA WritesAway ==
  ASSUME IInv, NEW nick \in Nick, WritesToAway(nick)
  PROVE  IInv'
<1>1. PICK line : line = [Part("RPL_WHOIS", nick, nick, AwayPart) EXCEPT !.request = 0]
  OBVIOUS
<1>2. /\ UNCHANGED <<up, server, connections, requests, whoVars, whoisBuffers, plainVars, namesVars, batches>>
      /\ up /\ event' = NoEvent
      /\ answers' = [answers EXCEPT !["away"] = Append(@, line)]
  BY <1>1 DEF WritesToAway
<1>3. SendsAway(line)
  BY <1>1 DEF SendsAway, Part
<1>4. Basics /\ Sending /\ "away" \in Kind /\ DOMAIN answers = Kind
  BY DEF IInv, Kind, Basics
<1> DEFINE q == answers["away"]
<1>5. Listed(q)
  BY <1>4 DEF Sending
<1>6. /\ answers'["away"] = Append(q, line)
      /\ \A k \in Replying : answers'[k] = answers[k]
      /\ DOMAIN answers' = Kind
  BY <1>2, <1>4 DEF Replying
<1> HIDE DEF q
<1>7. /\ Listed(Append(q, line))
      /\ \A i \in DOMAIN Append(q, line) : Append(q, line)[i] = line \/ (i \in DOMAIN q /\ Append(q, line)[i] = q[i])
  <2>1. PICK S : q \in Seq(S)
    BY <1>5 DEF Listed
  <2>2. q \in Seq(S \cup {line}) /\ line \in S \cup {line}
    BY <2>1
  <2>3. Append(q, line) \in Seq(S \cup {line})
    BY <2>2
  <2>4. \A i \in DOMAIN Append(q, line) : Append(q, line)[i] = line \/ (i \in DOMAIN q /\ Append(q, line)[i] = q[i])
    BY <2>2
  <2> QED
    BY <2>3, <2>4 DEF Listed
<1>8. Basics'
  BY <1>2, <1>4, <1>6 DEF Basics, whoVars
<1>9. Sending'
  <2>1. \A k \in Kind : Listed(answers'[k])
    BY <1>4, <1>6, <1>7 DEF Sending, Replying
  <2>2. \A k \in Replying : \A i \in DOMAIN answers'[k] : Sends(k, answers[k][i])'
    <3>1. \A k, l : Sends(k, l) => Sends(k, l)'
      BY <1>2 DEF Sends, whoVars, Tokened, Known
    <3>2. ASSUME NEW k \in Replying, NEW i \in DOMAIN answers'[k], NEW l, l = answers'[k][i]
          PROVE  Sends(k, l)'
      <4>1. Sends(k, answers[k][i])
        BY <1>4, <1>6 DEF Sending
      <4> QED
        BY <1>6, <3>1, <3>2, <4>1
    <3> QED
      BY <3>2
  <2>3. answers'["who"] = answers["who"]
    BY <1>6 DEF Replying, Kind
  <2>4. \A i \in DOMAIN answers'["who"] : EndsWho(i)'
    <3>1. UNCHANGED <<requests, tokenMap, disputed>>
      BY <1>2 DEF whoVars
    <3>2. \A part, target : Found(part, target)' <=> Found(part, target)
      BY <2>3, <3>1 DEF Found, Known, OnWay
    <3>3. \A i : EndsWho(i)' <=> EndsWho(i)
      BY <2>3, <3>1, <3>2 DEF EndsWho
    <3> QED
      BY <1>4, <2>3, <3>3 DEF Sending
  <2>5. \A i \in DOMAIN q : SendsAway(q[i])
    BY <1>4 DEF Sending, q
  <2>6. \A l : SendsAway(l) => SendsAway(l)'
    BY <1>2 DEF SendsAway
  <2>7. ASSUME NEW i \in DOMAIN answers'["away"], NEW l, l = answers'["away"][i]
        PROVE  SendsAway(l)'
    BY <1>3, <1>6, <1>7, <2>5, <2>6, <2>7
  <2>8. \A i \in DOMAIN answers'["away"] : SendsAway(answers["away"][i])'
    BY <2>7
  <2> QED
    BY <2>1, <2>2, <2>4, <2>8 DEF Sending
<1>10. ASSUME NEW k \in Replying PROVE Keeping(k)'
  <2>1. Same(k)
    BY <1>2, <1>6 DEF Same, OpenBatches, plainVars, namesVars, whoVars
  <2>2. Keeping(k) /\ requests \in Nat /\ requests' \in Nat /\ requests' >= requests
    BY <1>2, <1>4 DEF IInv, Basics
  <2> QED
    BY <1>2, <2>1, <2>2, Untouched
<1>11. RepliesAreExact' /\ UserhostsFollowNames'
  BY <1>2 DEF RepliesAreExact, UserhostsFollowNames, IInv, namesVars
<1> QED
  BY <1>8, <1>9, <1>10, <1>11 DEF IInv

(* A new connection starts with nothing on its way.                        *)
LEMMA Connecting ==
  ASSUME IInv, NEW s \in Server, Connects(s)
  PROVE  IInv'
<1>1. /\ UNCHANGED <<requests, answers, whoVars, whoisBuffers, plainVars, namesVars, batches>>
      /\ ~up /\ up' = TRUE /\ server' = s /\ connections' = connections + 1 /\ event' = NoEvent
  BY DEF Connects
<1>2. /\ Basics /\ connections \in Nat /\ whoBuffers = Nothing
      /\ \A k \in Kind : answers[k] = <<>>
  BY <1>1 DEF IInv, Basics
<1>3. Basics'
  BY <1>1, <1>2 DEF Basics, whoVars
<1>4. Sending'
  BY <1>1, <1>2, NothingSent
<1>5. ASSUME NEW k \in Replying PROVE Keeping(k)'
  <2>1. PICK t : Leads(k, server.liststart, answers[k], t, Between) /\ Keeps(k, t)
    BY DEF IInv, Keeping
  <2>2. t = Between
    <3>1. PICK start : start = server.liststart
      OBVIOUS
    <3>2. answers[k] = <<>>
      BY <1>2 DEF Replying
    <3>3. Leads(k, start, <<>>, t, Between)
      BY <2>1, <3>1, <3>2
    <3> QED
      BY <3>3, LeadsNone
  <2>3. t.seen = {} /\ t.open = Nothing
    BY <2>2 DEF Between, Progress
  <2>4. answers'[k] = <<>> /\ OpenBatches(k)' = Nothing
    BY <1>1, <1>2, <2>1, <2>3 DEF Keeps, OpenBatches, Replying
  <2>5. \A line : Older(line) => Older(line)'
    BY <1>1, <1>2 DEF Older
  <2>6. k = "whois" => \A nick \in DOMAIN whoisBuffers : \A line \in whoisBuffers[nick] :
                          line.key = nick /\ (line.request = 0 \/ Older(line)')
    BY <2>1, <2>3, <2>5 DEF Keeps, WhoisKeeps
  <2>7. k = "list" => \A line \in listBuffer : Older(line)'
    BY <2>1, <2>3, <2>5 DEF Keeps, ListKeeps
  <2>8. k = "monitor" => monitorBuffer = {}
    BY <2>1, <2>3 DEF Keeps, MonitorKeeps
  <2>9. k = "names" => \A c \in DOMAIN namesBuffers : \A line \in namesBuffers[c] :
                          line.key = c /\ Older(line)'
    BY <2>1, <2>3, <2>5 DEF Keeps, NamesKeep
  <2>10. k = "names" => userhostBuffers = Nothing
    <3>1. k = "names" => userhostBuffers = [c \in {line.key : line \in t.seen} |->
                           IF server.masks THEN {line \in t.seen : line.key = c} ELSE {}]
      BY <2>1 DEF Keeps, NamesKeep
    <3>2. {line.key : line \in t.seen} = {}
      BY <2>3
    <3> QED
      BY <3>1, <3>2 DEF Nothing
  <2> QED
    BY <1>1, <1>2, <2>4, <2>6, <2>7, <2>8, <2>9, <2>10, KeepsNothing DEF whoVars, plainVars, namesVars
<1>6. RepliesAreExact' /\ UserhostsFollowNames'
  BY <1>1 DEF RepliesAreExact, UserhostsFollowNames, IInv, namesVars
<1> QED
  BY <1>3, <1>4, <1>5, <1>6 DEF IInv

(* A lost connection clears what batch.ts, who.ts, monitor.ts and          *)
(* userhost_in_names.ts keep, and leaves older lines in the other buffers. *)
LEMMA Disconnecting ==
  ASSUME IInv, Disconnected
  PROVE  IInv'
<1>1. /\ UNCHANGED <<server, connections, requests, tokenCounter, whoisBuffers, listBuffer, motd,
                     namesBuffers>>
      /\ up' = FALSE /\ event' = NoEvent
      /\ answers' = [k \in Kind |-> <<>>]
      /\ whoBuffers' = Nothing /\ tokenMap' = Nothing /\ monitorBuffer' = {}
      /\ userhosts' = Nothing /\ userhostBuffers' = Nothing /\ batches' = Nothing
      /\ listed' = Nothing
  BY DEF Disconnected, Forgets
<1>2. Basics /\ connections \in Nat
  BY DEF IInv, Basics
<1>3. DOMAIN Nothing = {}
  BY DEF Nothing
<1>4. Basics'
  BY <1>1, <1>2, <1>3 DEF Basics
<1>5. Sending'
  BY <1>1, NothingSent
<1>6. ASSUME NEW k \in Replying PROVE Keeping(k)'
  <2>1. PICK t : Leads(k, server.liststart, answers[k], t, Between) /\ Keeps(k, t)
    BY DEF IInv, Keeping
  <2>2. answers'[k] = <<>>
    BY <1>1 DEF Replying
  <2>3. OpenBatches(k)' = Nothing
    BY <1>1, <1>3 DEF OpenBatches, Nothing
  <2>4. \A line : Older(line) \/ line.connection = connections => Older(line)'
    BY <1>1, <1>2 DEF Older
  <2>5. \A line \in t.seen : Older(line)'
    BY <2>1, <2>4 DEF Keeps
  <2>6. k = "whois" => \A nick \in DOMAIN whoisBuffers : \A line \in whoisBuffers[nick] :
                          line.key = nick /\ (line.request = 0 \/ Older(line)')
    BY <2>1, <2>4, <2>5 DEF Keeps, WhoisKeeps
  <2>7. k = "list" => \A line \in listBuffer : Older(line)'
    BY <2>1, <2>4, <2>5 DEF Keeps, ListKeeps
  <2>8. k = "names" => \A c \in DOMAIN namesBuffers : \A line \in namesBuffers[c] :
                          line.key = c /\ Older(line)'
    BY <2>1, <2>4, <2>5 DEF Keeps, NamesKeep
  <2> QED
    BY <1>1, <2>2, <2>3, <2>6, <2>7, <2>8, KeepsNothing
<1>7. RepliesAreExact' /\ UserhostsFollowNames'
  BY <1>1 DEF RepliesAreExact, UserhostsFollowNames
<1> QED
  BY <1>4, <1>5, <1>6, <1>7 DEF IInv

-----------------------------------------------------------------------------
(* A line is read: what is left, and what is known of it.                  *)
LEMMA Taken ==
  ASSUME IInv, NEW kind \in Kind, Takes(kind)
  PROVE  /\ UNCHANGED <<up, server, connections, requests>>
         /\ up /\ DOMAIN answers' = Kind
         /\ \A other \in Kind : other # kind => answers'[other] = answers[other]
         /\ answers'[kind] = Tail(answers[kind])
         /\ Listed(answers[kind]) /\ answers[kind] # <<>> /\ Listed(answers'[kind])
         /\ 1 \in DOMAIN answers[kind] /\ Line(kind) = answers[kind][1]
         /\ \A i \in DOMAIN answers'[kind] : /\ i \in Nat \ {0} /\ i + 1 \in DOMAIN answers[kind]
                                             /\ answers'[kind][i] = answers[kind][i + 1]
<1>1. /\ UNCHANGED <<up, server, connections, requests>>
      /\ answers[kind] # <<>>
      /\ answers' = [answers EXCEPT ![kind] = Tail(@)]
  BY DEF Takes, serverVars
<1>2. DOMAIN answers = Kind /\ up /\ Listed(answers[kind])
  BY <1>1 DEF IInv, Basics, Sending
<1>3. /\ DOMAIN answers' = Kind
      /\ \A other \in Kind : other # kind => answers'[other] = answers[other]
      /\ answers'[kind] = Tail(answers[kind])
  BY <1>1, <1>2
<1> DEFINE q == answers[kind]
<1>4. q # <<>> /\ Listed(q)
  BY <1>1, <1>2
<1>5. Line(kind) = Head(q)
  BY DEF Line
<1> HIDE DEF q
<1>6. /\ Listed(Tail(q)) /\ Len(q) \in Nat \ {0} /\ Len(Tail(q)) = Len(q) - 1 /\ Head(q) = q[1]
      /\ \A i \in 1 .. Len(q) - 1 : Tail(q)[i] = q[i + 1]
  BY <1>4, ListedTail
<1>7. DOMAIN q = 1 .. Len(q) /\ DOMAIN Tail(q) = 1 .. Len(q) - 1
  BY <1>4, <1>6, ListedLen
<1>8. \A i \in DOMAIN Tail(q) : i \in Nat \ {0} /\ i + 1 \in DOMAIN q /\ Tail(q)[i] = q[i + 1]
  BY <1>6, <1>7
<1>9. 1 \in DOMAIN q
  BY <1>6, <1>7
<1> QED
  BY <1>1, <1>2, <1>3, <1>4, <1>5, <1>6, <1>8, <1>9 DEF q

(* The tokens of a target are forgotten when a WHO of it ends.             *)
Tokens(kind) ==
  /\ tokenCounter' = tokenCounter /\ disputed' = disputed
  /\ \/ tokenMap' = tokenMap
     \/ /\ kind = "who" /\ Line("who").command = "RPL_ENDOFWHO" /\ Line("who").batch = Untagged
        /\ tokenMap' = [t \in {t \in DOMAIN tokenMap : tokenMap[t] # Line("who").key} |-> tokenMap[t]]

(* The lines left when one is read.                                        *)
LEMMA TakenSends ==
  ASSUME IInv, NEW kind \in Kind, Takes(kind), Tokens(kind)
  PROVE  Sending'
<1>1. /\ UNCHANGED <<up, server, connections, requests>>
      /\ DOMAIN answers' = Kind
      /\ \A other \in Kind : other # kind => answers'[other] = answers[other]
      /\ Listed(answers'[kind])
      /\ 1 \in DOMAIN answers[kind] /\ Line(kind) = answers[kind][1]
      /\ \A i \in DOMAIN answers'[kind] : /\ i \in Nat \ {0} /\ i + 1 \in DOMAIN answers[kind]
                                          /\ answers'[kind][i] = answers[kind][i + 1]
  BY Taken
<1>2. Sending
  BY DEF IInv
<1>3. \A k \in Kind : Listed(answers'[k])
  BY <1>1, <1>2 DEF Sending
<1>4. tokenCounter' = tokenCounter /\ DOMAIN tokenMap' \subseteq DOMAIN tokenMap
      /\ \A t \in DOMAIN tokenMap' : tokenMap'[t] = tokenMap[t]
  BY DEF Tokens
<1>5. \A k, line : Sends(k, line) => Sends(k, line)'
  <2>1. disputed' = disputed
    BY DEF Tokens
  <2>2. \A line : Tokened(line) => Tokened(line)'
    BY <1>1, <1>4, <2>1 DEF Tokened, Known
  <2> QED
    BY <1>1, <2>2 DEF Sends
<1>6. ASSUME NEW k \in Replying, NEW i \in DOMAIN answers'[k], NEW line, line = answers'[k][i]
      PROVE  Sends(k, line)'
  <2>1. Sends(k, line)
    <3>1. PICK j \in DOMAIN answers[k] : line = answers[k][j]
      BY <1>1, <1>6 DEF Replying
    <3> QED
      BY <1>2, <3>1 DEF Sending
  <2> QED
    BY <1>5, <2>1
<1>7. ASSUME NEW i \in DOMAIN answers'["away"], NEW line, line = answers'["away"][i]
      PROVE  SendsAway(line)'
  <2>1. "away" \in Kind
    BY DEF Kind
  <2>2. PICK j \in DOMAIN answers["away"] : line = answers["away"][j]
    BY <1>1, <1>7, <2>1
  <2>3. SendsAway(line)
    BY <1>2, <2>2 DEF Sending
  <2> QED
    BY <1>1, <2>3 DEF SendsAway
<1>8. ASSUME NEW i \in DOMAIN answers'["who"] PROVE EndsWho(i)'
  <2>1. "who" \in Kind
    BY DEF Kind
  <2>2. \A j \in DOMAIN answers["who"] : EndsWho(j)
    BY <1>2 DEF Sending
  <2>3. CASE kind # "who"
    <3>1. answers'["who"] = answers["who"] /\ tokenMap' = tokenMap /\ disputed' = disputed
      BY <1>1, <2>1, <2>3 DEF Tokens
    <3> QED
      BY <1>1, <2>2, <3>1 DEF EndsWho, Found, Known, OnWay
  <2>4. CASE kind = "who"
    <3> DEFINE q == answers["who"]
               r == answers'["who"]
               key == Line("who").key
    <3>1. i \in Nat \ {0} /\ i + 1 \in DOMAIN q /\ r[i] = q[i + 1] /\ q[1] = Line("who")
      BY <1>1, <2>4
    <3>2. \A j \in 1 .. i - 1 : j + 1 \in 1 .. (i + 1) - 1 /\ r[j] = q[j + 1]
      <4>1. DOMAIN r = 1 .. Len(r) /\ Len(r) \in Nat
        BY <1>3, <2>1, ListedLen
      <4>2. \A j \in 1 .. i - 1 : j \in DOMAIN r
        BY <3>1, <4>1
      <4> QED
        BY <1>1, <2>4, <3>1, <4>2
    <3>3. EndsWho(i + 1)
      BY <2>2, <3>1
    <3>4. \A t \in DOMAIN tokenMap : \/ t \in DOMAIN tokenMap' /\ tokenMap'[t] = tokenMap[t]
                                     \/ /\ q[1].command = "RPL_ENDOFWHO" /\ q[1].batch = Untagged
                                        /\ q[1].key = tokenMap[t]
      BY <3>1 DEF Tokens
    <3>5. 1 \in 1 .. (i + 1) - 1
      BY <3>1
    <3> SUFFICES ASSUME r[i].batch = Untagged, r[i].command = "RPL_ENDOFWHO"
                 PROVE  /\ r[i].key \in Channel \cup Nick
                        /\ r[i].sound => \A part \in r[i].sent :
                             /\ part.request \in 1 .. requests'
                             /\ part.command = "RPL_WHOREPLY" => part.key = r[i].key
                             /\ part.command = "RPL_WHOSPCRPL" =>
                                  /\ part.target = r[i].key /\ part.batch = Untagged
                                  /\ FoundNext(part, r[i].key)
                                  /\ \A j \in 1 .. i - 1 : /\ r[j].command = "RPL_ENDOFWHO"
                                                           /\ r[j].batch = Untagged
                                                           => r[j].key # r[i].key
      BY DEF EndsWho, Found, FoundNext, Known, KnownNext, OnWay
    <3>8. \A part : (\E j \in DOMAIN r : r[j] = part) => OnWay(part)
      BY <1>1, <2>4 DEF OnWay
    <3>11. r = answers'["who"]
      OBVIOUS
    <3> HIDE DEF r
    <3>6. /\ r[i].key \in Channel \cup Nick
          /\ r[i].sound => \A part \in r[i].sent :
               /\ part.request \in 1 .. requests
               /\ part.command = "RPL_WHOREPLY" => part.key = r[i].key
               /\ part.command = "RPL_WHOSPCRPL" =>
                    /\ part.target = r[i].key /\ part.batch = Untagged
                    /\ Found(part, r[i].key)
                    /\ \A j \in 1 .. (i + 1) - 1 : /\ q[j].command = "RPL_ENDOFWHO"
                                                   /\ q[j].batch = Untagged
                                                   => q[j].key # r[i].key
      BY <3>1, <3>3 DEF EndsWho
    <3> HIDE DEF q
    <3>7. requests' = requests /\ disputed' = disputed
      BY <1>1 DEF Tokens
    <3>9. PICK k : k = r[i].key
      OBVIOUS
    <3>10. ASSUME NEW part, q[1].command = "RPL_ENDOFWHO" /\ q[1].batch = Untagged => q[1].key # k,
                  Found(part, k)
           PROVE  FoundNext(part, k)
      BY <3>4, <3>7, <3>8, <3>10, <3>11 DEF Known, KnownNext, Found, FoundNext
    <3> QED
      BY <3>2, <3>5, <3>6, <3>7, <3>9, <3>10
  <2> QED
    BY <2>3, <2>4
<1> QED
  BY <1>3, <1>6, <1>7, <1>8 DEF Sending

(* Reading the first line of a kind moves its place; the kind's plugin     *)
(* must follow.                                                            *)
LEMMA ReadStep ==
  ASSUME IInv, NEW kind \in Kind, Takes(kind), Tokens(kind),
         DOMAIN batches' \subseteq UNION {Refs(k) : k \in Replying},
         \A k \in Replying : \/ k # kind /\ Same(k)
                             \/ Keeping(k)',
         RepliesAreExact', UserhostsFollowNames'
  PROVE  IInv'
<1>1. /\ UNCHANGED <<up, server, connections, requests>>
      /\ up /\ DOMAIN answers' = Kind
  BY Taken
<1>2. Basics /\ requests \in Nat
  BY DEF IInv, Basics
<1>3. Basics'
  BY <1>1, <1>2 DEF Basics, Tokens
<1>4. Sending'
  BY TakenSends
<1>5. ASSUME NEW k \in Replying PROVE Keeping(k)'
  <2>1. Keeping(k)
    BY DEF IInv
  <2>2. requests' \in Nat /\ requests' >= requests
    BY <1>1, <1>2
  <2> QED
    BY <1>1, <1>2, <2>1, <2>2, Untouched
<1> QED
  BY <1>3, <1>4, <1>5 DEF IInv

LEMMA Reading ==
  ASSUME IInv, NEW kind \in Replying, Takes(kind)
  PROVE  \E s, line :
           /\ line = Line(kind) /\ Keeps(kind, s)
           /\ Due(kind, server.liststart, s, line)
           /\ Leads(kind, server'.liststart, answers'[kind], After(s, line), Between)
           /\ Sends(kind, line)
           /\ Hidden(line) <=> line.command # "BATCH" /\ line.batch # Untagged
<1>1. kind \in Kind
  BY DEF Replying
<1>2. /\ server' = server
      /\ answers'[kind] = Tail(answers[kind])
      /\ Listed(answers[kind]) /\ answers[kind] # <<>>
      /\ 1 \in DOMAIN answers[kind] /\ Line(kind) = answers[kind][1]
  BY <1>1, Taken
<1>3. PICK s : /\ Leads(kind, server.liststart, answers[kind], s, Between)
               /\ Keeps(kind, s)
  BY DEF IInv, Keeping
<1>4. PICK line : line = Line(kind)
  OBVIOUS
<1>5. /\ Due(kind, server.liststart, s, line)
      /\ Leads(kind, server'.liststart, answers'[kind], After(s, line), Between)
  <2>1. PICK q, start : q = answers[kind] /\ start = server.liststart
    OBVIOUS
  <2>2. Leads(kind, start, q, s, Between) /\ Listed(q) /\ q # <<>>
    BY <1>2, <1>3, <2>1
  <2>3. Due(kind, start, s, Head(q))
    BY <2>2, LeadsTail
  <2>4. Leads(kind, start, Tail(q), After(s, Head(q)), Between)
    BY <2>2, LeadsTail
  <2>5. line = Head(q)
    BY <1>4, <2>1 DEF Line
  <2> QED
    BY <1>2, <2>1, <2>3, <2>4, <2>5
<1>6. Sends(kind, line)
  BY <1>2, <1>4 DEF IInv, Sending
<1>7. Hidden(line) <=> line.command # "BATCH" /\ line.batch # Untagged
  <2>1. line.command # "BATCH" /\ line.batch # Untagged => line.batch \in DOMAIN batches
    <3>1. line.command # "BATCH" /\ line.batch # Untagged => line.batch \in DOMAIN s.open
      BY <1>5 DEF Due
    <3>2. DOMAIN s.open \subseteq DOMAIN batches
      BY <1>3 DEF Keeps, OpenBatches
    <3> QED
      BY <3>1, <3>2
  <2>2. Untagged \notin DOMAIN batches
    <3>1. DOMAIN batches \subseteq UNION {Refs(k) : k \in Replying}
      BY DEF IInv, Basics
    <3>2. \A k : Untagged \notin Refs(k)
      BY RefsDiffer DEF Refs
    <3> QED
      BY <3>1, <3>2
  <2> QED
    BY <2>1, <2>2 DEF Hidden
<1> QED
  BY <1>3, <1>4, <1>5, <1>6, <1>7

(* What is known of a line when it is read out of batches, and where the   *)
(* client is after it.                                                     *)
LEMMA ReadsPart ==
  ASSUME IInv, NEW kind \in Replying, NEW command \in Parts, Reads(kind, command)
  PROVE  \E s, line, t :
           /\ line = Line(kind) /\ Keeps(kind, s)
           /\ Leads(kind, server'.liststart, answers'[kind], t, Between)
           /\ t.seen = s.seen \cup {line} /\ t.begun = s.begun /\ t.open = s.open
           /\ line.command = command /\ line.batch = Untagged /\ Sends(kind, line)
           /\ \A other \in s.seen : other.part # line.part
           /\ Begins(kind, server.liststart) => s.begun
<1>1. Takes(kind) /\ Line(kind).command = command /\ ~Hidden(Line(kind))
  BY DEF Reads
<1>2. PICK s, line :
        /\ line = Line(kind) /\ Keeps(kind, s)
        /\ Due(kind, server.liststart, s, line)
        /\ Leads(kind, server'.liststart, answers'[kind], After(s, line), Between)
        /\ Sends(kind, line)
        /\ Hidden(line) <=> line.command # "BATCH" /\ line.batch # Untagged
  BY <1>1, Reading
<1>3. line.command = command /\ line.batch = Untagged /\ command # "BATCH" /\ command \notin Starts
  BY <1>1, <1>2, Commands
<1>4. After(s, line) = Progress(s.seen \cup {line}, s.begun, s.open)
  BY <1>3 DEF After
<1>5. PICK t : t = Progress(s.seen \cup {line}, s.begun, s.open)
  OBVIOUS
<1>6. t.seen = s.seen \cup {line} /\ t.begun = s.begun /\ t.open = s.open
  BY <1>5 DEF Progress
<1>7. /\ \A other \in s.seen : other.part # line.part
      /\ Begins(kind, server.liststart) => s.begun
  BY <1>2, <1>3 DEF Due
<1>8. Leads(kind, server'.liststart, answers'[kind], t, Between)
  BY <1>2, <1>4, <1>5
<1> QED
  BY <1>2, <1>3, <1>6, <1>7, <1>8

(* Reading a first line, and reading a last line.                          *)
LEMMA ReadsStart ==
  ASSUME IInv, NEW kind \in Replying, NEW command \in Starts, Reads(kind, command)
  PROVE  \E s, t :
           /\ Keeps(kind, s)
           /\ Leads(kind, server'.liststart, answers'[kind], t, Between)
           /\ s.seen = {} /\ t.seen = {} /\ t.open = s.open
<1>1. Takes(kind) /\ Line(kind).command = command /\ ~Hidden(Line(kind))
  BY DEF Reads
<1>2. PICK s, line :
        /\ line = Line(kind) /\ Keeps(kind, s)
        /\ Due(kind, server.liststart, s, line)
        /\ Leads(kind, server'.liststart, answers'[kind], After(s, line), Between)
        /\ Hidden(line) <=> line.command # "BATCH" /\ line.batch # Untagged
  BY <1>1, Reading
<1>3. line.command = command /\ line.batch = Untagged /\ command # "BATCH"
  BY <1>1, <1>2, Commands
<1>4. PICK begun : begun = TRUE
  OBVIOUS
<1>5. After(s, line) = Progress(s.seen, begun, s.open)
  BY <1>3, <1>4 DEF After
<1>6. PICK t : t = Progress(s.seen, begun, s.open)
  OBVIOUS
<1>7. t.seen = s.seen /\ t.open = s.open
  BY <1>6 DEF Progress
<1>8. s.seen = {}
  BY <1>2, <1>3 DEF Due
<1> QED
  BY <1>2, <1>5, <1>6, <1>7, <1>8

LEMMA ReadsLast ==
  ASSUME IInv, NEW kind \in Replying, NEW command, LastCommand(command), Reads(kind, command)
  PROVE  \E s, line, t :
           /\ line = Line(kind) /\ Keeps(kind, s)
           /\ Leads(kind, server'.liststart, answers'[kind], t, Between)
           /\ t.seen = {} /\ ~t.begun /\ t.open = s.open
           /\ line.command = command /\ line.batch = Untagged
           /\ line.sent = s.seen
           /\ \A other \in s.seen : other.target = line.key
           /\ Begins(kind, server.liststart) /\ command # "ERR_NOMOTD" => s.begun
           /\ command = "ERR_NOMOTD" => s.seen = {}
<1>1. Takes(kind) /\ Line(kind).command = command /\ ~Hidden(Line(kind))
  BY DEF Reads
<1>2. PICK s, line :
        /\ line = Line(kind) /\ Keeps(kind, s)
        /\ Due(kind, server.liststart, s, line)
        /\ Leads(kind, server'.liststart, answers'[kind], After(s, line), Between)
        /\ Hidden(line) <=> line.command # "BATCH" /\ line.batch # Untagged
  BY <1>1, Reading
<1>3. line.command = command /\ line.batch = Untagged
  BY <1>1, <1>2 DEF LastCommand
<1>4. PICK begun : begun = FALSE
  OBVIOUS
<1>5. After(s, line) = Progress({}, begun, s.open)
  BY <1>3, <1>4 DEF After, LastCommand
<1>6. PICK t : t = Progress({}, begun, s.open)
  OBVIOUS
<1>7. t.seen = {} /\ t.begun = begun /\ t.open = s.open
  BY <1>6 DEF Progress
<1>8. /\ line.sent = s.seen
      /\ \A other \in s.seen : other.target = line.key
      /\ Begins(kind, server.liststart) /\ command # "ERR_NOMOTD" => s.begun
      /\ command = "ERR_NOMOTD" => s.seen = {}
  BY <1>2, <1>3 DEF Due, LastCommand
<1>9. ~t.begun
  BY <1>4, <1>7
<1>10. Leads(kind, server'.liststart, answers'[kind], t, Between)
  BY <1>2, <1>5, <1>6
<1> QED
  BY <1>2, <1>3, <1>7, <1>8, <1>9, <1>10

(* A last line is reported with what was collected.                        *)
LEMMA Reported ==
  ASSUME NEW last, NEW lines, event' = [last |-> last, lines |-> lines],
         UNCHANGED <<server, connections>>,
         last.sound => \A line \in last.sent :
           \/ line \in lines \/ line.request \in disputed
           \/ \E other \in lines : other.request = 0 /\ other.part = line.part,
         disputed' = disputed,
         \A line \in lines \ last.sent : Foreign(last, line)
  PROVE  RepliesAreExact'
<1>1. event'.last = last /\ event'.lines = lines
  OBVIOUS
<1>2. \A line : Foreign(last, line) => Foreign(last, line)'
  BY DEF Foreign, Mistaken
<1>3. \A line \in lines \ last.sent : Foreign(last, line)'
  BY <1>2
<1> QED
  BY <1>1, <1>3 DEF RepliesAreExact

-----------------------------------------------------------------------------
(* The plugins read, one kind after the other.                             *)
LEMMA SeenLines ==
  ASSUME NEW kind, NEW s, NEW t, Keeps(kind, s), t.open = s.open,
         \A line \in t.seen : \/ line \in s.seen
                              \/ Sends(kind, line) /\ line.batch = Untagged /\ line.command \in Parts,
         UNCHANGED <<connections, requests, batches>>
  PROVE  /\ t.open = OpenBatches(kind)'
         /\ \A line \in t.seen : /\ line.connection = connections'
                                 /\ line.request \in 1 .. requests'
                                 /\ kind # "who" => line.key = line.target
<1>1. t.open = OpenBatches(kind)'
  BY DEF Keeps, OpenBatches
<1> QED
  BY <1>1 DEF Keeps, Sends

(* The listeners of monitor.ts preserve the invariant.                     *)
LEMMA MonitorSteps ==
  ASSUME IInv, OnMonlist \/ OnEndofmonlist
  PROVE  IInv'
<1>0. disputed' = disputed
  BY DEF OnMonlist, OnEndofmonlist, whoVars
<1>1. /\ UNCHANGED <<whoVars, whoisBuffers, listBuffer, motd, namesVars, batches>>
      /\ Takes("monitor")
  BY DEF OnMonlist, OnEndofmonlist, Reads
<1>2. "monitor" \in Kind /\ "monitor" \in Replying
  BY DEF Kind, Replying
<1>3. /\ UNCHANGED <<up, server, connections, requests>>
      /\ \A other \in Kind : other # "monitor" => answers'[other] = answers[other]
  BY <1>1, <1>2, Taken
<1>4. \A k \in Replying : k # "monitor" => Same(k)
  BY <1>1, <1>3 DEF Same, OpenBatches, whoVars, namesVars, Replying
<1>5. Tokens("monitor") /\ UserhostsFollowNames'
  BY <1>1 DEF Tokens, whoVars, UserhostsFollowNames, namesVars, IInv
<1>6. DOMAIN batches' \subseteq UNION {Refs(k) : k \in Replying}
  BY <1>1 DEF IInv, Basics
<1>7. ASSUME OnMonlist PROVE Keeping("monitor")' /\ RepliesAreExact'
  <2>1. /\ Reads("monitor", "RPL_MONLIST") /\ event' = NoEvent
        /\ monitorBuffer' = monitorBuffer \cup {Line("monitor")}
    BY <1>7 DEF OnMonlist, Silently
  <2>2. "RPL_MONLIST" \in Parts
    BY DEF Parts
  <2>3. PICK s, line, t :
          /\ line = Line("monitor") /\ Keeps("monitor", s)
          /\ Leads("monitor", server'.liststart, answers'["monitor"], t, Between)
          /\ t.seen = s.seen \cup {line} /\ t.begun = s.begun /\ t.open = s.open
          /\ line.command = "RPL_MONLIST" /\ line.batch = Untagged /\ Sends("monitor", line)
    BY <1>2, <2>1, <2>2, ReadsPart
  <2>4. MonitorKeeps(t.seen)'
    BY <2>1, <2>3 DEF Keeps, MonitorKeeps
  <2>5. /\ t.open = OpenBatches("monitor")'
        /\ \A l \in t.seen : /\ l.connection = connections'
                             /\ l.request \in 1 .. requests'
                             /\ "monitor" # "who" => l.key = l.target
    BY <1>1, <1>3, <2>2, <2>3, SeenLines
  <2>6. Keeps("monitor", t)'
    BY <2>4, <2>5 DEF Keeps
  <2> QED
    BY <2>1, <2>3, <2>6 DEF Keeping, RepliesAreExact
<1>8. ASSUME OnEndofmonlist PROVE Keeping("monitor")' /\ RepliesAreExact'
  <2>1. /\ Reads("monitor", "RPL_ENDOFMONLIST") /\ monitorBuffer' = {}
        /\ event' = [last |-> Line("monitor"), lines |-> monitorBuffer]
    BY <1>8 DEF OnEndofmonlist, Reports
  <2>2. LastCommand("RPL_ENDOFMONLIST")
    BY LastCommands
  <2>3. PICK s, line, t :
          /\ line = Line("monitor") /\ Keeps("monitor", s)
          /\ Leads("monitor", server'.liststart, answers'["monitor"], t, Between)
          /\ t.seen = {} /\ t.open = s.open /\ line.sent = s.seen
    BY <1>2, <2>1, <2>2, ReadsLast
  <2>4. MonitorKeeps(t.seen)'
    BY <2>1, <2>3 DEF MonitorKeeps
  <2>5. t.open = OpenBatches("monitor")'
    BY <1>1, <1>3, <2>3, SeenLines
  <2>6. Keeps("monitor", t)'
    BY <2>3, <2>4, <2>5 DEF Keeps
  <2>7. monitorBuffer = line.sent
    BY <2>3 DEF Keeps, MonitorKeeps
  <2>8. RepliesAreExact'
    BY <1>0, <1>3, <2>1, <2>3, <2>7, Reported
  <2> QED
    BY <2>3, <2>6, <2>8 DEF Keeping
<1> QED
  BY <1>1, <1>2, <1>4, <1>5, <1>6, <1>7, <1>8, ReadStep

(* The listeners of list.ts preserve the invariant.                        *)
LEMMA ListSteps ==
  ASSUME IInv, OnListstart \/ OnListLine \/ OnListend
  PROVE  IInv'
<1>0. disputed' = disputed
  BY DEF OnListstart, OnListLine, OnListend, whoVars
<1>1. /\ UNCHANGED <<whoVars, whoisBuffers, motd, monitorBuffer, namesVars, batches>>
      /\ Takes("list")
  BY DEF OnListstart, OnListLine, OnListend, Reads
<1>2. "list" \in Kind /\ "list" \in Replying
  BY DEF Kind, Replying
<1>3. /\ UNCHANGED <<up, server, connections, requests>> /\ up
      /\ \A other \in Kind : other # "list" => answers'[other] = answers[other]
  BY <1>1, <1>2, Taken
<1>4. \A k \in Replying : k # "list" => Same(k)
  BY <1>1, <1>3 DEF Same, OpenBatches, whoVars, namesVars, Replying
<1>5. Tokens("list") /\ UserhostsFollowNames'
  BY <1>1 DEF Tokens, whoVars, UserhostsFollowNames, namesVars, IInv
<1>6. DOMAIN batches' \subseteq UNION {Refs(k) : k \in Replying}
  BY <1>1 DEF IInv, Basics
<1>7. \A line : Older(line) <=> Older(line)'
  BY <1>3 DEF Older
<1>8. ASSUME OnListstart PROVE Keeping("list")' /\ RepliesAreExact'
  <2>1. Reads("list", "RPL_LISTSTART") /\ event' = NoEvent /\ listBuffer' = {}
    BY <1>8 DEF OnListstart, Silently
  <2>2. "RPL_LISTSTART" \in Starts
    BY DEF Starts
  <2>3. PICK s, t :
          /\ Keeps("list", s)
          /\ Leads("list", server'.liststart, answers'["list"], t, Between)
          /\ s.seen = {} /\ t.seen = {} /\ t.open = s.open
    BY <1>2, <2>1, <2>2, ReadsStart
  <2>4. ListKeeps(t)'
    BY <2>1, <2>3 DEF ListKeeps
  <2>5. t.open = OpenBatches("list")'
    BY <1>1, <1>3, <2>3, SeenLines
  <2>6. Keeps("list", t)'
    BY <2>3, <2>4, <2>5 DEF Keeps
  <2> QED
    BY <2>1, <2>3, <2>6 DEF Keeping, RepliesAreExact
<1>9. ASSUME OnListLine PROVE Keeping("list")' /\ RepliesAreExact'
  <2>1. /\ Reads("list", "RPL_LIST") /\ event' = NoEvent
        /\ listBuffer' = listBuffer \cup {Line("list")}
    BY <1>9 DEF OnListLine, Silently
  <2>2. "RPL_LIST" \in Parts
    BY DEF Parts
  <2>3. PICK s, line, t :
          /\ line = Line("list") /\ Keeps("list", s)
          /\ Leads("list", server'.liststart, answers'["list"], t, Between)
          /\ t.seen = s.seen \cup {line} /\ t.begun = s.begun /\ t.open = s.open
          /\ line.command = "RPL_LIST" /\ line.batch = Untagged /\ Sends("list", line)
    BY <1>2, <2>1, <2>2, ReadsPart
  <2>4. ListKeeps(t)'
    <3>1. /\ s.seen \subseteq listBuffer
          /\ up /\ server.liststart /\ s.begun => listBuffer = s.seen
          /\ \A l \in listBuffer : l \in s.seen \/ Older(l)
      BY <2>3 DEF Keeps, ListKeeps
    <3>2. listBuffer' = listBuffer \cup {line}
      BY <2>1, <2>3
    <3>3. \A l \in listBuffer' : l \in t.seen \/ Older(l)'
      BY <1>7, <2>3, <3>1, <3>2
    <3>4. t.seen \subseteq listBuffer'
      BY <2>3, <3>1, <3>2
    <3>5. up' /\ server'.liststart /\ t.begun => listBuffer' = t.seen
      BY <1>3, <2>3, <3>1, <3>2
    <3> QED
      BY <3>3, <3>4, <3>5 DEF ListKeeps
  <2>5. /\ t.open = OpenBatches("list")'
        /\ \A l \in t.seen : /\ l.connection = connections'
                             /\ l.request \in 1 .. requests'
                             /\ "list" # "who" => l.key = l.target
    BY <1>1, <1>3, <2>2, <2>3, SeenLines
  <2>6. Keeps("list", t)'
    BY <2>4, <2>5 DEF Keeps
  <2> QED
    BY <2>1, <2>3, <2>6 DEF Keeping, RepliesAreExact
<1>10. ASSUME OnListend PROVE Keeping("list")' /\ RepliesAreExact'
  <2>1. /\ Reads("list", "RPL_LISTEND") /\ listBuffer' = {}
        /\ event' = [last |-> Line("list"), lines |-> listBuffer]
    BY <1>10 DEF OnListend, Reports
  <2>2. LastCommand("RPL_LISTEND")
    BY LastCommands
  <2>3. PICK s, line, t :
          /\ line = Line("list") /\ Keeps("list", s)
          /\ Leads("list", server'.liststart, answers'["list"], t, Between)
          /\ t.seen = {} /\ ~t.begun /\ t.open = s.open
          /\ line.command = "RPL_LISTEND" /\ line.sent = s.seen
          /\ Begins("list", server.liststart) /\ "RPL_LISTEND" # "ERR_NOMOTD" => s.begun
    BY <1>2, <2>1, <2>2, ReadsLast
  <2>4. ListKeeps(t)'
    BY <2>1, <2>3 DEF ListKeeps
  <2>5. t.open = OpenBatches("list")'
    BY <1>1, <1>3, <2>3, SeenLines
  <2>6. Keeps("list", t)'
    BY <2>3, <2>4, <2>5 DEF Keeps
  <2>7. /\ s.seen \subseteq listBuffer
        /\ server.liststart => listBuffer = s.seen
        /\ \A l \in listBuffer : l \in s.seen \/ Older(l)
    <3>1. server.liststart => s.begun
      BY <2>3 DEF Begins
    <3> QED
      BY <1>3, <2>3, <3>1 DEF Keeps, ListKeeps
  <2>8. ASSUME NEW l \in listBuffer \ line.sent PROVE Foreign(line, l)
    <3>1. l.connection # connections /\ ~server.liststart
      BY <1>3, <2>3, <2>7 DEF Older
    <3> QED
      BY <2>3, <3>1 DEF Foreign
  <2>9. RepliesAreExact'
    BY <1>0, <1>3, <2>1, <2>3, <2>7, <2>8, Reported
  <2> QED
    BY <2>3, <2>6, <2>9 DEF Keeping
<1> QED
  BY <1>1, <1>2, <1>4, <1>5, <1>6, <1>8, <1>9, <1>10, ReadStep

(* The listeners of motd.ts preserve the invariant.                        *)
LEMMA MotdSteps ==
  ASSUME IInv, OnMotdstart \/ OnMotdLine \/ OnEndofmotd \/ OnNomotd
  PROVE  IInv'
<1>0. disputed' = disputed
  BY DEF OnMotdstart, OnMotdLine, OnEndofmotd, OnNomotd, whoVars
<1>1. /\ UNCHANGED <<whoVars, whoisBuffers, listBuffer, monitorBuffer, namesVars, batches>>
      /\ Takes("motd")
  BY DEF OnMotdstart, OnMotdLine, OnEndofmotd, OnNomotd, Reads, plainVars
<1>2. "motd" \in Kind /\ "motd" \in Replying
  BY DEF Kind, Replying
<1>3. /\ UNCHANGED <<up, server, connections, requests>>
      /\ \A other \in Kind : other # "motd" => answers'[other] = answers[other]
  BY <1>1, <1>2, Taken
<1>4. \A k \in Replying : k # "motd" => Same(k)
  BY <1>1, <1>3 DEF Same, OpenBatches, whoVars, namesVars, Replying
<1>5. Tokens("motd") /\ UserhostsFollowNames'
  BY <1>1 DEF Tokens, whoVars, UserhostsFollowNames, namesVars, IInv
<1>6. DOMAIN batches' \subseteq UNION {Refs(k) : k \in Replying}
  BY <1>1 DEF IInv, Basics
<1>7. ASSUME OnMotdstart PROVE Keeping("motd")' /\ RepliesAreExact'
  <2>1. Reads("motd", "RPL_MOTDSTART") /\ event' = NoEvent /\ motd' = {}
    BY <1>7 DEF OnMotdstart, Silently
  <2>2. "RPL_MOTDSTART" \in Starts
    BY DEF Starts
  <2>3. PICK s, t :
          /\ Keeps("motd", s)
          /\ Leads("motd", server'.liststart, answers'["motd"], t, Between)
          /\ s.seen = {} /\ t.seen = {} /\ t.open = s.open
    BY <1>2, <2>1, <2>2, ReadsStart
  <2>4. MotdKeeps(t)'
    BY <2>1, <2>3 DEF MotdKeeps
  <2>5. t.open = OpenBatches("motd")'
    BY <1>1, <1>3, <2>3, SeenLines
  <2>6. Keeps("motd", t)'
    BY <2>3, <2>4, <2>5 DEF Keeps
  <2> QED
    BY <2>1, <2>3, <2>6 DEF Keeping, RepliesAreExact
<1>8. ASSUME OnMotdLine PROVE Keeping("motd")' /\ RepliesAreExact'
  <2>1. /\ Reads("motd", "RPL_MOTD") /\ event' = NoEvent
        /\ motd' = motd \cup {Line("motd")}
    BY <1>8 DEF OnMotdLine, Silently
  <2>2. "RPL_MOTD" \in Parts
    BY DEF Parts
  <2>3. PICK s, line, t :
          /\ line = Line("motd") /\ Keeps("motd", s)
          /\ Leads("motd", server'.liststart, answers'["motd"], t, Between)
          /\ t.seen = s.seen \cup {line} /\ t.begun = s.begun /\ t.open = s.open
          /\ line.command = "RPL_MOTD" /\ line.batch = Untagged /\ Sends("motd", line)
    BY <1>2, <2>1, <2>2, ReadsPart
  <2>4. MotdKeeps(t)'
    BY <2>1, <2>3 DEF Keeps, MotdKeeps
  <2>5. /\ t.open = OpenBatches("motd")'
        /\ \A l \in t.seen : /\ l.connection = connections'
                             /\ l.request \in 1 .. requests'
                             /\ "motd" # "who" => l.key = l.target
    BY <1>1, <1>3, <2>2, <2>3, SeenLines
  <2>6. Keeps("motd", t)'
    BY <2>4, <2>5 DEF Keeps
  <2> QED
    BY <2>1, <2>3, <2>6 DEF Keeping, RepliesAreExact
<1>9. ASSUME NEW command, command = "RPL_ENDOFMOTD" \/ command = "ERR_NOMOTD", Reads("motd", command),
             motd' = motd
      PROVE  \E s, line : /\ Keeps("motd", s) /\ line = Line("motd") /\ line.sent = s.seen
                          /\ command = "RPL_ENDOFMOTD" => s.begun
                          /\ command = "ERR_NOMOTD" => s.seen = {}
                          /\ Keeping("motd")'
  <2>1. LastCommand(command)
    BY <1>9, LastCommands
  <2>2. PICK s, line, t :
          /\ line = Line("motd") /\ Keeps("motd", s)
          /\ Leads("motd", server'.liststart, answers'["motd"], t, Between)
          /\ t.seen = {} /\ ~t.begun /\ t.open = s.open
          /\ line.sent = s.seen
          /\ Begins("motd", server.liststart) /\ command # "ERR_NOMOTD" => s.begun
          /\ command = "ERR_NOMOTD" => s.seen = {}
    BY <1>2, <1>9, <2>1, ReadsLast
  <2>3. MotdKeeps(t)'
    BY <2>2 DEF MotdKeeps
  <2>4. t.open = OpenBatches("motd")'
    BY <1>1, <1>3, <2>2, SeenLines
  <2>5. Keeps("motd", t)'
    BY <2>2, <2>3, <2>4 DEF Keeps
  <2>6. Keeping("motd")'
    BY <2>2, <2>5 DEF Keeping
  <2>7. command = "RPL_ENDOFMOTD" => s.begun
    BY <2>2 DEF Begins
  <2> QED
    BY <2>2, <2>6, <2>7
<1>10. ASSUME OnEndofmotd PROVE Keeping("motd")' /\ RepliesAreExact'
  <2>1. /\ Reads("motd", "RPL_ENDOFMOTD") /\ motd' = motd
        /\ event' = [last |-> Line("motd"), lines |-> motd]
    BY <1>10 DEF OnEndofmotd, Reports, plainVars
  <2>2. PICK s, line : /\ Keeps("motd", s) /\ line = Line("motd") /\ line.sent = s.seen
                       /\ s.begun /\ Keeping("motd")'
    BY <1>9, <2>1
  <2>3. motd = line.sent
    BY <2>2 DEF Keeps, MotdKeeps
  <2>4. RepliesAreExact'
    BY <1>0, <1>3, <2>1, <2>2, <2>3, Reported
  <2> QED
    BY <2>2, <2>4
<1>11. ASSUME OnNomotd PROVE Keeping("motd")' /\ RepliesAreExact'
  <2>1. PICK none : none = {}
    OBVIOUS
  <2>2. /\ Reads("motd", "ERR_NOMOTD") /\ motd' = motd
        /\ event' = [last |-> Line("motd"), lines |-> none]
    BY <1>11, <2>1 DEF OnNomotd, Reports, plainVars
  <2>3. PICK s, line : /\ Keeps("motd", s) /\ line = Line("motd") /\ line.sent = s.seen
                       /\ s.seen = {} /\ Keeping("motd")'
    BY <1>9, <2>2
  <2>4. none = line.sent
    BY <2>1, <2>3
  <2>5. RepliesAreExact'
    BY <1>0, <1>3, <2>2, <2>3, <2>4, Reported
  <2> QED
    BY <2>3, <2>5
<1> QED
  BY <1>1, <1>2, <1>4, <1>5, <1>6, <1>7, <1>8, <1>10, <1>11, ReadStep

(* A field of WHOIS replaces the same one of the same nick.                *)
Held(f, line) ==
  \E other \in At(f, line.key) : other = line \/ (other.request = 0 /\ other.part = line.part)

(* A line in a buffer of whois.ts is replaced by one of the same part.     *)
LEMMA Replaces ==
  ASSUME NEW seen, NEW line, WhoisKeeps(seen),
         \A l \in seen : line.request # 0 => l.part # line.part,
         NEW g, g = With(whoisBuffers, line.key,
                         {other \in At(whoisBuffers, line.key) : other.part # line.part} \cup {line})
  PROVE  /\ \A l \in seen : Held(g, l)
         /\ line \in At(g, line.key)
         /\ \A nick \in DOMAIN g : \A l \in g[nick] :
              \/ l = line /\ nick = line.key
              \/ nick \in DOMAIN whoisBuffers /\ l \in whoisBuffers[nick]
<1> DEFINE others == {other \in At(whoisBuffers, line.key) : other.part # line.part}
<1>1. g = With(whoisBuffers, line.key, others \cup {line})
  OBVIOUS
<1>2. \A l \in others : l \in At(whoisBuffers, line.key) /\ l.part # line.part
  OBVIOUS
<1>3. \A l \in At(whoisBuffers, line.key) : l.part # line.part => l \in others
  OBVIOUS
<1> HIDE DEF others
<1>4. /\ DOMAIN g = DOMAIN whoisBuffers \cup {line.key}
      /\ g[line.key] = others \cup {line}
      /\ \A nick \in DOMAIN whoisBuffers : nick # line.key => g[nick] = whoisBuffers[nick]
  BY <1>1 DEF With
<1>5. /\ At(g, line.key) = others \cup {line}
      /\ \A nick : nick # line.key => At(g, nick) = At(whoisBuffers, nick)
  BY <1>4 DEF At
<1>6. ASSUME NEW l \in seen
      PROVE  \E other \in At(g, l.key) : other = l \/ (other.request = 0 /\ other.part = l.part)
  <2>1. PICK other \in At(whoisBuffers, l.key) : other = l \/ (other.request = 0 /\ other.part = l.part)
    BY DEF WhoisKeeps
  <2>2. CASE l.key # line.key
    BY <1>5, <2>1, <2>2
  <2>3. CASE l.key = line.key /\ other.part # line.part
    <3>1. other \in At(g, l.key)
      BY <1>3, <1>5, <2>1, <2>3
    <3> QED
      BY <2>1, <3>1
  <2>4. CASE l.key = line.key /\ other.part = line.part
    <3>1. l.part = line.part
      BY <2>1, <2>4
    <3>2. line.request = 0
      BY <3>1
    <3>3. line \in At(g, l.key)
      BY <1>5, <2>4
    <3> QED
      BY <3>1, <3>2, <3>3
  <2> QED
    BY <2>2, <2>3, <2>4
<1>7. ASSUME NEW nick \in DOMAIN g, NEW l \in g[nick]
      PROVE  \/ l = line /\ nick = line.key
             \/ nick \in DOMAIN whoisBuffers /\ l \in whoisBuffers[nick]
  BY <1>2, <1>4 DEF At
<1> QED
  BY <1>5, <1>6, <1>7 DEF Held

(* The listeners of whois.ts preserve the invariant.                       *)
LEMMA WhoisSteps ==
  ASSUME IInv, OnWhois("whois") \/ OnWhois("away") \/ OnEndofwhois
  PROVE  IInv'
<1>0. disputed' = disputed
  BY DEF OnWhois, OnEndofwhois, whoVars
<1>1. UNCHANGED <<whoVars, plainVars, namesVars, batches>>
  BY DEF OnWhois, OnEndofwhois
<1>2. "whois" \in Kind /\ "whois" \in Replying /\ "away" \in Kind /\ "away" \notin Replying
  BY DEF Kind, Replying
<1>3. ASSUME NEW kind \in Kind, Takes(kind)
      PROVE  /\ UNCHANGED <<up, server, connections, requests>> /\ up
             /\ \A other \in Kind : other # kind => answers'[other] = answers[other]
  BY <1>3, Taken
<1>4. ASSUME NEW kind \in {"whois", "away"}, Takes(kind), NEW k \in Replying, k # "whois"
      PROVE  k # kind /\ Same(k)
  BY <1>1, <1>2, <1>3, <1>4 DEF Same, OpenBatches, whoVars, plainVars, namesVars, Replying
<1>5. Tokens("whois") /\ Tokens("away") /\ UserhostsFollowNames'
  BY <1>1 DEF Tokens, whoVars, UserhostsFollowNames, namesVars, IInv
<1>6. DOMAIN batches' \subseteq UNION {Refs(k) : k \in Replying}
  BY <1>1 DEF IInv, Basics
<1>7. ASSUME OnWhois("whois") PROVE Keeping("whois")' /\ RepliesAreExact' /\ Takes("whois")
  <2>1. /\ Reads("whois", "RPL_WHOIS") /\ Takes("whois") /\ event' = NoEvent
        /\ whoisBuffers' = With(whoisBuffers, Line("whois").key,
             {l \in At(whoisBuffers, Line("whois").key) : l.part # Line("whois").part} \cup {Line("whois")})
    BY <1>7 DEF OnWhois, Silently, Reads
  <2>2. "RPL_WHOIS" \in Parts
    BY DEF Parts
  <2>3. PICK s, line, t :
          /\ line = Line("whois") /\ Keeps("whois", s)
          /\ Leads("whois", server'.liststart, answers'["whois"], t, Between)
          /\ t.seen = s.seen \cup {line} /\ t.begun = s.begun /\ t.open = s.open
          /\ line.command = "RPL_WHOIS" /\ line.batch = Untagged /\ Sends("whois", line)
          /\ \A other \in s.seen : other.part # line.part
    BY <1>2, <2>1, <2>2, ReadsPart
  <2>4. WhoisKeeps(t.seen)'
    <3>1. WhoisKeeps(s.seen)
      BY <2>3 DEF Keeps
    <3>2. whoisBuffers' = With(whoisBuffers, line.key,
             {l \in At(whoisBuffers, line.key) : l.part # line.part} \cup {line})
      BY <2>1, <2>3
    <3>3. /\ \A l \in s.seen : \E other \in At(whoisBuffers', l.key) :
               other = l \/ (other.request = 0 /\ other.part = l.part)
          /\ line \in At(whoisBuffers', line.key)
          /\ \A nick \in DOMAIN whoisBuffers' : \A l \in whoisBuffers'[nick] :
               \/ l = line /\ nick = line.key
               \/ nick \in DOMAIN whoisBuffers /\ l \in whoisBuffers[nick]
      <4>1. PICK g : g = whoisBuffers'
        OBVIOUS
      <4>0. PICK seen : seen = s.seen
        OBVIOUS
      <4>2. WhoisKeeps(seen) /\ \A l \in seen : line.request # 0 => l.part # line.part
        BY <2>3, <3>1, <4>0
      <4>3. g = With(whoisBuffers, line.key,
                     {other \in At(whoisBuffers, line.key) : other.part # line.part} \cup {line})
        BY <2>3, <3>2, <4>1
      <4>4. \A l \in seen : Held(g, l)
        BY <4>2, <4>3, Replaces
      <4>5. line \in At(g, line.key)
        BY <4>2, <4>3, Replaces
      <4>6. \A nick \in DOMAIN g : \A l \in g[nick] :
              \/ l = line /\ nick = line.key
              \/ nick \in DOMAIN whoisBuffers /\ l \in whoisBuffers[nick]
        BY <4>2, <4>3, Replaces
      <4> QED
        BY <4>0, <4>1, <4>4, <4>5, <4>6 DEF Held
    <3>4. \A l \in t.seen : \E other \in At(whoisBuffers', l.key) :
            other = l \/ (other.request = 0 /\ other.part = l.part)
      BY <2>3, <3>3
    <3>5. \A nick \in DOMAIN whoisBuffers' : \A l \in whoisBuffers'[nick] :
            l.key = nick /\ (l \in t.seen \/ l.request = 0 \/ Older(l)')
      BY <1>3, <2>1, <1>2, <2>3, <3>1, <3>3 DEF WhoisKeeps, Older
    <3> QED
      BY <3>4, <3>5 DEF WhoisKeeps
  <2>5. /\ t.open = OpenBatches("whois")'
        /\ \A l \in t.seen : /\ l.connection = connections'
                             /\ l.request \in 1 .. requests'
                             /\ "whois" # "who" => l.key = l.target
    BY <1>1, <1>2, <1>3, <2>1, <2>2, <2>3, SeenLines
  <2>6. Keeps("whois", t)'
    BY <2>4, <2>5 DEF Keeps
  <2> QED
    BY <2>1, <2>3, <2>6 DEF Keeping, RepliesAreExact
<1>8. ASSUME OnWhois("away") PROVE Keeping("whois")' /\ RepliesAreExact' /\ Takes("away")
  <2>1. PICK line : line = Line("away")
    OBVIOUS
  <2>2. /\ Takes("away") /\ event' = NoEvent
        /\ whoisBuffers' = With(whoisBuffers, line.key,
             {l \in At(whoisBuffers, line.key) : l.part # line.part} \cup {line})
    BY <1>8, <2>1 DEF OnWhois, Silently, Reads
  <2>3. line.request = 0
    <3>1. 1 \in DOMAIN answers["away"] /\ Line("away") = answers["away"][1]
      BY <1>2, <2>2, Taken
    <3> QED
      BY <2>1, <3>1 DEF IInv, Sending, SendsAway
  <2>4. /\ UNCHANGED <<up, server, connections, requests>> /\ answers'["whois"] = answers["whois"]
    BY <1>2, <1>3, <2>2
  <2>5. PICK s : Leads("whois", server.liststart, answers["whois"], s, Between) /\ Keeps("whois", s)
    BY <1>2 DEF IInv, Keeping
  <2>6. WhoisKeeps(s.seen)'
    <3>1. WhoisKeeps(s.seen)
      BY <2>5 DEF Keeps
    <3>2. /\ \A l \in s.seen : \E other \in At(whoisBuffers', l.key) :
               other = l \/ (other.request = 0 /\ other.part = l.part)
          /\ \A nick \in DOMAIN whoisBuffers' : \A l \in whoisBuffers'[nick] :
               \/ l = line /\ nick = line.key
               \/ nick \in DOMAIN whoisBuffers /\ l \in whoisBuffers[nick]
      <4>1. PICK g : g = whoisBuffers'
        OBVIOUS
      <4>0. PICK seen : seen = s.seen
        OBVIOUS
      <4>2. WhoisKeeps(seen) /\ \A l \in seen : line.request # 0 => l.part # line.part
        BY <2>3, <3>1, <4>0
      <4>3. g = With(whoisBuffers, line.key,
                     {other \in At(whoisBuffers, line.key) : other.part # line.part} \cup {line})
        BY <2>2, <2>3, <4>1
      <4>4. \A l \in seen : Held(g, l)
        BY <4>2, <4>3, Replaces
      <4>6. \A nick \in DOMAIN g : \A l \in g[nick] :
              \/ l = line /\ nick = line.key
              \/ nick \in DOMAIN whoisBuffers /\ l \in whoisBuffers[nick]
        BY <4>2, <4>3, Replaces
      <4> QED
        BY <4>0, <4>1, <4>4, <4>6 DEF Held
    <3>3. \A l \in s.seen : \E other \in At(whoisBuffers', l.key) :
            other = l \/ (other.request = 0 /\ other.part = l.part)
      BY <2>3, <3>2
    <3>4. \A nick \in DOMAIN whoisBuffers' : \A l \in whoisBuffers'[nick] :
            l.key = nick /\ (l \in s.seen \/ l.request = 0 \/ Older(l)')
      BY <2>3, <2>4, <3>1, <3>2 DEF WhoisKeeps, Older
    <3> QED
      BY <3>3, <3>4 DEF WhoisKeeps
  <2>7. Keeps("whois", s)'
    BY <1>1, <2>4, <2>5, <2>6 DEF Keeps, OpenBatches
  <2> QED
    BY <2>2, <2>4, <2>5, <2>7 DEF Keeping, RepliesAreExact
<1>9. ASSUME OnEndofwhois PROVE Keeping("whois")' /\ RepliesAreExact' /\ Takes("whois")
  <2>1. /\ Reads("whois", "RPL_ENDOFWHOIS") /\ Takes("whois")
        /\ whoisBuffers' = Without(whoisBuffers, Line("whois").key)
        /\ event' = [last |-> Line("whois"), lines |-> At(whoisBuffers, Line("whois").key)]
    BY <1>9 DEF OnEndofwhois, Reports, Reads
  <2>2. LastCommand("RPL_ENDOFWHOIS")
    BY LastCommands
  <2>3. PICK s, line, t :
          /\ line = Line("whois") /\ Keeps("whois", s)
          /\ Leads("whois", server'.liststart, answers'["whois"], t, Between)
          /\ t.seen = {} /\ t.open = s.open
          /\ line.command = "RPL_ENDOFWHOIS" /\ line.sent = s.seen
          /\ \A other \in s.seen : other.target = line.key
    BY <1>2, <2>1, <2>2, ReadsLast
  <2>4. UNCHANGED <<up, server, connections, requests>> /\ up
    BY <1>2, <1>3, <2>1
  <2>5. \A l \in s.seen : l.key = line.key
    BY <2>3 DEF Keeps
  <2>6. WhoisKeeps(s.seen)
    BY <2>3 DEF Keeps
  <2>7. WhoisKeeps(t.seen)'
    <3>1. /\ DOMAIN whoisBuffers' = DOMAIN whoisBuffers \ {line.key}
          /\ \A nick \in DOMAIN whoisBuffers : nick # line.key => whoisBuffers'[nick] = whoisBuffers[nick]
      BY <2>1, <2>3 DEF Without
    <3>2. \A nick \in DOMAIN whoisBuffers' : \A l \in whoisBuffers'[nick] :
            l.key = nick /\ (l.request = 0 \/ Older(l)')
      BY <2>4, <2>5, <2>6, <3>1 DEF WhoisKeeps, Older
    <3> QED
      BY <2>3, <3>2 DEF WhoisKeeps
  <2>8. t.open = OpenBatches("whois")'
    BY <1>1, <2>3, <2>4, SeenLines
  <2>9. Keeps("whois", t)'
    BY <2>3, <2>7, <2>8 DEF Keeps
  <2>10. PICK lines : lines = At(whoisBuffers, line.key)
    OBVIOUS
  <2>11. \A l \in s.seen : \E other \in lines : other = l \/ (other.request = 0 /\ other.part = l.part)
    BY <2>5, <2>6, <2>10 DEF WhoisKeeps
  <2>12. ASSUME NEW l \in lines \ line.sent PROVE Foreign(line, l)
    <3>1. l.key = line.key /\ (l.request = 0 \/ l.connection # connections)
      BY <2>3, <2>4, <2>6, <2>10 DEF WhoisKeeps, At, Older
    <3> QED
      BY <2>3, <3>1 DEF Foreign
  <2>13. RepliesAreExact'
    BY <1>0, <2>1, <2>3, <2>4, <2>10, <2>11, <2>12, Reported
  <2> QED
    BY <2>1, <2>3, <2>9, <2>13 DEF Keeping
<1>10. CASE OnWhois("whois") \/ OnEndofwhois
  <2>1. Takes("whois") /\ Keeping("whois")' /\ RepliesAreExact'
    BY <1>7, <1>9, <1>10
  <2>2. \A k \in Replying : (k # "whois" /\ Same(k)) \/ Keeping(k)'
    BY <1>4, <2>1
  <2> QED
    BY <1>2, <1>5, <1>6, <2>1, <2>2, ReadStep
<1>11. CASE OnWhois("away")
  <2>1. Takes("away") /\ Keeping("whois")' /\ RepliesAreExact'
    BY <1>8, <1>11
  <2>2. \A k \in Replying : (k # "away" /\ Same(k)) \/ Keeping(k)'
    BY <1>4, <2>1
  <2> QED
    BY <1>2, <1>5, <1>6, <2>1, <2>2, ReadStep
<1> QED
  BY <1>10, <1>11

(* A line added to a buffer.                                               *)
LEMMA Collects ==
  ASSUME NEW f, NEW k, NEW line, NEW g, g = Collect(f, k, line)
  PROVE  /\ DOMAIN g = DOMAIN f \cup {k}
         /\ \A x : At(f, x) \subseteq At(g, x)
         /\ line \in At(g, k)
         /\ \A x \in DOMAIN g : \A l \in g[x] :
              (l = line /\ x = k) \/ (x \in DOMAIN f /\ l \in f[x])
<1>1. PICK new : new = At(f, k) \cup {line}
  OBVIOUS
<1>2. g = With(f, k, new)
  BY <1>1 DEF Collect
<1>3. /\ DOMAIN g = DOMAIN f \cup {k} /\ g[k] = new
      /\ \A x \in DOMAIN f : x # k => g[x] = f[x]
  BY <1>2 DEF With
<1>4. At(g, k) = new /\ \A x : x # k => At(g, x) = At(f, x)
  BY <1>3 DEF At
<1>5. ASSUME NEW x \in DOMAIN g, NEW l \in g[x]
      PROVE  (l = line /\ x = k) \/ (x \in DOMAIN f /\ l \in f[x])
  BY <1>1, <1>3 DEF At
<1> QED
  BY <1>1, <1>3, <1>4, <1>5

(* The buffers of userhost_in_names.ts are those of the parts seen.        *)
Masks(seen, all) == [c \in {line.key : line \in seen} |->
                       IF all THEN {line \in seen : line.key = c} ELSE {}]

(* The masks that the parts of NAMES leave.                                *)
LEMMA MasksWith ==
  ASSUME NEW seen, NEW line, NEW all \in BOOLEAN, NEW f, f = Masks(seen, all)
  PROVE  With(f, line.key, At(f, line.key) \cup IF all THEN {line} ELSE {})
         = Masks(seen \cup {line}, all)
<1>1. PICK new : new = At(f, line.key) \cup IF all THEN {line} ELSE {}
  OBVIOUS
<1>2. DOMAIN f = {l.key : l \in seen}
  BY DEF Masks
<1>3. \A c \in DOMAIN f : f[c] = IF all THEN {l \in seen : l.key = c} ELSE {}
  BY <1>2 DEF Masks
<1>4. {l.key : l \in seen \cup {line}} = DOMAIN f \cup {line.key}
  BY <1>2
<1>5. new = IF all THEN {l \in seen \cup {line} : l.key = line.key} ELSE {}
  <2>1. CASE line.key \in DOMAIN f
    BY <1>1, <1>3, <2>1 DEF At
  <2>2. CASE line.key \notin DOMAIN f
    <3>1. \A l \in seen : l.key # line.key
      BY <1>2, <2>2
    <3>2. new = IF all THEN {line} ELSE {}
      BY <1>1, <2>2 DEF At
    <3> QED
      BY <3>1, <3>2
  <2> QED
    BY <2>1, <2>2
<1>6. ASSUME NEW c \in DOMAIN f, c # line.key
      PROVE  f[c] = IF all THEN {l \in seen \cup {line} : l.key = c} ELSE {}
  BY <1>3, <1>6
<1>7. With(f, line.key, new)
      = [c \in DOMAIN f \cup {line.key} |-> IF all THEN {l \in seen \cup {line} : l.key = c} ELSE {}]
  BY <1>5, <1>6 DEF With
<1> QED
  BY <1>1, <1>4, <1>7 DEF Masks

(* The listeners of names.ts and userhost_in_names.ts preserve the         *)
(* invariant.                                                              *)
LEMMA NamesSteps ==
  ASSUME IInv, OnNamreply \/ OnEndofnames
  PROVE  IInv'
<1>0. disputed' = disputed
  BY DEF OnNamreply, OnEndofnames, whoVars
<1>1. /\ UNCHANGED <<whoVars, whoisBuffers, plainVars, batches>>
      /\ Takes("names")
  BY DEF OnNamreply, OnEndofnames, Reads
<1>2. "names" \in Kind /\ "names" \in Replying
  BY DEF Kind, Replying
<1>3. /\ UNCHANGED <<up, server, connections, requests>> /\ up
      /\ \A other \in Kind : other # "names" => answers'[other] = answers[other]
  BY <1>1, <1>2, Taken
<1>4. \A k \in Replying : k # "names" => Same(k)
  BY <1>1, <1>3 DEF Same, OpenBatches, whoVars, plainVars, Replying
<1>5. Tokens("names")
  BY <1>1 DEF Tokens, whoVars
<1>6. DOMAIN batches' \subseteq UNION {Refs(k) : k \in Replying}
  BY <1>1 DEF IInv, Basics
<1>7. server.masks \in BOOLEAN
  BY CollectorsAssumption DEF IInv, Basics
<1>8. ASSUME OnNamreply PROVE Keeping("names")' /\ RepliesAreExact' /\ UserhostsFollowNames'
  <2>1. PICK line : line = Line("names")
    OBVIOUS
  <2>2. /\ Reads("names", "RPL_NAMREPLY") /\ event' = NoEvent
        /\ namesBuffers' = Collect(namesBuffers, line.key, line)
        /\ userhostBuffers' = With(userhostBuffers, line.key,
                                   At(userhostBuffers, line.key) \cup IF server.masks THEN {line} ELSE {})
        /\ UNCHANGED <<userhosts, listed>>
    BY <1>8, <2>1 DEF OnNamreply, Silently
  <2>3. "RPL_NAMREPLY" \in Parts
    BY DEF Parts
  <2>4. PICK s, t :
          /\ Keeps("names", s)
          /\ Leads("names", server'.liststart, answers'["names"], t, Between)
          /\ t.seen = s.seen \cup {line} /\ t.open = s.open
          /\ line.command = "RPL_NAMREPLY" /\ line.batch = Untagged /\ Sends("names", line)
    BY <1>2, <2>1, <2>2, <2>3, ReadsPart
  <2>5. NamesKeep(s.seen)
    BY <2>4 DEF Keeps
  <2>6. NamesKeep(t.seen)'
    <3>1. PICK g : g = namesBuffers'
      OBVIOUS
    <3>2. /\ \A x : At(namesBuffers, x) \subseteq At(g, x)
          /\ line \in At(g, line.key)
          /\ \A x \in DOMAIN g : \A l \in g[x] :
               (l = line /\ x = line.key) \/ (x \in DOMAIN namesBuffers /\ l \in namesBuffers[x])
      <4>1. PICK f, c : f = namesBuffers /\ c = line.key
        OBVIOUS
      <4>2. g = Collect(f, c, line)
        BY <2>2, <3>1, <4>1
      <4>3. /\ \A x : At(f, x) \subseteq At(g, x)
            /\ line \in At(g, c)
            /\ \A x \in DOMAIN g : \A l \in g[x] :
                 (l = line /\ x = c) \/ (x \in DOMAIN f /\ l \in f[x])
        BY <4>2, Collects
      <4> QED
        BY <4>1, <4>3
    <3>3. \A l \in t.seen : l \in At(namesBuffers', l.key)
      BY <2>4, <2>5, <3>1, <3>2 DEF NamesKeep
    <3>4. \A l : Older(l) => Older(l)'
      BY <1>3 DEF Older
    <3>5. \A c \in DOMAIN namesBuffers' : \A l \in namesBuffers'[c] :
            l.key = c /\ (l \in t.seen \/ Older(l)')
      BY <2>4, <2>5, <3>1, <3>2, <3>4 DEF NamesKeep
    <3>6. userhostBuffers' = Masks(t.seen, server'.masks)
      <4>1. PICK seen, all, f : seen = s.seen /\ all = server.masks /\ f = userhostBuffers
        OBVIOUS
      <4>2. all \in BOOLEAN /\ f = Masks(seen, all)
        BY <1>7, <2>5, <4>1 DEF NamesKeep, Masks
      <4>3. With(f, line.key, At(f, line.key) \cup IF all THEN {line} ELSE {}) = Masks(seen \cup {line}, all)
        BY <4>2, MasksWith
      <4> QED
        BY <1>3, <2>2, <2>4, <4>1, <4>3
    <3> QED
      BY <3>3, <3>5, <3>6 DEF NamesKeep, Masks
  <2>7. /\ t.open = OpenBatches("names")'
        /\ \A l \in t.seen : /\ l.connection = connections'
                             /\ l.request \in 1 .. requests'
                             /\ "names" # "who" => l.key = l.target
    BY <1>1, <1>3, <2>3, <2>4, SeenLines
  <2>8. Keeps("names", t)'
    BY <2>6, <2>7 DEF Keeps
  <2> QED
    BY <2>2, <2>4, <2>8 DEF Keeping, RepliesAreExact, UserhostsFollowNames, IInv
<1>9. ASSUME OnEndofnames PROVE Keeping("names")' /\ RepliesAreExact' /\ UserhostsFollowNames'
  <2>1. PICK last : last = Line("names")
    OBVIOUS
  <2>2. PICK lines : lines = At(namesBuffers, last.key)
    OBVIOUS
  <2>3. /\ Reads("names", "RPL_ENDOFNAMES")
        /\ event' = [last |-> Line("names"), lines |-> lines]
        /\ namesBuffers' = Without(namesBuffers, last.key)
        /\ IF last.key \in DOMAIN namesBuffers \cap DOMAIN userhostBuffers
           THEN /\ userhosts' = With(userhosts, last.key, userhostBuffers[last.key])
                /\ userhostBuffers' = Without(userhostBuffers, last.key)
           ELSE UNCHANGED <<userhosts, userhostBuffers>>
        /\ listed' = IF last.sent = {} THEN listed
                     ELSE With(listed, last.key, IF server.masks THEN last.sent ELSE {})
    BY <1>9, <2>1, <2>2 DEF OnEndofnames, Reports
  <2>4. LastCommand("RPL_ENDOFNAMES")
    BY LastCommands
  <2>5. PICK s, t :
          /\ Keeps("names", s)
          /\ Leads("names", server'.liststart, answers'["names"], t, Between)
          /\ t.seen = {} /\ t.open = s.open
          /\ last.command = "RPL_ENDOFNAMES" /\ last.sent = s.seen
          /\ \A other \in s.seen : other.target = last.key
    BY <1>2, <2>1, <2>3, <2>4, ReadsLast
  <2>6. NamesKeep(s.seen) /\ \A l \in s.seen : l.key = last.key
    BY <2>5 DEF Keeps
  <2>7. /\ DOMAIN userhostBuffers = {l.key : l \in s.seen}
        /\ \A c \in DOMAIN userhostBuffers :
             userhostBuffers[c] = IF server.masks THEN {l \in s.seen : l.key = c} ELSE {}
    <3>1. userhostBuffers = [c \in {l.key : l \in s.seen} |->
                               IF server.masks THEN {l \in s.seen : l.key = c} ELSE {}]
      BY <2>6 DEF NamesKeep
    <3>2. DOMAIN userhostBuffers = {l.key : l \in s.seen}
      BY <3>1
    <3> QED
      BY <3>1, <3>2
  <2>8. userhostBuffers' = [c \in {} |-> {}] /\ (userhosts = listed => userhosts' = listed')
    <3>1. CASE s.seen = {}
      <4>1. UNCHANGED <<userhosts, userhostBuffers>> /\ listed' = listed
        <5>1. DOMAIN userhostBuffers = {}
          BY <2>7, <3>1
        <5> QED
          BY <2>3, <2>5, <3>1, <5>1
      <4>2. userhostBuffers = [c \in {} |-> {}]
        <5>1. userhostBuffers = [c \in {l.key : l \in s.seen} |->
                                   IF server.masks THEN {l \in s.seen : l.key = c} ELSE {}]
          BY <2>6 DEF NamesKeep
        <5>2. {l.key : l \in s.seen} = {}
          BY <3>1
        <5> QED
          BY <5>1, <5>2
      <4> QED
        BY <4>1, <4>2
    <3>2. CASE s.seen # {}
      <4>1. PICK l \in s.seen : l.key = last.key /\ l \in At(namesBuffers, last.key)
        BY <2>6, <3>2 DEF NamesKeep
      <4>2. last.key \in DOMAIN namesBuffers
        BY <4>1 DEF At
      <4>3. DOMAIN userhostBuffers = {last.key}
        BY <2>6, <2>7, <4>1
      <4>4. userhostBuffers[last.key] = IF server.masks THEN last.sent ELSE {}
        <5>1. {x \in s.seen : x.key = last.key} = s.seen
          BY <2>6
        <5> QED
          BY <2>5, <2>7, <4>3, <5>1
      <4>5. /\ userhosts' = With(userhosts, last.key, userhostBuffers[last.key])
            /\ userhostBuffers' = Without(userhostBuffers, last.key)
            /\ listed' = With(listed, last.key, IF server.masks THEN last.sent ELSE {})
        BY <2>3, <2>5, <3>2, <4>2, <4>3
      <4>6. userhostBuffers' = [c \in {} |-> {}]
        BY <4>3, <4>5 DEF Without
      <4>7. userhosts = listed => userhosts' = listed'
        BY <4>4, <4>5
      <4> QED
        BY <4>6, <4>7
    <3> QED
      BY <3>1, <3>2
  <2>9. NamesKeep(t.seen)'
    <3>1. /\ DOMAIN namesBuffers' = DOMAIN namesBuffers \ {last.key}
          /\ \A c \in DOMAIN namesBuffers' : namesBuffers'[c] = namesBuffers[c]
      BY <2>3 DEF Without
    <3>2. \A l : Older(l) => Older(l)'
      BY <1>3 DEF Older
    <3>3. \A c \in DOMAIN namesBuffers' : \A l \in namesBuffers'[c] : l.key = c /\ Older(l)'
      BY <2>6, <3>1, <3>2 DEF NamesKeep
    <3>4. userhostBuffers' = [c \in {l.key : l \in t.seen} |->
                                IF server'.masks THEN {l \in t.seen : l.key = c} ELSE {}]
      <4>1. {l.key : l \in t.seen} = {}
        BY <2>5
      <4> QED
        BY <2>8, <4>1
    <3> QED
      BY <2>5, <3>3, <3>4 DEF NamesKeep
  <2>10. t.open = OpenBatches("names")'
    BY <1>1, <1>3, <2>5, SeenLines
  <2>11. Keeps("names", t)'
    BY <2>5, <2>9, <2>10 DEF Keeps
  <2>12. \A l \in last.sent : l \in lines
    BY <2>2, <2>5, <2>6 DEF NamesKeep
  <2>13. ASSUME NEW l \in lines \ last.sent PROVE Foreign(last, l)
    <3>1. l.key = last.key /\ l.connection # connections
      BY <1>3, <2>2, <2>5, <2>6 DEF NamesKeep, At, Older
    <3> QED
      BY <2>5, <3>1 DEF Foreign
  <2>14. RepliesAreExact'
    BY <1>0, <1>3, <2>1, <2>3, <2>12, <2>13, Reported
  <2>15. UserhostsFollowNames'
    BY <2>8 DEF UserhostsFollowNames, IInv
  <2> QED
    BY <2>5, <2>11, <2>14, <2>15 DEF Keeping
<1> QED
  BY <1>1, <1>2, <1>4, <1>5, <1>6, <1>8, <1>9, ReadStep

(* The listeners of who.ts for a part, and for the last line.              *)
LEMMA WhoPartRead ==
  ASSUME IInv, OnWhoreply \/ OnWhospcrpl
  PROVE  Keeping("who")'
<1>1. "who" \in Kind /\ "who" \in Replying
  BY DEF Kind, Replying
<1>2. PICK command : /\ command = "RPL_WHOREPLY" \/ command = "RPL_WHOSPCRPL"
                     /\ Reads("who", command)
                     /\ command = "RPL_WHOREPLY" => OnWhoreply
                     /\ command = "RPL_WHOSPCRPL" => OnWhospcrpl
  BY DEF OnWhoreply, OnWhospcrpl
<1>3. command \in Parts
  BY <1>2 DEF Parts
<1>4. PICK s, line, t :
        /\ line = Line("who") /\ Keeps("who", s)
        /\ Leads("who", server'.liststart, answers'["who"], t, Between)
        /\ t.seen = s.seen \cup {line} /\ t.open = s.open
        /\ line.command = command /\ line.batch = Untagged /\ Sends("who", line)
  BY <1>1, <1>2, <1>3, ReadsPart
<1>5. Takes("who")
  BY <1>2 DEF Reads
<1>6. /\ UNCHANGED <<up, server, connections, requests>>
      /\ \A i \in DOMAIN answers'["who"] : \E j \in DOMAIN answers["who"] :
           answers'["who"][i] = answers["who"][j]
  BY <1>1, <1>5, Taken
<1>7. UNCHANGED <<tokenMap, tokenCounter, disputed, batches>>
  BY <1>2 DEF OnWhoreply, OnWhospcrpl
<1>8. /\ line.connection = connections
      /\ command = "RPL_WHOSPCRPL" => Tokened(line)
  BY <1>2, <1>3, <1>4 DEF Sends
<1>9. PICK k : k = IF command = "RPL_WHOSPCRPL" /\ line.key \in DOMAIN tokenMap
                   THEN tokenMap[line.key] ELSE line.key
  OBVIOUS
<1>10. whoBuffers' = Collect(whoBuffers, k, line)
  BY <1>2, <1>4, <1>9 DEF OnWhoreply, OnWhospcrpl
<1>11. /\ \A x : At(whoBuffers, x) \subseteq At(whoBuffers', x)
       /\ line \in At(whoBuffers', k)
       /\ \A x \in DOMAIN whoBuffers' : \A l \in whoBuffers'[x] :
            (l = line /\ x = k) \/ (x \in DOMAIN whoBuffers /\ l \in whoBuffers[x])
  <2>1. PICK f, g : f = whoBuffers /\ g = whoBuffers'
    OBVIOUS
  <2>2. g = Collect(f, k, line)
    BY <1>10, <2>1
  <2>3. /\ \A x : At(f, x) \subseteq At(g, x)
        /\ line \in At(g, k)
        /\ \A x \in DOMAIN g : \A l \in g[x] :
             (l = line /\ x = k) \/ (x \in DOMAIN f /\ l \in f[x])
    BY <2>2, Collects
  <2> QED
    BY <2>1, <2>3
<1>12. WhoKeeps(s.seen)
  BY <1>4 DEF Keeps
<1>13. ASSUME NEW i \in DOMAIN answers'["who"], NEW last, last = answers'["who"][i],
              last.batch = Untagged, last.command = "RPL_ENDOFWHO", last.sound,
              NEW part \in last.sent \cap t.seen
       PROVE  part \in At(whoBuffers', last.key) \/ part.request \in disputed
  <2>1. PICK j \in DOMAIN answers["who"] : last = answers["who"][j]
    BY <1>6, <1>13
  <2>2. CASE part \in s.seen
    <3>1. part \in At(whoBuffers, last.key) \/ part.request \in disputed
      BY <1>12, <1>13, <2>1, <2>2 DEF WhoKeeps
    <3> QED
      BY <1>11, <3>1
  <2>3. CASE part = line
    <3>1. EndsWho(j)
      BY <2>1 DEF IInv, Sending
    <3>2. /\ part.command = "RPL_WHOREPLY" => part.key = last.key
          /\ part.command = "RPL_WHOSPCRPL" => Known(part, last.key) \/ part.request \in disputed
      <4>1. 1 \in DOMAIN answers["who"] /\ answers["who"][1] = part
        BY <1>1, <1>4, <1>5, <2>3, Taken
      <4>2. OnWay(part)
        BY <4>1 DEF OnWay
      <4> QED
        BY <1>13, <2>1, <3>1, <4>2 DEF EndsWho, Found
    <3>3. part.request \in disputed \/ k = last.key
      BY <1>2, <1>4, <1>9, <2>3, <3>2 DEF Known
    <3> QED
      BY <1>11, <2>3, <3>3
  <2> QED
    BY <1>4, <2>2, <2>3
<1>14. ASSUME NEW target \in DOMAIN whoBuffers' \cap (Channel \cup Nick), NEW l \in whoBuffers'[target]
       PROVE  /\ l.connection = connections'
              /\ \/ /\ l.command = "RPL_WHOSPCRPL"
                    /\ (l.target = target /\ l \in t.seen) \/ Strays(target, l)
                 \/ l.command = "RPL_WHOREPLY" /\ l.key = target
                    /\ (l \in t.seen \/ l.target # l.key)
  <2>1. CASE target \in DOMAIN whoBuffers /\ l \in whoBuffers[target]
    BY <1>4, <1>6, <1>12, <2>1 DEF WhoKeeps
  <2>2. CASE l = line /\ target = k
    <3>1. CASE command = "RPL_WHOREPLY"
      BY <1>4, <1>6, <1>8, <1>9, <2>2, <3>1
    <3>2. CASE command = "RPL_WHOSPCRPL"
      <4>1. l.connection = connections' /\ l.command = "RPL_WHOSPCRPL" /\ l \in t.seen
        BY <1>4, <1>6, <1>8, <2>2, <3>2
      <4>2. target \notin Nat /\ DOMAIN tokenMap \subseteq Nat
        BY CollectorsAssumption DEF IInv, Basics
      <4>3. CASE server.token
        <5>1. /\ line.key \in Nat
              /\ line.key \notin DOMAIN tokenMap \/ Known(line, line.target) \/ line.request \in disputed
          BY <1>8, <3>2, <4>3 DEF Tokened
        <5>2. line.key \in DOMAIN tokenMap
          BY <1>9, <2>2, <4>2, <5>1
        <5>3. l.target = target \/ l.request \in disputed
          BY <1>9, <2>2, <3>2, <5>1, <5>2 DEF Known
        <5> QED
          BY <4>1, <5>3 DEF Strays
      <4>4. CASE ~server.token
        <5>1. line.key \in DOMAIN tokenMap => line.key \in Nat
          BY <4>2
        <5>2. line.key = target \/ line.key \in Nat
          BY <1>9, <2>2, <5>1
        <5> QED
          BY <2>2, <4>1, <4>4, <5>2 DEF Strays
      <4> QED
        BY <4>3, <4>4
    <3> QED
      BY <1>2, <3>1, <3>2
  <2> QED
    BY <1>11, <2>1, <2>2
<1>15. WhoKeeps(t.seen)'
  <2>1. \A target, l : Strays(target, l)' <=> Strays(target, l)
    BY <1>6, <1>7 DEF Strays
  <2> QED
    BY <1>7, <1>13, <1>14, <2>1 DEF WhoKeeps
<1>16. /\ t.open = OpenBatches("who")'
       /\ \A l \in t.seen : /\ l.connection = connections'
                            /\ l.request \in 1 .. requests'
                            /\ "who" # "who" => l.key = l.target
  BY <1>3, <1>4, <1>6, <1>7, SeenLines
<1>17. Keeps("who", t)'
  BY <1>15, <1>16 DEF Keeps
<1> QED
  BY <1>4, <1>17 DEF Keeping

LEMMA WhoEndRead ==
  ASSUME IInv, OnEndofwho
  PROVE  Keeping("who")' /\ RepliesAreExact' /\ Line("who").batch = Untagged
<1>1. "who" \in Kind /\ "who" \in Replying
  BY DEF Kind, Replying
<1>2. PICK last : last = Line("who")
  OBVIOUS
<1>3. PICK lines : lines = At(whoBuffers, last.key)
  OBVIOUS
<1>4. /\ Reads("who", "RPL_ENDOFWHO") /\ Takes("who")
      /\ event' = [last |-> Line("who"), lines |-> lines]
      /\ whoBuffers' = Without(whoBuffers, last.key)
      /\ UNCHANGED <<batches, disputed>>
  BY <1>2, <1>3 DEF OnEndofwho, Reports, Reads
<1>5. LastCommand("RPL_ENDOFWHO")
  BY LastCommands
<1>6. PICK s, t :
        /\ Keeps("who", s)
        /\ Leads("who", server'.liststart, answers'["who"], t, Between)
        /\ t.seen = {} /\ t.open = s.open
        /\ last.command = "RPL_ENDOFWHO" /\ last.batch = Untagged /\ last.sent = s.seen
        /\ \A other \in s.seen : other.target = last.key
  BY <1>1, <1>2, <1>4, <1>5, ReadsLast
<1>7. /\ UNCHANGED <<up, server, connections, requests>>
      /\ 1 \in DOMAIN answers["who"] /\ last = answers["who"][1]
  BY <1>1, <1>2, <1>4, Taken
<1>8. WhoKeeps(s.seen)
  BY <1>6 DEF Keeps
<1>9. last.key \in Channel \cup Nick
  BY <1>6, <1>7 DEF IInv, Sending, EndsWho
<1>10. WhoKeeps(t.seen)'
  <2>1. /\ DOMAIN whoBuffers' = DOMAIN whoBuffers \ {last.key}
        /\ \A x \in DOMAIN whoBuffers' : whoBuffers'[x] = whoBuffers[x]
    BY <1>4 DEF Without
  <2>2. ASSUME NEW target \in DOMAIN whoBuffers' \cap (Channel \cup Nick), NEW l \in whoBuffers'[target]
        PROVE  /\ l.connection = connections'
               /\ \/ l.command = "RPL_WHOSPCRPL" /\ Strays(target, l)
                  \/ l.command = "RPL_WHOREPLY" /\ l.key = target /\ l.target # l.key
    <3>1. target # last.key /\ target \in DOMAIN whoBuffers \cap (Channel \cup Nick) /\ l \in whoBuffers[target]
      BY <2>1, <2>2
    <3>2. /\ l.connection = connections
          /\ \/ /\ l.command = "RPL_WHOSPCRPL"
                /\ (l.target = target /\ l \in s.seen) \/ Strays(target, l)
             \/ l.command = "RPL_WHOREPLY" /\ l.key = target
                /\ (l \in s.seen \/ l.target # l.key)
      BY <1>8, <3>1 DEF WhoKeeps
    <3> QED
      BY <1>6, <1>7, <3>1, <3>2
  <2>3. \A target, l : Strays(target, l)' <=> Strays(target, l)
    BY <1>4, <1>7 DEF Strays
  <2> QED
    BY <1>6, <2>2, <2>3 DEF WhoKeeps
<1>11. t.open = OpenBatches("who")'
  BY <1>4, <1>6, <1>7, SeenLines
<1>12. Keeps("who", t)'
  BY <1>6, <1>10, <1>11 DEF Keeps
<1>13. last.sound => \A part \in last.sent : part \in lines \/ part.request \in disputed
  <2>1. last.sound => \A part \in last.sent \cap s.seen :
          part \in At(whoBuffers, last.key) \/ part.request \in disputed
    BY <1>6, <1>7, <1>8 DEF WhoKeeps
  <2> QED
    BY <1>3, <1>6, <2>1
<1>14. ASSUME NEW l \in lines \ last.sent PROVE Foreign(last, l)
  <2>1. last.key \in DOMAIN whoBuffers /\ l \in whoBuffers[last.key]
    BY <1>3 DEF At
  <2>2. /\ l.connection = connections
        /\ \/ l.command = "RPL_WHOSPCRPL" /\ Strays(last.key, l)
           \/ l.command = "RPL_WHOREPLY" /\ l.key = last.key /\ l.target # l.key
    BY <1>6, <1>8, <1>9, <1>14, <2>1 DEF WhoKeeps
  <2> QED
    BY <1>6, <2>2 DEF Foreign, Mistaken, Strays
<1>15. RepliesAreExact'
  BY <1>2, <1>4, <1>7, <1>13, <1>14, Reported
<1> QED
  BY <1>2, <1>6, <1>12, <1>15 DEF Keeping

(* The listeners of who.ts preserve the invariant.                         *)
LEMMA WhoSteps ==
  ASSUME IInv, OnWhoreply \/ OnWhospcrpl \/ OnEndofwho
  PROVE  IInv'
<1>1. /\ UNCHANGED <<whoisBuffers, plainVars, namesVars, batches, tokenCounter, disputed>>
      /\ Takes("who")
  BY DEF OnWhoreply, OnWhospcrpl, OnEndofwho, Reads
<1>2. "who" \in Kind /\ "who" \in Replying
  BY DEF Kind, Replying
<1>3. \A other \in Kind : other # "who" => answers'[other] = answers[other]
  BY <1>1, <1>2, Taken
<1>4. \A k \in Replying : k # "who" => Same(k)
  BY <1>1, <1>3 DEF Same, OpenBatches, plainVars, namesVars, Replying
<1>5. UserhostsFollowNames'
  BY <1>1 DEF UserhostsFollowNames, namesVars, IInv
<1>6. DOMAIN batches' \subseteq UNION {Refs(k) : k \in Replying}
  BY <1>1 DEF IInv, Basics
<1>7. Keeping("who")' /\ RepliesAreExact' /\ Tokens("who")
  <2>1. CASE OnWhoreply \/ OnWhospcrpl
    <3>1. event' = NoEvent /\ tokenMap' = tokenMap
      BY <2>1 DEF OnWhoreply, OnWhospcrpl, Silently
    <3> QED
      BY <1>1, <2>1, <3>1, WhoPartRead DEF RepliesAreExact, Tokens
  <2>2. CASE OnEndofwho
    <3>1. Keeping("who")' /\ RepliesAreExact' /\ Line("who").batch = Untagged
      BY <2>2, WhoEndRead
    <3>2. /\ Line("who").command = "RPL_ENDOFWHO"
          /\ tokenMap' = [t \in {t \in DOMAIN tokenMap : tokenMap[t] # Line("who").key} |-> tokenMap[t]]
      BY <2>2 DEF OnEndofwho, Reads
    <3> QED
      BY <1>1, <3>1, <3>2 DEF Tokens
  <2> QED
    BY <2>1, <2>2
<1> QED
  BY <1>1, <1>2, <1>4, <1>5, <1>6, <1>7, ReadStep

(* A line of a batch is read: only the open batches change.                *)
LEMMA BatchRead ==
  ASSUME IInv, NEW kind \in Replying, Takes(kind),
         UNCHANGED <<whoVars, whoisBuffers, plainVars, namesVars>>,
         NEW s, NEW t, Keeps(kind, s), t.seen = s.seen, t.begun = s.begun,
         t.open = OpenBatches(kind)',
         Leads(kind, server'.liststart, answers'[kind], t, Between)
  PROVE  Keeping(kind)'
<1>1. kind \in Kind
  BY DEF Replying
<1>2. /\ UNCHANGED <<up, server, connections, requests>>
      /\ \A i \in DOMAIN answers'[kind] : \E j \in DOMAIN answers[kind] :
           answers'[kind][i] = answers[kind][j]
  BY <1>1, Taken
<1>3. \A line \in t.seen : /\ line.connection = connections'
                           /\ line.request \in 1 .. requests'
                           /\ kind # "who" => line.key = line.target
  BY <1>2 DEF Keeps
<1>4. kind = "who" => WhoKeeps(t.seen)'
  <2> SUFFICES ASSUME kind = "who" PROVE WhoKeeps(t.seen)'
    OBVIOUS
  <2>1. WhoKeeps(s.seen) /\ whoBuffers' = whoBuffers
    BY DEF Keeps, whoVars
  <2>2. ASSUME NEW i \in DOMAIN answers'["who"], NEW line, line = answers'["who"][i],
               line.batch = Untagged, line.command = "RPL_ENDOFWHO", line.sound,
               NEW part \in line.sent \cap t.seen
        PROVE  part \in At(whoBuffers', line.key) \/ part.request \in disputed
    <3>1. PICK j \in DOMAIN answers["who"] : line = answers["who"][j]
      BY <1>2, <2>2
    <3> QED
      BY <2>1, <2>2, <3>1 DEF WhoKeeps
  <2>3. \A target \in DOMAIN whoBuffers' \cap (Channel \cup Nick) : \A line \in whoBuffers'[target] :
          /\ line.connection = connections'
          /\ \/ /\ line.command = "RPL_WHOSPCRPL"
                /\ (line.target = target /\ line \in t.seen) \/ Strays(target, line)
             \/ line.command = "RPL_WHOREPLY" /\ line.key = target
                /\ (line \in t.seen \/ line.target # line.key)
    BY <1>2, <2>1 DEF WhoKeeps
  <2>4. disputed' = disputed /\ \A target, line : Strays(target, line)' <=> Strays(target, line)
    BY <1>2 DEF Strays, whoVars
  <2> QED
    BY <2>2, <2>3, <2>4 DEF WhoKeeps
<1>5. kind = "whois" => WhoisKeeps(t.seen)'
  BY <1>2 DEF Keeps, WhoisKeeps, At, Older
<1>6. kind = "list" => ListKeeps(t)'
  BY <1>2 DEF Keeps, ListKeeps, Older, plainVars
<1>7. kind = "motd" => MotdKeeps(t)'
  BY DEF Keeps, MotdKeeps, plainVars
<1>8. kind = "monitor" => MonitorKeeps(t.seen)'
  BY DEF Keeps, MonitorKeeps, plainVars
<1>9. kind = "names" => NamesKeep(t.seen)'
  BY <1>2 DEF Keeps, NamesKeep, At, Older, namesVars
<1>10. Keeps(kind, t)'
  BY <1>3, <1>4, <1>5, <1>6, <1>7, <1>8, <1>9 DEF Keeps
<1> QED
  BY <1>10 DEF Keeping

(* batch.ts preserves the invariant: a batch opened, a line collected, a   *)
(* batch closed and reported.                                              *)
LEMMA BatchSteps ==
  ASSUME IInv, NEW kind \in Kind, CollectsInBatch(kind) \/ OnBatch(kind)
  PROVE  IInv'
<1>0. disputed' = disputed
  BY DEF CollectsInBatch, OnBatch, whoVars
<1>1. /\ UNCHANGED <<whoVars, whoisBuffers, plainVars, namesVars>>
      /\ Takes(kind)
      /\ Line(kind).command = "BATCH" \/ Hidden(Line(kind))
  BY DEF CollectsInBatch, OnBatch, Reads
<1>2. DOMAIN batches \subseteq UNION {Refs(k) : k \in Replying}
  BY DEF IInv, Basics
<1>3. kind \in Replying
  <2> SUFFICES ASSUME kind = "away" PROVE FALSE
    BY DEF Replying
  <2>1. 1 \in DOMAIN answers["away"] /\ Line("away") = answers["away"][1]
    BY <1>1, Taken
  <2>2. Line("away").command = "RPL_WHOIS" /\ Line("away").batch = Untagged
    BY <2>1 DEF IInv, Sending, SendsAway
  <2>3. Untagged \in DOMAIN batches
    BY <1>1, <2>2 DEF Hidden
  <2>4. \A k : Untagged \notin Refs(k)
    BY RefsDiffer DEF Refs
  <2> QED
    BY <1>2, <2>3, <2>4
<1>4. /\ UNCHANGED <<up, server, connections, requests>>
      /\ \A other \in Kind : other # kind => answers'[other] = answers[other]
  BY <1>1, Taken
<1>5. Tokens(kind) /\ UserhostsFollowNames'
  BY <1>1 DEF Tokens, whoVars, UserhostsFollowNames, namesVars, IInv
<1>6. PICK s, line :
        /\ line = Line(kind) /\ Keeps(kind, s)
        /\ Due(kind, server.liststart, s, line)
        /\ Leads(kind, server'.liststart, answers'[kind], After(s, line), Between)
        /\ Hidden(line) <=> line.command # "BATCH" /\ line.batch # Untagged
  BY <1>1, <1>3, Reading
<1>7. s.open = [ref \in DOMAIN batches \cap Refs(kind) |-> batches[ref]]
  BY <1>6 DEF Keeps, OpenBatches
<1>8. DOMAIN s.open = DOMAIN batches \cap Refs(kind) /\ \A ref \in DOMAIN s.open : s.open[ref] = batches[ref]
  BY <1>7
<1>9. PICK ref, open :
        /\ ref \in Refs(kind)
        /\ After(s, line) = Progress(s.seen, s.begun, open)
        /\ open = [r \in DOMAIN batches' \cap Refs(kind) |-> batches'[r]]
        /\ DOMAIN batches' \subseteq DOMAIN batches \cup {ref}
        /\ DOMAIN batches \subseteq DOMAIN batches' \cup {ref}
        /\ \A r \in DOMAIN batches : r # ref => batches'[r] = batches[r]
        /\ RepliesAreExact'
  <2>1. CASE CollectsInBatch(kind)
    <3>1. /\ line.command # "BATCH" /\ line.batch # Untagged /\ event' = NoEvent
          /\ batches' = [batches EXCEPT ![line.batch] = @ \cup {line}]
      BY <1>6, <2>1 DEF CollectsInBatch, Silently
    <3>2. line.batch \in DOMAIN s.open
      BY <1>6, <3>1 DEF Due
    <3>3. PICK open : open = With(s.open, line.batch, s.open[line.batch] \cup {line})
      OBVIOUS
    <3>4. After(s, line) = Progress(s.seen, s.begun, open)
      BY <3>1, <3>3 DEF After
    <3>5. /\ DOMAIN batches' = DOMAIN batches
          /\ \A r \in DOMAIN batches : batches'[r] = IF r = line.batch THEN batches[r] \cup {line} ELSE batches[r]
      BY <3>1
    <3>6. open = [r \in DOMAIN batches \cap Refs(kind) |->
                    IF r = line.batch THEN s.open[line.batch] \cup {line} ELSE s.open[r]]
      <4>1. DOMAIN s.open \cup {line.batch} = DOMAIN batches \cap Refs(kind)
        BY <1>8, <3>2
      <4> QED
        BY <3>3, <4>1 DEF With
    <3>7. \A r \in DOMAIN batches \cap Refs(kind) :
            batches'[r] = IF r = line.batch THEN s.open[line.batch] \cup {line} ELSE s.open[r]
      BY <1>8, <3>2, <3>5
    <3>8. open = [r \in DOMAIN batches' \cap Refs(kind) |-> batches'[r]]
      BY <3>5, <3>6, <3>7
    <3>9. line.batch \in Refs(kind) /\ RepliesAreExact'
      BY <1>8, <3>1, <3>2 DEF RepliesAreExact
    <3> QED
      BY <3>4, <3>5, <3>8, <3>9
  <2>2. CASE OnBatch(kind) /\ line.sign = "+"
    <3>1. /\ line.command = "BATCH" /\ event' = NoEvent
          /\ batches' = With(batches, line.key, {})
      BY <1>6, <2>2 DEF OnBatch, Silently, Reads
    <3>2. line.key \in Refs(kind)
      BY <1>6, <3>1 DEF Due
    <3>3. PICK open : open = With(s.open, line.key, {})
      OBVIOUS
    <3>4. After(s, line) = Progress(s.seen, s.begun, open)
      BY <2>2, <3>1, <3>3 DEF After
    <3>5. /\ DOMAIN batches' = DOMAIN batches \cup {line.key}
          /\ \A r \in DOMAIN batches' : batches'[r] = IF r = line.key THEN {} ELSE batches[r]
      BY <3>1 DEF With
    <3>6. open = [r \in DOMAIN batches' \cap Refs(kind) |-> IF r = line.key THEN {} ELSE s.open[r]]
      <4>1. DOMAIN s.open \cup {line.key} = DOMAIN batches' \cap Refs(kind)
        BY <1>8, <3>2, <3>5
      <4> QED
        BY <3>3, <4>1 DEF With
    <3>7. \A r \in DOMAIN batches' \cap Refs(kind) : batches'[r] = IF r = line.key THEN {} ELSE s.open[r]
      BY <1>8, <3>5
    <3>8. open = [r \in DOMAIN batches' \cap Refs(kind) |-> batches'[r]]
      BY <3>6, <3>7
    <3>9. RepliesAreExact'
      BY <3>1 DEF RepliesAreExact
    <3> QED
      BY <3>2, <3>4, <3>5, <3>8, <3>9
  <2>3. CASE OnBatch(kind) /\ line.sign # "+"
    <3>1. /\ line.command = "BATCH"
          /\ batches' = Without(batches, line.key)
          /\ IF line.key \in DOMAIN batches THEN event' = [last |-> line, lines |-> batches[line.key]]
             ELSE event' = NoEvent
      BY <1>6, <2>3 DEF OnBatch, Silently, Reports, Reads
    <3>2. line.key \in Refs(kind) /\ line.key \in DOMAIN s.open /\ line.sent = s.open[line.key]
      BY <1>6, <2>3, <3>1 DEF Due
    <3>3. PICK open : open = Without(s.open, line.key)
      OBVIOUS
    <3>4. After(s, line) = Progress(s.seen, s.begun, open)
      BY <2>3, <3>1, <3>3 DEF After
    <3>5. /\ DOMAIN batches' = DOMAIN batches \ {line.key}
          /\ \A r \in DOMAIN batches' : batches'[r] = batches[r]
      BY <3>1 DEF Without
    <3>6. open = [r \in DOMAIN batches' \cap Refs(kind) |-> s.open[r]]
      <4>1. DOMAIN s.open \ {line.key} = DOMAIN batches' \cap Refs(kind)
        BY <1>8, <3>2, <3>5
      <4> QED
        BY <3>3, <4>1 DEF Without
    <3>7. \A r \in DOMAIN batches' \cap Refs(kind) : batches'[r] = s.open[r]
      BY <1>8, <3>5
    <3>8. open = [r \in DOMAIN batches' \cap Refs(kind) |-> batches'[r]]
      BY <3>6, <3>7
    <3>9. RepliesAreExact'
      <4>1. PICK lines : lines = batches[line.key]
        OBVIOUS
      <4>2. line.key \in DOMAIN batches /\ lines = line.sent
        BY <1>8, <3>2, <4>1
      <4>3. event' = [last |-> line, lines |-> lines]
        BY <3>1, <4>1, <4>2
      <4> QED
        BY <1>0, <1>4, <4>2, <4>3, Reported
    <3> QED
      BY <3>2, <3>4, <3>5, <3>8, <3>9
  <2> QED
    BY <2>1, <2>2, <2>3
<1>10. PICK t : t = Progress(s.seen, s.begun, open)
  OBVIOUS
<1>11. t.seen = s.seen /\ t.begun = s.begun /\ t.open = OpenBatches(kind)'
  BY <1>9, <1>10 DEF Progress, OpenBatches
<1>12. Keeping(kind)'
  BY <1>1, <1>3, <1>6, <1>9, <1>10, <1>11, BatchRead
<1>13. ASSUME NEW k \in Replying, k # kind PROVE Same(k)
  <2>1. ref \notin Refs(k)
    BY <1>9, <1>13, RefsDiffer DEF Refs
  <2>2. DOMAIN batches' \cap Refs(k) = DOMAIN batches \cap Refs(k)
    BY <1>9, <2>1
  <2>3. OpenBatches(k)' = OpenBatches(k)
    BY <1>9, <2>1, <2>2 DEF OpenBatches
  <2> QED
    BY <1>1, <1>4, <1>13, <2>3 DEF Same, whoVars, plainVars, namesVars, Replying
<1>14. DOMAIN batches' \subseteq UNION {Refs(k) : k \in Replying}
  BY <1>2, <1>3, <1>9
<1> QED
  BY <1>1, <1>5, <1>9, <1>12, <1>13, <1>14, ReadStep

-----------------------------------------------------------------------------
(* The invariant holds at first.                                           *)
LEMMA Initially == Init => IInv
<1> SUFFICES ASSUME Init PROVE IInv
  OBVIOUS
<1>1. DOMAIN Nothing = {}
  BY DEF Nothing
<1>2. Basics
  BY <1>1 DEF Init, Basics
<1>3. Listed(<<>>) /\ DOMAIN <<>> = {}
  <2>1. <<>> \in Seq({})
    OBVIOUS
  <2> QED
    BY <2>1 DEF Listed
<1>4. Sending
  BY <1>3 DEF Init, Sending, Replying, Kind
<1>5. ASSUME NEW kind \in Replying PROVE Keeping(kind)
  <2>1. PICK begun : begun = FALSE
    OBVIOUS
  <2>2. PICK s : s = Progress({}, begun, Nothing)
    OBVIOUS
  <2>3. s = Between /\ s.seen = {} /\ ~s.begun /\ s.open = Nothing
    BY <2>1, <2>2 DEF Between, Progress
  <2>4. Leads(kind, server.liststart, answers[kind], s, Between)
    BY <2>3, LeadsNone DEF Init, Replying
  <2>5. OpenBatches(kind) = Nothing
    BY <1>1 DEF Init, OpenBatches, Nothing
  <2>6. WhoKeeps(s.seen)
    BY <1>1, <2>3 DEF WhoKeeps, Init
  <2>7. WhoisKeeps(s.seen)
    BY <1>1, <2>3 DEF WhoisKeeps, Init
  <2>8. ListKeeps(s) /\ MotdKeeps(s) /\ MonitorKeeps(s.seen)
    BY <2>3 DEF ListKeeps, MotdKeeps, MonitorKeeps, Init
  <2>9. NamesKeep(s.seen)
    <3>1. userhostBuffers = [c \in {line.key : line \in s.seen} |->
                               IF server.masks THEN {line \in s.seen : line.key = c} ELSE {}]
      <4>1. {line.key : line \in s.seen} = {}
        BY <2>3
      <4> QED
        BY <4>1 DEF Init, Nothing
    <3> QED
      BY <1>1, <2>3, <3>1 DEF NamesKeep, Init
  <2>10. Keeps(kind, s)
    BY <2>3, <2>5, <2>6, <2>7, <2>8, <2>9 DEF Keeps
  <2> QED
    BY <2>4, <2>10 DEF Keeping
<1>6. RepliesAreExact /\ UserhostsFollowNames
  BY DEF Init, RepliesAreExact, UserhostsFollowNames
<1> QED
  BY <1>2, <1>4, <1>5, <1>6 DEF IInv

(* It is about the variables only.                                         *)
LEMMA Stutters == IInv /\ UNCHANGED vars => IInv'
<1> SUFFICES ASSUME IInv, UNCHANGED vars PROVE IInv'
  OBVIOUS
<1>1. UNCHANGED <<up, server, connections, requests, answers, whoBuffers, tokenMap, tokenCounter, disputed,
                  whoisBuffers, listBuffer, motd, monitorBuffer, namesBuffers, userhostBuffers,
                  userhosts, listed, batches, event>>
  BY DEF vars, serverVars, whoVars, plainVars, namesVars
<1>2. Basics /\ Sending /\ requests \in Nat
  BY DEF IInv, Basics
<1>3. Basics' /\ Sending'
  <2>1. Basics'
    BY <1>1, <1>2 DEF Basics
  <2>2. \A k, line : Sends(k, line) => Sends(k, line)'
    BY <1>1 DEF Sends, Tokened, Known
  <2>3. \A line : SendsAway(line) => SendsAway(line)'
    BY <1>1 DEF SendsAway
  <2>4. \A i : EndsWho(i) => EndsWho(i)'
    <3>1. \A part, target : Found(part, target)' <=> Found(part, target)
      BY <1>1 DEF Found, Known, OnWay
    <3> QED
      BY <1>1, <3>1 DEF EndsWho
  <2>5. \A k \in Kind : Listed(answers'[k])
    BY <1>1, <1>2 DEF Sending
  <2>6. ASSUME NEW k \in Replying, NEW i \in DOMAIN answers'[k], NEW line, line = answers'[k][i]
        PROVE  Sends(k, line)'
    BY <1>1, <1>2, <2>2, <2>6 DEF Sending
  <2>7. ASSUME NEW i \in DOMAIN answers'["away"], NEW line, line = answers'["away"][i]
        PROVE  SendsAway(line)'
    BY <1>1, <1>2, <2>3, <2>7 DEF Sending
  <2>8. \A i \in DOMAIN answers'["who"] : EndsWho(i)'
    BY <1>1, <1>2, <2>4 DEF Sending
  <2> QED
    BY <2>1, <2>5, <2>6, <2>7, <2>8 DEF Sending
<1>4. ASSUME NEW k \in Replying PROVE Keeping(k)'
  <2>1. Same(k)
    BY <1>1 DEF Same, OpenBatches
  <2>2. Keeping(k) /\ requests' \in Nat /\ requests' >= requests
    BY <1>1, <1>2 DEF IInv
  <2> QED
    BY <1>1, <1>2, <2>1, <2>2, Untouched
<1>5. RepliesAreExact'
  BY <1>1 DEF IInv, RepliesAreExact, Foreign, Mistaken
<1>6. UserhostsFollowNames'
  BY <1>1 DEF IInv, UserhostsFollowNames
<1> QED
  BY <1>3, <1>4, <1>5, <1>6 DEF IInv

(* Every step preserves the invariant.                                     *)
LEMMA Inductive == IInv /\ [Next]_vars => IInv'
<1> SUFFICES ASSUME IInv, [Next]_vars PROVE IInv'
  OBVIOUS
<1>1. ASSUME NEW s \in Server, Connects(s) PROVE IInv'
  BY <1>1, Connecting
<1>2. CASE Disconnected
  BY <1>2, Disconnecting
<1>3. CASE Application
  BY <1>3, AskWhoSteps, AskSteps DEF Application
<1>4. ASSUME NEW target \in Channel, NEW given \in {Drawn} \cup Token, AskWhoxUnsent(target, given)
      PROVE  IInv'
  BY <1>4, Unsent
<1>5. ASSUME NEW nick \in Nick, WritesToAway(nick) PROVE IInv'
  BY <1>5, WritesAway
<1>6. CASE Reader
  BY <1>6, BatchSteps, WhoSteps, WhoisSteps, ListSteps, MotdSteps, MonitorSteps, NamesSteps DEF Reader
<1>7. CASE UNCHANGED vars
  BY <1>7, Stutters
<1> QED
  BY <1>1, <1>2, <1>3, <1>4, <1>5, <1>6, <1>7 DEF Next

(* So it holds always.                                                     *)
LEMMA Invariant == Spec => []IInv
<1> QED
  BY Initially, Inductive, PTL DEF Spec

(* A reply is reported with all of its lines and no others, when its last  *)
(* line is read, but for what `sound`, `disputed` and Foreign leave out:   *)
(* the plugins of who, whois, list, motd, monitor and names, and batch.ts. *)
THEOREM ExactReplies == Spec => []RepliesAreExact
<1>1. IInv => RepliesAreExact
  BY DEF IInv
<1> QED
  BY <1>1, Invariant, PTL

(* state.userhosts follows what NAMES listed on this connection.           *)
THEOREM UserhostsFollow == Spec => []UserhostsFollowNames
<1>1. IInv => UserhostsFollowNames
  BY DEF IInv
<1> QED
  BY <1>1, Invariant, PTL
=============================================================================
