--------------------------- MODULE ChannelsProofs ---------------------------
(***************************************************************************)
(* What holds of Channels for any finite set of nicks, any channels, modes *)
(* and prefixes of the servers, and any number of connections and events.  *)
(***************************************************************************)
EXTENDS Channels, Induction

(* The arrays of prefixes that a server with these ranks gives the modes   *)
(* of a nick, of all the nicks of a channel, and the list made of them.    *)
Array(ranks, modes) ==
  {<<i, Symbol(ranks[i])>> : i \in {j \in DOMAIN ranks : ranks[j] \in modes}}
Arrays(ranks, names) == [n \in DOMAIN names |-> Array(ranks, names[n])]
ListOf(ranks, names) ==
  {entry \in {[nick |-> n, prefix |-> Highest(names[n])] : n \in DOMAIN names} :
     entry.prefix \in Elements(Symbols(ranks)) \cup {""}}

(* The modes and prefixes of the server have been learnt.                  *)
LearntMode(l) ==
  /\ l \in DOMAIN chanmodes
  /\ chanmodes[l].type = server.types[l]
  /\ chanmodes[l].prefix = IF l \in Elements(server.ranks) THEN Symbol(l) ELSE ""
Learnt == /\ prefixes = Symbols(server.ranks)
          /\ \A l \in DOMAIN server.types : LearntMode(l)

(* The lines of the registration that are left, and what is known then.    *)
Unnamed(l) == chanmodes[l].type = server.types[l] /\ chanmodes[l].prefix = ""
Ranked(l) == chanmodes[l].type = "b" /\ chanmodes[l].prefix = Symbol(l)
Learning ==
  /\ known = {}
  /\ \/ /\ \/ lines = <<Welcome(me), Myinfo(server), Chanmodes(server), Prefix(server)>>
           \/ lines = <<Welcome(me), Myinfo(server), Prefix(server), Chanmodes(server)>>
     \/ /\ nick = me
        /\ \/ lines = <<Myinfo(server), Chanmodes(server), Prefix(server)>>
           \/ lines = <<Myinfo(server), Prefix(server), Chanmodes(server)>>
     \/ /\ nick = me
        /\ DOMAIN chanmodes = DOMAIN server.types
        /\ \/ lines = <<Chanmodes(server), Prefix(server)>>
           \/ lines = <<Prefix(server), Chanmodes(server)>>
           \/ /\ lines = <<Prefix(server)>>
              /\ \A l \in DOMAIN server.types \ Elements(server.ranks) : Unnamed(l)
           \/ /\ lines = <<Chanmodes(server)>>
              /\ prefixes = Symbols(server.ranks)
              /\ \A l \in Elements(server.ranks) : Ranked(l)

(* The names of a channel that counts are kept, listed, and will be those  *)
(* of the server when they have become `names`.                            *)
Counts(c) == c \in known /\ Inside(c)
Kept(c) == /\ c \in DOMAIN namesMap /\ c \in DOMAIN nicklists
           /\ nicklists[c] = ListOf(server.ranks, namesMap[c])
Becomes(c, names) == Counts(c) => Kept(c) /\ names = Arrays(server.ranks, members[c])

Renaming(names, n, new) ==
  IF n \in DOMAIN names THEN Without(With(names, new, names[n]), n) ELSE names
Ranking(names, n, flag) ==
  LET i == CHOOSE i \in DOMAIN server.ranks : server.ranks[i] = flag.letter
  IN  With(names, n, Put(At(names, n, {}), i, IF flag.sign = "+" THEN Symbol(flag.letter) ELSE ""))

(* The lines that are on their way, by what has happened on the server.    *)
Idle == /\ nick = me /\ lines = <<>>
        /\ \A k \in Channel : Becomes(k, namesMap[k])

Joined(n, c) == /\ nick = me /\ n # me
                /\ lines = <<Join(n, c)>>
                /\ \A k \in Channel :
                     Becomes(k, IF k = c THEN With(namesMap[k], n, {}) ELSE namesMap[k])

Left(command, n, c) ==
  /\ nick = me
  /\ lines = <<Removal(command, n, c)>> /\ command \in {"PART", "KICK"}
  /\ n = me => ~Inside(c)
  /\ \A k \in Channel : Becomes(k, IF k = c THEN Without(namesMap[k], n) ELSE namesMap[k])

Quitted(n) == /\ nick = me /\ n # me
              /\ lines = <<QuitLine(n, "none")>>
              /\ \A k \in Channel : Becomes(k, Without(namesMap[k], n))

Renamed(n, new) == /\ IF n = nick THEN new = me ELSE nick = me
                   /\ lines = <<NickLine(n, new)>>
                   /\ \A k \in Channel : Becomes(k, Renaming(namesMap[k], n, new))

ModeSet(c, before, flag, n) ==
  /\ nick = me
  /\ flag \in Flags(Elements(server.ranks))
  /\ before \in {<<>>} \cup {<<f>> : f \in OtherFlags}
  /\ lines = <<ModeLine(c, Append(before, flag),
                        IF before # <<>> /\ TakesArg(Head(before)) THEN <<"argument", n>>
                        ELSE <<n>>)>>
  /\ \A k \in Channel : Becomes(k, IF k = c THEN Ranking(namesMap[k], n, flag) ELSE namesMap[k])

(* A netsplit, whose lines change nothing.                                 *)
SplitLine == {BatchLine("+"), BatchLine("-")} \cup {QuitLine(n, "split") : n \in Nick}
Split == /\ nick = me
         /\ lines \in Seq(SplitLine)
         /\ \A i \in DOMAIN lines : lines[i] = BatchLine("-") => i = Len(lines)
         /\ lines # <<>> /\ Head(lines).command = "QUIT" => "split" \in DOMAIN batches
         /\ \A k \in Channel : Becomes(k, namesMap[k])

(* The names of c that are still to be read, and those in the buffer.      *)
Part(c, names, ns) == Namreply(c, [n \in ns |-> names[n]])
Lists(c, names, ls, rest) ==
  \E a, b \in SUBSET Nick :
    /\ a \cap b = {} /\ rest = a \cup b
    /\ \/ ls = <<Part(c, names, a), Part(c, names, b), EndOfNames(c)>>
       \/ ls = <<Part(c, names, b), EndOfNames(c)>> /\ a = {}
       \/ ls = <<EndOfNames(c)>> /\ a = {} /\ b = {}
Read(c, rest) == [n \in DOMAIN members[c] \ rest |-> Array(server.ranks, members[c][n])]

Entering(c) == /\ nick = me
               /\ lines # <<>> /\ Head(lines) = Join(me, c)
               /\ Lists(c, members[c], Tail(lines), DOMAIN members[c])
               /\ \A k \in Channel \ {c} : Becomes(k, namesMap[k])
Collecting(c) ==
  /\ nick = me
  /\ \E rest \in SUBSET Nick :
       /\ rest \subseteq DOMAIN members[c]
       /\ Lists(c, members[c], lines, rest)
       /\ c \notin carried => At(buffers, c, NoNames) = Read(c, rest)
  /\ \A k \in Channel : Becomes(k, namesMap[k])

Reading ==
  \/ Idle
  \/ \E n \in Nick, c \in Channel : Joined(n, c)
  \/ \E command \in {"PART", "KICK"}, n \in Nick, c \in Channel : Left(command, n, c)
  \/ \E n \in Nick : Quitted(n)
  \/ \E n, new \in Nick : Renamed(n, new)
  \/ \E c \in Channel, flag \in Flags(Elements(server.ranks)),
        before \in {<<>>} \cup {<<f>> : f \in OtherFlags}, n \in Nick : ModeSet(c, before, flag, n)
  \/ Split
  \/ \E c \in Channel : Entering(c)

(* The membership is one of the nicks in use, with modes of the server.    *)
Membership(names) == /\ DOMAIN names \subseteq online
                     /\ \A n \in DOMAIN names : names[n] \subseteq Elements(server.ranks)
WorldOK == /\ session \in {"none", "up", "over"}
           /\ server \in Profile /\ me \in Nick /\ online \in SUBSET Nick
           /\ DOMAIN members = Channel /\ \A c \in Channel : Membership(members[c])
           /\ session = "up" => me \in online
           /\ known \in SUBSET Channel
           /\ DOMAIN batches \subseteq {"split"}
           /\ session = "none" => lines = <<>> /\ known = {}
           /\ session = "over" => lines = <<>> \/ lines = <<KillLine(me)>>

NoneOpen == DOMAIN buffers \subseteq carried
Inv == /\ WorldOK
       /\ session # "up" => NoneOpen
       /\ session = "up" =>
            \/ Learning /\ NoneOpen
            \/ Learnt /\ Reading /\ NoneOpen
            \/ \E c \in Channel : Learnt /\ Collecting(c) /\ DOMAIN buffers \subseteq carried \cup {c}

-----------------------------------------------------------------------------
(* The symbols of the modes, and the modes of a server.                    *)
LEMMA SymbolsDiffer ==
  /\ \A l \in Rank : Symbol(l) # ""
  /\ \A l, m \in Rank : Symbol(l) = Symbol(m) => l = m
<1>1. Symbol("q") = "~" /\ Symbol("o") = "@" /\ Symbol("h") = "%" /\ Symbol("v") = "+"
  BY DEF Symbol
<1> QED
  BY <1>1 DEF Rank

LEMMA RanksOfProfile ==
  ASSUME NEW p \in Profile
  PROVE  /\ p.ranks \in Seq(Rank)
         /\ \A i, j \in DOMAIN p.ranks : p.ranks[i] = p.ranks[j] => i = j
         /\ Elements(p.ranks) \subseteq Rank \cap DOMAIN p.types
         /\ "o" \in Elements(p.ranks)
         /\ \A l \in Elements(p.ranks) : p.types[l] = "b"
  BY ChannelsAssumption DEF IsInjective, Elements

(* A prefix of the server has the priority of its mode.                    *)
LEMMA PriorityIs ==
  ASSUME server \in Profile, prefixes = Symbols(server.ranks),
         NEW i \in DOMAIN server.ranks
  PROVE  Priority(Symbol(server.ranks[i])) = i
<1> DEFINE r == server.ranks
<1>1. /\ r \in Seq(Rank)
      /\ \A j, k \in DOMAIN r : r[j] = r[k] => j = k
  BY RanksOfProfile
<1>2. DOMAIN prefixes = DOMAIN r /\ \A j \in DOMAIN r : prefixes[j] = Symbol(r[j])
  BY DEF Symbols
<1>3. \A j \in DOMAIN r : prefixes[j] = Symbol(r[i]) <=> j = i
  <2> TAKE j \in DOMAIN r
  <2>1. r[i] \in Rank /\ r[j] \in Rank
    BY <1>1
  <2> QED
    BY <1>1, <1>2, <2>1, SymbolsDiffer
<1> QED
  BY <1>2, <1>3 DEF Priority

-----------------------------------------------------------------------------
(* What the arrays of the names become when the names change.              *)
LEMMA ArraysWith ==
  ASSUME NEW r, NEW names, NEW n, NEW modes
  PROVE  /\ Arrays(r, With(names, n, modes)) = With(Arrays(r, names), n, Array(r, modes))
         /\ Array(r, {}) = {}
  BY DEF Arrays, With, Array

LEMMA ArraysWithout ==
  ASSUME NEW r, NEW names, NEW n
  PROVE  /\ Arrays(r, Without(names, n)) = Without(Arrays(r, names), n)
         /\ n \notin DOMAIN names => Arrays(r, Without(names, n)) = Arrays(r, names)
  BY DEF Arrays, Without

LEMMA ArraysRenamed ==
  ASSUME NEW r, NEW names, NEW n, NEW new
  PROVE  Arrays(r, Renaming(names, n, new)) = Renaming(Arrays(r, names), n, new)
<1>1. DOMAIN Arrays(r, names) = DOMAIN names
  BY DEF Arrays
<1>2. CASE n \notin DOMAIN names
  BY <1>1, <1>2 DEF Renaming
<1>3. CASE n \in DOMAIN names
  <2>1. Arrays(r, names)[n] = Array(r, names[n])
    BY <1>3 DEF Arrays
  <2>2. Arrays(r, Without(With(names, new, names[n]), n))
          = Without(With(Arrays(r, names), new, Array(r, names[n])), n)
    BY ArraysWith, ArraysWithout
  <2> QED
    BY <1>1, <1>3, <2>1, <2>2 DEF Renaming
<1> QED
  BY <1>2, <1>3

LEMMA ArrayPut ==
  ASSUME NEW p \in Profile, NEW i \in DOMAIN p.ranks, NEW modes
  PROVE  /\ Array(p.ranks, modes \cup {p.ranks[i]}) = Put(Array(p.ranks, modes), i, Symbol(p.ranks[i]))
         /\ Array(p.ranks, modes \ {p.ranks[i]}) = Put(Array(p.ranks, modes), i, "")
<1>1. \A j \in DOMAIN p.ranks : p.ranks[j] = p.ranks[i] => j = i
  BY RanksOfProfile
<1>2. Symbol(p.ranks[i]) # ""
  <2>1. p.ranks[i] \in Rank
    BY RanksOfProfile
  <2> QED
    BY <2>1, SymbolsDiffer
<1>3. Array(p.ranks, modes) =
        {<<j, Symbol(p.ranks[j])>> : j \in {k \in DOMAIN p.ranks : p.ranks[k] \in modes}}
  BY DEF Array
<1>4. Array(p.ranks, modes \cup {p.ranks[i]}) = Put(Array(p.ranks, modes), i, Symbol(p.ranks[i]))
  <2>1. {k \in DOMAIN p.ranks : p.ranks[k] \in modes \cup {p.ranks[i]}}
          = {k \in DOMAIN p.ranks : p.ranks[k] \in modes} \cup {i}
    BY <1>1
  <2>2. Array(p.ranks, modes \cup {p.ranks[i]}) = Array(p.ranks, modes) \cup {<<i, Symbol(p.ranks[i])>>}
    BY <2>1 DEF Array
  <2>3. \A pair \in Array(p.ranks, modes) : pair[1] = i => pair = <<i, Symbol(p.ranks[i])>>
    BY <1>3
  <2>4. Put(Array(p.ranks, modes), i, Symbol(p.ranks[i]))
          = {pair \in Array(p.ranks, modes) : pair[1] # i} \cup {<<i, Symbol(p.ranks[i])>>}
    BY <1>2 DEF Put
  <2> QED
    BY <2>2, <2>3, <2>4
<1>5. Array(p.ranks, modes \ {p.ranks[i]}) = Put(Array(p.ranks, modes), i, "")
  <2>1. {k \in DOMAIN p.ranks : p.ranks[k] \in modes \ {p.ranks[i]}}
          = {k \in DOMAIN p.ranks : p.ranks[k] \in modes} \ {i}
    BY <1>1
  <2>2. Put(Array(p.ranks, modes), i, "") = {pair \in Array(p.ranks, modes) : pair[1] # i}
    BY DEF Put
  <2> DEFINE J == {k \in DOMAIN p.ranks : p.ranks[k] \in modes}
             P == {<<j, Symbol(p.ranks[j])>> : j \in J}
  <2>3. Array(p.ranks, modes \ {p.ranks[i]}) = {<<j, Symbol(p.ranks[j])>> : j \in J \ {i}}
    BY <2>1 DEF Array
  <2>4. {<<j, Symbol(p.ranks[j])>> : j \in J \ {i}} = {pair \in P : pair[1] # i}
    <3> HIDE DEF J
    <3> QED
      OBVIOUS
  <2> QED
    BY <1>3, <2>2, <2>3, <2>4
<1> QED
  BY <1>4, <1>5

LEMMA RankingSets ==
  ASSUME server \in Profile, NEW flag \in Flags(Elements(server.ranks)),
         NEW names, NEW n \in DOMAIN names
  PROVE  Ranking(Arrays(server.ranks, names), n, flag)
           = Arrays(server.ranks, [names EXCEPT ![n] = IF flag.sign = "+" THEN @ \cup {flag.letter}
                                                      ELSE @ \ {flag.letter}])
<1> DEFINE r == server.ranks
           i == CHOOSE j \in DOMAIN r : r[j] = flag.letter
           modes == IF flag.sign = "+" THEN names[n] \cup {flag.letter}
                    ELSE names[n] \ {flag.letter}
           prefix == IF flag.sign = "+" THEN Symbol(flag.letter) ELSE ""
<1>1. i \in DOMAIN r /\ r[i] = flag.letter
  BY DEF Flags, Elements
<1>2. Put(Array(r, names[n]), i, prefix) = Array(r, modes)
  <2> HIDE DEF i
  <2> QED
    BY <1>1, ArrayPut
<1>3. Ranking(Arrays(r, names), n, flag) = With(Arrays(r, names), n, Put(Array(r, names[n]), i, prefix))
  <2>1. n \in DOMAIN Arrays(r, names) /\ Arrays(r, names)[n] = Array(r, names[n])
    BY DEF Arrays
  <2>2. At(Arrays(r, names), n, {}) = Array(r, names[n])
    BY <2>1 DEF At
  <2> QED
    BY <2>2 DEF Ranking
<1>4. With(Arrays(r, names), n, Array(r, modes)) = Arrays(r, [names EXCEPT ![n] = modes])
  <2> HIDE DEF modes
  <2> QED
    BY DEF With, Arrays
<1> QED
  BY <1>2, <1>3, <1>4

(* The highest prefix of an array is that of the highest mode.             *)
LEMMA HighestIsTop ==
  ASSUME server \in Profile, NEW modes
  PROVE  /\ Highest(Array(server.ranks, modes)) = TopPrefix(modes)
         /\ TopPrefix(modes) \in Elements(Symbols(server.ranks)) \cup {""}
<1> DEFINE r == server.ranks
           held == {i \in DOMAIN r : r[i] \in modes}
           array == Array(r, modes)
           top == CHOOSE i \in held : \A j \in held : i <= j
<1>1. array = {<<i, Symbol(r[i])>> : i \in held}
  BY DEF Array
<1>2. CASE held = {}
  BY <1>1, <1>2 DEF Highest, TopPrefix
<1>3. CASE held # {}
  <2>1. held \subseteq DOMAIN r /\ DOMAIN r \subseteq Nat
    BY RanksOfProfile
  <2> HIDE DEF held, array
  <2>2. top \in held /\ \A j \in held : top <= j
    BY <1>3, <2>1, Least
  <2> DEFINE pair == <<top, Symbol(r[top])>>
  <2>3. pair \in array /\ \A other \in array : pair[1] <= other[1]
    <3> HIDE DEF top
    <3>1. pair \in array
      BY <1>1, <2>2
    <3>2. ASSUME NEW other \in array PROVE pair[1] <= other[1]
      <4>1. PICK i \in held : other = <<i, Symbol(r[i])>>
        BY <1>1
      <4> QED
        BY <2>2, <4>1
    <3> QED
      BY <3>1, <3>2
  <2>4. \A p \in array : (\A other \in array : p[1] <= other[1]) => p = pair
    <3> HIDE DEF top
    <3> TAKE p \in array
    <3>1. HAVE \A other \in array : p[1] <= other[1]
    <3>2. PICK i \in held : p = <<i, Symbol(r[i])>>
      BY <1>1
    <3>3. i <= top /\ top <= i
      BY <2>2, <2>3, <3>1, <3>2
    <3>4. i \in Nat /\ top \in Nat
      BY <2>1, <2>2
    <3> QED
      BY <3>2, <3>3, <3>4
  <2> HIDE DEF pair
  <2>5. (CHOOSE p \in array : \A other \in array : p[1] <= other[1]) = pair
    BY <2>3, <2>4
  <2>6. Highest(array) = pair[2]
    BY <2>3, <2>5 DEF Highest
  <2>7. TopPrefix(modes) = Symbol(r[top])
    BY <1>3 DEF TopPrefix, held
  <2>8. Symbol(r[top]) \in Elements(Symbols(r))
    <3>1. top \in DOMAIN r
      BY <2>1, <2>2
    <3> HIDE DEF top
    <3> QED
      BY <3>1 DEF Elements, Symbols
  <2> QED
    BY <2>6, <2>7, <2>8 DEF pair, array
<1> QED
  BY <1>2, <1>3

LEMMA ListIsMembership ==
  ASSUME server \in Profile, NEW names
  PROVE  ListOf(server.ranks, Arrays(server.ranks, names))
           = {[nick |-> n, prefix |-> TopPrefix(names[n])] : n \in DOMAIN names}
<1> DEFINE arrays == Arrays(server.ranks, names)
           symbols == Elements(Symbols(server.ranks)) \cup {""}
<1>1. DOMAIN arrays = DOMAIN names
  BY DEF Arrays
<1>2. \A n \in DOMAIN names : /\ Highest(arrays[n]) = TopPrefix(names[n])
                              /\ TopPrefix(names[n]) \in symbols
  BY HighestIsTop DEF Arrays
<1> HIDE DEF arrays, symbols
<1>3. {[nick |-> n, prefix |-> Highest(arrays[n])] : n \in DOMAIN arrays}
        = {[nick |-> n, prefix |-> TopPrefix(names[n])] : n \in DOMAIN names}
  BY <1>1, <1>2
<1>4. \A entry \in {[nick |-> n, prefix |-> TopPrefix(names[n])] : n \in DOMAIN names} :
        entry.prefix \in symbols
  BY <1>2
<1>5. ListOf(server.ranks, arrays)
        = {entry \in {[nick |-> n, prefix |-> Highest(arrays[n])] : n \in DOMAIN arrays} :
             entry.prefix \in symbols}
  BY DEF ListOf, symbols
<1> QED
  BY <1>3, <1>4, <1>5 DEF arrays

LEMMA CreateIsListOf ==
  ASSUME prefixes = Symbols(server.ranks), NEW names
  PROVE  CreateNicklist(names) = ListOf(server.ranks, names)
  BY DEF CreateNicklist, ListOf

-----------------------------------------------------------------------------
(* The folds over the one or two modes of a line.  The provers do not see  *)
(* what FoldLeft computes under a quantifier: these are its expansions.    *)
LEMMA UpToTwo ==
  /\ \A S \in SUBSET (1 .. 2) : S \in {{}, {1}, {2}, {1, 2}}
  /\ Max({1}) = 1 /\ Max({2}) = 2 /\ Max({1, 2}) = 2
<1>1. 1 .. 2 = {1, 2} /\ 2 \in Nat
  OBVIOUS
<1>2. {1} \in SUBSET (1 .. 2) /\ {2} \in SUBSET (1 .. 2) /\ {1, 2} \in SUBSET (1 .. 2)
  BY <1>1
<1>3. Max({1}) = 1
  BY <1>1, <1>2, GreatestIs
<1>4. Max({2}) = 2
  BY <1>1, <1>2, GreatestIs
<1>5. Max({1, 2}) = 2
  BY <1>1, <1>2, GreatestIs
<1>6. ASSUME NEW S \in SUBSET (1 .. 2) PROVE S \in {{}, {1}, {2}, {1, 2}}
  BY <1>1
<1> QED
  BY <1>3, <1>4, <1>5, <1>6

LEMMA Singles == \A x : DOMAIN <<x>> = 1 .. 1 /\ <<x>>[1] = x
  OBVIOUS

LEMMA Pairs == \A x, y : DOMAIN <<x, y>> = 1 .. 2 /\ <<x, y>>[1] = x /\ <<x, y>>[2] = y
  OBVIOUS

ParseFolded(base, s) ==
  (CHOOSE f : f = [S \in SUBSET DOMAIN s |->
                     IF S = {} THEN base ELSE Parse(f[S \ {Max(S)}], s[Max(S)])])[DOMAIN s]

LEMMA ParseFolds ==
  ASSUME NEW base, NEW s, DOMAIN s \in {1 .. 1, 1 .. 2}
  PROVE  /\ DOMAIN s = 1 .. 1 => ParseFolded(base, s) = Parse(base, s[1])
         /\ DOMAIN s = 1 .. 2 => ParseFolded(base, s) = Parse(Parse(base, s[1]), s[2])
<1> DEFINE Iterates(f) ==
             f = [S \in SUBSET DOMAIN s |->
                    IF S = {} THEN base ELSE Parse(f[S \ {Max(S)}], s[Max(S)])]
           c == CHOOSE f : Iterates(f)
           g == [S \in SUBSET DOMAIN s |->
                   IF S = {} THEN base ELSE IF S = {1} THEN Parse(base, s[1])
                   ELSE IF S = {2} THEN Parse(base, s[2]) ELSE Parse(Parse(base, s[1]), s[2])]
<1>1. ParseFolded(base, s) = c[DOMAIN s]
  BY DEF ParseFolded
<1>2. \A S \in SUBSET DOMAIN s : S \in {{}, {1}, {2}, {1, 2}}
  BY UpToTwo
<1>3. \A S \in SUBSET DOMAIN s :
        g[S] = IF S = {} THEN base ELSE Parse(g[S \ {Max(S)}], s[Max(S)])
  <2> TAKE S \in SUBSET DOMAIN s
  <2>1. CASE S = {}
    BY <2>1
  <2>2. CASE S = {1}
    <3>1. Max(S) = 1 /\ S \ {Max(S)} = {} /\ {} \in SUBSET DOMAIN s
      BY <2>2, UpToTwo
    <3> QED
      BY <2>2, <3>1
  <2>3. CASE S = {2}
    <3>1. Max(S) = 2 /\ S \ {Max(S)} = {} /\ {} \in SUBSET DOMAIN s
      BY <2>3, UpToTwo
    <3> QED
      BY <2>3, <3>1
  <2>4. CASE S = {1, 2}
    <3>1. Max(S) = 2 /\ S \ {Max(S)} = {1} /\ {1} \in SUBSET DOMAIN s
      BY <2>4, UpToTwo
    <3> QED
      BY <2>4, <3>1
  <2> QED
    BY <1>2, <2>1, <2>2, <2>3, <2>4
<1>4. Iterates(g)
  BY <1>3
<1> HIDE DEF g
<1>5. Iterates(c)
  BY <1>4, Zenon
<1> HIDE DEF c
<1>6. c[{}] = base
  BY <1>5
<1>7. c[{1}] = Parse(base, s[1])
  <2>1. {1} \in SUBSET DOMAIN s /\ {1} # {} /\ Max({1}) = 1 /\ {1} \ {1} = {}
    BY UpToTwo
  <2>2. c[{1}] = Parse(c[{1} \ {Max({1})}], s[Max({1})])
    BY <1>5, <2>1
  <2> QED
    BY <1>6, <2>1, <2>2
<1>8. DOMAIN s = 1 .. 2 => c[{1, 2}] = Parse(Parse(base, s[1]), s[2])
  <2>1. HAVE DOMAIN s = 1 .. 2
  <2>2. {1, 2} \in SUBSET DOMAIN s /\ {1, 2} # {} /\ Max({1, 2}) = 2 /\ {1, 2} \ {2} = {1}
    BY <2>1, UpToTwo
  <2>3. c[{1, 2}] = Parse(c[{1, 2} \ {Max({1, 2})}], s[Max({1, 2})])
    BY <1>5, <2>2
  <2> QED
    BY <1>7, <2>2, <2>3
<1>9. 1 .. 1 = {1} /\ 1 .. 2 = {1, 2}
  OBVIOUS
<1> QED
  BY <1>1, <1>7, <1>8, <1>9

SetFolded(base, s) ==
  (CHOOSE f : f = [S \in SUBSET DOMAIN s |->
                     IF S = {} THEN base ELSE SetPrefix(f[S \ {Max(S)}], s[Max(S)])])[DOMAIN s]

LEMMA SetPrefixFolds ==
  ASSUME NEW base, NEW s, DOMAIN s \in {1 .. 1, 1 .. 2}
  PROVE  /\ DOMAIN s = 1 .. 1 => SetFolded(base, s) = SetPrefix(base, s[1])
         /\ DOMAIN s = 1 .. 2 => SetFolded(base, s) = SetPrefix(SetPrefix(base, s[1]), s[2])
<1> DEFINE Iterates(f) ==
             f = [S \in SUBSET DOMAIN s |->
                    IF S = {} THEN base ELSE SetPrefix(f[S \ {Max(S)}], s[Max(S)])]
           c == CHOOSE f : Iterates(f)
           g == [S \in SUBSET DOMAIN s |->
                   IF S = {} THEN base ELSE IF S = {1} THEN SetPrefix(base, s[1])
                   ELSE IF S = {2} THEN SetPrefix(base, s[2]) ELSE SetPrefix(SetPrefix(base, s[1]), s[2])]
<1>1. SetFolded(base, s) = c[DOMAIN s]
  BY DEF SetFolded
<1>2. \A S \in SUBSET DOMAIN s : S \in {{}, {1}, {2}, {1, 2}}
  BY UpToTwo
<1>3. \A S \in SUBSET DOMAIN s :
        g[S] = IF S = {} THEN base ELSE SetPrefix(g[S \ {Max(S)}], s[Max(S)])
  <2> TAKE S \in SUBSET DOMAIN s
  <2>1. CASE S = {}
    BY <2>1
  <2>2. CASE S = {1}
    <3>1. Max(S) = 1 /\ S \ {Max(S)} = {} /\ {} \in SUBSET DOMAIN s
      BY <2>2, UpToTwo
    <3> QED
      BY <2>2, <3>1
  <2>3. CASE S = {2}
    <3>1. Max(S) = 2 /\ S \ {Max(S)} = {} /\ {} \in SUBSET DOMAIN s
      BY <2>3, UpToTwo
    <3> QED
      BY <2>3, <3>1
  <2>4. CASE S = {1, 2}
    <3>1. Max(S) = 2 /\ S \ {Max(S)} = {1} /\ {1} \in SUBSET DOMAIN s
      BY <2>4, UpToTwo
    <3> QED
      BY <2>4, <3>1
  <2> QED
    BY <1>2, <2>1, <2>2, <2>3, <2>4
<1>4. Iterates(g)
  BY <1>3
<1> HIDE DEF g
<1>5. Iterates(c)
  BY <1>4, Zenon
<1> HIDE DEF c
<1>6. c[{}] = base
  BY <1>5
<1>7. c[{1}] = SetPrefix(base, s[1])
  <2>1. {1} \in SUBSET DOMAIN s /\ {1} # {} /\ Max({1}) = 1 /\ {1} \ {1} = {}
    BY UpToTwo
  <2>2. c[{1}] = SetPrefix(c[{1} \ {Max({1})}], s[Max({1})])
    BY <1>5, <2>1
  <2> QED
    BY <1>6, <2>1, <2>2
<1>8. DOMAIN s = 1 .. 2 => c[{1, 2}] = SetPrefix(SetPrefix(base, s[1]), s[2])
  <2>1. HAVE DOMAIN s = 1 .. 2
  <2>2. {1, 2} \in SUBSET DOMAIN s /\ {1, 2} # {} /\ Max({1, 2}) = 2 /\ {1, 2} \ {2} = {1}
    BY <2>1, UpToTwo
  <2>3. c[{1, 2}] = SetPrefix(c[{1, 2} \ {Max({1, 2})}], s[Max({1, 2})])
    BY <1>5, <2>2
  <2> QED
    BY <1>7, <2>2, <2>3
<1>9. 1 .. 1 = {1} /\ 1 .. 2 = {1, 2}
  OBVIOUS
<1> QED
  BY <1>1, <1>7, <1>8, <1>9

LEMMA ShortLists ==
  ASSUME NEW x, NEW y
  PROVE  /\ <<x>> # <<>> /\ Head(<<x>>) = x /\ Tail(<<x>>) = <<>>
         /\ <<x, y>> # <<>> /\ Head(<<x, y>>) = x /\ Tail(<<x, y>>) = <<y>>
         /\ Append(<<>>, x) = <<x>> /\ Append(<<x>>, y) = <<x, y>>
<1>1. <<x>> \in Seq({x, y}) /\ <<x, y>> \in Seq({x, y}) /\ <<>> \in Seq({x, y})
  OBVIOUS
<1>2. Len(<<x>>) = 1 /\ Len(<<x, y>>) = 2
  OBVIOUS
<1>3. Append(<<>>, x) = <<x>>
  OBVIOUS
<1>4. Append(<<x>>, y) = <<x, y>>
  <2>1. Len(Append(<<x>>, y)) = 2 /\ Append(<<x>>, y) \in Seq({x, y})
    BY <1>1, <1>2, AppendProperties
  <2>2. Append(<<x>>, y)[1] = x /\ Append(<<x>>, y)[2] = y
    BY <1>1, <1>2, AppendProperties
  <2> DEFINE s == Append(<<x>>, y)
  <2> HIDE DEF s
  <2>3. s \in Seq({x, y}) /\ Len(s) = 2 /\ s[1] = x /\ s[2] = y
    BY <2>1, <2>2 DEF s
  <2>4. s = <<x, y>>
    BY <2>3
  <2> QED
    BY <2>4 DEF s
<1> QED
  BY <1>1, <1>2, <1>3, <1>4

(* The mode of PREFIX of a line takes the nick, whatever comes before it,  *)
(* and is the only one that changes the names.                             *)
LEMMA ModesAreParsed ==
  ASSUME WorldOK, Learnt, NEW flag \in Flags(Elements(server.ranks)),
         NEW before \in {<<>>} \cup {<<f>> : f \in OtherFlags}, NEW n
  PROVE  LET args == IF before # <<>> /\ TakesArg(Head(before)) THEN <<"argument", n>> ELSE <<n>>
             modes == ParseModes(Append(before, flag), args)
         IN  \/ modes = <<[flag |-> flag, args |-> <<n>>]>>
             \/ \E f \in OtherFlags : \E given \in {<<>>, <<"argument">>} :
                  modes = <<[flag |-> f, args |-> given], [flag |-> flag, args |-> <<n>>]>>
<1>1. ModeType(flag) = "b"
  <2>1. flag.letter \in DOMAIN server.types /\ server.types[flag.letter] = "b"
    BY RanksOfProfile DEF WorldOK, Flags
  <2> QED
    BY <2>1 DEF Learnt, LearntMode, ModeType
<1>2. ASSUME NEW modes
      PROVE  Parse([modes |-> modes, args |-> <<n>>], flag).modes
               = Append(modes, [flag |-> flag, args |-> <<n>>])
  BY <1>1 DEF Parse, Takes
<1>3. CASE before = <<>>
  <2>1. Append(before, flag) = <<flag>>
    BY <1>3
  <2>2. FoldLeft(Parse, [modes |-> <<>>, args |-> <<n>>], <<flag>>).modes
          = <<[flag |-> flag, args |-> <<n>>]>>
    <3>1. FoldLeft(Parse, [modes |-> <<>>, args |-> <<n>>], <<flag>>)
            = Parse([modes |-> <<>>, args |-> <<n>>], flag)
      <4>1. FoldLeft(Parse, [modes |-> <<>>, args |-> <<n>>], <<flag>>)
              = ParseFolded([modes |-> <<>>, args |-> <<n>>], <<flag>>)
        BY DEF FoldLeft, MapThenFoldSet, ParseFolded
      <4>2. ParseFolded([modes |-> <<>>, args |-> <<n>>], <<flag>>)
              = Parse([modes |-> <<>>, args |-> <<n>>], flag)
        BY Singles, ParseFolds
      <4> QED
        BY <4>1, <4>2, Zenon
    <3>2. Append(<<>>, [flag |-> flag, args |-> <<n>>]) = <<[flag |-> flag, args |-> <<n>>]>>
      <4> DEFINE last == [flag |-> flag, args |-> <<n>>]
      <4> HIDE DEF last
      <4>1. Append(<<>>, last) = <<last>>
        BY ShortLists
      <4> QED
        BY <4>1 DEF last
    <3> QED
      BY <1>2, <3>1, <3>2
  <2>3. ParseModes(Append(before, flag), <<n>>) = <<[flag |-> flag, args |-> <<n>>]>>
    BY <2>1, <2>2 DEF ParseModes
  <2> QED
    BY <1>3, <2>3
<1>4. ASSUME NEW f \in OtherFlags, before = <<f>>
      PROVE  LET args == IF TakesArg(f) THEN <<"argument", n>> ELSE <<n>>
             IN  \E given \in {<<>>, <<"argument">>} :
                   ParseModes(<<f, flag>>, args)
                     = <<[flag |-> f, args |-> given], [flag |-> flag, args |-> <<n>>]>>
  <2>1. Takes(f) <=> TakesArg(f)
    <3>1. ModeType(f) = server.types[f.letter]
      BY DEF Learnt, LearntMode, ModeType, OtherFlags, Flags
    <3> QED
      BY <3>1 DEF Takes, TakesArg
  <2>2. CASE TakesArg(f)
    <3>1. Parse([modes |-> <<>>, args |-> <<"argument", n>>], f)
            = [modes |-> <<[flag |-> f, args |-> <<"argument">>]>>, args |-> <<n>>]
      BY <2>1, <2>2 DEF Parse
    <3>2. FoldLeft(Parse, [modes |-> <<>>, args |-> <<"argument", n>>], <<f, flag>>)
            = Parse([modes |-> <<[flag |-> f, args |-> <<"argument">>]>>, args |-> <<n>>], flag)
      <4>1. FoldLeft(Parse, [modes |-> <<>>, args |-> <<"argument", n>>], <<f, flag>>)
              = ParseFolded([modes |-> <<>>, args |-> <<"argument", n>>], <<f, flag>>)
        BY DEF FoldLeft, MapThenFoldSet, ParseFolded
      <4>2. ParseFolded([modes |-> <<>>, args |-> <<"argument", n>>], <<f, flag>>)
              = Parse([modes |-> <<[flag |-> f, args |-> <<"argument">>]>>, args |-> <<n>>], flag)
        BY <3>1, Pairs, ParseFolds
      <4> QED
        BY <4>1, <4>2, Zenon
    <3>3. ParseModes(<<f, flag>>, <<"argument", n>>)
            = Append(<<[flag |-> f, args |-> <<"argument">>]>>, [flag |-> flag, args |-> <<n>>])
      <4> DEFINE one == <<[flag |-> f, args |-> <<"argument">>]>>
      <4>1. Parse([modes |-> one, args |-> <<n>>], flag).modes
              = Append(one, [flag |-> flag, args |-> <<n>>])
        <5> HIDE DEF one
        <5> QED
          BY <1>2
      <4> QED
        BY <3>2, <4>1 DEF ParseModes
    <3>4. ParseModes(<<f, flag>>, <<"argument", n>>)
            = <<[flag |-> f, args |-> <<"argument">>], [flag |-> flag, args |-> <<n>>]>>
      BY <3>3, ShortLists
    <3> QED
      BY <2>2, <3>4
  <2>3. CASE ~TakesArg(f)
    <3>1. Parse([modes |-> <<>>, args |-> <<n>>], f)
            = [modes |-> <<[flag |-> f, args |-> <<>>]>>, args |-> <<n>>]
      BY <2>1, <2>3 DEF Parse
    <3>2. FoldLeft(Parse, [modes |-> <<>>, args |-> <<n>>], <<f, flag>>)
            = Parse([modes |-> <<[flag |-> f, args |-> <<>>]>>, args |-> <<n>>], flag)
      <4>1. FoldLeft(Parse, [modes |-> <<>>, args |-> <<n>>], <<f, flag>>)
              = ParseFolded([modes |-> <<>>, args |-> <<n>>], <<f, flag>>)
        BY DEF FoldLeft, MapThenFoldSet, ParseFolded
      <4>2. ParseFolded([modes |-> <<>>, args |-> <<n>>], <<f, flag>>)
              = Parse([modes |-> <<[flag |-> f, args |-> <<>>]>>, args |-> <<n>>], flag)
        BY <3>1, Pairs, ParseFolds
      <4> QED
        BY <4>1, <4>2, Zenon
    <3>3. ParseModes(<<f, flag>>, <<n>>)
            = Append(<<[flag |-> f, args |-> <<>>]>>, [flag |-> flag, args |-> <<n>>])
      <4> DEFINE one == <<[flag |-> f, args |-> <<>>]>>
      <4>1. Parse([modes |-> one, args |-> <<n>>], flag).modes
              = Append(one, [flag |-> flag, args |-> <<n>>])
        <5> HIDE DEF one
        <5> QED
          BY <1>2
      <4> QED
        BY <3>2, <4>1 DEF ParseModes
    <3>4. ParseModes(<<f, flag>>, <<n>>)
            = <<[flag |-> f, args |-> <<>>], [flag |-> flag, args |-> <<n>>]>>
      BY <3>3, ShortLists
    <3> QED
      BY <2>3, <3>4
  <2> QED
    BY <2>2, <2>3
<1>5. ASSUME NEW f \in OtherFlags, before = <<f>>
      PROVE  before # <<>> /\ Head(before) = f /\ Append(before, flag) = <<f, flag>>
  BY <1>5, ShortLists
<1> QED
  BY <1>3, <1>4, <1>5

LEMMA ModesAreSet ==
  ASSUME WorldOK, Learnt, NEW flag \in Flags(Elements(server.ranks)),
         NEW before \in {<<>>} \cup {<<f>> : f \in OtherFlags}, NEW n, NEW names
  PROVE  LET args == IF before # <<>> /\ TakesArg(Head(before)) THEN <<"argument", n>> ELSE <<n>>
         IN  FoldLeft(SetPrefix, names, ParseModes(Append(before, flag), args))
               = Ranking(names, n, flag)
<1> DEFINE r == server.ranks
           last == [flag |-> flag, args |-> <<n>>]
<1>1. flag.letter \in Elements(r) /\ Elements(r) \subseteq Rank \cap DOMAIN server.types
  BY RanksOfProfile DEF WorldOK, Flags
<1>2. chanmodes[flag.letter].prefix = Symbol(flag.letter) /\ Symbol(flag.letter) # ""
  BY <1>1, SymbolsDiffer DEF Learnt, LearntMode
<1>3. PICK i \in DOMAIN r : r[i] = flag.letter
  BY <1>1 DEF Elements
<1>4. Priority(Symbol(flag.letter)) = i
  BY <1>3, PriorityIs DEF WorldOK, Learnt
<1>5. (CHOOSE j \in DOMAIN r : r[j] = flag.letter) = i
  <2>1. \A j \in DOMAIN r : r[j] = flag.letter => j = i
    BY <1>3, RanksOfProfile DEF WorldOK
  <2> QED
    BY <1>3, <2>1
<1>6. SetPrefix(names, last) = Ranking(names, n, flag)
  BY <1>2, <1>4, <1>5 DEF SetPrefix, Ranking
<1>7. ASSUME NEW f \in OtherFlags, NEW given
      PROVE  SetPrefix(names, [flag |-> f, args |-> given]) = names
  <2>1. chanmodes[f.letter].prefix = ""
    BY DEF Learnt, LearntMode, OtherFlags, Flags
  <2> QED
    BY <2>1 DEF SetPrefix
<1> DEFINE args == IF before # <<>> /\ TakesArg(Head(before)) THEN <<"argument", n>> ELSE <<n>>
           modes == ParseModes(Append(before, flag), args)
<1>8. \/ modes = <<last>>
      \/ \E f \in OtherFlags : \E given \in {<<>>, <<"argument">>} :
           modes = <<[flag |-> f, args |-> given], last>>
  BY ModesAreParsed
<1> HIDE DEF modes, last
<1>9. CASE modes = <<last>>
  <2>1. FoldLeft(SetPrefix, names, <<last>>) = Ranking(names, n, flag)
    <3>1. FoldLeft(SetPrefix, names, <<last>>) = SetFolded(names, <<last>>)
      BY DEF FoldLeft, MapThenFoldSet, SetFolded
    <3>2. SetFolded(names, <<last>>) = SetPrefix(names, last)
      BY Singles, SetPrefixFolds
    <3> QED
      BY <1>6, <3>1, <3>2, Zenon
  <2> QED
    BY <1>9, <2>1 DEF modes
<1>10. ASSUME NEW f \in OtherFlags, NEW given, modes = <<[flag |-> f, args |-> given], last>>
       PROVE  FoldLeft(SetPrefix, names, modes) = Ranking(names, n, flag)
  <2>1. FoldLeft(SetPrefix, names, <<[flag |-> f, args |-> given], last>>) = Ranking(names, n, flag)
    <3>1. FoldLeft(SetPrefix, names, <<[flag |-> f, args |-> given], last>>)
            = SetPrefix(SetPrefix(names, [flag |-> f, args |-> given]), last)
      <4>1. FoldLeft(SetPrefix, names, <<[flag |-> f, args |-> given], last>>)
              = SetFolded(names, <<[flag |-> f, args |-> given], last>>)
        BY DEF FoldLeft, MapThenFoldSet, SetFolded
      <4>2. SetFolded(names, <<[flag |-> f, args |-> given], last>>)
              = SetPrefix(SetPrefix(names, [flag |-> f, args |-> given]), last)
        BY Pairs, SetPrefixFolds
      <4> QED
        BY <4>1, <4>2, Zenon
    <3> QED
      BY <1>6, <1>7, <3>1
  <2> QED
    BY <1>10, <2>1
<1> QED
  BY <1>8, <1>9, <1>10 DEF modes

-----------------------------------------------------------------------------
(* What happens on the server keeps the membership well formed.            *)
LEMMA RegistersTyped ==
  ASSUME WorldOK, NEW p \in Profile, NEW n \in Nick, NEW free \in Nick,
         NEW held \in {{}, Channel}, NEW first, Registers(p, n, free, held, first)
  PROVE  WorldOK'
<1>1. p.ranks \in Seq(Rank) /\ {"o"} \subseteq Elements(p.ranks)
  BY RanksOfProfile
<1>2. /\ session' = "up" /\ server' = p /\ me' = n /\ known' = known /\ batches' = batches
  BY DEF Registers, history
<1>3. CASE p = server /\ connections > 0
  BY <1>2, <1>3 DEF Registers, WorldOK, Membership
<1>4. CASE ~(p = server /\ connections > 0)
  <2> DEFINE others == Nick \ {n, free}
  <2>1. online' = others \cup {n}
    BY <1>4 DEF Registers
  <2>2. members' = [c \in Channel |-> [m \in IF c \in held THEN others ELSE {} |-> {"o"}]]
    BY <1>4 DEF Registers
  <2>3. ASSUME NEW c \in Channel PROVE Membership(members[c])'
    <3>1. members'[c] = [m \in IF c \in held THEN others ELSE {} |-> {"o"}]
      BY <2>2
    <3> QED
      BY <1>1, <1>2, <2>1, <3>1 DEF Membership
  <2> QED
    BY <1>2, <2>1, <2>2, <2>3 DEF WorldOK
<1> QED
  BY <1>3, <1>4

LEMMA LosesTyped ==
  ASSUME WorldOK, NEW noticed, Loses(noticed)
  PROVE  WorldOK'
<1>1. /\ session' = "none" /\ lines' = <<>> /\ known' = {} /\ batches' = NoLists
      /\ server' = server /\ me' = me
  BY DEF Loses
<1>2. online' \in SUBSET Nick /\ DOMAIN members' = Channel
  BY DEF Loses, WorldOK
<1>3. ASSUME NEW c \in Channel PROVE Membership(members[c])'
  <2>1. Membership(members[c])
    BY DEF WorldOK
  <2>2. CASE noticed
    <3>1. members'[c] = Without(members[c], me) /\ online' = online \ {me}
      BY <2>2 DEF Loses
    <3> QED
      BY <1>1, <2>1, <3>1 DEF Membership, Without
  <2>3. CASE ~noticed
    BY <1>1, <2>1, <2>3 DEF Loses, Membership
  <2> QED
    BY <2>2, <2>3
<1> QED
  BY <1>1, <1>2, <1>3 DEF WorldOK, NoLists

(* A step on the server whose membership is well formed.                   *)
LEMMA HappensTyped ==
  ASSUME WorldOK, Happens, me' \in Nick, online' \in SUBSET Nick, known' \in SUBSET Channel,
         \/ session' = session /\ me' \in online'
         \/ session' = "over" /\ lines' = <<KillLine(me')>>,
         DOMAIN members' = Channel, \A c \in Channel : Membership(members[c])'
  PROVE  WorldOK'
<1>1. session = "up" /\ server' = server /\ batches' = batches
  BY DEF Happens
<1> QED
  BY <1>1 DEF WorldOK

-----------------------------------------------------------------------------
(* What happens on the server while the client has nothing to read: the    *)
(* lines that are then on their way make its picture that of the server.   *)
At_Rest == session = "up" /\ WorldOK /\ Learnt /\ Idle /\ NoneOpen

LEMMA RestKept ==
  ASSUME At_Rest, Happens
  PROVE  Learnt' /\ NoneOpen' /\ nick' = me
  BY DEF At_Rest, Happens, Learnt, LearntMode, NoneOpen, Idle, modeVars, listVars

LEMMA CountsNext ==
  ASSUME At_Rest, Happens, NEW k \in Channel, Counts(k)
  PROVE  /\ Kept(k)'
         /\ namesMap'[k] = Arrays(server.ranks, members[k])
         /\ server' = server
  BY DEF At_Rest, Happens, Idle, Becomes, Kept, listVars

LEMMA JoinsRead ==
  ASSUME At_Rest, NEW n \in Nick, NEW c \in Channel, Joins(n, c)
  PROVE  WorldOK' /\ (Idle' \/ Joined(n, c)')
<1>1. /\ Happens /\ SameUsers /\ n \in (online \ {me}) \ DOMAIN members[c]
      /\ members' = [members EXCEPT ![c] = With(@, n, {})]
      /\ lines' = IF Inside(c) THEN <<Join(n, c)>> ELSE <<>>
  BY DEF Joins, Tell
<1>2. DOMAIN members = Channel /\ \A k \in Channel : Membership(members[k])
  BY DEF At_Rest, WorldOK
<1>3. /\ DOMAIN members' = Channel
      /\ \A k \in Channel : members'[k] = IF k = c THEN With(members[c], n, {}) ELSE members[k]
  BY <1>1, <1>2
<1>4. nick' = me /\ me' = me /\ known' = known /\ online' = online /\ session' = session
      /\ server' = server /\ n # me
  BY <1>1, RestKept DEF Happens, SameUsers
<1>5. WorldOK'
  <2>1. ASSUME NEW k \in Channel PROVE Membership(members[k])'
    BY <1>1, <1>2, <1>3, <1>4 DEF Membership, With
  <2>2. me \in Nick /\ online \in SUBSET Nick /\ known \in SUBSET Channel /\ me \in online
    BY DEF At_Rest, WorldOK
  <2> QED
    BY <1>1, <1>3, <1>4, <2>1, <2>2, HappensTyped DEF At_Rest
<1>6. ASSUME NEW k \in Channel, Counts(k)'
      PROVE  /\ Kept(k)' /\ Inside(k)
             /\ (IF k = c THEN With(namesMap'[k], n, {}) ELSE namesMap'[k])
                  = Arrays(server'.ranks, members'[k])
  <2>1. Counts(k)
    BY <1>3, <1>4, <1>6 DEF Counts, Inside, With
  <2>2. Kept(k)' /\ namesMap'[k] = Arrays(server.ranks, members[k])
    BY <1>1, <2>1, CountsNext
  <2>3. Arrays(server.ranks, With(members[k], n, {})) = With(namesMap'[k], n, {})
    BY <2>2, ArraysWith
  <2> QED
    BY <1>3, <1>4, <2>1, <2>2, <2>3 DEF Counts
<1>7. CASE Inside(c)
  BY <1>1, <1>4, <1>5, <1>6, <1>7 DEF Joined, Becomes
<1>8. CASE ~Inside(c)
  BY <1>1, <1>4, <1>5, <1>6, <1>8 DEF Idle, Becomes
<1> QED
  BY <1>7, <1>8

LEMMA LeavesRead ==
  ASSUME At_Rest, NEW command \in {"PART", "KICK"}, NEW n \in Nick, NEW c \in Channel,
         Leaves(command, n, c)
  PROVE  WorldOK' /\ (Idle' \/ Left(command, n, c)')
<1>1. /\ Happens /\ SameUsers /\ n \in DOMAIN members[c]
      /\ members' = [members EXCEPT ![c] = Without(@, n)]
      /\ lines' = IF Inside(c) THEN <<Removal(command, n, c)>> ELSE <<>>
  BY DEF Leaves, Tell
<1>2. DOMAIN members = Channel /\ \A k \in Channel : Membership(members[k])
  BY DEF At_Rest, WorldOK
<1>3. /\ DOMAIN members' = Channel
      /\ \A k \in Channel : members'[k] = IF k = c THEN Without(members[c], n) ELSE members[k]
  BY <1>1, <1>2
<1>4. nick' = me /\ me' = me /\ known' = known /\ online' = online /\ session' = session
      /\ server' = server
  BY <1>1, RestKept DEF Happens, SameUsers
<1>5. WorldOK'
  <2>1. ASSUME NEW k \in Channel PROVE Membership(members[k])'
    BY <1>1, <1>2, <1>3, <1>4 DEF Membership, Without
  <2>2. me \in Nick /\ online \in SUBSET Nick /\ known \in SUBSET Channel /\ me \in online
    BY DEF At_Rest, WorldOK
  <2> QED
    BY <1>1, <1>3, <1>4, <2>1, <2>2, HappensTyped DEF At_Rest
<1>6. ASSUME NEW k \in Channel, Counts(k)'
      PROVE  /\ Kept(k)' /\ Inside(k)
             /\ (IF k = c THEN Without(namesMap'[k], n) ELSE namesMap'[k])
                  = Arrays(server'.ranks, members'[k])
  <2>1. Counts(k)
    BY <1>3, <1>4, <1>6 DEF Counts, Inside, Without
  <2>2. Kept(k)' /\ namesMap'[k] = Arrays(server.ranks, members[k])
    BY <1>1, <2>1, CountsNext
  <2>3. Arrays(server.ranks, Without(members[k], n)) = Without(namesMap'[k], n)
    BY <2>2, ArraysWithout
  <2> QED
    BY <1>3, <1>4, <2>1, <2>2, <2>3 DEF Counts
<1>7. CASE Inside(c)
  <2>1. n = me => ~Inside(c)'
    BY <1>3, <1>4 DEF Inside, Without
  <2> QED
    BY <1>1, <1>4, <1>6, <1>5, <1>7, <2>1 DEF Left, Becomes
<1>8. CASE ~Inside(c)
  BY <1>1, <1>4, <1>5, <1>6, <1>8 DEF Idle, Becomes
<1> QED
  BY <1>7, <1>8

LEMMA QuitsRead ==
  ASSUME At_Rest, NEW n \in Nick, Quits(n)
  PROVE  WorldOK' /\ (Idle' \/ Quitted(n)')
<1>1. /\ Happens /\ n \in online \ {me} /\ online' = online \ {n}
      /\ members' = [c \in Channel |-> Without(members[c], n)]
      /\ lines' = IF Meets(n) THEN <<QuitLine(n, "none")>> ELSE <<>>
  BY DEF Quits, Tell
<1>2. \A k \in Channel : Membership(members[k])
  BY DEF At_Rest, WorldOK
<1>3. DOMAIN members' = Channel /\ \A k \in Channel : members'[k] = Without(members[k], n)
  BY <1>1
<1>4. nick' = me /\ me' = me /\ known' = known /\ session' = session /\ server' = server
  BY <1>1, RestKept DEF Quits, Happens
<1>5. WorldOK'
  <2>1. ASSUME NEW k \in Channel PROVE Membership(members[k])'
    BY <1>1, <1>2, <1>3, <1>4 DEF Membership, Without
  <2>2. me \in Nick /\ online \in SUBSET Nick /\ known \in SUBSET Channel /\ me \in online
    BY DEF At_Rest, WorldOK
  <2> QED
    BY <1>1, <1>3, <1>4, <2>1, <2>2, HappensTyped DEF At_Rest
<1>6. ASSUME NEW k \in Channel, Counts(k)'
      PROVE  /\ Kept(k)' /\ Inside(k) /\ namesMap'[k] = Arrays(server'.ranks, members[k])
             /\ Without(namesMap'[k], n) = Arrays(server'.ranks, members'[k])
  <2>1. Counts(k)
    BY <1>3, <1>4, <1>6 DEF Counts, Inside, Without
  <2>2. Kept(k)' /\ namesMap'[k] = Arrays(server.ranks, members[k])
    BY <1>1, <2>1, CountsNext
  <2>3. Arrays(server.ranks, Without(members[k], n)) = Without(namesMap'[k], n)
    BY <2>2, ArraysWithout
  <2> QED
    BY <1>3, <1>4, <2>1, <2>2, <2>3 DEF Counts
<1>7. CASE Meets(n)
  BY <1>1, <1>4, <1>5, <1>6, <1>7 DEF Quitted, Becomes
<1>8. CASE ~Meets(n)
  <2>1. ASSUME NEW k \in Channel, Counts(k)'
        PROVE  namesMap'[k] = Arrays(server'.ranks, members'[k])
    <3>1. n \notin DOMAIN members[k]
      BY <1>6, <1>8, <2>1 DEF Meets
    <3> QED
      BY <1>3, <1>4, <1>6, <2>1, <3>1, ArraysWithout
  <2> QED
    BY <1>1, <1>4, <1>5, <1>6, <1>8, <2>1 DEF Idle, Becomes
<1> QED
  BY <1>7, <1>8

LEMMA RenamesRead ==
  ASSUME At_Rest, NEW n \in Nick, NEW new \in Nick, Renames(n, new)
  PROVE  WorldOK' /\ (Idle' \/ Renamed(n, new)')
<1>1. /\ Happens /\ n \in online /\ new \notin online
      /\ online' = (online \ {n}) \cup {new}
      /\ me' = (IF n = me THEN new ELSE me)
      /\ lines' = IF n = me \/ Meets(n) THEN <<NickLine(n, new)>> ELSE <<>>
  BY DEF Renames, Tell
<1>2. \A k \in Channel : Membership(members[k])
  BY DEF At_Rest, WorldOK
<1>3. DOMAIN members' = Channel /\ \A k \in Channel : members'[k] = Renaming(members[k], n, new)
  BY DEF Renames, Renaming
<1>4. nick' = me /\ known' = known /\ session' = session /\ server' = server
      /\ me \in Nick /\ me \in online /\ n # new /\ new # me
  BY <1>1, RestKept DEF Renames, Happens, At_Rest, WorldOK
<1>5. WorldOK'
  <2>1. ASSUME NEW k \in Channel PROVE Membership(members[k])'
    <3>1. Membership(members[k])
      BY <1>2
    <3>2. members'[k] = Renaming(members[k], n, new)
      BY <1>3
    <3>3. CASE n \in DOMAIN members[k]
      <4>1. members'[k] = [m \in (DOMAIN members[k] \cup {new}) \ {n} |->
                             IF m = new THEN members[k][n] ELSE members[k][m]]
        BY <3>2, <3>3 DEF Renaming, With, Without
      <4> QED
        BY <1>1, <1>4, <3>1, <3>3, <4>1 DEF Membership
    <3>4. CASE n \notin DOMAIN members[k]
      <4>1. members'[k] = members[k]
        BY <3>2, <3>4 DEF Renaming
      <4> QED
        BY <1>1, <1>4, <3>1, <3>4, <4>1 DEF Membership
    <3> QED
      BY <3>3, <3>4
  <2>2. online \in SUBSET Nick /\ known \in SUBSET Channel
    BY DEF At_Rest, WorldOK
  <2>3. me' \in Nick /\ me' \in online' /\ online' \in SUBSET Nick
    BY <1>1, <1>4, <2>2
  <2> QED
    BY <1>1, <1>3, <1>4, <2>1, <2>2, <2>3, HappensTyped DEF At_Rest
<1>6. ASSUME NEW k \in Channel, Counts(k)'
      PROVE  /\ Kept(k)' /\ Inside(k) /\ namesMap'[k] = Arrays(server'.ranks, members[k])
             /\ Renaming(namesMap'[k], n, new) = Arrays(server'.ranks, members'[k])
  <2>1. Counts(k)
    <3>1. new \notin DOMAIN members[k]
      BY <1>1, <1>2 DEF Membership
    <3>2. Inside(k)
      <4>1. me' \in DOMAIN members'[k]
        BY <1>6 DEF Counts, Inside
      <4>2. /\ n \in DOMAIN members[k] => DOMAIN members'[k] = (DOMAIN members[k] \ {n}) \cup {new}
            /\ n \notin DOMAIN members[k] => DOMAIN members'[k] = DOMAIN members[k]
        <5>1. members'[k] = Renaming(members[k], n, new) /\ n # new
          BY <1>3, <1>4
        <5>2. CASE n \in DOMAIN members[k]
          BY <5>1, <5>2 DEF Renaming, With, Without
        <5>3. CASE n \notin DOMAIN members[k]
          BY <5>1, <5>3 DEF Renaming
        <5> QED
          BY <5>2, <5>3
      <4>3. me \in DOMAIN members[k]
        BY <1>1, <1>4, <3>1, <4>1, <4>2
      <4> QED
        BY <4>3 DEF Inside
    <3> QED
      BY <1>4, <1>6, <3>2 DEF Counts
  <2>2. Kept(k)' /\ namesMap'[k] = Arrays(server.ranks, members[k])
    BY <1>1, <2>1, CountsNext
  <2>3. Arrays(server.ranks, Renaming(members[k], n, new)) = Renaming(namesMap'[k], n, new)
    BY <2>2, ArraysRenamed
  <2> QED
    BY <1>3, <1>4, <2>1, <2>2, <2>3 DEF Counts
<1>7. CASE n = me \/ Meets(n)
  <2>1. IF n = nick' THEN new = me' ELSE nick' = me'
    BY <1>1, <1>4
  <2> QED
    BY <1>1, <1>5, <1>6, <1>7, <2>1 DEF Renamed, Becomes
<1>8. CASE n # me /\ ~Meets(n)
  <2>1. ASSUME NEW k \in Channel, Counts(k)'
        PROVE  namesMap'[k] = Arrays(server'.ranks, members'[k])
    <3>1. n \notin DOMAIN members[k]
      BY <1>6, <1>8, <2>1 DEF Meets
    <3> QED
      BY <1>3, <1>4, <1>6, <2>1, <3>1 DEF Renaming
  <2> QED
    BY <1>1, <1>4, <1>5, <1>6, <1>8, <2>1 DEF Idle, Becomes
<1> QED
  BY <1>7, <1>8

LEMMA SetsModeRead ==
  ASSUME At_Rest, NEW c \in Channel, NEW n \in Nick,
         NEW flag \in Flags(Elements(server.ranks)),
         NEW before \in {<<>>} \cup {<<f>> : f \in OtherFlags}, SetsMode(c, before, flag, n)
  PROVE  WorldOK' /\ ModeSet(c, before, flag, n)'
<1> DEFINE modes == IF flag.sign = "+" THEN members[c][n] \cup {flag.letter}
                    ELSE members[c][n] \ {flag.letter}
<1>1. /\ Happens /\ SameUsers /\ Inside(c) /\ n \in DOMAIN members[c]
      /\ members' = [members EXCEPT ![c] = [@ EXCEPT ![n] = modes]]
      /\ lines' = <<ModeLine(c, Append(before, flag),
                             IF before # <<>> /\ TakesArg(Head(before)) THEN <<"argument", n>>
                             ELSE <<n>>)>>
  <2>1. Append(IF before # <<>> /\ TakesArg(Head(before)) THEN <<"argument">> ELSE <<>>, n)
          = IF before # <<>> /\ TakesArg(Head(before)) THEN <<"argument", n>> ELSE <<n>>
    BY ShortLists
  <2> QED
    BY <2>1 DEF SetsMode
<1>2. DOMAIN members = Channel /\ \A k \in Channel : Membership(members[k])
  BY DEF At_Rest, WorldOK
<1>3. /\ DOMAIN members' = Channel
      /\ \A k \in Channel :
           members'[k] = IF k = c THEN [members[c] EXCEPT ![n] = modes] ELSE members[k]
  BY <1>1, <1>2
<1>4. nick' = me /\ me' = me /\ known' = known /\ online' = online /\ session' = session
      /\ server' = server
  BY <1>1, RestKept DEF Happens, SameUsers
<1>5. flag.letter \in Elements(server.ranks) /\ server \in Profile
  BY DEF Flags, At_Rest, WorldOK
<1>6. WorldOK'
  <2>1. ASSUME NEW k \in Channel PROVE Membership(members[k])'
    <3>1. CASE k # c
      BY <1>2, <1>3, <1>4, <3>1 DEF Membership
    <3>2. CASE k = c
      <4>1. members'[c] = [members[c] EXCEPT ![n] = modes]
        BY <1>3
      <4>2. modes \subseteq Elements(server.ranks)
        BY <1>1, <1>2, <1>5 DEF Membership
      <4> HIDE DEF modes
      <4> QED
        BY <1>2, <1>4, <3>2, <4>1, <4>2 DEF Membership
    <3> QED
      BY <3>1, <3>2
  <2>2. me \in Nick /\ online \in SUBSET Nick /\ known \in SUBSET Channel /\ me \in online
    BY DEF At_Rest, WorldOK
  <2> QED
    BY <1>1, <1>3, <1>4, <2>1, <2>2, HappensTyped DEF At_Rest
<1>7. ASSUME NEW k \in Channel, Counts(k)'
      PROVE  /\ Kept(k)'
             /\ (IF k = c THEN Ranking(namesMap'[k], n, flag) ELSE namesMap'[k])
                  = Arrays(server'.ranks, members'[k])
  <2>1. Counts(k)
    BY <1>1, <1>3, <1>4, <1>7 DEF Counts, Inside
  <2>2. Kept(k)' /\ namesMap'[k] = Arrays(server.ranks, members[k])
    BY <1>1, <2>1, CountsNext
  <2>3. Arrays(server.ranks, [members[c] EXCEPT ![n] = modes])
          = Ranking(Arrays(server.ranks, members[c]), n, flag)
    BY <1>1, <1>5, RankingSets
  <2> HIDE DEF modes
  <2> QED
    BY <1>3, <1>4, <2>2, <2>3
<1>8. /\ Ranking(namesMap'[c], n, flag) = Ranking(namesMap[c], n, flag)'
      /\ Flags(Elements(server.ranks))' = Flags(Elements(server.ranks)) /\ OtherFlags' = OtherFlags
      /\ TakesArg(Head(before))' = TakesArg(Head(before))
  BY <1>4 DEF Ranking, OtherFlags, Flags, TakesArg
<1> QED
  BY <1>1, <1>4, <1>6, <1>7, <1>8 DEF ModeSet, Becomes

LEMMA KilledRead ==
  ASSUME At_Rest, Killed
  PROVE  WorldOK' /\ session' = "over" /\ NoneOpen'
<1>1. /\ Happens /\ me' = me /\ known' = known /\ session' = "over" /\ online' = online \ {me}
      /\ members' = [c \in Channel |-> Without(members[c], me)] /\ lines' = <<KillLine(me)>>
  BY DEF Killed
<1>2. ASSUME NEW k \in Channel PROVE Membership(members[k])'
  <2>1. Membership(members[k]) /\ server' = server
    BY <1>1 DEF At_Rest, WorldOK, Happens
  <2> QED
    BY <1>1, <2>1 DEF Membership, Without
<1>3. me \in Nick /\ online \in SUBSET Nick /\ known \in SUBSET Channel
  BY DEF At_Rest, WorldOK
<1> QED
  BY <1>1, <1>2, <1>3, HappensTyped, RestKept DEF At_Rest

LEMMA NetsplitRead ==
  ASSUME At_Rest, NEW gone \in SUBSET Nick, Netsplit(gone)
  PROVE  WorldOK' /\ Split'
<1> DEFINE seen == SetToSeq({n \in gone : Meets(n)})
           quits == [i \in DOMAIN seen |-> QuitLine(seen[i], "split")]
<1>1. /\ Happens /\ gone \subseteq online \ {me} /\ online' = online \ gone
      /\ members' = [c \in Channel |-> [n \in DOMAIN members[c] \ gone |-> members[c][n]]]
      /\ lines' = IF seen = <<>> THEN <<>>
                  ELSE <<BatchLine("+")>> \o quits \o <<BatchLine("-")>>
      /\ known' = {c \in known : gone \cap DOMAIN members[c] = {}}
  BY DEF Netsplit
<1>2. \A k \in Channel : Membership(members[k])
  BY DEF At_Rest, WorldOK
<1>3. /\ DOMAIN members' = Channel
      /\ \A k \in Channel : members'[k] = [n \in DOMAIN members[k] \ gone |-> members[k][n]]
  BY <1>1
<1>4. nick' = me /\ me' = me /\ session' = session /\ server' = server
  BY <1>1, RestKept DEF Netsplit, Happens
<1>5. WorldOK'
  <2>1. ASSUME NEW k \in Channel PROVE Membership(members[k])'
    BY <1>1, <1>2, <1>3, <1>4 DEF Membership
  <2>2. me \in Nick /\ online \in SUBSET Nick /\ known \in SUBSET Channel /\ me \in online
    BY DEF At_Rest, WorldOK
  <2>3. me' \in Nick /\ me' \in online' /\ online' \in SUBSET Nick /\ known' \in SUBSET Channel
    BY <1>1, <1>4, <2>2
  <2> QED
    BY <1>1, <1>3, <1>4, <2>1, <2>3, HappensTyped DEF At_Rest
<1>6. ASSUME NEW k \in Channel PROVE Becomes(k, namesMap[k])'
  <2>1. SUFFICES ASSUME Counts(k)'
                PROVE  Kept(k)' /\ namesMap'[k] = Arrays(server'.ranks, members'[k])
    BY DEF Becomes
  <2>2. Counts(k) /\ gone \cap DOMAIN members[k] = {}
    BY <1>1, <1>3, <1>4, <2>1 DEF Counts, Inside
  <2>3. Kept(k)' /\ namesMap'[k] = Arrays(server.ranks, members[k])
    BY <1>1, <2>2, CountsNext
  <2>4. Arrays(server.ranks, members'[k]) = Arrays(server.ranks, members[k])
    BY <1>3, <2>2 DEF Arrays
  <2> QED
    BY <1>4, <2>3, <2>4
<1>7. CASE seen = <<>>
  <2>1. lines' = <<>>
    BY <1>1, <1>7
  <2> QED
    BY <1>4, <1>5, <1>6, <2>1 DEF Split
<1>8. CASE seen # <<>>
  <2>1. quits \in Seq({QuitLine(n, "split") : n \in Nick})
    <3>1. IsFiniteSet({n \in gone : Meets(n)})
      BY ChannelsAssumption, FS_Subset
    <3>2. seen \in Seq({n \in gone : Meets(n)})
      BY <3>1, SetListed
    <3>3. {n \in gone : Meets(n)} \subseteq Nick
      OBVIOUS
    <3> HIDE DEF seen
    <3>4. seen \in Seq(Nick)
      BY <3>2, <3>3, SeqMonotonic
    <3> QED
      BY <3>4
  <2> DEFINE first == <<BatchLine("+")>>
             last == <<BatchLine("-")>>
  <2>2. first \in Seq(SplitLine) /\ last \in Seq(SplitLine) /\ quits \in Seq(SplitLine)
    BY <2>1 DEF SplitLine
  <2>3. Len(first) = 1 /\ first[1] = BatchLine("+") /\ Len(last) = 1 /\ last[1] = BatchLine("-")
    OBVIOUS
  <2>4. \A i \in 1 .. Len(quits) : quits[i] # BatchLine("-")
    <3>1. \A i \in 1 .. Len(quits) : quits[i] \in {QuitLine(n, "split") : n \in Nick}
      <4> HIDE DEF quits
      <4> QED
        BY <2>1
    <3> HIDE DEF quits
    <3> QED
      BY <3>1 DEF QuitLine, BatchLine
  <2> HIDE DEF seen, quits, first, last
  <2>5. lines' = (first \o quits) \o last
    BY <1>1, <1>8 DEF first, last
  <2> DEFINE start == first \o quits
  <2>6. /\ start \in Seq(SplitLine) /\ Len(start) = 1 + Len(quits) /\ Len(quits) \in Nat
        /\ \A i \in 1 .. Len(start) : start[i] # BatchLine("-")
        /\ start[1] = BatchLine("+")
    <3>1. BatchLine("+") # BatchLine("-")
      BY DEF BatchLine
    <3> QED
      BY <2>2, <2>3, <2>4, <3>1, ConcatProperties
  <2> HIDE DEF start
  <2>7. lines' = start \o last
    BY <2>5 DEF start
  <2>8. /\ lines' \in Seq(SplitLine) /\ Len(lines') = Len(start) + 1
        /\ \A i \in 1 .. Len(start) : lines'[i] = start[i]
    <3>1. /\ start \o last \in Seq(SplitLine) /\ Len(start \o last) = Len(start) + 1
          /\ \A i \in 1 .. Len(start) : (start \o last)[i] = start[i]
      <4>1. start \o last \in Seq(SplitLine) /\ Len(start \o last) = Len(start) + 1
        <5>1. start \in Seq(SplitLine) /\ last \in Seq(SplitLine) /\ Len(last) = 1
          BY <2>2, <2>3, <2>6
        <5>2. start \o last \in Seq(SplitLine)
          BY <5>1, ConcatProperties
        <5>3. Len(start \o last) = Len(start) + Len(last)
          BY <5>1, ConcatProperties
        <5> QED
          BY <5>1, <5>2, <5>3
      <4>2. ASSUME NEW i \in 1 .. Len(start) PROVE (start \o last)[i] = start[i]
        BY <2>2, <2>3, <2>6, ConcatProperties
      <4> QED
        BY <4>1, <4>2
    <3> QED
      BY <2>7, <3>1
  <2>9. \A i \in DOMAIN lines' : lines'[i] = BatchLine("-") => i = Len(lines')
    BY <2>6, <2>8
  <2>10. Head(lines').command # "QUIT"
    <3>1. Head(lines') = BatchLine("+")
      BY <2>6, <2>8
    <3> QED
      BY <3>1 DEF BatchLine
  <2> QED
    BY <1>4, <1>5, <1>6, <2>8, <2>9, <2>10 DEF Split, SplitLine, BatchLine, QuitLine
<1> QED
  BY <1>7, <1>8

(* The lines that list a channel, whatever the names of the first one.     *)
LEMMA Joined3 ==
  ASSUME NEW x, NEW y, NEW z
  PROVE  /\ <<x>> \o <<y>> \o <<z>> = <<x, y, z>>
         /\ <<x>> \o <<>> \o <<z>> = <<x, z>>
         /\ <<>> \o <<y>> \o <<z>> = <<y, z>>
         /\ <<>> \o <<>> \o <<z>> = <<z>>
<1>1. <<x>> \o <<y>> \o <<z>> = <<x, y, z>>
  <2> DEFINE s == <<x>> \o <<y>>
             t == s \o <<z>>
  <2>1. s \in Seq({x, y, z}) /\ Len(s) = 2 /\ s[1] = x /\ s[2] = y
    OBVIOUS
  <2>2. <<z>> \in Seq({x, y, z}) /\ Len(<<z>>) = 1 /\ <<z>>[1] = z
    OBVIOUS
  <2> HIDE DEF s
  <2>3. t \in Seq({x, y, z}) /\ Len(t) = 3
    <3>1. t \in Seq({x, y, z})
      BY <2>1, <2>2, ConcatProperties
    <3>2. Len(t) = Len(s) + Len(<<z>>)
      BY <2>1, <2>2, ConcatProperties
    <3> QED
      BY <2>1, <2>2, <3>1, <3>2
  <2>4. t[1] = x /\ t[2] = y /\ t[3] = z
    BY <2>1, <2>2, ConcatProperties
  <2> HIDE DEF t
  <2>5. t = <<x, y, z>>
    BY <2>3, <2>4
  <2> QED
    BY <2>5 DEF s, t
<1>2. ASSUME NEW a, NEW b PROVE <<a>> \o <<b>> = <<a, b>>
  <2> DEFINE t == <<a>> \o <<b>>
  <2>1. t \in Seq({a, b}) /\ Len(t) = 2 /\ t[1] = a /\ t[2] = b
    OBVIOUS
  <2> HIDE DEF t
  <2>2. t = <<a, b>>
    BY <2>1
  <2> QED
    BY <2>2 DEF t
<1>3. ASSUME NEW a PROVE <<a>> \o <<>> = <<a>> /\ <<>> \o <<a>> = <<a>>
  BY ConcatEmptySeq
<1>4. <<>> \o <<>> = <<>>
  OBVIOUS
<1> QED
  BY <1>1, <1>2, <1>3, <1>4, Zenon

LEMMA FourLines ==
  ASSUME NEW x, NEW y, NEW z, NEW w
  PROVE  <<x, y>> \o <<z, w>> = <<x, y, z, w>>
<1> DEFINE S == {x, y, z, w}
           t == <<x, y>> \o <<z, w>>
<1>1. /\ <<x, y>> \in Seq(S) /\ Len(<<x, y>>) = 2 /\ <<x, y>>[1] = x /\ <<x, y>>[2] = y
      /\ <<z, w>> \in Seq(S) /\ Len(<<z, w>>) = 2 /\ <<z, w>>[1] = z /\ <<z, w>>[2] = w
  OBVIOUS
<1> HIDE DEF S
<1>2. t \in Seq(S)
  BY <1>1, ConcatProperties
<1>3. Len(t) = 2 + 2
  BY <1>1, ConcatProperties
<1>4. t[1] = x /\ t[2] = y /\ t[3] = z /\ t[4] = w
  BY <1>1, ConcatProperties
<1> HIDE DEF t
<1>5. t = <<x, y, z, w>>
  BY <1>2, <1>3, <1>4
<1> QED
  BY <1>5 DEF t

LEMMA ListingLists ==
  ASSUME NEW c, NEW names, DOMAIN names \subseteq Nick, NEW some \in SUBSET DOMAIN names
  PROVE  Lists(c, names, Listing(c, names, some), DOMAIN names)
<1> DEFINE more == DOMAIN names \ some
           reply(ns) == IF ns = {} THEN <<>> ELSE <<Part(c, names, ns)>>
           ls == Listing(c, names, some)
<1>1. ls = reply(some) \o reply(more) \o <<EndOfNames(c)>>
  BY DEF Listing, Part
<1>2. some \in SUBSET Nick /\ more \in SUBSET Nick /\ {} \in SUBSET Nick
      /\ some \cap more = {} /\ some \cup more = DOMAIN names
  OBVIOUS
<1> HIDE DEF more, ls
<1>3. CASE some # {} /\ more # {}
  <2>1. ls = <<Part(c, names, some), Part(c, names, more), EndOfNames(c)>>
    BY <1>1, <1>3, Joined3
  <2> QED
    BY <1>2, <2>1 DEF Lists, ls
<1>4. CASE some # {} /\ more = {}
  <2>1. ls = <<Part(c, names, some), EndOfNames(c)>> /\ {} \cap some = {} /\ {} \cup some = DOMAIN names
    BY <1>1, <1>2, <1>4, Joined3
  <2> QED
    BY <1>2, <2>1 DEF Lists, ls
<1>5. CASE some = {} /\ more # {}
  <2>1. ls = <<Part(c, names, more), EndOfNames(c)>>
    BY <1>1, <1>5, Joined3
  <2> QED
    BY <1>2, <1>5, <2>1 DEF Lists, ls
<1>6. CASE some = {} /\ more = {}
  <2>1. ls = <<EndOfNames(c)>>
    BY <1>1, <1>6, Joined3
  <2> QED
    BY <1>2, <1>6, <2>1 DEF Lists, ls
<1> QED
  BY <1>3, <1>4, <1>5, <1>6

LEMMA ListsAreShort ==
  ASSUME NEW c, NEW names, NEW ls, NEW rest, Lists(c, names, ls, rest), NEW line
  PROVE  /\ <<line>> \o ls # <<>> /\ Head(<<line>> \o ls) = line
         /\ Tail(<<line>> \o ls) = ls
<1>1. \E S : ls \in Seq(S)
  <2>1. PICK x, y, z : ls = <<x, y, z>> \/ ls = <<y, z>> \/ ls = <<z>>
    BY DEF Lists
  <2>2. ls \in Seq({x, y, z})
    <3>1. CASE ls = <<x, y, z>>
      BY <3>1
    <3>2. CASE ls = <<y, z>>
      BY <3>2
    <3>3. CASE ls = <<z>>
      BY <3>3
    <3> QED
      BY <2>1, <3>1, <3>2, <3>3
  <2> QED
    BY <2>2
<1>2. PICK S : ls \in Seq(S)
  BY <1>1
<1>3. ls \in Seq(S \cup {line}) /\ <<line>> \in Seq(S \cup {line})
  BY <1>2, SeqMonotonic
<1> DEFINE all == <<line>> \o ls
<1>4. /\ all \in Seq(S \cup {line}) /\ Len(all) = Len(ls) + 1 /\ all[1] = line
      /\ \A i \in 1 .. Len(ls) : all[i + 1] = ls[i]
  BY <1>3
<1> HIDE DEF all
<1>5. all # <<>> /\ Head(all) = line
  BY <1>4
<1>6. Tail(all) = ls
  BY <1>3, <1>4
<1> QED
  BY <1>5, <1>6 DEF all

LEMMA AsksRead ==
  ASSUME At_Rest, NEW c \in Channel, NEW some, IAskNames(c, some)
  PROVE  WorldOK' /\ Collecting(c)'
<1>1. /\ Happens /\ SameUsers /\ some \in SUBSET DOMAIN members[c] /\ members' = members
      /\ lines' = Listing(c, members[c], some)
  BY DEF IAskNames
<1>2. /\ DOMAIN members = Channel /\ \A k \in Channel : Membership(members[k])
      /\ me \in Nick /\ online \in SUBSET Nick /\ known \in SUBSET Channel /\ me \in online
  BY DEF At_Rest, WorldOK
<1>3. nick' = me /\ me' = me /\ known' = known /\ online' = online /\ session' = session
      /\ server' = server /\ buffers' = buffers /\ carried' = carried
  BY <1>1, RestKept DEF Happens, SameUsers, listVars
<1>4. WorldOK'
  <2>1. ASSUME NEW k \in Channel PROVE Membership(members[k])'
    BY <1>1, <1>2, <1>3 DEF Membership
  <2> QED
    BY <1>1, <1>2, <1>3, <2>1, HappensTyped DEF At_Rest
<1>5. ASSUME NEW k \in Channel PROVE Becomes(k, namesMap[k])'
  <2>1. SUFFICES ASSUME Counts(k)'
                PROVE  Kept(k)' /\ namesMap'[k] = Arrays(server'.ranks, members'[k])
    BY DEF Becomes
  <2>2. Counts(k)
    BY <1>1, <1>3, <2>1 DEF Counts, Inside
  <2> QED
    BY <1>1, <1>3, <2>2, CountsNext
<1>6. DOMAIN members[c] \in SUBSET Nick
  BY <1>2 DEF Membership
<1>7. Lists(c, members[c], lines', DOMAIN members[c])
  BY <1>1, <1>6, ListingLists
<1>8. c \notin carried => At(buffers, c, NoNames) = [n \in {} |-> {}]
  BY DEF At_Rest, NoneOpen, At, NoNames
<1>9. Read(c, DOMAIN members[c])' = [n \in {} |-> {}]
  BY <1>1 DEF Read
<1>10. c \notin carried' => At(buffers, c, NoNames)' = Read(c, DOMAIN members[c])'
  BY <1>3, <1>8, <1>9 DEF At, NoNames
<1> QED
  BY <1>1, <1>3, <1>4, <1>5, <1>6, <1>7, <1>10 DEF Collecting

LEMMA IJoinRead ==
  ASSUME At_Rest, NEW c \in Channel, NEW some, IJoin(c, some)
  PROVE  WorldOK' /\ Entering(c)'
<1> DEFINE names == With(members[c], me, IF members[c] = NoNames THEN {"o"} ELSE {})
<1>1. /\ Happens /\ SameUsers /\ ~Inside(c) /\ some \in SUBSET DOMAIN names
      /\ members' = [members EXCEPT ![c] = names]
      /\ lines' = <<Join(me, c)>> \o Listing(c, names, some)
  BY DEF IJoin
<1>2. /\ DOMAIN members = Channel /\ \A k \in Channel : Membership(members[k])
      /\ me \in Nick /\ online \in SUBSET Nick /\ known \in SUBSET Channel /\ me \in online
      /\ server \in Profile
  BY DEF At_Rest, WorldOK
<1>3. nick' = me /\ me' = me /\ known' = known /\ online' = online /\ session' = session
      /\ server' = server
  BY <1>1, RestKept DEF Happens, SameUsers
<1>4. /\ DOMAIN members' = Channel
      /\ \A k \in Channel : members'[k] = IF k = c THEN names ELSE members[k]
  BY <1>1, <1>2
<1>5. DOMAIN names \subseteq online /\ \A n \in DOMAIN names : names[n] \subseteq Elements(server.ranks)
  <2>1. "o" \in Elements(server.ranks)
    BY <1>2, RanksOfProfile
  <2>2. Membership(members[c])
    BY <1>2
  <2> QED
    BY <1>2, <2>1, <2>2 DEF Membership, With
<1> HIDE DEF names
<1>6. WorldOK'
  <2>1. ASSUME NEW k \in Channel PROVE Membership(members[k])'
    BY <1>2, <1>3, <1>4, <1>5 DEF Membership
  <2> QED
    BY <1>1, <1>2, <1>3, <1>4, <2>1, HappensTyped DEF At_Rest
<1>7. ASSUME NEW k \in Channel \ {c} PROVE Becomes(k, namesMap[k])'
  <2>1. SUFFICES ASSUME Counts(k)'
                PROVE  Kept(k)' /\ namesMap'[k] = Arrays(server'.ranks, members'[k])
    BY DEF Becomes
  <2>2. Counts(k)
    BY <1>3, <1>4, <2>1 DEF Counts, Inside
  <2> QED
    BY <1>1, <1>3, <1>4, <2>2, CountsNext
<1>8. Lists(c, names, Listing(c, names, some), DOMAIN names)
  BY <1>1, <1>2, <1>5, ListingLists
<1>9. lines' # <<>> /\ Head(lines') = Join(me, c) /\ Tail(lines') = Listing(c, names, some)
  BY <1>1, <1>8, ListsAreShort
<1>10. Lists(c, members'[c], Tail(lines'), DOMAIN members'[c])
  BY <1>4, <1>8, <1>9
<1> QED
  BY <1>3, <1>6, <1>7, <1>9, <1>10 DEF Entering, Join

-----------------------------------------------------------------------------
(* A connection is lost, and the client registers again.                   *)
LEMMA RegistersLearns ==
  ASSUME WorldOK, NoneOpen, NEW p \in Profile, NEW n \in Nick, NEW free \in Nick,
         NEW held \in {{}, Channel}, NEW first, Registers(p, n, free, held, first)
  PROVE  Learning' /\ NoneOpen'
<1>1. <<Welcome(n), Myinfo(p)>> \o <<Chanmodes(p), Prefix(p)>>
        = <<Welcome(n), Myinfo(p), Chanmodes(p), Prefix(p)>>
  BY FourLines
<1>2. <<Welcome(n), Myinfo(p)>> \o <<Prefix(p), Chanmodes(p)>>
        = <<Welcome(n), Myinfo(p), Prefix(p), Chanmodes(p)>>
  BY FourLines
<1>3. /\ session = "none" /\ me' = n /\ server' = p
      /\ lines' = <<Welcome(n), Myinfo(p)>> \o IF first = "CHANMODES" THEN <<Chanmodes(p), Prefix(p)>>
                                               ELSE <<Prefix(p), Chanmodes(p)>>
      /\ known' = known /\ carried' = carried /\ buffers' = buffers
  BY DEF Registers, history, listVars
<1>4. known' = {} /\ NoneOpen'
  BY <1>3 DEF WorldOK, NoneOpen
<1> QED
  BY <1>1, <1>2, <1>3, <1>4 DEF Learning, Welcome, Myinfo, Chanmodes, Prefix

LEMMA LosesOpen ==
  ASSUME NEW noticed, Loses(noticed)
  PROVE  session' = "none" /\ NoneOpen'
  BY DEF Loses, NoneOpen, listVars

-----------------------------------------------------------------------------
(* The client reads a line: the one there is decides who hears it.         *)
LEMMA ReaderIs ==
  ASSUME Reader
  PROVE  /\ lines # <<>> /\ lines' = Tail(lines) /\ UNCHANGED serverVars
         /\ Line.command = "RPL_WELCOME" => OnWelcome
         /\ Line.command = "RPL_MYINFO" => OnMyinfo
         /\ Line.command = "CHANMODES" => OnChanmodes
         /\ Line.command = "PREFIX" => OnPrefix
         /\ Line.command = "JOIN" => OnJoin
         /\ Line.command \in {"PART", "KICK"} => OnLeave
         /\ Line.command = "QUIT" => OnQuit
         /\ Line.command = "KILL" => OnKill
         /\ Line.command = "BATCH" => OnBatch
         /\ Line.command = "NICK" => OnNick
         /\ Line.command = "MODE" => OnMode
         /\ Line.command = "RPL_NAMREPLY" => OnNamreply
         /\ Line.command = "RPL_ENDOFNAMES" => OnEndOfNames
<1>1. OnWelcome => Reads("RPL_WELCOME")
  BY DEF OnWelcome
<1>2. OnMyinfo => Reads("RPL_MYINFO")
  BY DEF OnMyinfo
<1>3. OnChanmodes => Reads("CHANMODES")
  BY DEF OnChanmodes
<1>4. OnPrefix => Reads("PREFIX")
  BY DEF OnPrefix
<1>5. OnJoin => Reads("JOIN")
  BY DEF OnJoin
<1>6. OnLeave => Reads("PART") \/ Reads("KICK")
  BY DEF OnLeave
<1>7. OnQuit => Reads("QUIT")
  BY DEF OnQuit
<1>8. OnKill => Reads("KILL")
  BY DEF OnKill
<1>9. OnBatch => Reads("BATCH")
  BY DEF OnBatch
<1>10. OnNick => Reads("NICK")
  BY DEF OnNick
<1>11. OnMode => Reads("MODE")
  BY DEF OnMode
<1>12. OnNamreply => Reads("RPL_NAMREPLY")
  BY DEF OnNamreply
<1>13. OnEndOfNames => Reads("RPL_ENDOFNAMES")
  BY DEF OnEndOfNames
<1>14. \A command : Reads(command) => /\ Line.command = command
                                      /\ lines # <<>> /\ lines' = Tail(lines) /\ UNCHANGED serverVars
  BY DEF Reads
<1> QED
  BY <1>1, <1>2, <1>3, <1>4, <1>5, <1>6, <1>7, <1>8, <1>9, <1>10, <1>11, <1>12, <1>13, <1>14
     DEF Reader

LEMMA ReaderTyped ==
  ASSUME WorldOK, lines # <<>>, lines' = Tail(lines), UNCHANGED serverVars,
         known' \in SUBSET Channel, DOMAIN batches' \subseteq {"split"}
  PROVE  WorldOK'
<1>1. session # "none"
  BY DEF WorldOK
<1>2. session = "over" => lines' = <<>>
  BY ShortLists DEF WorldOK
<1>3. UNCHANGED <<session, server, me, online, members>>
  BY DEF serverVars
<1>4. \A c \in Channel : Membership(members[c]) <=> Membership(members[c])'
  BY <1>3 DEF Membership
<1> QED
  BY <1>1, <1>2, <1>3, <1>4 DEF WorldOK

LEMMA LearntKept ==
  ASSUME Learnt, UNCHANGED serverVars, UNCHANGED modeVars
  PROVE  Learnt'
  BY DEF Learnt, LearntMode, serverVars, modeVars

(* The lists that are made again are those of the names.                   *)
LEMMA RelistKeeps ==
  ASSUME Learnt, server' = server, NEW cs, Relist(cs), NEW k, k \in DOMAIN namesMap',
         k \in cs \/ (Kept(k) /\ namesMap'[k] = namesMap[k])
  PROVE  Kept(k)'
<1>1. k \in DOMAIN nicklists' /\
      nicklists'[k] = IF k \in cs THEN CreateNicklist(At(namesMap', k, NoNames)) ELSE nicklists[k]
  BY DEF Relist, Kept
<1>2. At(namesMap', k, NoNames) = namesMap'[k]
  BY DEF At
<1>3. CreateNicklist(namesMap'[k]) = ListOf(server.ranks, namesMap'[k])
  BY CreateIsListOf DEF Learnt
<1> QED
  BY <1>1, <1>2, <1>3 DEF Kept

LEMMA JoinedIsRead ==
  ASSUME WorldOK, Learnt, NEW n \in Nick, NEW c \in Channel, Joined(n, c), Reader
  PROVE  WorldOK' /\ Learnt' /\ Idle' /\ UNCHANGED <<buffers, carried>>
<1>1. /\ nick = me /\ n # me /\ lines = <<Join(n, c)>>
      /\ \A k \in Channel : Becomes(k, IF k = c THEN With(namesMap[k], n, {}) ELSE namesMap[k])
  BY DEF Joined
<1>2. lines # <<>> /\ Line = Join(n, c) /\ Tail(lines) = <<>> /\ Line.command = "JOIN"
  BY <1>1, ShortLists DEF Line, Join
<1>3. OnJoin /\ UNCHANGED serverVars /\ lines' = <<>>
  BY <1>2, ReaderIs
<1>4. /\ namesMap' = With(namesMap, c, With(At(namesMap, c, NoNames), n, {}))
      /\ Relist({c}) /\ known' = known
      /\ UNCHANGED <<nick, modeVars, buffers, batches, carried>>
  BY <1>1, <1>2, <1>3 DEF OnJoin, Join
<1>5. WorldOK' /\ Learnt'
  BY <1>2, <1>3, <1>4, ReaderTyped, LearntKept DEF WorldOK
<1>6. ASSUME NEW k \in Channel PROVE Becomes(k, namesMap[k])'
  <2>1. SUFFICES ASSUME Counts(k)'
                PROVE  Kept(k)' /\ namesMap'[k] = Arrays(server'.ranks, members'[k])
    BY DEF Becomes
  <2>2. Counts(k) /\ server' = server /\ members' = members
    BY <1>3, <1>4, <2>1 DEF Counts, Inside, serverVars
  <2>3. /\ Kept(k) /\ k \in DOMAIN namesMap
        /\ (IF k = c THEN With(namesMap[k], n, {}) ELSE namesMap[k]) = Arrays(server.ranks, members[k])
    BY <1>1, <2>2 DEF Becomes, Kept
  <2>4. k \in DOMAIN namesMap' /\
        namesMap'[k] = IF k = c THEN With(namesMap[k], n, {}) ELSE namesMap[k]
    BY <1>4, <2>3 DEF With, At
  <2>5. Kept(k)'
    BY <1>4, <2>2, <2>3, <2>4, RelistKeeps
  <2> QED
    BY <2>2, <2>3, <2>4, <2>5
<1> QED
  BY <1>1, <1>3, <1>4, <1>5, <1>6 DEF Idle, serverVars

LEMMA LeftIsRead ==
  ASSUME WorldOK, Learnt, NEW command \in {"PART", "KICK"}, NEW n \in Nick, NEW c \in Channel,
         Left(command, n, c), Reader
  PROVE  WorldOK' /\ Learnt' /\ Idle' /\ UNCHANGED <<buffers, carried>>
<1>1. /\ nick = me /\ lines = <<Removal(command, n, c)>>
      /\ n = me => ~Inside(c)
      /\ \A k \in Channel : Becomes(k, IF k = c THEN Without(namesMap[k], n) ELSE namesMap[k])
  BY DEF Left
<1>2. lines # <<>> /\ Line = Removal(command, n, c) /\ Tail(lines) = <<>>
      /\ Line.command \in {"PART", "KICK"}
  BY <1>1, ShortLists DEF Line, Removal
<1>3. OnLeave /\ UNCHANGED serverVars /\ lines' = <<>>
  BY <1>2, ReaderIs
<1>4. RemoveNick(n, {c}) /\ UNCHANGED <<nick, modeVars, buffers, batches, history>>
  BY <1>2, <1>3 DEF OnLeave, Removal
<1>5. WorldOK' /\ Learnt'
  BY <1>2, <1>3, <1>4, ReaderTyped, LearntKept DEF WorldOK, history
<1>6. ASSUME NEW k \in Channel PROVE Becomes(k, namesMap[k])'
  <2>1. SUFFICES ASSUME Counts(k)'
                PROVE  Kept(k)' /\ namesMap'[k] = Arrays(server'.ranks, members'[k])
    BY DEF Becomes
  <2>2. Counts(k) /\ server' = server /\ members' = members /\ me' = me
    BY <1>3, <1>4, <2>1 DEF Counts, Inside, serverVars, history
  <2>3. /\ Kept(k) /\ k \in DOMAIN namesMap /\ k \in DOMAIN nicklists
        /\ (IF k = c THEN Without(namesMap[k], n) ELSE namesMap[k]) = Arrays(server.ranks, members[k])
    BY <1>1, <2>2 DEF Becomes, Kept
  <2>4. CASE n = me
    <3>1. k # c
      BY <1>1, <2>2, <2>4 DEF Counts
    <3>2. /\ namesMap' = [x \in DOMAIN namesMap \ {c} |-> namesMap[x]]
          /\ nicklists' = [x \in DOMAIN nicklists \ {c} |-> nicklists[x]]
      BY <1>1, <1>4, <2>4 DEF RemoveNick
    <3> QED
      BY <2>2, <2>3, <3>1, <3>2 DEF Kept
  <2>5. CASE n # me
    <3>1. /\ namesMap' = [x \in DOMAIN namesMap |->
                            IF x \in {c} THEN Without(namesMap[x], n) ELSE namesMap[x]]
          /\ Relist({c})
      BY <1>1, <1>4, <2>5 DEF RemoveNick
    <3>2. k \in DOMAIN namesMap' /\
          namesMap'[k] = IF k = c THEN Without(namesMap[k], n) ELSE namesMap[k]
      BY <2>3, <3>1
    <3>3. Kept(k)'
      BY <2>2, <2>3, <3>1, <3>2, RelistKeeps
    <3> QED
      BY <2>2, <2>3, <3>2, <3>3
  <2> QED
    BY <2>4, <2>5
<1> QED
  BY <1>1, <1>3, <1>4, <1>5, <1>6 DEF Idle, serverVars, history

LEMMA QuittedIsRead ==
  ASSUME WorldOK, Learnt, NEW n \in Nick, Quitted(n), Reader
  PROVE  WorldOK' /\ Learnt' /\ Idle' /\ UNCHANGED <<buffers, carried>>
<1>1. /\ nick = me /\ n # me /\ lines = <<QuitLine(n, "none")>>
      /\ \A k \in Channel : Becomes(k, Without(namesMap[k], n))
  BY DEF Quitted
<1>2. lines # <<>> /\ Line = QuitLine(n, "none") /\ Tail(lines) = <<>> /\ Line.command = "QUIT"
  BY <1>1, ShortLists DEF Line, QuitLine
<1>3. OnQuit /\ UNCHANGED serverVars /\ lines' = <<>>
  BY <1>2, ReaderIs
<1>4. ~Batched
  BY <1>2 DEF Batched, QuitLine, WorldOK
<1>5. RemoveNick(n, DOMAIN namesMap) /\ UNCHANGED <<nick, modeVars, buffers, batches, history>>
  BY <1>2, <1>3, <1>4 DEF OnQuit, QuitLine
<1>6. WorldOK' /\ Learnt'
  BY <1>2, <1>3, <1>5, ReaderTyped, LearntKept DEF WorldOK, history
<1>7. /\ namesMap' = [x \in DOMAIN namesMap |->
                        IF x \in DOMAIN namesMap THEN Without(namesMap[x], n) ELSE namesMap[x]]
      /\ Relist(DOMAIN namesMap)
  BY <1>1, <1>5 DEF RemoveNick
<1>8. ASSUME NEW k \in Channel PROVE Becomes(k, namesMap[k])'
  <2>1. SUFFICES ASSUME Counts(k)'
                PROVE  Kept(k)' /\ namesMap'[k] = Arrays(server'.ranks, members'[k])
    BY DEF Becomes
  <2>2. Counts(k) /\ server' = server /\ members' = members
    BY <1>3, <1>5, <2>1 DEF Counts, Inside, serverVars, history
  <2>3. k \in DOMAIN namesMap /\ Without(namesMap[k], n) = Arrays(server.ranks, members[k])
    BY <1>1, <2>2 DEF Becomes, Kept
  <2>4. k \in DOMAIN namesMap' /\ namesMap'[k] = Without(namesMap[k], n)
    BY <1>7, <2>3
  <2>5. Kept(k)'
    BY <1>7, <2>2, <2>3, <2>4, RelistKeeps
  <2> QED
    BY <2>2, <2>3, <2>4, <2>5
<1> QED
  BY <1>1, <1>3, <1>5, <1>6, <1>8 DEF Idle, serverVars, history

LEMMA RenamedIsRead ==
  ASSUME WorldOK, Learnt, NEW n \in Nick, NEW new \in Nick, Renamed(n, new), Reader
  PROVE  WorldOK' /\ Learnt' /\ Idle' /\ UNCHANGED <<buffers, carried>>
<1>1. /\ IF n = nick THEN new = me ELSE nick = me
      /\ lines = <<NickLine(n, new)>>
      /\ \A k \in Channel : Becomes(k, Renaming(namesMap[k], n, new))
  BY DEF Renamed
<1>2. lines # <<>> /\ Line = NickLine(n, new) /\ Tail(lines) = <<>> /\ Line.command = "NICK"
      /\ Line.source = n /\ Line.nick = new
  BY <1>1, ShortLists DEF Line, NickLine
<1>3. OnNick /\ UNCHANGED serverVars /\ lines' = <<>>
  BY <1>2, ReaderIs
<1> DEFINE cs == {c \in DOMAIN namesMap : n \in DOMAIN namesMap[c]}
<1>4. /\ nick' = me
      /\ namesMap' = [c \in DOMAIN namesMap |->
                        IF c \in cs THEN Without(With(namesMap[c], new, namesMap[c][n]), n)
                        ELSE namesMap[c]]
      /\ Relist(cs)
      /\ UNCHANGED <<modeVars, buffers, batches, history>>
  BY <1>1, <1>2, <1>3 DEF OnNick, OwnNick
<1>5. WorldOK' /\ Learnt'
  BY <1>2, <1>3, <1>4, ReaderTyped, LearntKept DEF WorldOK, history
<1>6. ASSUME NEW k \in Channel PROVE Becomes(k, namesMap[k])'
  <2>1. SUFFICES ASSUME Counts(k)'
                PROVE  Kept(k)' /\ namesMap'[k] = Arrays(server'.ranks, members'[k])
    BY DEF Becomes
  <2>2. Counts(k) /\ server' = server /\ members' = members
    BY <1>3, <1>4, <2>1 DEF Counts, Inside, serverVars, history
  <2>3. /\ Kept(k) /\ k \in DOMAIN namesMap
        /\ Renaming(namesMap[k], n, new) = Arrays(server.ranks, members[k])
    BY <1>1, <2>2 DEF Becomes, Kept
  <2>4. /\ k \in DOMAIN namesMap' /\ namesMap'[k] = Renaming(namesMap[k], n, new)
        /\ k \in cs \/ namesMap'[k] = namesMap[k]
    BY <1>4, <2>3 DEF Renaming
  <2> HIDE DEF cs
  <2>5. Kept(k)'
    BY <1>4, <2>2, <2>3, <2>4, RelistKeeps
  <2> QED
    BY <2>2, <2>3, <2>4, <2>5
<1> QED
  BY <1>1, <1>3, <1>4, <1>5, <1>6 DEF Idle, serverVars, history

LEMMA ModeSetIsRead ==
  ASSUME WorldOK, Learnt, NEW c \in Channel, NEW n \in Nick,
         NEW flag \in Flags(Elements(server.ranks)),
         NEW before \in {<<>>} \cup {<<f>> : f \in OtherFlags}, ModeSet(c, before, flag, n), Reader
  PROVE  WorldOK' /\ Learnt' /\ Idle' /\ UNCHANGED <<buffers, carried>>
<1> DEFINE args == IF before # <<>> /\ TakesArg(Head(before)) THEN <<"argument", n>> ELSE <<n>>
<1>1. /\ nick = me /\ lines = <<ModeLine(c, Append(before, flag), args)>>
      /\ \A k \in Channel :
           Becomes(k, IF k = c THEN Ranking(namesMap[k], n, flag) ELSE namesMap[k])
  BY DEF ModeSet
<1> HIDE DEF args
<1>2. lines # <<>> /\ Line = ModeLine(c, Append(before, flag), args) /\ Tail(lines) = <<>>
      /\ Line.command = "MODE"
  BY <1>1, ShortLists DEF Line, ModeLine
<1>3. OnMode /\ UNCHANGED serverVars /\ lines' = <<>>
  BY <1>2, ReaderIs
<1>4. /\ namesMap' = With(namesMap, c, Ranking(At(namesMap, c, NoNames), n, flag))
      /\ Relist({c})
      /\ UNCHANGED <<nick, modeVars, buffers, batches, history>>
  <2> DEFINE names == At(namesMap, c, NoNames)
             ranked == FoldLeft(SetPrefix, names, ParseModes(Append(before, flag), args))
  <2>1. namesMap' = With(namesMap, c, ranked)
    BY <1>2, <1>3 DEF OnMode, ModeLine
  <2>2. ranked = Ranking(names, n, flag)
    BY ModesAreSet DEF args
  <2> HIDE DEF ranked
  <2>3. Relist({c}) /\ UNCHANGED <<nick, modeVars, buffers, batches, history>>
    BY <1>2, <1>3 DEF OnMode, ModeLine
  <2> QED
    BY <2>1, <2>2, <2>3
<1>5. WorldOK' /\ Learnt'
  BY <1>2, <1>3, <1>4, ReaderTyped, LearntKept DEF WorldOK, history
<1>6. ASSUME NEW k \in Channel PROVE Becomes(k, namesMap[k])'
  <2>1. SUFFICES ASSUME Counts(k)'
                PROVE  Kept(k)' /\ namesMap'[k] = Arrays(server'.ranks, members'[k])
    BY DEF Becomes
  <2>2. Counts(k) /\ server' = server /\ members' = members
    BY <1>3, <1>4, <2>1 DEF Counts, Inside, serverVars, history
  <2>3. /\ Kept(k) /\ k \in DOMAIN namesMap
        /\ (IF k = c THEN Ranking(namesMap[k], n, flag) ELSE namesMap[k])
             = Arrays(server.ranks, members[k])
    BY <1>1, <2>2 DEF Becomes, Kept
  <2>4. k \in DOMAIN namesMap' /\
        namesMap'[k] = IF k = c THEN Ranking(namesMap[k], n, flag) ELSE namesMap[k]
    BY <1>4, <2>3 DEF With, At
  <2>5. Kept(k)'
    BY <1>4, <2>2, <2>3, <2>4, RelistKeeps
  <2> QED
    BY <2>2, <2>3, <2>4, <2>5
<1> QED
  BY <1>1, <1>3, <1>4, <1>5, <1>6 DEF Idle, serverVars, history

LEMMA SplitIsRead ==
  ASSUME WorldOK, Learnt, Split, Reader
  PROVE  WorldOK' /\ Learnt' /\ Split' /\ UNCHANGED <<buffers, carried>>
<1>1. /\ nick = me /\ lines \in Seq(SplitLine)
      /\ \A i \in DOMAIN lines : lines[i] = BatchLine("-") => i = Len(lines)
      /\ lines # <<>> /\ Head(lines).command = "QUIT" => "split" \in DOMAIN batches
      /\ \A k \in Channel : Becomes(k, namesMap[k])
  BY DEF Split
<1>2. lines # <<>> /\ lines' = Tail(lines) /\ UNCHANGED serverVars
  BY ReaderIs
<1>3. /\ Tail(lines) \in Seq(SplitLine) /\ Len(Tail(lines)) = Len(lines) - 1
      /\ \A i \in 1 .. Len(Tail(lines)) : Tail(lines)[i] = lines[i + 1]
      /\ Len(lines) \in Nat \ {0} /\ lines[1] = Line /\ Line \in SplitLine
  BY <1>1, <1>2, HeadTailProperties DEF Line
<1>4. /\ lines' \in Seq(SplitLine)
      /\ \A i \in DOMAIN lines' : lines'[i] = BatchLine("-") => i = Len(lines')
  <2>1. lines' \in Seq(SplitLine) /\ DOMAIN lines' = 1 .. Len(lines')
    BY <1>2, <1>3
  <2>2. ASSUME NEW i \in 1 .. Len(lines'), lines'[i] = BatchLine("-") PROVE i = Len(lines')
    <3>1. lines[i + 1] = BatchLine("-") /\ i + 1 \in DOMAIN lines /\ Len(lines') = Len(lines) - 1
      BY <1>1, <1>2, <1>3, <2>2
    <3>2. i + 1 = Len(lines)
      BY <1>1, <3>1
    <3>3. Len(lines) \in Nat /\ i \in Int
      BY <1>3, <2>1
    <3>4. Len(lines') = Len(lines) - 1
      BY <3>1
    <3> QED
      BY <3>2, <3>3, <3>4
  <2> QED
    BY <2>1, <2>2
<1>5. /\ UNCHANGED <<nick, modeVars, listVars, history>> /\ DOMAIN batches' \subseteq {"split"}
      /\ lines' # <<>> /\ Head(lines').command = "QUIT" => "split" \in DOMAIN batches'
  <2>1. CASE Line \in {BatchLine("+"), BatchLine("-")}
    <3>1. Line.command = "BATCH" /\ Line.ref = "split"
      BY <2>1 DEF BatchLine
    <3>2. OnBatch
      BY <3>1, ReaderIs
    <3>3. UNCHANGED <<nick, modeVars, listVars, history>>
      BY <3>2 DEF OnBatch
    <3>4. CASE Line = BatchLine("+")
      <4>1. batches' = With(batches, "split", <<>>)
        BY <3>2, <3>4 DEF OnBatch, BatchLine
      <4> QED
        BY <3>3, <4>1 DEF With, WorldOK
    <3>5. CASE Line = BatchLine("-")
      <4>1. batches' = Without(batches, "split")
        BY <3>2, <3>5 DEF OnBatch, BatchLine
      <4>2. lines' = <<>>
        BY <1>1, <1>2, <1>3, <3>5
      <4> QED
        BY <3>3, <4>1, <4>2 DEF Without, WorldOK
    <3> QED
      BY <2>1, <3>4, <3>5
  <2>2. ASSUME NEW n \in Nick, Line = QuitLine(n, "split")
        PROVE  /\ UNCHANGED <<nick, modeVars, listVars, history>> /\ DOMAIN batches' \subseteq {"split"}
               /\ "split" \in DOMAIN batches'
    <3>1. Line.command = "QUIT" /\ Line.batch = "split"
      BY <2>2 DEF QuitLine
    <3>2. OnQuit /\ Batched
      BY <1>1, <1>2, <3>1, ReaderIs DEF Batched, Line
    <3>3. /\ UNCHANGED <<nick, modeVars, namesMap, nicklists, buffers, history>>
          /\ batches' = [batches EXCEPT !["split"] = Append(@, Line)]
      BY <3>1, <3>2 DEF OnQuit
    <3> QED
      BY <1>1, <1>2, <3>1, <3>3 DEF listVars, Line, WorldOK
  <2> QED
    BY <1>3, <2>1, <2>2 DEF SplitLine
<1>6. WorldOK' /\ Learnt'
  BY <1>2, <1>5, ReaderTyped, LearntKept DEF WorldOK, history
<1>7. ASSUME NEW k \in Channel PROVE Becomes(k, namesMap[k])'
  BY <1>1, <1>2, <1>5 DEF Becomes, Counts, Kept, Inside, serverVars, listVars, history
<1> QED
  BY <1>1, <1>2, <1>4, <1>5, <1>6, <1>7
     DEF Split, serverVars, listVars, history, SplitLine, BatchLine, QuitLine

LEMMA EnteringIsRead ==
  ASSUME WorldOK, Learnt, NoneOpen, NEW c \in Channel, Entering(c), Reader
  PROVE  WorldOK' /\ Learnt' /\ Collecting(c)' /\ UNCHANGED <<buffers, carried>>
<1>1. /\ nick = me /\ lines # <<>> /\ Line = Join(me, c)
      /\ Lists(c, members[c], Tail(lines), DOMAIN members[c])
      /\ \A k \in Channel \ {c} : Becomes(k, namesMap[k])
  BY DEF Entering, Line
<1>2. Line.command = "JOIN" /\ Line.source = me /\ Line.channel = c
  BY <1>1 DEF Join
<1>3. OnJoin /\ lines' = Tail(lines) /\ UNCHANGED serverVars
  BY <1>2, ReaderIs
<1>4. /\ namesMap' = With(namesMap, c, With(At(namesMap, c, NoNames), me, {}))
      /\ Relist({c}) /\ known' = known \ {c}
      /\ UNCHANGED <<nick, modeVars, buffers, batches, carried>>
  BY <1>1, <1>2, <1>3 DEF OnJoin
<1>5. WorldOK' /\ Learnt'
  BY <1>1, <1>3, <1>4, ReaderTyped, LearntKept DEF WorldOK
<1>6. ASSUME NEW k \in Channel PROVE Becomes(k, namesMap[k])'
  <2>1. SUFFICES ASSUME Counts(k)'
                PROVE  Kept(k)' /\ namesMap'[k] = Arrays(server'.ranks, members'[k])
    BY DEF Becomes
  <2>2. Counts(k) /\ k # c /\ server' = server /\ members' = members
    BY <1>3, <1>4, <2>1 DEF Counts, Inside, serverVars
  <2>3. /\ Kept(k) /\ k \in DOMAIN namesMap /\ namesMap[k] = Arrays(server.ranks, members[k])
    BY <1>1, <2>2 DEF Becomes, Kept
  <2>4. k \in DOMAIN namesMap' /\ namesMap'[k] = namesMap[k]
    BY <1>4, <2>2, <2>3 DEF With
  <2>5. Kept(k)'
    BY <1>4, <2>2, <2>3, <2>4, RelistKeeps
  <2> QED
    BY <2>2, <2>3, <2>4, <2>5
<1>7. DOMAIN members[c] \in SUBSET Nick
  BY DEF WorldOK, Membership
<1>8. c \notin carried' => At(buffers, c, NoNames)' = Read(c, DOMAIN members[c])'
  BY <1>4 DEF NoneOpen, At, NoNames, Read
<1> QED
  BY <1>1, <1>3, <1>4, <1>5, <1>6, <1>7, <1>8 DEF Collecting, serverVars

(* The array made of the modes of a name is that of the server.            *)
LEMMA ArrayIs ==
  ASSUME server \in Profile, Learnt, NEW letters, letters \subseteq Elements(server.ranks)
  PROVE  {<<Priority(Symbol(l)), Symbol(l)>> : l \in letters} = Array(server.ranks, letters)
<1>1. \A i \in DOMAIN server.ranks : Priority(Symbol(server.ranks[i])) = i
  BY PriorityIs DEF Learnt
<1>2. ASSUME NEW l \in letters
      PROVE  \E i \in DOMAIN server.ranks :
               server.ranks[i] = l /\ <<Priority(Symbol(l)), Symbol(l)>> = <<i, Symbol(server.ranks[i])>>
  <2>1. PICK i \in DOMAIN server.ranks : server.ranks[i] = l
    BY DEF Elements
  <2>2. Priority(Symbol(l)) = i
    BY <1>1, <2>1
  <2> QED
    BY <2>1, <2>2
<1>3. ASSUME NEW i \in DOMAIN server.ranks, server.ranks[i] \in letters
      PROVE  <<i, Symbol(server.ranks[i])>>
               = <<Priority(Symbol(server.ranks[i])), Symbol(server.ranks[i])>>
  BY <1>1
<1>4. Array(server.ranks, letters)
        = {<<i, Symbol(server.ranks[i])>> : i \in {j \in DOMAIN server.ranks : server.ranks[j] \in letters}}
  BY DEF Array
<1> DEFINE made == {<<Priority(Symbol(l)), Symbol(l)>> : l \in letters}
<1>5. ASSUME NEW pair \in made PROVE pair \in Array(server.ranks, letters)
  <2>1. PICK l \in letters : pair = <<Priority(Symbol(l)), Symbol(l)>>
    OBVIOUS
  <2> QED
    BY <1>2, <1>4, <2>1
<1>6. ASSUME NEW pair \in Array(server.ranks, letters) PROVE pair \in made
  <2>1. PICK i \in DOMAIN server.ranks : server.ranks[i] \in letters /\ pair = <<i, Symbol(server.ranks[i])>>
    BY <1>4
  <2> QED
    BY <1>3, <2>1
<1> QED
  BY <1>5, <1>6

(* The lists of three or four lines, as they are read.                     *)
LEMMA LongLists ==
  ASSUME NEW x, NEW y, NEW z, NEW w
  PROVE  /\ <<x, y, z>> # <<>> /\ Head(<<x, y, z>>) = x /\ Tail(<<x, y, z>>) = <<y, z>>
         /\ <<x, y, z, w>> # <<>> /\ Head(<<x, y, z, w>>) = x
         /\ Tail(<<x, y, z, w>>) = <<y, z, w>>
<1>1. <<x, y, z>> # <<>> /\ Head(<<x, y, z>>) = x
  OBVIOUS
<1>2. Tail(<<x, y, z>>) = <<y, z>>
  OBVIOUS
<1>3. <<x, y, z, w>> # <<>> /\ Head(<<x, y, z, w>>) = x
  OBVIOUS
<1>4. Tail(<<x, y, z, w>>) = <<y, z, w>>
  OBVIOUS
<1> QED
  BY <1>1, <1>2, <1>3, <1>4

(* A line of names adds them to those that have been read.                 *)
LEMMA PartIsRead ==
  ASSUME WorldOK, Learnt, NEW c \in Channel, NEW rest, NEW ns, rest \subseteq DOMAIN members[c],
         ns \subseteq rest, Line = Part(c, members[c], ns), OnNamreply
  PROVE  /\ DOMAIN buffers' = DOMAIN buffers \cup {c}
         /\ At(buffers, c, NoNames) = Read(c, rest) => At(buffers', c, NoNames) = Read(c, rest \ ns)
<1> DEFINE names == [n \in ns |-> members[c][n]]
           array(letters) == {<<Priority(Symbol(l)), Symbol(l)>> : l \in letters}
           listed == [n \in DOMAIN names |-> array(names[n])]
<1>1. /\ buffers' = With(buffers, c, Over(listed, At(buffers, c, NoNames)))
  <2>1. Line.names = names /\ Line.channel = c
    BY DEF Part, Namreply
  <2> QED
    BY <2>1 DEF OnNamreply
<1>2. DOMAIN listed = ns
  OBVIOUS
<1>3. ASSUME NEW n \in ns PROVE listed[n] = Array(server.ranks, members[c][n])
  <2>1. members[c][n] \subseteq Elements(server.ranks) /\ server \in Profile
    BY DEF WorldOK, Membership
  <2>2. array(members[c][n]) = Array(server.ranks, members[c][n])
    BY <2>1, ArrayIs
  <2> QED
    BY <2>2
<1> HIDE DEF listed
<1>4. DOMAIN buffers' = DOMAIN buffers \cup {c} /\ buffers'[c] = Over(listed, At(buffers, c, NoNames))
  BY <1>1 DEF With
<1>5. ASSUME At(buffers, c, NoNames) = Read(c, rest) PROVE buffers'[c] = Read(c, rest \ ns)
  <2>1. Read(c, rest) = [n \in DOMAIN members[c] \ rest |-> Array(server.ranks, members[c][n])]
    BY DEF Read
  <2>2. buffers'[c] = [n \in ns \cup (DOMAIN members[c] \ rest) |->
                         IF n \in ns THEN listed[n] ELSE Read(c, rest)[n]]
    <3>1. DOMAIN Read(c, rest) = DOMAIN members[c] \ rest
      BY <2>1
    <3>2. buffers'[c] = Over(listed, Read(c, rest))
      BY <1>4, <1>5
    <3> QED
      BY <1>2, <3>1, <3>2 DEF Over
  <2>3. ns \cup (DOMAIN members[c] \ rest) = DOMAIN members[c] \ (rest \ ns)
    OBVIOUS
  <2>4. buffers'[c] = [n \in DOMAIN members[c] \ (rest \ ns) |-> Array(server.ranks, members[c][n])]
    BY <1>3, <2>1, <2>2, <2>3
  <2> QED
    BY <2>4 DEF Read
<1> QED
  BY <1>4, <1>5 DEF At

LEMMA CollectingIsRead ==
  ASSUME WorldOK, Learnt, NEW c \in Channel, Collecting(c),
         DOMAIN buffers \subseteq carried \cup {c}, Reader
  PROVE  /\ WorldOK' /\ Learnt'
         /\ \/ Collecting(c)' /\ DOMAIN buffers' \subseteq carried' \cup {c}
            \/ Idle' /\ NoneOpen'
<1>1. PICK rest \in SUBSET Nick : /\ rest \subseteq DOMAIN members[c]
                                  /\ Lists(c, members[c], lines, rest)
                                  /\ c \notin carried => At(buffers, c, NoNames) = Read(c, rest)
  BY DEF Collecting
<1>2. nick = me /\ \A k \in Channel : Becomes(k, namesMap[k])
  BY DEF Collecting
<1>3. lines' = Tail(lines) /\ UNCHANGED serverVars
  BY ReaderIs
<1>4. PICK a, b \in SUBSET Nick :
        /\ a \cap b = {} /\ rest = a \cup b
        /\ \/ lines = <<Part(c, members[c], a), Part(c, members[c], b), EndOfNames(c)>>
           \/ lines = <<Part(c, members[c], b), EndOfNames(c)>> /\ a = {}
           \/ lines = <<EndOfNames(c)>> /\ a = {} /\ b = {}
  BY <1>1 DEF Lists
<1>5. ASSUME NEW ns \in SUBSET Nick, ns \subseteq rest, Line = Part(c, members[c], ns),
             Lists(c, members[c], lines', rest \ ns)
      PROVE  WorldOK' /\ Learnt' /\ Collecting(c)' /\ DOMAIN buffers' \subseteq carried' \cup {c}
  <2>1. Line.command = "RPL_NAMREPLY"
    BY <1>5 DEF Part, Namreply
  <2>2. OnNamreply /\ lines # <<>>
    BY <2>1, ReaderIs
  <2>3. UNCHANGED <<nick, modeVars, namesMap, nicklists, batches, history>>
    BY <2>2 DEF OnNamreply
  <2>4. WorldOK' /\ Learnt'
    BY <1>3, <2>2, <2>3, ReaderTyped, LearntKept DEF WorldOK, history
  <2>5. /\ DOMAIN buffers' = DOMAIN buffers \cup {c}
        /\ At(buffers, c, NoNames) = Read(c, rest) => At(buffers', c, NoNames) = Read(c, rest \ ns)
    BY <1>1, <1>5, <2>2, PartIsRead
  <2>6. members' = members /\ server' = server /\ me' = me /\ carried' = carried /\ nick' = nick
        /\ known' = known /\ namesMap' = namesMap /\ nicklists' = nicklists
    BY <1>3, <2>3 DEF serverVars, history
  <2>7. Read(c, rest \ ns)' = Read(c, rest \ ns)
    BY <2>6 DEF Read
  <2>8. c \notin carried' => At(buffers, c, NoNames)' = Read(c, rest \ ns)'
    BY <1>1, <2>5, <2>6, <2>7 DEF At, NoNames
  <2>9. ASSUME NEW k \in Channel PROVE Becomes(k, namesMap[k])'
    BY <1>2, <2>6 DEF Becomes, Counts, Kept, Inside
  <2>10. rest \ ns \in SUBSET Nick /\ rest \ ns \subseteq DOMAIN members'[c]
         /\ Lists(c, members'[c], lines', rest \ ns)
    BY <1>1, <1>5, <2>6
  <2>11. Collecting(c)'
    BY <1>2, <2>6, <2>8, <2>9, <2>10 DEF Collecting
  <2> QED
    BY <2>4, <2>5, <2>6, <2>11
<1>6. CASE lines = <<Part(c, members[c], a), Part(c, members[c], b), EndOfNames(c)>>
  <2>1. Line = Part(c, members[c], a) /\ lines' = <<Part(c, members[c], b), EndOfNames(c)>>
    BY <1>3, <1>6, LongLists DEF Line
  <2>2. rest \ a = b /\ a \subseteq rest /\ {} \in SUBSET Nick /\ {} \cap b = {} /\ b = {} \cup b
    BY <1>4
  <2>3. Lists(c, members[c], lines', b)
    BY <2>1, <2>2 DEF Lists
  <2>4. Lists(c, members[c], lines', rest \ a)
    BY <2>2, <2>3
  <2> QED
    BY <1>5, <2>1, <2>2, <2>4
<1>7. CASE lines = <<Part(c, members[c], b), EndOfNames(c)>> /\ a = {}
  <2>1. Line = Part(c, members[c], b) /\ lines' = <<EndOfNames(c)>>
    BY <1>3, <1>7, ShortLists DEF Line
  <2>2. rest \ b = {} /\ b \subseteq rest /\ {} \in SUBSET Nick /\ {} \cap {} = {} /\ {} = {} \cup {}
    BY <1>4, <1>7
  <2>3. Lists(c, members[c], lines', {})
    BY <2>1, <2>2 DEF Lists
  <2>4. Lists(c, members[c], lines', rest \ b)
    BY <2>2, <2>3
  <2> QED
    BY <1>5, <2>1, <2>2, <2>4
<1>8. CASE lines = <<EndOfNames(c)>> /\ a = {} /\ b = {}
  <2>1. Line = EndOfNames(c) /\ lines' = <<>> /\ rest = {} /\ Line.command = "RPL_ENDOFNAMES"
        /\ Line.channel = c /\ lines # <<>>
    BY <1>3, <1>4, <1>8, ShortLists DEF Line, EndOfNames
  <2>2. OnEndOfNames
    BY <2>1, ReaderIs
  <2>3. /\ IF c \in DOMAIN buffers
           THEN namesMap' = With(namesMap, c, buffers[c]) /\ Relist({c})
           ELSE UNCHANGED <<namesMap, nicklists>>
        /\ buffers' = Without(buffers, c)
        /\ known' = IF c \in DOMAIN buffers \ carried THEN known \cup {c} ELSE known \ {c}
        /\ carried' = carried \ {c}
        /\ UNCHANGED <<nick, modeVars, batches>>
    BY <2>1, <2>2 DEF OnEndOfNames
  <2>4. WorldOK' /\ Learnt'
    BY <1>3, <2>1, <2>3, ReaderTyped, LearntKept DEF WorldOK
  <2>5. NoneOpen'
    BY <2>3 DEF NoneOpen, Without
  <2>6. c \notin carried /\ c \in DOMAIN buffers => buffers[c] = Arrays(server.ranks, members[c])
    BY <1>1, <2>1 DEF At, Read, Arrays
  <2>7. members' = members /\ server' = server /\ me' = me
    BY <1>3 DEF serverVars
  <2>8. ASSUME NEW k \in Channel PROVE Becomes(k, namesMap[k])'
    <3>1. SUFFICES ASSUME Counts(k)'
                  PROVE  Kept(k)' /\ namesMap'[k] = Arrays(server'.ranks, members'[k])
      BY DEF Becomes
    <3>2. k \in known' /\ Inside(k)
      BY <2>7, <3>1 DEF Counts, Inside
    <3>3. CASE k = c
      <4>1. c \in DOMAIN buffers /\ c \notin carried
        BY <2>3, <3>2, <3>3
      <4>2. /\ namesMap' = With(namesMap, c, buffers[c]) /\ Relist({c})
            /\ buffers[c] = Arrays(server.ranks, members[c])
        BY <2>3, <2>6, <4>1
      <4>3. c \in DOMAIN namesMap' /\ namesMap'[c] = Arrays(server.ranks, members[c])
        BY <4>2 DEF With
      <4>4. Kept(c)'
        BY <2>7, <4>2, <4>3, RelistKeeps
      <4> QED
        BY <2>7, <3>3, <4>3, <4>4
    <3>4. CASE k # c
      <4>1. Counts(k)
        BY <2>3, <3>2, <3>4 DEF Counts
      <4>2. Kept(k) /\ k \in DOMAIN namesMap /\ namesMap[k] = Arrays(server.ranks, members[k])
        BY <1>2, <4>1 DEF Becomes, Kept
      <4>3. CASE c \in DOMAIN buffers
        <5>1. namesMap' = With(namesMap, c, buffers[c]) /\ Relist({c})
          BY <2>3, <4>3
        <5>2. k \in DOMAIN namesMap' /\ namesMap'[k] = namesMap[k]
          BY <3>4, <4>2, <5>1 DEF With
        <5>3. Kept(k)'
          BY <2>7, <4>2, <5>1, <5>2, RelistKeeps
        <5> QED
          BY <2>7, <4>2, <5>2, <5>3
      <4>4. CASE c \notin DOMAIN buffers
        <5>1. namesMap' = namesMap /\ nicklists' = nicklists
          BY <2>3, <4>4
        <5> QED
          BY <2>7, <4>2, <5>1 DEF Kept
      <4> QED
        BY <4>3, <4>4
    <3> QED
      BY <3>3, <3>4
  <2> QED
    BY <1>2, <2>1, <2>3, <2>4, <2>5, <2>7, <2>8 DEF Idle
<1> QED
  BY <1>4, <1>6, <1>7, <1>8

-----------------------------------------------------------------------------
(* The registration is read, and the modes and prefixes are learnt.        *)
LEMMA ChanmodesAreRead ==
  ASSUME server \in Profile, DOMAIN chanmodes = DOMAIN server.types,
         Line = Chanmodes(server), OnChanmodes
  PROVE  /\ DOMAIN chanmodes' = DOMAIN server.types
         /\ \A l \in DOMAIN server.types \ Elements(server.ranks) :
              chanmodes'[l].type = server.types[l] /\ chanmodes'[l].prefix = ""
         /\ \A l \in Elements(server.ranks) : chanmodes'[l] = chanmodes[l]
         /\ UNCHANGED <<nick, prefixes, listVars, batches, history>>
<1> DEFINE rest == DOMAIN server.types \ Elements(server.ranks)
           new == [l \in rest |-> [type |-> server.types[l], prefix |-> ""]]
<1>1. Line.types = [l \in rest |-> server.types[l]]
  BY DEF Chanmodes
<1>2. chanmodes' = Over(new, chanmodes) /\ UNCHANGED <<nick, prefixes, listVars, batches, history>>
  <2>1. [l \in DOMAIN Line.types |-> [type |-> Line.types[l], prefix |-> ""]] = new
    BY <1>1
  <2> QED
    BY <2>1 DEF OnChanmodes
<1>3. DOMAIN new = rest /\ \A l \in rest : new[l].type = server.types[l] /\ new[l].prefix = ""
  OBVIOUS
<1>4. Elements(server.ranks) \subseteq DOMAIN server.types
  BY RanksOfProfile
<1> HIDE DEF new
<1> QED
  BY <1>2, <1>3, <1>4 DEF Over

LEMMA PrefixIsRead ==
  ASSUME server \in Profile, DOMAIN chanmodes = DOMAIN server.types,
         Line = Prefix(server), OnPrefix
  PROVE  /\ DOMAIN chanmodes' = DOMAIN server.types
         /\ prefixes' = Symbols(server.ranks)
         /\ \A l \in Elements(server.ranks) :
              chanmodes'[l].type = "b" /\ chanmodes'[l].prefix = Symbol(l)
         /\ \A l \in DOMAIN server.types \ Elements(server.ranks) : chanmodes'[l] = chanmodes[l]
         /\ UNCHANGED <<nick, listVars, batches, history>>
<1>1. Line.ranks = server.ranks
  BY DEF Prefix
<1>2. /\ chanmodes' = Over(RankModes(server.ranks), chanmodes)
      /\ prefixes' = Symbols(server.ranks) /\ UNCHANGED <<nick, listVars, batches, history>>
  BY <1>1 DEF OnPrefix
<1>3. /\ DOMAIN RankModes(server.ranks) = Elements(server.ranks)
      /\ \A l \in Elements(server.ranks) : /\ RankModes(server.ranks)[l].type = "b"
                                           /\ RankModes(server.ranks)[l].prefix = Symbol(l)
  BY DEF RankModes
<1>4. Elements(server.ranks) \subseteq DOMAIN server.types
  BY RanksOfProfile
<1> QED
  BY <1>2, <1>3, <1>4 DEF Over

LEMMA LearningIsRead ==
  ASSUME WorldOK, Learning, NoneOpen, Reader
  PROVE  WorldOK' /\ NoneOpen' /\ (Learning' \/ (Learnt' /\ Idle'))
<1>1. lines' = Tail(lines) /\ UNCHANGED serverVars /\ lines # <<>>
  BY ReaderIs
<1>2. server' = server /\ me' = me /\ members' = members /\ server \in Profile /\ known = {}
  BY <1>1 DEF serverVars, WorldOK, Learning
<1>3. ASSUME UNCHANGED <<listVars, batches, history>> PROVE WorldOK' /\ NoneOpen' /\ known' = {}
  BY <1>1, <1>2, <1>3, ReaderTyped DEF listVars, history, WorldOK, NoneOpen
<1>4. ASSUME known' = {}, nick' = me, lines' = <<>> PROVE Idle'
  BY <1>2, <1>4 DEF Idle, Becomes, Counts
<1>5. ASSUME Line = Welcome(me),
             \/ lines' = <<Myinfo(server), Chanmodes(server), Prefix(server)>>
             \/ lines' = <<Myinfo(server), Prefix(server), Chanmodes(server)>>
      PROVE  WorldOK' /\ NoneOpen' /\ Learning'
  <2>1. OnWelcome
    BY <1>5, ReaderIs DEF Welcome
  <2>2. nick' = me /\ UNCHANGED <<listVars, batches, history>>
    BY <1>5, <2>1 DEF OnWelcome, Welcome
  <2> QED
    BY <1>2, <1>3, <1>5, <2>2 DEF Learning, Myinfo, Chanmodes, Prefix
<1>6. ASSUME nick = me, Line = Myinfo(server),
             \/ lines' = <<Chanmodes(server), Prefix(server)>>
             \/ lines' = <<Prefix(server), Chanmodes(server)>>
      PROVE  WorldOK' /\ NoneOpen' /\ Learning'
  <2>1. OnMyinfo
    BY <1>6, ReaderIs DEF Myinfo
  <2>2. nick' = me /\ DOMAIN chanmodes' = DOMAIN server.types /\ UNCHANGED <<listVars, batches, history>>
    BY <1>6, <2>1 DEF OnMyinfo, Myinfo
  <2> QED
    BY <1>2, <1>3, <1>6, <2>2 DEF Learning, Chanmodes, Prefix
<1>7. ASSUME nick = me, Line = Chanmodes(server), DOMAIN chanmodes = DOMAIN server.types
      PROVE  /\ OnChanmodes /\ WorldOK' /\ NoneOpen' /\ known' = {} /\ nick' = me
             /\ prefixes' = prefixes
  <2>1. OnChanmodes
    BY <1>7, ReaderIs DEF Chanmodes
  <2> QED
    BY <1>3, <1>7, <2>1 DEF OnChanmodes
<1>8. ASSUME nick = me, Line = Prefix(server), DOMAIN chanmodes = DOMAIN server.types
      PROVE  OnPrefix /\ WorldOK' /\ NoneOpen' /\ known' = {} /\ nick' = me
  <2>1. OnPrefix
    BY <1>8, ReaderIs DEF Prefix
  <2> QED
    BY <1>3, <1>8, <2>1 DEF OnPrefix
<1>9. CASE \/ lines = <<Welcome(me), Myinfo(server), Chanmodes(server), Prefix(server)>>
           \/ lines = <<Welcome(me), Myinfo(server), Prefix(server), Chanmodes(server)>>
  <2>1. CASE lines = <<Welcome(me), Myinfo(server), Chanmodes(server), Prefix(server)>>
    BY <1>1, <1>5, <2>1, LongLists DEF Line
  <2>2. CASE lines = <<Welcome(me), Myinfo(server), Prefix(server), Chanmodes(server)>>
    BY <1>1, <1>5, <2>2, LongLists DEF Line
  <2> QED
    BY <1>9, <2>1, <2>2
<1>10. CASE nick = me /\ lines = <<Myinfo(server), Chanmodes(server), Prefix(server)>>
  BY <1>1, <1>6, <1>10, LongLists DEF Line
<1>11. CASE nick = me /\ lines = <<Myinfo(server), Prefix(server), Chanmodes(server)>>
  BY <1>1, <1>6, <1>11, LongLists DEF Line
<1>12. CASE /\ nick = me /\ DOMAIN chanmodes = DOMAIN server.types
            /\ lines = <<Chanmodes(server), Prefix(server)>>
  <2>1. Line = Chanmodes(server) /\ lines' = <<Prefix(server)>>
    BY <1>1, <1>12, ShortLists DEF Line
  <2>2. /\ DOMAIN chanmodes' = DOMAIN server.types
        /\ \A l \in DOMAIN server.types \ Elements(server.ranks) :
             chanmodes'[l].type = server.types[l] /\ chanmodes'[l].prefix = ""
    BY <1>2, <1>7, <1>12, <2>1, ChanmodesAreRead
  <2> QED
    BY <1>2, <1>7, <1>12, <2>1, <2>2 DEF Learning, Unnamed, Prefix
<1>13. CASE /\ nick = me /\ DOMAIN chanmodes = DOMAIN server.types
            /\ lines = <<Prefix(server), Chanmodes(server)>>
  <2>1. Line = Prefix(server) /\ lines' = <<Chanmodes(server)>>
    BY <1>1, <1>13, ShortLists DEF Line
  <2>2. /\ DOMAIN chanmodes' = DOMAIN server.types
        /\ prefixes' = Symbols(server.ranks)
        /\ \A l \in Elements(server.ranks) :
             chanmodes'[l].type = "b" /\ chanmodes'[l].prefix = Symbol(l)
    BY <1>2, <1>8, <1>13, <2>1, PrefixIsRead
  <2>3. \A l \in Elements(server.ranks) : Ranked(l)'
    BY <1>2, <2>2 DEF Ranked
  <2>4. Symbols(server.ranks)' = Symbols(server.ranks)
    BY <1>2 DEF Symbols
  <2> QED
    BY <1>2, <1>8, <1>13, <2>1, <2>2, <2>3, <2>4 DEF Learning, Chanmodes
<1>14. CASE /\ nick = me /\ DOMAIN chanmodes = DOMAIN server.types
            /\ lines = <<Prefix(server)>>
            /\ \A l \in DOMAIN server.types \ Elements(server.ranks) : Unnamed(l)
  <2>1. Line = Prefix(server) /\ lines' = <<>>
    BY <1>1, <1>14, ShortLists DEF Line
  <2>2. /\ DOMAIN chanmodes' = DOMAIN server.types
        /\ prefixes' = Symbols(server.ranks)
        /\ \A l \in Elements(server.ranks) :
             chanmodes'[l].type = "b" /\ chanmodes'[l].prefix = Symbol(l)
        /\ \A l \in DOMAIN server.types \ Elements(server.ranks) : chanmodes'[l] = chanmodes[l]
    BY <1>2, <1>8, <1>14, <2>1, PrefixIsRead
  <2>3. ASSUME NEW l \in DOMAIN server.types PROVE LearntMode(l)'
    <3>1. l \in Elements(server.ranks) => server.types[l] = "b"
      BY <1>2, RanksOfProfile
    <3> QED
      BY <1>2, <1>14, <2>2, <3>1 DEF LearntMode, Unnamed
  <2>4. Learnt'
    BY <1>2, <2>2, <2>3 DEF Learnt
  <2> QED
    BY <1>4, <1>8, <1>14, <2>1, <2>4
<1>15. CASE /\ nick = me /\ DOMAIN chanmodes = DOMAIN server.types
            /\ lines = <<Chanmodes(server)>>
            /\ prefixes = Symbols(server.ranks)
            /\ \A l \in Elements(server.ranks) : Ranked(l)
  <2>1. Line = Chanmodes(server) /\ lines' = <<>>
    BY <1>1, <1>15, ShortLists DEF Line
  <2>2. /\ DOMAIN chanmodes' = DOMAIN server.types
        /\ \A l \in DOMAIN server.types \ Elements(server.ranks) :
             chanmodes'[l].type = server.types[l] /\ chanmodes'[l].prefix = ""
        /\ \A l \in Elements(server.ranks) : chanmodes'[l] = chanmodes[l]
    BY <1>2, <1>7, <1>15, <2>1, ChanmodesAreRead
  <2>3. ASSUME NEW l \in DOMAIN server.types PROVE LearntMode(l)'
    <3>1. l \in Elements(server.ranks) => server.types[l] = "b"
      BY <1>2, RanksOfProfile
    <3> QED
      BY <1>2, <1>15, <2>2, <3>1 DEF LearntMode, Ranked
  <2>4. Learnt'
    BY <1>2, <1>7, <1>15, <2>1, <2>3 DEF Learnt
  <2> QED
    BY <1>4, <1>7, <1>15, <2>1, <2>4
<1> QED
  BY <1>9, <1>10, <1>11, <1>12, <1>13, <1>14, <1>15 DEF Learning

(* The client hears of its own kill.                                       *)
LEMMA KillIsRead ==
  ASSUME WorldOK, NoneOpen, session # "up", Reader
  PROVE  WorldOK' /\ NoneOpen' /\ session' # "up"
<1>1. lines # <<>> /\ lines' = Tail(lines) /\ UNCHANGED serverVars
  BY ReaderIs
<1>2. lines = <<KillLine(me)>>
  BY <1>1 DEF WorldOK
<1>3. Line.command = "KILL"
  BY <1>2, ShortLists DEF Line, KillLine
<1>4. OnKill
  BY <1>3, ReaderIs
<1>5. UNCHANGED <<buffers, batches, history>>
  BY <1>4 DEF OnKill
<1> QED
  BY <1>1, <1>5, ReaderTyped DEF WorldOK, NoneOpen, serverVars, history

-----------------------------------------------------------------------------
(* The invariant: it holds at first, and every step keeps it.              *)
LEMMA InitInv == Init => Inv
<1> SUFFICES ASSUME Init PROVE Inv
  OBVIOUS
<1>1. ASSUME NEW c \in Channel PROVE Membership(members[c])
  BY DEF Init, Membership, NoNames
<1> QED
  BY <1>1 DEF Init, Inv, WorldOK, NoneOpen, NoLists, NoNames

LEMMA RestIs ==
  ASSUME Inv, session = "up", lines = <<>>
  PROVE  At_Rest
<1>1. WorldOK
  BY DEF Inv
<1>2. ~Learning
  BY ShortLists, LongLists DEF Learning
<1>3. ASSUME NEW c \in Channel PROVE ~Collecting(c)
  BY ShortLists, LongLists DEF Collecting, Lists
<1>4. Learnt /\ Reading /\ NoneOpen
  BY <1>2, <1>3 DEF Inv
<1>5. ~(\E n \in Nick, c \in Channel : Joined(n, c))
  BY ShortLists DEF Joined
<1>6. ~(\E command \in {"PART", "KICK"}, n \in Nick, c \in Channel : Left(command, n, c))
  BY ShortLists DEF Left
<1>7. ~(\E n \in Nick : Quitted(n))
  BY ShortLists DEF Quitted
<1>8. ~(\E n, new \in Nick : Renamed(n, new))
  BY ShortLists DEF Renamed
<1>9. ~(\E c \in Channel, flag \in Flags(Elements(server.ranks)),
           before \in {<<>>} \cup {<<f>> : f \in OtherFlags}, n \in Nick : ModeSet(c, before, flag, n))
  BY ShortLists DEF ModeSet
<1>10. ~(\E c \in Channel : Entering(c))
  BY DEF Entering
<1>11. Split => Idle
  BY DEF Split, Idle
<1>12. Idle
  BY <1>4, <1>5, <1>6, <1>7, <1>8, <1>9, <1>10, <1>11 DEF Reading
<1> QED
  BY <1>1, <1>4, <1>12 DEF At_Rest

LEMMA WorldInv ==
  ASSUME Inv, World
  PROVE  Inv'
<1>1. WorldOK /\ (session # "up" => NoneOpen)
  BY DEF Inv
<1>2. ASSUME NEW p \in Profile, NEW n \in Nick, NEW free \in Nick, NEW held \in {{}, Channel},
             NEW first \in {"CHANMODES", "PREFIX"}, Registers(p, n, free, held, first)
      PROVE  Inv'
  <2>1. session = "none" /\ session' = "up"
    BY <1>2 DEF Registers
  <2> QED
    BY <1>1, <1>2, <2>1, RegistersTyped, RegistersLearns DEF Inv
<1>3. ASSUME NEW noticed \in BOOLEAN, Loses(noticed) PROVE Inv'
  BY <1>1, <1>3, LosesTyped, LosesOpen DEF Inv
<1>4. Happens => At_Rest
  BY RestIs DEF Happens
<1>5. Happens => Learnt' /\ NoneOpen'
  BY <1>4, RestKept
<1>6. Happens /\ UNCHANGED session => session' = "up"
  BY DEF Happens
<1>7. ASSUME Happens, UNCHANGED session, WorldOK', Reading' PROVE Inv'
  BY <1>5, <1>6, <1>7 DEF Inv
<1>8. ASSUME NEW c \in Channel, NEW some, IJoin(c, some) PROVE Inv'
  <2>1. Happens /\ UNCHANGED session
    BY <1>8 DEF IJoin, SameUsers
  <2> QED
    BY <1>4, <1>7, <1>8, <2>1, IJoinRead DEF Reading
<1>9. ASSUME NEW c \in Channel, NEW some, IAskNames(c, some) PROVE Inv'
  <2>1. Happens /\ UNCHANGED session
    BY <1>9 DEF IAskNames, SameUsers
  <2>2. WorldOK' /\ Collecting(c)'
    BY <1>4, <1>9, <2>1, AsksRead
  <2>3. DOMAIN buffers' \subseteq carried' \cup {c}
    BY <1>5, <2>1 DEF NoneOpen
  <2> QED
    BY <1>5, <1>6, <2>1, <2>2, <2>3 DEF Inv
<1>10. ASSUME NEW n \in Nick, NEW c \in Channel, Joins(n, c) PROVE Inv'
  <2>1. Happens /\ UNCHANGED session
    BY <1>10 DEF Joins, SameUsers
  <2> QED
    BY <1>4, <1>7, <1>10, <2>1, JoinsRead DEF Reading
<1>11. ASSUME NEW n \in Nick, NEW c \in Channel, NEW command \in {"PART", "KICK"}, Leaves(command, n, c)
       PROVE  Inv'
  <2>1. Happens /\ UNCHANGED session
    BY <1>11 DEF Leaves, SameUsers
  <2> QED
    BY <1>4, <1>7, <1>11, <2>1, LeavesRead DEF Reading
<1>12. ASSUME NEW n \in Nick, Quits(n) PROVE Inv'
  <2>1. Happens /\ UNCHANGED session
    BY <1>12 DEF Quits
  <2> QED
    BY <1>4, <1>7, <1>12, <2>1, QuitsRead DEF Reading
<1>13. ASSUME NEW gone \in SUBSET Nick, Netsplit(gone) PROVE Inv'
  <2>1. Happens /\ UNCHANGED session
    BY <1>13 DEF Netsplit
  <2> QED
    BY <1>4, <1>7, <1>13, <2>1, NetsplitRead DEF Reading
<1>14. ASSUME NEW n \in Nick, NEW new \in Nick, Renames(n, new) PROVE Inv'
  <2>1. Happens /\ UNCHANGED session
    BY <1>14 DEF Renames
  <2> QED
    BY <1>4, <1>7, <1>14, <2>1, RenamesRead DEF Reading
<1>15. ASSUME NEW c \in Channel, NEW n \in Nick, NEW flag \in Flags(Elements(server.ranks)),
              NEW before \in {<<>>} \cup {<<f>> : f \in OtherFlags}, SetsMode(c, before, flag, n)
       PROVE  Inv'
  <2>1. Happens /\ UNCHANGED session /\ server' = server
    BY <1>15 DEF SetsMode, SameUsers, Happens
  <2>2. WorldOK' /\ ModeSet(c, before, flag, n)'
    BY <1>4, <1>15, <2>1, SetsModeRead
  <2>3. flag \in Flags(Elements(server'.ranks)) /\ before \in {<<>>} \cup {<<f>> : f \in OtherFlags'}
    BY <1>15, <2>1 DEF OtherFlags, Flags
  <2>4. Reading'
    BY <2>2, <2>3 DEF Reading
  <2> QED
    BY <1>7, <2>1, <2>2, <2>4
<1>16. ASSUME Killed PROVE Inv'
  <2>1. Happens
    BY <1>16 DEF Killed
  <2> QED
    BY <1>4, <1>16, <2>1, KilledRead DEF Inv
<1> QED
  BY <1>2, <1>3, <1>8, <1>9, <1>10, <1>11, <1>12, <1>13, <1>14, <1>15, <1>16 DEF World

LEMMA ReaderInv ==
  ASSUME Inv, Reader
  PROVE  Inv'
<1>1. WorldOK
  BY DEF Inv
<1>2. CASE session # "up"
  BY <1>1, <1>2, KillIsRead DEF Inv
<1>3. CASE session = "up"
  <2>1. session' = "up"
    BY <1>3, ReaderIs DEF serverVars
  <2>2. CASE Learning /\ NoneOpen
    <3>1. WorldOK' /\ NoneOpen' /\ (Learning' \/ (Learnt' /\ Idle'))
      BY <1>1, <2>2, LearningIsRead
    <3> QED
      BY <2>1, <3>1 DEF Inv, Reading
  <2>3. CASE Learnt /\ Reading /\ NoneOpen
    <3>1. ASSUME WorldOK', Learnt', Idle' \/ Split', UNCHANGED <<buffers, carried>>
          PROVE  Inv'
      BY <2>1, <2>3, <3>1 DEF Inv, Reading, NoneOpen
    <3>2. lines # <<>>
      BY ReaderIs
    <3>3. ~Idle
      BY <3>2 DEF Idle
    <3>4. ASSUME NEW n \in Nick, NEW c \in Channel, Joined(n, c) PROVE Inv'
      BY <1>1, <2>3, <3>1, <3>4, JoinedIsRead
    <3>5. ASSUME NEW command \in {"PART", "KICK"}, NEW n \in Nick, NEW c \in Channel, Left(command, n, c)
          PROVE  Inv'
      BY <1>1, <2>3, <3>1, <3>5, LeftIsRead
    <3>6. ASSUME NEW n \in Nick, Quitted(n) PROVE Inv'
      BY <1>1, <2>3, <3>1, <3>6, QuittedIsRead
    <3>7. ASSUME NEW n \in Nick, NEW new \in Nick, Renamed(n, new) PROVE Inv'
      BY <1>1, <2>3, <3>1, <3>7, RenamedIsRead
    <3>8. ASSUME NEW c \in Channel, NEW flag \in Flags(Elements(server.ranks)),
                 NEW before \in {<<>>} \cup {<<f>> : f \in OtherFlags}, NEW n \in Nick,
                 ModeSet(c, before, flag, n)
          PROVE  Inv'
      BY <1>1, <2>3, <3>1, <3>8, ModeSetIsRead
    <3>9. ASSUME Split PROVE Inv'
      BY <1>1, <2>3, <3>1, <3>9, SplitIsRead
    <3>10. ASSUME NEW c \in Channel, Entering(c) PROVE Inv'
      <4>1. WorldOK' /\ Learnt' /\ Collecting(c)' /\ UNCHANGED <<buffers, carried>>
        BY <1>1, <2>3, <3>10, EnteringIsRead
      <4>2. DOMAIN buffers' \subseteq carried' \cup {c}
        BY <2>3, <4>1 DEF NoneOpen
      <4> QED
        BY <2>1, <4>1, <4>2 DEF Inv
    <3> QED
      BY <2>3, <3>3, <3>4, <3>5, <3>6, <3>7, <3>8, <3>9, <3>10 DEF Reading
  <2>4. ASSUME NEW c \in Channel, Learnt, Collecting(c), DOMAIN buffers \subseteq carried \cup {c}
        PROVE  Inv'
    <3>1. /\ WorldOK' /\ Learnt'
          /\ \/ Collecting(c)' /\ DOMAIN buffers' \subseteq carried' \cup {c}
             \/ Idle' /\ NoneOpen'
      BY <1>1, <2>4, CollectingIsRead
    <3> QED
      BY <2>1, <3>1 DEF Inv, Reading
  <2> QED
    BY <1>3, <2>2, <2>3, <2>4 DEF Inv
<1> QED
  BY <1>2, <1>3

LEMMA StutterInv ==
  ASSUME Inv, UNCHANGED vars
  PROVE  Inv'
<1>1. /\ UNCHANGED <<session, server, me, online, members, lines, nick, chanmodes, prefixes>>
      /\ UNCHANGED <<buffers, namesMap, nicklists, batches, known, carried>>
  BY DEF vars, serverVars, modeVars, listVars, history
<1>2. WorldOK' /\ (Learnt => Learnt') /\ (Learning => Learning') /\ (NoneOpen <=> NoneOpen')
  BY <1>1 DEF Inv, WorldOK, Membership, Learnt, LearntMode, Learning, Unnamed, Ranked, NoneOpen
<1>3. \A k \in Channel : Counts(k)' = Counts(k) /\ Kept(k)' = Kept(k)
  BY <1>1 DEF Counts, Inside, Kept
<1>4. Idle => Idle'
  BY <1>1, <1>3 DEF Idle, Becomes
<1>5. \A n \in Nick, c \in Channel : Joined(n, c) => Joined(n, c)'
  BY <1>1, <1>3 DEF Joined, Becomes
<1>6. \A command \in {"PART", "KICK"}, n \in Nick, c \in Channel :
        Left(command, n, c) => Left(command, n, c)'
  BY <1>1, <1>3 DEF Left, Becomes, Inside
<1>7. \A n \in Nick : Quitted(n) => Quitted(n)'
  BY <1>1, <1>3 DEF Quitted, Becomes
<1>8. \A n, new \in Nick : Renamed(n, new) => Renamed(n, new)'
  BY <1>1, <1>3 DEF Renamed, Renaming, Becomes
<1>9. OtherFlags' = OtherFlags
  BY <1>1 DEF OtherFlags
<1>10. \A c \in Channel, flag \in Flags(Elements(server.ranks)),
          before \in {<<>>} \cup {<<f>> : f \in OtherFlags}, n \in Nick :
         ModeSet(c, before, flag, n) => ModeSet(c, before, flag, n)'
  <2> SUFFICES ASSUME NEW c \in Channel, NEW flag \in Flags(Elements(server.ranks)),
                      NEW before \in {<<>>} \cup {<<f>> : f \in OtherFlags}, NEW n \in Nick,
                      ModeSet(c, before, flag, n)
               PROVE  ModeSet(c, before, flag, n)'
    OBVIOUS
  <2>1. \A k \in Channel : Ranking(namesMap[k], n, flag)' = Ranking(namesMap[k], n, flag)
    BY <1>1 DEF Ranking
  <2>2. \A k \in Channel :
          Becomes(k, IF k = c THEN Ranking(namesMap[k], n, flag) ELSE namesMap[k])'
    BY <1>1, <1>3, <2>1 DEF ModeSet, Becomes
  <2>3. TakesArg(Head(before))' = TakesArg(Head(before))
    BY <1>1 DEF TakesArg
  <2>4. /\ nick' = me' /\ flag \in Flags(Elements(server'.ranks))
        /\ before \in {<<>>} \cup {<<f>> : f \in OtherFlags'}
    BY <1>1, <1>9 DEF ModeSet
  <2> DEFINE line(takes) == ModeLine(c, Append(before, flag),
                                     IF before # <<>> /\ takes THEN <<"argument", n>> ELSE <<n>>)
  <2>5. lines = <<line(TakesArg(Head(before)))>>
    BY DEF ModeSet
  <2> HIDE DEF line
  <2>6. lines' = <<line(TakesArg(Head(before))')>>
    BY <1>1, <2>3, <2>5
  <2> QED
    BY <2>2, <2>4, <2>6 DEF ModeSet, line
<1>11. Split => Split'
  BY <1>1, <1>3 DEF Split, Becomes
<1>12. \A c \in Channel : Entering(c) => Entering(c)'
  BY <1>1, <1>3 DEF Entering, Becomes
<1>13. Reading => Reading'
  BY <1>1, <1>4, <1>5, <1>6, <1>7, <1>8, <1>9, <1>10, <1>11, <1>12 DEF Reading
<1>14. \A c \in Channel : Collecting(c) => Collecting(c)'
  BY <1>1, <1>3 DEF Collecting, Read, Becomes
<1> QED
  BY <1>1, <1>2, <1>13, <1>14 DEF Inv

LEMMA NextInv == Inv /\ [Next]_vars => Inv'
  BY WorldInv, ReaderInv, StutterInv DEF Next

LEMMA InvHolds == Spec => []Inv
  BY InitInv, NextInv, PTL DEF Spec

-----------------------------------------------------------------------------
(* When every line has been read, the client has the modes and prefixes of *)
(* the server it is connected to, whichever it met before and whatever it  *)
(* assumed at first (chanmodes.ts, registration.ts).                       *)
THEOREM ModesAreLearnt == Spec => []PrefixesFollowServer
<1>1. Inv => PrefixesFollowServer
  BY RestIs DEF PrefixesFollowServer, Settled, At_Rest, Learnt, LearntMode
<1> QED
  BY <1>1, InvHolds, PTL

(* When every line has been read, state.user.nick is the nick the client   *)
(* has on the server, whatever it was before and whoever was renamed.      *)
THEOREM OwnNickIsFollowed == Spec => []OwnNickIsKnown
<1>1. Inv => OwnNickIsKnown
  BY RestIs DEF OwnNickIsKnown, Settled, At_Rest, Idle
<1> QED
  BY <1>1, InvHolds, PTL

(* When every line has been read, the list of a channel that was joined    *)
(* and listed is its membership, each nick with its highest prefix, after  *)
(* any number of arrivals, departures, renamings and modes (nicklist.ts).  *)
THEOREM ListsFollowMembership == Spec => []NicklistFollows
<1>1. Inv => NicklistFollows
  <2> SUFFICES ASSUME Inv, Settled, NEW c \in known, Inside(c)
               PROVE  /\ c \in DOMAIN nicklists
                      /\ nicklists[c] = {[nick |-> n, prefix |-> TopPrefix(members[c][n])] :
                                           n \in DOMAIN members[c]}
    BY DEF NicklistFollows
  <2>1. At_Rest
    BY RestIs DEF Settled
  <2>2. c \in Channel /\ server \in Profile
    BY <2>1 DEF At_Rest, WorldOK
  <2>3. Becomes(c, namesMap[c])
    BY <2>1, <2>2 DEF At_Rest, Idle
  <2>4. Kept(c) /\ namesMap[c] = Arrays(server.ranks, members[c])
    BY <2>2, <2>3 DEF Becomes, Counts
  <2>5. c \in DOMAIN nicklists /\ nicklists[c] = ListOf(server.ranks, Arrays(server.ranks, members[c]))
    BY <2>4 DEF Kept
  <2> QED
    BY <2>2, <2>5, ListIsMembership
<1> QED
  BY <1>1, InvHolds, PTL
=============================================================================
