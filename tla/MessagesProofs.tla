--------------------------- MODULE MessagesProofs ---------------------------
(***************************************************************************)
(* The safety of Messages, for any clients, nicks, texts, queries, offers  *)
(* and tags, and any number of them and of changes.                        *)
(*                                                                         *)
(* Every property relates what was said to what was heard, that is: the    *)
(* two ends of a pipe of lines that wait at the server and lines that were *)
(* relayed. What a thing that is said, a line in the pipe and an event     *)
(* contribute to a sequence is given by functions; what is heard, followed *)
(* by what the pipe contributes, is what was said (Conserved), since each  *)
(* step moves a contribution from one place to the next one. Answers come  *)
(* back through a second pipe (Balanced). The functions of a property, and *)
(* that no step changes what is contributed, are the rest of its proof.    *)
(***************************************************************************)
EXTENDS Messages, Induction

(* What texts are made of: the units of the texts that are said, and those *)
(* that the code adds to them.                                             *)
Literal == {" ", "?", ":", ";", "=", "@", "\"", "\\", "s", "r", "n", "cr", "lf",
            "DEFAULT_VERSION", "now", "PING", "TIME", "VERSION",
            "SEND", "CHAT", "SCHAT", "RESUME", "ACCEPT",
            "0", "1", "65535", "65536", "16909060", "0.0.0.0", "1.2.3.4", "::", "[::]",
            "FE80::1", "[fe80::1]", "irc.example", "localhost"}
Unit == STRING \cup Literal
Text == Seq(Unit)

LEMMA LiteralUnit ==
  ASSUME NEW u \in Literal
  PROVE  u \in Unit
  BY DEF Unit

LEMMA StringText ==
  ASSUME NEW s \in Seq(STRING)
  PROVE  s \in Text
<1>1. STRING \subseteq Unit
  BY DEF Unit
<1> QED
  BY <1>1, SeqMonotonic DEF Text

LEMMA BytesType ==
  ASSUME NEW text \in Text
  PROVE  /\ Bytes(text) \in Nat /\ Bytes(text) >= Len(text)
         /\ Len(text) = 0 => Bytes(text) = 0
         /\ Len(text) = 1 => Bytes(text) <= 3
<1> DEFINE double == {i \in DOMAIN text : text[i] = "e" \/ Paired(text, i)}
           triple == {i \in Halves(text) : ~Paired(text, i)}
<1>1. text \in Seq(Unit) /\ DOMAIN text = 1 .. Len(text) /\ Len(text) \in Nat
  BY DEF Text
<1>2. IsFiniteSet(1 .. Len(text)) /\ Cardinality(1 .. Len(text)) = Len(text)
  BY <1>1, FS_Interval
<1>3. double \in SUBSET (1 .. Len(text)) /\ triple \in SUBSET (1 .. Len(text))
  BY <1>1 DEF Halves
<1> HIDE DEF double, triple
<1>4. IsFiniteSet(double) /\ IsFiniteSet(triple)
  BY <1>2, <1>3, FS_Subset
<1>5. Cardinality(double) \in Nat /\ Cardinality(triple) \in Nat
  BY <1>4, FS_CardinalityType
<1>6. Bytes(text) = Len(text) + Cardinality(double) + 2 * Cardinality(triple)
  BY DEF Bytes, double, triple
<1>7. Cardinality({}) = 0
  BY FS_EmptySet
<1>8. ASSUME Len(text) = 0 PROVE Bytes(text) = 0
  <2>1. double = {} /\ triple = {}
    BY <1>3, <1>8
  <2> QED
    BY <1>6, <1>7, <1>8, <2>1
<1>9. ASSUME Len(text) = 1 PROVE Bytes(text) <= 3
  <2>1. Cardinality({1}) = 1
    BY FS_Singleton
  <2>2. double \in {{}, {1}} /\ triple \in {{}, {1}}
    <3>1. 1 .. Len(text) = {1}
      BY <1>9
    <3> QED
      BY <1>3, <3>1
  <2>3. double = {} \/ triple = {}
    <3>1. SUFFICES ASSUME 1 \in double, 1 \in triple PROVE FALSE
      BY <2>2
    <3>2. text[1] = "e" \/ Paired(text, 1)
      BY <3>1 DEF double
    <3>3. text[1] \in {"h", "l"} /\ ~Paired(text, 1)
      BY <3>1 DEF triple, Halves
    <3> QED
      BY <3>2, <3>3
  <2>4. Cardinality(double) \in {0, 1} /\ Cardinality(triple) \in {0, 1}
    BY <1>7, <2>1, <2>2
  <2>5. Cardinality(double) = 0 \/ Cardinality(triple) = 0
    BY <1>7, <2>3
  <2> QED
    BY <1>6, <1>9, <2>4, <2>5
<1> QED
  BY <1>1, <1>5, <1>6, <1>8, <1>9

(* The limit lets at least one unit through.                               *)
LEMMA CharLimitIs ==
  ASSUME NEW text \in Text, text # <<>>, NEW max \in Nat, max >= 3
  PROVE  /\ CharLimit(text, max) \in 1 .. Len(text)
         /\ Bytes(SubSeq(text, 1, CharLimit(text, max))) <= max
<1> DEFINE S == {k \in 0 .. Len(text) : Bytes(SubSeq(text, 1, k)) <= max}
<1>1. text \in Seq(Unit) /\ Len(text) \in Nat \ {0}
  BY DEF Text
<1>2. S \in SUBSET (0 .. Len(text))
  OBVIOUS
<1>3. 1 \in S
  <2>1. PICK one : one = SubSeq(text, 1, 1)
    OBVIOUS
  <2>2. one \in Seq(Unit) /\ Len(one) = 1
    BY <1>1, <2>1, Piece
  <2>3. Bytes(one) \in Nat /\ Bytes(one) <= 3
    BY <2>2, BytesType DEF Text
  <2> QED
    BY <1>1, <2>1, <2>3
<1>4. Max(S) \in S /\ Max(S) >= 1
  <2> HIDE DEF S
  <2> QED
    BY <1>1, <1>2, <1>3, Largest
<1>5. CharLimit(text, max) = Max(S)
  BY DEF CharLimit
<1> QED
  BY <1>4, <1>5

LEMMA CutIs ==
  ASSUME NEW text \in Text, text # <<>>, NEW max \in Nat, max >= 3
  PROVE  /\ Cut(text, max).end \in 1 .. Len(text)
         /\ Cut(text, max).end <= CharLimit(text, max)
         /\ Cut(text, max).next \in 2 .. Len(text) + 1
         /\ \/ /\ Cut(text, max).next = Cut(text, max).end + 1
               /\ Cut(text, max).next <= Len(text) => text[Cut(text, max).next] # Space
            \/ /\ Cut(text, max).next = Cut(text, max).end + 2
               /\ text[Cut(text, max).end + 1] = Space
<1> DEFINE limit == CharLimit(text, max)
           spaces == {p \in 2 .. Len(text) : p <= limit + 1 /\ text[p] = Space}
<1>1. limit \in 1 .. Len(text) /\ Len(text) \in Nat
  BY CharLimitIs DEF Text
<1> HIDE DEF limit
<1>2. Cut(text, max) = IF spaces = {} THEN [end |-> limit, next |-> limit + 1]
                       ELSE [end |-> Max(spaces) - 1, next |-> Max(spaces) + 1]
  BY DEF Cut, limit
<1>3. CASE spaces = {}
  <2>1. Cut(text, max).end = limit /\ Cut(text, max).next = limit + 1
    BY <1>2, <1>3
  <2>2. limit + 1 <= Len(text) => text[limit + 1] # Space
    BY <1>1, <1>3
  <2> QED
    BY <1>1, <2>1, <2>2 DEF limit
<1>4. CASE spaces # {}
  <2>1. spaces \in SUBSET (1 .. Len(text))
    OBVIOUS
  <2>2. Max(spaces) \in spaces
    <3> HIDE DEF spaces
    <3> QED
      BY <1>1, <1>4, <2>1, Greatest
  <2>3. PICK p : p = Max(spaces)
    OBVIOUS
  <2>4. p \in 2 .. Len(text) /\ p <= limit + 1 /\ text[p] = Space
    BY <2>2, <2>3
  <2>5. Cut(text, max).end = p - 1 /\ Cut(text, max).next = p + 1
    BY <1>2, <1>4, <2>3
  <2> QED
    BY <1>1, <2>4, <2>5 DEF limit
<1> QED
  BY <1>3, <1>4

(* The parts of a text, from each place of it on.                          *)
Rest(text, i) == SubSeq(text, i, Len(text))
Splits(f, text, max) ==
  /\ f \in [1 .. Len(text) + 1 -> Seq(Text)]
  /\ f[Len(text) + 1] = <<>>
  /\ \A i \in 1 .. Len(text) :
       f[i] = IF Bytes(Rest(text, i)) <= max THEN <<Rest(text, i)>>
              ELSE <<SubSeq(Rest(text, i), 1, Cut(Rest(text, i), max).end)>>
                     \o f[i - 1 + Cut(Rest(text, i), max).next]

LEMMA SplitSteps ==
  ASSUME NEW text \in Text, NEW max \in Nat, max >= 3, Bytes(text) > max
  PROVE  \E f : Splits(f, text, max) /\ SplitMessage(text, max) = f[1]
<1> DEFINE R(i) == SubSeq(text, i, Len(text))
           Fit(i) == Bytes(R(i)) <= max
           First(i) == <<SubSeq(R(i), 1, Cut(R(i), max).end)>>
           Later(i) == i - 1 + Cut(R(i), max).next
           Cat(s, t) == s \o t
           Split(f) == f = [i \in 1 .. Len(text) + 1 |->
                              IF i > Len(text) THEN <<>> ELSE IF Fit(i) THEN <<R(i)>>
                              ELSE Cat(First(i), f[Later(i)])]
           parts == CHOOSE f : Split(f)
<1>1. text \in Seq(Unit) /\ Len(text) \in Nat
  BY DEF Text
<1>2. SplitMessage(text, max) = parts[1]
  <2>1. ~(max <= 0 \/ Bytes(text) <= max)
    BY BytesType
  <2> QED
    BY <2>1 DEF SplitMessage
<1>3. ASSUME NEW i \in 1 .. Len(text)
      PROVE  /\ R(i) \in Text /\ R(i) # <<>>
             /\ <<R(i)>> \in Seq(Text) /\ First(i) \in Seq(Text)
             /\ Later(i) \in i + 1 .. Len(text) + 1
  <2>1. PICK r : r = R(i)
    OBVIOUS
  <2>2. r \in Seq(Unit) /\ Len(r) = (Len(text) - i) + 1 /\ r # <<>>
    <3>1. i \in 1 .. Len(text) + 1 /\ Len(text) \in 0 .. Len(text) /\ i <= Len(text)
      BY <1>1
    <3>2. r \in Seq(Unit) /\ Len(r) = (Len(text) - i) + 1
      BY <1>1, <2>1, <3>1, Piece
    <3> QED
      BY <3>1, <3>2
  <2>3. PICK cut : cut = Cut(r, max)
    OBVIOUS
  <2>4. cut.end \in 1 .. Len(r) /\ cut.next \in 2 .. Len(r) + 1
    BY <2>2, <2>3, CutIs DEF Text
  <2>5. PICK first : first = SubSeq(r, 1, cut.end)
    OBVIOUS
  <2>6. first \in Text
    BY <2>2, <2>4, <2>5, Piece DEF Text
  <2>7. <<first>> \in Seq(Text) /\ <<r>> \in Seq(Text)
    BY <2>2, <2>6 DEF Text
  <2>8. i - 1 + cut.next \in i + 1 .. Len(text) + 1
    BY <1>1, <2>2, <2>4
  <2> QED
    BY <2>1, <2>2, <2>3, <2>5, <2>7, <2>8 DEF Text
<1>4. PICK V : V = Seq(Text)
  OBVIOUS
<1>5. \A s, t \in V : Cat(s, t) \in V
  BY <1>4
<1>6. <<>> \in V
  BY <1>4
<1> HIDE DEF R, Fit, First, Later, Cat, parts
<1>7. PICK n \in Nat : n = Len(text)
  BY <1>1
<1>8. PICK f \in [1 .. n + 1 -> V] :
        /\ f[n + 1] = <<>>
        /\ \A i \in 1 .. n : f[i] = IF Fit(i) THEN <<R(i)>> ELSE Cat(First(i), f[Later(i)])
  <2> DEFINE G == [p \in V \X (1 .. n) |-> IF Fit(p[2]) THEN <<R(p[2])>>
                                           ELSE Cat(First(p[2]), p[1])]
             next == [i \in 1 .. n |-> Later(i)]
  <2>1. /\ G \in [V \X (1 .. n) -> V]
        /\ \A s \in V, i \in 1 .. n :
             G[<<s, i>>] = IF Fit(i) THEN <<R(i)>> ELSE Cat(First(i), s)
    BY <1>3, <1>4, <1>5, <1>7
  <2>2. next \in [1 .. n -> Nat] /\ \A i \in 1 .. n : next[i] = Later(i) /\ next[i] \in i + 1 .. n + 1
    BY <1>3, <1>7
  <2> HIDE DEF G, next
  <2>3. PICK f : Unwinds(f, n, V, <<>>, next, G)
    <3>1. G \in Steps(V, n) /\ Onward(next, n)
      BY <2>1, <2>2 DEF Steps, Onward
    <3> QED
      BY <1>6, <3>1, Backwards
  <2>4. f \in [1 .. n + 1 -> V] /\ f[n + 1] = <<>>
    BY <2>3 DEF Unwinds
  <2>5. ASSUME NEW i \in 1 .. n PROVE f[i] = IF Fit(i) THEN <<R(i)>> ELSE Cat(First(i), f[Later(i)])
    <3>1. f[i] = G[<<f[next[i]], i>>]
      BY <2>3 DEF Unwinds
    <3>2. next[i] = Later(i) /\ next[i] \in 1 .. n + 1
      BY <2>2
    <3>3. f[next[i]] \in V
      BY <2>4, <3>2
    <3> QED
      BY <2>1, <3>1, <3>2, <3>3
  <2> QED
    BY <2>4, <2>5
<1>9. Split(f)
  <2>1. \A i \in 1 .. n + 1 : f[i] = IF i > n THEN <<>> ELSE IF Fit(i) THEN <<R(i)>>
                                     ELSE Cat(First(i), f[Later(i)])
    <3>1. ASSUME NEW i \in 1 .. n + 1, i > n PROVE f[i] = <<>>
      <4>1. i = n + 1
        BY <3>1
      <4> QED
        BY <1>8, <4>1
    <3>2. ASSUME NEW i \in 1 .. n + 1, ~(i > n)
          PROVE  f[i] = IF Fit(i) THEN <<R(i)>> ELSE Cat(First(i), f[Later(i)])
      <4>1. i \in 1 .. n
        BY <3>2
      <4> QED
        BY <1>8, <4>1
    <3> QED
      BY <3>1, <3>2
  <2> QED
    BY <1>7, <1>8, <2>1
<1>10. Split(parts)
  BY <1>9, Zenon DEF parts
<1>11. \A i \in 1 .. n : parts[i] = IF Fit(i) THEN <<R(i)>> ELSE Cat(First(i), parts[Later(i)])
  <2>1. \A i \in 1 .. n + 1 : parts[i] = IF i > n THEN <<>> ELSE IF Fit(i) THEN <<R(i)>>
                                     ELSE Cat(First(i), parts[Later(i)])
    BY <1>7, <1>10
  <2> HIDE DEF Split
  <2> QED
    BY <2>1
<1>12. parts[n + 1] = <<>>
  BY <1>7, <1>10
<1> HIDE DEF Split
<1> DEFINE S == {i \in 1 .. n + 1 : parts[i] = f[i]}
<1>13. n + 1 \in S
  BY <1>8, <1>12
<1>14. ASSUME NEW i \in 1 .. n, \A j \in i + 1 .. n + 1 : j \in S PROVE i \in S
  <2>1. parts[Later(i)] = f[Later(i)]
    BY <1>3, <1>7, <1>14
  <2>2. parts[i] = f[i]
    BY <1>8, <1>11, <2>1
  <2> QED
    BY <2>2
<1>15. 1 \in S
  <2>1. 1 \in 1 .. n + 1
    OBVIOUS
  <2> HIDE DEF S
  <2> QED
    BY <1>13, <1>14, <2>1, DownFrom
<1>16. SplitMessage(text, max) = f[1]
  BY <1>2, <1>15
<1>17. Splits(f, text, max)
  <2>1. f \in [1 .. Len(text) + 1 -> Seq(Text)] /\ f[Len(text) + 1] = <<>>
    BY <1>4, <1>7, <1>8
  <2>2. ASSUME NEW i \in 1 .. Len(text)
        PROVE  f[i] = IF Bytes(Rest(text, i)) <= max THEN <<Rest(text, i)>>
                      ELSE <<SubSeq(Rest(text, i), 1, Cut(Rest(text, i), max).end)>>
                             \o f[i - 1 + Cut(Rest(text, i), max).next]
    <3>1. f[i] = IF Fit(i) THEN <<R(i)>> ELSE Cat(First(i), f[Later(i)])
      BY <1>7, <1>8
    <3> QED
      BY <3>1 DEF Fit, R, First, Later, Cat, Rest
  <2> QED
    BY <2>1, <2>2 DEF Splits
<1> QED
  BY <1>16, <1>17

LEMMA SplitType ==
  ASSUME NEW text \in Text, NEW max \in Nat, max >= 3
  PROVE  SplitMessage(text, max) \in Seq(Text)
<1>1. CASE Bytes(text) > max
  <2>1. PICK f : Splits(f, text, max) /\ SplitMessage(text, max) = f[1]
    BY <1>1, SplitSteps
  <2>2. 1 \in 1 .. Len(text) + 1
    BY DEF Text
  <2> QED
    BY <2>1, <2>2 DEF Splits
<1>2. CASE ~(Bytes(text) > max)
  <2>1. Bytes(text) <= max
    BY <1>2, BytesType
  <2>2. SplitMessage(text, max) = <<text>>
    BY <2>1 DEF SplitMessage
  <2> QED
    BY <2>2
<1> QED
  BY <1>1, <1>2

LEMMA TrimEndIs ==
  ASSUME NEW text \in Text
  PROVE  \E n \in 0 .. Len(text) :
           /\ TrimEnd(text) = SubSeq(text, 1, n) /\ TrimEnd(text) \in Text
           /\ \A i \in n + 1 .. Len(text) : text[i] = Space
           /\ n # 0 => text[n] # Space
<1> DEFINE S == {0} \cup {i \in DOMAIN text : text[i] # Space}
<1>1. text \in Seq(Unit) /\ Len(text) \in Nat /\ DOMAIN text = 1 .. Len(text)
  BY DEF Text
<1>2. S \in SUBSET (0 .. Len(text)) /\ 0 \in S
  BY <1>1
<1>3. PICK n : n = Max(S)
  OBVIOUS
<1>4. n \in S /\ \A i \in S : n >= i
  <2> HIDE DEF S
  <2> QED
    BY <1>1, <1>2, <1>3, Largest
<1>5. n \in 0 .. Len(text) /\ (n # 0 => text[n] # Space)
  BY <1>1, <1>4
<1>6. \A i \in n + 1 .. Len(text) : text[i] = Space
  BY <1>1, <1>4, <1>5
<1>7. TrimEnd(text) = SubSeq(text, 1, n)
  BY <1>3 DEF TrimEnd
<1>8. SubSeq(text, 1, n) \in Text
  BY <1>1, <1>5, Piece DEF Text
<1> QED
  BY <1>5, <1>6, <1>7, <1>8

LEMMA AsSentType ==
  ASSUME NEW text \in Text
  PROVE  AsSent(text) \in Text
<1>1. TrimEnd(text) \in Text
  BY TrimEndIs
<1>2. CASE Prefixed(text) \/ text = <<>> \/ text[1] # Space
  BY <1>1, <1>2 DEF AsSent
<1>3. CASE ~(Prefixed(text) \/ text = <<>> \/ text[1] # Space)
  <2>1. PICK word : word = Tail(text)
    OBVIOUS
  <2>2. word \in Text
    BY <1>3, <2>1, HeadAndTail DEF Text
  <2>3. word # <<>> => Tail(word) \in Text
    BY <2>2, HeadAndTail DEF Text
  <2>4. AsSent(text) = IF word # <<>> /\ word[1] = ":" THEN Tail(word) ELSE word
    BY <1>3, <2>1 DEF AsSent
  <2> QED
    BY <2>2, <2>3, <2>4
<1> QED
  BY <1>2, <1>3

LEMMA DecodedType ==
  ASSUME NEW text \in Text
  PROVE  Decoded(text) \in Text /\ Len(Decoded(text)) = Len(text)
<1>1. text \in Seq(Unit) /\ DOMAIN text = 1 .. Len(text)
  BY DEF Text
<1>2. ASSUME NEW i \in 1 .. Len(text)
      PROVE  (IF i \in Halves(text) /\ ~Paired(text, i) THEN "?" ELSE text[i]) \in Unit
  <2>1. text[i] \in Unit /\ "?" \in Unit
    <3>1. "?" \in Literal
      BY DEF Literal
    <3> QED
      BY <1>1, <3>1, LiteralUnit
  <2> QED
    BY <2>1, Zenon
<1> QED
  BY <1>1, <1>2 DEF Decoded, Text

-----------------------------------------------------------------------------
(* Tags survive being written and read. A value is escaped unit by unit; a *)
(* mark tells of each unit that is read whether it follows an escape, which*)
(* makes of the units behind an escape what they were written for. What is *)
(* read for a unit at place i:                                             *)
Understood(s, f, i) ==
  IF f[i] THEN <<IF {c \in DOMAIN Replacement : Replacement[c] = s[i]} = {} THEN s[i]
                 ELSE CHOOSE c \in {c \in DOMAIN Replacement : Replacement[c] = s[i]} : TRUE>>
  ELSE IF s[i] = Escape /\ i < Len(s) THEN <<>> ELSE <<s[i]>>

(* What is unescaped, with the marks that are set when it is read.         *)
LEMMA UnescapeIs ==
  ASSUME NEW T, NEW s \in Seq(T)
  PROVE  \E f : /\ Marks(f, 1, 1, Len(s), s, Escape)
                /\ UnescapeTagValue(s) = FlattenSeq([i \in DOMAIN s |-> Understood(s, f, i)])
<1> DEFINE escaped == CHOOSE f : f = [i \in DOMAIN s |-> i > 1 /\ s[i - 1] = Escape /\ ~f[i - 1]]
<1>1. UnescapeTagValue(s) = FlattenSeq([i \in DOMAIN s |-> Understood(s, escaped, i)])
  BY DEF UnescapeTagValue, Understood
<1>2. \E f : f = [i \in DOMAIN s |-> i > 1 /\ s[i - 1] = Escape /\ ~f[i - 1]]
  <2>1. PICK f : Marks(f, 1, 1, Len(s), s, Escape)
    <3>1. Len(s) \in Nat /\ 1 \in Nat /\ 1 <= 1
      OBVIOUS
    <3> QED
      BY <3>1, Marking
  <2>2. DOMAIN s = 1 .. Len(s)
    OBVIOUS
  <2> QED
    BY <2>1, <2>2, Zenon DEF Marks
<1>3. escaped = [i \in DOMAIN s |-> i > 1 /\ s[i - 1] = Escape /\ ~escaped[i - 1]]
  BY <1>2, Zenon
<1> HIDE DEF escaped
<1>4. Marks(escaped, 1, 1, Len(s), s, Escape)
  <2>1. DOMAIN s = 1 .. Len(s)
    OBVIOUS
  <2> QED
    BY <1>3, <2>1, Zenon DEF Marks
<1> QED
  BY <1>1, <1>4

(* No unit is replaced by what another one is replaced by.                 *)
LEMMA ReplacementIs ==
  /\ DOMAIN Replacement = {";", " ", Escape, "cr", "lf"} /\ Escape \in DOMAIN Replacement
  /\ \A u \in DOMAIN Replacement : Replacement[u] \in {":", "s", "r", "n", Escape}
  /\ \A u, v \in DOMAIN Replacement : Replacement[u] = Replacement[v] => u = v
<1>1. DOMAIN Replacement = {";", " ", Escape, "cr", "lf"}
  BY DEF Replacement
<1>2. /\ Replacement[";"] = ":" /\ Replacement[" "] = "s" /\ Replacement[Escape] = Escape
      /\ Replacement["cr"] = "r" /\ Replacement["lf"] = "n"
  BY DEF Replacement, Escape
<1>3. Escape \notin {":", "s", "r", "n"}
  BY DEF Escape
<1> QED
  BY <1>1, <1>2, <1>3

(* A value is read as it was written.                                      *)
LEMMA Unescaped ==
  ASSUME NEW T, {":", "s", "r", "n", Escape} \cup DOMAIN Replacement \subseteq T, NEW v \in Seq(T)
  PROVE  UnescapeTagValue(EscapeTagValue(v)) = v
<1> DEFINE w == [i \in DOMAIN v |->
                  IF v[i] \in DOMAIN Replacement THEN <<Escape, Replacement[v[i]]>> ELSE <<v[i]>>]
<1>1. PICK s : s = EscapeTagValue(v) /\ s = FlattenSeq(w)
  BY DEF EscapeTagValue
<1>2. Codes(w, v, Escape, Replacement)
  BY DEF Codes
<1> HIDE DEF w
<1>3. Escape \in T /\ Escape \in DOMAIN Replacement /\ \A u \in DOMAIN Replacement : Replacement[u] \in T
  BY ReplacementIs
<1>4. s \in Seq(T)
  BY <1>1, <1>2, <1>3, CodesType, FlattenType
<1>5. PICK f : /\ Marks(f, 1, 1, Len(s), s, Escape)
               /\ UnescapeTagValue(s) = FlattenSeq([i \in DOMAIN s |-> Understood(s, f, i)])
  BY <1>4, UnescapeIs
<1>6. PICK l \in Nat : l = Len(s) /\ DOMAIN s = 1 .. l /\ \A k \in 1 .. l : s[k] \in T
  BY <1>4
<1>7. \A k \in 1 .. l : f[k] = (k > 1 /\ s[k - 1] = Escape /\ ~f[k - 1])
  BY <1>5, <1>6 DEF Marks
<1> DEFINE Y == {k \in 1 .. l : f[k]}
           X == Y \cup {k \in {l + 1} : k > 1 /\ s[k - 1] = Escape /\ k - 1 \notin Y}
<1>8. ASSUME NEW k \in 1 .. l + 1
      PROVE  k \in X <=> (k > 1 /\ s[k - 1] = Escape /\ k - 1 \notin X)
  <2>1. CASE k = l + 1
    <3>1. k \notin Y /\ k - 1 # l + 1
      BY <2>1
    <3> HIDE DEF Y
    <3> QED
      BY <2>1, <3>1
  <2>2. CASE k # l + 1
    <3>1. k \in 1 .. l /\ k - 1 # l + 1
      BY <2>2
    <3>2. k \in X <=> k \in Y /\ (k - 1 \in X <=> k - 1 \in Y)
      BY <2>2, <3>1
    <3>3. k \in Y <=> f[k]
      BY <3>1
    <3>4. k > 1 => (k - 1 \in Y <=> f[k - 1])
      BY <3>1
    <3>5. k - 1 \in X <=> k - 1 \in Y
      BY <3>1
    <3>6. k \in X <=> k \in Y
      BY <2>2
    <3> HIDE DEF X, Y
    <3>7. f[k] = (k > 1 /\ s[k - 1] = Escape /\ ~f[k - 1])
      BY <1>7, <3>1
    <3> QED
      BY <3>3, <3>4, <3>5, <3>6, <3>7
  <2> QED
    BY <2>1, <2>2
<1>9. \A k \in 1 .. l : k \in X <=> f[k]
  OBVIOUS
<1> HIDE DEF X, Y
<1>10. Escapes(X, s, Escape)
  BY <1>6, <1>8 DEF Escapes
<1>11. ASSUME NEW i \in 1 .. l
       PROVE  /\ i \notin X /\ s[i] # Escape => Understood(s, f, i) = <<s[i]>>
              /\ i \notin X /\ s[i] = Escape => (i < l => Understood(s, f, i) = <<>>)
              /\ i \in X => \A u \in DOMAIN Replacement : s[i] = Replacement[u] => Understood(s, f, i) = <<u>>
              /\ Understood(s, f, i) \in Seq(T)
  <2>1. CASE i \notin X
    <3>1. Understood(s, f, i) = IF s[i] = Escape /\ i < l THEN <<>> ELSE <<s[i]>>
      BY <1>6, <1>9, <2>1 DEF Understood
    <3>2. <<>> \in Seq(T) /\ <<s[i]>> \in Seq(T)
      BY <1>6
    <3> QED
      BY <2>1, <3>1, <3>2
  <2>2. CASE i \in X
    <3> DEFINE M == {c \in DOMAIN Replacement : Replacement[c] = s[i]}
    <3>1. Understood(s, f, i) = <<IF M = {} THEN s[i] ELSE CHOOSE c \in M : TRUE>>
      BY <1>9, <2>2 DEF Understood
    <3>2. PICK x : x = IF M = {} THEN s[i] ELSE CHOOSE c \in M : TRUE
      OBVIOUS
    <3>3. M # {} => x \in M
      BY <3>2
    <3>4. \A u \in DOMAIN Replacement : s[i] = Replacement[u] => u \in M
      OBVIOUS
    <3>5. \A c \in M : c \in DOMAIN Replacement /\ Replacement[c] = s[i]
      OBVIOUS
    <3>6. M = {} => x = s[i]
      BY <3>2
    <3>7. Understood(s, f, i) = <<x>>
      BY <3>1, <3>2
    <3> HIDE DEF M
    <3>8. \A u \in DOMAIN Replacement : s[i] = Replacement[u] => x = u
      BY <3>3, <3>4, <3>5, ReplacementIs
    <3>9. x \in T
      BY <1>6, <3>3, <3>5, <3>6
    <3>10. Understood(s, f, i) \in Seq(T)
      BY <3>7, <3>9
    <3>11. \A u \in DOMAIN Replacement : s[i] = Replacement[u] => Understood(s, f, i) = <<u>>
      BY <3>7, <3>8
    <3> QED
      BY <2>2, <3>10, <3>11
  <2> QED
    BY <2>1, <2>2
<1>12. PICK g : g = [i \in 1 .. l |-> Understood(s, f, i)]
  OBVIOUS
<1>13. g \in Seq(Seq(T)) /\ Len(g) = l
  <2>1. PICK U : U = Seq(T)
    OBVIOUS
  <2>2. \A i \in 1 .. l : Understood(s, f, i) \in U
    BY <1>11, <2>1
  <2>3. g \in Seq(U) /\ Len(g) = l
    BY <1>12, <2>2
  <2> QED
    BY <2>1, <2>3
<1>14. l + 1 \notin X /\ (Behind(g, s, X, Escape, Replacement) => FlattenSeq(g) = v)
  BY <1>1, <1>2, <1>3, <1>6, <1>10, <1>13, ReadsBack
<1>15. Behind(g, s, X, Escape, Replacement)
  <2>1. ASSUME NEW k \in 1 .. l, k \notin X, s[k] = Escape PROVE k < l
    <3>1. k = l => l + 1 \in X
      <4>1. l + 1 \in 1 .. l + 1 /\ (l + 1) - 1 = l /\ (k = l => l + 1 > 1)
        OBVIOUS
      <4> QED
        BY <1>8, <2>1, <4>1
    <3> QED
      BY <1>14, <3>1
  <2>2. \A k \in 1 .. l : g[k] = Understood(s, f, k)
    BY <1>12
  <2> QED
    BY <1>6, <1>11, <2>1, <2>2 DEF Behind
<1>16. UnescapeTagValue(s) = FlattenSeq(g)
  BY <1>5, <1>6, <1>12
<1> QED
  BY <1>1, <1>14, <1>15, <1>16

(* What tags are written with.                                             *)
Marked == {"@", ";", "=", " ", ":", "s", "r", "n", Escape} \cup DOMAIN Replacement
Semicolon == ";"
Gap == " "
Separators == {Semicolon, Gap}
TagsOf(T) == [key : Seq(T), given : BOOLEAN, value : Seq(T)]
Writable(tag) ==
  /\ tag.key # <<>> /\ \A k \in DOMAIN tag.key : tag.key[k] # "=" /\ tag.key[k] \notin Separators
  /\ ~tag.given => tag.value = <<>>

(* A tag that can be written is one that no separator is found in.         *)
LEMMA WritableTag ==
  ASSUME NEW tag, PlainTag(tag)
  PROVE  Writable(tag)
  BY Zenon DEF PlainTag, Writable, Separators, Semicolon, Gap

LEMMA SeparatorsAre ==
  /\ Semicolon \in Separators /\ Gap \in Separators /\ Semicolon # "@" /\ Gap # "@" /\ Gap # Semicolon
  /\ {"@", Semicolon, Gap, "="} \subseteq Marked
  BY Zenon DEF Separators, Semicolon, Gap, Marked

PairOf(tag) == IF tag.given THEN tag.key \o <<"=">> \o EscapeTagValue(tag.value) ELSE tag.key
Pairs(tags) == [i \in 1 .. Len(tags) - 1 |-> <<Semicolon>> \o PairOf(tags[i + 1])]

(* No escaped value and no pair has a separator in it.                     *)
LEMMA EscapeIn ==
  ASSUME NEW T, Marked \subseteq T, NEW v \in Seq(T)
  PROVE  EscapeTagValue(v) \in Seq(T \ Separators)
<1> DEFINE e(u) == IF u \in DOMAIN Replacement THEN <<Escape, Replacement[u]>> ELSE <<u>>
           w == [i \in DOMAIN v |-> e(v[i])]
<1>1. EscapeTagValue(v) = FlattenSeq(w)
  BY DEF EscapeTagValue
<1>2. PICK V : V = T \ Separators
  OBVIOUS
<1>3. {":", "s", "r", "n", Escape} \subseteq V
  BY <1>2, Zenon DEF Marked, Escape, Separators, Semicolon, Gap
<1>4. ASSUME NEW u \in T PROVE e(u) \in Seq(V)
  <2>1. CASE u \in DOMAIN Replacement
    <3>1. Escape \in V /\ Replacement[u] \in V
      BY <1>3, <2>1, ReplacementIs
    <3>2. e(u) = <<Escape, Replacement[u]>>
      BY <2>1
    <3> HIDE DEF e
    <3> QED
      BY <3>1, <3>2
  <2>2. CASE u \notin DOMAIN Replacement
    <3>1. u \in V
      BY <1>2, <2>2, ReplacementIs, Zenon DEF Separators, Semicolon, Gap
    <3> QED
      BY <2>2, <3>1
  <2> QED
    BY <2>1, <2>2
<1> HIDE DEF e
<1>5. PICK U : U = Seq(V)
  OBVIOUS
<1>6. w \in Seq(U)
  <2>1. DOMAIN v = 1 .. Len(v) /\ Len(v) \in Nat
    OBVIOUS
  <2>2. \A i \in 1 .. Len(v) : e(v[i]) \in U
    BY <1>4, <1>5
  <2>3. w = [i \in 1 .. Len(v) |-> e(v[i])]
    BY <2>1
  <2> QED
    BY <2>1, <2>2, <2>3
<1> QED
  BY <1>1, <1>2, <1>5, <1>6, FlattenType

(* Where the value of a tag lies in what is written of it.                 *)
Valued(tag) ==
  tag.given => /\ Len(PairOf(tag)) = Len(tag.key) + 1 + Len(EscapeTagValue(tag.value))
               /\ PairOf(tag)[Len(tag.key) + 1] = "="
               /\ \A i \in 1 .. Len(EscapeTagValue(tag.value)) :
                    PairOf(tag)[(Len(tag.key) + 1) + i] = EscapeTagValue(tag.value)[i]

LEMMA PairIn ==
  ASSUME NEW T, Marked \subseteq T, NEW tag \in TagsOf(T), Writable(tag)
  PROVE  /\ PairOf(tag) \in Seq(T \ Separators) /\ Len(PairOf(tag)) >= 1
         /\ ~tag.given => PairOf(tag) = tag.key
         /\ \A i \in 1 .. Len(tag.key) : tag.key[i] # "=" /\ PairOf(tag)[i] = tag.key[i]
         /\ Valued(tag)
<1>1. PICK V : V = T \ Separators
  OBVIOUS
<1>2. PICK a, b : a = tag.key /\ b = EscapeTagValue(tag.value)
  OBVIOUS
<1>3. a \in Seq(T) /\ a # <<>> /\ \A k \in 1 .. Len(a) : a[k] \in V \ {"="}
  <2>1. a \in Seq(T)
    BY <1>2 DEF TagsOf
  <2>2. DOMAIN a = 1 .. Len(a) /\ \A k \in 1 .. Len(a) : a[k] \in T
    BY <2>1
  <2>3. a # <<>> /\ \A k \in DOMAIN a : a[k] # "=" /\ a[k] \notin Separators
    BY <1>2 DEF Writable
  <2> QED
    BY <1>1, <2>1, <2>2, <2>3
<1>4. a \in Seq(V)
  BY <1>3
<1>5. b \in Seq(V)
  <2>1. tag.value \in Seq(T)
    BY DEF TagsOf
  <2> QED
    BY <1>1, <1>2, <2>1, EscapeIn
<1>6. "=" \in V
  BY <1>1, Zenon DEF Marked, Separators, Semicolon, Gap
<1>7. PICK c \in Seq(V) : c = <<"=">> /\ Len(c) = 1 /\ c[1] = "="
  <2>1. <<"=">> \in Seq(V) /\ Len(<<"=">>) = 1 /\ <<"=">>[1] = "="
    BY <1>6
  <2> QED
    BY <2>1
<1>8. PICK d \in Seq(V) : /\ d = a \o c /\ Len(d) = Len(a) + 1 /\ d[Len(a) + 1] = "="
                          /\ \A i \in 1 .. Len(a) : d[i] = a[i]
  <2>1. /\ a \o c \in Seq(V) /\ Len(a \o c) = Len(a) + Len(c)
        /\ \A i \in 1 .. Len(a) : (a \o c)[i] = a[i]
        /\ \A i \in 1 .. Len(c) : (a \o c)[Len(a) + i] = c[i]
    BY <1>4, Concatenates
  <2>2. 1 \in 1 .. Len(c)
    BY <1>7
  <2> QED
    BY <1>7, <2>1, <2>2
<1>9. PICK p \in Seq(V) : /\ p = d \o b /\ Len(p) = Len(d) + Len(b)
                          /\ \A i \in 1 .. Len(d) : p[i] = d[i]
                          /\ \A i \in 1 .. Len(b) : p[Len(d) + i] = b[i]
  <2>1. /\ d \o b \in Seq(V) /\ Len(d \o b) = Len(d) + Len(b)
        /\ \A i \in 1 .. Len(d) : (d \o b)[i] = d[i]
        /\ \A i \in 1 .. Len(b) : (d \o b)[Len(d) + i] = b[i]
    BY <1>5, Concatenates
  <2> QED
    BY <2>1
<1>10. Len(a) \in Nat /\ Len(b) \in Nat /\ Len(a) >= 1
  BY <1>3, <1>5
<1>11. PairOf(tag) = IF tag.given THEN p ELSE a
  BY <1>2, <1>7, <1>8, <1>9 DEF PairOf
<1>12. CASE tag.given
  <2>1. Len(a) + 1 \in 1 .. Len(d) /\ \A i \in 1 .. Len(a) : i \in 1 .. Len(d)
    BY <1>8, <1>10
  <2>2. p[Len(a) + 1] = "=" /\ \A i \in 1 .. Len(a) : p[i] = a[i]
    BY <1>8, <1>9, <2>1
  <2>3. Len(p) = Len(a) + 1 + Len(b) /\ Len(p) >= 1
    BY <1>8, <1>9, <1>10
  <2>4. \A i \in 1 .. Len(b) : p[(Len(a) + 1) + i] = b[i]
    BY <1>8, <1>9
  <2>5. Valued(tag)
    BY <1>2, <1>11, <1>12, <2>2, <2>3, <2>4 DEF Valued
  <2> QED
    BY <1>1, <1>2, <1>3, <1>11, <1>12, <2>2, <2>3, <2>5
<1>13. CASE ~tag.given
  <2>1. Valued(tag)
    BY <1>13 DEF Valued
  <2> QED
    BY <1>1, <1>2, <1>3, <1>4, <1>10, <1>11, <1>13, <2>1
<1> QED
  BY <1>12, <1>13

(* The tags, each behind its separator.                                    *)
Seps(n) == [j \in 1 .. n |-> IF j = 1 THEN "@" ELSE Semicolon]
AllPairs(tags) == [j \in 1 .. Len(tags) |-> PairOf(tags[j])]

LEMMA TagsLaid ==
  ASSUME NEW T, Marked \subseteq T, NEW tags \in Seq(TagsOf(T)), tags # <<>>,
         \A j \in 1 .. Len(tags) : Writable(tags[j])
  PROVE  \E s \in Seq(T) : /\ FormatTags(tags) = s \o <<Gap>>
                           /\ \E at : PlacedBehind(at, Seps(Len(tags)), AllPairs(tags), s)
<1>1. PICK n \in Nat : n = Len(tags) /\ n >= 1
  OBVIOUS
<1>2. PICK sep, p : sep = Seps(n) /\ p = AllPairs(tags)
  OBVIOUS
<1>3. ASSUME NEW j \in 1 .. n
      PROVE  PairOf(tags[j]) \in Seq(T) /\ p[j] = PairOf(tags[j]) /\ sep[j] \in T
  <2>1. tags[j] \in TagsOf(T) /\ Writable(tags[j])
    BY <1>1
  <2>2. PairOf(tags[j]) \in Seq(T \ Separators)
    BY <2>1, PairIn
  <2>3. Seq(T \ Separators) \subseteq Seq(T)
    BY SeqMonotonic
  <2>4. sep[j] \in {"@", Semicolon}
    BY <1>2 DEF Seps
  <2>5. p[j] = PairOf(tags[j])
    BY <1>1, <1>2 DEF AllPairs
  <2> QED
    BY <2>2, <2>3, <2>4, <2>5, Zenon DEF Marked, Semicolon
<1>4. PICK U : U = Seq(T)
  OBVIOUS
<1>5. p \in Seq(U) /\ Len(p) = n
  <2>1. p = [j \in 1 .. n |-> PairOf(tags[j])]
    BY <1>1, <1>2 DEF AllPairs
  <2>2. \A j \in 1 .. n : PairOf(tags[j]) \in U
    BY <1>3, <1>4
  <2> QED
    BY <2>1, <2>2
<1> DEFINE w == [j \in 1 .. n |-> <<sep[j]>> \o p[j]]
<1>6. Behinds(w, sep, p)
  BY <1>5 DEF Behinds
<1>7. /\ w \in Seq(Seq(T)) /\ FlattenSeq(w) \in Seq(T)
      /\ \E at : PlacedBehind(at, sep, p, FlattenSeq(w))
  <2> HIDE DEF w
  <2> QED
    BY <1>3, <1>4, <1>5, <1>6, Separated
<1>8. w[1] = <<"@">> \o PairOf(tags[1]) /\ \A j \in 2 .. n : w[j] = <<Semicolon>> \o PairOf(tags[j])
  <2>1. sep[1] = "@" /\ \A j \in 2 .. n : sep[j] = Semicolon
    <3>1. sep = [j \in 1 .. n |-> IF j = 1 THEN "@" ELSE Semicolon]
      BY <1>1, <1>2 DEF Seps
    <3>2. 1 \in 1 .. n /\ \A j \in 2 .. n : j \in 1 .. n /\ j # 1
      BY <1>1
    <3> QED
      BY <3>1, <3>2
  <2>2. \A j \in 1 .. n : w[j] = <<sep[j]>> \o PairOf(tags[j])
    BY <1>3
  <2>3. 1 \in 1 .. n /\ \A j \in 2 .. n : j \in 1 .. n
    BY <1>1
  <2> HIDE DEF w
  <2> QED
    BY <2>1, <2>2, <2>3
<1>9. PICK W : W = Seq(T)
  OBVIOUS
<1>10. Pairs(tags) = [i \in 1 .. n - 1 |-> w[i + 1]]
  <2> DEFINE q(j) == <<Semicolon>> \o PairOf(tags[j])
  <2>1. Pairs(tags) = [i \in 1 .. n - 1 |-> q(i + 1)]
    BY <1>1 DEF Pairs
  <2>2. \A j \in 2 .. n : w[j] = q(j)
    BY <1>8
  <2> HIDE DEF q, w
  <2>3. \A i \in 1 .. n - 1 : i + 1 \in 2 .. n
    BY <1>1
  <2>4. \A i \in 1 .. n - 1 : q(i + 1) = w[i + 1]
    BY <2>2, <2>3
  <2> QED
    BY <2>1, <2>4
<1> HIDE DEF w
<1>13. w \in Seq(W) /\ Len(w) = n /\ \A j \in 1 .. n : w[j] \in W
  <2>1. DOMAIN w = 1 .. n
    BY DEF w
  <2>2. w \in Seq(W)
    BY <1>7, <1>9
  <2> QED
    BY <1>1, <2>1, <2>2
<1>14. Pairs(tags) \in Seq(W) /\ <<w[1]>> \in Seq(W) /\ w = <<w[1]>> \o Pairs(tags)
  <2>1. PICK r : r = [i \in 1 .. n - 1 |-> w[i + 1]]
    OBVIOUS
  <2>2. n - 1 \in Nat /\ \A i \in 1 .. n - 1 : i + 1 \in 1 .. n
    BY <1>1
  <2>3. \A i \in 1 .. n - 1 : w[i + 1] \in W
    BY <1>13, <2>2
  <2>4. r \in Seq(W) /\ Len(r) = n - 1
    BY <2>1, <2>2, <2>3
  <2>5. PICK h \in Seq(W) : h = <<w[1]>> /\ Len(h) = 1 /\ h[1] = w[1]
    <3>1. w[1] \in W
      BY <1>1, <1>13
    <3>2. <<w[1]>> \in Seq(W) /\ Len(<<w[1]>>) = 1 /\ <<w[1]>>[1] = w[1]
      BY <3>1
    <3> QED
      BY <3>2
  <2>6. \A i \in 1 .. Len(r) : w[Len(h) + i] = r[i]
    <3>1. \A i \in 1 .. n - 1 : w[1 + i] = r[i]
      BY <1>1, <2>1
    <3> QED
      BY <2>4, <2>5, <3>1
  <2>7. Len(w) = Len(h) + Len(r) /\ \A i \in 1 .. Len(h) : w[i] = h[i]
    BY <1>1, <1>13, <2>4, <2>5
  <2>8. w = h \o r
    BY <1>13, <2>4, <2>6, <2>7, IsConcat
  <2> QED
    BY <1>10, <2>1, <2>4, <2>5, <2>8
<1>11. FlattenSeq(w) = w[1] \o FlattenSeq(Pairs(tags))
  <2>1. w[1] \in Seq(T) /\ <<w[1]>> \in Seq(Seq(T)) /\ Pairs(tags) \in Seq(Seq(T))
    BY <1>1, <1>9, <1>13, <1>14
  <2>2. FlattenSeq(<<w[1]>> \o Pairs(tags)) = FlattenSeq(<<w[1]>>) \o FlattenSeq(Pairs(tags))
    BY <2>1, FlattenConcat
  <2>3. FlattenSeq(<<w[1]>>) = w[1]
    BY <2>1, FlattenSmall
  <2> QED
    BY <1>14, <2>2, <2>3
<1>12. FormatTags(tags) = FlattenSeq(w) \o <<Gap>>
  <2>1. Head(tags) = tags[1]
    BY <1>1
  <2>2. FormatTags(tags) = <<"@">> \o PairOf(tags[1]) \o FlattenSeq(Pairs(tags)) \o <<Gap>>
    BY <2>1 DEF FormatTags, PairOf, Pairs, Gap, Semicolon
  <2> QED
    BY <1>8, <1>11, <2>2
<1> QED
  BY <1>1, <1>2, <1>7, <1>12

(* Where ParseTags finds tags, and the one it finds.                       *)
TagStarts(raw, end) == {i \in 2 .. end - 1 : i = 2 \/ raw[i - 1] = Semicolon}
TagFrom(raw, end, start) ==
  LET pos == Min({end} \cup {i \in start .. end - 1 : raw[i] = Semicolon})
      eq == Min({pos} \cup {i \in start .. pos - 1 : raw[i] = "="})
  IN IF eq < pos
     THEN Tag(SubSeq(raw, start, eq - 1), TRUE,
              UnescapeTagValue(SubSeq(raw, eq + 1, pos - 1)))
     ELSE Tag(SubSeq(raw, start, pos - 1), FALSE, <<>>)

(* A tag that lies in what is read, behind its separator at place a.       *)
Holds(raw, end, a, b, tag) ==
  /\ a \in Nat \ {0} /\ b \in Nat /\ b = (a + Len(PairOf(tag))) + 1 /\ b <= end
  /\ \A m \in 1 .. Len(PairOf(tag)) : raw[a + m] = PairOf(tag)[m]
  /\ b = end \/ raw[b] = Semicolon

(* It finds the tag that was written there.                                *)
LEMMA TagRead ==
  ASSUME NEW T, Marked \subseteq T, NEW tag \in TagsOf(T), Writable(tag),
         NEW raw \in Seq(T), NEW end \in 1 .. Len(raw), NEW a, NEW b, Holds(raw, end, a, b, tag)
  PROVE  TagFrom(raw, end, a + 1) = tag
<1>1. PICK p, k, v, e : p = PairOf(tag) /\ k = tag.key /\ v = tag.value /\ e = EscapeTagValue(v)
  OBVIOUS
<1>2. k \in Seq(T) /\ v \in Seq(T) /\ tag.given \in BOOLEAN
      /\ tag = [key |-> k, given |-> tag.given, value |-> v]
  BY <1>1 DEF TagsOf
<1>3. p \in Seq(T \ Separators) /\ e \in Seq(T) /\ p \in Seq(T)
  <2>1. p \in Seq(T \ Separators) /\ e \in Seq(T \ Separators)
    BY <1>1, <1>2, PairIn, EscapeIn
  <2>2. Seq(T \ Separators) \subseteq Seq(T)
    BY SeqMonotonic
  <2> QED
    BY <2>1, <2>2
<1>4. PICK np \in Nat, nk \in Nat, ne \in Nat : np = Len(p) /\ nk = Len(k) /\ ne = Len(e)
  <2>1. Len(p) \in Nat /\ Len(k) \in Nat /\ Len(e) \in Nat
    BY <1>2, <1>3
  <2> QED
    BY <2>1
<1>5. /\ np >= 1 /\ \A i \in 1 .. np : p[i] # Semicolon
      /\ ~tag.given => p = k
      /\ \A i \in 1 .. nk : k[i] # "=" /\ p[i] = k[i]
      /\ tag.given => np = nk + 1 + ne /\ p[nk + 1] = "=" /\ \A i \in 1 .. ne : p[(nk + 1) + i] = e[i]
  <2>1. \A i \in 1 .. np : p[i] \in T \ Separators
    <3>1. PICK V : V = T \ Separators
      OBVIOUS
    <3>2. p \in Seq(V)
      BY <1>3, <3>1
    <3>3. \A i \in 1 .. np : p[i] \in V
      BY <1>4, <3>2
    <3> QED
      BY <3>1, <3>3
  <2>2. np >= 1
    BY <1>1, <1>4, PairIn
  <2>3. (~tag.given => p = k) /\ \A i \in 1 .. nk : k[i] # "=" /\ p[i] = k[i]
    BY <1>1, <1>4, PairIn
  <2>4. tag.given => np = nk + 1 + ne /\ p[nk + 1] = "=" /\ \A i \in 1 .. ne : p[(nk + 1) + i] = e[i]
    <3>1. Valued(tag)
      BY PairIn
    <3> QED
      BY <1>1, <1>4, <3>1 DEF Valued
  <2> QED
    BY <2>1, <2>2, <2>3, <2>4, SeparatorsAre
<1>6. PICK l \in Nat : l = Len(raw)
  OBVIOUS
<1>7. /\ np \in Nat /\ nk \in Nat /\ ne \in Nat /\ l \in Nat /\ a \in Nat \ {0} /\ b \in Nat
      /\ b = (a + np) + 1 /\ b <= end /\ end \in 1 .. l
      /\ \A m \in 1 .. np : raw[a + m] = p[m]
      /\ b = end \/ raw[b] = Semicolon
  BY <1>1, <1>4, <1>6 DEF Holds
<1> DEFINE P == {end} \cup {i \in a + 1 .. end - 1 : raw[i] = Semicolon}
<1>8. Min(P) = b
  <2>1. P \in SUBSET Nat
    BY <1>7
  <2>2. b \in P
    <3>1. CASE b = end
      BY <3>1
    <3>2. CASE b # end
      <4>1. b \in a + 1 .. end - 1 /\ raw[b] = Semicolon
        BY <1>4, <1>7, <3>2
      <4> QED
        BY <4>1
    <3> QED
      BY <3>1, <3>2
  <2>3. ASSUME NEW x \in P PROVE b <= x
    <3>1. CASE x = end
      BY <1>7, <3>1
    <3>2. CASE x # end
      <4>1. x \in a + 1 .. end - 1 /\ raw[x] = Semicolon
        BY <3>2
      <4>2. ASSUME x < b PROVE FALSE
        <5>1. x - a \in 1 .. np /\ a + (x - a) = x
          BY <1>7, <4>1, <4>2
        <5> QED
          BY <1>5, <1>7, <4>1, <5>1
      <4>3. x \in Int /\ b \in Int
        BY <1>7, <4>1
      <4> QED
        BY <4>2, <4>3
    <3> QED
      BY <3>1, <3>2
  <2> HIDE DEF P
  <2> QED
    BY <2>1, <2>2, <2>3, SmallestIs
<1> DEFINE E == {b} \cup {i \in a + 1 .. b - 1 : raw[i] = "="}
<1>9. TagFrom(raw, end, a + 1) =
        IF Min(E) < b
        THEN Tag(SubSeq(raw, a + 1, Min(E) - 1), TRUE,
                 UnescapeTagValue(SubSeq(raw, Min(E) + 1, b - 1)))
        ELSE Tag(SubSeq(raw, a + 1, b - 1), FALSE, <<>>)
  <2> HIDE DEF P
  <2>1. PICK pos : pos = Min(P)
    OBVIOUS
  <2>2. TagFrom(raw, end, a + 1) =
          LET eq == Min({pos} \cup {i \in a + 1 .. pos - 1 : raw[i] = "="})
          IN IF eq < pos
             THEN Tag(SubSeq(raw, a + 1, eq - 1), TRUE,
                      UnescapeTagValue(SubSeq(raw, eq + 1, pos - 1)))
             ELSE Tag(SubSeq(raw, a + 1, pos - 1), FALSE, <<>>)
    BY <2>1 DEF TagFrom, P
  <2> QED
    BY <1>8, <2>1, <2>2
<1>10. E \in SUBSET Nat
  BY <1>7
<1>11. CASE tag.given
  <2>1. PICK q \in Nat : q = (a + nk) + 1
    BY <1>7
  <2>2. b = (q + ne) + 1 /\ q < b /\ q \in a + 1 .. b - 1
    BY <1>5, <1>7, <1>11, <2>1
  <2>3. raw[q] = "="
    <3>1. nk + 1 \in 1 .. np /\ a + (nk + 1) = q
      BY <1>5, <1>7, <1>11, <2>1
    <3> QED
      BY <1>5, <1>7, <1>11, <3>1
  <2>4. Min(E) = q
    <3>1. q \in E
      BY <2>2, <2>3
    <3>2. ASSUME NEW x \in E PROVE q <= x
      <4>1. CASE x = b
        BY <2>2, <4>1, <1>7, <2>1
      <4>2. CASE x # b
        <5>1. x \in a + 1 .. b - 1 /\ raw[x] = "="
          BY <4>2
        <5>2. ASSUME x < q PROVE FALSE
          <6>1. x - a \in 1 .. nk /\ x - a \in 1 .. np /\ a + (x - a) = x
            BY <1>7, <2>1, <2>2, <5>1, <5>2
          <6>2. raw[x] = k[x - a]
            BY <1>5, <1>7, <6>1
          <6> QED
            BY <1>5, <5>1, <6>1, <6>2
        <5>3. x \in Int /\ q \in Int
          BY <2>1, <5>1
        <5> QED
          BY <5>2, <5>3
      <4> QED
        BY <4>1, <4>2
    <3> HIDE DEF E
    <3> QED
      BY <1>10, <3>1, <3>2, SmallestIs
  <2> HIDE DEF E
  <2>5. SubSeq(raw, a + 1, q - 1) = k
    <3>1. /\ a + 1 \in 1 .. Len(raw) + 1 /\ q - 1 \in 0 .. Len(raw) /\ (a + 1) + Len(k) = (q - 1) + 1
      BY <1>4, <1>6, <1>7, <2>1, <2>2
    <3>2. ASSUME NEW m \in 1 .. Len(k) PROVE raw[((a + 1) + m) - 1] = k[m]
      <4>1. m \in 1 .. nk /\ m \in 1 .. np /\ ((a + 1) + m) - 1 = a + m
        BY <1>4, <1>5, <1>7, <1>11
      <4> QED
        BY <1>5, <1>7, <4>1
    <3> QED
      BY <1>2, <3>1, <3>2, PieceIs
  <2>6. SubSeq(raw, q + 1, b - 1) = e
    <3>1. /\ q + 1 \in 1 .. Len(raw) + 1 /\ b - 1 \in 0 .. Len(raw) /\ (q + 1) + Len(e) = (b - 1) + 1
      BY <1>4, <1>6, <1>7, <2>1, <2>2
    <3>2. ASSUME NEW m \in 1 .. Len(e) PROVE raw[((q + 1) + m) - 1] = e[m]
      <4>1. m \in 1 .. ne /\ (nk + 1) + m \in 1 .. np /\ ((q + 1) + m) - 1 = a + ((nk + 1) + m)
        BY <1>4, <1>5, <1>7, <1>11, <2>1
      <4>2. p[(nk + 1) + m] = e[m]
        BY <1>5, <1>11, <4>1
      <4>3. raw[a + ((nk + 1) + m)] = p[(nk + 1) + m]
        BY <1>7, <4>1
      <4> QED
        BY <4>1, <4>2, <4>3
    <3> QED
      BY <1>3, <3>1, <3>2, PieceIs
  <2>7. UnescapeTagValue(e) = v
    BY <1>1, <1>2, Unescaped DEF Marked
  <2>8. TagFrom(raw, end, a + 1) = Tag(k, TRUE, v)
    BY <1>9, <2>2, <2>4, <2>5, <2>6, <2>7
  <2> QED
    BY <1>2, <1>11, <2>8 DEF Tag
<1>12. CASE ~tag.given
  <2>1. np = nk
    BY <1>4, <1>5, <1>12
  <2>2. Min(E) = b
    <3>1. E = {b}
      <4>1. ASSUME NEW x \in a + 1 .. b - 1 PROVE raw[x] # "="
        <5>1. x - a \in 1 .. nk /\ x - a \in 1 .. np /\ a + (x - a) = x
          BY <1>7, <2>1
        <5>2. raw[x] = k[x - a]
          BY <1>5, <1>7, <5>1
        <5> QED
          BY <1>5, <5>1, <5>2
      <4> QED
        BY <4>1
    <3> HIDE DEF E
    <3>2. b \in E /\ \A x \in E : b <= x
      BY <1>7, <3>1
    <3> QED
      BY <1>10, <3>2, SmallestIs
  <2> HIDE DEF E
  <2>3. SubSeq(raw, a + 1, b - 1) = k
    <3>1. /\ a + 1 \in 1 .. Len(raw) + 1 /\ b - 1 \in 0 .. Len(raw) /\ (a + 1) + Len(k) = (b - 1) + 1
      BY <1>4, <1>6, <1>7, <2>1
    <3>2. ASSUME NEW m \in 1 .. Len(k) PROVE raw[((a + 1) + m) - 1] = k[m]
      <4>1. m \in 1 .. nk /\ m \in 1 .. np /\ ((a + 1) + m) - 1 = a + m
        BY <1>4, <1>7, <2>1
      <4> QED
        BY <1>5, <1>7, <4>1
    <3> QED
      BY <1>2, <3>1, <3>2, PieceIs
  <2>4. ~(Min(E) < b)
    BY <1>7, <2>2
  <2>5. TagFrom(raw, end, a + 1) = Tag(k, FALSE, <<>>)
    BY <1>9, <2>3, <2>4
  <2>6. v = <<>>
    BY <1>1, <1>12 DEF Writable
  <2>7. tag.given = FALSE
    BY <1>2, <1>12
  <2> QED
    BY <1>2, <2>5, <2>6, <2>7 DEF Tag
<1> QED
  BY <1>11, <1>12

(* Tags are read as they were written.                                     *)
LEMMA TagsSurvive ==
  ASSUME NEW T, Marked \subseteq T, NEW tags \in Seq(TagsOf(T)),
         \A j \in 1 .. Len(tags) : Writable(tags[j])
  PROVE  FormatTags(tags) \in Seq(T) /\ ParseTags(FormatTags(tags)) = ToSet(tags)
<1>1. CASE tags = <<>>
  <2>1. FormatTags(tags) = <<>> /\ <<>> \in Seq(T)
    BY <1>1 DEF FormatTags
  <2>2. ParseTags(<<>>) = {}
    BY DEF ParseTags
  <2>3. ToSet(tags) = {}
    BY <1>1 DEF ToSet
  <2> QED
    BY <2>1, <2>2, <2>3
<1>2. CASE tags # <<>>
  <2>1. PICK n \in Nat : n = Len(tags) /\ n >= 1
    BY <1>2
  <2>20. PICK s \in Seq(T) : /\ FormatTags(tags) = s \o <<Gap>>
                             /\ \E at : PlacedBehind(at, Seps(n), AllPairs(tags), s)
    BY <1>2, <2>1, TagsLaid
  <2>21. PICK at : PlacedBehind(at, Seps(n), AllPairs(tags), s)
    BY <2>20
  <2>2. FormatTags(tags) = s \o <<Gap>> /\ PlacedBehind(at, Seps(n), AllPairs(tags), s)
    BY <2>20, <2>21
  <2>3. PICK l \in Nat : l = Len(s)
    OBVIOUS
  <2>4. PICK raw \in Seq(T) : /\ raw = FormatTags(tags) /\ l \in Nat
                              /\ Len(raw) = l + 1 /\ raw[l + 1] = Gap
                              /\ \A k \in 1 .. l : raw[k] = s[k]
    <3>1. Gap \in T
      BY SeparatorsAre
    <3>2. PICK r : r = s \o <<Gap>>
      OBVIOUS
    <3>3. /\ r \in Seq(T) /\ Len(r) = Len(s) + 1 /\ r[Len(s) + 1] = Gap
          /\ \A k \in 1 .. Len(s) : r[k] = s[k]
      BY <3>1, <3>2, OneMore
    <3> QED
      BY <2>2, <2>3, <3>2, <3>3
  <2>5. PICK p : p = AllPairs(tags)
    OBVIOUS
  <2>6. Len(p) = n /\ \A j \in 1 .. n : p[j] = PairOf(tags[j])
    BY <2>1, <2>5 DEF AllPairs
  <2>7. \A j \in 1 .. n : Seps(n)[j] = IF j = 1 THEN "@" ELSE Semicolon
    BY DEF Seps
  <2>8. /\ n \in Nat /\ n >= 1 /\ l \in Nat
        /\ at \in [1 .. n + 1 -> Nat \ {0}] /\ at[1] = 1 /\ at[n + 1] = l + 1
        /\ \A j \in 1 .. n :
             /\ at[j] <= l /\ s[at[j]] = (IF j = 1 THEN "@" ELSE Semicolon)
             /\ at[j + 1] = (at[j] + Len(p[j])) + 1 /\ at[j + 1] <= l + 1
             /\ \A m \in 1 .. Len(p[j]) : s[at[j] + m] = p[j][m]
        /\ \A k \in 1 .. l : \E j \in 1 .. n : k = at[j] \/ \E m \in 1 .. Len(p[j]) : k = at[j] + m
    <3>1. PlacedBehind(at, Seps(n), p, s)
      BY <2>2, <2>5
    <3> QED
      BY <2>1, <2>3, <2>6, <2>7, <3>1 DEF PlacedBehind
  <2>9. ASSUME NEW j \in 1 .. n
        PROVE  /\ tags[j] \in TagsOf(T) /\ Writable(tags[j])
               /\ Len(p[j]) \in Nat /\ Len(p[j]) >= 1
               /\ \A m \in 1 .. Len(p[j]) : p[j][m] \notin Separators
    <3>1. tags[j] \in TagsOf(T) /\ Writable(tags[j])
      BY <2>1
    <3>2. p[j] \in Seq(T \ Separators) /\ Len(p[j]) >= 1
      <4>1. PairOf(tags[j]) \in Seq(T \ Separators) /\ Len(PairOf(tags[j])) >= 1
        BY <3>1, PairIn
      <4> QED
        BY <2>6, <4>1
    <3>3. Len(p[j]) \in Nat /\ \A m \in 1 .. Len(p[j]) : p[j][m] \in T \ Separators
      BY <3>2
    <3> QED
      BY <3>1, <3>2, <3>3
  <2>10. ASSUME NEW k \in 1 .. l
         PROVE  /\ raw[k] # Gap
                /\ raw[k] = Semicolon => \E j \in 1 .. n : k = at[j]
    <3>1. PICK j \in 1 .. n : k = at[j] \/ \E m \in 1 .. Len(p[j]) : k = at[j] + m
      BY <2>8
    <3>2. CASE k = at[j]
      <4>1. s[k] \in {"@", Semicolon}
        BY <2>8, <3>2
      <4> QED
        BY <2>4, <3>2, <4>1, SeparatorsAre
    <3>3. CASE k # at[j]
      <4>1. PICK m \in 1 .. Len(p[j]) : k = at[j] + m
        BY <3>1, <3>3
      <4>2. s[k] = p[j][m] /\ p[j][m] \notin Separators
        BY <2>8, <2>9, <4>1
      <4> QED
        BY <2>4, <4>2, SeparatorsAre
    <3> QED
      BY <3>2, <3>3
  <2>11. Min({i \in DOMAIN raw : raw[i] = Gap}) = l + 1
    <3> DEFINE S == {i \in DOMAIN raw : raw[i] = Gap}
    <3>1. DOMAIN raw = 1 .. l + 1
      BY <2>4
    <3>2. S \in SUBSET Nat /\ l + 1 \in S
      BY <2>4, <3>1
    <3>3. \A x \in S : l + 1 <= x
      <4>1. ASSUME NEW x \in S PROVE l + 1 <= x
        <5>1. x \in 1 .. l + 1 /\ raw[x] = Gap
          BY <3>1
        <5>2. x \notin 1 .. l
          BY <2>10, <5>1
        <5> QED
          BY <5>1, <5>2
      <4> QED
        BY <4>1
    <3> HIDE DEF S
    <3>4. Min(S) = l + 1
      BY <3>2, <3>3, SmallestIs
    <3> QED
      BY <3>4 DEF S
  <2>12. PICK end : end = l + 1
    OBVIOUS
  <2>13. ParseTags(raw) = IF raw = <<>> \/ raw[1] # "@" THEN {}
                          ELSE {TagFrom(raw, end, start) : start \in TagStarts(raw, end)}
    <3>1. ParseTags(raw) =
            LET e == Min({i \in DOMAIN raw : raw[i] = Gap})
            IN IF raw = <<>> \/ raw[1] # "@" THEN {}
               ELSE {TagFrom(raw, e, start) : start \in TagStarts(raw, e)}
      BY DEF ParseTags, TagFrom, TagStarts, Semicolon, Gap
    <3> QED
      BY <2>11, <2>12, <3>1
  <2>14. raw # <<>> /\ raw[1] = "@" /\ l >= 1
    <3>1. 1 \in 1 .. n
      BY <2>1
    <3>2. at[1] = 1 /\ at[1] <= l /\ s[at[1]] = "@"
      BY <2>8, <3>1
    <3>3. 1 \in 1 .. l /\ l >= 1
      BY <3>2
    <3>4. Len(raw) # 0
      BY <2>4
    <3> QED
      BY <2>4, <3>2, <3>3, <3>4
  <2>15. ASSUME NEW j \in 1 .. n
         PROVE  at[j] + 1 \in TagStarts(raw, end) /\ TagFrom(raw, end, at[j] + 1) = tags[j]
    <3>1. PICK a \in Nat \ {0}, b \in Nat \ {0}, e \in Nat :
            a = at[j] /\ b = at[j + 1] /\ e = Len(p[j]) /\ e >= 1
      <4>1. j \in 1 .. n + 1 /\ j + 1 \in 1 .. n + 1
        OBVIOUS
      <4> QED
        BY <2>8, <2>9, <4>1
    <3>2. /\ a <= l /\ s[a] = (IF j = 1 THEN "@" ELSE Semicolon)
          /\ b = (a + e) + 1 /\ b <= l + 1 /\ \A m \in 1 .. e : s[a + m] = p[j][m]
      BY <2>8, <3>1
    <3>3. a + 1 \in TagStarts(raw, end)
      <4>1. a + 1 \in 2 .. end - 1 /\ (a + 1) - 1 = a /\ a \in 1 .. l
        <5>1. l \in Nat
          BY <2>8
        <5>2. a \in Nat \ {0} /\ e \in Nat /\ e >= 1 /\ b \in Nat /\ b = (a + e) + 1 /\ b <= l + 1 /\ end = l + 1
          BY <2>12, <3>1, <3>2
        <5> QED
          BY <5>1, <5>2
      <4>2. a + 1 = 2 \/ raw[(a + 1) - 1] = Semicolon
        <5>1. CASE j = 1
          BY <2>8, <3>1, <5>1
        <5>2. CASE j # 1
          BY <2>4, <3>2, <4>1, <5>2
        <5> QED
          BY <5>1, <5>2
      <4> QED
        BY <4>1, <4>2 DEF TagStarts
    <3>4. Holds(raw, end, a, b, tags[j])
      <4>1. p[j] = PairOf(tags[j])
        BY <2>6
      <4>2. \A m \in 1 .. e : raw[a + m] = p[j][m]
        <5>1. \A m \in 1 .. e : a + m \in 1 .. l
          BY <3>2
        <5> QED
          BY <2>4, <3>2, <5>1
      <4>3. b = end \/ raw[b] = Semicolon
        <5>1. CASE j = n
          BY <2>8, <2>12, <3>1, <5>1
        <5>2. CASE j # n
          <6>1. j + 1 \in 1 .. n /\ j + 1 # 1
            BY <5>2
          <6>2. at[j + 1] <= l /\ s[at[j + 1]] = Semicolon
            BY <2>8, <6>1
          <6>3. b \in 1 .. l /\ s[b] = Semicolon
            BY <3>1, <6>2
          <6> QED
            BY <2>4, <6>3
        <5> QED
          BY <5>1, <5>2
      <4>4. b <= end
        BY <2>12, <3>2
      <4> QED
        BY <3>1, <3>2, <4>1, <4>2, <4>3, <4>4 DEF Holds
    <3>5. end \in 1 .. Len(raw)
      BY <2>4, <2>12
    <3>6. TagFrom(raw, end, a + 1) = tags[j]
      BY <2>9, <3>4, <3>5, TagRead
    <3> QED
      BY <3>1, <3>3, <3>6
  <2>16. ASSUME NEW i \in TagStarts(raw, end) PROVE \E j \in 1 .. n : i = at[j] + 1
    <3>1. i \in 2 .. l /\ (i = 2 \/ raw[i - 1] = Semicolon)
      BY <2>12 DEF TagStarts
    <3>2. CASE i = 2
      <4>1. 1 \in 1 .. n /\ i = at[1] + 1
        BY <2>1, <2>8, <3>2
      <4> QED
        BY <4>1
    <3>3. CASE i # 2
      <4>1. i - 1 \in 1 .. l /\ raw[i - 1] = Semicolon
        BY <3>1, <3>3
      <4>2. PICK j \in 1 .. n : i - 1 = at[j]
        BY <2>10, <4>1
      <4>3. i = at[j] + 1
        <5>1. PICK z : z = at[j]
          OBVIOUS
        <5>2. i \in Int /\ i - 1 = z
          BY <3>1, <4>2, <5>1
        <5>3. i = z + 1
          BY <5>2
        <5> QED
          BY <5>1, <5>3
      <4> QED
        BY <4>3
    <3> QED
      BY <3>2, <3>3
  <2>17. {TagFrom(raw, end, start) : start \in TagStarts(raw, end)} = {tags[j] : j \in 1 .. n}
    <3>1. \A i \in TagStarts(raw, end) : \E j \in 1 .. n : TagFrom(raw, end, i) = tags[j]
      BY <2>15, <2>16
    <3>2. \A j \in 1 .. n : \E i \in TagStarts(raw, end) : TagFrom(raw, end, i) = tags[j]
      BY <2>15
    <3> QED
      BY <3>1, <3>2
  <2>18. ToSet(tags) = {tags[j] : j \in 1 .. n}
    <3>1. DOMAIN tags = 1 .. n
      BY <2>1
    <3> QED
      BY <3>1 DEF ToSet
  <2> QED
    BY <2>4, <2>13, <2>14, <2>17, <2>18
<1> QED
  BY <1>1, <1>2

-----------------------------------------------------------------------------
(* Offers survive being written and read. A line of fields is read token by*)
(* token, from the place the one before it ended at.                       *)
LEMMA SpecialUnits == Blank # Quote /\ Blank # Backslash /\ Quote # Backslash
  BY Zenon DEF Blank, Quote, Backslash

(* A token from place i: where it starts, what follows it, and what is kept*)
(* of it up to its closing quote or the next blank.                        *)
TokStart(s, i) == Min({Len(s) + 1} \cup {k \in i .. Len(s) : s[k] # Blank})
Following(s, k) == IF k <= Len(s) /\ s[k] = Blank THEN k + 1 ELSE k
CloseAt(s, start, f) == Min({Len(s) + 1} \cup {k \in start + 1 .. Len(s) : s[k] = Quote /\ ~f[k]})
KeptOf(s, start, close, f) ==
  FlattenSeq([k \in 1 .. close - start - 1 |->
                IF s[start + k] # Backslash \/ f[start + k] THEN <<s[start + k]>> ELSE <<>>])
EndAt(s, start) == Min({Len(s) + 1} \cup {k \in start .. Len(s) : s[k] = Blank})
TokenFrom(s, start, f) ==
  IF start > Len(s) THEN [tok |-> <<>>, next |-> start]
  ELSE IF s[start] = Quote
  THEN [tok |-> KeptOf(s, start, CloseAt(s, start, f), f),
        next |-> Following(s, Min({CloseAt(s, start, f) + 1, Len(s) + 1}))]
  ELSE [tok |-> SubSeq(s, start, EndAt(s, start) - 1), next |-> Following(s, EndAt(s, start))]

LEMMA NextTokenIs ==
  ASSUME NEW T, NEW s \in Seq(T), NEW i \in Nat
  PROVE  \E f : /\ TokStart(s, i) \in Nat
                /\ Marks(f, TokStart(s, i), TokStart(s, i) + 1, Len(s), s, Backslash)
                /\ NextToken(s, i) = TokenFrom(s, TokStart(s, i), f)
<1> DEFINE start == TokStart(s, i)
           escaped == CHOOSE f : f = [k \in start .. Len(s) |->
                                        k > start + 1 /\ s[k - 1] = Backslash /\ ~f[k - 1]]
<1>1. NextToken(s, i) = TokenFrom(s, start, escaped)
  BY DEF NextToken, TokenFrom, TokStart, Following, CloseAt, KeptOf, EndAt
<1>2. start \in Nat
  <2> DEFINE S == {Len(s) + 1} \cup {k \in i .. Len(s) : s[k] # Blank}
  <2>1. S \in SUBSET Nat /\ S # {}
    OBVIOUS
  <2> HIDE DEF S
  <2>2. Min(S) \in S
    BY <2>1, Smallest
  <2> QED
    BY <2>1, <2>2 DEF TokStart, S
<1> HIDE DEF start
<1>3. \E f : f = [k \in start .. Len(s) |-> k > start + 1 /\ s[k - 1] = Backslash /\ ~f[k - 1]]
  <2>1. Len(s) \in Nat /\ start + 1 \in Nat /\ start <= start + 1
    BY <1>2
  <2>2. PICK f : Marks(f, start, start + 1, Len(s), s, Backslash)
    BY <1>2, <2>1, Marking
  <2> QED
    BY <2>2, Zenon DEF Marks
<1>4. escaped = [k \in start .. Len(s) |-> k > start + 1 /\ s[k - 1] = Backslash /\ ~escaped[k - 1]]
  BY <1>3, Zenon
<1> HIDE DEF escaped
<1>5. Marks(escaped, start, start + 1, Len(s), s, Backslash)
  BY <1>4, Zenon DEF Marks
<1> QED
  BY <1>1, <1>2, <1>5 DEF start

(* A field that lies at place p, up to the end or before a blank.          *)
Lies(s, p, f) ==
  /\ p \in Nat \ {0} /\ Len(f) >= 1 /\ p + Len(f) <= Len(s) + 1
  /\ \A m \in 1 .. Len(f) : s[(p + m) - 1] = f[m]
  /\ p + Len(f) <= Len(s) => s[p + Len(f)] = Blank
NextField(s, p, f) == IF p + Len(f) <= Len(s) THEN (p + Len(f)) + 1 ELSE p + Len(f)

(* A field of units other than blanks and quotes is read as it is.         *)
LEMMA FieldStarts ==
  ASSUME NEW T, NEW s \in Seq(T), NEW f \in Seq(T), NEW p, Lies(s, p, f), f[1] # Blank
  PROVE  /\ TokStart(s, p) = p /\ p <= Len(s) /\ s[p] = f[1]
         /\ Following(s, p + Len(f)) = NextField(s, p, f)
<1>1. PICK n \in Nat, l \in Nat : n = Len(f) /\ l = Len(s)
  OBVIOUS
<1>2. /\ p \in Nat \ {0} /\ n >= 1 /\ p + n <= l + 1 /\ n \in Nat /\ l \in Nat
      /\ \A m \in 1 .. n : s[(p + m) - 1] = f[m]
      /\ p + n <= l => s[p + n] = Blank
  BY <1>1 DEF Lies
<1>3. s[p] = f[1] /\ p <= l
  <2>1. 1 \in 1 .. n /\ (p + 1) - 1 = p /\ p <= l
    BY <1>2
  <2> QED
    BY <1>2, <2>1
<1>4. TokStart(s, p) = p
  <2> DEFINE S == {l + 1} \cup {k \in p .. l : s[k] # Blank}
  <2>1. S \in SUBSET Nat /\ p \in S
    BY <1>2, <1>3
  <2>2. \A x \in S : p <= x
    BY <1>2
  <2> HIDE DEF S
  <2>3. Min(S) = p
    BY <2>1, <2>2, SmallestIs
  <2> QED
    BY <1>1, <2>3 DEF TokStart, S
<1>5. Following(s, p + n) = NextField(s, p, f)
  BY <1>1, <1>2 DEF Following, NextField
<1> QED
  BY <1>1, <1>3, <1>4, <1>5

LEMMA PlainToken ==
  ASSUME NEW T, NEW s \in Seq(T), NEW f \in Seq(T), NEW p, Lies(s, p, f),
         \A m \in 1 .. Len(f) : f[m] # Blank, f[1] # Quote
  PROVE  NextToken(s, p) = [tok |-> f, next |-> NextField(s, p, f)]
<1>1. PICK n \in Nat, l \in Nat : n = Len(f) /\ l = Len(s)
  OBVIOUS
<1>2. /\ p \in Nat \ {0} /\ n >= 1 /\ p + n <= l + 1 /\ n \in Nat /\ l \in Nat
      /\ \A m \in 1 .. n : s[(p + m) - 1] = f[m]
      /\ p + n <= l => s[p + n] = Blank
  BY <1>1 DEF Lies
<1>3. f[1] # Blank
  <2>1. 1 \in 1 .. Len(f)
    BY <1>1, <1>2
  <2> QED
    BY <2>1
<1>4. /\ TokStart(s, p) = p /\ p <= Len(s) /\ s[p] = f[1]
      /\ Following(s, p + Len(f)) = NextField(s, p, f)
  BY <1>3, FieldStarts
<1>5. PICK g : NextToken(s, p) = TokenFrom(s, p, g)
  <2>1. p \in Nat
    BY <1>2
  <2> QED
    BY <1>4, <2>1, NextTokenIs
<1>6. EndAt(s, p) = p + n
  <2> DEFINE S == {l + 1} \cup {k \in p .. l : s[k] = Blank}
  <2>1. S \in SUBSET Nat
    BY <1>2
  <2>2. p + n \in S
    <3>1. CASE p + n <= l
      <4>1. p + n \in p .. l /\ s[p + n] = Blank
        BY <1>2, <3>1
      <4> QED
        BY <4>1
    <3>2. CASE ~(p + n <= l)
      <4>1. p + n = l + 1
        BY <1>2, <3>2
      <4> QED
        BY <4>1
    <3> QED
      BY <3>1, <3>2
  <2>3. ASSUME NEW x \in S PROVE p + n <= x
    <3>1. CASE x = l + 1
      BY <1>2, <3>1
    <3>2. CASE x # l + 1
      <4>1. x \in p .. l /\ s[x] = Blank
        BY <3>2
      <4>2. ASSUME x < p + n PROVE FALSE
        <5>1. (x - p) + 1 \in 1 .. n /\ (p + ((x - p) + 1)) - 1 = x
          BY <1>2, <4>1, <4>2
        <5>2. s[x] = f[(x - p) + 1]
          BY <1>2, <5>1
        <5> QED
          BY <1>1, <4>1, <5>1, <5>2
      <4>3. x \in Int /\ p + n \in Int
        BY <1>2, <4>1
      <4> QED
        BY <4>2, <4>3
    <3> QED
      BY <3>1, <3>2
  <2> HIDE DEF S
  <2>4. Min(S) = p + n
    BY <2>1, <2>2, <2>3, SmallestIs
  <2> QED
    BY <1>1, <2>4 DEF EndAt, S
<1>7. SubSeq(s, p, (p + n) - 1) = f
  <2>1. p \in 1 .. Len(s) + 1 /\ (p + n) - 1 \in 0 .. Len(s) /\ p + Len(f) = ((p + n) - 1) + 1
    BY <1>1, <1>2
  <2>2. \A m \in 1 .. Len(f) : s[(p + m) - 1] = f[m]
    BY <1>1, <1>2
  <2> QED
    BY <2>1, <2>2, PieceIs
<1>8. ~(p > Len(s)) /\ s[p] # Quote
  BY <1>2, <1>4
<1>9. TokenFrom(s, p, g) = [tok |-> SubSeq(s, p, (p + n) - 1), next |-> Following(s, p + n)]
  BY <1>6, <1>8 DEF TokenFrom
<1> QED
  BY <1>1, <1>4, <1>5, <1>7, <1>9

(* Behind the last field nothing is read.                                  *)
LEMMA PastEnd ==
  ASSUME NEW T, NEW s \in Seq(T), NEW i \in Nat, i > Len(s)
  PROVE  NextToken(s, i).tok = <<>>
<1>1. PICK l \in Nat : l = Len(s)
  OBVIOUS
<1>2. TokStart(s, i) = l + 1
  <2> DEFINE S == {l + 1} \cup {k \in i .. l : s[k] # Blank}
  <2>1. S = {l + 1}
    BY <1>1
  <2>2. S \in SUBSET Nat /\ l + 1 \in S /\ \A x \in S : l + 1 <= x
    BY <1>1, <2>1
  <2> HIDE DEF S
  <2>3. Min(S) = l + 1
    BY <2>2, SmallestIs
  <2> QED
    BY <1>1, <2>3 DEF TokStart, S
<1>3. PICK f : NextToken(s, i) = TokenFrom(s, l + 1, f)
  BY <1>2, NextTokenIs
<1>4. l + 1 > Len(s)
  BY <1>1
<1> QED
  BY <1>3, <1>4 DEF TokenFrom

(* A file in quotes, its quotes and backslashes escaped, is read back.     *)
Spelt == [u \in {Quote, Backslash} |-> u]
Quoted(c) == <<Quote>> \o c \o <<Quote>>

LEMMA QuotedIs ==
  ASSUME NEW T, Quote \in T, NEW c \in Seq(T)
  PROVE  /\ Quoted(c) \in Seq(T) /\ Len(Quoted(c)) = Len(c) + 2
         /\ Quoted(c)[1] = Quote /\ Quoted(c)[Len(c) + 2] = Quote
         /\ \A m \in 1 .. Len(c) : Quoted(c)[1 + m] = c[m]
<1>1. PICK q \in Seq(T) : q = <<Quote>> /\ Len(q) = 1 /\ q[1] = Quote
  <2>1. <<Quote>> \in Seq(T) /\ Len(<<Quote>>) = 1 /\ <<Quote>>[1] = Quote
    OBVIOUS
  <2> QED
    BY <2>1
<1>2. PICK n \in Nat : n = Len(c)
  OBVIOUS
<1>3. PICK d \in Seq(T) : /\ d = q \o c /\ Len(d) = 1 + n /\ d[1] = Quote
                          /\ \A m \in 1 .. n : d[1 + m] = c[m]
  <2>1. /\ q \o c \in Seq(T) /\ Len(q \o c) = Len(q) + Len(c)
        /\ \A k \in 1 .. Len(q) : (q \o c)[k] = q[k]
        /\ \A m \in 1 .. Len(c) : (q \o c)[Len(q) + m] = c[m]
    BY Concatenates
  <2>2. 1 \in 1 .. Len(q)
    BY <1>1
  <2> QED
    BY <1>1, <1>2, <2>1, <2>2
<1>4. PICK e \in Seq(T) : /\ e = d \o q /\ Len(e) = Len(d) + 1 /\ e[Len(d) + 1] = Quote
                          /\ \A k \in 1 .. Len(d) : e[k] = d[k]
  <2>1. /\ d \o q \in Seq(T) /\ Len(d \o q) = Len(d) + Len(q)
        /\ \A k \in 1 .. Len(d) : (d \o q)[k] = d[k]
        /\ \A m \in 1 .. Len(q) : (d \o q)[Len(d) + m] = q[m]
    BY Concatenates
  <2>2. 1 \in 1 .. Len(q)
    BY <1>1
  <2> QED
    BY <1>1, <2>1, <2>2
<1>5. Quoted(c) = e
  <2>1. Quoted(c) = (q \o c) \o q
    BY <1>1 DEF Quoted
  <2> QED
    BY <1>3, <1>4, <2>1
<1>6. Len(e) = n + 2 /\ e[n + 2] = Quote
  <2>1. Len(d) + 1 = n + 2
    BY <1>2, <1>3
  <2> QED
    BY <1>4, <2>1
<1>7. e[1] = Quote /\ \A m \in 1 .. n : e[1 + m] = c[m]
  <2>1. 1 \in 1 .. Len(d) /\ \A m \in 1 .. n : 1 + m \in 1 .. Len(d)
    BY <1>2, <1>3
  <2> QED
    BY <1>3, <1>4, <2>1
<1> QED
  BY <1>2, <1>4, <1>5, <1>6, <1>7

LEMMA QuotedToken ==
  ASSUME NEW T, {Quote, Backslash} \subseteq T, NEW v \in Seq(T), NEW w, Codes(w, v, Backslash, Spelt),
         NEW s \in Seq(T), NEW p, Lies(s, p, Quoted(FlattenSeq(w)))
  PROVE  /\ Quoted(FlattenSeq(w)) \in Seq(T)
         /\ NextToken(s, p) = [tok |-> v, next |-> NextField(s, p, Quoted(FlattenSeq(w)))]
<1>1. PICK c : c = FlattenSeq(w)
  OBVIOUS
<1>2. Backslash \in DOMAIN Spelt /\ Quote \in DOMAIN Spelt \ {Backslash} /\ (\A u \in DOMAIN Spelt : Spelt[u] = u)
      /\ Backslash \in T /\ Quote \in T /\ (\A u \in DOMAIN Spelt : Spelt[u] \in T)
      /\ Quote # Blank /\ Quote # Backslash
  <2>1. DOMAIN Spelt = {Quote, Backslash} /\ \A u \in {Quote, Backslash} : Spelt[u] = u
    BY Zenon DEF Spelt
  <2> QED
    BY <2>1, SpecialUnits
<1>3. c \in Seq(T)
  BY <1>1, <1>2, CodesType, FlattenType
<1>4. PICK f : f = Quoted(c)
  OBVIOUS
<1>5. PICK n \in Nat, l \in Nat : n = Len(c) /\ l = Len(s)
  BY <1>3
<1>6. /\ f \in Seq(T) /\ Len(f) = n + 2 /\ f[1] = Quote /\ f[n + 2] = Quote
      /\ \A m \in 1 .. n : f[1 + m] = c[m]
  BY <1>2, <1>3, <1>4, <1>5, QuotedIs
<1>7. Lies(s, p, f)
  BY <1>1, <1>4
<1>8. /\ TokStart(s, p) = p /\ p <= Len(s) /\ s[p] = Quote
      /\ Following(s, p + Len(f)) = NextField(s, p, f)
  BY <1>2, <1>6, <1>7, FieldStarts
<1>9. /\ p \in Nat \ {0} /\ p + (n + 2) <= l + 1
      /\ \A m \in 1 .. n + 2 : s[(p + m) - 1] = f[m]
  BY <1>5, <1>6, <1>7 DEF Lies
<1>10. PICK g : Marks(g, p, p + 1, l, s, Backslash) /\ NextToken(s, p) = TokenFrom(s, p, g)
  <2>1. p \in Nat
    BY <1>9
  <2> QED
    BY <1>5, <1>8, <2>1, NextTokenIs
<1>11. \A k \in p .. l : g[k] = (k > p + 1 /\ s[k - 1] = Backslash /\ ~g[k - 1])
  BY <1>10 DEF Marks
<1>12. s[(p + n) + 1] = Quote /\ \A m \in 1 .. n : s[p + m] = c[m]
  <2>1. n + 2 \in 1 .. n + 2 /\ (p + (n + 2)) - 1 = (p + n) + 1
    BY <1>9
  <2>2. \A m \in 1 .. n : 1 + m \in 1 .. n + 2 /\ (p + (1 + m)) - 1 = p + m
    BY <1>9
  <2> QED
    BY <1>6, <1>9, <2>1, <2>2
<1> DEFINE X == {m \in 1 .. n + 1 : g[p + m]}
<1>13. \A m \in 1 .. n + 1 : m \in X <=> g[p + m]
  OBVIOUS
<1>14. 0 \notin X
  OBVIOUS
<1> HIDE DEF X
<1>15. ASSUME NEW k \in 1 .. n + 1
       PROVE  k \in X <=> (k > 1 /\ c[k - 1] = Backslash /\ k - 1 \notin X)
  <2>1. PICK z : z = p + k /\ z \in p .. l /\ (z > p + 1 <=> k > 1) /\ z - 1 = p + (k - 1)
    <3>1. p + k \in p .. l /\ (p + k > p + 1 <=> k > 1) /\ (p + k) - 1 = p + (k - 1)
      BY <1>9
    <3> QED
      BY <3>1
  <2>2. g[z] = (z > p + 1 /\ s[z - 1] = Backslash /\ ~g[z - 1])
    BY <1>11, <2>1
  <2>3. k \in X <=> g[z]
    BY <1>13, <2>1
  <2>4. CASE k > 1
    <3>1. k - 1 \in 1 .. n /\ k - 1 \in 1 .. n + 1
      BY <2>4
    <3>2. s[z - 1] = c[k - 1]
      BY <1>12, <2>1, <3>1
    <3>3. k - 1 \in X <=> g[z - 1]
      BY <1>13, <2>1, <3>1
    <3>4. z > p + 1
      BY <2>1, <2>4
    <3> QED
      BY <2>2, <2>3, <2>4, <3>2, <3>3, <3>4
  <2>5. CASE ~(k > 1)
    <3>1. ~(z > p + 1)
      BY <2>1, <2>5
    <3> QED
      BY <2>2, <2>3, <2>5, <3>1
  <2> QED
    BY <2>4, <2>5
<1>16. Escapes(X, c, Backslash)
  BY <1>5, <1>15 DEF Escapes
<1>17. /\ n + 1 \notin X /\ \A k \in 1 .. n : c[k] = Quote => k \in X
       /\ \A h \in Seq(Seq(T)) : Len(h) = n /\ Behind(h, c, X, Backslash, Spelt) => FlattenSeq(h) = v
  <2>1. PICK code : code = Spelt
    OBVIOUS
  <2>2. /\ Len(c) + 1 \notin X
        /\ \A k \in 1 .. Len(c) : c[k] \in DOMAIN code \ {Backslash} => k \in X
        /\ \A h \in Seq(Seq(T)) :
             Len(h) = Len(c) /\ Behind(h, c, X, Backslash, code) => FlattenSeq(h) = v
    BY <1>1, <1>2, <1>16, <2>1, ReadsBack
  <2> QED
    BY <1>2, <1>5, <2>1, <2>2
<1>18. CloseAt(s, p, g) = (p + n) + 1
  <2> DEFINE S == {l + 1} \cup {k \in p + 1 .. l : s[k] = Quote /\ ~g[k]}
  <2>1. S \in SUBSET Nat
    BY <1>9
  <2>2. (p + n) + 1 \in S
    <3>1. (p + n) + 1 \in p + 1 .. l /\ (p + n) + 1 = p + (n + 1) /\ n + 1 \in 1 .. n + 1
      <4>1. p \in Nat /\ p + (n + 2) <= l + 1
        BY <1>9
      <4>2. (p + n) + 1 <= l /\ p + 1 <= (p + n) + 1 /\ (p + n) + 1 \in Int
        BY <4>1
      <4> QED
        BY <4>1, <4>2
    <3>2. ~g[p + (n + 1)]
      BY <1>13, <1>17, <3>1
    <3> QED
      BY <1>12, <3>1, <3>2
  <2>3. ASSUME NEW x \in S PROVE (p + n) + 1 <= x
    <3>1. CASE x = l + 1
      BY <1>9, <3>1
    <3>2. CASE x # l + 1
      <4>1. x \in p + 1 .. l /\ s[x] = Quote /\ ~g[x]
        BY <3>2
      <4>2. ASSUME x < (p + n) + 1 PROVE FALSE
        <5>1. PICK m \in 1 .. n : x = p + m /\ m \in 1 .. n + 1
          <6>1. x - p \in 1 .. n /\ x = p + (x - p) /\ x - p \in 1 .. n + 1
            BY <1>9, <4>1, <4>2
          <6> QED
            BY <6>1
        <5>2. c[m] = Quote
          BY <1>12, <4>1, <5>1
        <5>3. m \in X
          BY <1>17, <5>2
        <5> QED
          BY <1>13, <4>1, <5>1, <5>3
      <4>3. x \in Int /\ (p + n) + 1 \in Int
        BY <1>9, <4>1
      <4> QED
        BY <4>2, <4>3
    <3> QED
      BY <3>1, <3>2
  <2> HIDE DEF S
  <2>4. Min(S) = (p + n) + 1
    BY <2>1, <2>2, <2>3, SmallestIs
  <2> QED
    BY <1>5, <2>4 DEF CloseAt, S
<1>19. Following(s, Min({((p + n) + 1) + 1, l + 1})) = NextField(s, p, f)
  <2>1. ((p + n) + 1) + 1 = p + Len(f) /\ p + Len(f) <= l + 1
    BY <1>6, <1>9
  <2>2. {p + Len(f), l + 1} \in SUBSET Nat
    BY <1>6, <1>9
  <2>3. Min({p + Len(f), l + 1}) = p + Len(f)
    <3>1. \A x \in {p + Len(f), l + 1} : p + Len(f) <= x
      BY <1>6, <1>9, <2>1
    <3> QED
      BY <2>2, <3>1, SmallestIs
  <2> QED
    BY <1>8, <2>1, <2>3
<1> DEFINE e(k) == IF s[p + k] # Backslash \/ g[p + k] THEN <<s[p + k]>> ELSE <<>>
<1>20. PICK h : h = [k \in 1 .. n |-> e(k)]
  OBVIOUS
<1>21. KeptOf(s, p, (p + n) + 1, g) = FlattenSeq(h)
  <2>1. (((p + n) + 1) - p) - 1 = n
    BY <1>9
  <2>2. 1 .. ((p + n) + 1) - p - 1 = 1 .. n
    BY <2>1
  <2> QED
    BY <1>20, <2>2 DEF KeptOf
<1>22. ASSUME NEW k \in 1 .. n
       PROVE  /\ h[k] \in Seq(T)
              /\ k \notin X /\ c[k] # Backslash => h[k] = <<c[k]>>
              /\ k \notin X /\ c[k] = Backslash => h[k] = <<>>
              /\ k \in X => h[k] = <<c[k]>>
  <2>1. k \in 1 .. n + 1 /\ s[p + k] = c[k] /\ (k \in X <=> g[p + k]) /\ c[k] \in T
    <3>1. k \in 1 .. n + 1 /\ c[k] \in T
      BY <1>3, <1>5
    <3> QED
      BY <1>12, <1>13, <3>1
  <2>2. h[k] = IF c[k] # Backslash \/ k \in X THEN <<c[k]>> ELSE <<>>
    <3>1. h[k] = e(k)
      BY <1>20
    <3> QED
      BY <2>1, <3>1
  <2>3. <<c[k]>> \in Seq(T) /\ <<>> \in Seq(T)
    BY <2>1
  <2> QED
    BY <2>2, <2>3
<1>23. h \in Seq(Seq(T)) /\ Len(h) = n
  <2>1. PICK U : U = Seq(T)
    OBVIOUS
  <2>2. \A k \in 1 .. n : h[k] \in U
    BY <1>22, <2>1
  <2>3. h = [k \in 1 .. n |-> h[k]]
    BY <1>20
  <2>4. h \in Seq(U) /\ Len(h) = n
    BY <2>2, <2>3
  <2> QED
    BY <2>1, <2>4
<1>24. FlattenSeq(h) = v
  <2>1. Behind(h, c, X, Backslash, Spelt)
    <3>1. \A k \in 1 .. n : k \in X => \A u \in DOMAIN Spelt : c[k] = Spelt[u] => h[k] = <<u>>
      BY <1>2, <1>22
    <3> QED
      BY <1>5, <1>22, <3>1 DEF Behind
  <2> QED
    BY <1>17, <1>23, <2>1
<1>25. ~(p > Len(s))
  BY <1>8, <1>9
<1>26. PICK q : q = (p + n) + 1
  OBVIOUS
<1>27. TokenFrom(s, p, g) = [tok |-> KeptOf(s, p, q, g), next |-> Following(s, Min({q + 1, l + 1}))]
  <2>1. CloseAt(s, p, g) = q
    BY <1>18, <1>26
  <2> QED
    BY <1>5, <1>8, <1>25, <2>1 DEF TokenFrom
<1> QED
  BY <1>1, <1>4, <1>6, <1>10, <1>19, <1>21, <1>24, <1>26, <1>27

LEMMA FileToken ==
  ASSUME NEW T, {Quote, Backslash} \subseteq T, NEW v \in Seq(T), v # <<>>, NEW s \in Seq(T), NEW p,
         Lies(s, p, FmtFilename(v))
  PROVE  NextToken(s, p) = [tok |-> v, next |-> NextField(s, p, FmtFilename(v))]
<1>1. CASE \E i \in DOMAIN v : v[i] \in {Blank, Quote, Backslash}
  <2> DEFINE w == [i \in DOMAIN v |-> IF v[i] \in {Quote, Backslash} THEN <<Backslash, v[i]>> ELSE <<v[i]>>]
  <2>1. FmtFilename(v) = Quoted(FlattenSeq(w))
    BY <1>1 DEF FmtFilename, Quoted
  <2>2. Codes(w, v, Backslash, Spelt)
    <3>1. DOMAIN Spelt = {Quote, Backslash} /\ \A u \in {Quote, Backslash} : Spelt[u] = u
      BY Zenon DEF Spelt
    <3>2. \A i \in DOMAIN v : (IF v[i] \in {Quote, Backslash} THEN <<Backslash, v[i]>> ELSE <<v[i]>>)
                              = (IF v[i] \in DOMAIN Spelt THEN <<Backslash, Spelt[v[i]]>> ELSE <<v[i]>>)
      BY <3>1
    <3> QED
      BY <3>2 DEF Codes
  <2> HIDE DEF w
  <2>3. Lies(s, p, Quoted(FlattenSeq(w)))
    BY <2>1
  <2> QED
    BY <2>1, <2>2, <2>3, QuotedToken
<1>2. CASE ~\E i \in DOMAIN v : v[i] \in {Blank, Quote, Backslash}
  <2>1. FmtFilename(v) = v
    BY <1>2 DEF FmtFilename
  <2>2. DOMAIN v = 1 .. Len(v) /\ 1 \in 1 .. Len(v)
    OBVIOUS
  <2>3. (\A m \in 1 .. Len(v) : v[m] # Blank) /\ v[1] # Quote
    BY <1>2, <2>2
  <2>4. Lies(s, p, v)
    BY <2>1
  <2> QED
    BY <2>1, <2>3, <2>4, PlainToken
<1> QED
  BY <1>1, <1>2

(* The fields of an offer, each behind a space.                            *)
Spaced(fields) == [i \in DOMAIN fields |-> <<Blank>> \o fields[i]]

LEMMA SpeltIs ==
  /\ DOMAIN Spelt = {Quote, Backslash} /\ \A u \in {Quote, Backslash} : Spelt[u] = u
  BY Zenon DEF Spelt

(* However its name is written, a file is read as its name.                *)
LEMMA FileField ==
  ASSUME NEW T, {Quote, Backslash} \subseteq T, NEW v \in Seq(T), v # <<>>
  PROVE  FmtFilename(v) \in Seq(T) /\ Len(FmtFilename(v)) >= 1
<1>1. CASE \E i \in DOMAIN v : v[i] \in {Blank, Quote, Backslash}
  <2> DEFINE w == [i \in DOMAIN v |-> IF v[i] \in {Quote, Backslash} THEN <<Backslash, v[i]>> ELSE <<v[i]>>]
  <2>1. FmtFilename(v) = Quoted(FlattenSeq(w))
    BY <1>1 DEF FmtFilename, Quoted
  <2>2. Codes(w, v, Backslash, Spelt)
    <3>1. \A i \in DOMAIN v : (IF v[i] \in {Quote, Backslash} THEN <<Backslash, v[i]>> ELSE <<v[i]>>)
                              = (IF v[i] \in DOMAIN Spelt THEN <<Backslash, Spelt[v[i]]>> ELSE <<v[i]>>)
      BY SpeltIs
    <3> QED
      BY <3>1 DEF Codes
  <2> HIDE DEF w
  <2>3. w \in Seq(Seq(T))
    <3>1. \A u \in DOMAIN Spelt : Spelt[u] \in T
      BY SpeltIs
    <3> QED
      BY <2>2, <3>1, CodesType
  <2>4. PICK c \in Seq(T) : c = FlattenSeq(w)
    BY <2>3, FlattenType
  <2>5. Quoted(c) \in Seq(T) /\ Len(Quoted(c)) = Len(c) + 2
    BY QuotedIs
  <2>6. Len(c) + 2 >= 1
    OBVIOUS
  <2> QED
    BY <2>1, <2>4, <2>5, <2>6
<1>2. CASE ~\E i \in DOMAIN v : v[i] \in {Blank, Quote, Backslash}
  <2>1. FmtFilename(v) = v
    BY <1>2 DEF FmtFilename
  <2> QED
    BY <2>1
<1> QED
  BY <1>1, <1>2

(* The values a line of fields is read as, one after another.              *)
Read(s, vals, nx) ==
  /\ nx[1] = 3
  /\ \A j \in 1 .. Len(vals) : NextToken(s, nx[j]) = [tok |-> vals[j], next |-> nx[j + 1]]
  /\ NextToken(s, nx[Len(vals) + 1]).tok = <<>>

Told(fields, vals, verb, T) ==
  LET arg == <<verb>> \o FlattenSeq(Spaced(fields))
  IN arg \in Seq(T) /\ arg[1] = verb /\ arg # <<>> /\ \E nx : Read(arg, vals, nx)

(* A line of fields is read as the values they are read as.                *)
LEMMA Tokens ==
  ASSUME NEW T, {Blank, Quote, Backslash} \subseteq T, NEW vals \in Seq(Seq(T)), Len(vals) >= 1,
         \A j \in 1 .. Len(vals) : vals[j] # <<>>,
         NEW fields, fields = [j \in 1 .. Len(vals) |-> FmtFilename(vals[j])], NEW verb \in T
  PROVE  Told(fields, vals, verb, T)
<1>1. PICK n \in Nat : n = Len(vals) /\ n >= 1
  OBVIOUS
<1>2. ASSUME NEW j \in 1 .. n
      PROVE  fields[j] = FmtFilename(vals[j]) /\ fields[j] \in Seq(T) /\ Len(fields[j]) >= 1
             /\ vals[j] \in Seq(T) /\ vals[j] # <<>>
  <2>1. vals[j] \in Seq(T) /\ vals[j] # <<>>
    BY <1>1
  <2>2. fields[j] = FmtFilename(vals[j])
    BY <1>1
  <2> QED
    BY <2>1, <2>2, FileField
<1>3. fields \in Seq(Seq(T)) /\ Len(fields) = n /\ DOMAIN fields = 1 .. n
  <2>1. PICK U : U = Seq(T)
    OBVIOUS
  <2>2. \A j \in 1 .. n : fields[j] \in U
    BY <1>2, <2>1
  <2>3. fields = [j \in 1 .. n |-> fields[j]]
    BY <1>1
  <2>4. fields \in Seq(U) /\ DOMAIN fields = 1 .. n
    <3>1. PICK g : g = [j \in 1 .. n |-> fields[j]]
      OBVIOUS
    <3>2. g \in Seq(U)
      BY <2>2, <3>1
    <3>3. DOMAIN g = 1 .. n
      BY <3>1
    <3>4. fields = g
      BY <2>3, <3>1
    <3> QED
      BY <3>2, <3>3, <3>4
  <2> QED
    BY <2>1, <2>4
<1>4. PICK sep : sep = [j \in 1 .. n |-> Blank]
  OBVIOUS
<1>5. Behinds(Spaced(fields), sep, fields)
  <2>1. \A j \in 1 .. n : <<sep[j]>> \o fields[j] = <<Blank>> \o fields[j]
    BY <1>4
  <2> QED
    BY <1>3, <2>1 DEF Behinds, Spaced
<1>6. \A j \in 1 .. Len(fields) : sep[j] \in T
  BY <1>3, <1>4
<1>0. PICK t : t = FlattenSeq(Spaced(fields))
  OBVIOUS
<1>7. PICK at : Spaced(fields) \in Seq(Seq(T)) /\ t \in Seq(T) /\ PlacedBehind(at, sep, fields, t)
  <2>1. PICK w : w = Spaced(fields)
    OBVIOUS
  <2>2. Behinds(w, sep, fields)
    BY <1>5, <2>1
  <2>3. /\ w \in Seq(Seq(T)) /\ FlattenSeq(w) \in Seq(T)
        /\ \E at : PlacedBehind(at, sep, fields, FlattenSeq(w))
    BY <1>3, <1>6, <2>2, Separated
  <2> QED
    BY <1>0, <2>1, <2>3
<1>8. PICK l \in Nat : l = Len(t)
  BY <1>7
<1>9. /\ at \in [1 .. n + 1 -> Nat \ {0}] /\ at[1] = 1 /\ at[n + 1] = l + 1
      /\ \A j \in 1 .. n : /\ at[j] <= l /\ t[at[j]] = Blank
                           /\ at[j + 1] = (at[j] + Len(fields[j])) + 1 /\ at[j + 1] <= l + 1
                           /\ \A m \in 1 .. Len(fields[j]) : t[at[j] + m] = fields[j][m]
  BY <1>3, <1>4, <1>7, <1>8 DEF PlacedBehind
<1>10. PICK s \in Seq(T) : /\ s = <<verb>> \o t /\ Len(s) = l + 1 /\ s[1] = verb
                           /\ \A k \in 1 .. l : s[k + 1] = t[k]
  <2>1. PICK a \in Seq(T) : a = <<verb>> /\ Len(a) = 1 /\ a[1] = verb
    <3>1. <<verb>> \in Seq(T) /\ Len(<<verb>>) = 1 /\ <<verb>>[1] = verb
      OBVIOUS
    <3> QED
      BY <3>1
  <2>2. /\ a \o t \in Seq(T) /\ Len(a \o t) = Len(a) + Len(t)
        /\ \A k \in 1 .. Len(a) : (a \o t)[k] = a[k]
        /\ \A m \in 1 .. Len(t) : (a \o t)[Len(a) + m] = t[m]
    BY <1>7, Concatenates
  <2>3. PICK b \in Seq(T) : b = a \o t
    BY <2>2
  <2>4. 1 \in 1 .. Len(a) /\ Len(a) + Len(t) = l + 1
    BY <1>8, <2>1
  <2>5. Len(b) = l + 1 /\ b[1] = verb
    BY <2>1, <2>2, <2>3, <2>4
  <2>6. ASSUME NEW k \in 1 .. l PROVE b[k + 1] = t[k]
    <3>1. Len(a) + k = k + 1 /\ k \in 1 .. Len(t)
      BY <1>8, <2>1
    <3> QED
      BY <2>2, <2>3, <3>1
  <2> QED
    BY <2>1, <2>3, <2>5, <2>6
<1>11. PICK nx : nx = [j \in 1 .. n + 1 |-> IF j <= n THEN at[j] + 2 ELSE l + 2]
  OBVIOUS
<1>12. nx[1] = 3 /\ nx[n + 1] = l + 2 /\ \A j \in 1 .. n : nx[j] = at[j] + 2
  <2>1. /\ 1 \in 1 .. n + 1 /\ 1 <= n /\ n + 1 \in 1 .. n + 1 /\ ~(n + 1 <= n)
        /\ \A j \in 1 .. n : j <= n /\ j \in 1 .. n + 1
    BY <1>1
  <2>2. nx[1] = at[1] + 2
    BY <1>11, <2>1
  <2>3. nx[1] = 3
    BY <1>9, <2>2
  <2> QED
    BY <1>11, <2>1, <2>3
<1>13. ASSUME NEW j \in 1 .. n
       PROVE  NextToken(s, nx[j]) = [tok |-> vals[j], next |-> nx[j + 1]]
  <2>1. PICK a \in Nat \ {0}, b \in Nat \ {0}, e \in Nat :
          a = at[j] /\ b = at[j + 1] /\ e = Len(fields[j]) /\ e >= 1
    <3>1. j \in 1 .. n + 1 /\ j + 1 \in 1 .. n + 1 /\ Len(fields[j]) \in Nat
      BY <1>2
    <3> QED
      BY <1>2, <1>9, <3>1
  <2>2. PICK f \in Seq(T) : f = fields[j] /\ f = FmtFilename(vals[j])
    BY <1>2
  <2>12. \A m \in 1 .. Len(fields[j]) : t[at[j] + m] = fields[j][m]
    BY <1>9
  <2>13. /\ a <= l /\ b = (a + e) + 1 /\ b <= l + 1
    BY <1>9, <2>1
  <2>3. /\ a <= l /\ b = (a + e) + 1 /\ b <= l + 1
        /\ \A m \in 1 .. e : t[a + m] = f[m]
    BY <2>1, <2>2, <2>12, <2>13
  <2>4. \A m \in 1 .. e : s[((a + 2) + m) - 1] = f[m]
    <3>1. \A m \in 1 .. e : a + m \in 1 .. l /\ ((a + 2) + m) - 1 = (a + m) + 1
      BY <2>3
    <3> QED
      BY <1>10, <2>3, <3>1
  <2>5. (a + 2) + e = b + 1 /\ l + 1 = Len(s)
    BY <1>10, <2>3
  <2>6. j # n => b <= l /\ t[b] = Blank
    <3>1. j # n => j + 1 \in 1 .. n
      OBVIOUS
    <3> QED
      BY <1>9, <2>1, <3>1
  <2>7. j = n => b = l + 1
    BY <1>9, <2>1
  <2>8. b + 1 <= l + 1 => s[b + 1] = Blank
    <3>1. b + 1 <= l + 1 => j # n /\ b \in 1 .. l
      BY <2>3, <2>7
    <3> QED
      BY <1>10, <2>6, <3>1
  <2>9. Lies(s, a + 2, f)
    <3>1. a + 2 \in Nat \ {0} /\ Len(f) >= 1 /\ Len(f) = e /\ (a + 2) + Len(f) <= Len(s) + 1
      <4>1. Len(f) = e
        BY <2>1, <2>2
      <4>2. (a + 2) + e <= Len(s) + 1
        BY <1>8, <2>3, <2>5
      <4> QED
        <5>1. a + 2 \in Nat \ {0} /\ Len(f) >= 1
          BY <2>1, <4>1
        <5>2. (a + 2) + Len(f) <= Len(s) + 1
          BY <4>1, <4>2
        <5> QED
          BY <4>1, <5>1, <5>2
    <3>2. (a + 2) + Len(f) = b + 1
      BY <2>5, <3>1
    <3> QED
      BY <2>4, <2>5, <2>8, <3>1, <3>2 DEF Lies
  <2>10. NextToken(s, a + 2) = [tok |-> vals[j], next |-> NextField(s, a + 2, f)]
    <3>1. Lies(s, a + 2, FmtFilename(vals[j])) /\ vals[j] \in Seq(T) /\ vals[j] # <<>>
      BY <1>2, <2>2, <2>9
    <3> QED
      BY <2>2, <3>1, FileToken
  <2>11. NextField(s, a + 2, f) = nx[j + 1]
    <3>1. (a + 2) + Len(f) = b + 1
      BY <2>1, <2>2, <2>5
    <3>2. NextField(s, a + 2, f) = IF b + 1 <= l + 1 THEN (b + 1) + 1 ELSE b + 1
      BY <2>5, <3>1 DEF NextField
    <3>3. CASE j = n
      <4>1. b + 1 = l + 2 /\ ~(b + 1 <= l + 1)
        BY <2>7, <3>3
      <4> QED
        BY <1>12, <3>2, <3>3, <4>1
    <3>4. CASE j # n
      <4>1. j + 1 \in 1 .. n /\ b + 1 <= l + 1 /\ (b + 1) + 1 = b + 2
        BY <2>6, <3>4
      <4>2. nx[j + 1] = b + 2
        BY <1>12, <2>1, <4>1
      <4> QED
        BY <3>2, <4>1, <4>2
    <3> QED
      BY <3>3, <3>4
  <2> QED
    BY <1>12, <2>1, <2>10, <2>11
<1>14. NextToken(s, nx[n + 1]).tok = <<>>
  <2>1. l + 2 \in Nat /\ l + 2 > Len(s)
    BY <1>10
  <2> QED
    BY <1>12, <2>1, PastEnd
<1>15. Read(s, vals, nx)
  BY <1>1, <1>12, <1>13, <1>14 DEF Read
<1>16. s # <<>>
  <2>1. Len(s) # 0
    BY <1>10
  <2> QED
    BY <2>1
<1> QED
  BY <1>0, <1>7, <1>10, <1>15, <1>16 DEF Told

(* What offers are written with.                                           *)
OfferUnits == {Blank, Quote, Backslash} \cup Numbers \cup DOMAIN ParseHost \cup {Verb[a] : a \in Actions}

LEMMA PlainUnits ==
  ASSUME NEW u \in Numbers \cup DOMAIN ParseHost
  PROVE  u \notin {Blank, Quote, Backslash} /\ FmtFilename(<<u>>) = <<u>>
<1>1. u \notin {Blank, Quote, Backslash}
  <2>1. DOMAIN ParseHost = {"0", "16909060", "0.0.0.0", "1.2.3.4", "::", "[::]", "FE80::1",
          "[fe80::1]", "irc.example", "localhost"}
    BY DEF ParseHost
  <2>2. Numbers = {"1", "65535", "0", "65536"}
    BY DEF Numbers, Ports
  <2> QED
    BY <2>1, <2>2, Zenon DEF Blank, Quote, Backslash
<1>2. FmtFilename(<<u>>) = <<u>>
  <2>1. PICK v : v = <<u>>
    OBVIOUS
  <2>2. \A i \in DOMAIN v : v[i] = u
    BY <2>1
  <2>3. ~\E i \in DOMAIN v : v[i] \in {Blank, Quote, Backslash}
    BY <1>1, <2>2
  <2>4. FmtFilename(v) = v
    BY <2>3, Zenon DEF FmtFilename
  <2> QED
    BY <2>1, <2>4
<1> QED
  BY <1>1, <1>2

LEMMA HostKept ==
  ASSUME NEW h \in DOMAIN ParseHost
  PROVE  /\ FmtHost(h) \in DOMAIN ParseHost /\ ParseHost[FmtHost(h)] = ParseHost[h]
         /\ ParseHost[h] \in {"0.0.0.0", "1.2.3.4", "::", "fe80::1", "irc.example", "none"}
         /\ FmtHost(h) # "chat"
<1>1. ParseHost[h] \in {"0.0.0.0", "1.2.3.4", "::", "fe80::1", "irc.example", "none"}
  BY DEF ParseHost
<1>2. FmtHost(h) = CASE ParseHost[h] = "0.0.0.0" -> "0"
                     [] ParseHost[h] = "1.2.3.4" -> "16909060"
                     [] ParseHost[h] = "::" -> "[::]"
                     [] ParseHost[h] = "fe80::1" -> "[fe80::1]"
                     [] OTHER -> h
  BY DEF FmtHost
<1>3. {"0", "16909060", "[::]", "[fe80::1]"} \subseteq DOMAIN ParseHost
  BY DEF ParseHost
<1>4. /\ ParseHost["0"] = "0.0.0.0" /\ ParseHost["16909060"] = "1.2.3.4"
      /\ ParseHost["[::]"] = "::" /\ ParseHost["[fe80::1]"] = "fe80::1"
  BY DEF ParseHost
<1>5. \A k \in DOMAIN ParseHost : k # "chat"
  BY DEF ParseHost
<1>6. FmtHost(h) \in DOMAIN ParseHost /\ ParseHost[FmtHost(h)] = ParseHost[h]
  BY <1>1, <1>2, <1>3, <1>4
<1> QED
  BY <1>1, <1>5, <1>6

(* CreateDcc, by the tokens it takes from its argument.                    *)
Tokenized(arg, token) ==
  /\ token[0] = [tok |-> <<>>, next |-> 3]
  /\ \A k \in 1 .. 5 : token[k] = NextToken(arg, token[k - 1].next)
CreateDccWith(arg, token) ==
  LET action == CHOOSE a \in Actions : Verb[a] = arg[1]
      subtype == ~HasFile(action) /\ token[1].tok = <<"chat">>
      skip == (IF HasFile(action) THEN 1 ELSE 0) + (IF subtype THEN 1 ELSE 0)
      address == IF HasHost(action) THEN token[skip + 1].tok ELSE <<"1.2.3.4">>
      at == skip + (IF HasHost(action) THEN 2 ELSE 1)
      readable == Len(address) = 1 /\ address[1] \in DOMAIN ParseHost
      value == IF readable THEN ParseHost[address[1]] ELSE "none"
      passive == token[at].tok = <<"0">> \/ IsPassivePlaceholder(value)
      port == ParsePort(token[at].tok, passive)
      size == IF HasFile(action) THEN token[at + 1].tok ELSE <<"0">>
      last == token[at + (IF HasFile(action) THEN 2 ELSE 1)].tok
  IN IF \/ arg = <<>> \/ arg[1] \notin {Verb[a] : a \in Actions}
        \/ HasFile(action) /\ token[1].tok = <<>>
        \/ value = "none"
        \/ port = "undefined"
        \/ ~IsUint(size)
        \/ passive /\ ~IsUint(last)
     THEN NoOffer
     ELSE [action |-> IF action = "schat" THEN "chat" ELSE action,
           file |-> IF HasFile(action) THEN token[1].tok ELSE <<>>,
           host |-> IF HasHost(action) THEN value ELSE "none",
           port |-> port, size |-> size[1],
           token |-> IF IsUint(last) THEN last ELSE <<>>,
           passive |-> passive, tls |-> action = "schat"]

LEMMA CreateDccIs ==
  ASSUME NEW arg
  PROVE  \E token : Tokenized(arg, token) /\ CreateDcc(arg) = CreateDccWith(arg, token)
<1> DEFINE token == CHOOSE f : f = [k \in 0 .. 5 |-> IF k = 0 THEN [tok |-> <<>>, next |-> 3]
                                                     ELSE NextToken(arg, f[k - 1].next)]
<1>1. CreateDcc(arg) = CreateDccWith(arg, token)
  BY DEF CreateDcc, CreateDccWith
<1>2. \E f : f = [k \in 0 .. 5 |-> IF k = 0 THEN [tok |-> <<>>, next |-> 3]
                                   ELSE NextToken(arg, f[k - 1].next)]
  <2>1. PICK n0 : n0 = [tok |-> <<>>, next |-> 3]
    OBVIOUS
  <2>2. PICK n1, n2, n3, n4, n5 :
          /\ n1 = NextToken(arg, n0.next) /\ n2 = NextToken(arg, n1.next)
          /\ n3 = NextToken(arg, n2.next) /\ n4 = NextToken(arg, n3.next)
          /\ n5 = NextToken(arg, n4.next)
    OBVIOUS
  <2>3. PICK f : f = [k \in 0 .. 5 |-> IF k = 0 THEN n0 ELSE IF k = 1 THEN n1 ELSE IF k = 2 THEN n2
                                       ELSE IF k = 3 THEN n3 ELSE IF k = 4 THEN n4 ELSE n5]
    OBVIOUS
  <2>4. f[0] = n0 /\ f[1] = n1 /\ f[2] = n2 /\ f[3] = n3 /\ f[4] = n4 /\ f[5] = n5
    BY <2>3
  <2>5. \A k \in 0 .. 5 : f[k] = IF k = 0 THEN n0 ELSE NextToken(arg, f[k - 1].next)
    <3>1. \A k \in 0 .. 5 : k = 0 \/ (k = 1 /\ k - 1 = 0) \/ (k = 2 /\ k - 1 = 1) \/ (k = 3 /\ k - 1 = 2)
                            \/ (k = 4 /\ k - 1 = 3) \/ (k = 5 /\ k - 1 = 4)
      OBVIOUS
    <3> QED
      BY <2>2, <2>4, <3>1
  <2>6. f = [k \in 0 .. 5 |-> IF k = 0 THEN n0 ELSE NextToken(arg, f[k - 1].next)]
    <3>1. f = [k \in 0 .. 5 |-> f[k]]
      BY <2>3
    <3> QED
      BY <2>5, <3>1
  <2> QED
    BY <2>1, <2>6
<1>3. token = [k \in 0 .. 5 |-> IF k = 0 THEN [tok |-> <<>>, next |-> 3]
                                ELSE NextToken(arg, token[k - 1].next)]
  BY <1>2, Zenon
<1> HIDE DEF token
<1>4. Tokenized(arg, token)
  <2>1. \A k \in 1 .. 5 : k \in 0 .. 5 /\ k # 0
    OBVIOUS
  <2>2. 0 \in 0 .. 5
    OBVIOUS
  <2>3. \A k \in 0 .. 5 : token[k] = IF k = 0 THEN [tok |-> <<>>, next |-> 3]
                                     ELSE NextToken(arg, token[k - 1].next)
    BY <1>3
  <2> QED
    BY <2>1, <2>2, <2>3 DEF Tokenized
<1> QED
  BY <1>1, <1>4

(* These are the values of the fields, after the verb.                     *)
Tells(token, vals) ==
  /\ \A k \in 1 .. 5 : k <= Len(vals) => token[k].tok = vals[k]
  /\ Len(vals) + 1 <= 5 => token[Len(vals) + 1].tok = <<>>

LEMMA TokensAre ==
  ASSUME NEW arg, NEW token, Tokenized(arg, token), NEW T, NEW vals \in Seq(T), NEW nx, Read(arg, vals, nx)
  PROVE  Tells(token, vals)
<1>1. PICK n \in Nat : n = Len(vals)
  OBVIOUS
<1>2. /\ nx[1] = 3 /\ NextToken(arg, nx[n + 1]).tok = <<>>
      /\ \A j \in 1 .. n : NextToken(arg, nx[j]) = [tok |-> vals[j], next |-> nx[j + 1]]
  BY <1>1 DEF Read
<1>3. token[0].next = 3 /\ \A k \in 1 .. 5 : token[k] = NextToken(arg, token[k - 1].next)
  BY DEF Tokenized
<1> DEFINE S == {k \in 0 .. 5 : k <= n => token[k].next = nx[k + 1]}
<1>4. 0 \in S
  <2>1. 0 + 1 = 1 /\ 0 \in 0 .. 5
    OBVIOUS
  <2> QED
    BY <1>2, <1>3, <2>1
<1>5. ASSUME NEW k \in 1 .. 5, k - 1 \in S PROVE k \in S
  <2>1. ASSUME k <= n PROVE token[k].next = nx[k + 1]
    <3>1. k - 1 <= n /\ (k - 1) + 1 = k /\ k \in 1 .. n
      BY <2>1
    <3>2. token[k - 1].next = nx[k]
      BY <1>5, <3>1
    <3>3. token[k] = NextToken(arg, nx[k])
      BY <1>3, <3>2
    <3>4. token[k] = [tok |-> vals[k], next |-> nx[k + 1]]
      BY <1>2, <3>1, <3>3
    <3> QED
      BY <3>4
  <2>2. k \in 0 .. 5
    OBVIOUS
  <2> QED
    BY <2>1, <2>2
<1>6. \A k \in 0 .. 5 : k \in S
  <2>1. 5 \in Nat
    OBVIOUS
  <2> HIDE DEF S
  <2> QED
    BY <1>4, <1>5, <2>1, UpTo
<1>7. ASSUME NEW k \in 1 .. 5, k <= n + 1 PROVE token[k] = NextToken(arg, nx[k])
  <2>1. k - 1 \in 0 .. 5 /\ k - 1 <= n /\ (k - 1) + 1 = k
    BY <1>7
  <2>2. token[k - 1].next = nx[k]
    BY <1>6, <2>1
  <2> QED
    BY <1>3, <2>2
<1>8. ASSUME NEW k \in 1 .. 5, k <= n PROVE token[k].tok = vals[k]
  <2>1. k <= n + 1 /\ k \in 1 .. n
    BY <1>8
  <2>2. token[k] = [tok |-> vals[k], next |-> nx[k + 1]]
    BY <1>2, <1>7, <2>1
  <2> QED
    BY <2>2
<1>9. n + 1 <= 5 => token[n + 1].tok = <<>>
  <2>1. n + 1 <= 5 => n + 1 \in 1 .. 5 /\ n + 1 <= n + 1
    OBVIOUS
  <2> QED
    BY <1>2, <1>7, <2>1
<1> QED
  BY <1>1, <1>8, <1>9 DEF Tells

(* The fields an offer is written in, and where its port and token stand.  *)
OffersOf(T) ==
  [action : Actions, file : Seq(T), host : DOMAIN ParseHost, port : Numbers,
   size : Numbers, token : {<<>>} \cup {<<n>> : n \in Numbers}]
Optional(p, field) == IF p THEN <<field>> ELSE <<>>
Fields(cmd) ==
  Optional(HasFile(cmd.action), FmtFilename(cmd.file))
    \o Optional(HasHost(cmd.action), <<FmtHost(cmd.host)>>)
    \o <<<<cmd.port>>>>
    \o Optional(HasFile(cmd.action), <<cmd.size>>)
    \o Optional(cmd.token # <<>>, cmd.token)
Values(cmd) ==
  Optional(HasFile(cmd.action), cmd.file)
    \o Optional(HasHost(cmd.action), <<FmtHost(cmd.host)>>)
    \o <<<<cmd.port>>>>
    \o Optional(HasFile(cmd.action), <<cmd.size>>)
    \o Optional(cmd.token # <<>>, cmd.token)
Skip(action) == IF HasFile(action) THEN 1 ELSE 0
PortAt(action) == Skip(action) + (IF HasHost(action) THEN 2 ELSE 1)
TokenAt(action) == PortAt(action) + (IF HasFile(action) THEN 2 ELSE 1)

LEMMA Kinds ==
  ASSUME NEW action \in Actions
  PROVE  /\ action = "send" => HasFile(action) /\ HasHost(action)
         /\ action \in {"chat", "schat"} => ~HasFile(action) /\ HasHost(action)
         /\ action \in {"resume", "accept"} => HasFile(action) /\ ~HasHost(action)
         /\ action \in {"send", "chat", "schat", "resume", "accept"}
         /\ HasFile(action) \/ HasHost(action)
  BY DEF Actions, HasFile, HasHost

(* Fields and the values they are written for.                             *)
Rows(f, v, n, T) ==
  /\ f \in Seq(Seq(T)) /\ v \in Seq(Seq(T)) /\ Len(f) = n /\ Len(v) = n
  /\ \A j \in 1 .. n : v[j] # <<>> /\ f[j] = FmtFilename(v[j])

LEMMA Appended ==
  ASSUME NEW U, NEW f \in Seq(U), NEW y \in U, NEW n \in Nat, n = Len(f), NEW g, g = f \o <<y>>
  PROVE  /\ g \in Seq(U) /\ Len(g) = n + 1 /\ g[n + 1] = y
         /\ \A j \in 1 .. n : g[j] = f[j]
<1>1. /\ f \o <<y>> \in Seq(U) /\ Len(f \o <<y>>) = Len(f) + 1 /\ (f \o <<y>>)[Len(f) + 1] = y
      /\ \A k \in 1 .. Len(f) : (f \o <<y>>)[k] = f[k]
  OBVIOUS
<1> QED
  BY <1>1

Grown(f, v, n, g, w, m, x, T) ==
  /\ Rows(g, w, m, T)
  /\ \A j \in 1 .. n : w[j] = v[j]
  /\ m = n + 1
  /\ w[m] = x

(* A field that every offer has, and one that only some have.              *)
LEMMA RowOne ==
  ASSUME NEW T, {Quote, Backslash} \subseteq T, NEW n \in Nat, NEW f, NEW v, Rows(f, v, n, T),
         NEW x \in Seq(T), x # <<>>, NEW g, NEW w, g = f \o <<FmtFilename(x)>>, w = v \o <<x>>
  PROVE  Grown(f, v, n, g, w, n + 1, x, T)
<1>1. f \in Seq(Seq(T)) /\ v \in Seq(Seq(T)) /\ Len(f) = n /\ Len(v) = n
      /\ \A j \in 1 .. n : v[j] # <<>> /\ f[j] = FmtFilename(v[j])
  BY DEF Rows
<1>2. PICK U : U = Seq(T)
  OBVIOUS
<1>3. PICK y : y = FmtFilename(x)
  OBVIOUS
<1>4. x \in U /\ y \in U
  BY <1>2, <1>3, FileField
<1>5. /\ g \in Seq(U) /\ g = f \o <<y>> /\ Len(g) = n + 1 /\ g[n + 1] = y
      /\ \A j \in 1 .. n : g[j] = f[j]
  <2>1. PICK F \in Seq(U) : F = f /\ n = Len(F)
    BY <1>1, <1>2
  <2>2. g = F \o <<y>>
    BY <1>3, <2>1
  <2> QED
    BY <1>4, <2>1, <2>2, Appended
<1>6. /\ w \in Seq(U) /\ w = v \o <<x>> /\ Len(w) = n + 1 /\ w[n + 1] = x
      /\ \A j \in 1 .. n : w[j] = v[j]
  <2>1. PICK F \in Seq(U) : F = v /\ n = Len(F)
    BY <1>1, <1>2
  <2>2. w = F \o <<x>>
    BY <2>1
  <2> QED
    BY <1>4, <2>1, <2>2, Appended
<1>7. \A j \in 1 .. n + 1 : w[j] # <<>> /\ g[j] = FmtFilename(w[j])
  <2>1. \A j \in 1 .. n + 1 : j = n + 1 \/ j \in 1 .. n
    OBVIOUS
  <2> QED
    BY <1>1, <1>3, <1>5, <1>6, <2>1
<1>8. Rows(g, w, n + 1, T)
  BY <1>2, <1>5, <1>6, <1>7 DEF Rows
<1> QED
  BY <1>3, <1>5, <1>6, <1>8 DEF Grown

Grows(f, v, n, g, w, m, p, x, T) ==
  /\ Rows(g, w, m, T)
  /\ p => m = n + 1 /\ w[n + 1] = x
  /\ ~p => m = n
  /\ \A j \in 1 .. n : w[j] = v[j]

LEMMA RowMore ==
  ASSUME NEW T, {Quote, Backslash} \subseteq T, NEW n \in Nat, NEW f, NEW v, Rows(f, v, n, T),
         NEW p \in BOOLEAN, NEW x, p => x \in Seq(T) /\ x # <<>>,
         NEW g, NEW w, g = f \o Optional(p, FmtFilename(x)), w = v \o Optional(p, x)
  PROVE  \E m \in Nat : Grows(f, v, n, g, w, m, p, x, T)
<1>1. CASE p
  <2>1. Optional(p, FmtFilename(x)) = <<FmtFilename(x)>> /\ Optional(p, x) = <<x>>
    BY <1>1 DEF Optional
  <2>2. PICK z \in Seq(T) : z = x /\ z # <<>>
    BY <1>1
  <2>5. g = f \o <<FmtFilename(z)>> /\ w = v \o <<z>>
    BY <2>1, <2>2
  <2>7. Grown(f, v, n, g, w, n + 1, z, T)
    BY <2>2, <2>5, RowOne
  <2>3. Rows(g, w, n + 1, T) /\ (\A j \in 1 .. n : w[j] = v[j]) /\ w[n + 1] = z
    BY <2>7 DEF Grown
  <2>4. PICK m \in Nat : m = n + 1
    OBVIOUS
  <2>6. Grows(f, v, n, g, w, m, p, x, T)
    BY <1>1, <2>2, <2>3, <2>4, <2>5 DEF Grows
  <2> QED
    BY <2>4, <2>6
<1>2. CASE ~p
  <2>1. Optional(p, FmtFilename(x)) = <<>> /\ Optional(p, x) = <<>>
    BY <1>2 DEF Optional
  <2>2. f \in Seq(Seq(T)) /\ v \in Seq(Seq(T))
    BY DEF Rows
  <2>3. PICK U : U = Seq(T)
    OBVIOUS
  <2>4. \A s \in Seq(U) : s \o <<>> = s
    OBVIOUS
  <2>5. g = f /\ w = v
    BY <2>1, <2>2, <2>3, <2>4
  <2>6. Grows(f, v, n, g, w, n, p, x, T)
    BY <1>2, <2>5 DEF Grows
  <2> QED
    BY <2>6
<1> QED
  BY <1>1, <1>2

(* The fields of an offer, and the values they are read as.                *)
LEMMA ValuesAre ==
  ASSUME NEW T, OfferUnits \subseteq T, NEW cmd \in OffersOf(T), HasFile(cmd.action) => cmd.file # <<>>
  PROVE  \E n \in Nat :
           /\ Rows(Fields(cmd), Values(cmd), n, T)
           /\ n = IF cmd.token # <<>> THEN TokenAt(cmd.action) ELSE TokenAt(cmd.action) - 1
           /\ HasFile(cmd.action) => Values(cmd)[1] = cmd.file
                                     /\ Values(cmd)[PortAt(cmd.action) + 1] = <<cmd.size>>
           /\ HasHost(cmd.action) => Values(cmd)[Skip(cmd.action) + 1] = <<FmtHost(cmd.host)>>
           /\ Values(cmd)[PortAt(cmd.action)] = <<cmd.port>>
           /\ cmd.token # <<>> => Values(cmd)[TokenAt(cmd.action)] = cmd.token
<1>1. /\ cmd.action \in Actions /\ cmd.file \in Seq(T) /\ cmd.host \in DOMAIN ParseHost
      /\ cmd.port \in Numbers /\ cmd.size \in Numbers
      /\ cmd.token \in {<<>>} \cup {<<m>> : m \in Numbers}
  BY DEF OffersOf
<1>2. {Quote, Backslash} \subseteq T /\ Numbers \subseteq T /\ DOMAIN ParseHost \subseteq T
  BY DEF OfferUnits
<1>3. ASSUME NEW u \in Numbers \cup DOMAIN ParseHost
      PROVE  <<u>> \in Seq(T) /\ <<u>> # <<>> /\ <<u>> = FmtFilename(<<u>>)
  <2>1. u \in T
    BY <1>2
  <2>2. FmtFilename(<<u>>) = <<u>>
    BY PlainUnits
  <2>3. <<u>> \in Seq(T) /\ <<u>> # <<>>
    BY <2>1
  <2> QED
    BY <2>2, <2>3
<1>4. PICK hf \in BOOLEAN, hh \in BOOLEAN, ht \in BOOLEAN :
        (hf <=> HasFile(cmd.action)) /\ (hh <=> HasHost(cmd.action)) /\ (ht <=> cmd.token # <<>>)
  OBVIOUS
<1>5. PICK file, b, c, d, e :
        /\ file = cmd.file /\ b = <<FmtHost(cmd.host)>> /\ c = <<cmd.port>>
        /\ d = <<cmd.size>> /\ e = cmd.token
  OBVIOUS
<1>6. /\ hf => file \in Seq(T) /\ file # <<>>
      /\ b \in Seq(T) /\ b # <<>> /\ b = FmtFilename(b)
      /\ c \in Seq(T) /\ c # <<>> /\ c = FmtFilename(c)
      /\ d \in Seq(T) /\ d # <<>> /\ d = FmtFilename(d)
      /\ ht => e \in Seq(T) /\ e # <<>> /\ e = FmtFilename(e)
  <2>1. FmtHost(cmd.host) \in DOMAIN ParseHost
    BY <1>1, HostKept
  <2>2. ht => e \in {<<m>> : m \in Numbers}
    BY <1>1, <1>4, <1>5
  <2>3. ht => e \in Seq(T) /\ e # <<>> /\ e = FmtFilename(e)
    BY <1>3, <2>2
  <2> QED
    BY <1>1, <1>3, <1>4, <1>5, <2>1, <2>3
<1>7. Rows(<<>>, <<>>, 0, T)
  BY DEF Rows
<1>8. PICK f1, v1 : f1 = <<>> \o Optional(hf, FmtFilename(file)) /\ v1 = <<>> \o Optional(hf, file)
  OBVIOUS
<1>9. PICK f2, v2 : f2 = f1 \o Optional(hh, FmtFilename(b)) /\ v2 = v1 \o Optional(hh, b)
  OBVIOUS
<1>10. PICK f3, v3 : f3 = f2 \o Optional(TRUE, FmtFilename(c)) /\ v3 = v2 \o Optional(TRUE, c)
  OBVIOUS
<1>11. PICK f4, v4 : f4 = f3 \o Optional(hf, FmtFilename(d)) /\ v4 = v3 \o Optional(hf, d)
  OBVIOUS
<1>12. PICK f5, v5 : f5 = f4 \o Optional(ht, FmtFilename(e)) /\ v5 = v4 \o Optional(ht, e)
  OBVIOUS
<1>27. ASSUME NEW n \in Nat, NEW f, NEW v, Rows(f, v, n, T), NEW p \in BOOLEAN, NEW x,
              p => x \in Seq(T) /\ x # <<>>,
              NEW g, NEW w, g = f \o Optional(p, FmtFilename(x)), w = v \o Optional(p, x)
       PROVE  \E m \in Nat : Grows(f, v, n, g, w, m, p, x, T)
  BY <1>2, <1>27, RowMore
<1>28. PICK n1 \in Nat : Grows(<<>>, <<>>, 0, f1, v1, n1, hf, file, T)
  <2>1. PICK o, z : o = <<>> /\ z = 0 /\ z \in Nat
    OBVIOUS
  <2>2. Rows(o, o, z, T) /\ f1 = o \o Optional(hf, FmtFilename(file)) /\ v1 = o \o Optional(hf, file)
    BY <1>7, <1>8, <2>1
  <2>3. \E m \in Nat : Grows(o, o, z, f1, v1, m, hf, file, T)
    BY <1>6, <1>27, <2>1, <2>2
  <2> QED
    BY <2>1, <2>3
<1>13. /\ (hf => n1 = 0 + 1 /\ v1[0 + 1] = file) /\ (~hf => n1 = 0)
       /\ Rows(f1, v1, n1, T) /\ n1 \in Nat
  BY <1>28 DEF Grows
<1>29. PICK n2 \in Nat : Grows(f1, v1, n1, f2, v2, n2, hh, b, T)
  BY <1>6, <1>9, <1>13, <1>27
<1>14. /\ (hh => n2 = n1 + 1 /\ v2[n1 + 1] = b) /\ (~hh => n2 = n1)
       /\ Rows(f2, v2, n2, T) /\ n2 \in Nat
       /\ \A j \in 1 .. n1 : v2[j] = v1[j]
  BY <1>29 DEF Grows
<1>32. PICK n3 \in Nat : Grows(f2, v2, n2, f3, v3, n3, TRUE, c, T)
  BY <1>6, <1>10, <1>14, <1>27
<1>15. /\ n3 = n2 + 1 /\ v3[n3] = c /\ Rows(f3, v3, n3, T) /\ n3 \in Nat
       /\ \A j \in 1 .. n2 : v3[j] = v2[j]
  BY <1>32 DEF Grows
<1>30. PICK n4 \in Nat : Grows(f3, v3, n3, f4, v4, n4, hf, d, T)
  BY <1>6, <1>11, <1>15, <1>27
<1>16. /\ (hf => n4 = n3 + 1 /\ v4[n3 + 1] = d) /\ (~hf => n4 = n3)
       /\ Rows(f4, v4, n4, T) /\ n4 \in Nat
       /\ \A j \in 1 .. n3 : v4[j] = v3[j]
  BY <1>30 DEF Grows
<1>31. PICK n5 \in Nat : Grows(f4, v4, n4, f5, v5, n5, ht, e, T)
  BY <1>6, <1>12, <1>16, <1>27
<1>17. /\ (ht => n5 = n4 + 1 /\ v5[n4 + 1] = e) /\ (~ht => n5 = n4)
       /\ Rows(f5, v5, n5, T) /\ n5 \in Nat
       /\ \A j \in 1 .. n4 : v5[j] = v4[j]
  BY <1>31 DEF Grows
<1>18. Fields(cmd) = f5 /\ Values(cmd) = v5
  <2>1. \A x : <<>> \o <<x>> = <<x>>
    BY OneConcat
  <2>2. <<>> \o <<>> = <<>>
    OBVIOUS
  <2>3. \A x : <<>> \o Optional(hf, x) = Optional(HasFile(cmd.action), x)
    BY <1>4, <2>1, <2>2 DEF Optional
  <2>4. \A x : /\ Optional(hf, x) = Optional(HasFile(cmd.action), x)
               /\ Optional(hh, x) = Optional(HasHost(cmd.action), x)
               /\ Optional(ht, x) = Optional(cmd.token # <<>>, x)
               /\ Optional(TRUE, x) = <<x>>
    BY <1>4 DEF Optional
  <2>5. FmtFilename(b) = b /\ FmtFilename(c) = c /\ FmtFilename(d) = d
        /\ Optional(ht, FmtFilename(e)) = Optional(ht, e)
    BY <1>6 DEF Optional
  <2>6. PICK x : x = FmtFilename(file)
    OBVIOUS
  <2>7. /\ f5 = Optional(hf, x) \o Optional(hh, b) \o <<c>> \o Optional(hf, d) \o Optional(ht, e)
        /\ v5 = Optional(hf, file) \o Optional(hh, b) \o <<c>> \o Optional(hf, d) \o Optional(ht, e)
    BY <1>8, <1>9, <1>10, <1>11, <1>12, <2>3, <2>4, <2>5, <2>6
  <2> QED
    BY <1>5, <2>4, <2>6, <2>7 DEF Fields, Values
<1>19. Skip(cmd.action) = n1 /\ PortAt(cmd.action) = n3 /\ TokenAt(cmd.action) = n4 + 1
  <2>1. n1 = IF HasFile(cmd.action) THEN 1 ELSE 0
    BY <1>4, <1>13
  <2>2. n1 + (IF HasHost(cmd.action) THEN 2 ELSE 1) = n3
    BY <1>4, <1>13, <1>14, <1>15
  <2>3. n3 + (IF HasFile(cmd.action) THEN 2 ELSE 1) = n4 + 1
    BY <1>4, <1>15, <1>16
  <2>4. Skip(cmd.action) = n1
    BY <2>1 DEF Skip
  <2>5. PortAt(cmd.action) = n3
    BY <2>2, <2>4 DEF PortAt
  <2> QED
    BY <2>3, <2>4, <2>5 DEF TokenAt
<1>20. n5 = IF cmd.token # <<>> THEN TokenAt(cmd.action) ELSE TokenAt(cmd.action) - 1
  BY <1>4, <1>16, <1>17, <1>19
<1>21. \A j \in 1 .. n3 : v5[j] = v3[j] /\ j \in 1 .. n4
  <2>1. \A j \in 1 .. n3 : j \in 1 .. n4
    BY <1>15, <1>16
  <2> QED
    BY <1>16, <1>17, <2>1
<1>22. hf => v5[1] = file /\ v5[n3 + 1] = d
  <2>1. hf => n1 = 1 /\ 1 \in 1 .. n1 /\ 1 \in 1 .. n2 /\ 1 \in 1 .. n3 /\ n3 + 1 \in 1 .. n4
    BY <1>13, <1>14, <1>15, <1>16
  <2>2. hf => v1[1] = file
    BY <1>13
  <2>3. hf => v5[n3 + 1] = d
    BY <1>16, <1>17, <2>1
  <2> QED
    BY <1>14, <1>15, <1>21, <2>1, <2>2, <2>3
<1>23. hh => v5[n1 + 1] = b
  <2>1. hh => n1 + 1 \in 1 .. n2 /\ n1 + 1 \in 1 .. n3
    BY <1>13, <1>14, <1>15
  <2> QED
    BY <1>14, <1>15, <1>21, <2>1
<1>24. v5[n3] = c
  <2>1. n3 \in 1 .. n3
    BY <1>14, <1>15
  <2>2. v5[n3] = v3[n3]
    BY <1>21, <2>1
  <2>3. v3[n3] = c
    BY <1>15, Zenon
  <2> QED
    BY <2>2, <2>3
<1>25. ht => v5[n4 + 1] = e
  BY <1>17
<1>26. /\ HasFile(cmd.action) => Values(cmd)[1] = cmd.file /\ Values(cmd)[PortAt(cmd.action) + 1] = <<cmd.size>>
       /\ HasHost(cmd.action) => Values(cmd)[Skip(cmd.action) + 1] = <<FmtHost(cmd.host)>>
       /\ Values(cmd)[PortAt(cmd.action)] = <<cmd.port>>
       /\ cmd.token # <<>> => Values(cmd)[TokenAt(cmd.action)] = cmd.token
  BY <1>4, <1>5, <1>18, <1>19, <1>22, <1>23, <1>24, <1>25
<1> QED
  BY <1>17, <1>18, <1>20, <1>26

(* What the tokens of a written offer are read as.                         *)
Reading(cmd, token) ==
  /\ HasFile(cmd.action) => token[1].tok = cmd.file /\ token[PortAt(cmd.action) + 1].tok = <<cmd.size>>
  /\ HasHost(cmd.action) => token[Skip(cmd.action) + 1].tok = <<FmtHost(cmd.host)>>
  /\ token[PortAt(cmd.action)].tok = <<cmd.port>>
  /\ token[TokenAt(cmd.action)].tok = cmd.token

ReadsIn(arg, verb, v, T) ==
  arg \in Seq(T) /\ arg[1] = verb /\ arg # <<>> /\ \E nx : Read(arg, v, nx)

LEMMA RowsRead ==
  ASSUME NEW T, {Blank, Quote, Backslash} \subseteq T, NEW n \in Nat, n >= 1, NEW f, NEW v,
         Rows(f, v, n, T), NEW verb \in T, NEW arg, arg = <<verb>> \o FlattenSeq(Spaced(f))
  PROVE  ReadsIn(arg, verb, v, T)
<1>1. /\ f \in Seq(Seq(T)) /\ v \in Seq(Seq(T)) /\ Len(f) = n /\ Len(v) = n
      /\ \A j \in 1 .. n : v[j] # <<>> /\ f[j] = FmtFilename(v[j])
  BY DEF Rows
<1>2. PICK U : U = Seq(T)
  OBVIOUS
<1>3. f = [j \in 1 .. Len(v) |-> FmtFilename(v[j])]
  <2>1. f \in Seq(U) /\ DOMAIN f = 1 .. n
    BY <1>1, <1>2
  <2>2. f = [j \in 1 .. n |-> f[j]]
    BY <2>1
  <2> QED
    BY <1>1, <2>2
<1>4. PICK vals \in Seq(Seq(T)) : vals = v
  BY <1>1
<1>5. PICK fields : fields = f /\ fields = [j \in 1 .. Len(vals) |-> FmtFilename(vals[j])]
  BY <1>3, <1>4
<1>6. Len(vals) >= 1 /\ \A j \in 1 .. Len(vals) : vals[j] # <<>>
  BY <1>1, <1>4
<1>7. Told(fields, vals, verb, T)
  BY <1>5, <1>6, Tokens
<1> QED
  BY <1>4, <1>5, <1>7 DEF Told, ReadsIn

LEMMA WrittenAs ==
  ASSUME NEW T, OfferUnits \subseteq T, NEW cmd \in OffersOf(T), HasFile(cmd.action) => cmd.file # <<>>
  PROVE  /\ FormatDcc(cmd) = <<Verb[cmd.action]>> \o FlattenSeq(Spaced(Fields(cmd)))
         /\ FormatDcc(cmd) \in Seq(T) /\ FormatDcc(cmd) # <<>> /\ FormatDcc(cmd)[1] = Verb[cmd.action]
         /\ \A token : Tokenized(FormatDcc(cmd), token) => Reading(cmd, token)
<1>1. FormatDcc(cmd) = <<Verb[cmd.action]>> \o FlattenSeq(Spaced(Fields(cmd)))
  BY DEF FormatDcc, Fields, Optional, Spaced
<1>2. PICK action \in Actions : action = cmd.action
  BY DEF OffersOf
<1>3. PICK verb \in T : verb = Verb[action]
  BY <1>2 DEF OfferUnits
<1>4. PICK s, t, p : s = Skip(action) /\ p = PortAt(action) /\ t = TokenAt(action)
  OBVIOUS
<1>5. s \in {0, 1} /\ p \in 1 .. 3 /\ t \in 2 .. 5 /\ p < t /\ s + 1 \in 1 .. 3 /\ s + 1 < t
      /\ (HasFile(action) => p + 1 < t /\ p + 1 \in 1 .. 4)
  <2>1. PICK hf \in BOOLEAN, hh \in BOOLEAN : (hf <=> HasFile(action)) /\ (hh <=> HasHost(action))
    OBVIOUS
  <2>2. s = (IF hf THEN 1 ELSE 0) /\ p = s + (IF hh THEN 2 ELSE 1) /\ t = p + (IF hf THEN 2 ELSE 1)
    BY <1>4, <2>1 DEF Skip, PortAt, TokenAt
  <2>3. hf \/ hh
    BY <2>1, Kinds
  <2> QED
    BY <2>1, <2>2, <2>3
<1>6. PICK f, v : f = Fields(cmd) /\ v = Values(cmd)
  OBVIOUS
<1>7. PICK n \in Nat :
        /\ Rows(f, v, n, T)
        /\ n = IF cmd.token # <<>> THEN t ELSE t - 1
        /\ HasFile(action) => v[1] = cmd.file /\ v[p + 1] = <<cmd.size>>
        /\ HasHost(action) => v[s + 1] = <<FmtHost(cmd.host)>>
        /\ v[p] = <<cmd.port>>
        /\ cmd.token # <<>> => v[t] = cmd.token
  BY <1>2, <1>4, <1>6, ValuesAre
<1>8. n >= 1 /\ n <= 5 /\ \A k \in 1 .. 5 : k < t => k <= n
  BY <1>5, <1>7
<1>9. /\ f \in Seq(Seq(T)) /\ v \in Seq(Seq(T)) /\ Len(f) = n /\ Len(v) = n
      /\ \A j \in 1 .. n : v[j] # <<>> /\ f[j] = FmtFilename(v[j])
  BY <1>7 DEF Rows
<1>11. {Blank, Quote, Backslash} \subseteq T
  BY DEF OfferUnits
<1>12. PICK arg : arg = FormatDcc(cmd)
  OBVIOUS
<1>13. arg = <<verb>> \o FlattenSeq(Spaced(f))
  BY <1>1, <1>2, <1>3, <1>6, <1>12
<1>14. arg \in Seq(T) /\ arg[1] = verb /\ arg # <<>> /\ \E nx : Read(arg, v, nx)
  <2>1. Rows(f, v, n, T) /\ n >= 1
    BY <1>7, <1>8
  <2>2. {Blank, Quote, Backslash} \subseteq T
    BY <1>11
  <2>3. ReadsIn(arg, verb, v, T)
    BY <1>13, <2>1, <2>2, RowsRead
  <2> QED
    BY <2>3 DEF ReadsIn
<1>15. ASSUME NEW token, Tokenized(arg, token) PROVE Reading(cmd, token)
  <2>1. PICK nx : Read(arg, v, nx)
    BY <1>14
  <2>2. PICK U : U = Seq(T)
    OBVIOUS
  <2>3. v \in Seq(U)
    BY <1>9, <2>2
  <2>4. /\ \A k \in 1 .. 5 : k <= n => token[k].tok = v[k]
        /\ n + 1 <= 5 => token[n + 1].tok = <<>>
    <3>2. Tokenized(arg, token)
      BY <1>15
    <3>1. /\ \A k \in 1 .. 5 : k <= Len(v) => token[k].tok = v[k]
          /\ Len(v) + 1 <= 5 => token[Len(v) + 1].tok = <<>>
      <4>1. Tells(token, v)
        BY <2>1, <2>3, <3>2, TokensAre
      <4> QED
        BY <4>1 DEF Tells
    <3> QED
      BY <1>9, <3>1
  <2>5. token[t].tok = cmd.token
    <3>1. CASE cmd.token # <<>>
      <4>1. n = t
        BY <1>7, <3>1
      <4> QED
        BY <1>5, <1>7, <2>4, <3>1, <4>1
    <3>2. CASE cmd.token = <<>>
      <4>1. n = t - 1
        BY <1>7, <3>2
      <4>2. n + 1 = t /\ n + 1 <= 5
        BY <1>5, <4>1
      <4> QED
        BY <2>4, <3>2, <4>2
    <3> QED
      BY <3>1, <3>2
  <2>6. \A k \in 1 .. 5 : k < t => token[k].tok = v[k]
    BY <1>8, <2>4
  <2>7. token[p].tok = <<cmd.port>>
    BY <1>5, <1>7, <2>6
  <2>8. HasFile(action) => token[1].tok = cmd.file /\ token[p + 1].tok = <<cmd.size>>
    BY <1>5, <1>7, <2>6
  <2>9. HasHost(action) => token[s + 1].tok = <<FmtHost(cmd.host)>>
    BY <1>5, <1>7, <2>6
  <2> QED
    BY <1>2, <1>4, <2>5, <2>7, <2>8, <2>9 DEF Reading
<1> QED
  BY <1>1, <1>2, <1>3, <1>12, <1>14, <1>15

(* What is read from an offer's file, host, port, size and token.          *)
ReadAs(action, file, value, port, size, last) ==
  LET passive == port = <<"0">> \/ IsPassivePlaceholder(value)
      number == ParsePort(port, passive)
  IN IF \/ value = "none"
        \/ number = "undefined"
        \/ ~IsUint(size)
        \/ passive /\ ~IsUint(last)
     THEN NoOffer
     ELSE [action |-> IF action = "schat" THEN "chat" ELSE action,
           file |-> file,
           host |-> IF HasHost(action) THEN value ELSE "none",
           port |-> number, size |-> size[1],
           token |-> IF IsUint(last) THEN last ELSE <<>>,
           passive |-> passive, tls |-> action = "schat"]
FileOf(cmd) == IF HasFile(cmd.action) THEN cmd.file ELSE <<>>
ValueOf(cmd) == IF HasHost(cmd.action) THEN ParseHost[cmd.host] ELSE "1.2.3.4"
SizeOf(cmd) == IF HasFile(cmd.action) THEN cmd.size ELSE "0"

(* The verb says which action it was, for each of them.                    *)
LEMMA VerbsDiffer ==
  ASSUME NEW action \in Actions
  PROVE  (CHOOSE a \in Actions : Verb[a] = Verb[action]) = action
         /\ Verb[action] \in {Verb[a] : a \in Actions}
<1>1. \A a, b \in Actions : Verb[a] = Verb[b] => a = b
  BY DEF Actions, Verb
<1> QED
  BY <1>1

CreateDccAs(action, arg, token) ==
  LET subtype == ~HasFile(action) /\ token[1].tok = <<"chat">>
      skip == (IF HasFile(action) THEN 1 ELSE 0) + (IF subtype THEN 1 ELSE 0)
      address == IF HasHost(action) THEN token[skip + 1].tok ELSE <<"1.2.3.4">>
      at == skip + (IF HasHost(action) THEN 2 ELSE 1)
      readable == Len(address) = 1 /\ address[1] \in DOMAIN ParseHost
      value == IF readable THEN ParseHost[address[1]] ELSE "none"
      passive == token[at].tok = <<"0">> \/ IsPassivePlaceholder(value)
      port == ParsePort(token[at].tok, passive)
      size == IF HasFile(action) THEN token[at + 1].tok ELSE <<"0">>
      last == token[at + (IF HasFile(action) THEN 2 ELSE 1)].tok
  IN IF \/ arg = <<>> \/ arg[1] \notin {Verb[a] : a \in Actions}
        \/ HasFile(action) /\ token[1].tok = <<>>
        \/ value = "none"
        \/ port = "undefined"
        \/ ~IsUint(size)
        \/ passive /\ ~IsUint(last)
     THEN NoOffer
     ELSE [action |-> IF action = "schat" THEN "chat" ELSE action,
           file |-> IF HasFile(action) THEN token[1].tok ELSE <<>>,
           host |-> IF HasHost(action) THEN value ELSE "none",
           port |-> port, size |-> size[1],
           token |-> IF IsUint(last) THEN last ELSE <<>>,
           passive |-> passive, tls |-> action = "schat"]

LEMMA ReadWith ==
  ASSUME NEW T, NEW cmd \in OffersOf(T), HasFile(cmd.action) => cmd.file # <<>>,
         NEW arg, arg # <<>>, arg[1] = Verb[cmd.action], NEW token, Reading(cmd, token)
  PROVE  CreateDccWith(arg, token)
           = ReadAs(cmd.action, FileOf(cmd), ValueOf(cmd), <<cmd.port>>, <<SizeOf(cmd)>>, cmd.token)
<1>1. PICK action \in Actions : action = cmd.action
  BY DEF OffersOf
<1>2. cmd.host \in DOMAIN ParseHost
  BY DEF OffersOf
<1> DEFINE subtype == ~HasFile(action) /\ token[1].tok = <<"chat">>
           skip == (IF HasFile(action) THEN 1 ELSE 0) + (IF subtype THEN 1 ELSE 0)
           address == IF HasHost(action) THEN token[skip + 1].tok ELSE <<"1.2.3.4">>
           at == skip + (IF HasHost(action) THEN 2 ELSE 1)
           readable == Len(address) = 1 /\ address[1] \in DOMAIN ParseHost
           value == IF readable THEN ParseHost[address[1]] ELSE "none"
           size == IF HasFile(action) THEN token[at + 1].tok ELSE <<"0">>
           last == token[at + (IF HasFile(action) THEN 2 ELSE 1)].tok
<1>3. PICK s, t, p : s = Skip(action) /\ p = PortAt(action) /\ t = TokenAt(action)
  OBVIOUS
<1>4. /\ HasFile(action) => token[1].tok = cmd.file /\ token[p + 1].tok = <<cmd.size>>
      /\ HasHost(action) => token[s + 1].tok = <<FmtHost(cmd.host)>>
      /\ token[p].tok = <<cmd.port>>
      /\ token[t].tok = cmd.token
  BY <1>1, <1>3 DEF Reading
<1>5. ~subtype
  <2>1. ~HasFile(action) => token[1].tok # <<"chat">>
    <3>1. HAVE ~HasFile(action)
    <3>2. HasHost(action) /\ s = 0
      BY <1>3, <3>1, Kinds DEF Skip
    <3>3. token[1].tok = <<FmtHost(cmd.host)>>
      BY <1>4, <3>2
    <3>4. FmtHost(cmd.host) # "chat"
      BY <1>2, HostKept
    <3> QED
      BY <3>3, <3>4
  <2> QED
    BY <2>1
<1>6. skip = s /\ s \in {0, 1}
  <2>1. (IF HasFile(action) THEN 1 ELSE 0) = s
    BY <1>3 DEF Skip
  <2>2. s \in {0, 1}
    BY <2>1
  <2>3. skip = s + 0
    BY <1>5, <2>1
  <2> QED
    BY <2>2, <2>3
<1> HIDE DEF subtype, skip
<1>7. at = p
  BY <1>3, <1>6 DEF PortAt
<1>8. last = token[t].tok
  BY <1>3, <1>7 DEF TokenAt
<1>9. size = <<SizeOf(cmd)>>
  BY <1>1, <1>4, <1>7 DEF SizeOf
<1>10. value = ValueOf(cmd)
  <2>1. CASE HasHost(action)
    <3>1. address = <<FmtHost(cmd.host)>>
      BY <1>4, <1>6, <2>1
    <3>2. Len(address) = 1 /\ address[1] = FmtHost(cmd.host)
      BY <3>1
    <3>3. value = ParseHost[FmtHost(cmd.host)]
      BY <1>2, <3>2, HostKept
    <3> QED
      BY <1>1, <1>2, <2>1, <3>3, HostKept DEF ValueOf
  <2>2. CASE ~HasHost(action)
    <3>1. address = <<"1.2.3.4">>
      BY <2>2
    <3>2. Len(address) = 1 /\ address[1] = "1.2.3.4"
      BY <3>1
    <3>3. "1.2.3.4" \in DOMAIN ParseHost /\ ParseHost["1.2.3.4"] = "1.2.3.4"
      BY DEF ParseHost
    <3>4. value = "1.2.3.4"
      BY <3>2, <3>3
    <3> QED
      BY <1>1, <2>2, <3>4 DEF ValueOf
  <2> QED
    BY <2>1, <2>2
<1>11. (CHOOSE a \in Actions : Verb[a] = arg[1]) = action /\ arg[1] \in {Verb[a] : a \in Actions}
  BY <1>1, VerbsDiffer
<1>12. PICK ch : ch = (CHOOSE a \in Actions : Verb[a] = arg[1])
  OBVIOUS
<1>13. PICK passive : passive = (token[at].tok = <<"0">> \/ IsPassivePlaceholder(value))
  OBVIOUS
<1>14. CreateDccWith(arg, token) =
         IF \/ arg = <<>> \/ arg[1] \notin {Verb[a] : a \in Actions}
            \/ HasFile(action) /\ token[1].tok = <<>>
            \/ value = "none"
            \/ ParsePort(token[at].tok, token[at].tok = <<"0">> \/ IsPassivePlaceholder(value)) = "undefined"
            \/ ~IsUint(size)
            \/ (token[at].tok = <<"0">> \/ IsPassivePlaceholder(value)) /\ ~IsUint(last)
         THEN NoOffer
         ELSE [action |-> IF action = "schat" THEN "chat" ELSE action,
               file |-> IF HasFile(action) THEN token[1].tok ELSE <<>>,
               host |-> IF HasHost(action) THEN value ELSE "none",
               port |-> ParsePort(token[at].tok, token[at].tok = <<"0">> \/ IsPassivePlaceholder(value)),
               size |-> size[1],
               token |-> IF IsUint(last) THEN last ELSE <<>>,
               passive |-> token[at].tok = <<"0">> \/ IsPassivePlaceholder(value), tls |-> action = "schat"]
  <2>1. CreateDccWith(arg, token) = CreateDccAs(CHOOSE a \in Actions : Verb[a] = arg[1], arg, token)
    BY Zenon DEF CreateDccWith, CreateDccAs
  <2>2. CreateDccWith(arg, token) = CreateDccAs(action, arg, token)
    BY <1>11, <2>1
  <2> QED
    BY <2>2, Zenon DEF CreateDccAs, subtype, skip
<1> HIDE DEF at, value, size, last, readable, address
<1>15. ~(HasFile(action) /\ token[1].tok = <<>>)
  BY <1>1, <1>4
<1>16. (IF HasFile(action) THEN token[1].tok ELSE <<>>) = FileOf(cmd)
  BY <1>1, <1>4 DEF FileOf
<1>17. token[at].tok = <<cmd.port>> /\ last = cmd.token
  BY <1>4, <1>7, <1>8
<1> QED
  BY <1>1, <1>9, <1>10, <1>11, <1>14, <1>15, <1>16, <1>17, Zenon DEF ReadAs

LEMMA NumbersAre ==
  /\ \A n \in Numbers : IsUint(<<n>>) /\ <<n>>[1] = n
  /\ ~IsUint(<<>>)
  /\ "0" \in Numbers /\ "0" \notin Ports
<1>1. \A n \in Numbers : <<n>>[1] = n
  OBVIOUS
<1>2. \A n \in Numbers : <<n>> # <<>>
  OBVIOUS
<1>3. "0" \in Numbers /\ "0" \notin Ports
  BY DEF Numbers, Ports
<1> QED
  BY <1>1, <1>2, <1>3 DEF IsUint

LEMMA PortIs ==
  ASSUME NEW n \in Numbers, NEW passive \in BOOLEAN
  PROVE  ParsePort(<<n>>, passive) = IF passive THEN "0" ELSE IF n \in Ports THEN n ELSE "undefined"
<1>1. IsUint(<<n>>) /\ <<n>>[1] = n
  BY NumbersAre
<1>2. (\E m \in Ports : <<n>> = <<m>>) <=> n \in Ports
  OBVIOUS
<1> QED
  BY <1>1, <1>2 DEF ParsePort

(* What an offer of these fields is read as, and what it means, whether it *)
(* waits for the other side to listen (passive) or not.                    *)
OfferOf(action, file, value, port, size, token, passive) ==
  [action |-> IF action = "schat" THEN "chat" ELSE action, file |-> file,
   host |-> IF HasHost(action) THEN value ELSE "none", port |-> port, size |-> size, token |-> token,
   passive |-> passive, tls |-> action = "schat"]
ReadWhen(passive, action, file, value, port, size, last) ==
  IF \/ value = "none"
     \/ ParsePort(port, passive) = "undefined"
     \/ ~IsUint(size)
     \/ passive /\ ~IsUint(last)
  THEN NoOffer
  ELSE OfferOf(action, file, value, ParsePort(port, passive), size[1],
               IF IsUint(last) THEN last ELSE <<>>, passive)
MeansWhen(passive, action, file, value, port, size, last) ==
  IF \/ value = "none"
     \/ passive /\ last = <<>>
     \/ ~passive /\ port \notin Ports
  THEN NoOffer
  ELSE OfferOf(action, file, value, IF passive THEN "0" ELSE port, size, last, passive)

LEMMA MeaningIs ==
  ASSUME NEW T, NEW cmd \in OffersOf(T), HasFile(cmd.action) => cmd.file # <<>>
  PROVE  ReadAs(cmd.action, FileOf(cmd), ValueOf(cmd), <<cmd.port>>, <<SizeOf(cmd)>>, cmd.token)
           = Meaning(cmd)
<1>1. PICK action \in Actions, port \in Numbers, last \in {<<>>} \cup {<<n>> : n \in Numbers},
           size \in Numbers :
        action = cmd.action /\ port = cmd.port /\ last = cmd.token /\ size = SizeOf(cmd)
  <2>1. SizeOf(cmd) \in Numbers
    BY NumbersAre DEF SizeOf, OffersOf
  <2> QED
    BY <2>1 DEF OffersOf
<1>2. PICK value, unused :
        value = ValueOf(cmd)
        /\ unused = IF HasHost(cmd.action) THEN ParseHost[cmd.host] ELSE "unused"
  OBVIOUS
<1>3. PICK hh \in BOOLEAN : hh <=> HasHost(action)
  OBVIOUS
<1>4. /\ value = "none" <=> unused = "none"
      /\ IsPassivePlaceholder(value) <=> unused \in {"0.0.0.0", "::"}
      /\ hh => value = unused
  <2>1. hh => value = unused /\ value \in {"0.0.0.0", "1.2.3.4", "::", "fe80::1", "irc.example", "none"}
    BY <1>1, <1>2, <1>3, HostKept DEF ValueOf, OffersOf
  <2>2. ~hh => value = "1.2.3.4" /\ unused = "unused"
    BY <1>1, <1>2, <1>3 DEF ValueOf
  <2> QED
    BY <2>1, <2>2 DEF IsPassivePlaceholder
<1>5. PICK passive \in BOOLEAN : passive <=> port = "0" \/ unused \in {"0.0.0.0", "::"}
  OBVIOUS
<1>6. (<<port>> = <<"0">> \/ IsPassivePlaceholder(value)) <=> passive
  BY <1>4, <1>5
<1>7. IsUint(last) <=> last # <<>>
  BY <1>1, NumbersAre
<1>8. IsUint(<<size>>) /\ <<size>>[1] = size
  BY <1>1, NumbersAre
<1>9. PICK number : number = ParsePort(<<port>>, passive)
  OBVIOUS
<1>10. number = IF passive THEN "0" ELSE IF port \in Ports THEN port ELSE "undefined"
  BY <1>1, <1>5, <1>9, PortIs
<1>11. number = "undefined" <=> ~passive /\ port \notin Ports
  BY <1>10 DEF Ports
<1>12. ReadAs(action, FileOf(cmd), value, <<port>>, <<size>>, last)
         = ReadWhen(passive, action, FileOf(cmd), value, <<port>>, <<size>>, last)
  <2>1. (<<port>> = <<"0">> \/ IsPassivePlaceholder(value)) = passive
    BY <1>5, <1>6
  <2>2. ReadAs(action, FileOf(cmd), value, <<port>>, <<size>>, last)
          = ReadWhen((<<port>> = <<"0">> \/ IsPassivePlaceholder(value)), action, FileOf(cmd), value,
                     <<port>>, <<size>>, last)
    BY DEF ReadAs, ReadWhen, OfferOf
  <2> QED
    BY <2>1, <2>2
<1>13. Meaning(cmd) = MeansWhen(passive, action, FileOf(cmd), unused, port, size, last)
  <2>1. (port = "0" \/ unused \in {"0.0.0.0", "::"}) = passive
    BY <1>5
  <2>2. Meaning(cmd) = MeansWhen((cmd.port = "0" \/ unused \in {"0.0.0.0", "::"}), cmd.action,
                                 FileOf(cmd), unused, cmd.port, SizeOf(cmd), cmd.token)
    BY <1>2 DEF Meaning, MeansWhen, OfferOf, FileOf, SizeOf
  <2> QED
    BY <1>1, <2>1, <2>2
<1>16. ReadWhen(passive, action, FileOf(cmd), value, <<port>>, <<size>>, last)
         = MeansWhen(passive, action, FileOf(cmd), unused, port, size, last)
  <2>1. CASE unused = "none" \/ (passive /\ last = <<>>) \/ (~passive /\ port \notin Ports)
    <3>1. value = "none" \/ number = "undefined" \/ (passive /\ ~IsUint(last))
      BY <1>4, <1>7, <1>11, <2>1, Zenon
    <3>2. ReadWhen(passive, action, FileOf(cmd), value, <<port>>, <<size>>, last) = NoOffer
      BY <1>9, <3>1, Zenon DEF ReadWhen
    <3>3. MeansWhen(passive, action, FileOf(cmd), unused, port, size, last) = NoOffer
      BY <2>1, Zenon DEF MeansWhen
    <3> QED
      BY <3>2, <3>3
  <2>2. CASE ~(unused = "none" \/ (passive /\ last = <<>>) \/ (~passive /\ port \notin Ports))
    <3>1. ~(value = "none" \/ number = "undefined" \/ ~IsUint(<<size>>) \/ (passive /\ ~IsUint(last)))
      BY <1>4, <1>7, <1>8, <1>11, <2>2, Zenon
    <3>2. ReadWhen(passive, action, FileOf(cmd), value, <<port>>, <<size>>, last)
            = OfferOf(action, FileOf(cmd), value, number, <<size>>[1],
                      IF IsUint(last) THEN last ELSE <<>>, passive)
      BY <1>9, <3>1, Zenon DEF ReadWhen
    <3>3. MeansWhen(passive, action, FileOf(cmd), unused, port, size, last)
            = OfferOf(action, FileOf(cmd), unused, IF passive THEN "0" ELSE port, size, last, passive)
      BY <2>2, Zenon DEF MeansWhen
    <3>4. number = IF passive THEN "0" ELSE port
      BY <1>5, <1>10, <2>2
    <3>5. (IF IsUint(last) THEN last ELSE <<>>) = last
      BY <1>7
    <3>6. \A f, n, z, l : OfferOf(action, f, value, n, z, l, passive)
                            = OfferOf(action, f, unused, n, z, l, passive)
      <4>1. (IF HasHost(action) THEN value ELSE "none") = (IF HasHost(action) THEN unused ELSE "none")
        BY <1>3, <1>4
      <4> QED
        BY <4>1 DEF OfferOf
    <3> QED
      BY <1>8, <3>2, <3>3, <3>4, <3>5, <3>6
  <2> QED
    BY <2>1, <2>2
<1> QED
  BY <1>1, <1>2, <1>12, <1>13, <1>16

(* An offer means to its reader what it means to its writer.               *)
LEMMA OfferSurvives ==
  ASSUME NEW T, OfferUnits \subseteq T, NEW cmd \in OffersOf(T), HasFile(cmd.action) => cmd.file # <<>>
  PROVE  FormatDcc(cmd) \in Seq(T) /\ CreateDcc(FormatDcc(cmd)) = Meaning(cmd)
<1>1. PICK arg : arg = FormatDcc(cmd)
  OBVIOUS
<1>2. /\ arg \in Seq(T) /\ arg # <<>> /\ arg[1] = Verb[cmd.action]
      /\ \A token : Tokenized(arg, token) => Reading(cmd, token)
  BY <1>1, WrittenAs
<1>3. PICK token : Tokenized(arg, token) /\ CreateDcc(arg) = CreateDccWith(arg, token)
  BY CreateDccIs
<1>4. Reading(cmd, token)
  BY <1>2, <1>3
<1>5. CreateDccWith(arg, token)
        = ReadAs(cmd.action, FileOf(cmd), ValueOf(cmd), <<cmd.port>>, <<SizeOf(cmd)>>, cmd.token)
  BY <1>2, <1>4, ReadWith
<1> QED
  BY <1>1, <1>2, <1>3, <1>5, MeaningIs

-----------------------------------------------------------------------------
(* The types of what is written and read.                                  *)
LEMMA FmtFilenameType ==
  ASSUME NEW name \in Text
  PROVE  FmtFilename(name) \in Text
<1>1. name \in Seq(Unit) /\ DOMAIN name = 1 .. Len(name) /\ \A i \in 1 .. Len(name) : name[i] \in Unit
  BY DEF Text
<1> DEFINE Spelling(i) == IF name[i] \in {Quote, Backslash} THEN <<Backslash, name[i]>> ELSE <<name[i]>>
           spelling == [i \in DOMAIN name |-> Spelling(i)]
<1>2. Quote \in Unit /\ Backslash \in Unit
  BY LiteralUnit DEF Quote, Backslash, Literal
<1>3. ASSUME NEW i \in 1 .. Len(name) PROVE Spelling(i) \in Text
  <2>1. \A u, v \in Unit : <<u, v>> \in Seq(Unit) /\ <<u>> \in Seq(Unit)
    OBVIOUS
  <2>2. <<Backslash, name[i]>> \in Text /\ <<name[i]>> \in Text
    BY <1>1, <1>2, <2>1 DEF Text
  <2> QED
    BY <2>2
<1> HIDE DEF Spelling
<1>4. spelling \in Seq(Text)
  BY <1>1, <1>3
<1> HIDE DEF spelling
<1>5. FlattenSeq(spelling) \in Seq(Unit)
  BY <1>4, FlattenType DEF Text
<1>6. <<Quote>> \in Seq(Unit)
  BY <1>2
<1>7. <<Quote>> \o FlattenSeq(spelling) \o <<Quote>> \in Seq(Unit)
  BY <1>5, <1>6
<1>8. FmtFilename(name) = IF \E i \in DOMAIN name : name[i] \in {Blank, Quote, Backslash}
                          THEN <<Quote>> \o FlattenSeq(spelling) \o <<Quote>> ELSE name
  BY DEF FmtFilename, spelling, Spelling
<1> QED
  BY <1>7, <1>8 DEF Text

LEMMA FmtHostType ==
  ASSUME NEW h \in DOMAIN ParseHost
  PROVE  FmtHost(h) \in Unit
<1>1. h \in Unit
  BY LiteralUnit DEF ParseHost, Literal
<1>2. ParseHost[h] \in {"0.0.0.0", "1.2.3.4", "::", "fe80::1", "irc.example", "none"}
  BY DEF ParseHost
<1>3. FmtHost(h) \in {"0", "16909060", "[::]", "[fe80::1]", h}
  BY <1>2 DEF FmtHost
<1>4. {"0", "16909060", "[::]", "[fe80::1]"} \subseteq Literal
  BY DEF Literal
<1> QED
  BY <1>1, <1>3, <1>4, LiteralUnit

LEMMA FieldsType ==
  ASSUME NEW cmd \in Command
  PROVE  Fields(cmd) \in Seq(Text)
<1>1. /\ cmd.action \in Actions /\ cmd.file \in Text /\ cmd.host \in DOMAIN ParseHost
      /\ cmd.port \in Unit /\ cmd.size \in Unit /\ cmd.token \in Text
  <2>1. /\ cmd.action \in Actions /\ cmd.file \in Seq(STRING) /\ cmd.host \in DOMAIN ParseHost
        /\ cmd.port \in Numbers /\ cmd.size \in Numbers
        /\ cmd.token \in {<<>>} \cup {<<n>> : n \in Numbers}
    BY DEF Command
  <2>2. Numbers \subseteq Unit
    BY LiteralUnit DEF Numbers, Ports, Literal
  <2>3. <<>> \in Text /\ \A n \in Unit : <<n>> \in Text
    BY DEF Text
  <2>4. cmd.token \in Text
    BY <2>1, <2>2, <2>3
  <2> QED
    BY <2>1, <2>2, <2>4, StringText
<1>2. PICK a : a = FmtFilename(cmd.file)
  OBVIOUS
<1>3. PICK b : b = <<FmtHost(cmd.host)>>
  OBVIOUS
<1>4. a \in Text /\ b \in Text /\ <<cmd.port>> \in Text /\ <<cmd.size>> \in Text
  BY <1>1, <1>2, <1>3, FmtFilenameType, FmtHostType DEF Text
<1>5. ASSUME NEW p, NEW x \in Text PROVE Optional(p, x) \in Seq(Text)
  BY DEF Optional
<1>6. /\ Optional(HasFile(cmd.action), a) \in Seq(Text)
      /\ Optional(HasHost(cmd.action), b) \in Seq(Text)
      /\ <<<<cmd.port>>>> \in Seq(Text)
      /\ Optional(HasFile(cmd.action), <<cmd.size>>) \in Seq(Text)
      /\ Optional(cmd.token # <<>>, cmd.token) \in Seq(Text)
  BY <1>1, <1>4, <1>5
<1>7. \A s, t \in Seq(Text) : s \o t \in Seq(Text)
  OBVIOUS
<1> QED
  BY <1>2, <1>3, <1>6, <1>7 DEF Fields

LEMMA FormatDccIs ==
  ASSUME NEW cmd \in Command
  PROVE  /\ FormatDcc(cmd) = <<Verb[cmd.action]>> \o FlattenSeq(Spaced(Fields(cmd)))
         /\ Verb[cmd.action] \in Unit /\ Spaced(Fields(cmd)) \in Seq(Text)
         /\ FormatDcc(cmd) \in Text
<1>1. FormatDcc(cmd) = <<Verb[cmd.action]>> \o FlattenSeq(Spaced(Fields(cmd)))
  BY DEF FormatDcc, Fields, Optional, Spaced
<1>2. Verb[cmd.action] \in Unit
  <2>1. cmd.action \in Actions
    BY DEF Command
  <2>2. Verb[cmd.action] \in {"SEND", "CHAT", "SCHAT", "RESUME", "ACCEPT"}
    BY <2>1 DEF Actions, Verb
  <2>3. Verb[cmd.action] \in Literal
    BY <2>2 DEF Literal
  <2> QED
    BY <2>3, LiteralUnit
<1>3. PICK fields : fields = Fields(cmd)
  OBVIOUS
<1>4. fields \in Seq(Text) /\ DOMAIN fields = 1 .. Len(fields)
  BY <1>3, FieldsType
<1>5. Spaced(fields) \in Seq(Text)
  <2>1. \A i \in 1 .. Len(fields) : fields[i] \in Text
    BY <1>4
  <2>2. \A s \in Text : <<Blank>> \o s \in Text
    <3>1. Blank \in Unit
      BY LiteralUnit DEF Blank, Literal
    <3>2. <<Blank>> \in Seq(Unit)
      BY <3>1
    <3> QED
      BY <3>2, Concatenates DEF Text
  <2>3. \A i \in 1 .. Len(fields) : <<Blank>> \o fields[i] \in Text
    BY <2>1, <2>2
  <2> QED
    BY <1>4, <2>3 DEF Spaced
<1>6. FlattenSeq(Spaced(fields)) \in Seq(Unit)
  BY <1>5, FlattenType DEF Text
<1>7. <<Verb[cmd.action]>> \o FlattenSeq(Spaced(fields)) \in Text
  BY <1>2, <1>6 DEF Text
<1> QED
  BY <1>1, <1>2, <1>3, <1>5, <1>7

-----------------------------------------------------------------------------
Tags == [key : Text, given : BOOLEAN, value : Text]
Escaped(u) == IF u \in DOMAIN Replacement THEN <<Escape, Replacement[u]>> ELSE <<u>>

LEMMA EscapedType ==
  ASSUME NEW u \in Unit
  PROVE  Escaped(u) \in Text
<1>1. Escape \in Unit
  BY LiteralUnit DEF Escape, Literal
<1>2. \A v, w \in Unit : <<v, w>> \in Text /\ <<v>> \in Text
  BY DEF Text
<1>3. u \in DOMAIN Replacement => Replacement[u] \in Unit
  <2>1. u \in DOMAIN Replacement => Replacement[u] \in {":", "s", "\\", "r", "n"}
    BY DEF Replacement, Escape
  <2>2. {":", "s", "\\", "r", "n"} \subseteq Literal
    BY DEF Literal
  <2> QED
    BY <2>1, <2>2, LiteralUnit
<1> QED
  BY <1>1, <1>2, <1>3 DEF Escaped

LEMMA EscapeType ==
  ASSUME NEW value \in Text
  PROVE  EscapeTagValue(value) \in Text
<1>1. DOMAIN value = 1 .. Len(value) /\ \A i \in 1 .. Len(value) : value[i] \in Unit
  BY DEF Text
<1>2. PICK spelling : spelling = [i \in DOMAIN value |-> Escaped(value[i])]
  OBVIOUS
<1>3. \A i \in 1 .. Len(value) : Escaped(value[i]) \in Text
  BY <1>1, EscapedType
<1>4. spelling \in Seq(Text)
  BY <1>1, <1>2, <1>3 DEF Text
<1>5. EscapeTagValue(value) = FlattenSeq(spelling)
  BY <1>2 DEF EscapeTagValue, Escaped
<1> QED
  BY <1>4, <1>5, FlattenType DEF Text

LEMMA PairType ==
  ASSUME NEW tag \in Tags
  PROVE  PairOf(tag) \in Text
<1>1. tag.key \in Text /\ tag.value \in Text /\ tag.given \in BOOLEAN
  BY DEF Tags
<1>2. EscapeTagValue(tag.value) \in Text
  BY <1>1, EscapeType
<1>3. "=" \in Unit
  BY LiteralUnit DEF Literal
<1>4. <<"=">> \in Text
  BY <1>3 DEF Text
<1>5. \A s, t \in Text : s \o t \in Text
  BY DEF Text
<1> QED
  BY <1>1, <1>2, <1>4, <1>5 DEF PairOf

LEMMA FormatTagsIs ==
  ASSUME NEW tags \in Seq(Tags)
  PROVE  /\ FormatTags(tags) = IF tags = <<>> THEN <<>>
                               ELSE <<"@">> \o PairOf(tags[1]) \o FlattenSeq(Pairs(tags)) \o <<" ">>
         /\ FormatTags(tags) \in Text
         /\ tags # <<>> => Pairs(tags) \in Seq(Text) /\ PairOf(tags[1]) \in Text
<1>1. CASE tags = <<>>
  <2>1. <<>> \in Text
    BY DEF Text
  <2> QED
    BY <1>1, <2>1 DEF FormatTags
<1>2. CASE tags # <<>>
  <2>1. Len(tags) \in Nat \ {0} /\ \A i \in 1 .. Len(tags) : tags[i] \in Tags
    BY <1>2
  <2>2. Head(tags) = tags[1]
    BY <1>2
  <2>3. PairOf(tags[1]) \in Text
    BY <2>1, PairType
  <2>4. ASSUME NEW u \in Literal PROVE <<u>> \in Text
    BY LiteralUnit DEF Text
  <2>5. <<"@">> \in Text /\ <<Semicolon>> \in Text /\ <<" ">> \in Text
    BY <2>4 DEF Literal, Semicolon
  <2>6. \A s, t \in Text : s \o t \in Text
    BY DEF Text
  <2>7. ASSUME NEW i \in 1 .. Len(tags) - 1 PROVE <<Semicolon>> \o PairOf(tags[i + 1]) \in Text
    <3>1. tags[i + 1] \in Tags
      BY <2>1
    <3> QED
      BY <2>5, <2>6, <3>1, PairType
  <2>8. Pairs(tags) \in Seq(Text)
    <3>1. PICK n \in Nat : n = Len(tags) - 1
      BY <2>1
    <3> DEFINE e(i) == <<Semicolon>> \o PairOf(tags[i + 1])
    <3>2. Pairs(tags) = [i \in 1 .. n |-> e(i)]
      BY <3>1 DEF Pairs
    <3>3. \A i \in 1 .. n : e(i) \in Text
      BY <2>7, <3>1
    <3> HIDE DEF e
    <3> QED
      BY <3>2, <3>3
  <2>9. FlattenSeq(Pairs(tags)) \in Text
    BY <2>8, FlattenType DEF Text
  <2>10. FormatTags(tags) = <<"@">> \o PairOf(tags[1]) \o FlattenSeq(Pairs(tags)) \o <<" ">>
    BY <1>2, <2>2 DEF FormatTags, PairOf, Pairs, Semicolon
  <2>11. <<"@">> \o PairOf(tags[1]) \o FlattenSeq(Pairs(tags)) \o <<" ">> \in Text
    BY <2>3, <2>5, <2>6, <2>9
  <2> QED
    BY <1>2, <2>3, <2>8, <2>10, <2>11
<1> QED
  BY <1>1, <1>2


-----------------------------------------------------------------------------
Target == Nicks \cup {Chan}
Kind == STRING \cup {"none", "dcc", "tags"}
Spoken == {"PRIVMSG", "NOTICE", "TAGMSG"}
EventName == {"echo", "message", "ctcp_action", "ctcp_ping", "ctcp_ping_reply",
              "ctcp_version", "ctcp_version_reply", "ctcp_time", "ctcp_time_reply",
              "ctcp_clientinfo", "ctcp_clientinfo_reply", "dcc", "tagmsg"}
Offered == {NoCmd} \cup {CreateDcc(t) : t \in Text}
Tagged == {{}} \cup {ParseTags(t) : t \in Text}
Shows == Hosts \cup {HostDefault}
Sent == {l \in [verb : Spoken, target : Target, ctcp : Kind, text : Text, prefix : Nat] :
           l.verb = "TAGMSG" => l.ctcp = "tags"}
Relays ==
  {m \in [verb : Spoken \cup {"NICK", "396"}, author : Clients, source : Nicks,
          target : Target \cup Hosts, ctcp : Kind, text : Text] :
     /\ m.verb \in Spoken => m.target \in Target
     /\ m.verb = "NICK" => m.target \in Nicks
     /\ m.verb = "396" => m.target \in Hosts
     /\ m.verb = "TAGMSG" => m.ctcp = "tags"}
Events == [event : EventName, from : Clients, verb : Spoken, chan : BOOLEAN,
           text : Text, offer : Offered, tags : Tagged]
Things == [by : Clients, verb : Spoken, target : Target, ctcp : Kind, text : Text,
           offer : {NoCmd} \cup Command, tags : {{}} \cup {ToSet(tags) : tags \in TagLists}]

TypeInv ==
  /\ echo \in BOOLEAN
  /\ nick \in [Clients -> Nicks]
  /\ host \in [Clients -> Hosts]
  /\ toServer \in [Clients -> Seq(Sent)]
  /\ toClient \in [Clients -> Seq(Relays)]
  /\ known \in [Clients -> Nicks]
  /\ hostname \in [Clients -> Shows]
  /\ said \in Seq(Things)
  /\ heard \in [Clients -> Seq(Events)]
  /\ told \in [Clients -> Shows]
  /\ overrun \in [Clients -> BOOLEAN]
  /\ renames \in Nat
  /\ changes \in Nat

(* What a prefix of some length leaves of a line for its text.             *)
Room(verb, target, prefix) ==
  MaxLength - (1 + 1 + 1 + prefix + 1 + VerbLength[verb] + 1 + Width[target] + 2 + 2)

LEMMA LengthFacts ==
  /\ MaxLength \in Nat /\ UserLength \in Nat /\ UserShown \in Nat
  /\ \A t \in Target : Width[t] \in Nat
  /\ \A n \in Nicks : n \in Target /\ Width[n] \in Nat
  /\ \A h \in Shows : h \in Nat
  /\ \A verb \in Spoken : VerbLength[verb] \in {6, 7}
<1>1. Nicks \subseteq Target /\ Target = Clients \cup SpareNicks \cup {Chan}
  BY DEF Nicks, Target
<1>2. Width \in [Target -> Nat]
  BY <1>1, LengthsAssumption
<1>3. VerbLength["PRIVMSG"] = 7 /\ VerbLength["NOTICE"] = 6 /\ VerbLength["TAGMSG"] = 6
  BY DEF VerbLength
<1>4. \A verb \in Spoken : VerbLength[verb] \in {6, 7}
  BY <1>3 DEF Spoken
<1> QED
  BY <1>1, <1>2, <1>4, LengthsAssumption DEF Shows

(* A text is cut for the room that a prefix of the known lengths leaves.   *)
LEMMA RoomIs ==
  ASSUME NEW verb \in {"PRIVMSG", "NOTICE"}, NEW n \in Nicks, NEW h \in Shows,
         NEW target \in Clients \cup {Chan}
  PROVE  /\ MaxLength - CalcOverhead(n, h, verb, target)
              = Room(verb, target, Width[n] + UserLength + h)
         /\ MaxLength - CalcOverhead(n, h, verb, target) \in Nat
         /\ MaxLength - CalcOverhead(n, h, verb, target) >= 3
<1>1. target \in Target /\ verb \in Spoken
  BY DEF Target, Nicks, Spoken
<1>2. PICK v \in Nat, w \in Nat, x \in Nat, k \in Nat, u \in Nat, g \in Nat :
        /\ v = VerbLength[verb] /\ w = Width[target] /\ x = MaxLength /\ k = Width[n]
        /\ u = UserLength /\ g = h
  BY <1>1, LengthFacts
<1>3. v \in {6, 7}
  BY <1>1, <1>2, LengthFacts
<1>4. CalcOverhead(n, h, verb, target)
        = 1 + k + 1 + u + 1 + g + 1 + v + 1 + w + 2 + 2
  BY <1>2 DEF CalcOverhead
<1>5. VerbLength["PRIVMSG"] = 7
  BY DEF VerbLength
<1>6. x - (1 + k + 1 + u + 1 + g + 1 + 7 + 1 + w + 2 + 2) >= 3
  <2>1. MaxLength - CalcOverhead(n, h, "PRIVMSG", target) >= 3
    BY RoomAssumption DEF Shows
  <2> QED
    BY <1>2, <1>5, <2>1 DEF CalcOverhead
<1>7. Room(verb, target, Width[n] + UserLength + h)
        = x - (1 + 1 + 1 + (k + u + g) + 1 + v + 1 + w + 2 + 2)
  BY <1>2 DEF Room
<1> QED
  BY <1>2, <1>3, <1>4, <1>6, <1>7

(* A longer prefix never leaves more room.                                 *)
LEMMA RoomShrinks ==
  ASSUME NEW verb \in Spoken, NEW target \in Target, NEW p \in Nat, NEW q \in Nat, p <= q
  PROVE  /\ Room(verb, target, q) <= Room(verb, target, p)
         /\ Room(verb, target, p) \in Int /\ Room(verb, target, q) \in Int
<1>1. PICK v \in Nat, w \in Nat, x \in Nat :
        v = VerbLength[verb] /\ w = Width[target] /\ x = MaxLength
  BY LengthFacts
<1>2. /\ Room(verb, target, p) = x - (1 + 1 + 1 + p + 1 + v + 1 + w + 2 + 2)
      /\ Room(verb, target, q) = x - (1 + 1 + 1 + q + 1 + v + 1 + w + 2 + 2)
  BY <1>1 DEF Room
<1> QED
  BY <1>1, <1>2

LEMMA PartsType ==
  ASSUME TypeInv, NEW c \in Clients, NEW command \in Commands, NEW text \in Sayings,
         NEW target \in Clients \cup {Chan}
  PROVE  /\ Verbs[command] \in {"PRIVMSG", "NOTICE"} /\ text \in Text
         /\ Parts(c, command, target, text) \in Seq(Text)
<1>1. Verbs[command] \in {"PRIVMSG", "NOTICE"}
  BY CommandsAssumption DEF Verbs
<1>2. text \in Text
  BY SayingsAssumption, StringText
<1>3. PICK max : max = MaxLength - CalcOverhead(known[c], hostname[c], Verbs[command], target)
  OBVIOUS
<1>4. max \in Nat /\ max >= 3
  <2>1. known[c] \in Nicks /\ hostname[c] \in Shows
    BY DEF TypeInv
  <2> QED
    BY <1>1, <1>3, <2>1, RoomIs
<1>5. SplitMessage(text, max) \in Seq(Text) /\ <<text>> \in Seq(Text)
  BY <1>2, <1>4, SplitType
<1> QED
  BY <1>1, <1>2, <1>3, <1>5 DEF Parts

(* What the application says, and the lines of it.                         *)
SaysText(c, s, lines) ==
  \E command \in Commands, text \in Sayings :
    /\ s.ctcp = "none" /\ s.verb = Verbs[command] /\ s.text = text
    /\ lines = [i \in DOMAIN Parts(c, command, s.target, text) |->
                  TextLine(c, s.verb, s.target, AsSent(Parts(c, command, s.target, text)[i]))]
SaysQuery(s, lines) ==
  /\ s.verb = "PRIVMSG" /\ s.ctcp \notin {"none", "dcc", "tags"}
  /\ lines = <<Line("PRIVMSG", s.target, s.ctcp, s.text)>>
SaysOffer(s, lines) ==
  /\ s.ctcp = "dcc" /\ s.offer \in Offers
  /\ lines = <<Line("PRIVMSG", s.target, "dcc", FormatDcc(s.offer))>>
SaysTags(s, lines) ==
  \E tags \in TagLists :
    /\ s.ctcp = "tags" /\ s.tags = ToSet(tags)
    /\ lines = <<Line("TAGMSG", s.target, "tags", FormatTags(tags))>>
Says(c, s, lines) ==
  /\ s.by = c /\ s.target \in Clients \cup {Chan}
  /\ said' = Append(said, s)
  /\ toServer' = [toServer EXCEPT ![c] = @ \o lines]
  /\ UNCHANGED <<echo, nick, host, toClient, known, hostname, heard, told, overrun,
                 renames, changes>>
  /\ SaysText(c, s, lines) \/ SaysQuery(s, lines) \/ SaysOffer(s, lines) \/ SaysTags(s, lines)

LEMMA LineType ==
  ASSUME NEW verb \in Spoken, NEW target \in Target, NEW ctcp \in Kind, NEW text \in Text,
         verb = "TAGMSG" => ctcp = "tags"
  PROVE  Line(verb, target, ctcp, text) \in Sent
  BY DEF Line, Sent

LEMMA TextLineType ==
  ASSUME TypeInv, NEW c \in Clients, NEW verb \in {"PRIVMSG", "NOTICE"}, NEW target \in Target,
         NEW text \in Text
  PROVE  TextLine(c, verb, target, text) \in Sent
<1>1. PICK p \in Nat : p = Width[known[c]] + UserLength + told[c]
  <2>1. known[c] \in Nicks /\ told[c] \in Shows
    BY DEF TypeInv
  <2>2. Width[known[c]] \in Nat /\ told[c] \in Nat /\ UserLength \in Nat
    BY <2>1, LengthFacts
  <2> QED
    BY <2>2
<1> QED
  BY <1>1 DEF TextLine, Sent, Spoken, Kind

LEMMA ApplicationIs ==
  ASSUME TypeInv, Application
  PROVE  \E c \in Clients, s \in Things, lines \in Seq(Sent) : Says(c, s, lines)
<1>1. PICK c \in Clients, target \in Clients \cup {Chan} :
        \/ \E command \in Commands, text \in Sayings : Say(c, command, target, text)
        \/ \E query \in Queries : Query(c, target, query[1], query[2])
        \/ \E cmd \in Offers : Offer(c, target, cmd)
        \/ \E tags \in TagLists : Tagmsg(c, target, tags)
  BY DEF Application
<1>2. target \in Target
  BY DEF Target, Nicks
<1>3. <<>> \in Text /\ NoCmd \in {NoCmd} \cup Command
  BY DEF Text
<1> DEFINE Thing(verb, ctcp, text, offer, tags) ==
             [by |-> c, verb |-> verb, target |-> target, ctcp |-> ctcp, text |-> text,
              offer |-> offer, tags |-> tags]
<1>4. CASE \E command \in Commands, text \in Sayings : Say(c, command, target, text)
  <2>1. PICK command \in Commands, text \in Sayings : Say(c, command, target, text)
    BY <1>4
  <2> DEFINE s == Thing(Verbs[command], "none", text, NoCmd, {})
             parts == Parts(c, command, target, text)
             lines == [i \in DOMAIN parts |->
                         TextLine(c, Verbs[command], target, AsSent(parts[i]))]
  <2>2. /\ Verbs[command] \in {"PRIVMSG", "NOTICE"} /\ Verbs[command] \in Spoken
        /\ text \in Text /\ parts \in Seq(Text)
    BY PartsType DEF Spoken
  <2>3. s \in Things
    BY <1>2, <1>3, <2>2 DEF Things, Kind
  <2>4. said' = Append(said, s) /\ toServer' = [toServer EXCEPT ![c] = @ \o lines]
        /\ UNCHANGED <<echo, nick, host, toClient, known, hostname, heard, told, overrun,
                     renames, changes>>
    BY <2>1 DEF Say, Log, Send
  <2>5. lines \in Seq(Sent)
    <3> HIDE DEF parts
    <3>1. DOMAIN parts = 1 .. Len(parts) /\ \A i \in 1 .. Len(parts) : parts[i] \in Text
      BY <2>2
    <3>3. \A i \in 1 .. Len(parts) : TextLine(c, Verbs[command], target, AsSent(parts[i])) \in Sent
      BY <1>2, <2>2, <3>1, TextLineType, AsSentType
    <3> QED
      BY <2>2, <3>1, <3>3
  <2>6. SaysText(c, s, lines)
    BY DEF SaysText
  <2> HIDE DEF lines
  <2>7. s.by = c /\ s.target = target
    OBVIOUS
  <2> HIDE DEF s
  <2>8. Says(c, s, lines)
    BY <2>4, <2>6, <2>7 DEF Says
  <2> QED
    BY <2>3, <2>5, <2>8
<1>5. CASE \E query \in Queries : Query(c, target, query[1], query[2])
  <2>1. PICK ctcp, text : Query(c, target, ctcp, text) /\ ctcp \in STRING \ {"none", "dcc", "tags"}
                          /\ text \in Seq(STRING)
    BY <1>5, QueriesAssumption
  <2>2. text \in Text
    BY <2>1, StringText
  <2> DEFINE s == Thing("PRIVMSG", ctcp, text, NoCmd, {})
             line == Line("PRIVMSG", target, ctcp, text)
  <2>3. s \in Things
    BY <1>2, <1>3, <2>1, <2>2 DEF Things, Kind, Spoken
  <2>4. said' = Append(said, s) /\ toServer' = [toServer EXCEPT ![c] = @ \o <<line>>]
        /\ UNCHANGED <<echo, nick, host, toClient, known, hostname, heard, told, overrun,
                     renames, changes>>
    BY <2>1 DEF Query, Log, Send
  <2>5. line \in Sent
    BY <1>2, <2>1, <2>2, LineType DEF Kind, Spoken
  <2>6. SaysQuery(s, <<line>>)
    BY <2>1 DEF SaysQuery
  <2>7. s.by = c /\ s.target = target
    OBVIOUS
  <2> HIDE DEF s, line
  <2>8. Says(c, s, <<line>>)
    BY <2>4, <2>6, <2>7 DEF Says
  <2>9. <<line>> \in Seq(Sent)
    BY <2>5
  <2> QED
    BY <2>3, <2>8, <2>9
<1>6. CASE \E cmd \in Offers : Offer(c, target, cmd)
  <2>1. PICK cmd \in Offers : Offer(c, target, cmd)
    BY <1>6
  <2>2. cmd \in Command /\ FormatDcc(cmd) \in Text
    BY OffersAssumption, FormatDccIs
  <2> DEFINE s == Thing("PRIVMSG", "dcc", FormatDcc(cmd), cmd, {})
             line == Line("PRIVMSG", target, "dcc", FormatDcc(cmd))
  <2>3. s \in Things
    BY <1>2, <2>2 DEF Things, Kind, Spoken
  <2>4. said' = Append(said, s) /\ toServer' = [toServer EXCEPT ![c] = @ \o <<line>>]
        /\ UNCHANGED <<echo, nick, host, toClient, known, hostname, heard, told, overrun,
                     renames, changes>>
    BY <2>1 DEF Offer, Log, Send
  <2>5. line \in Sent
    BY <1>2, <2>2, LineType DEF Kind, Spoken
  <2>6. SaysOffer(s, <<line>>)
    BY DEF SaysOffer
  <2>7. s.by = c /\ s.target = target
    OBVIOUS
  <2> HIDE DEF s, line
  <2>8. Says(c, s, <<line>>)
    BY <2>4, <2>6, <2>7 DEF Says
  <2>9. <<line>> \in Seq(Sent)
    BY <2>5
  <2> QED
    BY <2>3, <2>8, <2>9
<1>7. CASE \E tags \in TagLists : Tagmsg(c, target, tags)
  <2>1. PICK tags \in TagLists : Tagmsg(c, target, tags)
    BY <1>7
  <2>2. tags \in Seq(Tags)
    <3>1. tags \in Seq([key : Seq(STRING), given : BOOLEAN, value : Seq(STRING)])
      BY TagsAssumption
    <3>2. [key : Seq(STRING), given : BOOLEAN, value : Seq(STRING)] \subseteq Tags
      BY StringText DEF Tags
    <3> QED
      BY <3>1, <3>2, SeqMonotonic
  <2>3. FormatTags(tags) \in Text
    BY <2>2, FormatTagsIs
  <2> DEFINE s == Thing("TAGMSG", "tags", <<>>, NoCmd, ToSet(tags))
             line == Line("TAGMSG", target, "tags", FormatTags(tags))
  <2>4. s \in Things
    BY <1>2, <1>3 DEF Things, Kind, Spoken
  <2>5. said' = Append(said, s) /\ toServer' = [toServer EXCEPT ![c] = @ \o <<line>>]
        /\ UNCHANGED <<echo, nick, host, toClient, known, hostname, heard, told, overrun,
                     renames, changes>>
    BY <2>1 DEF Tagmsg, Log, Send
  <2>6. line \in Sent
    BY <1>2, <2>3, LineType DEF Kind, Spoken
  <2>7. SaysTags(s, <<line>>)
    BY DEF SaysTags
  <2>8. s.by = c /\ s.target = target
    OBVIOUS
  <2> HIDE DEF s, line
  <2>9. Says(c, s, <<line>>)
    BY <2>5, <2>7, <2>8 DEF Says
  <2>10. <<line>> \in Seq(Sent)
    BY <2>6
  <2> QED
    BY <2>4, <2>9, <2>10
<1> QED
  BY <1>1, <1>4, <1>5, <1>6, <1>7


(* What the listeners of a line emit and send.                             *)
Hears(c, line, h) ==
  /\ h.from = line.author /\ h.verb = line.verb /\ h.text = line.text
  /\ h.chan = (line.target = Chan)
  /\ h.event \in {"echo", "message"} =>
       line.ctcp = "none" /\ h.event = IF line.source = known[c] THEN "echo" ELSE "message"
  /\ h.event = "dcc" => line.ctcp = "dcc"
  /\ h.event = "tagmsg" => line.ctcp = "tags"
Replies(line, s) ==
  /\ s.verb = "NOTICE" /\ s.target = line.source /\ s.ctcp = line.ctcp
  /\ line.ctcp \in {"ping", "version", "time", "clientinfo"}

LEMMA EventIs ==
  ASSUME NEW line \in Relays, line.verb \in Spoken, NEW name \in EventName,
         NEW offer \in Offered, NEW tags \in Tagged
  PROVE  Event(name, line, offer, tags) \in Events
  BY DEF Event, Events, Relays

LEMMA ReplyText ==
  /\ <<"DEFAULT_VERSION">> \in Text /\ <<"now">> \in Text
  /\ <<"PING", " ", "TIME", " ", "VERSION">> \in Text
<1>1. /\ "DEFAULT_VERSION" \in Unit /\ "now" \in Unit /\ "PING" \in Unit /\ "TIME" \in Unit
      /\ "VERSION" \in Unit /\ " " \in Unit
  BY LiteralUnit DEF Literal
<1>2. \A u, v, w, x, y \in Unit : <<u>> \in Seq(Unit) /\ <<u, v, w, x, y>> \in Seq(Unit)
  OBVIOUS
<1> QED
  BY <1>1, <1>2 DEF Text

LEMMA ListenersAre ==
  ASSUME NEW c \in Clients, NEW line \in Relays, line.verb \in Spoken
  PROVE  /\ \/ Listeners(c, line).events = <<>>
            \/ \E h \in Events : Listeners(c, line).events = <<h>> /\ Hears(c, line, h)
         /\ \/ Listeners(c, line).sends = <<>>
            \/ \E s \in Sent : Listeners(c, line).sends = <<s>> /\ Replies(line, s)
<1>1. NoCmd \in Offered /\ {} \in Tagged
  BY DEF Offered, Tagged
<1>2. line.text \in Text /\ line.source \in Target /\ line.ctcp \in Kind
  BY DEF Relays, Target
<1> DEFINE Emitted(name) == Event(name, line, NoCmd, {})
           Reply(text) == Line("NOTICE", line.source, line.ctcp, text)
<1>3. ASSUME NEW name \in EventName, name \notin {"echo", "message", "dcc", "tagmsg"}
      PROVE  Emitted(name) \in Events /\ Hears(c, line, Emitted(name))
  <2>1. Emitted(name) \in Events
    BY <1>1, EventIs
  <2>2. Hears(c, line, Emitted(name))
    BY <1>3 DEF Event, Hears
  <2> QED
    BY <2>1, <2>2
<1>4. ASSUME NEW text \in Text, line.ctcp \in {"ping", "version", "time", "clientinfo"}
      PROVE  Reply(text) \in Sent /\ Replies(line, Reply(text))
  <2>1. Reply(text) \in Sent
    BY <1>2, LineType DEF Spoken
  <2>2. Replies(line, Reply(text))
    BY <1>4 DEF Replies, Line
  <2> QED
    BY <2>1, <2>2
<1> DEFINE Fine(e) == /\ \/ e.events = <<>>
                         \/ \E h \in Events : e.events = <<h>> /\ Hears(c, line, h)
                      /\ \/ e.sends = <<>>
                         \/ \E s \in Sent : e.sends = <<s>> /\ Replies(line, s)
<1>5. Fine(Nothing)
  BY DEF Nothing
<1>6. ASSUME NEW name \in EventName, name \notin {"echo", "message", "dcc", "tagmsg"} PROVE Fine(Emits(name, line))
  <2>1. Emits(name, line).events = <<Emitted(name)>> /\ Emits(name, line).sends = <<>>
    BY DEF Emits
  <2> QED
    BY <1>3, <1>6, <2>1
<1>7. ASSUME NEW name \in EventName, name \notin {"echo", "message", "dcc", "tagmsg"}, NEW text \in Text,
             line.ctcp \in {"ping", "version", "time", "clientinfo"}
      PROVE  Fine(Answers(name, line, text))
  <2>1. /\ Answers(name, line, text).events = <<Emitted(name)>>
        /\ Answers(name, line, text).sends = <<Reply(text)>>
    BY DEF Answers
  <2> HIDE DEF Emitted, Reply
  <2> QED
    BY <1>3, <1>4, <1>7, <2>1
<1> HIDE DEF Fine
<1>8. CASE line.ctcp = "none"
  <2> DEFINE name == IF line.source = known[c] THEN "echo" ELSE "message"
  <2>1. name \in EventName
    BY DEF EventName
  <2>2. Emitted(name) \in Events
    BY <1>1, <2>1, EventIs
  <2>3. Hears(c, line, Emitted(name))
    BY <1>8 DEF Event, Hears
  <2>4. Listeners(c, line) = Emits(name, line)
    BY <1>8 DEF Listeners, OnText
  <2>5. Emits(name, line).events = <<Emitted(name)>> /\ Emits(name, line).sends = <<>>
    BY DEF Emits
  <2> HIDE DEF Emitted, name
  <2> QED
    BY <2>2, <2>3, <2>4, <2>5
<1>9. CASE line.ctcp = "action"
  <2>1. Listeners(c, line) = OnAction(line)
    BY <1>9 DEF Listeners
  <2>2. OnAction(line) = Nothing \/ OnAction(line) = Emits("ctcp_action", line)
    BY DEF OnAction
  <2> QED
    BY <1>5, <1>6, <2>1, <2>2 DEF EventName, Fine
<1>10. CASE line.ctcp = "ping"
  <2>1. Listeners(c, line) = OnPing(line)
    BY <1>10 DEF Listeners
  <2>2. \/ OnPing(line) = Nothing \/ OnPing(line) = Emits("ctcp_ping_reply", line)
        \/ OnPing(line) = Answers("ctcp_ping", line, line.text)
    BY DEF OnPing
  <2>3. Fine(Emits("ctcp_ping_reply", line)) /\ Fine(Answers("ctcp_ping", line, line.text))
    BY <1>2, <1>6, <1>7, <1>10 DEF EventName
  <2> QED
    BY <1>5, <2>1, <2>2, <2>3 DEF Fine
<1>11. CASE line.ctcp = "version"
  <2>1. Listeners(c, line) = OnVersion(line)
    BY <1>11 DEF Listeners
  <2>2. \/ OnVersion(line) = Emits("ctcp_version_reply", line)
        \/ OnVersion(line) = Answers("ctcp_version", line, <<"DEFAULT_VERSION">>)
    BY DEF OnVersion
  <2>3. Fine(Emits("ctcp_version_reply", line))
        /\ Fine(Answers("ctcp_version", line, <<"DEFAULT_VERSION">>))
    BY <1>6, <1>7, <1>11, ReplyText DEF EventName
  <2> QED
    BY <2>1, <2>2, <2>3 DEF Fine
<1>12. CASE line.ctcp = "time"
  <2>1. Listeners(c, line) = OnTime(line)
    BY <1>12 DEF Listeners
  <2>2. \/ OnTime(line) = Emits("ctcp_time_reply", line)
        \/ OnTime(line) = Answers("ctcp_time", line, <<"now">>)
    BY DEF OnTime
  <2>3. Fine(Emits("ctcp_time_reply", line)) /\ Fine(Answers("ctcp_time", line, <<"now">>))
    BY <1>6, <1>7, <1>12, ReplyText DEF EventName
  <2> QED
    BY <2>1, <2>2, <2>3 DEF Fine
<1>13. CASE line.ctcp = "clientinfo"
  <2>1. Listeners(c, line) = OnClientinfo(line)
    BY <1>13 DEF Listeners
  <2>2. PICK text \in Text : text = <<"PING", " ", "TIME", " ", "VERSION">>
    BY ReplyText
  <2>3. \/ OnClientinfo(line) = Emits("ctcp_clientinfo_reply", line)
        \/ OnClientinfo(line) = Answers("ctcp_clientinfo", line, text)
    BY <2>2 DEF OnClientinfo
  <2>4. Fine(Emits("ctcp_clientinfo_reply", line)) /\ Fine(Answers("ctcp_clientinfo", line, text))
    BY <1>6, <1>7, <1>13 DEF EventName
  <2> QED
    BY <2>1, <2>3, <2>4 DEF Fine
<1>14. CASE line.ctcp = "dcc"
  <2>1. Listeners(c, line) = OnDcc(line)
    BY <1>14 DEF Listeners
  <2> DEFINE h == Event("dcc", line, CreateDcc(line.text), {})
  <2>2. h \in Events
    <3>1. CreateDcc(line.text) \in Offered
      BY <1>2 DEF Offered
    <3>2. "dcc" \in EventName
      BY DEF EventName
    <3> QED
      BY <1>1, <3>1, <3>2, EventIs
  <2>3. Hears(c, line, h)
    BY <1>14 DEF Event, Hears
  <2>4. OnDcc(line) = Nothing \/ OnDcc(line) = [events |-> <<h>>, sends |-> <<>>]
    BY DEF OnDcc
  <2> HIDE DEF h
  <2>5. Fine([events |-> <<h>>, sends |-> <<>>])
    BY <2>2, <2>3 DEF Fine
  <2> QED
    BY <1>5, <2>1, <2>4, <2>5 DEF Fine
<1>15. CASE line.ctcp = "tags"
  <2>1. Listeners(c, line) = OnTagmsg(line)
    BY <1>15 DEF Listeners
  <2> DEFINE h == Event("tagmsg", line, NoCmd, ParseTags(line.text))
  <2>2. h \in Events
    <3>1. ParseTags(line.text) \in Tagged
      BY <1>2 DEF Tagged
    <3>2. "tagmsg" \in EventName
      BY DEF EventName
    <3> QED
      BY <1>1, <3>1, <3>2, EventIs
  <2>3. Hears(c, line, h)
    BY <1>15 DEF Event, Hears
  <2>4. OnTagmsg(line) = [events |-> <<h>>, sends |-> <<>>]
    BY DEF OnTagmsg
  <2> HIDE DEF h
  <2>5. Fine([events |-> <<h>>, sends |-> <<>>])
    BY <2>2, <2>3 DEF Fine
  <2> QED
    BY <2>1, <2>4, <2>5 DEF Fine
<1>16. CASE line.ctcp \notin {"none", "action", "ping", "version", "time", "clientinfo", "dcc", "tags"}
  <2>1. Listeners(c, line) = Nothing
    BY <1>16 DEF Listeners
  <2> QED
    BY <1>5, <2>1 DEF Fine
<1> QED
  BY <1>8, <1>9, <1>10, <1>11, <1>12, <1>13, <1>14, <1>15, <1>16

(* What a server makes of a line.                                          *)
LEMMA ShownIs ==
  ASSUME TypeInv, NEW c \in Clients
  PROVE  Shown(c) \in Nat
<1>1. nick[c] \in Nicks /\ host[c] \in Shows
  BY DEF TypeInv, Shows
<1>2. Width[nick[c]] \in Nat /\ host[c] \in Nat /\ UserShown \in Nat
  BY <1>1, LengthFacts
<1> QED
  BY <1>2 DEF Shown

LEMMA RelayedIs ==
  ASSUME TypeInv, NEW c \in Clients, NEW line \in Sent
  PROVE  /\ Relayed(c, line) \in Relays
         /\ Relayed(c, line).verb = line.verb /\ Relayed(c, line).author = c
         /\ Relayed(c, line).source = nick[c] /\ Relayed(c, line).target = line.target
         /\ Relayed(c, line).ctcp = line.ctcp
         /\ line.ctcp # "none" \/ Bytes(line.text) <= Room(line.verb, line.target, Shown(c)) =>
              Relayed(c, line).text = Decoded(line.text)
<1>1. /\ line.verb \in Spoken /\ line.target \in Target /\ line.ctcp \in Kind /\ line.text \in Text
      /\ nick[c] \in Nicks /\ (line.verb = "TAGMSG" => line.ctcp = "tags")
  BY DEF Sent, TypeInv
<1>2. PICK room : room = Room(line.verb, line.target, Shown(c))
  OBVIOUS
<1>3. room \in Int
  <2>1. Shown(c) \in Nat
    BY ShownIs
  <2> QED
    BY <1>1, <1>2, <2>1, RoomShrinks
<1>4. Max({room, 0}) \in Nat /\ (room >= 0 => Max({room, 0}) = room)
  <2>1. \E m \in {room, 0} : \A x \in {room, 0} : m >= x
    BY <1>3
  <2>2. Max({room, 0}) \in {room, 0} /\ \A x \in {room, 0} : Max({room, 0}) >= x
    BY <2>1 DEF Max
  <2> QED
    BY <1>3, <2>2
<1>5. PICK m \in Nat : m = Max({room, 0})
  BY <1>4
<1> DEFINE S == {k \in 0 .. Len(line.text) : Bytes(SubSeq(line.text, 1, k)) <= m}
           fits == Max(S)
           text == IF line.ctcp = "none" THEN SubSeq(line.text, 1, fits) ELSE line.text
<1>6. line.text \in Seq(Unit) /\ Len(line.text) \in Nat
  BY <1>1 DEF Text
<1>7. S \in SUBSET (0 .. Len(line.text)) /\ 0 \in S
  <2>1. PICK none : none = SubSeq(line.text, 1, 0)
    OBVIOUS
  <2>2. none \in Text /\ Len(none) = 0
    BY <1>6, <2>1, Piece DEF Text
  <2>3. Bytes(none) = 0
    BY <2>2, BytesType
  <2> QED
    BY <1>6, <2>1, <2>3
<1>8. fits \in S /\ \A x \in S : fits >= x
  <2> HIDE DEF S
  <2> QED
    BY <1>6, <1>7, Largest
<1>9. SubSeq(line.text, 1, fits) \in Text
  <2>1. PICK f \in 0 .. Len(line.text) : f = fits
    BY <1>8
  <2> HIDE DEF fits
  <2> QED
    BY <1>6, <2>1, Piece DEF Text
<1>10. Bytes(line.text) <= room => SubSeq(line.text, 1, fits) = line.text
  <2> SUFFICES ASSUME Bytes(line.text) <= room PROVE SubSeq(line.text, 1, fits) = line.text
    OBVIOUS
  <2>1. Bytes(line.text) \in Nat
    BY <1>1, BytesType
  <2>2. m = room
    BY <1>3, <1>4, <1>5, <2>1
  <2>3. SubSeq(line.text, 1, Len(line.text)) = line.text
    BY <1>6, WholePiece
  <2>4. Len(line.text) \in S
    <3>1. Bytes(SubSeq(line.text, 1, Len(line.text))) <= m
      BY <2>2, <2>3
    <3>2. Len(line.text) \in 0 .. Len(line.text)
      BY <1>6
    <3> QED
      BY <3>1, <3>2
  <2>5. fits = Len(line.text)
    BY <1>6, <1>8, <2>4
  <2> QED
    BY <2>3, <2>5
<1>11. Relayed(c, line) =
         [verb |-> line.verb, author |-> c, source |-> nick[c],
          target |-> line.target, ctcp |-> line.ctcp, text |-> Decoded(text)]
  BY <1>2, <1>5 DEF Relayed, Room
<1>12. text \in Text
  BY <1>1, <1>9
<1>13. line.ctcp # "none" \/ Bytes(line.text) <= room => text = line.text
  BY <1>10
<1> HIDE DEF text
<1>14. Decoded(text) \in Text
  BY <1>12, DecodedType
<1> QED
  BY <1>1, <1>2, <1>11, <1>13, <1>14 DEF Relays, Spoken


-----------------------------------------------------------------------------
(* What a step does.                                                       *)
Refused(c, line) == line.ctcp = "none" /\ Relayed(c, line).text = <<>>
Copied(c, d, line) ==
  IF Refused(c, line) THEN <<>>
  ELSE (IF nick[d] = line.target \/ (line.target = Chan /\ d # c)
        THEN <<Relayed(c, line)>> ELSE <<>>)
         \o (IF echo /\ d = c THEN <<Relayed(c, line)>> ELSE <<>>)

Relaying(c, line) ==
  /\ toServer[c] # <<>> /\ line = Head(toServer[c])
  /\ toServer' = [toServer EXCEPT ![c] = Tail(@)]
  /\ toClient' = [d \in Clients |-> toClient[d] \o Copied(c, d, line)]
  /\ overrun' = [overrun EXCEPT ![c] = @ \/ (line.ctcp = "none" /\ Shown(c) > line.prefix)]
  /\ UNCHANGED <<echo, nick, host, known, hostname, said, heard, told, renames, changes>>

LEMMA RelayIs ==
  ASSUME TypeInv, NEW c \in Clients, Relay(c)
  PROVE  \E line \in Sent : Relaying(c, line)
<1>1. toServer[c] \in Seq(Sent) /\ toServer[c] # <<>>
  BY DEF TypeInv, Relay
<1>2. PICK line \in Sent : line = Head(toServer[c])
  BY <1>1, HeadAndTail
<1>4. Relayed(c, line).ctcp = line.ctcp /\ Relayed(c, line).target = line.target
  BY RelayedIs
<1>3. toClient' = [d \in Clients |-> toClient[d] \o Copied(c, d, line)]
  <2>1. CASE Refused(c, line)
    <3>1. toClient' = toClient
      BY <1>2, <1>4, <2>1 DEF Relay, Refused
    <3>2. \A d \in Clients : toClient[d] \o <<>> = toClient[d]
      <4>1. \A d \in Clients : toClient[d] \in Seq(Relays)
        BY DEF TypeInv
      <4> QED
        BY <4>1, ConcatEmptySeq
    <3>3. toClient = [d \in Clients |-> toClient[d]]
      BY DEF TypeInv
    <3>4. \A d \in Clients : Copied(c, d, line) = <<>>
      BY <2>1 DEF Copied
    <3> QED
      BY <3>1, <3>2, <3>3, <3>4
  <2>2. CASE ~Refused(c, line)
    BY <1>2, <1>4, <2>2 DEF Relay, Copied, Refused
  <2> QED
    BY <2>1, <2>2
<1> QED
  BY <1>1, <1>2, <1>3 DEF Relay, Relaying

LEMMA Doubled ==
  ASSUME NEW T, NEW m \in T
  PROVE  /\ <<m>> \o <<m>> = <<m, m>> /\ <<m>> \o <<>> = <<m>> /\ <<>> \o <<m>> = <<m>>
         /\ <<>> \o <<>> = <<>>
         /\ <<>> \in Seq(T) /\ <<m>> \in Seq(T) /\ <<m, m>> \in Seq(T)
<1>1. <<>> \in Seq(T) /\ <<m>> \in Seq(T) /\ <<m, m>> \in Seq(T)
  OBVIOUS
<1>2. <<m>> \o <<>> = <<m>> /\ <<>> \o <<m>> = <<m>>
  BY <1>1, ConcatEmptySeq
<1>3. <<>> \o <<>> = <<>>
  BY <1>1, ConcatEmptySeq
<1>4. <<m>> \o <<m>> = <<m, m>>
  <2>1. PICK s, t : s = <<m>> /\ t = <<m, m>>
    OBVIOUS
  <2>2. s \in Seq(T) /\ t \in Seq(T) /\ Len(s) = 1 /\ Len(t) = 2 /\ s[1] = m /\ t[1] = m /\ t[2] = m
    BY <2>1
  <2>3. t = s \o s
    <3>1. \A i \in 1 .. Len(s) : t[i] = s[i]
      BY <2>2
    <3>2. \A i \in 1 .. Len(s) : t[Len(s) + i] = s[i]
      BY <2>2
    <3>3. s \in Seq(T) /\ t \in Seq(T) /\ Len(t) = Len(s) + Len(s)
      BY <2>2
    <3> QED
      BY <3>1, <3>2, <3>3, IsConcat
  <2> QED
    BY <2>1, <2>3
<1> QED
  BY <1>1, <1>2, <1>3, <1>4

LEMMA CopiedAre ==
  ASSUME TypeInv, NEW c \in Clients, NEW d \in Clients, NEW line \in Sent
  PROVE  /\ Copied(c, d, line) \in {<<>>, <<Relayed(c, line)>>, <<Relayed(c, line), Relayed(c, line)>>}
         /\ Copied(c, d, line) \in Seq(Relays)
         /\ d # c => Copied(c, d, line) = IF /\ ~Refused(c, line)
                                             /\ nick[d] = line.target \/ line.target = Chan
                                          THEN <<Relayed(c, line)>> ELSE <<>>
<1>1. PICK m \in Relays : m = Relayed(c, line)
  BY RelayedIs
<1> DEFINE C(p, q) == (IF p THEN <<m>> ELSE <<>>) \o (IF q THEN <<m>> ELSE <<>>)
<1>2. ASSUME NEW p \in BOOLEAN, NEW q \in BOOLEAN
      PROVE  C(p, q) \in {<<>>, <<m>>, <<m, m>>} /\ (~q => C(p, q) = IF p THEN <<m>> ELSE <<>>)
  <2>1. /\ <<m>> \o <<m>> = <<m, m>> /\ <<m>> \o <<>> = <<m>> /\ <<>> \o <<m>> = <<m>>
        /\ <<>> \o <<>> = <<>>
    BY Doubled
  <2> QED
    BY <2>1
<1>3. \A s \in {<<>>, <<m>>, <<m, m>>} : s \in Seq(Relays)
  <2>1. <<>> \in Seq(Relays) /\ <<m>> \in Seq(Relays) /\ <<m, m>> \in Seq(Relays)
    BY Doubled
  <2> QED
    BY <2>1
<1>4. Copied(c, d, line) = IF Refused(c, line) THEN <<>>
                           ELSE C(nick[d] = line.target \/ (line.target = Chan /\ d # c),
                                  echo /\ d = c)
  BY <1>1 DEF Copied
<1> HIDE DEF C
<1>5. Copied(c, d, line) \in {<<>>, <<m>>, <<m, m>>}
  BY <1>2, <1>4
<1>6. d # c => Copied(c, d, line) = IF /\ ~Refused(c, line)
                                       /\ nick[d] = line.target \/ line.target = Chan
                                    THEN <<m>> ELSE <<>>
  <2>1. CASE Refused(c, line)
    BY <1>4, <2>1
  <2>2. CASE ~Refused(c, line)
    <3> SUFFICES ASSUME d # c
                 PROVE  Copied(c, d, line) = IF nick[d] = line.target \/ line.target = Chan
                                             THEN <<m>> ELSE <<>>
      BY <2>2
    <3>1. ~(echo /\ d = c)
      OBVIOUS
    <3> QED
      BY <1>2, <1>4, <2>2, <3>1
  <2> QED
    BY <2>1, <2>2
<1> QED
  BY <1>1, <1>3, <1>5, <1>6

Handles(c, line) ==
  \/ /\ line.verb \in Spoken
     /\ heard' = [heard EXCEPT ![c] = @ \o Listeners(c, line).events]
     /\ toServer' = [toServer EXCEPT ![c] = @ \o Listeners(c, line).sends]
     /\ UNCHANGED <<known, hostname, told>>
  \/ /\ line.verb = "NICK"
     /\ known' = IF line.source = known[c] THEN [known EXCEPT ![c] = line.target] ELSE known
     /\ UNCHANGED <<hostname, heard, told, toServer>>
  \/ /\ line.verb = "396"
     /\ hostname' = [hostname EXCEPT ![c] = line.target]
     /\ told' = [told EXCEPT ![c] = line.target]
     /\ UNCHANGED <<known, heard, toServer>>
Receiving(c, line) ==
  /\ toClient[c] # <<>> /\ line = Head(toClient[c])
  /\ Handles(c, line)
  /\ toClient' = [toClient EXCEPT ![c] = Tail(@)]
  /\ UNCHANGED <<echo, nick, host, said, overrun, renames, changes>>

LEMMA ReceiveIs ==
  ASSUME TypeInv, NEW c \in Clients, Receive(c)
  PROVE  \E line \in Relays : Receiving(c, line)
<1>1. toClient[c] \in Seq(Relays) /\ toClient[c] # <<>>
  BY DEF TypeInv, Receive
<1>2. PICK line \in Relays : line = Head(toClient[c])
  BY <1>1, HeadAndTail
<1>3. DOMAIN VerbLength = Spoken
  BY DEF VerbLength, Spoken
<1>4. ASSUME ReceiveMessage(c) PROVE Handles(c, line)
  BY <1>2, <1>3, <1>4 DEF ReceiveMessage, Send, Handles
<1>5. ASSUME ReceiveNick(c) PROVE Handles(c, line)
  BY <1>2, <1>5 DEF ReceiveNick, Handles
<1>6. ASSUME ReceiveHost(c) PROVE Handles(c, line)
  BY <1>2, <1>6 DEF ReceiveHost, Handles
<1>7. Handles(c, line)
  BY <1>4, <1>5, <1>6 DEF Receive
<1> QED
  BY <1>1, <1>2, <1>7 DEF Receive, Receiving

LEMMA NoticeIs ==
  ASSUME TypeInv, NEW c \in Clients, NEW verb, NEW target,
         (verb = "NICK" /\ target \in Nicks) \/ (verb = "396" /\ target \in Hosts)
  PROVE  /\ Notice(verb, c, target) \in Relays
         /\ Notice(verb, c, target).verb = verb /\ Notice(verb, c, target).author = c
         /\ Notice(verb, c, target).source = nick[c] /\ Notice(verb, c, target).target = target
<1>1. /\ <<>> \in Text /\ target \in Target \cup Hosts /\ nick[c] \in Nicks /\ "none" \in Kind
      /\ verb \in {"NICK", "396"} /\ verb \notin Spoken
  BY DEF Text, Target, Kind, TypeInv, Spoken
<1> QED
  BY <1>1 DEF Notice, Relays

-----------------------------------------------------------------------------
LEMMA TypeInit == Init => TypeInv
<1> SUFFICES ASSUME Init PROVE TypeInv
  OBVIOUS
<1>1. nick \in [Clients -> Nicks] /\ known \in [Clients -> Nicks]
  BY DEF Init, Nicks
<1>2. /\ host \in [Clients -> Hosts] /\ overrun \in [Clients -> BOOLEAN]
      /\ hostname \in [Clients -> Shows] /\ told \in [Clients -> Shows]
  BY LengthsAssumption DEF Init, Shows
<1>3. /\ toServer \in [Clients -> Seq(Sent)] /\ toClient \in [Clients -> Seq(Relays)]
      /\ heard \in [Clients -> Seq(Events)] /\ said \in Seq(Things)
  <2>1. <<>> \in Seq(Sent) /\ <<>> \in Seq(Relays) /\ <<>> \in Seq(Events) /\ <<>> \in Seq(Things)
    OBVIOUS
  <2> QED
    BY <2>1 DEF Init
<1> QED
  BY <1>1, <1>2, <1>3 DEF Init, TypeInv

LEMMA Concatenated ==
  ASSUME NEW T, NEW f \in [Clients -> Seq(T)], NEW c \in Clients, NEW s \in Seq(T)
  PROVE  [f EXCEPT ![c] = @ \o s] \in [Clients -> Seq(T)]
<1>1. f[c] \o s \in Seq(T)
  <2>1. f[c] \in Seq(T)
    OBVIOUS
  <2> QED
    BY <2>1, Concatenates
<1> QED
  BY <1>1

LEMMA TypeStep == TypeInv /\ [Next]_vars => TypeInv'
<1> SUFFICES ASSUME TypeInv, [Next]_vars PROVE TypeInv'
  OBVIOUS
<1>1. CASE Application
  <2>1. PICK c \in Clients, s \in Things, lines \in Seq(Sent) : Says(c, s, lines)
    BY <1>1, ApplicationIs
  <2>2. said' \in Seq(Things)
    <3>1. said \in Seq(Things) /\ said' = Append(said, s)
      BY <2>1 DEF TypeInv, Says
    <3> QED
      BY <3>1, AppendsOne
  <2>3. toServer' \in [Clients -> Seq(Sent)]
    BY <2>1, Concatenated DEF TypeInv, Says
  <2> QED
    BY <2>1, <2>2, <2>3 DEF TypeInv, Says
<1>2. ASSUME NEW c \in Clients, Relay(c) PROVE TypeInv'
  <2>1. PICK line \in Sent : Relaying(c, line)
    BY <1>2, RelayIs
  <2>2. toServer' \in [Clients -> Seq(Sent)]
    <3>1. toServer \in [Clients -> Seq(Sent)] /\ Tail(toServer[c]) \in Seq(Sent)
      BY <2>1, HeadAndTail DEF Relaying, TypeInv
    <3> QED
      BY <2>1, <3>1 DEF Relaying
  <2>3. toClient' \in [Clients -> Seq(Relays)]
    <3>1. ASSUME NEW d \in Clients PROVE toClient[d] \o Copied(c, d, line) \in Seq(Relays)
      <4>1. toClient[d] \in Seq(Relays) /\ Copied(c, d, line) \in Seq(Relays)
        BY CopiedAre DEF TypeInv
      <4> QED
        BY <4>1, Concatenates
    <3> QED
      BY <2>1, <3>1 DEF Relaying
  <2>4. overrun' \in [Clients -> BOOLEAN]
    <3>1. PICK long \in BOOLEAN : overrun' = [overrun EXCEPT ![c] = @ \/ long]
      BY <2>1 DEF Relaying
    <3> QED
      BY <3>1 DEF TypeInv
  <2> QED
    BY <2>1, <2>2, <2>3, <2>4 DEF TypeInv, Relaying
<1>3. ASSUME NEW c \in Clients, NEW h \in Hosts, HideHost(c, h) PROVE TypeInv'
  <2>1. Notice("396", c, h) \in Relays
    BY NoticeIs
  <2>2. PICK m \in Relays : m = Notice("396", c, h)
    BY <2>1
  <2>3. toClient' = [toClient EXCEPT ![c] = Append(@, m)]
    BY <1>3, <2>2 DEF HideHost
  <2>4. toClient' \in [Clients -> Seq(Relays)]
    <3>1. Append(toClient[c], m) \in Seq(Relays)
      BY AppendsOne DEF TypeInv
    <3> QED
      BY <2>3, <3>1 DEF TypeInv
  <2> QED
    BY <1>3, <2>4 DEF HideHost, TypeInv
<1>4. ASSUME NEW c \in Clients, NEW n \in Nicks, Rename(c, n) PROVE TypeInv'
  <2>1. PICK m \in Relays : m = Notice("NICK", c, n)
    BY NoticeIs
  <2>2. toClient' = [d \in Clients |-> Append(toClient[d], m)]
    BY <1>4, <2>1 DEF Rename
  <2>3. toClient' \in [Clients -> Seq(Relays)]
    <3>1. \A d \in Clients : Append(toClient[d], m) \in Seq(Relays)
      BY AppendsOne DEF TypeInv
    <3> QED
      BY <2>2, <3>1
  <2>4. nick' \in [Clients -> Nicks]
    BY <1>4 DEF Rename, TypeInv
  <2> QED
    BY <1>4, <2>3, <2>4 DEF Rename, TypeInv
<1>5. ASSUME NEW c \in Clients, Receive(c) PROVE TypeInv'
  <2>1. PICK line \in Relays : Receiving(c, line)
    BY <1>5, ReceiveIs
  <2>2. toClient' \in [Clients -> Seq(Relays)]
    <3>1. toClient \in [Clients -> Seq(Relays)] /\ Tail(toClient[c]) \in Seq(Relays)
      BY <2>1, HeadAndTail DEF Receiving, TypeInv
    <3> QED
      BY <2>1, <3>1 DEF Receiving
  <2>3. heard' \in [Clients -> Seq(Events)] /\ toServer' \in [Clients -> Seq(Sent)]
    <3>1. CASE line.verb \in Spoken
      <4>1. Listeners(c, line).events \in Seq(Events) /\ Listeners(c, line).sends \in Seq(Sent)
        <5>1. <<>> \in Seq(Events) /\ <<>> \in Seq(Sent)
          OBVIOUS
        <5>2. (\A h \in Events : <<h>> \in Seq(Events)) /\ (\A s \in Sent : <<s>> \in Seq(Sent))
          OBVIOUS
        <5> QED
          BY <3>1, <5>1, <5>2, ListenersAre
      <4>2. /\ heard' = [heard EXCEPT ![c] = @ \o Listeners(c, line).events]
            /\ toServer' = [toServer EXCEPT ![c] = @ \o Listeners(c, line).sends]
        BY <2>1, <3>1 DEF Receiving, Handles, Spoken
      <4> QED
        BY <4>1, <4>2, Concatenated DEF TypeInv
    <3>2. CASE line.verb \notin Spoken
      BY <2>1, <3>2 DEF Receiving, Handles, TypeInv
    <3> QED
      BY <3>1, <3>2
  <2>4. known' \in [Clients -> Nicks]
    <3>1. CASE line.verb = "NICK"
      <4>1. known' = IF line.source = known[c] THEN [known EXCEPT ![c] = line.target] ELSE known
        BY <2>1, <3>1 DEF Receiving, Handles, Spoken
      <4> QED
        BY <3>1, <4>1 DEF TypeInv, Relays
    <3>2. CASE line.verb # "NICK"
      BY <2>1, <3>2 DEF Receiving, Handles, TypeInv
    <3> QED
      BY <3>1, <3>2
  <2>5. hostname' \in [Clients -> Shows] /\ told' \in [Clients -> Shows]
    <3>1. CASE line.verb = "396"
      <4>1. /\ hostname' = [hostname EXCEPT ![c] = line.target]
            /\ told' = [told EXCEPT ![c] = line.target]
        BY <2>1, <3>1 DEF Receiving, Handles, Spoken
      <4>2. line.target \in Shows
        BY <3>1 DEF Relays, Shows
      <4> QED
        BY <4>1, <4>2 DEF TypeInv
    <3>2. CASE line.verb # "396"
      BY <2>1, <3>2 DEF Receiving, Handles, TypeInv
    <3> QED
      BY <3>1, <3>2
  <2> QED
    BY <2>1, <2>2, <2>3, <2>4, <2>5 DEF Receiving, TypeInv
<1>6. CASE UNCHANGED vars
  BY <1>6 DEF vars, TypeInv
<1>7. ASSUME NEW c \in Clients, NEW h \in Hosts, ShowHost(c, h) PROVE TypeInv'
  BY <1>7 DEF ShowHost, TypeInv
<1> QED
  BY <1>1, <1>2, <1>3, <1>4, <1>5, <1>6, <1>7 DEF Next, Server


-----------------------------------------------------------------------------
(* The lines on their way to a client that knows its nick as k, while the  *)
(* server has it as n: at each line it will know the nick that the server  *)
(* had when the line was relayed.                                          *)
Renamed(line, k) == IF line.verb = "NICK" /\ line.source = k THEN line.target ELSE k
Own(line, c, k) == line.author = c <=> line.source = k
Tracking(f, q, c, k, n) ==
  /\ f \in [0 .. Len(q) -> Nicks] /\ f[0] = k /\ f[Len(q)] = n
  /\ \A i \in 1 .. Len(q) : Own(q[i], c, f[i - 1]) /\ f[i] = Renamed(q[i], f[i - 1])
Tracks(q, c, k, n) == \E f : Tracking(f, q, c, k, n)

LEMMA RenamedType ==
  ASSUME NEW line \in Relays, NEW k \in Nicks
  PROVE  Renamed(line, k) \in Nicks
  BY DEF Renamed, Relays

LEMMA TracksNone ==
  ASSUME NEW c, NEW k \in Nicks
  PROVE  Tracks(<<>>, c, k, k)
<1>1. PICK f : f = [i \in 0 .. 0 |-> k]
  OBVIOUS
<1>2. Len(<<>>) = 0
  OBVIOUS
<1>3. f \in [0 .. 0 -> Nicks] /\ f[0] = k
  BY <1>1
<1> QED
  BY <1>2, <1>3 DEF Tracks, Tracking

LEMMA TracksAppend ==
  ASSUME NEW q \in Seq(Relays), NEW c, NEW k \in Nicks, NEW n \in Nicks, NEW line \in Relays,
         Tracks(q, c, k, n), Own(line, c, n)
  PROVE  Tracks(Append(q, line), c, k, Renamed(line, n))
<1>1. PICK f : Tracking(f, q, c, k, n)
  BY DEF Tracks
<1>2. PICK l \in Nat : l = Len(q)
  OBVIOUS
<1>3. PICK r : r = Append(q, line)
  OBVIOUS
<1>4. Len(r) = l + 1 /\ r[l + 1] = line /\ \A i \in 1 .. l : r[i] = q[i]
  BY <1>2, <1>3
<1>5. PICK e \in Nicks : e = Renamed(line, n)
  BY RenamedType
<1> DEFINE g == [i \in 0 .. l + 1 |-> IF i = l + 1 THEN e ELSE f[i]]
<1>6. f \in [0 .. l -> Nicks] /\ f[0] = k /\ f[l] = n
      /\ \A i \in 1 .. l : Own(q[i], c, f[i - 1]) /\ f[i] = Renamed(q[i], f[i - 1])
  BY <1>1, <1>2 DEF Tracking
<1>7. /\ g \in [0 .. l + 1 -> Nicks] /\ g[l + 1] = e
      /\ \A i \in 0 .. l : g[i] = f[i]
  BY <1>6
<1> HIDE DEF g
<1>8. ASSUME NEW i \in 1 .. l + 1 PROVE Own(r[i], c, g[i - 1]) /\ g[i] = Renamed(r[i], g[i - 1])
  <2>1. CASE i = l + 1
    <3>1. i - 1 = l /\ g[l] = n
      BY <1>6, <1>7, <2>1
    <3> QED
      BY <1>4, <1>5, <1>7, <2>1, <3>1
  <2>2. CASE i \in 1 .. l
    <3>1. i - 1 \in 0 .. l /\ i \in 0 .. l
      BY <2>2
    <3>2. g[i - 1] = f[i - 1] /\ g[i] = f[i] /\ r[i] = q[i]
      BY <1>4, <1>7, <2>2, <3>1
    <3> QED
      BY <1>6, <2>2, <3>2
  <2> QED
    BY <2>1, <2>2
<1>9. g[0] = k
  BY <1>6, <1>7
<1>10. Tracking(g, r, c, k, e)
  BY <1>4, <1>7, <1>8, <1>9 DEF Tracking
<1> QED
  BY <1>3, <1>5, <1>10 DEF Tracks

LEMMA TracksTail ==
  ASSUME NEW q \in Seq(Relays), q # <<>>, NEW c, NEW k \in Nicks, NEW n \in Nicks,
         Tracks(q, c, k, n)
  PROVE  Own(Head(q), c, k) /\ Tracks(Tail(q), c, Renamed(Head(q), k), n)
<1>1. PICK f : Tracking(f, q, c, k, n)
  BY DEF Tracks
<1>2. PICK l \in Nat : Len(q) = l + 1
  <2>1. Len(q) - 1 \in Nat /\ Len(q) = (Len(q) - 1) + 1
    OBVIOUS
  <2> QED
    BY <2>1
<1>3. PICK r, line : r = Tail(q) /\ line = Head(q)
  OBVIOUS
<1>4. Len(r) = l /\ line = q[1] /\ \A i \in 1 .. l : r[i] = q[i + 1]
  BY <1>2, <1>3, HeadAndTail
<1> DEFINE g == [i \in 0 .. l |-> f[i + 1]]
<1>5. f \in [0 .. l + 1 -> Nicks] /\ f[0] = k /\ f[l + 1] = n
      /\ \A i \in 1 .. l + 1 : Own(q[i], c, f[i - 1]) /\ f[i] = Renamed(q[i], f[i - 1])
  BY <1>1, <1>2 DEF Tracking
<1>6. g \in [0 .. l -> Nicks] /\ \A i \in 0 .. l : g[i] = f[i + 1]
  BY <1>5
<1> HIDE DEF g
<1>7. ASSUME NEW i \in 1 .. l PROVE Own(r[i], c, g[i - 1]) /\ g[i] = Renamed(r[i], g[i - 1])
  <2>1. i - 1 \in 0 .. l /\ i \in 0 .. l /\ i + 1 \in 1 .. l + 1
    OBVIOUS
  <2>2. g[i - 1] = f[(i - 1) + 1] /\ g[i] = f[i + 1]
    BY <1>6, <2>1
  <2>3. Own(q[i + 1], c, f[(i + 1) - 1]) /\ f[i + 1] = Renamed(q[i + 1], f[(i + 1) - 1])
    BY <1>5, <2>1
  <2>4. (i - 1) + 1 = i /\ (i + 1) - 1 = i /\ r[i] = q[i + 1]
    BY <1>4
  <2> QED
    BY <2>2, <2>3, <2>4
<1>8. Own(q[1], c, k) /\ f[1] = Renamed(q[1], k)
  <2>1. 1 \in 1 .. l + 1 /\ 1 - 1 = 0
    OBVIOUS
  <2> QED
    BY <1>5, <2>1
<1>9. g[0] = Renamed(q[1], k) /\ g[l] = n
  BY <1>5, <1>6, <1>8
<1>10. Tracking(g, r, c, Renamed(q[1], k), n)
  BY <1>4, <1>6, <1>7, <1>9 DEF Tracking
<1> QED
  BY <1>3, <1>4, <1>8, <1>10 DEF Tracks

(* The nicks are different, the clients follow them, and hear themselves   *)
(* only as themselves.                                                     *)
OwnInv ==
  /\ \A c, d \in Clients : nick[c] = nick[d] => c = d
  /\ \A c \in Clients : Tracks(toClient[c], c, known[c], nick[c])
  /\ EchoIsOwn

LEMMA OwnInit == Init => OwnInv
<1> SUFFICES ASSUME Init PROVE OwnInv
  OBVIOUS
<1>1. \A c \in Clients : nick[c] = c /\ known[c] = c /\ toClient[c] = <<>> /\ heard[c] = <<>>
  BY DEF Init
<1>2. \A c \in Clients : Tracks(toClient[c], c, known[c], nick[c])
  BY <1>1, TracksNone DEF Nicks
<1>3. EchoIsOwn
  BY <1>1 DEF EchoIsOwn
<1> QED
  BY <1>1, <1>2, <1>3 DEF OwnInv

(* What is relayed is the author's, by its nick, and renames nobody.       *)
LEMMA TracksSpoken ==
  ASSUME NEW q \in Seq(Relays), NEW s, NEW c, NEW k \in Nicks, NEW n \in Nicks,
         NEW m \in Relays, m.verb \in Spoken, Own(m, c, n), s \in {<<>>, <<m>>, <<m, m>>},
         Tracks(q, c, k, n)
  PROVE  Tracks(q \o s, c, k, n)
<1>1. Renamed(m, n) = n
  BY DEF Renamed, Spoken
<1>2. PICK r : r = Append(q, m)
  OBVIOUS
<1>3. r = q \o <<m>> /\ <<m>> \in Seq(Relays) /\ r \in Seq(Relays)
  BY <1>2, AppendsOne
<1>4. Tracks(r, c, k, n)
  BY <1>1, <1>2, TracksAppend
<1>5. PICK t : t = Append(r, m)
  OBVIOUS
<1>6. t = r \o <<m>>
  BY <1>3, <1>5, AppendsOne
<1>7. Tracks(t, c, k, n)
  BY <1>1, <1>3, <1>4, <1>5, TracksAppend
<1>8. t = q \o <<m, m>>
  <2>1. (q \o <<m>>) \o <<m>> = q \o (<<m>> \o <<m>>)
    BY <1>3, ConcatAssociative
  <2>2. <<m>> \o <<m>> = <<m, m>>
    BY Doubled
  <2> QED
    BY <1>3, <1>6, <2>1, <2>2
<1>9. q \o <<>> = q
  BY ConcatEmptySeq
<1> QED
  BY <1>3, <1>4, <1>7, <1>8, <1>9

LEMMA OwnStep == TypeInv /\ OwnInv /\ [Next]_vars => OwnInv'
<1> SUFFICES ASSUME TypeInv, OwnInv, [Next]_vars PROVE OwnInv'
  OBVIOUS
<1>1. CASE Application
  <2>1. PICK c \in Clients, s \in Things, lines \in Seq(Sent) : Says(c, s, lines)
    BY <1>1, ApplicationIs
  <2> QED
    BY <2>1 DEF Says, OwnInv, EchoIsOwn
<1>2. ASSUME NEW a \in Clients, Relay(a) PROVE OwnInv'
  <2>1. PICK line \in Sent : Relaying(a, line)
    BY <1>2, RelayIs
  <2>2. ASSUME NEW c \in Clients PROVE Tracks(toClient'[c], c, known'[c], nick'[c])
    <3>1. PICK m \in Relays : m = Relayed(a, line) /\ m.verb \in Spoken /\ m.author = a
                              /\ m.source = nick[a]
      <4>1. line.verb \in Spoken
        BY DEF Sent
      <4> QED
        BY <4>1, RelayedIs
    <3>2. Own(m, c, nick[c])
      BY <3>1 DEF Own, OwnInv
    <3>3. PICK s : s = Copied(a, c, line)
      OBVIOUS
    <3>4. s \in {<<>>, <<m>>, <<m, m>>}
      BY <3>1, <3>3, CopiedAre
    <3>5. toClient'[c] = toClient[c] \o s /\ known'[c] = known[c] /\ nick'[c] = nick[c]
      BY <2>1, <3>3 DEF Relaying
    <3>6. toClient[c] \in Seq(Relays) /\ known[c] \in Nicks /\ nick[c] \in Nicks
      BY DEF TypeInv
    <3>7. Tracks(toClient[c], c, known[c], nick[c])
      BY DEF OwnInv
    <3> QED
      BY <3>1, <3>2, <3>4, <3>5, <3>6, <3>7, TracksSpoken
  <2> QED
    BY <2>1, <2>2 DEF Relaying, OwnInv, EchoIsOwn
<1>3. ASSUME NEW a \in Clients, NEW h \in Hosts, HideHost(a, h) PROVE OwnInv'
  <2>1. PICK m \in Relays : m = Notice("396", a, h) /\ m.verb = "396" /\ m.author = a
                            /\ m.source = nick[a]
    BY NoticeIs
  <2>2. toClient' = [toClient EXCEPT ![a] = Append(@, m)]
    BY <1>3, <2>1 DEF HideHost
  <2>3. UNCHANGED <<known, nick, heard>>
    BY <1>3 DEF HideHost
  <2>4. toClient[a] \in Seq(Relays) /\ known[a] \in Nicks /\ nick[a] \in Nicks
    BY DEF TypeInv
  <2>5. Tracks(Append(toClient[a], m), a, known[a], nick[a])
    <3>1. Own(m, a, nick[a]) /\ Renamed(m, nick[a]) = nick[a]
      BY <2>1 DEF Own, Renamed
    <3>2. Tracks(toClient[a], a, known[a], nick[a])
      BY DEF OwnInv
    <3>3. Tracks(Append(toClient[a], m), a, known[a], Renamed(m, nick[a]))
      BY <2>4, <3>1, <3>2, TracksAppend
    <3> QED
      BY <3>1, <3>3
  <2>6. ASSUME NEW c \in Clients PROVE Tracks(toClient'[c], c, known'[c], nick'[c])
    <3>1. toClient'[c] = IF c = a THEN Append(toClient[a], m) ELSE toClient[c]
      BY <2>2 DEF TypeInv
    <3> QED
      BY <2>3, <2>5, <3>1 DEF OwnInv
  <2> QED
    BY <2>3, <2>6 DEF OwnInv, EchoIsOwn
<1>4. ASSUME NEW a \in Clients, NEW n \in Nicks, Rename(a, n) PROVE OwnInv'
  <2>1. PICK m \in Relays : m = Notice("NICK", a, n) /\ m.verb = "NICK" /\ m.author = a
                            /\ m.source = nick[a] /\ m.target = n
    BY NoticeIs
  <2>2. toClient' = [d \in Clients |-> Append(toClient[d], m)] /\ UNCHANGED <<known, heard>>
    BY <1>4, <2>1 DEF Rename
  <2>3. nick' = [nick EXCEPT ![a] = n] /\ \A d \in Clients : nick[d] # n
    BY <1>4 DEF Rename
  <2>4. ASSUME NEW c \in Clients PROVE Tracks(toClient'[c], c, known'[c], nick'[c])
    <3>1. Own(m, c, nick[c])
      BY <2>1 DEF Own, OwnInv
    <3>2. Renamed(m, nick[c]) = nick'[c]
      BY <2>1, <2>3 DEF Renamed, OwnInv, TypeInv
    <3>3. toClient[c] \in Seq(Relays) /\ known[c] \in Nicks /\ nick[c] \in Nicks
      BY DEF TypeInv
    <3>4. Tracks(toClient[c], c, known[c], nick[c])
      BY DEF OwnInv
    <3>5. Tracks(Append(toClient[c], m), c, known[c], Renamed(m, nick[c]))
      BY <3>1, <3>3, <3>4, TracksAppend
    <3> QED
      BY <2>2, <3>2, <3>5
  <2>5. \A c, d \in Clients : nick'[c] = nick'[d] => c = d
    BY <2>3 DEF OwnInv, TypeInv
  <2> QED
    BY <2>2, <2>4, <2>5 DEF OwnInv, EchoIsOwn
<1>5. ASSUME NEW a \in Clients, Receive(a) PROVE OwnInv'
  <2>1. PICK line \in Relays : Receiving(a, line)
    BY <1>5, ReceiveIs
  <2>2. toClient[a] \in Seq(Relays) /\ toClient[a] # <<>> /\ known[a] \in Nicks /\ nick[a] \in Nicks
        /\ line = Head(toClient[a])
    BY <2>1 DEF Receiving, TypeInv
  <2>3. Own(line, a, known[a]) /\ Tracks(Tail(toClient[a]), a, Renamed(line, known[a]), nick[a])
    <3>1. Tracks(toClient[a], a, known[a], nick[a])
      BY DEF OwnInv
    <3> QED
      BY <2>2, <3>1, TracksTail
  <2>4. \A c \in Clients : known'[c] = IF c = a THEN Renamed(line, known[a]) ELSE known[c]
    BY <2>1 DEF Receiving, Handles, Renamed, TypeInv, Spoken
  <2>5. ASSUME NEW c \in Clients PROVE Tracks(toClient'[c], c, known'[c], nick'[c])
    <3>1. toClient'[c] = IF c = a THEN Tail(toClient[a]) ELSE toClient[c]
      BY <2>1 DEF Receiving, TypeInv
    <3>2. nick' = nick
      BY <2>1 DEF Receiving
    <3> QED
      BY <2>3, <2>4, <3>1, <3>2 DEF OwnInv
  <2>6. EchoIsOwn'
    <3>1. CASE line.verb \in Spoken
      <4>1. heard' = [heard EXCEPT ![a] = @ \o Listeners(a, line).events]
        BY <2>1, <3>1 DEF Receiving, Handles, Spoken
      <4>2. CASE Listeners(a, line).events = <<>>
        <5>1. heard[a] \in Seq(Events) /\ heard[a] \o <<>> = heard[a]
          BY ConcatEmptySeq DEF TypeInv
        <5>2. heard' = heard
          BY <4>1, <4>2, <5>1 DEF TypeInv
        <5> QED
          BY <5>2 DEF OwnInv, EchoIsOwn
      <4>3. ASSUME NEW h \in Events, Listeners(a, line).events = <<h>>, Hears(a, line, h)
            PROVE  EchoIsOwn'
        <5>1. h.event = "message" => h.from # a
          BY <2>3, <4>3 DEF Hears, Own
        <5>2. h.event = "echo" => h.from = a
          BY <2>3, <4>3 DEF Hears, Own
        <5>3. PICK s \in Seq(Events) : s = heard[a]
          BY DEF TypeInv
        <5>4. PICK t : t = s \o <<h>>
          OBVIOUS
        <5>5. \A i \in DOMAIN t : (i \in DOMAIN s /\ t[i] = s[i]) \/ t[i] = h
          BY <5>4
        <5>6. \A c \in Clients : heard'[c] = IF c = a THEN t ELSE heard[c]
          BY <4>1, <4>3, <5>3, <5>4 DEF TypeInv
        <5>7. \A i \in DOMAIN s : /\ s[i].event = "message" => s[i].from # a
                                  /\ s[i].event = "echo" => s[i].from = a
          BY <5>3 DEF OwnInv, EchoIsOwn
        <5> QED
          BY <5>1, <5>2, <5>5, <5>6, <5>7 DEF OwnInv, EchoIsOwn
      <4> QED
        BY <3>1, <4>2, <4>3, ListenersAre
    <3>2. CASE line.verb \notin Spoken
      BY <2>1, <3>2 DEF Receiving, Handles, OwnInv, EchoIsOwn
    <3> QED
      BY <3>1, <3>2
  <2> QED
    BY <2>1, <2>5, <2>6 DEF Receiving, OwnInv
<1>6. CASE UNCHANGED vars
  BY <1>6 DEF vars, OwnInv, EchoIsOwn
<1>7. ASSUME NEW a \in Clients, NEW h \in Hosts, ShowHost(a, h) PROVE OwnInv'
  BY <1>7 DEF ShowHost, OwnInv, EchoIsOwn
<1> QED
  BY <1>1, <1>2, <1>3, <1>4, <1>5, <1>6, <1>7 DEF Next, Server

(* The lines and the states are of the types the model gives them.         *)
THEOREM Types == Spec => []TypeInv
  BY TypeInit, TypeStep, PTL DEF Spec

(* A client never takes what it said itself for somebody else's message,   *)
(* nor somebody else's for its echo, with whatever renaming of itself and  *)
(* of others on its way (echo_message.ts, registration.ts).                *)
THEOREM EchoesAreOwn == Spec => []EchoIsOwn
<1>1. OwnInv => EchoIsOwn
  BY DEF OwnInv
<1> QED
  BY <1>1, TypeInit, TypeStep, OwnInit, OwnStep, PTL DEF Spec


-----------------------------------------------------------------------------
(* What listeners emit and send, of every line they are given.             *)
Emitted(c, line) == IF line.verb \in Spoken THEN Listeners(c, line).events ELSE <<>>
Answered(c, line) == IF line.verb \in Spoken THEN Listeners(c, line).sends ELSE <<>>

LEMMA HandledIs ==
  ASSUME TypeInv, NEW b \in Clients, NEW line \in Relays, Receiving(b, line)
  PROVE  /\ Emitted(b, line) \in Seq(Events) /\ Answered(b, line) \in Seq(Sent)
         /\ heard' = [heard EXCEPT ![b] = @ \o Emitted(b, line)]
         /\ toServer' = [toServer EXCEPT ![b] = @ \o Answered(b, line)]
<1>1. <<>> \in Seq(Events) /\ <<>> \in Seq(Sent)
  OBVIOUS
<1>2. CASE line.verb \in Spoken
  <2>1. Listeners(b, line).events \in Seq(Events) /\ Listeners(b, line).sends \in Seq(Sent)
    <3>1. (\A h \in Events : <<h>> \in Seq(Events)) /\ (\A s \in Sent : <<s>> \in Seq(Sent))
      OBVIOUS
    <3> QED
      BY <1>1, <1>2, <3>1, ListenersAre
  <2> QED
    BY <1>2, <2>1 DEF Receiving, Handles, Spoken, Emitted, Answered
<1>3. CASE line.verb \notin Spoken
  <2>1. heard' = heard /\ toServer' = toServer
    BY <1>3 DEF Receiving, Handles
  <2>2. heard[b] \o <<>> = heard[b] /\ toServer[b] \o <<>> = toServer[b]
    <3>1. heard[b] \in Seq(Events) /\ toServer[b] \in Seq(Sent)
      BY DEF TypeInv
    <3> QED
      BY <3>1, ConcatEmptySeq
  <2>3. heard' = [heard EXCEPT ![b] = @ \o <<>>] /\ toServer' = [toServer EXCEPT ![b] = @ \o <<>>]
    BY <2>1, <2>2 DEF TypeInv
  <2> QED
    BY <1>1, <1>3, <2>3 DEF Emitted, Answered
<1> QED
  BY <1>2, <1>3

LEMMA SpokenSift ==
  ASSUME NEW U, NEW moving \in Contributes(Relays, U), NEW m \in Relays, moving[m] = <<>>,
         NEW s \in {<<>>, <<m>>, <<m, m>>}
  PROVE  Sift(s, moving) = <<>>
<1>1. PICK e : e = <<m>>
  OBVIOUS
<1>2. e \in Seq(Relays) /\ <<m, m>> = e \o e
  BY <1>1, Doubled
<1>3. Sift(<<>>, moving) = <<>> /\ Sift(e, moving) = <<>>
  BY <1>1, SiftSmall
<1>4. Sift(e \o e, moving) = Sift(e, moving) \o Sift(e, moving)
  BY <1>2, SiftConcat
<1>5. Sift(e \o e, moving) = <<>>
  BY <1>3, <1>4
<1> QED
  BY <1>1, <1>2, <1>3, <1>5

(* What is on its way from c to d: contributed to a sequence by the lines  *)
(* that wait and by those that were relayed. Relaying a line leaves it as  *)
(* it is when the line contributes the same before and after.              *)
Pipe(c, d, waiting, moving) == Sift(toClient[d], moving) ++ Sift(toServer[c], waiting)
Faithful(c, d, waiting, moving) ==
  /\ \A line \in Sent : Relaying(c, line) => Sift(Copied(c, d, line), moving) = waiting[line]
  /\ \A m \in Relays : m.author # c \/ m.verb \notin Spoken => moving[m] = <<>>

LEMMA PipeType ==
  ASSUME TypeInv, NEW U, NEW c \in Clients, NEW d \in Clients,
         NEW waiting \in Contributes(Sent, U), NEW moving \in Contributes(Relays, U)
  PROVE  /\ Pipe(c, d, waiting, moving) \in Seq(U)
         /\ Sift(toClient[d], moving) \in Seq(U) /\ Sift(toServer[c], waiting) \in Seq(U)
<1>1. toClient[d] \in Seq(Relays) /\ toServer[c] \in Seq(Sent)
  BY DEF TypeInv
<1>2. Sift(toClient[d], moving) \in Seq(U) /\ Sift(toServer[c], waiting) \in Seq(U)
  BY <1>1, SiftType
<1> QED
  BY <1>2, JoinType DEF Pipe

LEMMA PipeNext ==
  ASSUME TypeInv', NEW U, NEW c \in Clients, NEW d \in Clients,
         NEW waiting \in Contributes(Sent, U), NEW moving \in Contributes(Relays, U)
  PROVE  Pipe(c, d, waiting, moving)' \in Seq(U)
<1>1. toClient'[d] \in Seq(Relays) /\ toServer'[c] \in Seq(Sent)
  BY DEF TypeInv
<1>2. Sift(toClient'[d], moving) \in Seq(U) /\ Sift(toServer'[c], waiting) \in Seq(U)
  BY <1>1, SiftType
<1> QED
  BY <1>2, JoinType DEF Pipe

(* What c sends comes in.                                                  *)
LEMMA PipeSend ==
  ASSUME TypeInv, NEW U, NEW c \in Clients, NEW d \in Clients,
         NEW waiting \in Contributes(Sent, U), NEW moving \in Contributes(Relays, U),
         NEW b \in Clients, NEW lines \in Seq(Sent), Send(b, lines), toClient'[d] = toClient[d]
  PROVE  Pipe(c, d, waiting, moving)' =
           Pipe(c, d, waiting, moving) ++ (IF b = c THEN Sift(lines, waiting) ELSE <<>>)
<1> DEFINE M == Sift(toClient[d], moving)
           W == Sift(toServer[c], waiting)
<1>1. M \in Seq(U) /\ W \in Seq(U)
  BY PipeType
<1>2. toServer[c] \in Seq(Sent) /\ toServer \in [Clients -> Seq(Sent)]
  BY DEF TypeInv
<1>3. Sift(lines, waiting) \in Seq(U)
  BY SiftType
<1>4. Pipe(c, d, waiting, moving) = M ++ W
      /\ Pipe(c, d, waiting, moving)' = M ++ Sift(toServer'[c], waiting)
  BY DEF Pipe
<1> HIDE DEF M, W
<1>5. CASE b = c
  <2>1. toServer'[c] = toServer[c] \o lines
    BY <1>2, <1>5 DEF Send
  <2>2. Sift(toServer[c] \o lines, waiting) = W ++ Sift(lines, waiting)
    BY <1>2, SiftJoin DEF W
  <2>3. (M ++ W) ++ Sift(lines, waiting) = M ++ (W ++ Sift(lines, waiting))
    BY <1>1, <1>3, JoinMoves
  <2> QED
    BY <1>4, <1>5, <2>1, <2>2, <2>3
<1>6. CASE b # c
  <2>1. toServer'[c] = toServer[c]
    BY <1>2, <1>6 DEF Send
  <2>2. (M ++ W) ++ <<>> = M ++ W
    BY <1>1, JoinType, JoinNone
  <2> QED
    BY <1>4, <1>6, <2>1, <2>2 DEF W
<1> QED
  BY <1>5, <1>6

LEMMA PipeRelay ==
  ASSUME TypeInv, NEW U, NEW c \in Clients, NEW d \in Clients, c # d,
         NEW waiting \in Contributes(Sent, U), NEW moving \in Contributes(Relays, U),
         Faithful(c, d, waiting, moving),
         NEW b \in Clients, NEW line \in Sent, Relaying(b, line)
  PROVE  Pipe(c, d, waiting, moving)' = Pipe(c, d, waiting, moving)
<1> DEFINE M == Sift(toClient[d], moving)
           W == Sift(toServer[c], waiting)
<1>1. M \in Seq(U) /\ W \in Seq(U)
  BY PipeType
<1>2. /\ toClient[d] \in Seq(Relays) /\ toServer[c] \in Seq(Sent)
      /\ toServer \in [Clients -> Seq(Sent)] /\ toServer[b] \in Seq(Sent)
  BY DEF TypeInv
<1>3. Pipe(c, d, waiting, moving) = M ++ W
      /\ Pipe(c, d, waiting, moving)' = Sift(toClient'[d], moving) ++ Sift(toServer'[c], waiting)
  BY DEF Pipe
<1> HIDE DEF M, W
<1>4. PICK copies \in Seq(Relays) : copies = Copied(b, d, line)
  BY CopiedAre
<1>5. /\ toServer' = [toServer EXCEPT ![b] = Tail(@)]
      /\ toServer[b] # <<>> /\ line = Head(toServer[b])
      /\ toClient'[d] = toClient[d] \o copies
  BY <1>4 DEF Relaying
<1>6. PICK x \in Seq(U) : x = Sift(copies, moving)
  BY <1>4, SiftType
<1>7. Sift(toClient'[d], moving) = M ++ x
  <2>1. Sift(toClient[d] \o copies, moving) = M ++ Sift(copies, moving)
    BY <1>2, <1>4, SiftJoin DEF M
  <2> QED
    BY <1>5, <1>6, <2>1
<1>8. PICK w \in Seq(U) : w = Sift(toServer'[c], waiting)
  <2>1. toServer'[c] \in Seq(Sent)
    <3>1. Tail(toServer[b]) \in Seq(Sent)
      BY <1>2, <1>5, HeadAndTail
    <3> QED
      BY <1>2, <1>5, <3>1
  <2> QED
    BY <2>1, SiftType
<1>9. W = x ++ w
  <2>1. CASE b = c
    <3>1. toServer'[c] = Tail(toServer[c]) /\ toServer[c] # <<>> /\ line = Head(toServer[c])
      BY <1>2, <1>5, <2>1
    <3>2. W = waiting[line] ++ w
      <4>1. W = waiting[Head(toServer[c])] ++ Sift(Tail(toServer[c]), waiting)
        BY <1>2, <3>1, SiftJoinHead DEF W
      <4> QED
        BY <1>8, <3>1, <4>1
    <3>3. x = waiting[line]
      BY <1>4, <1>6, <2>1 DEF Faithful
    <3> QED
      BY <3>2, <3>3
  <2>2. CASE b # c
    <3>1. toServer'[c] = toServer[c]
      BY <1>2, <1>5, <2>2
    <3>2. PICK m \in Relays : m = Relayed(b, line) /\ m.author = b
      BY RelayedIs
    <3>3. moving[m] = <<>> /\ copies \in {<<>>, <<m>>, <<m, m>>}
      BY <1>4, <2>2, <3>2, CopiedAre DEF Faithful
    <3>4. x = <<>>
      BY <1>6, <3>3, SpokenSift
    <3> QED
      BY <1>1, <1>8, <3>1, <3>4, JoinNone DEF W
  <2> QED
    BY <2>1, <2>2
<1>10. (M ++ x) ++ w = M ++ (x ++ w)
  <2>1. x \in Seq(U) /\ w \in Seq(U)
    BY <1>6, <1>8
  <2> QED
    BY <1>1, <2>1, JoinMoves
<1> QED
  BY <1>3, <1>7, <1>8, <1>9, <1>10

(* Notices of the server.                                                  *)
Noticing(m) ==
  /\ m.verb \notin Spoken
  /\ \A d \in Clients : toClient'[d] = toClient[d] \/ toClient'[d] = Append(toClient[d], m)
  /\ UNCHANGED <<toServer, said, heard>>

LEMMA HideHostIs ==
  ASSUME TypeInv, NEW b \in Clients, NEW h \in Hosts, HideHost(b, h)
  PROVE  \E m \in Relays : Noticing(m)
<1>1. PICK m \in Relays : m = Notice("396", b, h) /\ m.verb = "396"
  BY NoticeIs
<1>2. \A d \in Clients : toClient'[d] = toClient[d] \/ toClient'[d] = Append(toClient[d], m)
  BY <1>1 DEF HideHost, TypeInv
<1>3. UNCHANGED <<toServer, said, heard>> /\ m.verb \notin Spoken
  BY <1>1 DEF HideHost, Spoken
<1> QED
  BY <1>2, <1>3 DEF Noticing

LEMMA RenameIs ==
  ASSUME TypeInv, NEW b \in Clients, NEW n \in Nicks, Rename(b, n)
  PROVE  \E m \in Relays : Noticing(m)
<1>1. PICK m \in Relays : m = Notice("NICK", b, n) /\ m.verb = "NICK"
  BY NoticeIs
<1>2. \A d \in Clients : toClient'[d] = toClient[d] \/ toClient'[d] = Append(toClient[d], m)
  BY <1>1 DEF Rename
<1>3. UNCHANGED <<toServer, said, heard>> /\ m.verb \notin Spoken
  BY <1>1 DEF Rename, Spoken
<1> QED
  BY <1>2, <1>3 DEF Noticing

LEMMA PipeNotice ==
  ASSUME TypeInv, NEW U, NEW c \in Clients, NEW d \in Clients,
         NEW waiting \in Contributes(Sent, U), NEW moving \in Contributes(Relays, U),
         Faithful(c, d, waiting, moving), NEW m \in Relays, Noticing(m)
  PROVE  Pipe(c, d, waiting, moving)' = Pipe(c, d, waiting, moving)
<1>1. toClient[d] \in Seq(Relays) /\ Sift(toClient[d], moving) \in Seq(U)
  BY PipeType DEF TypeInv
<1>2. moving[m] = <<>>
  BY DEF Faithful, Noticing
<1>3. Sift(Append(toClient[d], m), moving) = Sift(toClient[d], moving) ++ moving[m]
  BY <1>1, SiftJoinOne
<1>4. Sift(toClient'[d], moving) = Sift(toClient[d], moving)
  BY <1>1, <1>2, <1>3, JoinNone DEF Noticing
<1>5. toServer' = toServer
  BY DEF Noticing
<1> QED
  BY <1>4, <1>5 DEF Pipe

(* What d receives comes out, and what c answers comes in.                 *)
LEMMA PipeReceive ==
  ASSUME TypeInv, NEW U, NEW c \in Clients, NEW d \in Clients, c # d,
         NEW waiting \in Contributes(Sent, U), NEW moving \in Contributes(Relays, U),
         NEW b \in Clients, NEW line \in Relays, Receiving(b, line)
  PROVE  IF b = d THEN moving[line] ++ Pipe(c, d, waiting, moving)' = Pipe(c, d, waiting, moving)
         ELSE Pipe(c, d, waiting, moving)' =
                Pipe(c, d, waiting, moving)
                  ++ (IF b = c THEN Sift(Answered(b, line), waiting) ELSE <<>>)
<1>1. /\ Answered(b, line) \in Seq(Sent)
      /\ toServer' = [toServer EXCEPT ![b] = @ \o Answered(b, line)]
  BY HandledIs
<1>2. /\ toClient' = [toClient EXCEPT ![b] = Tail(@)]
      /\ toClient[b] # <<>> /\ line = Head(toClient[b])
  BY DEF Receiving
<1>3. /\ toClient[d] \in Seq(Relays) /\ toClient \in [Clients -> Seq(Relays)]
      /\ toServer \in [Clients -> Seq(Sent)]
  BY DEF TypeInv
<1>4. CASE b = d
  <2>1. toClient'[d] = Tail(toClient[d]) /\ toClient[d] # <<>> /\ line = Head(toClient[d])
    BY <1>2, <1>3, <1>4
  <2>2. toServer'[c] = toServer[c]
    BY <1>1, <1>3, <1>4
  <2>3. PICK m \in Seq(U) : m = Sift(Tail(toClient[d]), moving)
    <3>1. Tail(toClient[d]) \in Seq(Relays)
      BY <1>3, <2>1, HeadAndTail
    <3> QED
      BY <3>1, SiftType
  <2>4. PICK x \in Seq(U) : x = moving[line]
    BY DEF Contributes
  <2>5. Sift(toClient[d], moving) = x ++ m
    <3>1. Sift(toClient[d], moving) = moving[Head(toClient[d])] ++ Sift(Tail(toClient[d]), moving)
      BY <1>3, <2>1, SiftJoinHead
    <3> QED
      BY <2>1, <2>3, <2>4, <3>1
  <2>6. PICK w \in Seq(U) : w = Sift(toServer[c], waiting)
    BY PipeType
  <2>7. (x ++ m) ++ w = x ++ (m ++ w)
    <3>1. x \in Seq(U) /\ m \in Seq(U) /\ w \in Seq(U)
      BY <2>3, <2>4, <2>6
    <3> QED
      BY <3>1, JoinMoves
  <2>8. Pipe(c, d, waiting, moving) = (x ++ m) ++ w
    BY <2>5, <2>6 DEF Pipe
  <2>9. Pipe(c, d, waiting, moving)' = m ++ w
    BY <2>1, <2>2, <2>3, <2>6 DEF Pipe
  <2> QED
    BY <1>4, <2>4, <2>7, <2>8, <2>9
<1>5. CASE b # d
  <2>1. toClient'[d] = toClient[d]
    BY <1>2, <1>3, <1>5
  <2>2. Pipe(c, d, waiting, moving)' =
          Pipe(c, d, waiting, moving) ++ (IF b = c THEN Sift(Answered(b, line), waiting) ELSE <<>>)
    <3>1. PICK sends \in Seq(Sent) : sends = Answered(b, line)
      BY <1>1
    <3>2. Send(b, sends)
      BY <1>1, <3>1 DEF Send
    <3>3. Pipe(c, d, waiting, moving)' =
            Pipe(c, d, waiting, moving) ++ (IF b = c THEN Sift(sends, waiting) ELSE <<>>)
      BY <2>1, <3>2, PipeSend
    <3> QED
      BY <3>1, <3>3
  <2> QED
    BY <1>5, <2>2
<1> QED
  BY <1>4, <1>5


-----------------------------------------------------------------------------
(* What c has said and what d has heard of it: between them is what is on  *)
(* its way.                                                                *)
Saying(c, saying, waiting) ==
  /\ \A s \in Things, lines \in Seq(Sent) : Says(c, s, lines) => Sift(lines, waiting) = saying[s]
  /\ \A s \in Things : s.by # c => saying[s] = <<>>
Conserved(c, d, saying, waiting, moving, hearing) ==
  Sift(heard[d], hearing) ++ Pipe(c, d, waiting, moving) = Sift(said, saying)
Carries(c, d, saying, waiting, moving, hearing) ==
  /\ Saying(c, saying, waiting) /\ Faithful(c, d, waiting, moving)
  /\ \A m \in Relays : Receiving(d, m) => Sift(Emitted(d, m), hearing) = moving[m]
  /\ \A m \in Relays : Receiving(c, m) => Sift(Answered(c, m), waiting) = <<>>

LEMMA SaidStep ==
  ASSUME TypeInv, NEW U, NEW saying \in Contributes(Things, U), NEW b \in Clients,
         NEW s \in Things, NEW lines \in Seq(Sent), Says(b, s, lines)
  PROVE  /\ Sift(said', saying) = Sift(said, saying) ++ saying[s]
         /\ Send(b, lines) /\ UNCHANGED <<heard, toClient>> /\ s.by = b
<1>1. said \in Seq(Things) /\ said' = Append(said, s)
  BY DEF TypeInv, Says
<1>2. Sift(said', saying) = Sift(said, saying) ++ saying[s]
  BY <1>1, SiftJoinOne
<1> QED
  BY <1>2 DEF Says, Send

LEMMA HeardStep ==
  ASSUME TypeInv, NEW U, NEW hearing \in Contributes(Events, U), NEW b \in Clients,
         NEW line \in Relays, Receiving(b, line), NEW d \in Clients
  PROVE  /\ Sift(heard'[d], hearing) =
              Sift(heard[d], hearing) ++ (IF b = d THEN Sift(Emitted(b, line), hearing) ELSE <<>>)
         /\ Sift(Emitted(b, line), hearing) \in Seq(U) /\ said' = said
<1>1. heard \in [Clients -> Seq(Events)] /\ heard[d] \in Seq(Events)
  BY DEF TypeInv
<1>2. PICK events \in Seq(Events) : events = Emitted(b, line) /\ heard' = [heard EXCEPT ![b] = @ \o events]
  BY HandledIs
<1>3. Sift(heard[d], hearing) \in Seq(U) /\ Sift(events, hearing) \in Seq(U)
  BY <1>1, <1>2, SiftType
<1>4. CASE b = d
  <2>1. heard'[d] = heard[d] \o events
    BY <1>1, <1>2, <1>4
  <2>2. Sift(heard[d] \o events, hearing) = Sift(heard[d], hearing) ++ Sift(events, hearing)
    BY <1>1, <1>2, SiftJoin
  <2> QED
    BY <1>2, <1>3, <1>4, <2>1, <2>2 DEF Receiving
<1>5. CASE b # d
  <2>1. heard'[d] = heard[d]
    BY <1>1, <1>2, <1>5
  <2> QED
    BY <1>2, <1>3, <1>5, <2>1, JoinNone DEF Receiving
<1> QED
  BY <1>4, <1>5

LEMMA ConservedStep ==
  ASSUME TypeInv, [Next]_vars, NEW U, NEW c \in Clients, NEW d \in Clients, c # d,
         NEW saying \in Contributes(Things, U), NEW waiting \in Contributes(Sent, U),
         NEW moving \in Contributes(Relays, U), NEW hearing \in Contributes(Events, U),
         Conserved(c, d, saying, waiting, moving, hearing),
         Carries(c, d, saying, waiting, moving, hearing)
  PROVE  Conserved(c, d, saying, waiting, moving, hearing)'
<1> DEFINE H == Sift(heard[d], hearing)
           S == Sift(said, saying)
           P == Pipe(c, d, waiting, moving)
<1>1. H \in Seq(U) /\ P \in Seq(U) /\ S \in Seq(U)
  <2>1. heard[d] \in Seq(Events) /\ said \in Seq(Things)
    BY DEF TypeInv
  <2> QED
    BY <2>1, SiftType, PipeType
<1>2. H ++ P = S
  BY DEF Conserved
<1>3. Faithful(c, d, waiting, moving) /\ Saying(c, saying, waiting)
  BY DEF Carries
<1> SUFFICES H' ++ P' = S'
  BY DEF Conserved
<1> HIDE DEF P
<1>4. CASE Application
  <2>1. PICK b \in Clients, s \in Things, lines \in Seq(Sent) : Says(b, s, lines)
    BY <1>4, ApplicationIs
  <2>2. S' = S ++ saying[s] /\ Send(b, lines) /\ UNCHANGED <<heard, toClient>> /\ s.by = b
    BY <2>1, SaidStep
  <2>3. PICK x \in Seq(U) : x = saying[s]
    BY DEF Contributes
  <2>4. P' = P ++ (IF b = c THEN Sift(lines, waiting) ELSE <<>>)
    BY <2>2, PipeSend DEF P
  <2>5. P' = P ++ x
    BY <1>3, <2>1, <2>2, <2>3, <2>4 DEF Saying
  <2> HIDE DEF S, H
  <2>6. (H ++ P) ++ x = H ++ (P ++ x)
    BY <1>1, <2>3, JoinMoves
  <2>7. H' = H
    BY <2>2 DEF H
  <2> QED
    BY <1>2, <2>2, <2>3, <2>5, <2>6, <2>7
<1>5. ASSUME NEW b \in Clients, Relay(b) PROVE H' ++ P' = S'
  <2>1. PICK line \in Sent : Relaying(b, line)
    BY <1>5, RelayIs
  <2>2. P' = P
    BY <1>3, <2>1, PipeRelay DEF P
  <2> QED
    BY <1>2, <2>1, <2>2 DEF Relaying
<1>6. ASSUME NEW m \in Relays, Noticing(m) PROVE H' ++ P' = S'
  <2>1. P' = P
    BY <1>3, <1>6, PipeNotice DEF P
  <2> QED
    BY <1>2, <1>6, <2>1 DEF Noticing
<1>7. ASSUME NEW b \in Clients, Receive(b) PROVE H' ++ P' = S'
  <2>1. PICK line \in Relays : Receiving(b, line)
    BY <1>7, ReceiveIs
  <2>2. /\ H' = H ++ (IF b = d THEN Sift(Emitted(b, line), hearing) ELSE <<>>)
        /\ S' = S
    BY <2>1, HeardStep
  <2>3. IF b = d THEN moving[line] ++ P' = P
        ELSE P' = P ++ (IF b = c THEN Sift(Answered(b, line), waiting) ELSE <<>>)
    BY <2>1, PipeReceive DEF P
  <2> HIDE DEF S, H
  <2>4. CASE b = d
    <3>1. PICK x \in Seq(U) : x = moving[line]
      BY DEF Contributes
    <3>2. H' = H ++ x
      BY <2>1, <2>2, <2>4, <3>1 DEF Carries
    <3>3. P' \in Seq(U)
      <4>1. TypeInv'
        BY TypeStep
      <4> QED
        BY <4>1, PipeNext DEF P
    <3>4. (H ++ x) ++ P' = H ++ (x ++ P')
      BY <1>1, <3>1, <3>3, JoinMoves
    <3> QED
      BY <1>2, <2>2, <2>3, <2>4, <3>1, <3>2, <3>4
  <2>5. CASE b # d
    <3>1. P' = P ++ <<>> /\ H' = H ++ <<>>
      BY <2>1, <2>2, <2>3, <2>5 DEF Carries
    <3>2. P' = P /\ H' = H
      BY <1>1, <3>1, JoinNone
    <3> QED
      BY <1>2, <2>2, <3>2
  <2> QED
    BY <2>4, <2>5
<1>8. CASE UNCHANGED vars
  BY <1>2, <1>8 DEF vars, P, Pipe
<1>9. ASSUME NEW b \in Clients, NEW h \in Hosts, ShowHost(b, h)
      PROVE  H' ++ P' = S'
  BY <1>2, <1>9 DEF ShowHost, P, Pipe
<1> QED
  BY <1>4, <1>5, <1>6, <1>7, <1>8, <1>9, HideHostIs, RenameIs DEF Next, Server

(* What c has asked and the answers it has heard: between them are the     *)
(* questions on their way to d and the answers on their way back.          *)
Balanced(c, d, saying, waiting, moving, answering, returning, hearing) ==
  Sift(heard[c], hearing) ++ (Pipe(d, c, answering, returning) ++ Pipe(c, d, waiting, moving))
    = Sift(said, saying)
Balances(c, d, saying, waiting, moving, answering, returning, hearing) ==
  /\ Saying(c, saying, waiting)
  /\ Faithful(c, d, waiting, moving) /\ Faithful(d, c, answering, returning)
  /\ \A s \in Things, lines \in Seq(Sent) : Says(d, s, lines) => Sift(lines, answering) = <<>>
  /\ \A m \in Relays : Receiving(d, m) => Sift(Answered(d, m), answering) = moving[m]
  /\ \A m \in Relays : Receiving(c, m) => Sift(Emitted(c, m), hearing) = returning[m]
  /\ \A m \in Relays : Receiving(c, m) => Sift(Answered(c, m), waiting) = <<>>

LEMMA BalancedStep ==
  ASSUME TypeInv, [Next]_vars, NEW U, NEW c \in Clients, NEW d \in Clients, c # d,
         NEW saying \in Contributes(Things, U), NEW waiting \in Contributes(Sent, U),
         NEW moving \in Contributes(Relays, U), NEW answering \in Contributes(Sent, U),
         NEW returning \in Contributes(Relays, U), NEW hearing \in Contributes(Events, U),
         Balanced(c, d, saying, waiting, moving, answering, returning, hearing),
         Balances(c, d, saying, waiting, moving, answering, returning, hearing)
  PROVE  Balanced(c, d, saying, waiting, moving, answering, returning, hearing)'
<1> DEFINE H == Sift(heard[c], hearing)
           S == Sift(said, saying)
           P == Pipe(c, d, waiting, moving)
           Q == Pipe(d, c, answering, returning)
<1>1. H \in Seq(U) /\ P \in Seq(U) /\ Q \in Seq(U) /\ S \in Seq(U)
  <2>1. heard[c] \in Seq(Events) /\ said \in Seq(Things)
    BY DEF TypeInv
  <2> QED
    BY <2>1, SiftType, PipeType
<1>2. H ++ (Q ++ P) = S
  BY DEF Balanced
<1>3. /\ Faithful(c, d, waiting, moving) /\ Faithful(d, c, answering, returning)
      /\ Saying(c, saying, waiting)
  BY DEF Balances
<1> SUFFICES H' ++ (Q' ++ P') = S'
  BY DEF Balanced
<1>9. P' \in Seq(U) /\ Q' \in Seq(U)
  <2>1. TypeInv'
    BY TypeStep
  <2> QED
    BY <2>1, PipeNext
<1> HIDE DEF P, Q
<1>4. CASE Application
  <2>1. PICK b \in Clients, s \in Things, lines \in Seq(Sent) : Says(b, s, lines)
    BY <1>4, ApplicationIs
  <2>2. S' = S ++ saying[s] /\ Send(b, lines) /\ UNCHANGED <<heard, toClient>> /\ s.by = b
    BY <2>1, SaidStep
  <2>3. PICK x \in Seq(U) : x = saying[s]
    BY DEF Contributes
  <2>4. P' = P ++ (IF b = c THEN Sift(lines, waiting) ELSE <<>>)
    BY <2>2, PipeSend DEF P
  <2>5. P' = P ++ x
    BY <1>3, <2>1, <2>2, <2>3, <2>4 DEF Saying
  <2>8. Q' = Q ++ (IF b = d THEN Sift(lines, answering) ELSE <<>>)
    BY <2>2, PipeSend DEF Q
  <2>9. Q' = Q
    <3>1. Q' = Q ++ <<>>
      BY <2>1, <2>8 DEF Balances
    <3> QED
      BY <1>1, <3>1, JoinNone
  <2> HIDE DEF S, H
  <2>6. (H ++ (Q ++ P)) ++ x = H ++ (Q ++ (P ++ x))
    <3>3. Q ++ P \in Seq(U)
      BY <1>1, JoinType
    <3>1. (Q ++ P) ++ x = Q ++ (P ++ x) /\ Q ++ P \in Seq(U)
      BY <1>1, <2>3, <3>3, JoinMoves
    <3>2. (H ++ (Q ++ P)) ++ x = H ++ ((Q ++ P) ++ x)
      BY <1>1, <2>3, <3>1, JoinMoves
    <3> QED
      BY <3>1, <3>2
  <2>7. H' = H
    BY <2>2 DEF H
  <2> QED
    BY <1>2, <2>2, <2>3, <2>5, <2>6, <2>7, <2>9
<1>5. ASSUME NEW b \in Clients, Relay(b) PROVE H' ++ (Q' ++ P') = S'
  <2>1. PICK line \in Sent : Relaying(b, line)
    BY <1>5, RelayIs
  <2>2. P' = P /\ Q' = Q
    BY <1>3, <2>1, PipeRelay DEF P, Q
  <2> QED
    BY <1>2, <2>1, <2>2 DEF Relaying
<1>6. ASSUME NEW m \in Relays, Noticing(m) PROVE H' ++ (Q' ++ P') = S'
  <2>1. P' = P /\ Q' = Q
    BY <1>3, <1>6, PipeNotice DEF P, Q
  <2> QED
    BY <1>2, <1>6, <2>1 DEF Noticing
<1>7. ASSUME NEW b \in Clients, Receive(b) PROVE H' ++ (Q' ++ P') = S'
  <2>1. PICK line \in Relays : Receiving(b, line)
    BY <1>7, ReceiveIs
  <2>2. /\ H' = H ++ (IF b = c THEN Sift(Emitted(b, line), hearing) ELSE <<>>)
        /\ S' = S
    BY <2>1, HeardStep
  <2>3. IF b = d THEN moving[line] ++ P' = P
        ELSE P' = P ++ (IF b = c THEN Sift(Answered(b, line), waiting) ELSE <<>>)
    BY <2>1, PipeReceive DEF P
  <2>4. IF b = c THEN returning[line] ++ Q' = Q
        ELSE Q' = Q ++ (IF b = d THEN Sift(Answered(b, line), answering) ELSE <<>>)
    BY <2>1, PipeReceive DEF Q
  <2> HIDE DEF S, H
  <2>5. CASE b = d
    <3>1. PICK x \in Seq(U) : x = moving[line]
      BY DEF Contributes
    <3>2. Q' = Q ++ x /\ x ++ P' = P /\ H' = H ++ <<>>
      BY <2>1, <2>2, <2>3, <2>4, <2>5, <3>1 DEF Balances
    <3>3. H' = H
      BY <1>1, <3>2, JoinNone
    <3>4. (Q ++ x) ++ P' = Q ++ (x ++ P')
      BY <1>1, <1>9, <3>1, JoinMoves
    <3> QED
      BY <1>2, <2>2, <3>2, <3>3, <3>4
  <2>6. CASE b = c
    <3>1. PICK x \in Seq(U) : x = returning[line]
      BY DEF Contributes
    <3>2. P' = P ++ <<>> /\ x ++ Q' = Q /\ H' = H ++ x
      BY <2>1, <2>2, <2>3, <2>4, <2>6, <3>1 DEF Balances
    <3>3. P' = P
      BY <1>1, <3>2, JoinNone
    <3>6. Q' ++ P \in Seq(U)
      BY <1>1, <1>9, JoinType
    <3>4. (x ++ Q') ++ P = x ++ (Q' ++ P) /\ Q' ++ P \in Seq(U)
      BY <1>1, <1>9, <3>1, <3>6, JoinMoves
    <3>5. (H ++ x) ++ (Q' ++ P) = H ++ (x ++ (Q' ++ P))
      BY <1>1, <3>1, <3>4, JoinMoves
    <3> QED
      BY <1>2, <2>2, <3>2, <3>3, <3>4, <3>5
  <2>7. CASE b # c /\ b # d
    <3>1. P' = P ++ <<>> /\ Q' = Q ++ <<>> /\ H' = H ++ <<>>
      BY <2>2, <2>3, <2>4, <2>7
    <3>2. P' = P /\ Q' = Q /\ H' = H
      BY <1>1, <3>1, JoinNone
    <3> QED
      BY <1>2, <2>2, <3>2
  <2> QED
    BY <2>5, <2>6, <2>7
<1>8. CASE UNCHANGED vars
  BY <1>2, <1>8 DEF vars, P, Q, Pipe
<1>10. ASSUME NEW b \in Clients, NEW h \in Hosts, ShowHost(b, h)
       PROVE  H' ++ (Q' ++ P') = S'
  BY <1>2, <1>10 DEF ShowHost, P, Q, Pipe
<1> QED
  BY <1>4, <1>5, <1>6, <1>7, <1>8, <1>10, HideHostIs, RenameIs DEF Next, Server

-----------------------------------------------------------------------------
(* What is said by c for d, on its way from c to d, and heard of c: for    *)
(* all targets, or only for the channel when nicks may have changed.       *)
SaidFor(c, d, all, f) ==
  [s \in Things |-> IF s.by = c /\ (s.target = Chan \/ (all /\ s.target = d)) THEN f[s] ELSE <<>>]
WaitsFor(d, all, f) ==
  [l \in Sent |-> IF l.target = Chan \/ (all /\ l.target = d) THEN f[l] ELSE <<>>]
MovesFrom(c, all, f) ==
  [m \in Relays |-> IF m.author = c /\ (m.target = Chan \/ all) THEN f[m] ELSE <<>>]
HeardFrom(c, all, f) ==
  [h \in Events |-> IF h.from = c /\ (h.chan \/ all) THEN f[h] ELSE <<>>]

LEMMA ForType ==
  ASSUME NEW U, NEW c, NEW d, NEW all \in BOOLEAN
  PROVE  /\ \A f \in Contributes(Things, U) : SaidFor(c, d, all, f) \in Contributes(Things, U)
         /\ \A f \in Contributes(Sent, U) : WaitsFor(d, all, f) \in Contributes(Sent, U)
         /\ \A f \in Contributes(Relays, U) : MovesFrom(c, all, f) \in Contributes(Relays, U)
         /\ \A f \in Contributes(Events, U) : HeardFrom(c, all, f) \in Contributes(Events, U)
<1>1. <<>> \in Seq(U)
  OBVIOUS
<1> QED
  BY <1>1 DEF Contributes, SaidFor, WaitsFor, MovesFrom, HeardFrom

LEMMA FaithfulIs ==
  ASSUME TypeInv, NEW U, NEW c \in Clients, NEW d \in Clients, c # d, NEW all \in BOOLEAN,
         all => nick[d] = d, NEW w \in Contributes(Sent, U), NEW v \in Contributes(Relays, U),
         \A m \in Relays : m.verb \notin Spoken => v[m] = <<>>,
         \A line \in Sent : Relaying(c, line) =>
            IF Refused(c, line) THEN w[line] = <<>> ELSE v[Relayed(c, line)] = w[line]
  PROVE  Faithful(c, d, WaitsFor(d, all, w), MovesFrom(c, all, v))
<1> DEFINE waiting == WaitsFor(d, all, w)
           moving == MovesFrom(c, all, v)
<1>1. moving \in Contributes(Relays, U)
  BY ForType
<1>2. ASSUME NEW m \in Relays, m.author # c \/ m.verb \notin Spoken PROVE moving[m] = <<>>
  BY <1>2 DEF MovesFrom
<1>3. ASSUME NEW line \in Sent, Relaying(c, line)
      PROVE  Sift(Copied(c, d, line), moving) = waiting[line]
  <2>1. PICK m \in Relays : /\ m = Relayed(c, line) /\ m.author = c /\ m.target = line.target
    BY RelayedIs
  <2>2. waiting[line] = IF line.target = Chan \/ (all /\ line.target = d) THEN w[line] ELSE <<>>
    BY DEF WaitsFor
  <2>3. moving[m] = IF line.target = Chan \/ all THEN v[m] ELSE <<>>
    BY <2>1 DEF MovesFrom
  <2> HIDE DEF waiting, moving
  <2>4. Sift(<<>>, moving) = <<>> /\ Sift(<<m>>, moving) = moving[m]
    BY <1>1, SiftSmall
  <2>5. Copied(c, d, line) = IF /\ ~Refused(c, line)
                                /\ nick[d] = line.target \/ line.target = Chan
                             THEN <<m>> ELSE <<>>
    BY <2>1, CopiedAre
  <2>6. CASE Refused(c, line)
    BY <1>3, <2>2, <2>4, <2>5, <2>6
  <2>7. CASE ~Refused(c, line)
    <3>1. v[m] = w[line]
      BY <1>3, <2>1, <2>7
    <3>2. Copied(c, d, line) = IF nick[d] = line.target \/ line.target = Chan THEN <<m>> ELSE <<>>
      BY <2>5, <2>7
    <3> QED
      BY <2>2, <2>3, <2>4, <3>1, <3>2
  <2> QED
    BY <2>6, <2>7
<1> QED
  BY <1>2, <1>3 DEF Faithful

LEMMA SiftNothing ==
  ASSUME NEW T, NEW U, NEW g \in Contributes(T, U), NEW s \in Seq(T),
         \A i \in 1 .. Len(s) : g[s[i]] = <<>>
  PROVE  Sift(s, g) = <<>>
<1> DEFINE seqs == [i \in DOMAIN s |-> g[s[i]]]
<1>1. seqs \in Seq(Seq(U)) /\ Len(seqs) = Len(s) /\ \A i \in 1 .. Len(s) : seqs[i] = <<>>
  <2>1. <<>> \in Seq(U)
    OBVIOUS
  <2>2. DOMAIN s = 1 .. Len(s) /\ \A i \in 1 .. Len(s) : g[s[i]] \in Seq(U)
    BY DEF Contributes
  <2> QED
    BY <2>2
<1>2. PICK n \in Nat : n = Len(s)
  OBVIOUS
<1> DEFINE f == [i \in 0 .. n |-> <<>>]
<1>3. Flattens(f, U, seqs)
  <2>1. <<>> \in Seq(U) /\ <<>> \o <<>> = <<>>
    BY ConcatEmptySeq
  <2>2. f \in [0 .. n -> Seq(U)] /\ f[0] = <<>> /\ \A i \in 1 .. n : f[i] = <<>> /\ f[i - 1] = <<>>
    BY <2>1
  <2> HIDE DEF seqs, f
  <2>3. Len(seqs) = n /\ \A i \in 1 .. n : f[i] = f[i - 1] \o seqs[i]
    BY <1>1, <1>2, <2>1, <2>2
  <2> QED
    BY <2>2, <2>3 DEF Flattens
<1>4. FlattenSeq(seqs) = f[Len(seqs)]
  <2> HIDE DEF seqs, f
  <2> QED
    BY <1>1, <1>3, FlattenIs
<1>5. f[Len(seqs)] = <<>>
  <2> HIDE DEF seqs
  <2> QED
    BY <1>1, <1>2
<1> QED
  BY <1>4, <1>5 DEF Sift

LEMMA PrefixIs ==
  ASSUME NEW U, NEW s \in Seq(U), NEW t \in Seq(U)
  PROVE  IsPrefix(s, s ++ t)
<1>1. PICK u : u = s \o t
  OBVIOUS
<1>2. /\ u \in Seq(U) /\ Len(u) = Len(s) + Len(t)
      /\ \A i \in 1 .. Len(s) : u[i] = s[i]
  BY <1>1, Concatenates
<1>3. PICK a : a = SubSeq(u, 1, Len(s))
  OBVIOUS
<1>4. /\ a \in Seq(U) /\ Len(a) = Len(s) /\ \A i \in 1 .. Len(s) : a[i] = u[i]
  <2>1. 1 \in 1 .. Len(u) + 1 /\ Len(s) \in 0 .. Len(u)
    BY <1>2
  <2>2. /\ a \in Seq(U) /\ Len(a) = IF 1 <= Len(s) THEN (Len(s) - 1) + 1 ELSE 0
        /\ \A k \in 1 .. (Len(s) - 1) + 1 : a[k] = u[(1 + k) - 1]
    BY <1>2, <1>3, <2>1, Piece
  <2> QED
    BY <2>2
<1>5. a = s
  BY <1>2, <1>4, SeqEqual
<1>6. SubSeq(s, 1, Len(s)) = s
  BY WholePiece
<1> QED
  BY <1>1, <1>2, <1>3, <1>5, <1>6 DEF IsPrefix, ++

-----------------------------------------------------------------------------
(* The answered kinds.                                                     *)
Answerable == {"ping", "version", "time", "clientinfo"}
Asking == [s \in Things |-> SaidQueries(s)]
AskingLine == [l \in Sent |-> IF l.verb = "PRIVMSG" THEN Asked(l.ctcp, l.text) ELSE <<>>]
AskingRelay == [m \in Relays |-> IF m.verb = "PRIVMSG" THEN Asked(m.ctcp, m.text) ELSE <<>>]
Answer(verb, ctcp) == IF verb = "NOTICE" /\ ctcp \in Answerable THEN <<ctcp>> ELSE <<>>
AnsweringLine == [l \in Sent |-> Answer(l.verb, l.ctcp)]
AnsweringRelay == [m \in Relays |-> Answer(m.verb, m.ctcp)]
Hearing == [h \in Events |-> HeardAnswers(h)]

LEMMA AnswerTypes ==
  /\ Asking \in Contributes(Things, Answerable)
  /\ AskingLine \in Contributes(Sent, Answerable)
  /\ AskingRelay \in Contributes(Relays, Answerable)
  /\ AnsweringLine \in Contributes(Sent, Answerable)
  /\ AnsweringRelay \in Contributes(Relays, Answerable)
  /\ Hearing \in Contributes(Events, Answerable)
<1>1. <<>> \in Seq(Answerable) /\ \A k \in Answerable : <<k>> \in Seq(Answerable)
  OBVIOUS
<1>2. ASSUME NEW ctcp, NEW text PROVE Asked(ctcp, text) \in Seq(Answerable)
  <2>1. Asked(ctcp, text) = <<>> \/ (ctcp \in Answerable /\ Asked(ctcp, text) = <<ctcp>>)
    BY DEF Asked, Answerable
  <2> QED
    BY <1>1, <2>1
<1>3. ASSUME NEW verb, NEW ctcp PROVE Answer(verb, ctcp) \in Seq(Answerable)
  BY <1>1 DEF Answer
<1>4. ASSUME NEW h \in Events PROVE HeardAnswers(h) \in Seq(Answerable)
  <2>1. h.event \in DOMAIN AnswerTo => AnswerTo[h.event] \in Answerable
    BY DEF AnswerTo, Answerable
  <2> QED
    BY <1>1, <2>1 DEF HeardAnswers
<1> HIDE DEF Answerable
<1> QED
  BY <1>1, <1>2, <1>3, <1>4
     DEF Contributes, Asking, AskingLine, AskingRelay, AnsweringLine, AnsweringRelay, Hearing, SaidQueries

(* While nobody was renamed, everyone has the nick it began with, by which *)
(* its lines are known.                                                    *)
NamesStay ==
  renames = 0 => \A c \in Clients : /\ nick[c] = c
                                    /\ \A m \in ToSet(toClient[c]) : m.source = m.author

LEMMA NamesInit == Init => NamesStay
<1> SUFFICES ASSUME Init PROVE NamesStay
  OBVIOUS
<1>1. ToSet(<<>>) = {}
  BY DEF ToSet
<1> QED
  BY <1>1 DEF Init, NamesStay

LEMMA NamesStep == TypeInv /\ NamesStay /\ [Next]_vars => NamesStay'
<1> SUFFICES ASSUME TypeInv, NamesStay, [Next]_vars, renames' = 0
             PROVE  \A c \in Clients : /\ nick'[c] = c
                                       /\ \A m \in ToSet(toClient'[c]) : m.source = m.author
  BY DEF NamesStay
<1> DEFINE Goal == \A c \in Clients : /\ nick'[c] = c
                                      /\ \A m \in ToSet(toClient'[c]) : m.source = m.author
<1>1. ASSUME renames = 0 PROVE \A c \in Clients : /\ nick[c] = c
                                                  /\ \A m \in ToSet(toClient[c]) : m.source = m.author
  BY <1>1 DEF NamesStay
<1>2. CASE Application
  <2>1. PICK b \in Clients, s \in Things, lines \in Seq(Sent) : Says(b, s, lines)
    BY <1>2, ApplicationIs
  <2>2. UNCHANGED <<renames, nick, toClient>>
    BY <2>1 DEF Says
  <2> QED
    BY <1>1, <2>2
<1>3. ASSUME NEW b \in Clients, Relay(b) PROVE Goal
  <2>1. PICK line \in Sent : Relaying(b, line)
    BY <1>3, RelayIs
  <2>2. /\ UNCHANGED <<renames, nick>>
        /\ \A c \in Clients : toClient'[c] = toClient[c] \o Copied(b, c, line)
    BY <2>1 DEF Relaying
  <2>3. PICK m \in Relays : m = Relayed(b, line) /\ m.author = b /\ m.source = nick[b]
    BY RelayedIs
  <2>4. ASSUME NEW c \in Clients PROVE \A x \in ToSet(toClient'[c]) : x.source = x.author
    <3>1. PICK copies \in Seq(Relays) : copies = Copied(b, c, line) /\ copies \in {<<>>, <<m>>, <<m, m>>}
      BY <2>3, CopiedAre
    <3>2. ToSet(copies) \subseteq {m}
      BY <3>1 DEF ToSet
    <3>3. toClient[c] \in Seq(Relays)
      BY DEF TypeInv
    <3>4. ToSet(toClient[c] \o copies) = ToSet(toClient[c]) \cup ToSet(copies)
      BY <3>1, <3>3, ConcatElements
    <3>5. \A x \in ToSet(toClient[c]) : x.source = x.author
      BY <1>1, <2>2
    <3>6. m.source = m.author
      BY <1>1, <2>2, <2>3
    <3>7. toClient'[c] = toClient[c] \o copies
      BY <2>2, <3>1
    <3> QED
      BY <3>2, <3>4, <3>5, <3>6, <3>7
  <2> QED
    BY <1>1, <2>2, <2>4
<1>4. ASSUME NEW b \in Clients, NEW h \in Hosts, HideHost(b, h) PROVE Goal
  <2>1. PICK m \in Relays : m = Notice("396", b, h) /\ m.author = b /\ m.source = nick[b]
    BY NoticeIs
  <2>2. /\ UNCHANGED <<renames, nick>>
        /\ \A c \in Clients : toClient'[c] \in {toClient[c], Append(toClient[c], m)}
    BY <1>4, <2>1 DEF HideHost, TypeInv
  <2>3. ASSUME NEW c \in Clients PROVE \A x \in ToSet(toClient'[c]) : x.source = x.author
    <3>1. toClient[c] \in Seq(Relays)
      BY DEF TypeInv
    <3>2. ToSet(Append(toClient[c], m)) = ToSet(toClient[c]) \cup {m}
      BY <3>1, AppendElements
    <3>3. (\A x \in ToSet(toClient[c]) : x.source = x.author) /\ m.source = m.author
      BY <1>1, <2>1, <2>2
    <3> QED
      BY <2>2, <3>2, <3>3
  <2> QED
    BY <1>1, <2>2, <2>3
<1>5. ASSUME NEW b \in Clients, NEW n \in Nicks, Rename(b, n) PROVE Goal
  BY <1>5 DEF Rename, TypeInv
<1>6. ASSUME NEW b \in Clients, Receive(b) PROVE Goal
  <2>1. PICK line \in Relays : Receiving(b, line)
    BY <1>6, ReceiveIs
  <2>2. /\ UNCHANGED <<renames, nick>> /\ toClient[b] # <<>>
        /\ toClient' = [toClient EXCEPT ![b] = Tail(@)]
    BY <2>1 DEF Receiving
  <2>3. ASSUME NEW c \in Clients PROVE ToSet(toClient'[c]) \subseteq ToSet(toClient[c])
    <3>1. PICK q \in Seq(Relays) : q = toClient[c]
      BY DEF TypeInv
    <3>2. q # <<>> => ToSet(Tail(q)) \subseteq ToSet(q)
      <4> SUFFICES ASSUME q # <<>> PROVE ToSet(Tail(q)) \subseteq ToSet(q)
        OBVIOUS
      <4>1. /\ Tail(q) \in Seq(Relays) /\ Len(Tail(q)) = Len(q) - 1
            /\ \A i \in 1 .. Len(q) - 1 : Tail(q)[i] = q[i + 1]
        BY HeadAndTail
      <4>2. PICK t \in Seq(Relays) : t = Tail(q)
        BY <4>1
      <4>3. \A i \in DOMAIN t : i + 1 \in DOMAIN q /\ t[i] = q[i + 1]
        BY <4>1, <4>2
      <4> QED
        BY <4>2, <4>3 DEF ToSet
    <3>3. toClient'[c] = q \/ (q # <<>> /\ toClient'[c] = Tail(q))
      BY <2>2, <3>1 DEF TypeInv
    <3> QED
      BY <3>1, <3>2, <3>3
  <2> QED
    BY <1>1, <2>2, <2>3
<1>7. CASE UNCHANGED vars
  BY <1>1, <1>7 DEF vars
<1>8. ASSUME NEW b \in Clients, NEW h \in Hosts, ShowHost(b, h) PROVE Goal
  BY <1>1, <1>8 DEF ShowHost
<1> QED
  BY <1>2, <1>3, <1>4, <1>5, <1>6, <1>7, <1>8 DEF Next, Server

-----------------------------------------------------------------------------
LEMMA HeardIs ==
  ASSUME NEW name, NEW line, NEW offer, NEW tags
  PROVE  HeardAnswers(Event(name, line, offer, tags)) =
           CASE name = "ctcp_ping_reply" -> <<"ping">>
             [] name = "ctcp_version_reply" -> <<"version">>
             [] name = "ctcp_time_reply" -> <<"time">>
             [] name = "ctcp_clientinfo_reply" -> <<"clientinfo">>
             [] OTHER -> <<>>
<1>1. Event(name, line, offer, tags).event = name
  BY DEF Event
<1> QED
  BY <1>1 DEF HeardAnswers, AnswerTo

(* Which lines are answered, and which events are answers.                 *)
LEMMA AnswersAre ==
  ASSUME NEW c \in Clients, NEW m \in Relays, m.verb \in Spoken
  PROVE  /\ Listeners(c, m).sends = <<>> <=> ~(m.verb = "PRIVMSG" /\ Asked(m.ctcp, m.text) # <<>>)
         /\ Listeners(c, m).events = <<>> => Answer(m.verb, m.ctcp) = <<>>
         /\ \A h : Listeners(c, m).events = <<h>> => HeardAnswers(h) = Answer(m.verb, m.ctcp)
<1> DEFINE Asks == m.verb = "PRIVMSG" /\ Asked(m.ctcp, m.text) # <<>>
           Fine(e) == /\ e.sends = <<>> <=> ~Asks
                      /\ e.events = <<>> => Answer(m.verb, m.ctcp) = <<>>
                      /\ \A h : e.events = <<h>> => HeardAnswers(h) = Answer(m.verb, m.ctcp)
<1>0. m.verb = "TAGMSG" => m.ctcp = "tags"
  BY DEF Relays
<1>1. ASSUME NEW name, NEW offer, NEW tags, NEW e, e.sends = <<>>,
             e.events = <<Event(name, m, offer, tags)>>, ~Asks,
             HeardAnswers(Event(name, m, offer, tags)) = Answer(m.verb, m.ctcp)
      PROVE  Fine(e)
  <2>1. \A h : e.events = <<h>> => h = Event(name, m, offer, tags)
    BY <1>1
  <2>2. e.events # <<>>
    BY <1>1
  <2> HIDE DEF Asks
  <2> QED
    BY <1>1, <2>1, <2>2
<1>2. ASSUME NEW name, NEW reply, Asks,
             HeardAnswers(Event(name, m, NoCmd, {})) = Answer(m.verb, m.ctcp)
      PROVE  Fine(Answers(name, m, reply))
  <2>1. PICK e : e = Answers(name, m, reply)
    OBVIOUS
  <2>2. e.events = <<Event(name, m, NoCmd, {})>> /\ e.sends # <<>>
    BY <2>1 DEF Answers
  <2>3. \A h : e.events = <<h>> => h = Event(name, m, NoCmd, {})
    BY <2>2
  <2>4. e.events # <<>>
    BY <2>2
  <2> HIDE DEF Asks
  <2> QED
    BY <1>2, <2>1, <2>2, <2>3, <2>4
<1>3. ASSUME ~Asks, Answer(m.verb, m.ctcp) = <<>> PROVE Fine(Nothing)
  <2>1. Nothing.sends = <<>> /\ Nothing.events = <<>> /\ \A h : Nothing.events # <<h>>
    BY DEF Nothing
  <2> HIDE DEF Asks
  <2> QED
    BY <1>3, <2>1
<1>4. ASSUME NEW name, ~Asks, HeardAnswers(Event(name, m, NoCmd, {})) = Answer(m.verb, m.ctcp)
      PROVE  Fine(Emits(name, m))
  <2>1. PICK e : e = Emits(name, m)
    OBVIOUS
  <2>2. e.sends = <<>> /\ e.events = <<Event(name, m, NoCmd, {})>>
    BY <2>1 DEF Emits
  <2> HIDE DEF Asks, Fine
  <2>3. Fine(e)
    BY <1>1, <1>4, <2>2
  <2> QED
    BY <2>1, <2>3
<1>20. /\ m.ctcp \in Answerable => Answer(m.verb, m.ctcp) = IF m.verb = "NOTICE" THEN <<m.ctcp>> ELSE <<>>
       /\ m.ctcp \notin Answerable => Answer(m.verb, m.ctcp) = <<>> /\ ~Asks
  BY DEF Answer, Asked, Answerable
<1>21. /\ m.ctcp \in {"version", "time", "clientinfo"} => (Asks <=> m.verb = "PRIVMSG")
       /\ m.ctcp = "ping" => (Asks <=> m.verb = "PRIVMSG" /\ m.text # <<>>)
  <2>1. <<m.ctcp>> # <<>>
    OBVIOUS
  <2> QED
    BY <2>1 DEF Asked
<1>22. m.ctcp \in Answerable => m.verb \in {"PRIVMSG", "NOTICE"}
  BY <1>0 DEF Spoken, Answerable
<1> HIDE DEF Asks, Fine
<1> SUFFICES Fine(Listeners(c, m))
  BY DEF Fine, Asks
<1>5. CASE m.ctcp = "none"
  <2>1. Listeners(c, m) \in {Emits("echo", m), Emits("message", m)}
    BY <1>5 DEF Listeners, OnText
  <2>2. ~Asks /\ Answer(m.verb, m.ctcp) = <<>>
    BY <1>5, <1>20 DEF Answerable
  <2> QED
    BY <1>4, <2>1, <2>2, HeardIs
<1>6. CASE m.ctcp = "action"
  <2>1. Listeners(c, m) \in {Emits("ctcp_action", m), Nothing}
    BY <1>6 DEF Listeners, OnAction
  <2>2. ~Asks /\ Answer(m.verb, m.ctcp) = <<>>
    BY <1>6, <1>20 DEF Answerable
  <2> QED
    BY <1>3, <1>4, <2>1, <2>2, HeardIs
<1>7. CASE m.ctcp = "ping"
  <2>1. Listeners(c, m) = OnPing(m)
    BY <1>7 DEF Listeners
  <2>2. Asks <=> m.verb = "PRIVMSG" /\ m.text # <<>>
    BY <1>7, <1>21
  <2>3. Answer(m.verb, m.ctcp) = IF m.verb = "NOTICE" THEN <<"ping">> ELSE <<>>
    BY <1>7, <1>20 DEF Answerable
  <2>4. CASE m.verb = "NOTICE"
    <3>1. OnPing(m) = Emits("ctcp_ping_reply", m) /\ ~Asks
      BY <2>2, <2>4 DEF OnPing
    <3> QED
      BY <1>4, <2>1, <2>3, <2>4, <3>1, HeardIs
  <2>5. CASE m.verb = "PRIVMSG" /\ m.text # <<>>
    <3>1. OnPing(m) = Answers("ctcp_ping", m, m.text)
      BY <2>5 DEF OnPing
    <3> QED
      BY <1>2, <2>1, <2>2, <2>3, <2>5, <3>1, HeardIs
  <2>6. CASE m.verb = "PRIVMSG" /\ m.text = <<>>
    <3>1. OnPing(m) = Nothing
      BY <2>6 DEF OnPing
    <3> QED
      BY <1>3, <2>1, <2>2, <2>3, <2>6, <3>1
  <2>7. m.verb \in {"PRIVMSG", "NOTICE"}
    BY <1>7, <1>22 DEF Answerable
  <2> QED
    BY <2>4, <2>5, <2>6, <2>7
<1>8. ASSUME NEW k \in {"version", "time", "clientinfo"}, m.ctcp = k, NEW query, NEW reply, NEW answer,
             query \in {"ctcp_version", "ctcp_time", "ctcp_clientinfo"},
             HeardAnswers(Event(answer, m, NoCmd, {})) = <<k>>,
             Listeners(c, m) = IF m.verb = "NOTICE" THEN Emits(answer, m) ELSE Answers(query, m, reply)
      PROVE  Fine(Listeners(c, m))
  <2>1. (Asks <=> m.verb = "PRIVMSG") /\ m.verb \in {"PRIVMSG", "NOTICE"}
    BY <1>8, <1>21, <1>22 DEF Answerable
  <2>2. Answer(m.verb, m.ctcp) = IF m.verb = "NOTICE" THEN <<k>> ELSE <<>>
    BY <1>8, <1>20 DEF Answerable
  <2>3. CASE m.verb = "NOTICE"
    BY <1>4, <1>8, <2>1, <2>2, <2>3
  <2>4. CASE m.verb = "PRIVMSG"
    BY <1>2, <1>8, <2>1, <2>2, <2>4, HeardIs
  <2> QED
    BY <2>1, <2>3, <2>4
<1>9. CASE m.ctcp = "version"
  <2>1. Listeners(c, m) = IF m.verb = "NOTICE" THEN Emits("ctcp_version_reply", m)
                          ELSE Answers("ctcp_version", m, <<"DEFAULT_VERSION">>)
    BY <1>9 DEF Listeners, OnVersion
  <2>4. HeardAnswers(Event("ctcp_version_reply", m, NoCmd, {})) = <<"version">>
    BY HeardIs
  <2>5. m.ctcp \in {"version", "time", "clientinfo"} /\ m.ctcp = "version"
    BY <1>9
  <2> QED
    BY <1>8, <2>1, <2>4, <2>5
<1>10. CASE m.ctcp = "time"
  <2>1. Listeners(c, m) = IF m.verb = "NOTICE" THEN Emits("ctcp_time_reply", m)
                          ELSE Answers("ctcp_time", m, <<"now">>)
    BY <1>10 DEF Listeners, OnTime
  <2>4. HeardAnswers(Event("ctcp_time_reply", m, NoCmd, {})) = <<"time">>
    BY HeardIs
  <2>5. m.ctcp \in {"version", "time", "clientinfo"} /\ m.ctcp = "time"
    BY <1>10
  <2> QED
    BY <1>8, <2>1, <2>4, <2>5
<1>11. CASE m.ctcp = "clientinfo"
  <2>1. Listeners(c, m) = OnClientinfo(m)
    BY <1>11 DEF Listeners
  <2>3. PICK text : text = <<"PING", " ", "TIME", " ", "VERSION">>
    OBVIOUS
  <2>2. OnClientinfo(m) = IF m.verb = "NOTICE" THEN Emits("ctcp_clientinfo_reply", m)
                          ELSE Answers("ctcp_clientinfo", m, text)
    BY <2>3 DEF OnClientinfo
  <2>4. HeardAnswers(Event("ctcp_clientinfo_reply", m, NoCmd, {})) = <<"clientinfo">>
    BY HeardIs
  <2>5. m.ctcp \in {"version", "time", "clientinfo"} /\ m.ctcp = "clientinfo"
    BY <1>11
  <2> QED
    BY <1>8, <2>1, <2>4, <2>5, <2>2
<1>12. CASE m.ctcp = "dcc"
  <2>1. Listeners(c, m) = OnDcc(m)
    BY <1>12 DEF Listeners
  <2>2. ~Asks /\ Answer(m.verb, m.ctcp) = <<>>
    BY <1>12, <1>20 DEF Answerable
  <2> DEFINE e == [events |-> <<Event("dcc", m, CreateDcc(m.text), {})>>, sends |-> <<>>]
  <2>3. OnDcc(m) \in {Nothing, e}
    BY DEF OnDcc
  <2>4. e.sends = <<>> /\ e.events = <<Event("dcc", m, CreateDcc(m.text), {})>>
    OBVIOUS
  <2> HIDE DEF e
  <2>5. HeardAnswers(Event("dcc", m, CreateDcc(m.text), {})) = <<>>
    BY HeardIs
  <2>6. Fine(e)
    BY <1>1, <2>2, <2>4, <2>5
  <2> QED
    BY <1>3, <2>1, <2>2, <2>3, <2>6
<1>13. CASE m.ctcp = "tags"
  <2>1. Listeners(c, m) = OnTagmsg(m)
    BY <1>13 DEF Listeners
  <2>2. ~Asks /\ Answer(m.verb, m.ctcp) = <<>>
    BY <1>13, <1>20 DEF Answerable
  <2>4. OnTagmsg(m).sends = <<>> /\ OnTagmsg(m).events = <<Event("tagmsg", m, NoCmd, ParseTags(m.text))>>
    BY DEF OnTagmsg
  <2>5. HeardAnswers(Event("tagmsg", m, NoCmd, ParseTags(m.text))) = <<>>
    BY HeardIs
  <2>6. Fine(OnTagmsg(m))
    BY <1>1, <2>2, <2>4, <2>5
  <2> QED
    BY <2>1, <2>6
<1>14. CASE m.ctcp \notin {"none", "action", "ping", "version", "time", "clientinfo", "dcc", "tags"}
  <2>1. Listeners(c, m) = Nothing
    BY <1>14 DEF Listeners
  <2>2. ~Asks /\ Answer(m.verb, m.ctcp) = <<>>
    BY <1>14, <1>20 DEF Answerable
  <2> QED
    BY <1>3, <2>1, <2>2
<1> QED
  BY <1>5, <1>6, <1>7, <1>9, <1>10, <1>11, <1>12, <1>13, <1>14

-----------------------------------------------------------------------------
(* What one line brings back, and what it asks.                            *)
LEMMA Answering ==
  ASSUME NEW c \in Clients, NEW d \in Clients, NEW m \in Relays, m.source = m.author
  PROVE  /\ Sift(Answered(d, m), WaitsFor(c, TRUE, AnsweringLine)) = MovesFrom(c, TRUE, AskingRelay)[m]
         /\ Sift(Answered(d, m), WaitsFor(c, TRUE, AskingLine)) = <<>>
<1> DEFINE g == WaitsFor(c, TRUE, AnsweringLine)
           a == WaitsFor(c, TRUE, AskingLine)
<1>1. g \in Contributes(Sent, Answerable) /\ a \in Contributes(Sent, Answerable)
  BY AnswerTypes, ForType
<1>2. MovesFrom(c, TRUE, AskingRelay)[m] =
        IF m.author = c /\ m.verb = "PRIVMSG" THEN Asked(m.ctcp, m.text) ELSE <<>>
  BY DEF MovesFrom, AskingRelay
<1>3. \A s \in Sent : /\ g[s] = IF s.target \in {Chan, c} THEN Answer(s.verb, s.ctcp) ELSE <<>>
                      /\ s.verb = "NOTICE" => a[s] = <<>>
  BY DEF WaitsFor, AnsweringLine, AskingLine
<1> HIDE DEF g, a
<1>4. Sift(<<>>, g) = <<>> /\ Sift(<<>>, a) = <<>>
      /\ \A s \in Sent : Sift(<<s>>, g) = g[s] /\ Sift(<<s>>, a) = a[s]
  BY <1>1, SiftSmall, SiftNone
<1>5. Asked(m.ctcp, m.text) \in {<<>>, <<m.ctcp>>}
  BY DEF Asked
<1>6. CASE m.verb \notin Spoken
  <2>1. Answered(d, m) = <<>> /\ m.verb # "PRIVMSG"
    BY <1>6 DEF Answered, Spoken
  <2> QED
    BY <1>2, <1>4, <2>1 DEF g, a
<1>7. CASE m.verb \in Spoken
  <2>1. Answered(d, m) = Listeners(d, m).sends
    BY <1>7 DEF Answered
  <2>2. Answered(d, m) = <<>> <=> ~(m.verb = "PRIVMSG" /\ Asked(m.ctcp, m.text) # <<>>)
    BY <1>7, <2>1, AnswersAre
  <2>3. CASE Answered(d, m) = <<>>
    BY <1>2, <1>4, <2>2, <2>3 DEF g, a
  <2>4. CASE Answered(d, m) # <<>>
    <3>1. PICK s \in Sent : Answered(d, m) = <<s>> /\ Replies(m, s)
      BY <1>7, <2>1, <2>4, ListenersAre
    <3>2. s.verb = "NOTICE" /\ s.target = m.author /\ s.ctcp = m.ctcp /\ s.ctcp \in Answerable
      BY <3>1 DEF Replies, Answerable
    <3>3. m.author \in Clients /\ m.author # Chan
      BY ChanAssumption DEF Relays
    <3>4. g[s] = (IF m.author = c THEN <<m.ctcp>> ELSE <<>>) /\ a[s] = <<>>
      BY <1>3, <3>2, <3>3 DEF Answer
    <3>5. m.verb = "PRIVMSG" /\ Asked(m.ctcp, m.text) = <<m.ctcp>>
      BY <1>5, <2>2, <2>4
    <3>6. Sift(<<s>>, g) = g[s] /\ Sift(<<s>>, a) = a[s]
      BY <1>4
    <3> QED
      BY <1>2, <3>1, <3>4, <3>5, <3>6 DEF g, a
  <2> QED
    BY <2>3, <2>4
<1> QED
  BY <1>6, <1>7

LEMMA Returning ==
  ASSUME NEW c \in Clients, NEW d \in Clients, NEW m \in Relays
  PROVE  Sift(Emitted(c, m), HeardFrom(d, TRUE, Hearing)) = MovesFrom(d, TRUE, AnsweringRelay)[m]
<1> DEFINE g == HeardFrom(d, TRUE, Hearing)
<1>1. g \in Contributes(Events, Answerable)
  BY AnswerTypes, ForType
<1>2. MovesFrom(d, TRUE, AnsweringRelay)[m] = IF m.author = d THEN Answer(m.verb, m.ctcp) ELSE <<>>
  BY DEF MovesFrom, AnsweringRelay
<1>3. \A h \in Events : g[h] = IF h.from = d THEN HeardAnswers(h) ELSE <<>>
  BY DEF HeardFrom, Hearing
<1> HIDE DEF g
<1>4. Sift(<<>>, g) = <<>> /\ \A h \in Events : Sift(<<h>>, g) = g[h]
  BY <1>1, SiftSmall, SiftNone
<1>5. CASE m.verb \notin Spoken
  <2>1. Emitted(c, m) = <<>> /\ Answer(m.verb, m.ctcp) = <<>>
    BY <1>5 DEF Emitted, Spoken, Answer
  <2> QED
    BY <1>2, <1>4, <2>1 DEF g
<1>6. CASE m.verb \in Spoken
  <2>1. Emitted(c, m) = Listeners(c, m).events
    BY <1>6 DEF Emitted
  <2>2. CASE Emitted(c, m) = <<>>
    <3>1. Answer(m.verb, m.ctcp) = <<>>
      BY <1>6, <2>1, <2>2, AnswersAre
    <3> QED
      BY <1>2, <1>4, <2>2, <3>1 DEF g
  <2>3. CASE Emitted(c, m) # <<>>
    <3>1. PICK h \in Events : Emitted(c, m) = <<h>> /\ Hears(c, m, h)
      BY <1>6, <2>1, <2>3, ListenersAre
    <3>2. h.from = m.author /\ HeardAnswers(h) = Answer(m.verb, m.ctcp)
      BY <1>6, <2>1, <3>1, AnswersAre DEF Hears
    <3>3. Sift(<<h>>, g) = g[h]
      BY <1>4
    <3>4. g[h] = IF m.author = d THEN Answer(m.verb, m.ctcp) ELSE <<>>
      BY <1>3, <3>2
    <3> QED
      BY <1>2, <3>1, <3>3, <3>4 DEF g
  <2> QED
    BY <2>2, <2>3
<1> QED
  BY <1>5, <1>6

(* What is said and the lines of it ask the same, and answer nothing.      *)
LEMMA SaidAsks ==
  ASSUME NEW c \in Clients, NEW d \in Clients, NEW b \in Clients, NEW s \in Things,
         NEW lines \in Seq(Sent), Says(b, s, lines)
  PROVE  /\ Sift(lines, WaitsFor(d, TRUE, AskingLine)) =
              IF s.target \in {Chan, d} THEN SaidQueries(s) ELSE <<>>
         /\ Sift(lines, WaitsFor(d, TRUE, AnsweringLine)) = <<>>
<1> DEFINE g == WaitsFor(d, TRUE, AskingLine)
           a == WaitsFor(d, TRUE, AnsweringLine)
<1>1. g \in Contributes(Sent, Answerable) /\ a \in Contributes(Sent, Answerable)
  BY AnswerTypes, ForType
<1>2. \A l \in Sent : /\ g[l] = IF l.target \in {Chan, d} /\ l.verb = "PRIVMSG"
                                THEN Asked(l.ctcp, l.text) ELSE <<>>
                      /\ l.verb # "NOTICE" \/ l.ctcp \notin Answerable => a[l] = <<>>
  BY DEF WaitsFor, AskingLine, AnsweringLine, Answer
<1> HIDE DEF g, a
<1>3. ASSUME NEW ctcp, ctcp \in {"none", "dcc", "tags"}
      PROVE  /\ \A text : Asked(ctcp, text) = <<>>
             /\ ctcp \notin Answerable
  BY <1>3 DEF Asked, Answerable
<1>4. ASSUME NEW l \in Sent, lines = <<l>>, l.verb # "NOTICE" \/ l.ctcp \notin Answerable
      PROVE  Sift(lines, g) = g[l] /\ Sift(lines, a) = <<>>
  <2>1. Sift(<<l>>, g) = g[l] /\ Sift(<<l>>, a) = a[l]
    BY <1>1, SiftSmall
  <2> QED
    BY <1>2, <1>4, <2>1
<1>5. CASE SaysText(b, s, lines)
  <2>1. PICK parts : /\ lines = [i \in DOMAIN parts |-> TextLine(b, s.verb, s.target, AsSent(parts[i]))]
                     /\ s.ctcp = "none"
    BY <1>5 DEF SaysText
  <2>2. DOMAIN lines = 1 .. Len(lines) /\ \A i \in 1 .. Len(lines) : lines[i] \in Sent
    OBVIOUS
  <2>3. \A i \in 1 .. Len(lines) : lines[i].ctcp = "none"
    BY <2>1, <2>2 DEF TextLine
  <2>4. \A i \in 1 .. Len(lines) : g[lines[i]] = <<>> /\ a[lines[i]] = <<>>
    BY <1>2, <1>3, <2>2, <2>3
  <2>5. Sift(lines, g) = <<>> /\ Sift(lines, a) = <<>>
    BY <1>1, <2>4, SiftNothing
  <2>6. SaidQueries(s) = <<>>
    BY <1>3, <2>1 DEF SaidQueries
  <2> QED
    BY <2>5, <2>6 DEF g, a
<1>6. CASE SaysQuery(s, lines)
  <2>1. PICK l : l = Line("PRIVMSG", s.target, s.ctcp, s.text) /\ lines = <<l>>
    BY <1>6 DEF SaysQuery
  <2>2. l.verb = "PRIVMSG" /\ l.target = s.target /\ l.ctcp = s.ctcp /\ l.text = s.text
    BY <2>1 DEF Line
  <2>3. l \in Sent
    BY <2>1
  <2>4. Sift(lines, g) = g[l] /\ Sift(lines, a) = <<>>
    BY <1>4, <2>1, <2>2, <2>3
  <2>5. g[l] = IF s.target \in {Chan, d} THEN SaidQueries(s) ELSE <<>>
    BY <1>2, <2>2, <2>3 DEF SaidQueries
  <2> QED
    BY <2>4, <2>5 DEF g, a
<1>7. CASE SaysOffer(s, lines) \/ SaysTags(s, lines)
  <2>1. PICK l : /\ lines = <<l>> /\ l.verb # "NOTICE" /\ l.ctcp \in {"dcc", "tags"}
                 /\ s.ctcp = l.ctcp
    BY <1>7 DEF SaysOffer, SaysTags, Line
  <2>2. l \in Sent
    BY <2>1
  <2>3. Sift(lines, g) = g[l] /\ Sift(lines, a) = <<>>
    BY <1>4, <2>1, <2>2
  <2>4. g[l] = <<>> /\ SaidQueries(s) = <<>>
    BY <1>2, <1>3, <2>1, <2>2 DEF SaidQueries
  <2> QED
    BY <2>3, <2>4 DEF g, a
<1> QED
  BY <1>5, <1>6, <1>7 DEF Says

-----------------------------------------------------------------------------
(* While nobody was renamed, the queries of c for d, those on their way and*)
(* the answers on theirs balance.                                          *)
Asks(c, d) ==
  Balanced(c, d, SaidFor(c, d, TRUE, Asking), WaitsFor(d, TRUE, AskingLine),
           MovesFrom(c, TRUE, AskingRelay), WaitsFor(c, TRUE, AnsweringLine),
           MovesFrom(d, TRUE, AnsweringRelay), HeardFrom(d, TRUE, Hearing))
AnswersBalance == renames = 0 => \A c, d \in Clients : c # d => Asks(c, d)

LEMMA RelayAsks ==
  ASSUME TypeInv, NEW c \in Clients, NEW d \in Clients, c # d, nick[d] = d
  PROVE  /\ Faithful(c, d, WaitsFor(d, TRUE, AskingLine), MovesFrom(c, TRUE, AskingRelay))
         /\ Faithful(c, d, WaitsFor(d, TRUE, AnsweringLine), MovesFrom(c, TRUE, AnsweringRelay))
<1>1. /\ AskingLine \in Contributes(Sent, Answerable)
      /\ AskingRelay \in Contributes(Relays, Answerable)
      /\ AnsweringLine \in Contributes(Sent, Answerable)
      /\ AnsweringRelay \in Contributes(Relays, Answerable)
  BY AnswerTypes
<1>2. \A m \in Relays : m.verb \notin Spoken => AskingRelay[m] = <<>> /\ AnsweringRelay[m] = <<>>
  BY DEF AskingRelay, AnsweringRelay, Answer, Spoken
<1>3. ASSUME NEW line \in Sent
      PROVE  /\ IF Refused(c, line) THEN AskingLine[line] = <<>>
                ELSE AskingRelay[Relayed(c, line)] = AskingLine[line]
             /\ IF Refused(c, line) THEN AnsweringLine[line] = <<>>
                ELSE AnsweringRelay[Relayed(c, line)] = AnsweringLine[line]
  <2>1. PICK m \in Relays : /\ m = Relayed(c, line) /\ m.verb = line.verb /\ m.ctcp = line.ctcp
                            /\ line.ctcp # "none" => m.text = Decoded(line.text)
    BY RelayedIs
  <2>2. Decoded(line.text) = <<>> <=> line.text = <<>>
    <3>1. line.text \in Text
      BY DEF Sent
    <3>2. Decoded(line.text) \in Text /\ Len(Decoded(line.text)) = Len(line.text)
      BY <3>1, DecodedType
    <3> QED
      BY <3>1, <3>2 DEF Text
  <2>3. /\ AskingLine[line] = IF line.verb = "PRIVMSG" THEN Asked(line.ctcp, line.text) ELSE <<>>
        /\ AnsweringLine[line] = Answer(line.verb, line.ctcp)
        /\ AskingRelay[m] = IF m.verb = "PRIVMSG" THEN Asked(m.ctcp, m.text) ELSE <<>>
        /\ AnsweringRelay[m] = Answer(m.verb, m.ctcp)
    BY DEF AskingLine, AnsweringLine, AskingRelay, AnsweringRelay
  <2>4. Asked(m.ctcp, m.text) = Asked(line.ctcp, line.text)
    <3>1. CASE line.ctcp = "none"
      BY <2>1, <3>1 DEF Asked
    <3>2. CASE line.ctcp # "none"
      BY <2>1, <2>2, <3>2 DEF Asked
    <3> QED
      BY <3>1, <3>2
  <2>5. Refused(c, line) => Asked(line.ctcp, line.text) = <<>> /\ Answer(line.verb, line.ctcp) = <<>>
    BY DEF Refused, Asked, Answer, Answerable
  <2> QED
    BY <2>1, <2>3, <2>4, <2>5
<1> QED
  BY <1>1, <1>2, <1>3, FaithfulIs

LEMMA AsksBalance ==
  ASSUME TypeInv, NamesStay, renames = 0, NEW c \in Clients, NEW d \in Clients, c # d
  PROVE  Balances(c, d, SaidFor(c, d, TRUE, Asking), WaitsFor(d, TRUE, AskingLine),
                  MovesFrom(c, TRUE, AskingRelay), WaitsFor(c, TRUE, AnsweringLine),
                  MovesFrom(d, TRUE, AnsweringRelay), HeardFrom(d, TRUE, Hearing))
<1>1. nick[c] = c /\ nick[d] = d
  BY DEF NamesStay
<1>2. ASSUME NEW b \in Clients, NEW m \in Relays, Receiving(b, m) PROVE m.source = m.author
  <2>1. toClient[b] \in Seq(Relays) /\ toClient[b] # <<>> /\ m = Head(toClient[b])
    BY <1>2 DEF TypeInv, Receiving
  <2>2. m \in ToSet(toClient[b])
    <3>1. 1 \in DOMAIN toClient[b] /\ m = toClient[b][1]
      BY <2>1
    <3> QED
      BY <3>1 DEF ToSet
  <2> QED
    BY <2>2 DEF NamesStay
<1>3. Saying(c, SaidFor(c, d, TRUE, Asking), WaitsFor(d, TRUE, AskingLine))
  <2>1. \A s \in Things : SaidFor(c, d, TRUE, Asking)[s] =
          IF s.by = c /\ s.target \in {Chan, d} THEN SaidQueries(s) ELSE <<>>
    BY DEF SaidFor, Asking
  <2>2. ASSUME NEW s \in Things, NEW lines \in Seq(Sent), Says(c, s, lines)
        PROVE  Sift(lines, WaitsFor(d, TRUE, AskingLine)) = SaidFor(c, d, TRUE, Asking)[s]
    <3>1. s.by = c
      BY <2>2 DEF Says
    <3> QED
      BY <2>1, <2>2, <3>1, SaidAsks
  <2> QED
    BY <2>1, <2>2 DEF Saying
<1>4. /\ Faithful(c, d, WaitsFor(d, TRUE, AskingLine), MovesFrom(c, TRUE, AskingRelay))
      /\ Faithful(d, c, WaitsFor(c, TRUE, AnsweringLine), MovesFrom(d, TRUE, AnsweringRelay))
  BY <1>1, RelayAsks
<1>5. \A s \in Things, lines \in Seq(Sent) :
        Says(d, s, lines) => Sift(lines, WaitsFor(c, TRUE, AnsweringLine)) = <<>>
  BY SaidAsks
<1>6. \A m \in Relays : Receiving(d, m) =>
        Sift(Answered(d, m), WaitsFor(c, TRUE, AnsweringLine)) = MovesFrom(c, TRUE, AskingRelay)[m]
  BY <1>2, Answering
<1>7. \A m \in Relays : Receiving(c, m) =>
        Sift(Emitted(c, m), HeardFrom(d, TRUE, Hearing)) = MovesFrom(d, TRUE, AnsweringRelay)[m]
  BY Returning
<1>8. \A m \in Relays : Receiving(c, m) =>
        Sift(Answered(c, m), WaitsFor(d, TRUE, AskingLine)) = <<>>
  BY <1>2, Answering
<1> QED
  BY <1>3, <1>4, <1>5, <1>6, <1>7, <1>8 DEF Balances

LEMMA BalanceInit == Init => AnswersBalance
<1> SUFFICES ASSUME Init, NEW c \in Clients, NEW d \in Clients PROVE Asks(c, d)
  BY DEF AnswersBalance
<1>1. said = <<>> /\ heard[c] = <<>> /\ \A b \in Clients : toServer[b] = <<>> /\ toClient[b] = <<>>
  BY DEF Init
<1>2. <<>> ++ (<<>> ++ <<>>) ++ (<<>> ++ <<>>) = <<>> /\ <<>> ++ <<>> = <<>>
  <2>1. <<>> \in Seq(Answerable)
    OBVIOUS
  <2> QED
    BY <2>1, JoinNone
<1> QED
  BY <1>1, <1>2, SiftNone DEF Asks, Balanced, Pipe

LEMMA RenamesStay ==
  ASSUME TypeInv, [Next]_vars, renames' = 0
  PROVE  renames = 0
<1>1. ASSUME NEW b \in Clients, NEW n \in Nicks, Rename(b, n) PROVE FALSE
  BY <1>1 DEF Rename, TypeInv
<1>2. ASSUME NEW b \in Clients, Relay(b) \/ Receive(b) PROVE renames' = renames
  BY <1>2 DEF Relay, Receive
<1>4. ASSUME NEW b \in Clients, NEW h \in Hosts, HideHost(b, h) \/ ShowHost(b, h)
      PROVE  renames' = renames
  BY <1>4 DEF HideHost, ShowHost
<1>3. ASSUME Application PROVE renames' = renames
  <2>1. PICK b \in Clients, s \in Things, lines \in Seq(Sent) : Says(b, s, lines)
    BY <1>3, ApplicationIs
  <2> QED
    BY <2>1 DEF Says
<1> QED
  BY <1>1, <1>2, <1>3, <1>4 DEF Next, Server, vars

LEMMA BalanceStep == TypeInv /\ NamesStay /\ AnswersBalance /\ [Next]_vars => AnswersBalance'
<1> SUFFICES ASSUME TypeInv, NamesStay, AnswersBalance, [Next]_vars, renames' = 0,
                    NEW c \in Clients, NEW d \in Clients, c # d
             PROVE  Asks(c, d)'
  BY DEF AnswersBalance
<1>1. renames = 0
  BY RenamesStay
<1>2. Asks(c, d)
  BY <1>1 DEF AnswersBalance
<1>3. Balances(c, d, SaidFor(c, d, TRUE, Asking), WaitsFor(d, TRUE, AskingLine),
               MovesFrom(c, TRUE, AskingRelay), WaitsFor(c, TRUE, AnsweringLine),
               MovesFrom(d, TRUE, AnsweringRelay), HeardFrom(d, TRUE, Hearing))
  BY <1>1, AsksBalance
<1>4. PICK saying \in Contributes(Things, Answerable), waiting \in Contributes(Sent, Answerable),
           moving \in Contributes(Relays, Answerable), answering \in Contributes(Sent, Answerable),
           returning \in Contributes(Relays, Answerable), hearing \in Contributes(Events, Answerable) :
        /\ saying = SaidFor(c, d, TRUE, Asking) /\ waiting = WaitsFor(d, TRUE, AskingLine)
        /\ moving = MovesFrom(c, TRUE, AskingRelay) /\ answering = WaitsFor(c, TRUE, AnsweringLine)
        /\ returning = MovesFrom(d, TRUE, AnsweringRelay) /\ hearing = HeardFrom(d, TRUE, Hearing)
  BY AnswerTypes, ForType
<1>5. Balanced(c, d, saying, waiting, moving, answering, returning, hearing)
  BY <1>2, <1>4 DEF Asks
<1>6. Balances(c, d, saying, waiting, moving, answering, returning, hearing)
  BY <1>3, <1>4
<1>7. Balanced(c, d, saying, waiting, moving, answering, returning, hearing)'
  BY <1>5, <1>6, BalancedStep
<1> QED
  BY <1>4, <1>7 DEF Asks

-----------------------------------------------------------------------------
(* The sequences of the properties are what the things said and heard      *)
(* contribute.                                                             *)
LEMMA QueriesAre ==
  ASSUME TypeInv, renames = 0, NEW c \in Clients, NEW d \in Clients, c # d
  PROVE  /\ OfSaid(c, d, SaidQueries) = Sift(said, SaidFor(c, d, TRUE, Asking))
         /\ OfHeard(d, c, HeardAnswers) = Sift(heard[c], HeardFrom(d, TRUE, Hearing))
<1>1. /\ \A i \in DOMAIN said : said[i] \in Things
      /\ \A i \in DOMAIN heard[c] : heard[c][i] \in Events
  <2>1. said \in Seq(Things) /\ heard[c] \in Seq(Events)
    BY DEF TypeInv
  <2> QED
    BY <2>1
<1>2. [i \in DOMAIN said |-> IF said[i].by = c /\ c # d /\ Arrives(said[i].target, d)
                             THEN SaidQueries(said[i]) ELSE <<>>]
        = [i \in DOMAIN said |-> SaidFor(c, d, TRUE, Asking)[said[i]]]
  BY <1>1 DEF SaidFor, Asking, Arrives
<1>3. [i \in DOMAIN heard[c] |-> IF heard[c][i].from = d /\ d # c /\ (heard[c][i].chan \/ renames = 0)
                                 THEN HeardAnswers(heard[c][i]) ELSE <<>>]
        = [i \in DOMAIN heard[c] |-> HeardFrom(d, TRUE, Hearing)[heard[c][i]]]
  BY <1>1 DEF HeardFrom, Hearing
<1> QED
  BY <1>2, <1>3 DEF OfSaid, OfHeard, Sift

LEMMA NothingFlat ==
  ASSUME NEW T, NEW s \in Seq(T)
  PROVE  FlattenSeq([i \in DOMAIN s |-> <<>>]) = <<>>
<1> DEFINE g == [e \in T |-> <<>>]
<1>1. g \in Contributes(T, {}) /\ \A i \in 1 .. Len(s) : g[s[i]] = <<>>
  <2>1. <<>> \in Seq({}) /\ \A i \in 1 .. Len(s) : s[i] \in T
    OBVIOUS
  <2> QED
    BY <2>1 DEF Contributes
<1>2. [i \in DOMAIN s |-> <<>>] = [i \in DOMAIN s |-> g[s[i]]]
  <2>1. \A i \in DOMAIN s : s[i] \in T
    OBVIOUS
  <2> QED
    BY <2>1
<1>3. Sift(s, g) = <<>>
  <2> HIDE DEF g
  <2> QED
    BY <1>1, SiftNothing
<1> QED
  BY <1>2, <1>3 DEF Sift

LEMMA ToOneself ==
  ASSUME TypeInv, NEW c \in Clients
  PROVE  OfSaid(c, c, SaidQueries) = <<>> /\ OfHeard(c, c, HeardAnswers) = <<>>
<1>1. said \in Seq(Things) /\ heard[c] \in Seq(Events)
  BY DEF TypeInv
<1>2. /\ [i \in DOMAIN said |-> IF said[i].by = c /\ c # c /\ Arrives(said[i].target, c)
                                THEN SaidQueries(said[i]) ELSE <<>>] = [i \in DOMAIN said |-> <<>>]
      /\ [i \in DOMAIN heard[c] |-> IF heard[c][i].from = c /\ c # c /\ (heard[c][i].chan \/ renames = 0)
                                    THEN HeardAnswers(heard[c][i]) ELSE <<>>]
           = [i \in DOMAIN heard[c] |-> <<>>]
  OBVIOUS
<1>3. FlattenSeq([i \in DOMAIN said |-> <<>>]) = <<>>
  BY <1>1, NothingFlat
<1>4. FlattenSeq([i \in DOMAIN heard[c] |-> <<>>]) = <<>>
  BY <1>1, NothingFlat
<1> QED
  BY <1>2, <1>3, <1>4 DEF OfSaid, OfHeard

LEMMA BalanceAnswers == TypeInv /\ AnswersBalance => AnsweredOnce
<1> SUFFICES ASSUME TypeInv, AnswersBalance, renames = 0, NEW c \in Clients, NEW d \in Clients
             PROVE  /\ IsPrefix(OfHeard(d, c, HeardAnswers), OfSaid(c, d, SaidQueries))
                    /\ Idle => OfHeard(d, c, HeardAnswers) = OfSaid(c, d, SaidQueries)
  BY DEF AnsweredOnce
<1>1. CASE c = d
  <2>1. OfSaid(c, d, SaidQueries) = <<>> /\ OfHeard(d, c, HeardAnswers) = <<>>
    BY <1>1, ToOneself
  <2>2. IsPrefix(<<>>, <<>>)
    BY DEF IsPrefix
  <2> QED
    BY <2>1, <2>2
<1>2. CASE c # d
  <2>1. PICK saying \in Contributes(Things, Answerable), waiting \in Contributes(Sent, Answerable),
             moving \in Contributes(Relays, Answerable), answering \in Contributes(Sent, Answerable),
             returning \in Contributes(Relays, Answerable), hearing \in Contributes(Events, Answerable) :
          /\ saying = SaidFor(c, d, TRUE, Asking) /\ waiting = WaitsFor(d, TRUE, AskingLine)
          /\ moving = MovesFrom(c, TRUE, AskingRelay) /\ answering = WaitsFor(c, TRUE, AnsweringLine)
          /\ returning = MovesFrom(d, TRUE, AnsweringRelay) /\ hearing = HeardFrom(d, TRUE, Hearing)
    BY AnswerTypes, ForType
  <2>2. Balanced(c, d, saying, waiting, moving, answering, returning, hearing)
    BY <1>2, <2>1 DEF AnswersBalance, Asks
  <2>3. PICK H \in Seq(Answerable) : H = Sift(heard[c], hearing)
    <3>1. heard[c] \in Seq(Events)
      BY DEF TypeInv
    <3> QED
      BY <3>1, SiftType
  <2>4. PICK P \in Seq(Answerable), Q \in Seq(Answerable) :
          P = Pipe(c, d, waiting, moving) /\ Q = Pipe(d, c, answering, returning)
    BY PipeType
  <2>5. OfHeard(d, c, HeardAnswers) = H /\ OfSaid(c, d, SaidQueries) = H ++ (Q ++ P)
    BY <1>2, <2>1, <2>2, <2>3, <2>4, QueriesAre DEF Balanced
  <2>6. Q ++ P \in Seq(Answerable)
    BY <2>4, JoinType
  <2>7. IsPrefix(H, H ++ (Q ++ P))
    BY <2>3, <2>6, PrefixIs
  <2>8. ASSUME Idle PROVE H ++ (Q ++ P) = H
    <3>1. toServer[c] = <<>> /\ toClient[c] = <<>> /\ toServer[d] = <<>> /\ toClient[d] = <<>>
      BY <2>8 DEF Idle
    <3>2. <<>> ++ <<>> = <<>>
      <4>1. <<>> \in Seq(Answerable)
        OBVIOUS
      <4> QED
        BY <4>1, JoinNone
    <3>3. P = <<>> /\ Q = <<>>
      BY <2>4, <3>1, <3>2, SiftNone DEF Pipe
    <3> QED
      BY <2>3, <3>2, <3>3, JoinNone
  <2> QED
    BY <2>5, <2>7, <2>8
<1> QED
  BY <1>1, <1>2

(* While nobody is renamed, everyone that a query reaches answers it once: *)
(* the answers c hears of d are of the kinds of its queries, in their      *)
(* order, and all of them once nothing is on its way (ctcp.ts, ping.ts,    *)
(* version.ts, time.ts, clientinfo.ts).                                    *)
THEOREM QueriesAreAnsweredOnce == Spec => []AnsweredOnce
  BY TypeInit, TypeStep, NamesInit, NamesStep, BalanceInit, BalanceStep, BalanceAnswers, PTL DEF Spec

-----------------------------------------------------------------------------
(* The words of a text are what its units contribute.                      *)
Word == [u \in Unit |-> IF u = Space THEN <<>> ELSE <<u>>]

LEMMA WordsAre ==
  /\ Word \in Contributes(Unit, Unit)
  /\ \A text \in Text : Words(text) = Sift(text, Word)
<1>1. Word \in Contributes(Unit, Unit)
  <2>1. \A u \in Unit : <<>> \in Seq(Unit) /\ <<u>> \in Seq(Unit)
    OBVIOUS
  <2> QED
    BY <2>1 DEF Word, Contributes
<1>2. ASSUME NEW text \in Text PROVE Words(text) = Sift(text, Word)
  <2>1. \A i \in DOMAIN text : text[i] \in Unit
    BY DEF Text
  <2>2. [i \in DOMAIN text |-> IF text[i] = Space THEN <<>> ELSE <<text[i]>>]
          = [i \in DOMAIN text |-> Word[text[i]]]
    BY <2>1 DEF Word
  <2> QED
    BY <2>2 DEF Words, Sift
<1> QED
  BY <1>1, <1>2

LEMMA WordsType ==
  ASSUME NEW text \in Text
  PROVE  Words(text) \in Seq(Unit)
  BY WordsAre, SiftType DEF Text

LEMMA BlankWords ==
  ASSUME NEW text \in Text, \A i \in 1 .. Len(text) : text[i] = Space
  PROVE  Words(text) = <<>>
<1>1. text \in Seq(Unit) /\ \A i \in 1 .. Len(text) : text[i] \in Unit
  BY DEF Text
<1>2. \A i \in 1 .. Len(text) : Word[text[i]] = <<>>
  BY <1>1 DEF Word
<1> QED
  BY <1>1, <1>2, WordsAre, SiftNothing

LEMMA WordsJoin ==
  ASSUME NEW s \in Text, NEW t \in Text
  PROVE  Words(s \o t) = Words(s) ++ Words(t) /\ s \o t \in Text
<1>1. s \in Seq(Unit) /\ t \in Seq(Unit)
  BY DEF Text
<1>2. s \o t \in Text
  BY <1>1, Concatenates DEF Text
<1> QED
  BY <1>1, <1>2, WordsAre, SiftJoin

LEMMA CutInTwo ==
  ASSUME NEW text \in Text, NEW n \in 0 .. Len(text)
  PROVE  /\ SubSeq(text, 1, n) \in Text /\ SubSeq(text, n + 1, Len(text)) \in Text
         /\ text = SubSeq(text, 1, n) \o SubSeq(text, n + 1, Len(text))
<1>1. text \in Seq(Unit) /\ Len(text) \in Nat
  BY DEF Text
<1>2. PICK s, t : s = SubSeq(text, 1, n) /\ t = SubSeq(text, n + 1, Len(text))
  OBVIOUS
<1>3. s \in Seq(Unit) /\ Len(s) = n /\ \A k \in 1 .. n : s[k] = text[k]
  <2>1. 1 \in 1 .. Len(text) + 1 /\ n \in 0 .. Len(text)
    BY <1>1
  <2>2. /\ s \in Seq(Unit) /\ Len(s) = IF 1 <= n THEN (n - 1) + 1 ELSE 0
        /\ \A k \in 1 .. (n - 1) + 1 : s[k] = text[(1 + k) - 1]
    BY <1>1, <1>2, <2>1, Piece
  <2> QED
    BY <2>2
<1>4. t \in Seq(Unit) /\ Len(t) = Len(text) - n /\ \A k \in 1 .. Len(text) - n : t[k] = text[n + k]
  <2>1. n + 1 \in 1 .. Len(text) + 1 /\ Len(text) \in 0 .. Len(text)
    BY <1>1
  <2>2. /\ t \in Seq(Unit) /\ Len(t) = IF n + 1 <= Len(text) THEN (Len(text) - (n + 1)) + 1 ELSE 0
        /\ \A k \in 1 .. (Len(text) - (n + 1)) + 1 : t[k] = text[((n + 1) + k) - 1]
    BY <1>1, <1>2, <2>1, Piece
  <2>3. (Len(text) - (n + 1)) + 1 = Len(text) - n
    BY <1>1
  <2>4. ASSUME NEW k \in 1 .. Len(text) - n PROVE t[k] = text[n + k]
    <3>1. ((n + 1) + k) - 1 = n + k
      BY <1>1
    <3>2. t[k] = text[((n + 1) + k) - 1]
      BY <2>2, <2>3
    <3> QED
      BY <3>1, <3>2
  <2>5. Len(t) = Len(text) - n
    BY <1>1, <2>2
  <2> QED
    BY <2>2, <2>4, <2>5
<1>5. text = s \o t
  <2>1. Len(text) = Len(s) + Len(t)
    BY <1>1, <1>3, <1>4
  <2>2. \A i \in 1 .. Len(s) : text[i] = s[i]
    BY <1>3
  <2>3. \A i \in 1 .. Len(t) : text[Len(s) + i] = t[i]
    BY <1>3, <1>4
  <2> QED
    BY <1>1, <1>3, <1>4, <2>1, <2>2, <2>3, IsConcat
<1> QED
  BY <1>2, <1>3, <1>4, <1>5 DEF Text

-----------------------------------------------------------------------------
(* Without halves a piece of a text takes no more bytes than the text.     *)
LEMMA PlainBytes ==
  ASSUME NEW text \in Text, NoHalves(text)
  PROVE  /\ Bytes(text) = Len(text) + Cardinality({i \in 1 .. Len(text) : text[i] = "e"})
         /\ Cardinality({i \in 1 .. Len(text) : text[i] = "e"}) \in Nat
         /\ IsFiniteSet({i \in 1 .. Len(text) : text[i] = "e"})
<1>1. Len(text) \in Nat /\ DOMAIN text = 1 .. Len(text)
  BY DEF Text
<1> DEFINE E == {i \in 1 .. Len(text) : text[i] = "e"}
<1>2. {i \in DOMAIN text : text[i] = "e" \/ Paired(text, i)} = E
  BY <1>1 DEF NoHalves, Paired
<1>3. {i \in Halves(text) : ~Paired(text, i)} = {}
  BY <1>1 DEF NoHalves, Halves
<1>4. IsFiniteSet(E) /\ Cardinality(E) \in Nat
  <2>1. E \in SUBSET (1 .. Len(text))
    OBVIOUS
  <2> HIDE DEF E
  <2>2. IsFiniteSet(1 .. Len(text))
    BY <1>1, FS_Interval
  <2> QED
    BY <2>1, <2>2, FS_Subset, FS_CardinalityType
<1>5. Cardinality({}) = 0
  BY FS_EmptySet
<1>6. Bytes(text) = Len(text) + Cardinality(E) + 2 * 0
  <2>1. Bytes(text) = Len(text) + Cardinality({i \in DOMAIN text : text[i] = "e" \/ Paired(text, i)})
                        + 2 * Cardinality({i \in Halves(text) : ~Paired(text, i)})
    BY DEF Bytes
  <2> HIDE DEF E
  <2> QED
    BY <1>2, <1>3, <1>5, <2>1
<1> QED
  BY <1>1, <1>4, <1>6

LEMMA PieceBytes ==
  ASSUME NEW text \in Text, NoHalves(text),
         NEW i \in 1 .. Len(text) + 1, NEW j \in 0 .. Len(text)
  PROVE  /\ SubSeq(text, i, j) \in Text /\ NoHalves(SubSeq(text, i, j))
         /\ Bytes(SubSeq(text, i, j)) <= Bytes(text)
<1>1. text \in Seq(Unit) /\ Len(text) \in Nat
  BY DEF Text
<1>2. PICK s : s = SubSeq(text, i, j)
  OBVIOUS
<1>3. /\ s \in Seq(Unit) /\ Len(s) = IF i <= j THEN (j - i) + 1 ELSE 0
      /\ \A k \in 1 .. (j - i) + 1 : s[k] = text[(i + k) - 1]
  BY <1>1, <1>2, Piece
<1>4. PICK n \in Nat : n = Len(s)
  <2>1. s \in Seq(Unit)
    BY <1>3
  <2> QED
    BY <2>1
<1>5. /\ n <= Len(text)
      /\ \A k \in 1 .. n : (i + k) - 1 \in 1 .. Len(text) /\ s[k] = text[(i + k) - 1]
  <2>1. i \in Nat /\ j \in Nat /\ i >= 1 /\ j <= Len(text)
        /\ n = IF i <= j THEN (j - i) + 1 ELSE 0
    BY <1>1, <1>3, <1>4
  <2>2. n <= Len(text) /\ \A k \in 1 .. n : (i + k) - 1 \in 1 .. Len(text) /\ k \in 1 .. (j - i) + 1
    BY <1>1, <2>1
  <2> QED
    BY <1>3, <2>2
<1>6. s \in Text /\ NoHalves(s)
  <2>1. \A k \in 1 .. Len(text) : text[k] \notin {"h", "l"}
    BY <1>1 DEF NoHalves
  <2>2. DOMAIN s = 1 .. n
    BY <1>3, <1>4
  <2> QED
    BY <1>3, <1>5, <2>1, <2>2 DEF Text, NoHalves
<1> DEFINE E == {k \in 1 .. Len(text) : text[k] = "e"}
           F == {k \in 1 .. Len(s) : s[k] = "e"}
           f == [k \in F |-> (i + k) - 1]
<1>7. f \in Injection(F, E)
  <2>1. f \in [F -> E]
    BY <1>4, <1>5
  <2>2. \A k, l \in F : f[k] = f[l] => k = l
    OBVIOUS
  <2> QED
    BY <2>1, <2>2 DEF Injection, IsInjective
<1>8. Cardinality(F) <= Cardinality(E)
  <2>1. IsFiniteSet(E)
    BY PlainBytes
  <2> HIDE DEF E, F, f
  <2> QED
    BY <1>7, <2>1, FS_Injection
<1>9. /\ Bytes(s) = Len(s) + Cardinality(F) /\ Cardinality(F) \in Nat
      /\ Bytes(text) = Len(text) + Cardinality(E) /\ Cardinality(E) \in Nat
  BY <1>6, PlainBytes
<1> HIDE DEF E, F
<1>10. Bytes(s) <= Bytes(text)
  BY <1>1, <1>4, <1>5, <1>8, <1>9
<1> QED
  BY <1>2, <1>6, <1>10

LEMMA DecodedPlain ==
  ASSUME NEW text \in Text, NoHalves(text)
  PROVE  Decoded(text) = text
<1>1. text = [i \in DOMAIN text |-> text[i]]
  BY DEF Text
<1>2. \A i \in DOMAIN text : i \notin Halves(text)
  BY DEF NoHalves, Halves
<1> QED
  BY <1>1, <1>2 DEF Decoded

-----------------------------------------------------------------------------
(* A text that does not begin with a space and a colon is read as it was   *)
(* written, but for spaces, and takes no more bytes.                       *)
BeginsWell(text) == ~(Len(text) >= 2 /\ text[1] = Space /\ text[2] = ":")

LEMMA TrimKeeps ==
  ASSUME NEW text \in Text, NoHalves(text)
  PROVE  /\ Words(TrimEnd(text)) = Words(text)
         /\ TrimEnd(text) \in Text /\ NoHalves(TrimEnd(text)) /\ Bytes(TrimEnd(text)) <= Bytes(text)
<1>1. PICK n \in 0 .. Len(text) : /\ TrimEnd(text) = SubSeq(text, 1, n)
                                 /\ \A i \in n + 1 .. Len(text) : text[i] = Space
  BY TrimEndIs
<1>2. text \in Seq(Unit) /\ Len(text) \in Nat
  BY DEF Text
<1>3. 1 \in 1 .. Len(text) + 1
  BY <1>2
<1>4. TrimEnd(text) \in Text /\ NoHalves(TrimEnd(text)) /\ Bytes(TrimEnd(text)) <= Bytes(text)
  BY <1>1, <1>3, PieceBytes
<1>5. PICK s, t : s = SubSeq(text, 1, n) /\ t = SubSeq(text, n + 1, Len(text))
  OBVIOUS
<1>6. s \in Text /\ t \in Text /\ text = s \o t
  BY <1>5, CutInTwo
<1>7. Words(t) = <<>>
  <2>1. n + 1 \in 1 .. Len(text) + 1 /\ Len(text) \in 0 .. Len(text)
    BY <1>2
  <2>2. /\ Len(t) = IF n + 1 <= Len(text) THEN (Len(text) - (n + 1)) + 1 ELSE 0
        /\ \A k \in 1 .. (Len(text) - (n + 1)) + 1 : t[k] = text[((n + 1) + k) - 1]
    BY <1>2, <1>5, <2>1, Piece
  <2>3. ASSUME NEW k \in 1 .. Len(t) PROVE t[k] = Space
    <3>1. k \in 1 .. (Len(text) - (n + 1)) + 1 /\ ((n + 1) + k) - 1 \in n + 1 .. Len(text)
      BY <1>2, <2>2, <2>3
    <3> QED
      BY <1>1, <2>2, <3>1
  <2> QED
    BY <1>6, <2>3, BlankWords
<1>8. Words(text) = Words(s) ++ <<>>
  BY <1>6, <1>7, WordsJoin
<1>9. Words(s) ++ <<>> = Words(s)
  BY <1>6, WordsType, JoinNone
<1> QED
  BY <1>1, <1>4, <1>5, <1>8, <1>9

LEMMA TailKeeps ==
  ASSUME NEW text \in Text, NoHalves(text), text # <<>>, text[1] = Space
  PROVE  /\ Words(Tail(text)) = Words(text)
         /\ Tail(text) \in Text /\ NoHalves(Tail(text)) /\ Bytes(Tail(text)) <= Bytes(text)
<1>1. text \in Seq(Unit) /\ Len(text) \in Nat /\ Len(text) >= 1
  BY DEF Text
<1>2. PICK s, t : s = SubSeq(text, 1, 1) /\ t = SubSeq(text, 2, Len(text))
  OBVIOUS
<1>3. Tail(text) = t
  BY <1>1, <1>2
<1>4. s \in Text /\ t \in Text /\ text = s \o t
  <2>1. 1 \in 0 .. Len(text) /\ 1 + 1 = 2
    BY <1>1
  <2> QED
    BY <1>2, <2>1, CutInTwo
<1>5. NoHalves(t) /\ Bytes(t) <= Bytes(text)
  <2>1. 2 \in 1 .. Len(text) + 1 /\ Len(text) \in 0 .. Len(text)
    BY <1>1
  <2> QED
    BY <1>2, <2>1, PieceBytes
<1>6. Words(s) = <<>>
  <2>1. 1 \in 1 .. Len(text) + 1 /\ 1 \in 0 .. Len(text)
    BY <1>1
  <2>2. Len(s) = 1 /\ s[1] = Space
    BY <1>1, <1>2, <2>1, Piece
  <2>3. \A k \in 1 .. Len(s) : s[k] = Space
    BY <2>2
  <2> QED
    BY <1>4, <2>3, BlankWords
<1>7. Words(text) = <<>> ++ Words(t)
  BY <1>4, <1>6, WordsJoin
<1>8. <<>> ++ Words(t) = Words(t)
  BY <1>4, WordsType, JoinNone
<1> QED
  BY <1>3, <1>4, <1>5, <1>7, <1>8

LEMMA AsSentKeeps ==
  ASSUME NEW text \in Text, NoHalves(text), BeginsWell(text)
  PROVE  /\ Words(AsSent(text)) = Words(text)
         /\ AsSent(text) \in Text /\ NoHalves(AsSent(text)) /\ Bytes(AsSent(text)) <= Bytes(text)
<1>1. CASE Prefixed(text) \/ text = <<>> \/ text[1] # Space
  <2>1. AsSent(text) = TrimEnd(text)
    BY <1>1 DEF AsSent
  <2> QED
    BY <2>1, TrimKeeps
<1>2. CASE ~(Prefixed(text) \/ text = <<>> \/ text[1] # Space)
  <2>1. PICK word : word = Tail(text)
    OBVIOUS
  <2>2. AsSent(text) = IF word # <<>> /\ word[1] = ":" THEN Tail(word) ELSE word
    BY <1>2, <2>1 DEF AsSent
  <2>3. ~(word # <<>> /\ word[1] = ":")
    <3>1. SUFFICES ASSUME word # <<>>, word[1] = ":" PROVE FALSE
      OBVIOUS
    <3>2. text \in Seq(Unit) /\ text # <<>>
      BY <1>2 DEF Text
    <3>3. Len(word) = Len(text) - 1 /\ \A i \in 1 .. Len(text) - 1 : word[i] = text[i + 1]
      BY <2>1, <3>2, HeadAndTail
    <3>4. word \in Seq(Unit)
      BY <2>1, <3>2, HeadAndTail
    <3>5. Len(word) >= 1
      BY <3>1, <3>4
    <3>6. Len(text) >= 2 /\ text[2] = ":"
      BY <3>1, <3>2, <3>3, <3>5
    <3> QED
      BY <1>2, <3>6 DEF BeginsWell
  <2>4. AsSent(text) = Tail(text)
    BY <2>1, <2>2, <2>3
  <2> QED
    BY <1>2, <2>4, TailKeeps
<1> QED
  BY <1>1, <1>2

-----------------------------------------------------------------------------
LEMMA PieceOfPiece ==
  ASSUME NEW T, NEW s \in Seq(T), NEW i \in 1 .. Len(s) + 1, NEW j \in 0 .. Len(s),
         NEW k \in Nat, NEW l \in Nat, k >= 1, i + l <= j + 1, k <= l + 1, i <= j + 1
  PROVE  SubSeq(SubSeq(s, i, j), k, l) = SubSeq(s, (i + k) - 1, (i + l) - 1)
<1>1. PICK m \in Nat : m = Len(s)
  OBVIOUS
<1>2. PICK r : r = SubSeq(s, i, j)
  OBVIOUS
<1>3. /\ i \in Nat /\ j \in Nat /\ i >= 1 /\ j <= m /\ k - 1 <= l /\ l <= (j - i) + 1
  BY <1>1
<1>4. /\ r \in Seq(T) /\ Len(r) = (j - i) + 1 /\ \A x \in 1 .. (j - i) + 1 : r[x] = s[(i + x) - 1]
  <2>1. /\ r \in Seq(T) /\ Len(r) = IF i <= j THEN (j - i) + 1 ELSE 0
        /\ \A x \in 1 .. (j - i) + 1 : r[x] = s[(i + x) - 1]
    BY <1>2, Piece
  <2>2. ~(i <= j) => (j - i) + 1 = 0
    BY <1>3
  <2> QED
    BY <2>1, <2>2
<1>5. PICK a, b \in Nat : a = (i + k) - 1 /\ b = (i + l) - 1
  BY <1>3
<1>6. /\ k \in 1 .. Len(r) + 1 /\ l \in 0 .. Len(r)
      /\ a \in 1 .. Len(s) + 1 /\ b \in 0 .. Len(s) /\ (b - a) + 1 = (l - k) + 1
      /\ a <= b <=> k <= l
  BY <1>1, <1>3, <1>4, <1>5
<1>7. PICK u, v : u = SubSeq(r, k, l) /\ v = SubSeq(s, a, b)
  OBVIOUS
<1>8. /\ u \in Seq(T) /\ Len(u) = IF k <= l THEN (l - k) + 1 ELSE 0
      /\ \A x \in 1 .. (l - k) + 1 : u[x] = r[(k + x) - 1]
  BY <1>4, <1>6, <1>7, Piece
<1>9. /\ v \in Seq(T) /\ Len(v) = IF a <= b THEN (b - a) + 1 ELSE 0
      /\ \A x \in 1 .. (b - a) + 1 : v[x] = s[(a + x) - 1]
  BY <1>6, <1>7, Piece
<1>10. ASSUME NEW x \in 1 .. (l - k) + 1 PROVE u[x] = v[x]
  <2>1. (k + x) - 1 \in 1 .. (j - i) + 1 /\ (i + ((k + x) - 1)) - 1 = (a + x) - 1
    BY <1>3, <1>5
  <2>2. r[(k + x) - 1] = s[(i + ((k + x) - 1)) - 1]
    BY <1>4, <2>1
  <2>3. x \in 1 .. (b - a) + 1
    BY <1>6
  <2> QED
    BY <1>8, <1>9, <2>1, <2>2, <2>3
<1>11. Len(u) = Len(v) /\ \A x \in 1 .. Len(u) : x \in 1 .. (l - k) + 1
  <2>1. Len(u) = Len(v)
    BY <1>6, <1>8, <1>9
  <2>2. CASE k <= l
    <3>1. Len(u) = (l - k) + 1
      BY <1>8, <2>2
    <3> QED
      BY <2>1, <3>1
  <2>3. CASE ~(k <= l)
    <3>1. Len(u) = 0
      BY <1>8, <2>3
    <3> QED
      BY <2>1, <3>1
  <2> QED
    BY <2>2, <2>3
<1>12. u = v
  BY <1>8, <1>9, <1>10, <1>11, SeqEqual
<1> QED
  BY <1>2, <1>5, <1>7, <1>12

-----------------------------------------------------------------------------
(* The parts of a text are read with its words, and fit.                   *)
SentWord == [p \in Text |-> Words(AsSent(p))]
Fit(p, max) == /\ p \in Text /\ NoHalves(p) /\ BeginsWell(p) /\ Bytes(p) <= max
Good(parts, text, max) ==
  /\ parts \in Seq(Text) /\ Sift(parts, SentWord) = Words(text)
  /\ \A k \in 1 .. Len(parts) : Fit(parts[k], max)

LEMMA SentWordType == SentWord \in Contributes(Text, Unit)
  BY AsSentType, WordsType DEF SentWord, Contributes

LEMMA GoodNone ==
  ASSUME NEW max
  PROVE  Good(<<>>, <<>>, max)
<1>1. <<>> \in Seq(Text) /\ <<>> \in Text /\ Len(<<>>) = 0
  BY DEF Text
<1>2. Words(<<>>) = <<>>
  BY <1>1, BlankWords
<1>3. Sift(<<>>, SentWord) = <<>>
  BY SiftNone
<1> QED
  BY <1>1, <1>2, <1>3 DEF Good

LEMMA GoodMore ==
  ASSUME NEW p, NEW parts, NEW text, NEW rest \in Text, NEW max, Fit(p, max), Good(parts, rest, max),
         Words(text) = Words(p) ++ Words(rest)
  PROVE  Good(<<p>> \o parts, text, max)
<1>1. p \in Text /\ NoHalves(p) /\ BeginsWell(p)
  BY DEF Fit
<1>2. PICK one : one = <<p>>
  OBVIOUS
<1>3. one \in Seq(Text) /\ Len(one) = 1 /\ one[1] = p
  BY <1>1, <1>2
<1>4. parts \in Seq(Text) /\ Sift(parts, SentWord) = Words(rest)
      /\ \A k \in 1 .. Len(parts) : Fit(parts[k], max)
  BY DEF Good
<1>5. Sift(one, SentWord) = Words(p)
  <2>1. Sift(one, SentWord) = SentWord[p]
    BY <1>1, <1>2, SentWordType, SiftSmall
  <2>2. SentWord[p] = Words(AsSent(p))
    BY <1>1 DEF SentWord
  <2>3. Words(AsSent(p)) = Words(p)
    BY <1>1, AsSentKeeps
  <2> QED
    BY <2>1, <2>2, <2>3
<1>6. Sift(one \o parts, SentWord) = Words(p) ++ Words(rest)
  BY <1>3, <1>4, <1>5, SentWordType, SiftJoin
<1>7. PICK all : all = one \o parts
  OBVIOUS
<1>8. /\ all \in Seq(Text) /\ Len(all) = 1 + Len(parts) /\ all[1] = p
      /\ \A k \in 1 .. Len(parts) : all[1 + k] = parts[k]
  BY <1>3, <1>4, <1>7, Concatenates
<1>9. ASSUME NEW k \in 1 .. Len(all) PROVE Fit(all[k], max)
  <2>1. CASE k = 1
    BY <1>8, <2>1
  <2>2. CASE k # 1
    <3>1. k - 1 \in 1 .. Len(parts) /\ 1 + (k - 1) = k
      BY <1>4, <1>8, <2>2
    <3>2. all[1 + (k - 1)] = parts[k - 1]
      BY <1>8, <3>1
    <3> QED
      BY <1>4, <3>1, <3>2
  <2> QED
    BY <2>1, <2>2
<1> QED
  BY <1>2, <1>6, <1>7, <1>8, <1>9 DEF Good

LEMMA GoodOne ==
  ASSUME NEW p, NEW max, Fit(p, max)
  PROVE  Good(<<p>>, p, max)
<1>1. p \in Text /\ <<>> \in Text /\ Len(<<>>) = 0
  BY DEF Fit, Text
<1>2. Words(<<>>) = <<>>
  BY <1>1, BlankWords
<1>3. Words(p) = Words(p) ++ Words(<<>>)
  <2>1. Words(p) ++ <<>> = Words(p)
    BY <1>1, WordsType, JoinNone
  <2> QED
    BY <1>2, <2>1
<1>4. Good(<<p>> \o <<>>, p, max)
  BY <1>1, <1>3, GoodNone, GoodMore
<1>5. <<p>> \o <<>> = <<p>>
  BY <1>1, Doubled
<1> QED
  BY <1>4, <1>5

LEMMA RestIs ==
  ASSUME NEW text \in Text, NEW i \in 1 .. Len(text) + 1
  PROVE  /\ Rest(text, i) \in Text /\ Len(Rest(text, i)) = (Len(text) + 1) - i
         /\ \A k \in 1 .. (Len(text) + 1) - i : Rest(text, i)[k] = text[(i + k) - 1]
<1>1. text \in Seq(Unit) /\ Len(text) \in Nat /\ Len(text) \in 0 .. Len(text)
  BY DEF Text
<1>2. PICK r : r = Rest(text, i)
  OBVIOUS
<1>3. /\ r \in Seq(Unit) /\ Len(r) = IF i <= Len(text) THEN (Len(text) - i) + 1 ELSE 0
      /\ \A k \in 1 .. (Len(text) - i) + 1 : r[k] = text[(i + k) - 1]
  BY <1>1, <1>2, Piece DEF Rest
<1>4. (Len(text) - i) + 1 = (Len(text) + 1) - i
  BY <1>1
<1>5. Len(r) = (Len(text) + 1) - i
  BY <1>1, <1>3
<1> QED
  BY <1>2, <1>3, <1>4, <1>5 DEF Text

Starts(text, i) ==
  i = 1 \/ i = Len(text) + 1 \/ text[i] # Space \/ text[i - 1] = Space

LEMMA StartsWell ==
  ASSUME NEW text \in Text, Readable(text), NEW i \in 1 .. Len(text) + 1, Starts(text, i)
  PROVE  NoHalves(Rest(text, i)) /\ BeginsWell(Rest(text, i))
<1>1. text \in Seq(Unit) /\ Len(text) \in Nat /\ Len(text) \in 0 .. Len(text)
  BY DEF Text
<1>2. NoHalves(Rest(text, i))
  BY <1>1, PieceBytes DEF Rest, Readable
<1>3. SUFFICES ASSUME ~BeginsWell(Rest(text, i)) PROVE FALSE
  BY <1>2
<1>4. PICK r : r = Rest(text, i)
  OBVIOUS
<1>5. Len(r) >= 2 /\ r[1] = Space /\ r[2] = ":"
  BY <1>3, <1>4 DEF BeginsWell
<1>6. Len(r) = (Len(text) + 1) - i /\ \A k \in 1 .. (Len(text) + 1) - i : r[k] = text[(i + k) - 1]
  BY <1>4, RestIs
<1>7. i + 1 \in 2 .. Len(text) /\ 1 \in 1 .. (Len(text) + 1) - i /\ 2 \in 1 .. (Len(text) + 1) - i
      /\ (i + 1) - 1 = i /\ (i + 2) - 1 = i + 1 /\ (i + 1) - 2 = i - 1
  BY <1>1, <1>5, <1>6
<1>8. text[i] = Space /\ text[i + 1] = ":"
  BY <1>5, <1>6, <1>7
<1>9. i + 1 > 2 /\ text[i - 1] # Space
  BY <1>7, <1>8 DEF Readable
<1> QED
  BY <1>1, <1>7, <1>8, <1>9 DEF Starts

(* What a cut takes and what it leaves.                                    *)
LEMMA CutKeeps ==
  ASSUME NEW text \in Text, text # <<>>, NoHalves(text), BeginsWell(text),
         NEW max \in Nat, max >= 3, NEW end, NEW next,
         end = Cut(text, max).end, next = Cut(text, max).next
  PROVE  /\ Fit(SubSeq(text, 1, end), max) /\ end \in 1 .. Len(text) /\ next \in 2 .. Len(text) + 1
         /\ Words(text) = Words(SubSeq(text, 1, end)) ++ Words(Rest(text, next))
         /\ next <= Len(text) => text[next] # Space \/ text[next - 1] = Space
<1>1. /\ end \in 1 .. Len(text) /\ end <= CharLimit(text, max) /\ next \in 2 .. Len(text) + 1
      /\ \/ next = end + 1 /\ (next <= Len(text) => text[next] # Space)
         \/ next = end + 2 /\ text[end + 1] = Space
  BY CutIs
<1>2. PICK limit \in 1 .. Len(text) : /\ limit = CharLimit(text, max)
                                      /\ Bytes(SubSeq(text, 1, limit)) <= max
  BY CharLimitIs
<1>3. text \in Seq(Unit) /\ Len(text) \in Nat
  BY DEF Text
<1>4. PICK first, p : first = SubSeq(text, 1, limit) /\ p = SubSeq(text, 1, end)
  OBVIOUS
<1>5. first \in Text /\ NoHalves(first) /\ Len(first) = limit
  <2>1. 1 \in 1 .. Len(text) + 1 /\ limit \in 0 .. Len(text) /\ 1 <= limit
    BY <1>2, <1>3
  <2>2. Len(first) = (limit - 1) + 1
    BY <1>3, <1>4, <2>1, Piece
  <2> QED
    BY <1>2, <1>4, <2>1, <2>2, PieceBytes
<1>6. p = SubSeq(first, 1, end)
  <2>1. 1 \in 1 .. Len(text) + 1 /\ limit \in 0 .. Len(text) /\ end \in Nat /\ 1 \in Nat
        /\ 1 + end <= limit + 1 /\ 1 <= end + 1 /\ 1 <= limit + 1
        /\ (1 + 1) - 1 = 1 /\ (1 + end) - 1 = end
    BY <1>1, <1>2, <1>3
  <2>2. SubSeq(SubSeq(text, 1, limit), 1, end) = SubSeq(text, (1 + 1) - 1, (1 + end) - 1)
    BY <1>3, <2>1, PieceOfPiece
  <2> QED
    BY <1>4, <2>1, <2>2
<1>7. p \in Text /\ NoHalves(p) /\ Bytes(p) <= max
  <2>1. 1 \in 1 .. Len(first) + 1 /\ end \in 0 .. Len(first)
    BY <1>1, <1>2, <1>5
  <2>2. p \in Text /\ NoHalves(p) /\ Bytes(p) <= Bytes(first)
    BY <1>5, <1>6, <2>1, PieceBytes
  <2>3. Bytes(p) \in Nat /\ Bytes(first) \in Nat /\ Bytes(first) <= max
    BY <1>2, <1>4, <1>5, <2>2, BytesType
  <2> QED
    BY <2>2, <2>3
<1>8. BeginsWell(p)
  <2>1. 1 \in 1 .. Len(text) + 1 /\ end \in 0 .. Len(text)
    BY <1>1, <1>3
  <2>2. /\ Len(p) = IF 1 <= end THEN (end - 1) + 1 ELSE 0
        /\ \A k \in 1 .. (end - 1) + 1 : p[k] = text[(1 + k) - 1]
    BY <1>3, <1>4, <2>1, Piece
  <2>3. SUFFICES ASSUME Len(p) >= 2, p[1] = Space, p[2] = ":" PROVE FALSE
    BY DEF BeginsWell
  <2>4. end >= 2 /\ Len(text) >= 2
    BY <1>1, <1>3, <2>2, <2>3
  <2>5. 1 \in 1 .. (end - 1) + 1 /\ 2 \in 1 .. (end - 1) + 1 /\ (1 + 1) - 1 = 1 /\ (1 + 2) - 1 = 2
    BY <1>1, <2>4
  <2>6. text[1] = Space /\ text[2] = ":"
    BY <2>2, <2>3, <2>5
  <2> QED
    BY <2>4, <2>6 DEF BeginsWell
<1>9. Words(text) = Words(p) ++ Words(Rest(text, next))
  <2>1. PICK t : t = Rest(text, end + 1)
    OBVIOUS
  <2>2. t \in Text /\ Words(text) = Words(p) ++ Words(t)
    <3>1. end \in 0 .. Len(text)
      BY <1>1
    <3>2. t \in Text /\ text = p \o t
      BY <1>4, <2>1, <3>1, CutInTwo DEF Rest
    <3> QED
      BY <1>7, <3>2, WordsJoin
  <2>3. CASE next = end + 1
    BY <2>1, <2>2, <2>3
  <2>4. CASE next = end + 2 /\ text[end + 1] = Space
    <3>1. end + 1 \in 1 .. Len(text) + 1 /\ end + 1 <= Len(text)
      BY <1>1, <1>3, <2>4
    <3>2. /\ Len(t) = (Len(text) + 1) - (end + 1)
          /\ \A k \in 1 .. (Len(text) + 1) - (end + 1) : t[k] = text[((end + 1) + k) - 1]
      BY <2>1, <3>1, RestIs
    <3>3. Len(t) >= 1 /\ t[1] = Space
      <4>1. 1 \in 1 .. (Len(text) + 1) - (end + 1) /\ ((end + 1) + 1) - 1 = end + 1
        BY <1>1, <1>3, <3>1
      <4> QED
        BY <1>1, <1>3, <2>4, <3>1, <3>2, <4>1
    <3>4. NoHalves(t)
      <4>1. Len(text) \in 0 .. Len(text)
        BY <1>3
      <4> QED
        BY <2>1, <3>1, <4>1, PieceBytes DEF Rest
    <3>5. Words(Tail(t)) = Words(t)
      <4>1. t # <<>>
        BY <3>3
      <4> QED
        BY <2>2, <3>3, <3>4, <4>1, TailKeeps
    <3>6. Tail(t) = SubSeq(t, 2, Len(t))
      <4>1. t \in Seq(Unit)
        BY <2>2 DEF Text
      <4> QED
        BY <3>3, <4>1
    <3>7. SubSeq(t, 2, Len(t)) = Rest(text, next)
      <4>1. PICK l \in Nat : l = Len(t)
        BY <1>1, <1>3, <3>2, <3>3
      <4>2. PICK e \in Nat, m \in Nat : e = end + 1 /\ m = Len(text)
        BY <1>1, <1>3
      <4>3. e >= 1 /\ e <= m /\ next = e + 1 /\ l = (m + 1) - e /\ l >= 1
        BY <1>1, <2>4, <3>1, <3>2, <3>3, <4>1, <4>2
      <4>4. PICK k \in Nat : k = 2
        OBVIOUS
      <4>5. /\ e \in 1 .. m + 1 /\ m \in 0 .. m /\ k >= 1 /\ e + l <= m + 1
            /\ k <= l + 1 /\ e <= m + 1
        BY <4>1, <4>2, <4>3, <4>4
      <4>6. (e + k) - 1 = next /\ (e + l) - 1 = m
        BY <4>1, <4>2, <4>3, <4>4
      <4>7. SubSeq(SubSeq(text, e, m), k, l) = SubSeq(text, (e + k) - 1, (e + l) - 1)
        <5>1. e \in 1 .. Len(text) + 1 /\ m \in 0 .. Len(text)
          BY <4>2, <4>5
        <5>2. text \in Seq(Unit)
          BY <1>3
        <5> QED
          BY <4>4, <4>5, <5>1, <5>2, PieceOfPiece
      <4> QED
        BY <2>1, <4>1, <4>2, <4>4, <4>6, <4>7 DEF Rest
    <3> QED
      BY <2>2, <3>5, <3>6, <3>7
  <2> QED
    BY <1>1, <2>3, <2>4
<1>10. next <= Len(text) => text[next] # Space \/ text[next - 1] = Space
  <2>1. end + 2 - 1 = end + 1
    BY <1>1
  <2> QED
    BY <1>1, <2>1
<1> QED
  BY <1>1, <1>4, <1>7, <1>8, <1>9, <1>10 DEF Fit

(* The parts of a text, from a place on where one may begin.               *)
LEMMA SplitGood ==
  ASSUME NEW text \in Text, Readable(text), NEW max \in Nat, max >= 3
  PROVE  Good(SplitMessage(text, max), text, max)
<1>1. text \in Seq(Unit) /\ Len(text) \in Nat
  BY DEF Text
<1>2. CASE ~(Bytes(text) > max)
  <2>1. Bytes(text) <= max
    BY <1>2, BytesType
  <2>2. SplitMessage(text, max) = <<text>>
    BY <2>1 DEF SplitMessage
  <2>3. BeginsWell(text)
    <3>1. SUFFICES ASSUME Len(text) >= 2, text[1] = Space, text[2] = ":" PROVE FALSE
      BY DEF BeginsWell
    <3>2. 2 \in 2 .. Len(text) /\ 2 - 1 = 1 /\ ~(2 > 2)
      BY <1>1, <3>1
    <3> QED
      BY <3>1, <3>2 DEF Readable
  <2>4. Fit(text, max)
    BY <2>1, <2>3 DEF Fit, Readable
  <2> QED
    BY <2>2, <2>4, GoodOne
<1>3. ASSUME Bytes(text) > max PROVE Good(SplitMessage(text, max), text, max)
  <2>1. PICK f : Splits(f, text, max) /\ SplitMessage(text, max) = f[1]
    BY <1>3, SplitSteps
  <2>2. PICK n \in Nat : n = Len(text)
    BY <1>1
  <2>3. /\ f[n + 1] = <<>>
        /\ \A i \in 1 .. n :
             f[i] = IF Bytes(Rest(text, i)) <= max THEN <<Rest(text, i)>>
                    ELSE <<SubSeq(Rest(text, i), 1, Cut(Rest(text, i), max).end)>>
                           \o f[i - 1 + Cut(Rest(text, i), max).next]
    BY <2>1, <2>2 DEF Splits
  <2> DEFINE S == {i \in 1 .. n + 1 : Starts(text, i) => Good(f[i], Rest(text, i), max)}
  <2>4. n + 1 \in S
    <3>1. Rest(text, n + 1) \in Text /\ Len(Rest(text, n + 1)) = (n + 1) - (n + 1)
      BY <2>2, RestIs
    <3>2. Rest(text, n + 1) = <<>>
      BY <2>2, <3>1 DEF Text
    <3> QED
      BY <2>3, <3>2, GoodNone
  <2>5. ASSUME NEW i \in 1 .. n, \A j \in i + 1 .. n + 1 : j \in S, Starts(text, i)
        PROVE  Good(f[i], Rest(text, i), max)
    <3>1. PICK r : r = Rest(text, i)
      OBVIOUS
    <3>2. i \in 1 .. Len(text) + 1
      BY <2>2
    <3>3. /\ r \in Text /\ Len(r) = (n + 1) - i
          /\ \A k \in 1 .. (n + 1) - i : r[k] = text[(i + k) - 1]
      BY <2>2, <3>1, <3>2, RestIs
    <3>4. r # <<>>
      BY <3>3
    <3>5. NoHalves(r) /\ BeginsWell(r)
      BY <2>5, <3>1, <3>2, StartsWell
    <3>6. CASE Bytes(r) <= max
      <4>1. f[i] = <<r>>
        BY <2>3, <3>1, <3>6
      <4>2. Fit(r, max)
        BY <3>3, <3>5, <3>6 DEF Fit
      <4> QED
        BY <3>1, <4>1, <4>2, GoodOne
    <3>7. CASE ~(Bytes(r) <= max)
      <4>1. PICK end, next : end = Cut(r, max).end /\ next = Cut(r, max).next
        OBVIOUS
      <4>2. PICK p : p = SubSeq(r, 1, end)
        OBVIOUS
      <4>3. f[i] = <<p>> \o f[i - 1 + next]
        BY <2>3, <3>1, <3>7, <4>1, <4>2
      <4>4. /\ Fit(p, max) /\ next \in 2 .. Len(r) + 1
            /\ Words(r) = Words(p) ++ Words(Rest(r, next))
            /\ next <= Len(r) => r[next] # Space \/ r[next - 1] = Space
        <5>1. r \in Text
          BY <3>3
        <5> QED
          BY <3>4, <3>5, <4>1, <4>2, <5>1, CutKeeps
      <4>5. PICK j \in i + 1 .. n + 1 : j = i - 1 + next
        BY <3>3, <4>4
      <4>6. Rest(r, next) = Rest(text, j)
        <5>1. PICK l \in Nat : l = Len(r)
          BY <3>3
        <5>2. /\ Len(text) \in 0 .. Len(text) /\ next \in Nat /\ next >= 1 /\ i + l <= Len(text) + 1
              /\ next <= l + 1 /\ i <= Len(text) + 1
              /\ (i + next) - 1 = j /\ (i + l) - 1 = Len(text)
          BY <1>1, <2>2, <3>3, <4>4, <4>5, <5>1
        <5>3. SubSeq(SubSeq(text, i, Len(text)), next, l)
                = SubSeq(text, (i + next) - 1, (i + l) - 1)
          BY <1>1, <3>2, <5>1, <5>2, PieceOfPiece
        <5> QED
          BY <3>1, <5>1, <5>2, <5>3 DEF Rest
      <4>7. Starts(text, j)
        <5>1. CASE next <= Len(r)
          <6>1. next \in 1 .. (n + 1) - i /\ next - 1 \in 1 .. (n + 1) - i
            BY <3>3, <4>4, <5>1
          <6>2. (i + next) - 1 = j /\ (i + (next - 1)) - 1 = j - 1
            BY <4>4, <4>5
          <6>3. r[next] = text[j] /\ r[next - 1] = text[j - 1]
            BY <3>3, <6>1, <6>2
          <6> QED
            BY <4>4, <5>1, <6>3 DEF Starts
        <5>2. CASE ~(next <= Len(r))
          <6>1. j = Len(text) + 1
            <7>1. Len(r) = (n + 1) - i /\ next \in 2 .. Len(r) + 1 /\ i \in 1 .. n /\ j = i - 1 + next
              BY <3>3, <4>4, <4>5
            <7>2. next = Len(r) + 1
              BY <5>2, <7>1
            <7> QED
              BY <2>2, <7>1, <7>2
          <6> QED
            BY <6>1 DEF Starts
        <5> QED
          BY <5>1, <5>2
      <4>8. Good(f[j], Rest(text, j), max)
        BY <2>5, <4>5, <4>7
      <4>9. Rest(text, j) \in Text
        <5>1. j \in 1 .. Len(text) + 1
          BY <2>2, <4>5
        <5> QED
          BY <5>1, RestIs
      <4>10. Good(<<p>> \o f[j], r, max)
        BY <4>4, <4>6, <4>8, <4>9, GoodMore
      <4> QED
        BY <3>1, <4>3, <4>5, <4>10
    <3> QED
      BY <3>6, <3>7
  <2>6. 1 \in S
    <3>1. ASSUME NEW i \in 1 .. n, \A j \in i + 1 .. n + 1 : j \in S PROVE i \in S
      BY <2>5, <3>1
    <3>2. 1 \in 1 .. n + 1
      OBVIOUS
    <3> HIDE DEF S
    <3> QED
      BY <2>4, <3>1, <3>2, DownFrom
  <2>7. Good(f[1], Rest(text, 1), max)
    BY <2>6 DEF Starts
  <2>8. Rest(text, 1) = text
    BY <1>1, WholePiece DEF Rest
  <2> QED
    BY <2>1, <2>7, <2>8
<1> QED
  BY <1>2, <1>3

-----------------------------------------------------------------------------
(* The words of what is said, of a line and of what is heard.              *)
TextSaid == [s \in Things |-> SaidWords(s)]
TextWaits == [l \in Sent |-> IF l.ctcp = "none" THEN Words(l.text) ELSE <<>>]
TextMoves == [m \in Relays |-> IF m.ctcp = "none" /\ m.verb \in Spoken THEN Words(m.text) ELSE <<>>]
TextHeard == [h \in Events |-> HeardWords(h)]

LEMMA TextTypes ==
  /\ TextSaid \in Contributes(Things, Unit) /\ TextWaits \in Contributes(Sent, Unit)
  /\ TextMoves \in Contributes(Relays, Unit) /\ TextHeard \in Contributes(Events, Unit)
<1>1. <<>> \in Seq(Unit)
  OBVIOUS
<1>2. ASSUME NEW s \in Things PROVE SaidWords(s) \in Seq(Unit)
  <2>1. s.text \in Text
    BY DEF Things
  <2> QED
    BY <1>1, <2>1, WordsType DEF SaidWords
<1>3. ASSUME NEW l \in Sent PROVE Words(l.text) \in Seq(Unit)
  <2>1. l.text \in Text
    BY DEF Sent
  <2> QED
    BY <2>1, WordsType
<1>4. ASSUME NEW m \in Relays PROVE Words(m.text) \in Seq(Unit)
  <2>1. m.text \in Text
    BY DEF Relays
  <2> QED
    BY <2>1, WordsType
<1>5. ASSUME NEW h \in Events PROVE HeardWords(h) \in Seq(Unit)
  <2>1. h.text \in Text
    BY DEF Events
  <2> QED
    BY <1>1, <2>1, WordsType DEF HeardWords
<1> QED
  BY <1>1, <1>2, <1>3, <1>4, <1>5 DEF Contributes, TextSaid, TextWaits, TextMoves, TextHeard

(* The client counts the host that it was told of, and every text that     *)
(* waits fits in a line whose prefix is what its author had been told of   *)
(* when it cut the text.                                                   *)
HostsFollow == hostname = told
LineFits(l) ==
  l.ctcp = "none" => NoHalves(l.text) /\ Bytes(l.text) <= Room(l.verb, l.target, l.prefix)
LinesFit == \A c \in Clients : \A l \in ToSet(toServer[c]) : LineFits(l)

LEMMA NoElements == ToSet(<<>>) = {}
  BY DEF ToSet

LEMMA TailElements ==
  ASSUME NEW T, NEW q \in Seq(T), q # <<>>
  PROVE  Head(q) \in ToSet(q) /\ Tail(q) \in Seq(T) /\ ToSet(Tail(q)) \subseteq ToSet(q)
<1>1. /\ Tail(q) \in Seq(T) /\ Len(Tail(q)) = Len(q) - 1 /\ Head(q) = q[1]
      /\ \A i \in 1 .. Len(q) - 1 : Tail(q)[i] = q[i + 1]
  BY HeadAndTail
<1>2. PICK t \in Seq(T) : t = Tail(q)
  BY <1>1
<1>3. \A i \in DOMAIN t : i + 1 \in DOMAIN q /\ t[i] = q[i + 1]
  BY <1>1, <1>2
<1>4. 1 \in DOMAIN q
  OBVIOUS
<1> QED
  BY <1>1, <1>2, <1>3, <1>4 DEF ToSet

LEMMA HostsInit == Init => HostsFollow /\ LinesFit
<1> SUFFICES ASSUME Init PROVE HostsFollow /\ LinesFit
  OBVIOUS
<1>1. hostname = told /\ \A c \in Clients : toServer[c] = <<>>
  BY DEF Init
<1> QED
  BY <1>1, NoElements DEF HostsFollow, LinesFit

LEMMA HostsStep == TypeInv /\ HostsFollow /\ [Next]_vars => HostsFollow'
<1> SUFFICES ASSUME TypeInv, HostsFollow, [Next]_vars PROVE HostsFollow'
  OBVIOUS
<1>1. CASE Application
  <2>1. PICK b \in Clients, s \in Things, lines \in Seq(Sent) : Says(b, s, lines)
    BY <1>1, ApplicationIs
  <2> QED
    BY <2>1 DEF Says, HostsFollow
<1>2. CASE Server
  BY <1>2 DEF Server, Relay, HideHost, ShowHost, Rename, HostsFollow
<1>3. ASSUME NEW b \in Clients, Receive(b) PROVE HostsFollow'
  <2>1. PICK line \in Relays : Receiving(b, line)
    BY <1>3, ReceiveIs
  <2> QED
    BY <2>1 DEF Receiving, Handles, HostsFollow
<1>4. CASE UNCHANGED vars
  BY <1>4 DEF vars, HostsFollow
<1> QED
  BY <1>1, <1>2, <1>3, <1>4 DEF Next

-----------------------------------------------------------------------------
(* What carries what is said for d: the lines of it, whatever is answered, *)
(* and what listeners make of the lines of c.                              *)
LEMMA TargetsAre ==
  ASSUME NEW c \in Clients, NEW s \in Things, NEW lines \in Seq(Sent), Says(c, s, lines)
  PROVE  \A i \in 1 .. Len(lines) : lines[i].target = s.target
<1>1. CASE SaysText(c, s, lines)
  <2>1. PICK parts : lines = [i \in DOMAIN parts |-> TextLine(c, s.verb, s.target, AsSent(parts[i]))]
    BY <1>1 DEF SaysText
  <2>2. DOMAIN lines = 1 .. Len(lines) /\ DOMAIN lines = DOMAIN parts
    BY <2>1
  <2> QED
    BY <2>1, <2>2 DEF TextLine
<1>2. CASE SaysQuery(s, lines) \/ SaysOffer(s, lines) \/ SaysTags(s, lines)
  <2>1. PICK l : lines = <<l>> /\ l.target = s.target
    BY <1>2 DEF SaysQuery, SaysOffer, SaysTags, Line
  <2> QED
    BY <2>1
<1> QED
  BY <1>1, <1>2 DEF Says

Included(target, d, all) == target = Chan \/ (all /\ target = d)

LEMMA ForTarget ==
  ASSUME NEW U, NEW d, NEW all \in BOOLEAN, NEW w \in Contributes(Sent, U), NEW lines \in Seq(Sent),
         NEW target, \A i \in 1 .. Len(lines) : lines[i].target = target
  PROVE  Sift(lines, WaitsFor(d, all, w)) =
           IF Included(target, d, all) THEN Sift(lines, w) ELSE <<>>
<1> DEFINE g == WaitsFor(d, all, w)
           For == Included(target, d, all)
<1>1. g \in Contributes(Sent, U)
  BY ForType
<1>2. \A i \in DOMAIN lines : lines[i] \in Sent /\ i \in 1 .. Len(lines)
  OBVIOUS
<1>3. \A i \in DOMAIN lines : g[lines[i]] = IF For THEN w[lines[i]] ELSE <<>>
  BY <1>2 DEF WaitsFor, Included
<1> HIDE DEF g, For
<1>4. CASE For
  <2>1. [i \in DOMAIN lines |-> g[lines[i]]] = [i \in DOMAIN lines |-> w[lines[i]]]
    BY <1>3, <1>4
  <2>2. Sift(lines, g) = Sift(lines, w)
    BY <2>1 DEF Sift
  <2> QED
    BY <1>4, <2>2 DEF g, For
<1>5. CASE ~For
  <2>1. \A i \in 1 .. Len(lines) : g[lines[i]] = <<>>
    BY <1>3, <1>5
  <2>2. Sift(lines, g) = <<>>
    BY <1>1, <2>1, SiftNothing
  <2> QED
    BY <1>5, <2>2 DEF g, For
<1> QED
  BY <1>4, <1>5

LEMMA HearsFrom ==
  ASSUME NEW U, NEW c, NEW d \in Clients, NEW all \in BOOLEAN, NEW m \in Relays,
         NEW v \in Contributes(Relays, U), NEW e \in Contributes(Events, U),
         m.author = c => Sift(Emitted(d, m), e) = v[m]
  PROVE  Sift(Emitted(d, m), HeardFrom(c, all, e)) = MovesFrom(c, all, v)[m]
<1> DEFINE g == HeardFrom(c, all, e)
<1>1. g \in Contributes(Events, U)
  BY ForType
<1>2. MovesFrom(c, all, v)[m] = IF m.author = c /\ (m.target = Chan \/ all) THEN v[m] ELSE <<>>
  BY DEF MovesFrom
<1>3. \A h \in Events : g[h] = IF h.from = c /\ (h.chan \/ all) THEN e[h] ELSE <<>>
  BY DEF HeardFrom
<1> HIDE DEF g
<1>4. Sift(<<>>, g) = <<>> /\ Sift(<<>>, e) = <<>>
      /\ \A h \in Events : Sift(<<h>>, g) = g[h] /\ Sift(<<h>>, e) = e[h]
  BY <1>1, SiftSmall, SiftNone
<1>5. CASE Emitted(d, m) = <<>>
  BY <1>2, <1>4, <1>5 DEF g
<1>6. CASE Emitted(d, m) # <<>>
  <2>1. m.verb \in Spoken /\ Emitted(d, m) = Listeners(d, m).events
    BY <1>6 DEF Emitted
  <2>2. PICK h \in Events : Emitted(d, m) = <<h>> /\ Hears(d, m, h)
    BY <1>6, <2>1, ListenersAre
  <2>3. h.from = m.author /\ h.chan = (m.target = Chan)
    BY <2>2 DEF Hears
  <2>4. Sift(<<h>>, g) = g[h] /\ Sift(<<h>>, e) = e[h]
    BY <1>4
  <2>5. g[h] = IF m.author = c /\ (m.target = Chan \/ all) THEN e[h] ELSE <<>>
    BY <1>3, <2>3
  <2> QED
    BY <1>2, <2>2, <2>4, <2>5 DEF g
<1> QED
  BY <1>5, <1>6

LEMMA AnswersCarryNothing ==
  ASSUME NEW U, NEW c \in Clients, NEW d, NEW all \in BOOLEAN, NEW w \in Contributes(Sent, U),
         \A l \in Sent : l.ctcp \in Answerable => w[l] = <<>>, NEW m \in Relays
  PROVE  Sift(Answered(c, m), WaitsFor(d, all, w)) = <<>>
<1> DEFINE g == WaitsFor(d, all, w)
<1>1. g \in Contributes(Sent, U)
  BY ForType
<1>2. \A l \in Sent : l.ctcp \in Answerable => g[l] = <<>>
  BY DEF WaitsFor
<1> HIDE DEF g
<1>3. CASE Answered(c, m) = <<>>
  BY <1>3, SiftNone DEF g
<1>4. CASE Answered(c, m) # <<>>
  <2>1. m.verb \in Spoken /\ Answered(c, m) = Listeners(c, m).sends
    BY <1>4 DEF Answered
  <2>2. PICK s \in Sent : Answered(c, m) = <<s>> /\ Replies(m, s)
    BY <1>4, <2>1, ListenersAre
  <2>3. g[s] = <<>>
    BY <1>2, <2>2 DEF Replies, Answerable
  <2>4. Sift(<<s>>, g) = g[s]
    BY <1>1, SiftSmall
  <2> QED
    BY <2>2, <2>3, <2>4 DEF g
<1> QED
  BY <1>3, <1>4

LEMMA SayingIs ==
  ASSUME NEW U, NEW c \in Clients, NEW d, NEW all \in BOOLEAN,
         NEW f \in Contributes(Things, U), NEW w \in Contributes(Sent, U),
         \A s \in Things, lines \in Seq(Sent) : Says(c, s, lines) => Sift(lines, w) = f[s]
  PROVE  Saying(c, SaidFor(c, d, all, f), WaitsFor(d, all, w))
<1>0. ASSUME NEW lines \in Seq(Sent), NEW target, \A i \in 1 .. Len(lines) : lines[i].target = target
      PROVE  Sift(lines, WaitsFor(d, all, w)) =
               IF Included(target, d, all) THEN Sift(lines, w) ELSE <<>>
  BY <1>0, ForTarget
<1>1. \A s \in Things : SaidFor(c, d, all, f)[s] =
        IF s.by = c /\ Included(s.target, d, all) THEN f[s] ELSE <<>>
  BY DEF SaidFor, Included
<1>2. ASSUME NEW s \in Things, NEW lines \in Seq(Sent), Says(c, s, lines)
      PROVE  Sift(lines, WaitsFor(d, all, w)) = SaidFor(c, d, all, f)[s]
  <2>1. s.by = c
    BY <1>2 DEF Says
  <2>2. PICK target : target = s.target
    OBVIOUS
  <2>3. \A i \in 1 .. Len(lines) : lines[i].target = target
    BY <1>2, <2>2, TargetsAre
  <2>4. Sift(lines, w) = f[s]
    BY <1>2
  <2>5. Sift(lines, WaitsFor(d, all, w)) =
          IF Included(target, d, all) THEN Sift(lines, w) ELSE <<>>
    BY <1>0, <2>3
  <2> QED
    BY <1>1, <2>1, <2>2, <2>4, <2>5
<1> QED
  BY <1>1, <1>2 DEF Saying

Carrying(c, d, all, f, w, v, e) ==
  Carries(c, d, SaidFor(c, d, all, f), WaitsFor(d, all, w), MovesFrom(c, all, v), HeardFrom(c, all, e))
Conveyed(c, d, all, f, w, v, e) ==
  Conserved(c, d, SaidFor(c, d, all, f), WaitsFor(d, all, w), MovesFrom(c, all, v), HeardFrom(c, all, e))

LEMMA CarriesIs ==
  ASSUME TypeInv, NEW U, NEW c \in Clients, NEW d \in Clients, c # d, NEW all \in BOOLEAN,
         all => nick[d] = d,
         NEW f \in Contributes(Things, U), NEW w \in Contributes(Sent, U),
         NEW v \in Contributes(Relays, U), NEW e \in Contributes(Events, U),
         \A s \in Things, lines \in Seq(Sent) : Says(c, s, lines) => Sift(lines, w) = f[s],
         \A m \in Relays : m.verb \notin Spoken => v[m] = <<>>,
         \A line \in Sent : Relaying(c, line) =>
            IF Refused(c, line) THEN w[line] = <<>> ELSE v[Relayed(c, line)] = w[line],
         \A m \in Relays : Receiving(d, m) /\ m.author = c => Sift(Emitted(d, m), e) = v[m],
         \A l \in Sent : l.ctcp \in Answerable => w[l] = <<>>
  PROVE  Carrying(c, d, all, f, w, v, e)
<1>1. Saying(c, SaidFor(c, d, all, f), WaitsFor(d, all, w))
  BY SayingIs
<1>2. Faithful(c, d, WaitsFor(d, all, w), MovesFrom(c, all, v))
  BY FaithfulIs
<1>3. \A m \in Relays : Receiving(d, m) =>
        Sift(Emitted(d, m), HeardFrom(c, all, e)) = MovesFrom(c, all, v)[m]
  BY HearsFrom
<1>4. \A m \in Relays : Receiving(c, m) => Sift(Answered(c, m), WaitsFor(d, all, w)) = <<>>
  BY AnswersCarryNothing
<1> QED
  BY <1>1, <1>2, <1>3, <1>4 DEF Carries, Carrying

LEMMA ConveyedStep ==
  ASSUME TypeInv, [Next]_vars, NEW U, NEW c \in Clients, NEW d \in Clients, c # d, NEW all \in BOOLEAN,
         NEW f \in Contributes(Things, U), NEW w \in Contributes(Sent, U),
         NEW v \in Contributes(Relays, U), NEW e \in Contributes(Events, U),
         Conveyed(c, d, all, f, w, v, e), Carrying(c, d, all, f, w, v, e)
  PROVE  Conveyed(c, d, all, f, w, v, e)'
<1>1. PICK saying \in Contributes(Things, U), waiting \in Contributes(Sent, U),
           moving \in Contributes(Relays, U), hearing \in Contributes(Events, U) :
        /\ saying = SaidFor(c, d, all, f) /\ waiting = WaitsFor(d, all, w)
        /\ moving = MovesFrom(c, all, v) /\ hearing = HeardFrom(c, all, e)
  BY ForType
<1>2. Conserved(c, d, saying, waiting, moving, hearing)
  BY <1>1 DEF Conveyed
<1>3. Carries(c, d, saying, waiting, moving, hearing)
  BY <1>1 DEF Carrying
<1>4. Conserved(c, d, saying, waiting, moving, hearing)'
  BY <1>2, <1>3, ConservedStep
<1> QED
  BY <1>1, <1>4 DEF Conveyed

LEMMA ConveyedInit ==
  ASSUME Init, NEW U, NEW c \in Clients, NEW d \in Clients, NEW all, NEW f, NEW w, NEW v, NEW e
  PROVE  Conveyed(c, d, all, f, w, v, e)
<1>1. said = <<>> /\ heard[d] = <<>> /\ \A b \in Clients : toServer[b] = <<>> /\ toClient[b] = <<>>
  BY DEF Init
<1>2. <<>> ++ (<<>> ++ <<>>) = <<>>
  <2>1. <<>> \in Seq({})
    OBVIOUS
  <2> QED
    BY <2>1, JoinNone
<1> QED
  BY <1>1, <1>2, SiftNone DEF Conveyed, Conserved, Pipe

(* What was heard is the beginning of what was said, and all of it once    *)
(* nothing is on its way.                                                  *)
LEMMA ConveyedPrefix ==
  ASSUME TypeInv, NEW U, NEW c \in Clients, NEW d \in Clients, NEW all \in BOOLEAN,
         NEW f \in Contributes(Things, U), NEW w \in Contributes(Sent, U),
         NEW v \in Contributes(Relays, U), NEW e \in Contributes(Events, U),
         Conveyed(c, d, all, f, w, v, e),
         NEW H, NEW S, H = Sift(heard[d], HeardFrom(c, all, e)), S = Sift(said, SaidFor(c, d, all, f))
  PROVE  IsPrefix(H, S) /\ (Idle => H = S)
<1>1. PICK waiting \in Contributes(Sent, U), moving \in Contributes(Relays, U),
           hearing \in Contributes(Events, U) :
        /\ waiting = WaitsFor(d, all, w)
        /\ moving = MovesFrom(c, all, v) /\ hearing = HeardFrom(c, all, e)
  BY ForType
<1>2. H \in Seq(U)
  <2>1. heard[d] \in Seq(Events)
    BY DEF TypeInv
  <2>2. Sift(heard[d], hearing) \in Seq(U)
    BY <2>1, SiftType
  <2> QED
    BY <1>1, <2>2
<1>3. PICK P \in Seq(U) : P = Pipe(c, d, waiting, moving)
  BY PipeType
<1>4. S = H ++ P
  BY <1>1, <1>3 DEF Conveyed, Conserved
<1>5. IsPrefix(H, H ++ P)
  BY <1>2, <1>3, PrefixIs
<1>6. ASSUME Idle PROVE H ++ P = H
  <2>1. toServer[c] = <<>> /\ toClient[d] = <<>>
    BY <1>6 DEF Idle
  <2>2. <<>> ++ <<>> = <<>>
    <3>1. <<>> \in Seq(U)
      OBVIOUS
    <3> QED
      BY <3>1, JoinNone
  <2>3. P = <<>>
    BY <1>3, <2>1, <2>2, SiftNone DEF Pipe
  <2> QED
    BY <1>2, <2>3, JoinNone
<1> QED
  BY <1>4, <1>5, <1>6

-----------------------------------------------------------------------------
(* The lines of a text have its words, and fit.                            *)
LEMMA SaysWords ==
  ASSUME PlainSayings, TypeInv, HostsFollow, NEW c \in Clients, NEW s \in Things,
         NEW lines \in Seq(Sent), Says(c, s, lines)
  PROVE  /\ Sift(lines, TextWaits) = SaidWords(s)
         /\ \A i \in 1 .. Len(lines) : LineFits(lines[i])
<1>1. CASE SaysText(c, s, lines)
  <2>1. PICK command \in Commands, text \in Sayings :
          /\ s.ctcp = "none" /\ s.verb = Verbs[command] /\ s.text = text
          /\ lines = [i \in DOMAIN Parts(c, command, s.target, text) |->
                        TextLine(c, s.verb, s.target, AsSent(Parts(c, command, s.target, text)[i]))]
    BY <1>1 DEF SaysText
  <2>2. PICK target \in Clients \cup {Chan} : target = s.target
    BY DEF Says
  <2>3. Verbs[command] \in {"PRIVMSG", "NOTICE"} /\ text \in Text
    BY PartsType
  <2>4. PICK verb \in {"PRIVMSG", "NOTICE"} : verb = Verbs[command]
    BY <2>3
  <2>5. /\ known[c] \in Nicks /\ hostname[c] \in Shows /\ hostname[c] = told[c]
    BY DEF TypeInv, HostsFollow
  <2>6. PICK max \in Nat : max = MaxLength - CalcOverhead(known[c], hostname[c], verb, target) /\ max >= 3
    BY <2>5, RoomIs
  <2>7. PICK prefix : prefix = Width[known[c]] + UserLength + told[c]
    OBVIOUS
  <2>8. max = Room(verb, target, prefix)
    BY <2>5, <2>6, <2>7, RoomIs
  <2>9. PICK parts : parts = SplitMessage(text, max)
    OBVIOUS
  <2>10. Good(parts, text, max)
    <3>1. Readable(text)
      BY <2>1 DEF PlainSayings
    <3> QED
      BY <2>3, <2>6, <2>9, <3>1, SplitGood
  <2>11. Parts(c, command, target, text) = parts
    <3>1. command # "msg"
      BY DEF PlainSayings
    <3> QED
      BY <2>4, <2>6, <2>9, <3>1 DEF Parts
  <2>12. lines = [i \in DOMAIN parts |-> TextLine(c, verb, target, AsSent(parts[i]))]
    BY <2>2, <2>1, <2>4, <2>11
  <2>13. parts \in Seq(Text) /\ Sift(parts, SentWord) = Words(text)
         /\ \A k \in 1 .. Len(parts) : Fit(parts[k], max)
    BY <2>10 DEF Good
  <2>14. DOMAIN lines = DOMAIN parts /\ DOMAIN parts = 1 .. Len(parts) /\ DOMAIN lines = 1 .. Len(lines)
    BY <2>12, <2>13
  <2>15. ASSUME NEW i \in DOMAIN lines
         PROVE  TextWaits[lines[i]] = SentWord[parts[i]] /\ LineFits(lines[i])
    <3>1. PICK p \in Text : p = parts[i]
      BY <2>13, <2>14, <2>15
    <3>2. NoHalves(p) /\ BeginsWell(p) /\ Bytes(p) <= max
      BY <2>13, <2>14, <2>15, <3>1 DEF Fit
    <3>3. /\ AsSent(p) \in Text /\ NoHalves(AsSent(p)) /\ Bytes(AsSent(p)) <= Bytes(p)
      BY <3>2, AsSentKeeps
    <3>4. PICK l \in Sent : l = lines[i]
      BY <2>14, <2>15
    <3>5. /\ l.verb = verb /\ l.ctcp = "none" /\ l.text = AsSent(p)
          /\ l.target = target /\ l.prefix = prefix
      BY <2>7, <2>12, <2>14, <2>15, <3>1, <3>4 DEF TextLine
    <3>6. TextWaits[l] = Words(AsSent(p)) /\ SentWord[p] = Words(AsSent(p))
      BY <3>5 DEF TextWaits, SentWord
    <3>7. Bytes(AsSent(p)) <= Room(verb, target, prefix)
      <4>1. Bytes(AsSent(p)) \in Nat /\ Bytes(p) \in Nat
        BY <3>3, BytesType
      <4> QED
        BY <2>6, <2>8, <3>2, <3>3, <4>1
    <3> QED
      BY <3>1, <3>3, <3>4, <3>5, <3>6, <3>7 DEF LineFits
  <2>16. [i \in DOMAIN lines |-> TextWaits[lines[i]]] = [i \in DOMAIN parts |-> SentWord[parts[i]]]
    BY <2>14, <2>15
  <2>17. Sift(lines, TextWaits) = Sift(parts, SentWord)
    BY <2>16 DEF Sift
  <2> QED
    BY <2>1, <2>13, <2>14, <2>15, <2>17 DEF SaidWords
<1>2. CASE SaysQuery(s, lines) \/ SaysOffer(s, lines) \/ SaysTags(s, lines)
  <2>1. PICK l : lines = <<l>> /\ l.ctcp # "none" /\ s.ctcp = l.ctcp
    BY <1>2 DEF SaysQuery, SaysOffer, SaysTags, Line
  <2>2. l \in Sent
    BY <2>1
  <2>3. TextWaits[l] = <<>> /\ SaidWords(s) = <<>> /\ LineFits(l)
    BY <2>1, <2>2 DEF TextWaits, SaidWords, LineFits
  <2>4. Sift(<<l>>, TextWaits) = TextWaits[l]
    BY <2>2, TextTypes, SiftSmall
  <2> QED
    BY <2>1, <2>3, <2>4
<1> QED
  BY <1>1, <1>2 DEF Says

LEMMA RepliesFit ==
  ASSUME NEW c \in Clients, NEW m \in Relays, NEW l \in ToSet(Answered(c, m))
  PROVE  LineFits(l)
<1>1. ToSet(<<>>) = {} /\ \A s : ToSet(<<s>>) = {s}
  BY DEF ToSet
<1>2. m.verb \in Spoken /\ Answered(c, m) = Listeners(c, m).sends /\ Answered(c, m) # <<>>
  BY <1>1 DEF Answered
<1>3. PICK s \in Sent : Answered(c, m) = <<s>> /\ Replies(m, s)
  BY <1>2, ListenersAre
<1>4. l = s
  BY <1>1, <1>3
<1> QED
  BY <1>3, <1>4 DEF Replies, LineFits

LEMMA LinesStep ==
  ASSUME PlainSayings
  PROVE  TypeInv /\ HostsFollow /\ LinesFit /\ [Next]_vars => LinesFit'
<1> SUFFICES ASSUME TypeInv, HostsFollow, LinesFit, [Next]_vars PROVE LinesFit'
  OBVIOUS
<1>1. ASSUME NEW b \in Clients, NEW lines \in Seq(Sent), toServer' = [toServer EXCEPT ![b] = @ \o lines],
             \A l \in ToSet(lines) : LineFits(l)
      PROVE  LinesFit'
  <2>1. ASSUME NEW c \in Clients, NEW l \in ToSet(toServer'[c]) PROVE LineFits(l)
    <3>1. toServer[c] \in Seq(Sent) /\ toServer \in [Clients -> Seq(Sent)]
      BY DEF TypeInv
    <3>2. \A x \in ToSet(toServer[c]) : LineFits(x)
      BY DEF LinesFit
    <3>3. CASE c = b
      <4>1. toServer'[c] = toServer[c] \o lines
        BY <1>1, <3>1, <3>3
      <4>2. ToSet(toServer[c] \o lines) = ToSet(toServer[c]) \cup ToSet(lines)
        BY <3>1, ConcatElements
      <4> QED
        BY <1>1, <2>1, <3>2, <3>3, <4>1, <4>2
    <3>4. CASE c # b
      <4>1. toServer'[c] = toServer[c]
        BY <1>1, <3>1, <3>4
      <4> QED
        BY <1>1, <2>1, <3>2, <4>1
    <3> QED
      BY <3>3, <3>4
  <2> QED
    BY <2>1 DEF LinesFit
<1>2. CASE Application
  <2>1. PICK b \in Clients, s \in Things, lines \in Seq(Sent) : Says(b, s, lines)
    BY <1>2, ApplicationIs
  <2>2. \A i \in 1 .. Len(lines) : LineFits(lines[i])
    BY <2>1, SaysWords
  <2>3. \A l \in ToSet(lines) : LineFits(l)
    BY <2>2 DEF ToSet
  <2> QED
    BY <1>1, <2>1, <2>3 DEF Says
<1>3. ASSUME NEW b \in Clients, Relay(b) PROVE LinesFit'
  <2>1. PICK line \in Sent : Relaying(b, line)
    BY <1>3, RelayIs
  <2>2. toServer' = [toServer EXCEPT ![b] = Tail(@)] /\ toServer[b] # <<>>
        /\ toServer[b] \in Seq(Sent)
    BY <2>1 DEF Relaying, TypeInv
  <2>3. ToSet(Tail(toServer[b])) \subseteq ToSet(toServer[b])
    BY <2>2, TailElements
  <2>4. \A c \in Clients : toServer'[c] = IF c = b THEN Tail(toServer[b]) ELSE toServer[c]
    BY <2>2 DEF TypeInv
  <2> QED
    BY <2>2, <2>3, <2>4 DEF LinesFit
<1>4. ASSUME NEW b \in Clients, NEW h \in Hosts, HideHost(b, h) \/ ShowHost(b, h)
      PROVE  LinesFit'
  BY <1>4 DEF HideHost, ShowHost, LinesFit
<1>5. ASSUME NEW b \in Clients, NEW n \in Nicks, Rename(b, n) PROVE LinesFit'
  BY <1>5 DEF Rename, LinesFit
<1>6. ASSUME NEW b \in Clients, Receive(b) PROVE LinesFit'
  <2>1. PICK m \in Relays : Receiving(b, m)
    BY <1>6, ReceiveIs
  <2>2. Answered(b, m) \in Seq(Sent) /\ toServer' = [toServer EXCEPT ![b] = @ \o Answered(b, m)]
    BY <2>1, HandledIs
  <2>3. \A l \in ToSet(Answered(b, m)) : LineFits(l)
    BY RepliesFit
  <2> QED
    BY <1>1, <2>2, <2>3
<1>7. CASE UNCHANGED vars
  BY <1>7 DEF vars, LinesFit
<1> QED
  BY <1>2, <1>3, <1>4, <1>5, <1>6, <1>7 DEF Next, Server

-----------------------------------------------------------------------------
(* The server relays the words of a line, and d hears those of a line of   *)
(* somebody else.                                                          *)
LEMMA RelayedWords ==
  ASSUME TypeInv, LinesFit, NEW c \in Clients, NEW line \in Sent, Relaying(c, line),
         ~overrun'[c]
  PROVE  IF Refused(c, line) THEN TextWaits[line] = <<>>
         ELSE TextMoves[Relayed(c, line)] = TextWaits[line]
<1>1. PICK m \in Relays : /\ m = Relayed(c, line) /\ m.verb = line.verb /\ m.ctcp = line.ctcp
                          /\ line.ctcp # "none" \/ Bytes(line.text) <= Room(line.verb, line.target, Shown(c)) =>
                               m.text = Decoded(line.text)
  BY RelayedIs
<1>2. line.text \in Text /\ line.verb \in Spoken
  BY DEF Sent
<1>3. TextWaits[line] = IF line.ctcp = "none" THEN Words(line.text) ELSE <<>>
  BY DEF TextWaits
<1>4. TextMoves[m] = IF m.ctcp = "none" THEN Words(m.text) ELSE <<>>
  BY <1>1, <1>2 DEF TextMoves
<1>5. CASE line.ctcp # "none"
  BY <1>1, <1>3, <1>4, <1>5 DEF Refused
<1>6. CASE line.ctcp = "none"
  <2>1. LineFits(line)
    <3>1. toServer[c] \in Seq(Sent) /\ toServer[c] # <<>> /\ line = Head(toServer[c])
      BY DEF TypeInv, Relaying
    <3>2. line \in ToSet(toServer[c])
      BY <3>1, TailElements
    <3> QED
      BY <3>2 DEF LinesFit
  <2>2. NoHalves(line.text) /\ Bytes(line.text) <= Room(line.verb, line.target, Shown(c))
    <3>1. overrun'[c] = (overrun[c] \/ (line.ctcp = "none" /\ Shown(c) > line.prefix))
      BY DEF Relaying, TypeInv
    <3>2. ~(Shown(c) > line.prefix)
      BY <1>6, <3>1
    <3>3. line.prefix \in Nat /\ line.target \in Target /\ Shown(c) \in Nat
      BY ShownIs DEF Sent
    <3>4. PICK p \in Nat, q \in Nat : p = Shown(c) /\ q = line.prefix
      BY <3>3
    <3>5. p <= q
      BY <3>2, <3>4
    <3>6. /\ Room(line.verb, line.target, q) <= Room(line.verb, line.target, p)
          /\ Room(line.verb, line.target, p) \in Int /\ Room(line.verb, line.target, q) \in Int
      BY <1>2, <3>3, <3>5, RoomShrinks
    <3>7. Bytes(line.text) \in Nat
      BY <1>2, BytesType
    <3>8. NoHalves(line.text) /\ Bytes(line.text) <= Room(line.verb, line.target, q)
      BY <1>6, <2>1, <3>4 DEF LineFits
    <3> QED
      BY <3>4, <3>6, <3>7, <3>8
  <2>3. m.text = line.text
    BY <1>1, <1>2, <2>2, DecodedPlain
  <2>4. Refused(c, line) => line.text = <<>>
    BY <1>1, <2>3 DEF Refused
  <2>5. Words(<<>>) = <<>>
    BY GoodNone, SiftNone DEF Good
  <2> QED
    BY <1>1, <1>3, <1>4, <1>6, <2>3, <2>4, <2>5
<1> QED
  BY <1>5, <1>6

LEMMA WordsHeard ==
  ASSUME NEW name, NEW line, NEW offer, NEW tags
  PROVE  HeardWords(Event(name, line, offer, tags)) = IF name = "message" THEN Words(line.text) ELSE <<>>
<1>1. Event(name, line, offer, tags).event = name /\ Event(name, line, offer, tags).text = line.text
  BY DEF Event
<1> QED
  BY <1>1 DEF HeardWords

LEMMA ListenedWords ==
  ASSUME TypeInv, OwnInv, NEW c \in Clients, NEW d \in Clients, c # d, NEW m \in Relays,
         Receiving(d, m), m.author = c
  PROVE  Sift(Emitted(d, m), TextHeard) = TextMoves[m]
<1>1. TextMoves[m] = IF m.ctcp = "none" /\ m.verb \in Spoken THEN Words(m.text) ELSE <<>>
  BY DEF TextMoves
<1>2. Sift(<<>>, TextHeard) = <<>> /\ \A h \in Events : Sift(<<h>>, TextHeard) = HeardWords(h)
  <2>1. \A h \in Events : TextHeard[h] = HeardWords(h)
    BY DEF TextHeard
  <2> QED
    BY <2>1, TextTypes, SiftSmall, SiftNone
<1>3. CASE m.verb \notin Spoken
  BY <1>1, <1>2, <1>3 DEF Emitted
<1>4. CASE m.verb \in Spoken
  <2>1. Emitted(d, m) = Listeners(d, m).events
    BY <1>4 DEF Emitted
  <2>2. CASE m.ctcp = "none"
    <3>1. m.source # known[d]
      <4>1. toClient[d] \in Seq(Relays) /\ toClient[d] # <<>> /\ m = Head(toClient[d])
            /\ known[d] \in Nicks /\ nick[d] \in Nicks
        BY DEF TypeInv, Receiving
      <4>2. Tracks(toClient[d], d, known[d], nick[d])
        BY DEF OwnInv
      <4>3. Own(m, d, known[d])
        BY <4>1, <4>2, TracksTail
      <4> QED
        BY <4>3 DEF Own
    <3>2. Listeners(d, m) = Emits("message", m)
      BY <2>2, <3>1 DEF Listeners, OnText
    <3>3. Emitted(d, m) = <<Event("message", m, NoCmd, {})>>
      BY <2>1, <3>2 DEF Emits
    <3>4. HeardWords(Event("message", m, NoCmd, {})) = Words(m.text)
      BY WordsHeard
    <3>5. Event("message", m, NoCmd, {}) \in Events
      <4>1. NoCmd \in Offered /\ {} \in Tagged /\ "message" \in EventName
        BY DEF Offered, Tagged, EventName
      <4> QED
        BY <1>4, <4>1, EventIs
    <3> QED
      BY <1>1, <1>2, <1>4, <2>2, <3>3, <3>4, <3>5
  <2>3. CASE m.ctcp # "none"
    <3>1. CASE Emitted(d, m) = <<>>
      BY <1>1, <1>2, <2>3, <3>1
    <3>2. CASE Emitted(d, m) # <<>>
      <4>1. PICK h \in Events : Emitted(d, m) = <<h>> /\ Hears(d, m, h)
        BY <1>4, <2>1, <3>2, ListenersAre
      <4>2. h.event # "message"
        BY <2>3, <4>1 DEF Hears
      <4>3. HeardWords(h) = <<>>
        BY <4>2 DEF HeardWords
      <4> QED
        BY <1>1, <1>2, <2>3, <4>1, <4>3
    <3> QED
      BY <3>1, <3>2
  <2> QED
    BY <2>2, <2>3
<1> QED
  BY <1>3, <1>4

(* The words that are said are heard or on their way, as long as their     *)
(* author was not shown by a longer prefix than it knew: those for the     *)
(* channel always, all while nobody was renamed.                           *)
WordsConveyed ==
  \A c, d \in Clients, all \in BOOLEAN : c # d /\ ~overrun[c] /\ (all => renames = 0) =>
    Conveyed(c, d, all, TextSaid, TextWaits, TextMoves, TextHeard)
TextInv == NamesStay /\ OwnInv /\ HostsFollow /\ LinesFit /\ WordsConveyed

LEMMA WordsCarried ==
  ASSUME PlainSayings, TypeInv, TextInv, NEW c \in Clients, NEW d \in Clients, c # d,
         NEW all \in BOOLEAN, all => renames = 0, ~overrun'[c]
  PROVE  Carrying(c, d, all, TextSaid, TextWaits, TextMoves, TextHeard)
<1>1. all => nick[d] = d
  BY DEF TextInv, NamesStay
<1>2. HostsFollow /\ LinesFit /\ OwnInv
  BY DEF TextInv
<1>3. \A s \in Things, lines \in Seq(Sent) : Says(c, s, lines) => Sift(lines, TextWaits) = TextSaid[s]
  <2>1. \A s \in Things : TextSaid[s] = SaidWords(s)
    BY DEF TextSaid
  <2> QED
    BY <1>2, <2>1, SaysWords
<1>4. \A m \in Relays : m.verb \notin Spoken => TextMoves[m] = <<>>
  BY DEF TextMoves
<1>5. \A line \in Sent : Relaying(c, line) =>
        IF Refused(c, line) THEN TextWaits[line] = <<>>
        ELSE TextMoves[Relayed(c, line)] = TextWaits[line]
  BY <1>2, RelayedWords
<1>6. \A m \in Relays : Receiving(d, m) /\ m.author = c => Sift(Emitted(d, m), TextHeard) = TextMoves[m]
  BY <1>2, ListenedWords
<1>7. \A l \in Sent : l.ctcp \in Answerable => TextWaits[l] = <<>>
  BY DEF TextWaits, Answerable
<1> QED
  BY <1>1, <1>3, <1>4, <1>5, <1>6, <1>7, TextTypes, CarriesIs

LEMMA TextInit == Init => TextInv
<1>1. Init => WordsConveyed
  BY ConveyedInit DEF WordsConveyed
<1> QED
  BY <1>1, NamesInit, OwnInit, HostsInit DEF TextInv

(* Who was shown by a longer prefix than it knew remains so.               *)
LEMMA OverrunStays ==
  ASSUME TypeInv, [Next]_vars, NEW c \in Clients, ~overrun'[c]
  PROVE  ~overrun[c]
<1>1. ASSUME NEW b \in Clients, Relay(b) PROVE ~overrun[c]
  <2>1. PICK line \in Sent : Relaying(b, line)
    BY <1>1, RelayIs
  <2>2. PICK long \in BOOLEAN : overrun' = [overrun EXCEPT ![b] = @ \/ long]
    BY <2>1 DEF Relaying
  <2> QED
    BY <2>2 DEF TypeInv
<1>2. CASE Application
  <2>1. PICK b \in Clients, s \in Things, lines \in Seq(Sent) : Says(b, s, lines)
    BY <1>2, ApplicationIs
  <2> QED
    BY <2>1 DEF Says
<1>3. ASSUME NEW b \in Clients, NEW h \in Hosts, HideHost(b, h) \/ ShowHost(b, h)
      PROVE  ~overrun[c]
  BY <1>3 DEF HideHost, ShowHost
<1>4. ASSUME NEW b \in Clients, NEW n \in Nicks, Rename(b, n) PROVE ~overrun[c]
  BY <1>4 DEF Rename
<1>5. ASSUME NEW b \in Clients, Receive(b) PROVE ~overrun[c]
  BY <1>5 DEF Receive
<1>6. CASE UNCHANGED vars
  BY <1>6 DEF vars
<1> QED
  BY <1>1, <1>2, <1>3, <1>4, <1>5, <1>6 DEF Next, Server

LEMMA TextStep ==
  ASSUME PlainSayings
  PROVE  TypeInv /\ TextInv /\ [Next]_vars => TextInv'
<1> SUFFICES ASSUME TypeInv, TextInv, [Next]_vars PROVE TextInv'
  OBVIOUS
<1>1. WordsConveyed'
  <2> SUFFICES ASSUME NEW c \in Clients, NEW d \in Clients, NEW all \in BOOLEAN, c # d,
                      ~overrun'[c], all => renames' = 0
               PROVE  Conveyed(c, d, all, TextSaid, TextWaits, TextMoves, TextHeard)'
    BY DEF WordsConveyed
  <2>1. all => renames = 0
    BY RenamesStay
  <2>2. Conveyed(c, d, all, TextSaid, TextWaits, TextMoves, TextHeard)
    BY <2>1, OverrunStays DEF TextInv, WordsConveyed
  <2>3. Carrying(c, d, all, TextSaid, TextWaits, TextMoves, TextHeard)
    BY <2>1, WordsCarried
  <2> QED
    BY <2>2, <2>3, TextTypes, ConveyedStep
<1>2. NamesStay'
  BY NamesStep DEF TextInv
<1>3. OwnInv'
  BY OwnStep DEF TextInv
<1>4. HostsFollow'
  BY HostsStep DEF TextInv
<1>5. LinesFit'
  BY LinesStep DEF TextInv
<1> QED
  BY <1>1, <1>2, <1>3, <1>4, <1>5 DEF TextInv

LEMMA WordsAreOf ==
  ASSUME TypeInv, NEW c \in Clients, NEW d \in Clients, c # d, NEW all \in BOOLEAN, all <=> renames = 0
  PROVE  /\ OfSaid(c, d, SaidWords) = Sift(said, SaidFor(c, d, all, TextSaid))
         /\ OfHeard(c, d, HeardWords) = Sift(heard[d], HeardFrom(c, all, TextHeard))
<1>1. /\ \A i \in DOMAIN said : said[i] \in Things
      /\ \A i \in DOMAIN heard[d] : heard[d][i] \in Events
  <2>1. said \in Seq(Things) /\ heard[d] \in Seq(Events)
    BY DEF TypeInv
  <2> QED
    BY <2>1
<1>2. [i \in DOMAIN said |-> IF said[i].by = c /\ c # d /\ Arrives(said[i].target, d)
                             THEN SaidWords(said[i]) ELSE <<>>]
        = [i \in DOMAIN said |-> SaidFor(c, d, all, TextSaid)[said[i]]]
  BY <1>1 DEF SaidFor, TextSaid, Arrives
<1>3. [i \in DOMAIN heard[d] |-> IF heard[d][i].from = c /\ c # d /\ (heard[d][i].chan \/ renames = 0)
                                 THEN HeardWords(heard[d][i]) ELSE <<>>]
        = [i \in DOMAIN heard[d] |-> HeardFrom(c, all, TextHeard)[heard[d][i]]]
  BY <1>1 DEF HeardFrom, TextHeard
<1> QED
  BY <1>2, <1>3 DEF OfSaid, OfHeard, Sift

LEMMA OwnWords ==
  ASSUME TypeInv, NEW c \in Clients
  PROVE  OfSaid(c, c, SaidWords) = <<>> /\ OfHeard(c, c, HeardWords) = <<>>
<1>1. said \in Seq(Things) /\ heard[c] \in Seq(Events)
  BY DEF TypeInv
<1>2. /\ [i \in DOMAIN said |-> IF said[i].by = c /\ c # c /\ Arrives(said[i].target, c)
                                THEN SaidWords(said[i]) ELSE <<>>] = [i \in DOMAIN said |-> <<>>]
      /\ [i \in DOMAIN heard[c] |-> IF heard[c][i].from = c /\ c # c /\ (heard[c][i].chan \/ renames = 0)
                                    THEN HeardWords(heard[c][i]) ELSE <<>>]
           = [i \in DOMAIN heard[c] |-> <<>>]
  OBVIOUS
<1>3. FlattenSeq([i \in DOMAIN said |-> <<>>]) = <<>>
  BY <1>1, NothingFlat
<1>4. FlattenSeq([i \in DOMAIN heard[c] |-> <<>>]) = <<>>
  BY <1>1, NothingFlat
<1> QED
  BY <1>2, <1>3, <1>4 DEF OfSaid, OfHeard

LEMMA WordsArrive == TypeInv /\ WordsConveyed => TextArrives
<1> SUFFICES ASSUME TypeInv, WordsConveyed, NEW c \in Clients, NEW d \in Clients, ~overrun[c]
             PROVE  /\ IsPrefix(OfHeard(c, d, HeardWords), OfSaid(c, d, SaidWords))
                    /\ Idle => OfHeard(c, d, HeardWords) = OfSaid(c, d, SaidWords)
  BY DEF TextArrives, Arrive
<1>1. CASE c = d
  <2>1. OfSaid(c, d, SaidWords) = <<>> /\ OfHeard(c, d, HeardWords) = <<>>
    BY <1>1, OwnWords
  <2>2. IsPrefix(<<>>, <<>>)
    BY DEF IsPrefix
  <2> QED
    BY <2>1, <2>2
<1>2. CASE c # d
  <2>1. PICK all \in BOOLEAN : all <=> renames = 0
    OBVIOUS
  <2>2. Conveyed(c, d, all, TextSaid, TextWaits, TextMoves, TextHeard)
    BY <1>2, <2>1 DEF WordsConveyed
  <2>3. PICK H, S : H = Sift(heard[d], HeardFrom(c, all, TextHeard))
                    /\ S = Sift(said, SaidFor(c, d, all, TextSaid))
    OBVIOUS
  <2>4. IsPrefix(H, S) /\ (Idle => H = S)
    BY <2>2, <2>3, TextTypes, ConveyedPrefix
  <2>5. OfSaid(c, d, SaidWords) = S /\ OfHeard(c, d, HeardWords) = H
    BY <1>2, <2>1, <2>3, WordsAreOf
  <2> QED
    BY <2>4, <2>5
<1> QED
  BY <1>1, <1>2

(* What is said arrives, whole and in order, as long as it is said by the  *)
(* methods that cut it and can be read where it is cut, and no line of it  *)
(* was relayed with a longer prefix than its author had been told of when  *)
(* it cut the text, whatever the lengths of nicks, hosts and user names    *)
(* are and however often they change: everyone hears the                   *)
(* words said in the channel, and everyone while nobody was renamed those  *)
(* said to it, and all of them once nothing is on its way                  *)
(* (message_split.ts, client.ts, parsers.ts, privmsg.ts, notice.ts).       *)
THEOREM TextsArrive == ASSUME PlainSayings PROVE Spec => []TextArrives
<1>1. TypeInv /\ TextInv /\ [Next]_vars => TextInv'
  BY TextStep
<1>2. TypeInv /\ TextInv => TextArrives
  BY WordsArrive DEF TextInv
<1> QED
  BY <1>1, <1>2, TypeInit, TypeStep, TextInit, PTL DEF Spec

-----------------------------------------------------------------------------
(* Units that are not half of a pair: what is written of them is decoded   *)
(* as it was.                                                              *)
Plain == Unit \ {"h", "l"}

LEMMA PlainUnit ==
  ASSUME NEW u \in Literal
  PROVE  u \in Plain
<1>1. u # "h" /\ u # "l"
  BY Zenon DEF Literal
<1> QED
  BY <1>1, LiteralUnit DEF Plain

LEMMA PlainText ==
  /\ \A text \in Text : NoHalves(text) => text \in Seq(Plain)
  /\ \A text \in Seq(Plain) : text \in Text /\ Decoded(text) = text
<1>1. ASSUME NEW text \in Text, NoHalves(text) PROVE text \in Seq(Plain)
  <2>1. text \in Seq(Unit) /\ \A i \in DOMAIN text : text[i] \in Plain
    BY <1>1 DEF Text, NoHalves, Plain
  <2> QED
    BY <2>1
<1>2. ASSUME NEW text \in Seq(Plain) PROVE text \in Text /\ Decoded(text) = text
  <2>1. \A i \in DOMAIN text : text[i] \in Plain
    OBVIOUS
  <2>2. text \in Text
    <3>1. Plain \subseteq Unit
      BY DEF Plain
    <3> QED
      BY <3>1, SeqMonotonic DEF Text
  <2>3. NoHalves(text)
    BY <2>1 DEF NoHalves, Plain
  <2> QED
    BY <2>2, <2>3, DecodedPlain
<1> QED
  BY <1>1, <1>2

(* Offers and tags are written in plain units, so they survive the server. *)
LEMMA OfferUnitsPlain == OfferUnits \subseteq Plain /\ Marked \subseteq Plain
<1>1. DOMAIN ParseHost \subseteq Literal
  BY Zenon DEF ParseHost, Literal
<1>2. Numbers \subseteq Literal
  BY Zenon DEF Numbers, Ports, Literal
<1>3. {Blank, Quote, Backslash} \subseteq Literal
  BY Zenon DEF Blank, Quote, Backslash, Literal
<1>4. {Verb[a] : a \in Actions} \subseteq Literal
  <2>1. ASSUME NEW a \in Actions PROVE Verb[a] \in {"SEND", "CHAT", "SCHAT", "RESUME", "ACCEPT"}
    BY DEF Actions, Verb
  <2>2. {"SEND", "CHAT", "SCHAT", "RESUME", "ACCEPT"} \subseteq Literal
    BY Zenon DEF Literal
  <2> QED
    BY <2>1, <2>2
<1>5. OfferUnits \subseteq Literal
  BY <1>1, <1>2, <1>3, <1>4 DEF OfferUnits
<1>6. Marked \subseteq Literal
  <2>1. {"@", ";", "=", " ", ":", "s", "r", "n", Escape} \subseteq Literal
    BY Zenon DEF Literal, Escape
  <2>2. DOMAIN Replacement \subseteq Literal
    BY Zenon DEF Replacement, Literal, Escape
  <2> QED
    BY <2>1, <2>2, Zenon DEF Marked
<1> QED
  BY <1>5, <1>6, PlainUnit

LEMMA OffersWritten ==
  ASSUME PlainData, NEW cmd \in Offers
  PROVE  FormatDcc(cmd) \in Text /\ CreateDcc(Decoded(FormatDcc(cmd))) = Meaning(cmd)
<1>1. cmd \in Command
  BY OffersAssumption
<1>2. cmd.file \in Seq(Plain)
  <2>1. cmd.file \in Seq(STRING)
    BY <1>1 DEF Command
  <2>2. NoHalves(cmd.file)
    BY DEF PlainData
  <2> QED
    BY <2>1, <2>2, StringText, PlainText
<1>3. cmd \in OffersOf(Plain)
  BY <1>1, <1>2 DEF Command, OffersOf
<1>4. HasFile(cmd.action) => cmd.file # <<>>
  BY DEF PlainData
<1>5. FormatDcc(cmd) \in Seq(Plain) /\ CreateDcc(FormatDcc(cmd)) = Meaning(cmd)
  BY <1>3, <1>4, OfferUnitsPlain, OfferSurvives
<1> QED
  BY <1>5, PlainText

LEMMA TagsWritten ==
  ASSUME PlainData, NEW tags \in TagLists
  PROVE  FormatTags(tags) \in Text /\ ParseTags(Decoded(FormatTags(tags))) = ToSet(tags)
<1>1. tags \in Seq([key : Seq(STRING), given : BOOLEAN, value : Seq(STRING)])
  BY TagsAssumption
<1>2. ASSUME NEW i \in DOMAIN tags PROVE tags[i] \in TagsOf(Plain) /\ Writable(tags[i])
  <2>1. PICK tag \in [key : Seq(STRING), given : BOOLEAN, value : Seq(STRING)] : tag = tags[i]
    <3>1. PICK U : U = [key : Seq(STRING), given : BOOLEAN, value : Seq(STRING)]
      OBVIOUS
    <3>2. tags \in Seq(U)
      BY <1>1, <3>1
    <3>3. tags[i] \in U
      BY <3>2
    <3> QED
      BY <3>1, <3>3
  <2>2. PlainTag(tag) /\ NoHalves(tag.key) /\ NoHalves(tag.value)
    BY <2>1 DEF PlainData
  <2>3. tag.key \in Seq(STRING) /\ tag.value \in Seq(STRING)
    OBVIOUS
  <2>4. tag.key \in Seq(Plain) /\ tag.value \in Seq(Plain)
    BY <2>2, <2>3, StringText, PlainText
  <2>5. tag \in TagsOf(Plain)
    BY <2>4 DEF TagsOf
  <2> QED
    BY <2>1, <2>2, <2>5, WritableTag
<1>3. tags \in Seq(TagsOf(Plain)) /\ \A j \in 1 .. Len(tags) : Writable(tags[j])
  <2>1. DOMAIN tags = 1 .. Len(tags) /\ Len(tags) \in Nat
    BY <1>1
  <2>2. tags = [i \in 1 .. Len(tags) |-> tags[i]]
    BY <1>1
  <2> QED
    BY <1>2, <2>1, <2>2
<1>4. FormatTags(tags) \in Seq(Plain) /\ ParseTags(FormatTags(tags)) = ToSet(tags)
  BY <1>3, OfferUnitsPlain, TagsSurvive
<1> QED
  BY <1>4, PlainText

-----------------------------------------------------------------------------
(* What a reader takes from a line is a function of its kind and its text; *)
(* a line that waits is read as it is decoded.                             *)
WaitsAs(reads) == [l \in Sent |-> reads[<<l.ctcp, Decoded(l.text)>>]]
MovesAs(reads) == [m \in Relays |-> IF m.verb \in Spoken THEN reads[<<m.ctcp, m.text>>] ELSE <<>>]
Data == {"dcc", "tags"}
Readings(U) == [Kind \X Text -> Seq(U)]
DataOnly(reads) == \A k \in Kind \ Data, t \in Text : reads[<<k, t>>] = <<>>

LEMMA ReadingTypes ==
  ASSUME NEW U, NEW reads \in Readings(U)
  PROVE  WaitsAs(reads) \in Contributes(Sent, U) /\ MovesAs(reads) \in Contributes(Relays, U)
<1>1. \A k \in Kind, t \in Text : reads[<<k, t>>] \in Seq(U)
  BY DEF Readings
<1>2. ASSUME NEW l \in Sent PROVE reads[<<l.ctcp, Decoded(l.text)>>] \in Seq(U)
  <2>1. l.ctcp \in Kind /\ l.text \in Text
    BY DEF Sent
  <2> QED
    BY <1>1, <2>1, DecodedType
<1>3. ASSUME NEW m \in Relays PROVE reads[<<m.ctcp, m.text>>] \in Seq(U)
  <2>1. m.ctcp \in Kind /\ m.text \in Text
    BY DEF Relays
  <2> QED
    BY <1>1, <2>1
<1>4. <<>> \in Seq(U)
  OBVIOUS
<1> QED
  BY <1>2, <1>3, <1>4 DEF WaitsAs, MovesAs, Contributes

(* What is read from data and from nothing else is carried.                *)
LEMMA DataCarried ==
  ASSUME TypeInv, NEW U, NEW c \in Clients, NEW d \in Clients, c # d, NEW all \in BOOLEAN,
         all => nick[d] = d, NEW reads \in Readings(U), DataOnly(reads),
         NEW f \in Contributes(Things, U), NEW e \in Contributes(Events, U),
         \A s \in Things, lines \in Seq(Sent) : Says(c, s, lines) => Sift(lines, WaitsAs(reads)) = f[s],
         \A m \in Relays : Receiving(d, m) /\ m.author = c => Sift(Emitted(d, m), e) = MovesAs(reads)[m]
  PROVE  Carrying(c, d, all, f, WaitsAs(reads), MovesAs(reads), e)
<1>1. PICK w \in Contributes(Sent, U), v \in Contributes(Relays, U) : w = WaitsAs(reads) /\ v = MovesAs(reads)
  BY ReadingTypes
<1>2. \A m \in Relays : m.verb \notin Spoken => v[m] = <<>>
  BY <1>1 DEF MovesAs
<1>3. ASSUME NEW line \in Sent, Relaying(c, line)
      PROVE  IF Refused(c, line) THEN w[line] = <<>> ELSE v[Relayed(c, line)] = w[line]
  <2>1. line.verb \in Spoken /\ line.ctcp \in Kind /\ line.text \in Text
    BY DEF Sent
  <2>2. PICK m \in Relays : /\ m = Relayed(c, line) /\ m.verb = line.verb /\ m.ctcp = line.ctcp
                            /\ line.ctcp # "none" => m.text = Decoded(line.text)
    BY RelayedIs
  <2>3. w[line] = reads[<<line.ctcp, Decoded(line.text)>>]
    BY <1>1 DEF WaitsAs
  <2>4. v[m] = reads[<<m.ctcp, m.text>>]
    BY <1>1, <2>1, <2>2 DEF MovesAs
  <2>5. CASE line.ctcp = "none"
    <3>1. line.ctcp \in Kind \ Data /\ Decoded(line.text) \in Text /\ m.text \in Text
      <4>1. Decoded(line.text) \in Text /\ m.text \in Text
        BY <2>1, DecodedType DEF Relays
      <4> QED
        BY <2>1, <2>5, <4>1 DEF Data
    <3>2. w[line] = <<>> /\ v[m] = <<>>
      BY <2>2, <2>3, <2>4, <3>1 DEF DataOnly
    <3> QED
      BY <2>2, <3>2
  <2>6. CASE line.ctcp # "none"
    <3>1. v[m] = w[line]
      BY <2>2, <2>3, <2>4, <2>6
    <3>2. ~Refused(c, line)
      BY <2>6 DEF Refused
    <3> QED
      BY <2>2, <3>1, <3>2
  <2> QED
    BY <2>5, <2>6
<1>4. \A l \in Sent : l.ctcp \in Answerable => w[l] = <<>>
  <2> SUFFICES ASSUME NEW l \in Sent, l.ctcp \in Answerable PROVE w[l] = <<>>
    OBVIOUS
  <2>1. l.ctcp \in Kind /\ l.text \in Text
    BY DEF Sent
  <2>2. l.ctcp \in Kind \ Data
    BY <2>1 DEF Data, Answerable
  <2>3. Decoded(l.text) \in Text
    BY <2>1, DecodedType
  <2> QED
    BY <1>1, <2>2, <2>3 DEF WaitsAs, DataOnly
<1>5. /\ \A s \in Things, lines \in Seq(Sent) : Says(c, s, lines) => Sift(lines, w) = f[s]
      /\ \A m \in Relays : Receiving(d, m) /\ m.author = c => Sift(Emitted(d, m), e) = v[m]
  BY <1>1
<1>6. Carrying(c, d, all, f, w, v, e)
  BY <1>2, <1>3, <1>4, <1>5, CarriesIs
<1> QED
  BY <1>1, <1>6

(* What is said is data, and then in one line, or none of its lines is.    *)
SaysNoData(s, lines) ==
  s.ctcp \notin Data /\ \A i \in 1 .. Len(lines) : lines[i].ctcp \notin Data
LEMMA SaysData ==
  ASSUME NEW c, NEW s \in Things, NEW lines \in Seq(Sent), Says(c, s, lines)
  PROVE  SaysNoData(s, lines) \/ SaysOffer(s, lines) \/ SaysTags(s, lines)
<1>1. CASE SaysText(c, s, lines)
  <2>1. PICK parts : /\ s.ctcp = "none"
                     /\ lines = [i \in DOMAIN parts |-> TextLine(c, s.verb, s.target, AsSent(parts[i]))]
    BY <1>1 DEF SaysText
  <2>2. DOMAIN lines = 1 .. Len(lines) /\ DOMAIN lines = DOMAIN parts
    BY <2>1
  <2>3. \A i \in 1 .. Len(lines) : lines[i].ctcp = "none"
    BY <2>1, <2>2 DEF TextLine
  <2> QED
    BY <2>1, <2>3 DEF SaysNoData, Data
<1>2. CASE SaysQuery(s, lines)
  <2>1. PICK l : lines = <<l>> /\ l.ctcp = s.ctcp /\ s.ctcp \notin Data
    BY <1>2 DEF SaysQuery, Line, Data
  <2> QED
    BY <2>1 DEF SaysNoData
<1> QED
  BY <1>1, <1>2 DEF Says

LEMMA NoDataSaid ==
  ASSUME NEW U, NEW reads \in Readings(U), DataOnly(reads),
         NEW s \in Things, NEW lines \in Seq(Sent), SaysNoData(s, lines)
  PROVE  Sift(lines, WaitsAs(reads)) = <<>>
<1>1. PICK w \in Contributes(Sent, U) : w = WaitsAs(reads)
  BY ReadingTypes
<1>2. ASSUME NEW i \in 1 .. Len(lines) PROVE w[lines[i]] = <<>>
  <2>1. PICK l \in Sent : l = lines[i] /\ l.ctcp \notin Data
    BY <1>2 DEF SaysNoData
  <2>2. l.ctcp \in Kind \ Data /\ Decoded(l.text) \in Text
    <3>1. l.ctcp \in Kind /\ l.text \in Text
      BY DEF Sent
    <3> QED
      BY <2>1, <3>1, DecodedType
  <2> QED
    BY <1>1, <2>1, <2>2 DEF WaitsAs, DataOnly
<1> QED
  BY <1>1, <1>2, SiftNothing

-----------------------------------------------------------------------------
(* What a reader takes from a line: an offer, or the tags in front.        *)
ReadOffers ==
  [k \in Kind \X Text |->
     IF k[1] = "dcc" /\ CreateDcc(k[2]) # NoOffer THEN <<CreateDcc(k[2])>> ELSE <<>>]
ReadTags == [k \in Kind \X Text |-> IF k[1] = "tags" THEN <<ParseTags(k[2])>> ELSE <<>>]
OfferSaid == [s \in Things |-> SaidOffers(s)]
OfferHeard == [h \in Events |-> HeardOffers(h)]
TagsSaid == [s \in Things |-> SaidTags(s)]
TagsHeard == [h \in Events |-> HeardTags(h)]
OfferValues == Offered \cup {Meaning(s.offer) : s \in Things}
TagValues == Tagged \cup {s.tags : s \in Things}

LEMMA ReadOffer ==
  ASSUME NEW k \in Kind, NEW t \in Text
  PROVE  /\ ReadOffers[<<k, t>>] = IF k = "dcc" /\ CreateDcc(t) # NoOffer THEN <<CreateDcc(t)>> ELSE <<>>
         /\ ReadTags[<<k, t>>] = IF k = "tags" THEN <<ParseTags(t)>> ELSE <<>>
<1>1. PICK p : p = <<k, t>>
  OBVIOUS
<1>2. p \in Kind \X Text /\ p[1] = k /\ p[2] = t
  BY <1>1
<1>3. /\ ReadOffers[p] = IF p[1] = "dcc" /\ CreateDcc(p[2]) # NoOffer THEN <<CreateDcc(p[2])>> ELSE <<>>
      /\ ReadTags[p] = IF p[1] = "tags" THEN <<ParseTags(p[2])>> ELSE <<>>
  BY <1>2 DEF ReadOffers, ReadTags
<1> QED
  BY <1>1, <1>2, <1>3

LEMMA DataTypes ==
  /\ ReadOffers \in Readings(OfferValues) /\ DataOnly(ReadOffers)
  /\ ReadTags \in Readings(TagValues) /\ DataOnly(ReadTags)
  /\ OfferSaid \in Contributes(Things, OfferValues) /\ OfferHeard \in Contributes(Events, OfferValues)
  /\ TagsSaid \in Contributes(Things, TagValues) /\ TagsHeard \in Contributes(Events, TagValues)
<1>1. \A U, x : <<>> \in Seq(U) /\ (x \in U => <<x>> \in Seq(U))
  OBVIOUS
<1>2. ASSUME NEW p \in Kind \X Text
      PROVE  /\ (IF p[1] = "dcc" /\ CreateDcc(p[2]) # NoOffer THEN <<CreateDcc(p[2])>> ELSE <<>>)
                  \in Seq(OfferValues)
             /\ (IF p[1] = "tags" THEN <<ParseTags(p[2])>> ELSE <<>>) \in Seq(TagValues)
  <2>1. p[2] \in Text
    OBVIOUS
  <2>2. CreateDcc(p[2]) \in OfferValues /\ ParseTags(p[2]) \in TagValues
    BY <2>1 DEF OfferValues, TagValues, Offered, Tagged
  <2> QED
    BY <1>1, <2>2
<1>3. ReadOffers \in Readings(OfferValues) /\ ReadTags \in Readings(TagValues)
  BY <1>2 DEF ReadOffers, ReadTags, Readings
<1>4. DataOnly(ReadOffers) /\ DataOnly(ReadTags)
  BY ReadOffer DEF DataOnly, Data
<1>5. ASSUME NEW s \in Things PROVE SaidOffers(s) \in Seq(OfferValues) /\ SaidTags(s) \in Seq(TagValues)
  <2>1. Meaning(s.offer) \in OfferValues /\ s.tags \in TagValues
    BY DEF OfferValues, TagValues
  <2> QED
    BY <1>1, <2>1 DEF SaidOffers, SaidTags
<1>6. ASSUME NEW h \in Events PROVE HeardOffers(h) \in Seq(OfferValues) /\ HeardTags(h) \in Seq(TagValues)
  <2>1. h.offer \in OfferValues /\ h.tags \in TagValues
    BY DEF OfferValues, TagValues, Events
  <2> QED
    BY <1>1, <2>1 DEF HeardOffers, HeardTags
<1>7. /\ OfferSaid \in Contributes(Things, OfferValues) /\ TagsSaid \in Contributes(Things, TagValues)
  BY <1>5 DEF OfferSaid, TagsSaid, Contributes
<1>8. /\ OfferHeard \in Contributes(Events, OfferValues) /\ TagsHeard \in Contributes(Events, TagValues)
  BY <1>6 DEF OfferHeard, TagsHeard, Contributes
<1> QED
  BY <1>3, <1>4, <1>7, <1>8

(* What is said is in the lines it is said in.                             *)
LEMMA SaysOffers ==
  ASSUME PlainData, NEW c, NEW s \in Things, NEW lines \in Seq(Sent), Says(c, s, lines)
  PROVE  /\ Sift(lines, WaitsAs(ReadOffers)) = OfferSaid[s]
         /\ Sift(lines, WaitsAs(ReadTags)) = TagsSaid[s]
<1>1. OfferSaid[s] = SaidOffers(s) /\ TagsSaid[s] = SaidTags(s)
  BY DEF OfferSaid, TagsSaid
<1>2. CASE SaysNoData(s, lines)
  <2>1. SaidOffers(s) = <<>> /\ SaidTags(s) = <<>>
    BY <1>2 DEF SaysNoData, Data, SaidOffers, SaidTags
  <2> QED
    BY <1>1, <1>2, <2>1, NoDataSaid, DataTypes
<1>3. ASSUME NEW l \in Sent, lines = <<l>>
      PROVE  /\ Sift(lines, WaitsAs(ReadOffers)) =
                  IF l.ctcp = "dcc" /\ CreateDcc(Decoded(l.text)) # NoOffer
                  THEN <<CreateDcc(Decoded(l.text))>> ELSE <<>>
             /\ Sift(lines, WaitsAs(ReadTags)) =
                  IF l.ctcp = "tags" THEN <<ParseTags(Decoded(l.text))>> ELSE <<>>
  <2>1. l.ctcp \in Kind /\ Decoded(l.text) \in Text
    BY DecodedType DEF Sent
  <2>2. /\ WaitsAs(ReadOffers)[l] = ReadOffers[<<l.ctcp, Decoded(l.text)>>]
        /\ WaitsAs(ReadTags)[l] = ReadTags[<<l.ctcp, Decoded(l.text)>>]
    BY DEF WaitsAs
  <2>3. /\ WaitsAs(ReadOffers) \in Contributes(Sent, OfferValues)
        /\ WaitsAs(ReadTags) \in Contributes(Sent, TagValues)
    BY DataTypes, ReadingTypes
  <2>4. /\ Sift(<<l>>, WaitsAs(ReadOffers)) = WaitsAs(ReadOffers)[l]
        /\ Sift(<<l>>, WaitsAs(ReadTags)) = WaitsAs(ReadTags)[l]
    BY <2>3, SiftSmall
  <2> QED
    BY <1>3, <2>1, <2>2, <2>4, ReadOffer
<1>4. CASE SaysOffer(s, lines)
  <2>1. PICK l : lines = <<l>> /\ l.ctcp = "dcc" /\ l.text = FormatDcc(s.offer)
    BY <1>4 DEF SaysOffer, Line
  <2>2. s.ctcp = "dcc" /\ s.offer \in Offers /\ l \in Sent
    BY <1>4, <2>1 DEF SaysOffer
  <2>3. CreateDcc(Decoded(l.text)) = Meaning(s.offer)
    BY <2>1, <2>2, OffersWritten
  <2>4. /\ SaidOffers(s) = IF Meaning(s.offer) # NoOffer THEN <<Meaning(s.offer)>> ELSE <<>>
        /\ SaidTags(s) = <<>>
    BY <2>2 DEF SaidOffers, SaidTags
  <2> QED
    BY <1>1, <1>3, <2>1, <2>2, <2>3, <2>4
<1>5. CASE SaysTags(s, lines)
  <2>1. PICK tags \in TagLists :
          /\ s.ctcp = "tags" /\ s.tags = ToSet(tags)
          /\ lines = <<Line("TAGMSG", s.target, "tags", FormatTags(tags))>>
    BY <1>5 DEF SaysTags
  <2>2. PICK l : lines = <<l>> /\ l.ctcp = "tags" /\ l.text = FormatTags(tags)
    BY <2>1 DEF Line
  <2>3. l \in Sent
    BY <2>2
  <2>4. ParseTags(Decoded(l.text)) = s.tags
    BY <2>1, <2>2, TagsWritten
  <2>5. SaidOffers(s) = <<>> /\ SaidTags(s) = <<s.tags>>
    BY <2>1 DEF SaidOffers, SaidTags
  <2> QED
    BY <1>1, <1>3, <2>2, <2>3, <2>4, <2>5
<1> QED
  BY <1>2, <1>4, <1>5, SaysData

(* What a line has is in the event it becomes.                             *)
LEMMA ListenedData ==
  ASSUME NEW d \in Clients, NEW m \in Relays
  PROVE  /\ Sift(Emitted(d, m), OfferHeard) = MovesAs(ReadOffers)[m]
         /\ Sift(Emitted(d, m), TagsHeard) = MovesAs(ReadTags)[m]
<1>1. /\ MovesAs(ReadOffers)[m] = IF m.verb \in Spoken THEN ReadOffers[<<m.ctcp, m.text>>] ELSE <<>>
      /\ MovesAs(ReadTags)[m] = IF m.verb \in Spoken THEN ReadTags[<<m.ctcp, m.text>>] ELSE <<>>
  BY DEF MovesAs
<1>2. m.ctcp \in Kind /\ m.text \in Text
  BY DEF Relays
<1>3. /\ Sift(<<>>, OfferHeard) = <<>> /\ Sift(<<>>, TagsHeard) = <<>>
      /\ \A h \in Events : Sift(<<h>>, OfferHeard) = HeardOffers(h) /\ Sift(<<h>>, TagsHeard) = HeardTags(h)
  <2>1. \A h \in Events : OfferHeard[h] = HeardOffers(h) /\ TagsHeard[h] = HeardTags(h)
    BY DEF OfferHeard, TagsHeard
  <2>2. \A h \in Events : Sift(<<h>>, OfferHeard) = OfferHeard[h] /\ Sift(<<h>>, TagsHeard) = TagsHeard[h]
    BY DataTypes, SiftSmall
  <2> QED
    BY <2>1, <2>2, SiftNone
<1>4. CASE m.verb \notin Spoken
  BY <1>1, <1>3, <1>4 DEF Emitted
<1>5. CASE m.verb \in Spoken
  <2>1. Emitted(d, m) = Listeners(d, m).events
    BY <1>5 DEF Emitted
  <2>2. /\ MovesAs(ReadOffers)[m] =
             IF m.ctcp = "dcc" /\ CreateDcc(m.text) # NoOffer THEN <<CreateDcc(m.text)>> ELSE <<>>
        /\ MovesAs(ReadTags)[m] = IF m.ctcp = "tags" THEN <<ParseTags(m.text)>> ELSE <<>>
    BY <1>1, <1>2, <1>5, ReadOffer
  <2>3. ASSUME NEW name \in EventName, NEW offer \in Offered, NEW tags \in Tagged
        PROVE  /\ Event(name, m, offer, tags) \in Events
               /\ HeardOffers(Event(name, m, offer, tags)) = IF name = "dcc" THEN <<offer>> ELSE <<>>
               /\ HeardTags(Event(name, m, offer, tags)) = IF name = "tagmsg" THEN <<tags>> ELSE <<>>
    <3>1. Event(name, m, offer, tags) \in Events
      BY <1>5, EventIs
    <3>2. /\ Event(name, m, offer, tags).event = name
          /\ Event(name, m, offer, tags).offer = offer /\ Event(name, m, offer, tags).tags = tags
      BY DEF Event
    <3> QED
      BY <3>1, <3>2 DEF HeardOffers, HeardTags
  <2>4. NoCmd \in Offered /\ {} \in Tagged /\ CreateDcc(m.text) \in Offered /\ ParseTags(m.text) \in Tagged
        /\ "dcc" \in EventName /\ "tagmsg" \in EventName
    BY <1>2 DEF Offered, Tagged, EventName
  <2>5. CASE m.ctcp = "dcc"
    <3>1. Listeners(d, m) = OnDcc(m)
      BY <2>5 DEF Listeners
    <3>2. CASE CreateDcc(m.text) = NoOffer
      <4>1. Emitted(d, m) = <<>>
        BY <2>1, <3>1, <3>2 DEF OnDcc, Nothing
      <4> QED
        BY <1>3, <2>2, <2>5, <3>2, <4>1
    <3>3. CASE CreateDcc(m.text) # NoOffer
      <4>1. Emitted(d, m) = <<Event("dcc", m, CreateDcc(m.text), {})>>
        BY <2>1, <3>1, <3>3 DEF OnDcc
      <4> QED
        BY <1>3, <2>2, <2>3, <2>4, <2>5, <3>3, <4>1
    <3> QED
      BY <3>2, <3>3
  <2>6. CASE m.ctcp = "tags"
    <3>1. Listeners(d, m) = OnTagmsg(m)
      BY <2>6 DEF Listeners
    <3>2. Emitted(d, m) = <<Event("tagmsg", m, NoCmd, ParseTags(m.text))>>
      BY <2>1, <3>1 DEF OnTagmsg
    <3> QED
      BY <1>3, <2>2, <2>3, <2>4, <2>6, <3>2
  <2>7. CASE m.ctcp \notin Data
    <3>1. MovesAs(ReadOffers)[m] = <<>> /\ MovesAs(ReadTags)[m] = <<>>
      BY <2>2, <2>7 DEF Data
    <3>2. CASE Emitted(d, m) = <<>>
      BY <1>3, <3>1, <3>2
    <3>3. CASE Emitted(d, m) # <<>>
      <4>1. PICK h \in Events : Emitted(d, m) = <<h>> /\ Hears(d, m, h)
        BY <1>5, <2>1, <3>3, ListenersAre
      <4>2. h.event # "dcc" /\ h.event # "tagmsg"
        BY <2>7, <4>1 DEF Hears, Data
      <4>3. HeardOffers(h) = <<>> /\ HeardTags(h) = <<>>
        BY <4>2 DEF HeardOffers, HeardTags
      <4> QED
        BY <1>3, <3>1, <4>1, <4>3
    <3> QED
      BY <3>2, <3>3
  <2> QED
    BY <2>5, <2>6, <2>7 DEF Data
<1> QED
  BY <1>4, <1>5

-----------------------------------------------------------------------------
(* The offers and the tags that are said are heard or on their way, while  *)
(* nobody was renamed.                                                     *)
DataConveyed ==
  renames = 0 => \A c, d \in Clients : c # d =>
    /\ Conveyed(c, d, TRUE, OfferSaid, WaitsAs(ReadOffers), MovesAs(ReadOffers), OfferHeard)
    /\ Conveyed(c, d, TRUE, TagsSaid, WaitsAs(ReadTags), MovesAs(ReadTags), TagsHeard)
DataInv == NamesStay /\ DataConveyed

LEMMA DataInit == Init => DataInv
<1>1. Init => DataConveyed
  BY ConveyedInit DEF DataConveyed
<1> QED
  BY <1>1, NamesInit DEF DataInv

LEMMA DataStep ==
  ASSUME PlainData
  PROVE  TypeInv /\ DataInv /\ [Next]_vars => DataInv'
<1> SUFFICES ASSUME TypeInv, DataInv, [Next]_vars PROVE DataInv'
  OBVIOUS
<1>1. DataConveyed'
  <2> SUFFICES ASSUME renames' = 0, NEW c \in Clients, NEW d \in Clients, c # d
               PROVE  /\ Conveyed(c, d, TRUE, OfferSaid, WaitsAs(ReadOffers), MovesAs(ReadOffers), OfferHeard)'
                      /\ Conveyed(c, d, TRUE, TagsSaid, WaitsAs(ReadTags), MovesAs(ReadTags), TagsHeard)'
    BY DEF DataConveyed
  <2>1. renames = 0
    BY RenamesStay
  <2>2. nick[d] = d
    BY <2>1 DEF DataInv, NamesStay
  <2>3. /\ Conveyed(c, d, TRUE, OfferSaid, WaitsAs(ReadOffers), MovesAs(ReadOffers), OfferHeard)
        /\ Conveyed(c, d, TRUE, TagsSaid, WaitsAs(ReadTags), MovesAs(ReadTags), TagsHeard)
    BY <2>1 DEF DataInv, DataConveyed
  <2>4. Carrying(c, d, TRUE, OfferSaid, WaitsAs(ReadOffers), MovesAs(ReadOffers), OfferHeard)
    <3>1. \A s \in Things, lines \in Seq(Sent) :
            Says(c, s, lines) => Sift(lines, WaitsAs(ReadOffers)) = OfferSaid[s]
      BY SaysOffers
    <3>2. \A m \in Relays : Receiving(d, m) /\ m.author = c =>
            Sift(Emitted(d, m), OfferHeard) = MovesAs(ReadOffers)[m]
      BY ListenedData
    <3> QED
      BY <2>2, <3>1, <3>2, DataTypes, DataCarried
  <2>5. Carrying(c, d, TRUE, TagsSaid, WaitsAs(ReadTags), MovesAs(ReadTags), TagsHeard)
    <3>1. \A s \in Things, lines \in Seq(Sent) :
            Says(c, s, lines) => Sift(lines, WaitsAs(ReadTags)) = TagsSaid[s]
      BY SaysOffers
    <3>2. \A m \in Relays : Receiving(d, m) /\ m.author = c =>
            Sift(Emitted(d, m), TagsHeard) = MovesAs(ReadTags)[m]
      BY ListenedData
    <3> QED
      BY <2>2, <3>1, <3>2, DataTypes, DataCarried
  <2>6. /\ WaitsAs(ReadOffers) \in Contributes(Sent, OfferValues)
        /\ MovesAs(ReadOffers) \in Contributes(Relays, OfferValues)
        /\ WaitsAs(ReadTags) \in Contributes(Sent, TagValues)
        /\ MovesAs(ReadTags) \in Contributes(Relays, TagValues)
    BY DataTypes, ReadingTypes
  <2>7. Conveyed(c, d, TRUE, OfferSaid, WaitsAs(ReadOffers), MovesAs(ReadOffers), OfferHeard)'
    BY <2>3, <2>4, <2>6, DataTypes, ConveyedStep
  <2>8. Conveyed(c, d, TRUE, TagsSaid, WaitsAs(ReadTags), MovesAs(ReadTags), TagsHeard)'
    BY <2>3, <2>5, <2>6, DataTypes, ConveyedStep
  <2> QED
    BY <2>7, <2>8
<1>2. NamesStay'
  BY NamesStep DEF DataInv
<1> QED
  BY <1>1, <1>2 DEF DataInv

(* What is carried is what DataArrives speaks of.                          *)
LEMMA DataAreOf ==
  ASSUME TypeInv, renames = 0, NEW c \in Clients, NEW d \in Clients, c # d
  PROVE  /\ OfSaid(c, d, SaidOffers) = Sift(said, SaidFor(c, d, TRUE, OfferSaid))
         /\ OfHeard(c, d, HeardOffers) = Sift(heard[d], HeardFrom(c, TRUE, OfferHeard))
         /\ OfSaid(c, d, SaidTags) = Sift(said, SaidFor(c, d, TRUE, TagsSaid))
         /\ OfHeard(c, d, HeardTags) = Sift(heard[d], HeardFrom(c, TRUE, TagsHeard))
<1>1. /\ \A i \in DOMAIN said : said[i] \in Things
      /\ \A i \in DOMAIN heard[d] : heard[d][i] \in Events
  <2>1. said \in Seq(Things) /\ heard[d] \in Seq(Events)
    BY DEF TypeInv
  <2> QED
    BY <2>1
<1>2. [i \in DOMAIN said |-> IF said[i].by = c /\ c # d /\ Arrives(said[i].target, d)
                             THEN SaidOffers(said[i]) ELSE <<>>]
        = [i \in DOMAIN said |-> SaidFor(c, d, TRUE, OfferSaid)[said[i]]]
  BY <1>1 DEF SaidFor, OfferSaid, Arrives
<1>3. [i \in DOMAIN said |-> IF said[i].by = c /\ c # d /\ Arrives(said[i].target, d)
                             THEN SaidTags(said[i]) ELSE <<>>]
        = [i \in DOMAIN said |-> SaidFor(c, d, TRUE, TagsSaid)[said[i]]]
  BY <1>1 DEF SaidFor, TagsSaid, Arrives
<1>4. [i \in DOMAIN heard[d] |-> IF heard[d][i].from = c /\ c # d /\ (heard[d][i].chan \/ renames = 0)
                                 THEN HeardOffers(heard[d][i]) ELSE <<>>]
        = [i \in DOMAIN heard[d] |-> HeardFrom(c, TRUE, OfferHeard)[heard[d][i]]]
  BY <1>1 DEF HeardFrom, OfferHeard
<1>5. [i \in DOMAIN heard[d] |-> IF heard[d][i].from = c /\ c # d /\ (heard[d][i].chan \/ renames = 0)
                                 THEN HeardTags(heard[d][i]) ELSE <<>>]
        = [i \in DOMAIN heard[d] |-> HeardFrom(c, TRUE, TagsHeard)[heard[d][i]]]
  BY <1>1 DEF HeardFrom, TagsHeard
<1> QED
  BY <1>2, <1>3, <1>4, <1>5 DEF OfSaid, OfHeard, Sift

(* Of what one said itself, nothing is meant.                              *)
LEMMA OwnData ==
  ASSUME TypeInv, NEW c \in Clients
  PROVE  /\ OfSaid(c, c, SaidOffers) = <<>> /\ OfHeard(c, c, HeardOffers) = <<>>
         /\ OfSaid(c, c, SaidTags) = <<>> /\ OfHeard(c, c, HeardTags) = <<>>
<1>1. said \in Seq(Things) /\ heard[c] \in Seq(Events)
  BY DEF TypeInv
<1>2. /\ [i \in DOMAIN said |-> IF said[i].by = c /\ c # c /\ Arrives(said[i].target, c)
                                THEN SaidOffers(said[i]) ELSE <<>>] = [i \in DOMAIN said |-> <<>>]
      /\ [i \in DOMAIN said |-> IF said[i].by = c /\ c # c /\ Arrives(said[i].target, c)
                                THEN SaidTags(said[i]) ELSE <<>>] = [i \in DOMAIN said |-> <<>>]
      /\ [i \in DOMAIN heard[c] |-> IF heard[c][i].from = c /\ c # c /\ (heard[c][i].chan \/ renames = 0)
                                    THEN HeardOffers(heard[c][i]) ELSE <<>>]
           = [i \in DOMAIN heard[c] |-> <<>>]
      /\ [i \in DOMAIN heard[c] |-> IF heard[c][i].from = c /\ c # c /\ (heard[c][i].chan \/ renames = 0)
                                    THEN HeardTags(heard[c][i]) ELSE <<>>]
           = [i \in DOMAIN heard[c] |-> <<>>]
  OBVIOUS
<1>3. FlattenSeq([i \in DOMAIN said |-> <<>>]) = <<>>
  BY <1>1, NothingFlat
<1>4. FlattenSeq([i \in DOMAIN heard[c] |-> <<>>]) = <<>>
  BY <1>1, NothingFlat
<1> QED
  BY <1>2, <1>3, <1>4 DEF OfSaid, OfHeard

LEMMA DataGotThrough == TypeInv /\ DataConveyed => DataArrives
<1> SUFFICES ASSUME TypeInv, DataConveyed, renames = 0, NEW c \in Clients, NEW d \in Clients
             PROVE  /\ IsPrefix(OfHeard(c, d, HeardOffers), OfSaid(c, d, SaidOffers))
                    /\ Idle => OfHeard(c, d, HeardOffers) = OfSaid(c, d, SaidOffers)
                    /\ IsPrefix(OfHeard(c, d, HeardTags), OfSaid(c, d, SaidTags))
                    /\ Idle => OfHeard(c, d, HeardTags) = OfSaid(c, d, SaidTags)
  BY DEF DataArrives, Arrive
<1>1. CASE c = d
  <2>1. /\ OfSaid(c, d, SaidOffers) = <<>> /\ OfHeard(c, d, HeardOffers) = <<>>
        /\ OfSaid(c, d, SaidTags) = <<>> /\ OfHeard(c, d, HeardTags) = <<>>
    BY <1>1, OwnData
  <2>2. IsPrefix(<<>>, <<>>)
    BY DEF IsPrefix
  <2> QED
    BY <2>1, <2>2
<1>2. CASE c # d
  <2>1. /\ WaitsAs(ReadOffers) \in Contributes(Sent, OfferValues)
        /\ MovesAs(ReadOffers) \in Contributes(Relays, OfferValues)
        /\ WaitsAs(ReadTags) \in Contributes(Sent, TagValues)
        /\ MovesAs(ReadTags) \in Contributes(Relays, TagValues)
    BY DataTypes, ReadingTypes
  <2>2. /\ Conveyed(c, d, TRUE, OfferSaid, WaitsAs(ReadOffers), MovesAs(ReadOffers), OfferHeard)
        /\ Conveyed(c, d, TRUE, TagsSaid, WaitsAs(ReadTags), MovesAs(ReadTags), TagsHeard)
    BY <1>2 DEF DataConveyed
  <2>3. PICK H, S : H = Sift(heard[d], HeardFrom(c, TRUE, OfferHeard))
                    /\ S = Sift(said, SaidFor(c, d, TRUE, OfferSaid))
    OBVIOUS
  <2>4. IsPrefix(H, S) /\ (Idle => H = S)
    <3>1. PICK f \in Contributes(Things, OfferValues), w \in Contributes(Sent, OfferValues),
               v \in Contributes(Relays, OfferValues), e \in Contributes(Events, OfferValues) :
            f = OfferSaid /\ w = WaitsAs(ReadOffers) /\ v = MovesAs(ReadOffers) /\ e = OfferHeard
      BY <2>1, DataTypes
    <3>2. PICK all \in BOOLEAN : all = TRUE
      OBVIOUS
    <3>3. Conveyed(c, d, all, f, w, v, e)
      BY <2>2, <3>1, <3>2
    <3>4. H = Sift(heard[d], HeardFrom(c, all, e)) /\ S = Sift(said, SaidFor(c, d, all, f))
      BY <2>3, <3>1, <3>2
    <3> QED
      BY <1>2, <3>3, <3>4, ConveyedPrefix
  <2>5. PICK K, T : K = Sift(heard[d], HeardFrom(c, TRUE, TagsHeard))
                    /\ T = Sift(said, SaidFor(c, d, TRUE, TagsSaid))
    OBVIOUS
  <2>6. IsPrefix(K, T) /\ (Idle => K = T)
    <3>1. PICK f \in Contributes(Things, TagValues), w \in Contributes(Sent, TagValues),
               v \in Contributes(Relays, TagValues), e \in Contributes(Events, TagValues) :
            f = TagsSaid /\ w = WaitsAs(ReadTags) /\ v = MovesAs(ReadTags) /\ e = TagsHeard
      BY <2>1, DataTypes
    <3>2. PICK all \in BOOLEAN : all = TRUE
      OBVIOUS
    <3>3. Conveyed(c, d, all, f, w, v, e)
      BY <2>2, <3>1, <3>2
    <3>4. K = Sift(heard[d], HeardFrom(c, all, e)) /\ T = Sift(said, SaidFor(c, d, all, f))
      BY <2>5, <3>1, <3>2
    <3> QED
      BY <1>2, <3>3, <3>4, ConveyedPrefix
  <2>7. /\ OfSaid(c, d, SaidOffers) = S /\ OfHeard(c, d, HeardOffers) = H
        /\ OfSaid(c, d, SaidTags) = T /\ OfHeard(c, d, HeardTags) = K
    BY <1>2, <2>3, <2>5, DataAreOf
  <2> QED
    BY <2>4, <2>6, <2>7
<1> QED
  BY <1>1, <1>2

(* What is offered and the tags that are sent arrive, each in order and as *)
(* they were given, while nobody was renamed: what the writers of offers   *)
(* and of tags escape and quote is what their readers take away, through   *)
(* the server and the encodings between (dcc.ts, message_tags.ts,          *)
(* parsers.ts, ctcp.ts).                                                   *)
THEOREM DataArriveWhole == ASSUME PlainData PROVE Spec => []DataArrives
<1>1. TypeInv /\ DataInv /\ [Next]_vars => DataInv'
  BY DataStep
<1>2. TypeInv /\ DataInv => DataArrives
  BY DataGotThrough DEF DataInv
<1> QED
  BY <1>1, <1>2, TypeInit, TypeStep, DataInit, PTL DEF Spec
=============================================================================
