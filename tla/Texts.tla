------------------------------- MODULE Texts -------------------------------
(***************************************************************************)
(* What happens to a text between privmsg() and the line on the wire: it   *)
(* is cut into parts that fit (plugins/message_split.ts), and each part    *)
(* becomes the last parameter of a line (send() of core/client.ts), which  *)
(* a parser reads back (core/parsers.ts).                                  *)
(*                                                                         *)
(* A text is a sequence of UTF-16 units, as a JavaScript string is: "h"    *)
(* and "l" stand for the halves of a surrogate pair, "e" for a letter of   *)
(* two bytes, every other unit takes one byte.                             *)
(***************************************************************************)
EXTENDS Integers, Sequences, FiniteSets, SequencesExt, FiniteSetsExt

Space == " "

\* Whether unit i of the text is half of a pair whose other half is there.
Paired(text, i) ==
  \/ text[i] = "h" /\ i < Len(text) /\ text[i + 1] = "l"
  \/ text[i] = "l" /\ i > 1 /\ text[i - 1] = "h"

\* The bytes TextEncoder makes of a text: 4 of a pair, 3 of half of one (the
\* replacement character).
Halves(text) == {i \in DOMAIN text : text[i] \in {"h", "l"}}

Bytes(text) ==
  LET double == {i \in DOMAIN text : text[i] = "e" \/ Paired(text, i)}
      triple == {i \in Halves(text) : ~Paired(text, i)}
  IN Len(text) + Cardinality(double) + 2 * Cardinality(triple)

\* What a reader decodes from those bytes.
Decoded(text) ==
  [i \in DOMAIN text |->
     IF i \in Halves(text) /\ ~Paired(text, i) THEN "?" ELSE text[i]]

(***************************************************************************)
(* splitMessage()                                                          *)
(***************************************************************************)
\* The longest prefix that fits.
CharLimit(text, max) ==
  Max({k \in 0 .. Len(text) : Bytes(SubSeq(text, 1, k)) <= max})

\* Where the next part ends and the one after it begins: around the last
\* space that the part, or the unit after it, has beyond its first unit; or,
\* without one, wherever the limit is.
Cut(text, max) ==
  LET limit == CharLimit(text, max)
      spaces == {p \in 2 .. Len(text) : p <= limit + 1 /\ text[p] = Space}
  IN IF spaces = {} THEN [end |-> limit, next |-> limit + 1]
     ELSE [end |-> Max(spaces) - 1, next |-> Max(spaces) + 1]

SplitMessage(text, max) ==
  LET Rest(start) == SubSeq(text, start, Len(text))
      parts[start \in 1 .. Len(text) + 1] ==
        IF start > Len(text) THEN <<>>
        ELSE IF Bytes(Rest(start)) <= max THEN <<Rest(start)>>
        ELSE LET cut == Cut(Rest(start), max)
             IN <<SubSeq(Rest(start), 1, cut.end)>> \o parts[start - 1 + cut.next]
  IN IF max <= 0 \/ Bytes(text) <= max THEN <<text>> ELSE parts[1]

(***************************************************************************)
(* send() and the parser at the other end                                  *)
(***************************************************************************)
TrimEnd(text) ==
  SubSeq(text, 1, Max({0} \cup {i \in DOMAIN text : text[i] # Space}))

\* send() puts ":" before a last parameter that needs it.
Prefixed(text) ==
  text # <<>> /\ (text[1] = ":" \/ \E i \in 2 .. Len(text) : text[i] = Space)

\* The text a server reads in a line of send(): all of it but the blanks at
\* its end, when it was prefixed. Otherwise a space it begins with only
\* separates the parameters, and ":" after that space is a prefix.
AsSent(text) ==
  IF Prefixed(text) \/ text = <<>> \/ text[1] # Space THEN TrimEnd(text)
  ELSE LET word == Tail(text)
       IN IF word # <<>> /\ word[1] = ":" THEN Tail(word) ELSE word

\* The texts that are read as they were written, wherever they are cut: no
\* pair to cut in two, and no part that begins with a space and a colon.
NoHalves(text) == \A i \in DOMAIN text : text[i] \notin {"h", "l"}
Readable(text) ==
  /\ NoHalves(text)
  /\ \A i \in 2 .. Len(text) :
       text[i] = ":" /\ text[i - 1] = Space => i > 2 /\ text[i - 2] # Space
=============================================================================
