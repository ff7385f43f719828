-------------------------------- MODULE Tags --------------------------------
(***************************************************************************)
(* Message tags as send() of core/client.ts writes them in front of a line *)
(* and parseMessage() of core/parsers.ts reads them. What is written is a  *)
(* sequence of units, a key being one; "cr" and "lf" stand for the two     *)
(* characters that end a line.                                             *)
(***************************************************************************)
EXTENDS Integers, Sequences, SequencesExt, FiniteSetsExt

Escape == "\\"

\* The replacements of escapeTagValue(), which are those of UNESCAPE_MAP.
Replacement ==
  [c \in {";", " ", Escape, "cr", "lf"} |->
     CASE c = ";" -> ":" [] c = " " -> "s" [] c = Escape -> Escape
       [] c = "cr" -> "r" [] c = "lf" -> "n"]

EscapeTagValue_Bug_KeepsBackslash(value) ==
  FlattenSeq([i \in DOMAIN value |->
    IF value[i] \in DOMAIN Replacement \ {Escape}
    THEN <<Escape, Replacement[value[i]]>> ELSE <<value[i]>>])

EscapeTagValue(value) ==
  FlattenSeq([i \in DOMAIN value |->
    IF value[i] \in DOMAIN Replacement THEN <<Escape, Replacement[value[i]]>>
    ELSE <<value[i]>>])

\* A backslash and what follows it are one unit; what is no escape loses the
\* backslash, and one at the end stays.
UnescapeTagValue(value) ==
  LET escaped[i \in DOMAIN value] ==
        i > 1 /\ value[i - 1] = Escape /\ ~escaped[i - 1]
      Meant(u) == {c \in DOMAIN Replacement : Replacement[c] = u}
      Unit(i) == IF escaped[i]
                 THEN <<IF Meant(value[i]) = {} THEN value[i]
                        ELSE CHOOSE c \in Meant(value[i]) : TRUE>>
                 ELSE IF value[i] = Escape /\ i < Len(value) THEN <<>>
                 ELSE <<value[i]>>
  IN FlattenSeq([i \in DOMAIN value |-> Unit(i)])

\* A tag without a value is not one whose value is empty.
Tag(key, given, value) == [key |-> key, given |-> given, value |-> value]

\* send(): nothing where there are no tags.
FormatTags(tags) ==
  LET Pair(tag) == IF tag.given THEN tag.key \o <<"=">> \o EscapeTagValue(tag.value)
                   ELSE tag.key
  IN IF tags = <<>> THEN <<>>
     ELSE <<"@">> \o Pair(Head(tags))
            \o FlattenSeq([i \in 1 .. Len(tags) - 1 |-> <<";">> \o Pair(tags[i + 1])])
            \o <<" ">>

\* parseMessage(): a tag begins after "@" and after each ";", and ends before
\* the next ";" or the first space; the first "=" in it ends the key.
ParseTags(raw) ==
  LET end == Min({i \in DOMAIN raw : raw[i] = " "})
      starts == {i \in 2 .. end - 1 : i = 2 \/ raw[i - 1] = ";"}
      TagAt(start) ==
        LET pos == Min({end} \cup {i \in start .. end - 1 : raw[i] = ";"})
            eq == Min({pos} \cup {i \in start .. pos - 1 : raw[i] = "="})
        IN IF eq < pos
           THEN Tag(SubSeq(raw, start, eq - 1), TRUE,
                    UnescapeTagValue(SubSeq(raw, eq + 1, pos - 1)))
           ELSE Tag(SubSeq(raw, start, pos - 1), FALSE, <<>>)
  IN IF raw = <<>> \/ raw[1] # "@" THEN {} ELSE {TagAt(start) : start \in starts}
=============================================================================
