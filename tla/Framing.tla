------------------------------ MODULE Framing -------------------------------
(***************************************************************************)
(* From bytes to lines: read() and loop() of core/client.ts on top of the  *)
(* connection of the runtime, with parseChunk() of core/parsers.ts.  A     *)
(* read that is settled is decoded, and its complete lines are emitted,    *)
(* before the next event of the socket: the client goes on in the          *)
(* microtask of the promise.                                               *)
(*                                                                         *)
(* The bytes of a stream are letters, "cr", "lf", the first byte of a      *)
(* letter of two bytes ("two") or of a byte order mark ("bom": three), and *)
(* those after it ("trail").  A letter is written like its first byte.     *)
(***************************************************************************)
EXTENDS NodeConn, FiniteSets, SequencesExt, TLC

CONSTANTS Alphabet,  \* the letters, and the other bytes
          Streams    \* what the other side may send

Size(byte) == CASE byte = "two" -> 2 [] byte = "bom" -> 3 [] OTHER -> 1
Replacement == "?"

(* The bytes of a text: one goes on with a letter exactly if a letter that *)
(* begins before it reaches that far.  No letter is written like the       *)
(* replacement character, by which the properties know what was lost.      *)
IsText(bytes) ==
  \A i \in DOMAIN bytes :
    /\ bytes[i] # Replacement
    /\ bytes[i] = "trail" <=> \E j \in 1 .. i - 1 : i < j + Size(bytes[j])

(* No byte order mark follows a "cr", which a line has only at its end: if *)
(* it is dropped it does not bring a bare "cr" and an "lf" together.       *)
IsMarked(bytes) ==
  \A i \in DOMAIN bytes : bytes[i] = "bom" /\ i > 1 => bytes[i - 1] # "cr"

ASSUME FramingAssumption ==
  /\ Streams \subseteq Seq(Alphabet)
  /\ \A s \in Streams : Len(s) >= MaxSent /\ IsText(s) /\ IsMarked(s)

VARIABLES
  stream,  \* what the other side sends
  chunk,   \* this.chunk: the characters of the incomplete last line
  lines,   \* history: the lines that were emitted
  cuts     \* history: the last byte of each read

frameVars == <<stream, chunk, lines, cuts>>
allVars == <<vars, frameVars>>

-----------------------------------------------------------------------------
(* decode() of a buffer by itself: what byte i of it becomes.  A letter    *)
(* that is not whole in it, and each byte of one that began before it,     *)
(* gives a replacement character.  TextDecoder drops a byte order mark     *)
(* that comes first.                                                       *)
Begins(i) == stream[i] # "trail"
Whole(i, last) == i + Size(stream[i]) - 1 <= last

Chars(bytes, i) ==
  LET inside == \E j \in bytes.first .. i : Begins(j)
  IN  IF Begins(i) /\ Whole(i, bytes.last)
      THEN IF stream[i] = "bom" /\ i = bytes.first THEN <<>> ELSE <<stream[i]>>
      ELSE IF Begins(i) \/ ~inside THEN <<Replacement>> ELSE <<>>

Decode(bytes) ==
  FlattenSeq([k \in 1 .. Length(bytes) |-> Chars(bytes, bytes.first + k - 1)])

(* parseChunk(): the lines up to the last "\r\n", and what follows it.     *)
EndsLine(input, i) == i < Len(input) /\ input[i] = "cr" /\ input[i + 1] = "lf"

ParseChunk(input) ==
  LET from[start \in 1 .. Len(input) + 1] ==
        LET ends == {i \in start .. Len(input) : EndsLine(input, i)}
            end == Min(ends)
        IN  IF ends = {} THEN [messages |-> <<>>, remainder |-> SubSeq(input, start, Len(input))]
            ELSE [messages |-> <<SubSeq(input, start, end - 1)>> \o from[end + 2].messages,
                  remainder |-> from[end + 2].remainder]
  IN  from[1]

(* loop() and read() after a read that gave bytes.                         *)
Consume(bytes) ==
  LET parsed == ParseChunk(chunk \o Decode(bytes))
  IN  /\ lines' = lines \o parsed.messages
      /\ chunk' = parsed.remainder
      /\ cuts' = cuts \cup {bytes.last}

Continue_Bug_DropsRest ==
  IF delivered' = delivered THEN UNCHANGED <<chunk, lines, cuts>>
  ELSE /\ lines' = lines \o ParseChunk(Decode(delivered')).messages
       /\ chunk' = ParseChunk(Decode(delivered')).remainder
       /\ cuts' = cuts \cup {delivered'.last}
Continue == IF delivered' = delivered THEN UNCHANGED <<chunk, lines, cuts>>
            ELSE Consume(delivered')

FrameInit == /\ Init
             /\ stream \in Streams
             /\ chunk = <<>> /\ lines = <<>> /\ cuts = {}

FrameNext == Next /\ Continue /\ UNCHANGED stream

FrameSpec == /\ FrameInit /\ [][FrameNext]_allVars
             /\ WF_allVars(Read /\ Continue /\ UNCHANGED stream)
             /\ WF_allVars(OnClose /\ Continue /\ UNCHANGED stream)

-----------------------------------------------------------------------------
(* The line ends among the first n bytes sent.                             *)
LineEnds(n) == {i \in 1 .. n - 1 : EndsLine(stream, i)}

(* The letters in the bytes between two line ends that no read has cut,    *)
(* nor dropped because it began with one.                                  *)
Previous(end) == LET before == {i \in LineEnds(MaxSent) : i < end}
                 IN  IF before = {} THEN 0 ELSE 1 + Max(before)
IsDropped(i) == stream[i] = "bom" /\ i - 1 \in cuts \cup {0}
IsCut(i) == \E cut \in cuts : i <= cut /\ cut < i + Size(stream[i]) - 1
Letter(i) == IF Begins(i) /\ ~IsCut(i) /\ ~IsDropped(i) THEN <<stream[i]>> ELSE <<>>
Uncut(end) == LET first == Previous(end) + 1
              IN  FlattenSeq([k \in 1 .. end - first |-> Letter(first + k - 1)])

(* The letters of a line that have not been replaced.                      *)
Kept(line) ==
  FlattenSeq([k \in DOMAIN line |-> IF line[k] = Replacement THEN <<>> ELSE <<line[k]>>])

(* However the bytes were cut into data events and reads, the lines that   *)
(* were emitted are those that were read, no more and no fewer, with all   *)
(* their letters but those of several bytes that a read has cut, which are *)
(* replaced, and the byte order marks at the beginning of a read.          *)
LinesArrive ==
  /\ Len(lines) = Cardinality(LineEnds(delivered.last))
  /\ \A end \in LineEnds(delivered.last) :
       Kept(lines[Cardinality(LineEnds(end + 1))]) = Uncut(end)

(* What was received is emitted, although the connection may end or fail   *)
(* right behind it, or be closed.                                          *)
ReceivedIsEmitted == []<>(Len(lines) = Cardinality(LineEnds(sent)))
=============================================================================
