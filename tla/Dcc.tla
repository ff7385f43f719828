-------------------------------- MODULE Dcc --------------------------------
(***************************************************************************)
(* The DCC offers of plugins/dcc.ts as they are written by client.dcc()    *)
(* and read by createDcc(). What is written is a sequence of units: a      *)
(* verb, a number and a host are one unit each, a file name is spelt out,  *)
(* since spaces, quotes and backslashes in it are what the grammar has     *)
(* trouble with.                                                           *)
(***************************************************************************)
EXTENDS Integers, Sequences, SequencesExt, FiniteSetsExt

Blank == " "
Quote == "\""
Backslash == "\\"

\* Numbers, by what parseUint() and parsePort() tell apart.
Ports == {"1", "65535"}
Numbers == Ports \cup {"0", "65536"}

\* parseHost(): the spellings it reads, one of each form, and their values.
ParseHost ==
  [h \in {"0", "16909060", "0.0.0.0", "1.2.3.4", "::", "[::]", "FE80::1",
          "[fe80::1]", "irc.example", "localhost"} |->
     CASE h \in {"0", "0.0.0.0"} -> "0.0.0.0"
       [] h \in {"16909060", "1.2.3.4"} -> "1.2.3.4"
       [] h \in {"::", "[::]"} -> "::"
       [] h \in {"FE80::1", "[fe80::1]"} -> "fe80::1"
       [] h = "irc.example" -> h
       [] h = "localhost" -> "none"]

\* fmtHost(): a number for IPv4, brackets for IPv6.
FmtHost(h) ==
  LET value == ParseHost[h]
  IN CASE value = "0.0.0.0" -> "0"
       [] value = "1.2.3.4" -> "16909060"
       [] value = "::" -> "[::]"
       [] value = "fe80::1" -> "[fe80::1]"
       [] OTHER -> h

IsPassivePlaceholder(value) == value \in {"0", "0.0.0.0", "::"}

FmtFilename_Bug_QuotesOnly(name) ==
  IF \E i \in DOMAIN name : name[i] \in {Blank, Quote, Backslash}
  THEN <<Quote>>
         \o FlattenSeq([i \in DOMAIN name |->
              IF name[i] = Quote THEN <<Backslash, name[i]>> ELSE <<name[i]>>])
         \o <<Quote>>
  ELSE name

\* fmtFilename(): quoted and escaped where needed.
FmtFilename(name) ==
  IF \E i \in DOMAIN name : name[i] \in {Blank, Quote, Backslash}
  THEN <<Quote>>
         \o FlattenSeq([i \in DOMAIN name |->
              IF name[i] \in {Quote, Backslash} THEN <<Backslash, name[i]>>
              ELSE <<name[i]>>])
         \o <<Quote>>
  ELSE name

\* Which parameters an action has, and in which order (DCC_SCHEMA).
Actions == {"send", "chat", "schat", "resume", "accept"}
HasFile(action) == action \in {"send", "resume", "accept"}
HasHost(action) == action \in {"send", "chat", "schat"}
Verb == [send |-> "SEND", chat |-> "CHAT", schat |-> "SCHAT",
         resume |-> "RESUME", accept |-> "ACCEPT"]

\* DccCmd: what client.dcc() takes.
Command ==
  [action : Actions, file : Seq(STRING), host : DOMAIN ParseHost, port : Numbers,
   size : Numbers, token : {<<>>} \cup {<<n>> : n \in Numbers}]

\* client.dcc(): the parameters, separated by spaces. size stands for size
\* and position; a token is <<>> when there is none.
FormatDcc(cmd) ==
  LET fields == (IF HasFile(cmd.action) THEN <<FmtFilename(cmd.file)>> ELSE <<>>)
                  \o (IF HasHost(cmd.action) THEN <<<<FmtHost(cmd.host)>>>> ELSE <<>>)
                  \o <<<<cmd.port>>>>
                  \o (IF HasFile(cmd.action) THEN <<<<cmd.size>>>> ELSE <<>>)
                  \o (IF cmd.token # <<>> THEN <<cmd.token>> ELSE <<>>)
  IN <<Verb[cmd.action]>>
       \o FlattenSeq([i \in DOMAIN fields |-> <<Blank>> \o fields[i]])

(***************************************************************************)
(* Reading                                                                 *)
(***************************************************************************)
\* nextToken(): the token at or after position i, and the position after
\* the space that ends it.
NextToken(s, i) ==
  LET start == Min({Len(s) + 1} \cup {k \in i .. Len(s) : s[k] # Blank})
      After(k) == IF k <= Len(s) /\ s[k] = Blank THEN k + 1 ELSE k
      escaped[k \in start .. Len(s)] ==
        k > start + 1 /\ s[k - 1] = Backslash /\ ~escaped[k - 1]
      close == Min({Len(s) + 1} \cup
                   {k \in start + 1 .. Len(s) : s[k] = Quote /\ ~escaped[k]})
      kept == FlattenSeq([k \in 1 .. close - start - 1 |->
                            IF s[start + k] # Backslash \/ escaped[start + k]
                            THEN <<s[start + k]>> ELSE <<>>])
      end == Min({Len(s) + 1} \cup {k \in start .. Len(s) : s[k] = Blank})
  IN IF start > Len(s) THEN [tok |-> <<>>, next |-> start]
     ELSE IF s[start] = Quote
     THEN [tok |-> kept, next |-> After(Min({close + 1, Len(s) + 1}))]
     ELSE [tok |-> SubSeq(s, start, end - 1), next |-> After(end)]

IsUint(tok) == \E n \in Numbers : tok = <<n>>

\* parsePort(): "undefined" is not a port, a passive offer has port 0.
ParsePort(tok, passive) ==
  CASE passive /\ IsUint(tok) -> "0"
    [] ~passive /\ \E n \in Ports : tok = <<n>> -> tok[1]
    [] OTHER -> "undefined"

NoOffer == [action |-> "none", file |-> <<>>, host |-> "none", port |-> "0",
            size |-> "0", token |-> <<>>, passive |-> FALSE, tls |-> FALSE]

\* createDcc(). The tokens after the verb are numbered as in its branches:
\* the file name is the first where there is one, then come host and port.
CreateDcc(arg) ==
  LET action == CHOOSE a \in Actions : Verb[a] = arg[1]
      token[k \in 0 .. 5] == IF k = 0 THEN [tok |-> <<>>, next |-> 3]
                             ELSE NextToken(arg, token[k - 1].next)
      subtype == ~HasFile(action) /\ token[1].tok = <<"chat">>
      skip == (IF HasFile(action) THEN 1 ELSE 0) + (IF subtype THEN 1 ELSE 0)
      address == IF HasHost(action) THEN token[skip + 1].tok ELSE <<"1.2.3.4">>
      at == skip + (IF HasHost(action) THEN 2 ELSE 1)
      readable == Len(address) = 1 /\ address[1] \in DOMAIN ParseHost
      value == IF readable THEN ParseHost[address[1]] ELSE "none"
      passive == token[at].tok = <<"0">> \/ IsPassivePlaceholder(value)
      port == ParsePort(token[at].tok, passive)
      size == IF HasFile(action) THEN token[at + 1].tok ELSE <<"0">>
      last == token[at + (IF HasFile(action) THEN 2 ELSE 1)].tok
  IN IF \/ arg = <<>> \/ arg[1] \notin {Verb[a] : a \in Actions}
        \/ HasFile(action) /\ token[1].tok = <<>>
        \/ value = "none"
        \/ port = "undefined"
        \/ ~IsUint(size)
        \/ passive /\ ~IsUint(last)
     THEN NoOffer
     ELSE [action |-> IF action = "schat" THEN "chat" ELSE action,
           file |-> IF HasFile(action) THEN token[1].tok ELSE <<>>,
           host |-> IF HasHost(action) THEN value ELSE "none",
           port |-> port, size |-> size[1],
           token |-> IF IsUint(last) THEN last ELSE <<>>,
           passive |-> passive, tls |-> action = "schat"]

(***************************************************************************)
(* What an offer means, however it is written: the reference for the       *)
(* properties. An offer without a port of its own is passive and needs a   *)
(* token by which the answer finds it.                                     *)
(***************************************************************************)
Meaning(cmd) ==
  LET value == IF HasHost(cmd.action) THEN ParseHost[cmd.host] ELSE "unused"
      passive == cmd.port = "0" \/ value \in {"0.0.0.0", "::"}
  IN IF \/ value = "none"
        \/ passive /\ cmd.token = <<>>
        \/ ~passive /\ cmd.port \notin Ports
     THEN NoOffer
     ELSE [action |-> IF cmd.action = "schat" THEN "chat" ELSE cmd.action,
           file |-> IF HasFile(cmd.action) THEN cmd.file ELSE <<>>,
           host |-> IF HasHost(cmd.action) THEN value ELSE "none",
           port |-> IF passive THEN "0" ELSE cmd.port,
           size |-> IF HasFile(cmd.action) THEN cmd.size ELSE "0",
           token |-> cmd.token,
           passive |-> passive, tls |-> cmd.action = "schat"]
=============================================================================
