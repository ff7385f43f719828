----------------------------- MODULE MCMessages -----------------------------
(***************************************************************************)
(* Texts, queries, offers and tags for TLC.                                *)
(***************************************************************************)
EXTENDS Messages, TLC

\* The nick that nobody begins with is longer than the others.
MCWidth == [n \in Nicks \cup {Chan} |-> IF n \in SpareNicks THEN 2 ELSE 1]

\* At first the clients' hosts are shorter than message_split assumes.
MCFirstHost == [c \in Clients |-> 1]

\* A text that fits, one that is cut at the first or the second of two spaces
\* or within a word, and one at a limit that a unit of two bytes makes earlier.
MCSayings ==
  {<<":">>, <<"a", "b", "c", "d", " ", " ", "c", "d", " ">>,
   <<"e", "e", ":", " ", "e", "a">>}

MCQueries ==
  {<<"action", <<"a">>>>, <<"action", <<>>>>, <<"ping", <<"1">>>>, <<"ping", <<>>>>,
   <<"version", <<>>>>, <<"time", <<>>>>, <<"clientinfo", <<>>>>, <<"finger", <<>>>>}

MCOffer(action, file, h, port, token) ==
  [action |-> action, file |-> file, host |-> h, port |-> port,
   size |-> "65536", token |-> token]

\* File names with everything that needs care; hosts and ports of each kind.
MCOffers ==
  {MCOffer("send", file, "1.2.3.4", "1", <<>>) :
     file \in UNION {[1 .. n -> {"a", " ", Quote, Backslash}] : n \in 1 .. 3}}
    \cup {MCOffer(action, <<"a", " ", Quote>>, "1.2.3.4", port, token) :
            action \in {"resume", "accept"}, port \in {"0", "65535", "65536"},
            token \in {<<>>, <<"0">>}}
    \cup {MCOffer("schat", <<>>, h, port, token) :
            h \in DOMAIN ParseHost, port \in {"0", "1", "65536"},
            token \in {<<>>, <<"1">>}}
    \cup {MCOffer("chat", <<>>, "irc.example", "1", <<>>)}

\* Values with everything that needs care, beside one another and beside tags
\* without a value.
MCTagLists ==
  LET values == UNION {[1 .. n -> {"s", ";", " ", "=", "\\", "cr"}] : n \in 0 .. 2}
      first == {Tag(<<"+a">>, TRUE, v) : v \in values} \cup {Tag(<<"+a">>, FALSE, <<>>)}
      second == {Tag(<<"+b">>, TRUE, <<"\\">>), Tag(<<"+b">>, FALSE, <<>>)}
  IN {<<>>} \cup {<<t>> : t \in first} \cup {<<t, u>> : t \in first, u \in second}

ASSUME PlainAssumption == PlainSayings /\ PlainData

MCSymmetry == Permutations(Clients)
=============================================================================
