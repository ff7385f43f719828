------------------------- MODULE RegistrationProofs -------------------------
(***************************************************************************)
(* What holds of Registration for every set of capabilities, of options    *)
(* and of servers, and for any number of connections and of notices.       *)
(***************************************************************************)
EXTENDS Registration, Induction

ClientVerb == {"LS", "REQ", "END", "MECHANISM", "CREDENTIALS", "REGISTER", "IDENTIFY"}
ServerVerb == {"LS", "LS*", "ACK", "NAK", "NEW", "DEL", "+", "903", "904", "906", "907", "451", "001"}

ClientLine(verbs) == [verb : verbs, caps : SUBSET Cap]
ServerLine(verbs) == [verb : verbs, caps : SUBSET Cap, words : SUBSET Cap]
Waiting(kinds) == [kind : kinds, lsCaps : SUBSET Cap]
Kinds(sasl) == IF sasl THEN {"ls", "sasl"} ELSE {"ls"}

(* What a CAP line finds and leaves, while the listeners hear of it: with  *)
(* SASL, a mechanism may be announced.                                     *)
CapVerbs(sasl) == IF sasl THEN {"REQ", "END", "MECHANISM"} ELSE {"REQ", "END"}
Hearing(sasl) == [available : SUBSET Cap, enabled : SUBSET Cap, complete : BOOLEAN,
                  listeners : Seq(Waiting(Kinds(sasl))), out : Seq(ClientLine(CapVerbs(sasl)))]


(* What is on its way, when the server has logged the client in or not.    *)
(* With "sasl" and "saslExternal", the client asks to be registered only   *)
(* then, so that it never identifies itself and is never told that it is   *)
(* not registered; without SASL, nobody speaks of it.                      *)
Strict == options.method \in {"sasl", "saslExternal"} /\ UsesSasl
May(s) == s.loggedIn \/ s.demanded
Says(strict, sasl, may) ==
  {v \in ClientVerb : /\ v = "REGISTER" => ~strict \/ may
                      /\ v = "IDENTIFY" => ~strict
                      /\ v \in {"MECHANISM", "CREDENTIALS"} => sasl}
Hears(strict, sasl, may) ==
  {v \in ServerVerb : /\ v = "903" => sasl /\ (strict => may)
                      /\ v = "451" => ~strict \/ may
                      /\ v \in {"+", "904", "906", "907"} => sasl}
LinesAllowed == /\ toServer \in Seq(ClientLine(Says(Strict, UsesSasl, May(server))))
                /\ toClient \in Seq(ServerLine(Hears(Strict, UsesSasl, May(server))))
                /\ ~up => toServer = <<>> /\ toClient = <<>>

ServerState == [offers : SUBSET Cap, bare : BOOLEAN, acked : SUBSET Cap,
                negotiation : {"none", "open", "ended"}, sasl : {"idle", "asked"},
                loggedIn : BOOLEAN, user : BOOLEAN, registered : BOOLEAN,
                identified : BOOLEAN, demanded : BOOLEAN, notices : Nat]
Sound(s, strict, sasl) == /\ s \in ServerState
                          /\ s.registered => s.user
                          /\ strict /\ s.user => May(s)
                          /\ ~sasl => s.sasl = "idle"
ServerOK == Sound(server, Strict, UsesSasl)

SaslIsUsed == /\ capListeners \in Seq(Waiting(Kinds(UsesSasl)))
              /\ ~UsesSasl => /\ authOnce = 0 /\ successOnce = 0 /\ timers = {}

(* Without SASL, a CAP END was sent when completeAfterAck was cleared; on  *)
(* the first connection, a mechanism when the only listener for it left.   *)
Has(s, S) == \E i \in DOMAIN s : s[i] \in S
One(s, S) == \A i, j \in DOMAIN s : s[i] \in S /\ s[j] \in S => i = j
Verb(v) == ClientLine({v})
Sasl == Waiting({"sasl"})
EndsOnce == /\ ends \in Nat
            /\ ~UsesSasl => ends <= 1 /\ (completeAfterAck => ends = 0)
AnnouncesOnce == /\ mechanisms \in Nat
                 /\ epoch = 0 => capListeners = <<>> /\ ~up
                 /\ epoch = 1 => /\ One(capListeners, Sasl)
                                 /\ mechanisms <= 1
                                 /\ Has(capListeners, Sasl) => mechanisms = 0

(* The client's picture of the capabilities, and what the lines on their   *)
(* way make of it: `listing` as long as an onLs collects.                  *)
CapLine == ServerLine(ServerVerb)
View == [enabled : SUBSET Cap, available : SUBSET Cap, listing : BOOLEAN, collected : SUBSET Cap]
See(v, m) ==
  CASE m.verb = "ACK" -> [v EXCEPT !.enabled = @ \cup m.caps]
    [] m.verb = "NEW" -> [v EXCEPT !.available = @ \cup m.caps]
    [] m.verb = "DEL" -> [v EXCEPT !.enabled = @ \ m.caps, !.available = @ \ m.caps]
    [] m.verb = "LS*" /\ v.listing -> [v EXCEPT !.collected = @ \cup m.caps]
    [] m.verb = "LS" /\ v.listing -> [v EXCEPT !.available = @ \cup (v.collected \cup m.caps),
                                               !.listing = FALSE]
    [] OTHER -> v
Sees(f, lines) == /\ f \in [0 .. Len(lines) -> View]
                  /\ \A i \in 1 .. Len(lines) : f[i] = See(f[i - 1], lines[i])
Leads(v, lines, w) == \E f : Sees(f, lines) /\ f[0] = v /\ f[Len(lines)] = w

Lister == Waiting({"ls"})
ListersOf(listing, collected) == {l \in Lister : listing /\ l.lsCaps = collected}
Shows(v, caps, offers, ls) ==
  /\ v \in View /\ v.enabled = caps /\ v.available = offers
  /\ One(ls, Lister)
  /\ v.listing => Has(ls, Lister)
  /\ ~Has(ls, Lister \ ListersOf(v.listing, v.collected))

(* What the client will see when all lines have arrived is what the server *)
(* knows, until it has registered the client; before it has heard CAP LS,  *)
(* the client has seen nothing.                                            *)
Greets(lines) == /\ One(lines, Verb("LS"))
                 /\ \/ Len(lines) >= 1 /\ lines[1].verb = "LS"
                    \/ Len(lines) >= 2 /\ lines[1].verb = "REGISTER" /\ lines[2].verb = "LS"
Demands == ServerLine({"451"})
Listed(v, s, lines) == v.available = s.offers /\ ~v.listing /\ ~Has(lines, Verb("LS"))
Unlisted(v) == /\ toClient \in Seq(Demands) /\ v.available = {}
               /\ \/ toServer \in Seq(Verb("REGISTER")) /\ timers = {}
                  \/ v.listing /\ v.collected = {} /\ Greets(toServer)
Agrees(v) == /\ v.enabled = server.acked
             /\ ~server.registered => IF server.negotiation = "none" THEN Unlisted(v)
                                      ELSE Listed(v, server, toServer)
CapsPictured ==
  /\ epoch = 0 => enabled = {} /\ available = {}
  /\ epoch = 1 /\ up => \E v, w \in View : /\ Shows(v, enabled, available, capListeners)
                                           /\ Leads(v, toClient, w)
                                           /\ Agrees(w)

Safe == /\ TypeOK /\ LinesAllowed /\ ServerOK /\ SaslIsUsed
        /\ EndsOnce /\ AnnouncesOnce /\ CapsPictured

-----------------------------------------------------------------------------
(* The listeners hear of a CAP line one after the other.                   *)
Heard(h, s, ls, m) == /\ h[0] = s
                      /\ \A i \in 1 .. Len(ls) : h[i] = Hear(h[i - 1], ls[i], m)
                      /\ HearAll(s, ls, m) = h[Len(ls)]

LEMMA HearingIsAFold ==
  ASSUME NEW V, NEW W, NEW s \in V, NEW ls \in Seq(W), NEW m,
         \A t \in V, l \in W : Hear(t, l, m) \in V
  PROVE  \E h \in [0 .. Len(ls) -> V] : Heard(h, s, ls, m)
<1> DEFINE n == Len(ls)
           G == [p \in V \X (1 .. n) |-> Hear(p[1], ls[p[2]], m)]
           R(f) == f = [S \in SUBSET DOMAIN ls |->
                          IF S = {} THEN s ELSE Hear(f[S \ {Max(S)}], ls[Max(S)], m)]
           c == CHOOSE f : R(f)
<1>1. n \in Nat /\ DOMAIN ls = 1 .. n /\ \A i \in 1 .. n : ls[i] \in W
  OBVIOUS
<1>2. HearAll(s, ls, m) = c[DOMAIN ls]
  BY DEF HearAll, FoldLeft, MapThenFoldSet
<1>3. G \in Steps(V, n)
  BY <1>1 DEF Steps
<1>4. PICK f \in [SUBSET (1 .. n) -> V] : Folds(f, n, s, G)
  <2> HIDE DEF n, G
  <2> QED
    BY <1>1, <1>3, Fold
<1>5. R(f)
  <2>1. \A S \in SUBSET (1 .. n) : S # {} =>
          G[<<f[S \ {Max(S)}], Max(S)>>] = Hear(f[S \ {Max(S)}], ls[Max(S)], m)
    <3> TAKE S \in SUBSET (1 .. n)
    <3>1. HAVE S # {}
    <3>2. Max(S) \in 1 .. n
      <4> HIDE DEF n
      <4> QED
        BY <1>1, <3>1, Greatest
    <3>3. f[S \ {Max(S)}] \in V
      OBVIOUS
    <3> QED
      BY <3>2, <3>3
  <2> HIDE DEF G
  <2> QED
    BY <1>1, <1>4, <2>1 DEF Folds
<1>6. R(c)
  BY <1>5, Zenon
<1> HIDE DEF c
<1>7. c[{}] = s
  BY <1>6
<1>8. \A i \in 1 .. n : c[1 .. i] = Hear(c[1 .. (i - 1)], ls[i], m)
  <2> TAKE i \in 1 .. n
  <2>1. 1 .. i \in SUBSET DOMAIN ls /\ 1 .. i # {} /\ (1 .. i) \ {i} = 1 .. (i - 1)
    <3>1. i \in Nat /\ 1 <= i /\ i <= n
      BY <1>1
    <3>2. 1 .. i \subseteq 1 .. n /\ i \in 1 .. i
      BY <1>1, <3>1
    <3>3. (1 .. i) \ {i} = 1 .. (i - 1)
      BY <3>1
    <3> QED
      BY <1>1, <3>2, <3>3
  <2>2. Max(1 .. i) = i
    <3>1. i \in 1 .. i /\ 1 .. i \in SUBSET (1 .. n) /\ \A x \in 1 .. i : i >= x
      BY <1>1
    <3> HIDE DEF n
    <3> QED
      BY <1>1, <3>1, GreatestIs
  <2>3. c[1 .. i] = Hear(c[(1 .. i) \ {Max(1 .. i)}], ls[Max(1 .. i)], m)
    BY <1>6, <2>1
  <2> QED
    BY <2>1, <2>2, <2>3
<1>9. \A i \in 0 .. n : c[1 .. i] \in V
  <2> DEFINE Q == {i \in 0 .. n : c[1 .. i] \in V}
  <2>1. 0 \in Q
    <3>1. 1 .. 0 = {} /\ 0 \in 0 .. n
      BY <1>1
    <3> QED
      BY <1>7, <3>1
  <2>2. ASSUME NEW i \in 1 .. n, i - 1 \in Q PROVE i \in Q
    BY <1>1, <1>8, <2>2
  <2> HIDE DEF Q, n
  <2>3. \A i \in 0 .. n : i \in Q
    BY <1>1, <2>1, <2>2, UpTo
  <2> QED
    BY <2>3 DEF Q
<1> DEFINE h == [i \in 0 .. n |-> c[1 .. i]]
<1>10. h \in [0 .. n -> V]
  BY <1>9
<1>11. Heard(h, s, ls, m)
  <2>1. h[0] = s
    <3>1. 1 .. 0 = {} /\ 0 \in 0 .. n
      BY <1>1
    <3> QED
      BY <1>7, <3>1
  <2>2. \A i \in 1 .. n : h[i] = Hear(h[i - 1], ls[i], m)
    BY <1>8
  <2>3. h[n] = c[DOMAIN ls]
    BY <1>1
  <2> HIDE DEF h
  <2> QED
    BY <1>2, <2>1, <2>2, <2>3 DEF Heard
<1> QED
  BY <1>10, <1>11

-----------------------------------------------------------------------------
(* How many elements of a sequence are in S, after more are added to it.   *)
LEMMA AppendHas ==
  ASSUME NEW T, NEW s \in Seq(T), NEW e \in T, NEW S
  PROVE  /\ Append(s, e) \in Seq(T)
         /\ Has(Append(s, e), S) <=> Has(s, S) \/ e \in S
         /\ One(s, S) /\ ~(Has(s, S) /\ e \in S) => One(Append(s, e), S)
<1> DEFINE a == Append(s, e)
<1>1. /\ a \in Seq(T) /\ DOMAIN a = DOMAIN s \cup {Len(s) + 1} /\ Len(s) + 1 \notin DOMAIN s
      /\ a[Len(s) + 1] = e /\ \A i \in DOMAIN s : a[i] = s[i]
  OBVIOUS
<1> HIDE DEF a
<1>2. Has(a, S) <=> Has(s, S) \/ e \in S
  BY <1>1 DEF Has
<1>3. One(s, S) /\ ~(Has(s, S) /\ e \in S) => One(a, S)
  BY <1>1 DEF One, Has
<1> QED
  BY <1>1, <1>2, <1>3 DEF a

LEMMA ConcatHas ==
  ASSUME NEW T, NEW s \in Seq(T), NEW t \in Seq(T), NEW S, ~Has(t, S)
  PROVE  /\ s \o t \in Seq(T)
         /\ Has(s \o t, S) <=> Has(s, S)
         /\ One(s, S) => One(s \o t, S)
<1> DEFINE c == s \o t
<1>1. c \in Seq(T) /\ DOMAIN s \subseteq DOMAIN c /\ \A i \in DOMAIN s : c[i] = s[i]
  OBVIOUS
<1>2. \A i \in DOMAIN c : i \notin DOMAIN s => i - Len(s) \in DOMAIN t /\ c[i] = t[i - Len(s)]
  OBVIOUS
<1> HIDE DEF c
<1>3. \A i \in DOMAIN c : c[i] \in S => i \in DOMAIN s
  BY <1>2 DEF Has
<1>4. Has(c, S) <=> Has(s, S)
  BY <1>1, <1>3 DEF Has
<1>5. One(s, S) => One(c, S)
  BY <1>1, <1>3 DEF One
<1> QED
  BY <1>1, <1>4, <1>5 DEF c

(* What is sent adds to the counts.                                        *)
LEMMA CountedVerbs ==
  ASSUME NEW lines \in Seq(ClientLine(ClientVerb)), NEW v \in ClientVerb
  PROVE  LET n == Cardinality({i \in DOMAIN lines : lines[i].verb = v})
         IN  /\ n \in Nat
             /\ ~Has(lines, Verb(v)) => n = 0
             /\ One(lines, Verb(v)) => n <= 1
<1> DEFINE P == {i \in DOMAIN lines : lines[i].verb = v}
<1>1. \A i \in DOMAIN lines : lines[i].verb = v <=> lines[i] \in Verb(v)
  <2> TAKE i \in DOMAIN lines
  <2>1. lines[i] \in ClientLine(ClientVerb)
    OBVIOUS
  <2> QED
    BY <2>1 DEF Verb, ClientLine
<1>2. IsFiniteSet(P)
  <2>1. DOMAIN lines = 1 .. Len(lines) /\ Len(lines) \in Int /\ 1 \in Int
    OBVIOUS
  <2>2. IsFiniteSet(DOMAIN lines)
    BY <2>1, FS_Interval
  <2> QED
    BY <2>2, FS_Subset
<1>3. Cardinality(P) \in Nat
  BY <1>2, FS_CardinalityType
<1>4. ~Has(lines, Verb(v)) => P = {}
  BY <1>1 DEF Has
<1>5. One(lines, Verb(v)) => P = {} \/ \E x : P = {x}
  BY <1>1 DEF One
<1> HIDE DEF P
<1>6. P = {} => Cardinality(P) = 0
  BY FS_EmptySet
<1>7. (\E x : P = {x}) => Cardinality(P) = 1
  BY FS_Singleton
<1>8. /\ ~Has(lines, Verb(v)) => Cardinality(P) = 0
      /\ One(lines, Verb(v)) => Cardinality(P) <= 1
  <2>1. One(lines, Verb(v)) => Cardinality(P) = 0 \/ Cardinality(P) = 1
    BY <1>5, <1>6, <1>7
  <2>2. ~Has(lines, Verb(v)) => Cardinality(P) = 0
    BY <1>4, <1>6
  <2> QED
    BY <2>1, <2>2
<1> QED
  BY <1>3, <1>8 DEF P

-----------------------------------------------------------------------------
(* What lines lead to.                                                     *)
LEMMA SeeTyped ==
  ASSUME NEW v \in View, NEW m \in CapLine
  PROVE  See(v, m) \in View
<1>1. m.caps \in SUBSET Cap
  BY DEF CapLine, ServerLine
<1>2. CASE m.verb = "ACK"
  <2>1. See(v, m) = [v EXCEPT !.enabled = @ \cup m.caps]
    BY <1>2, Zenon DEF See
  <2> QED
    BY <1>1, <2>1 DEF View
<1>3. CASE m.verb = "NEW"
  <2>1. See(v, m) = [v EXCEPT !.available = @ \cup m.caps]
    BY <1>3, Zenon DEF See
  <2> QED
    BY <1>1, <2>1 DEF View
<1>4. CASE m.verb = "DEL"
  <2>1. See(v, m) = [v EXCEPT !.enabled = @ \ m.caps, !.available = @ \ m.caps]
    BY <1>4, Zenon DEF See
  <2> QED
    BY <1>1, <2>1 DEF View
<1>5. CASE m.verb = "LS*" /\ v.listing
  <2>1. See(v, m) = [v EXCEPT !.collected = @ \cup m.caps]
    BY <1>5, Zenon DEF See
  <2> QED
    BY <1>1, <2>1 DEF View
<1>6. CASE m.verb = "LS" /\ v.listing
  <2>1. See(v, m) = [v EXCEPT !.available = @ \cup (v.collected \cup m.caps), !.listing = FALSE]
    BY <1>6, Zenon DEF See
  <2> QED
    BY <1>1, <2>1 DEF View
<1>7. CASE m.verb \notin {"ACK", "NEW", "DEL"} /\ (m.verb \in {"LS*", "LS"} => ~v.listing)
  <2>1. See(v, m) = v
    BY <1>7, Zenon DEF See
  <2> QED
    BY <2>1
<1> QED
  BY <1>2, <1>3, <1>4, <1>5, <1>6, <1>7

(* A line that changes nothing in the picture.                             *)
Neutral(m) == m.verb \notin {"ACK", "NEW", "DEL", "LS*", "LS"}

LEMMA NeutralSees ==
  ASSUME NEW v, NEW m, Neutral(m)
  PROVE  See(v, m) = v
BY Zenon DEF See, Neutral

LEMMA LeadsNowhere ==
  ASSUME NEW v \in View
  PROVE  /\ Leads(v, <<>>, v)
         /\ \A w : Leads(v, <<>>, w) => w = v
<1>1. Leads(v, <<>>, v)
  <2> DEFINE f == [i \in 0 .. 0 |-> v]
  <2>1. Sees(f, <<>>) /\ f[0] = v /\ f[Len(<<>>)] = v
    BY DEF Sees
  <2> QED
    BY <2>1 DEF Leads
<1>2. \A w : Leads(v, <<>>, w) => w = v
  BY DEF Leads
<1> QED
  BY <1>1, <1>2

LEMMA LeadsFirst ==
  ASSUME NEW lines \in Seq(CapLine), lines # <<>>, NEW v \in View, NEW w \in View, Leads(v, lines, w)
  PROVE  Leads(See(v, Head(lines)), Tail(lines), w)
<1>1. PICK f : Sees(f, lines) /\ f[0] = v /\ f[Len(lines)] = w
  BY DEF Leads
<1>2. PICK n \in Nat : n + 1 = Len(lines)
  <2>1. Len(lines) - 1 \in Nat /\ (Len(lines) - 1) + 1 = Len(lines)
    OBVIOUS
  <2> QED
    BY <2>1
<1>3. PICK t : /\ t = Tail(lines) /\ t \in Seq(CapLine) /\ Len(t) = n
               /\ \A i \in 1 .. n : t[i] = lines[i + 1]
  <2> DEFINE t == Tail(lines)
  <2>1. /\ t \in Seq(CapLine) /\ Len(t) = Len(lines) - 1
        /\ \A i \in 1 .. Len(t) : t[i] = lines[i + 1]
    BY HeadTailProperties
  <2>2. Len(t) = n
    BY <1>2, <2>1
  <2> QED
    BY <2>1, <2>2
<1> DEFINE g == [i \in 0 .. n |-> f[i + 1]]
<1>4. /\ f \in [0 .. n + 1 -> View]
      /\ \A i \in 1 .. n + 1 : f[i] = See(f[i - 1], lines[i])
  BY <1>1, <1>2 DEF Sees
<1>5. g \in [0 .. n -> View]
  BY <1>2, <1>4
<1>6. \A i \in 1 .. n : g[i] = See(g[i - 1], t[i])
  <2> TAKE i \in 1 .. n
  <2>1. i + 1 \in 1 .. n + 1 /\ (i + 1) - 1 = i /\ i - 1 \in 0 .. n /\ (i - 1) + 1 = i
    BY <1>2
  <2>2. f[i + 1] = See(f[i], lines[i + 1])
    BY <1>4, <2>1
  <2>3. g[i] = f[i + 1] /\ g[i - 1] = f[i]
    BY <2>1
  <2> QED
    BY <1>3, <2>2, <2>3
<1>7. g[0] = See(v, Head(lines)) /\ g[n] = w
  <2>1. 1 \in 1 .. n + 1 /\ Head(lines) = lines[1]
    BY <1>2
  <2>2. f[1] = See(f[0], lines[1])
    BY <1>4, <2>1
  <2>3. 0 \in 0 .. n /\ n \in 0 .. n
    BY <1>2
  <2> QED
    BY <1>1, <1>2, <2>1, <2>2, <2>3
<1> HIDE DEF g
<1> QED
  BY <1>3, <1>5, <1>6, <1>7 DEF Leads, Sees

LEMMA LeadsOn ==
  ASSUME NEW one \in Seq(CapLine), NEW two \in Seq(CapLine), NEW v, NEW w, NEW x,
         Leads(v, one, w), Leads(w, two, x)
  PROVE  Leads(v, one \o two, x)
<1>1. PICK f : Sees(f, one) /\ f[0] = v /\ f[Len(one)] = w
  BY DEF Leads
<1>2. PICK g : Sees(g, two) /\ g[0] = w /\ g[Len(two)] = x
  BY DEF Leads
<1>3. PICK n \in Nat, k \in Nat : n = Len(one) /\ k = Len(two)
  OBVIOUS
<1>4. PICK c : /\ c = one \o two /\ Len(c) = n + k
               /\ \A i \in 1 .. n : c[i] = one[i]
               /\ \A i \in 1 .. k : c[n + i] = two[i]
  <2> DEFINE c == one \o two
  <2>1. /\ Len(c) = n + k
        /\ \A i \in 1 .. n + k : c[i] = IF i <= n THEN one[i] ELSE two[i - n]
    BY <1>3, ConcatProperties
  <2> HIDE DEF c
  <2>2. \A i \in 1 .. n : i \in 1 .. n + k /\ i <= n
    BY <1>3
  <2>3. \A i \in 1 .. k : n + i \in 1 .. n + k /\ ~(n + i <= n) /\ (n + i) - n = i
    BY <1>3
  <2> QED
    <3>1. Len(c) = n + k /\ \A i \in 1 .. n : c[i] = one[i]
      BY <2>1, <2>2
    <3>2. \A i \in 1 .. k : c[n + i] = two[i]
      BY <2>1, <2>3
    <3> QED
      BY <3>1, <3>2 DEF c
<1>5. /\ f \in [0 .. n -> View] /\ \A i \in 1 .. n : f[i] = See(f[i - 1], one[i])
      /\ g \in [0 .. k -> View] /\ \A i \in 1 .. k : g[i] = See(g[i - 1], two[i])
  BY <1>1, <1>2, <1>3 DEF Sees
<1> DEFINE h == [i \in 0 .. n + k |-> IF i <= n THEN f[i] ELSE g[i - n]]
<1>6. h \in [0 .. n + k -> View]
  BY <1>3, <1>5
<1>7. \A i \in 1 .. n + k : h[i] = See(h[i - 1], c[i])
  <2> TAKE i \in 1 .. n + k
  <2>1. CASE i <= n
    <3>1. i \in 1 .. n /\ h[i] = f[i] /\ h[i - 1] = f[i - 1]
      BY <1>3, <2>1
    <3> QED
      BY <1>4, <1>5, <3>1
  <2>2. CASE i > n
    <3>1. PICK j \in 1 .. k : i = n + j
      <4>1. i - n \in 1 .. k /\ i = n + (i - n)
        BY <1>3, <2>2
      <4> QED
        BY <4>1
    <3>2. h[i] = g[j]
      BY <1>3, <3>1
    <3>3. h[i - 1] = g[j - 1]
      <4>1. CASE j = 1
        BY <1>1, <1>2, <1>3, <3>1, <4>1
      <4>2. CASE j # 1
        BY <1>3, <3>1, <4>2
      <4> QED
        BY <4>1, <4>2
    <3> QED
      BY <1>4, <1>5, <3>1, <3>2, <3>3
  <2> QED
    BY <1>3, <2>1, <2>2
<1>8. h[0] = v /\ h[n + k] = x
  <2>1. h[0] = v
    BY <1>1, <1>3
  <2>2. h[n + k] = x
    <3>1. CASE k = 0
      BY <1>1, <1>2, <1>3, <3>1
    <3>2. CASE k # 0
      BY <1>2, <1>3, <3>2
    <3> QED
      BY <3>1, <3>2
  <2> QED
    BY <2>1, <2>2
<1> HIDE DEF h
<1> QED
  BY <1>4, <1>6, <1>7, <1>8 DEF Leads, Sees

LEMMA LeadsOne ==
  ASSUME NEW v \in View, NEW m \in CapLine
  PROVE  Leads(v, <<m>>, See(v, m))
<1> DEFINE f == [i \in 0 .. 1 |-> IF i = 0 THEN v ELSE See(v, m)]
<1>1. f \in [0 .. 1 -> View] /\ f[0] = v /\ f[1] = See(v, m)
  BY SeeTyped
<1> HIDE DEF f
<1>2. Sees(f, <<m>>)
  BY <1>1 DEF Sees
<1> QED
  BY <1>1, <1>2 DEF Leads

LEMMA TwoConcat ==
  ASSUME NEW a, NEW b
  PROVE  <<a, b>> = <<a>> \o <<b>>
<1> DEFINE s == <<a>> \o <<b>>
<1>1. s \in Seq({a, b}) /\ Len(s) = 2 /\ s[1] = a /\ s[2] = b
  OBVIOUS
<1> HIDE DEF s
<1>2. s = <<a, b>>
  BY <1>1
<1> QED
  BY <1>2 DEF s

LEMMA LeadsTwo ==
  ASSUME NEW v \in View, NEW m \in CapLine, NEW n \in CapLine
  PROVE  Leads(v, <<m, n>>, See(See(v, m), n))
<1>1. See(v, m) \in View
  BY SeeTyped
<1>2. Leads(v, <<m>>, See(v, m)) /\ Leads(See(v, m), <<n>>, See(See(v, m), n))
  BY <1>1, LeadsOne
<1>3. <<m>> \in Seq(CapLine) /\ <<n>> \in Seq(CapLine)
  OBVIOUS
<1>4. <<m, n>> = <<m>> \o <<n>>
  BY TwoConcat, Zenon
<1> QED
  BY <1>2, <1>3, <1>4, LeadsOn

-----------------------------------------------------------------------------
(* What the listeners of a CAP line leave.                                 *)
Ended(complete, s) == /\ One(s.out, Verb("END"))
                      /\ Has(s.out, Verb("END")) => complete /\ ~s.complete
                      /\ s.complete => complete
Announced(waited, s) == /\ One(s.out, Verb("MECHANISM"))
                        /\ One(s.listeners, Sasl)
                        /\ ~(Has(s.out, Verb("MECHANISM")) /\ Has(s.listeners, Sasl))
                        /\ Has(s.out, Verb("MECHANISM")) \/ Has(s.listeners, Sasl) => waited

LEMMA SaidIsTyped ==
  ASSUME NEW v, NEW caps \in SUBSET Cap
  PROVE  \A w : Line(v, caps) \in Verb(w) <=> w = v
BY DEF Line, Verb, ClientLine

(* t is s with one more line of verb v.                                    *)
Adds(t, s, sasl, v) ==
  /\ t \in Hearing(sasl)
  /\ t.listeners = s.listeners /\ t.complete = s.complete
  /\ \A w : /\ Has(t.out, Verb(w)) <=> Has(s.out, Verb(w)) \/ w = v
            /\ One(s.out, Verb(w)) /\ ~(Has(s.out, Verb(w)) /\ w = v) => One(t.out, Verb(w))

LEMMA OutGrows ==
  ASSUME NEW sasl \in BOOLEAN, NEW s \in Hearing(sasl), NEW v \in CapVerbs(sasl),
         NEW caps \in SUBSET Cap
  PROVE  Adds([s EXCEPT !.out = Append(@, Line(v, caps))], s, sasl, v)
<1> DEFINE out == Append(s.out, Line(v, caps))
           t == [s EXCEPT !.out = out]
<1>1. s.out \in Seq(ClientLine(CapVerbs(sasl)))
  BY DEF Hearing
<1>2. Line(v, caps) \in ClientLine(CapVerbs(sasl))
  BY DEF Line, ClientLine
<1>3. /\ out \in Seq(ClientLine(CapVerbs(sasl)))
      /\ \A w : /\ Has(out, Verb(w)) <=> Has(s.out, Verb(w)) \/ w = v
                /\ One(s.out, Verb(w)) /\ ~(Has(s.out, Verb(w)) /\ w = v) => One(out, Verb(w))
  BY <1>1, <1>2, AppendHas, SaidIsTyped
<1> HIDE DEF out
<1>4. t \in Hearing(sasl) /\ t.out = out /\ t.listeners = s.listeners /\ t.complete = s.complete
  BY <1>3 DEF Hearing
<1>5. Adds(t, s, sasl, v)
  BY <1>3, <1>4 DEF Adds
<1> QED
  BY <1>5 DEF out

LEMMA CompletedHears ==
  ASSUME NEW sasl \in BOOLEAN, NEW s \in Hearing(sasl), NEW c \in BOOLEAN, NEW waited \in BOOLEAN
  PROVE  /\ Completed(s) \in Hearing(sasl)
         /\ Completed(s).listeners = s.listeners
         /\ Ended(c, s) => Ended(c, Completed(s))
         /\ Announced(waited, s) => Announced(waited, Completed(s))
<1>1. CASE ~s.complete
  BY <1>1 DEF Completed
<1>2. CASE s.complete
  <2> DEFINE t == [s EXCEPT !.out = Append(@, Say("END"))]
             u == [s EXCEPT !.complete = FALSE, !.out = Append(@, Say("END"))]
  <2>1. Adds(t, s, sasl, "END")
    <3>1. "END" \in CapVerbs(sasl) /\ {} \in SUBSET Cap
      BY DEF CapVerbs
    <3> QED
      BY <3>1, OutGrows DEF Say
  <2>2. u = [t EXCEPT !.complete = FALSE]
    BY DEF Hearing
  <2>3. Completed(s) = u
    BY <1>2 DEF Completed
  <2> HIDE DEF t, u
  <2>4. u \in Hearing(sasl) /\ u.listeners = s.listeners /\ u.out = t.out /\ u.complete = FALSE
    BY <2>1, <2>2 DEF Hearing, Adds
  <2>5. Ended(c, s) => Ended(c, u)
    BY <1>2, <2>1, <2>4 DEF Ended, Adds
  <2>6. Announced(waited, s) => Announced(waited, u)
    BY <2>1, <2>4 DEF Announced, Adds
  <2> QED
    BY <2>3, <2>4, <2>5, <2>6
<1> QED
  BY <1>1, <1>2 DEF Hearing

(* The capabilities that a CAP NEW asks for are a finite set of lines.     *)
LEMMA RequestsTyped ==
  ASSUME NEW sasl \in BOOLEAN, NEW s \in Hearing(sasl), NEW caps \in SUBSET Cap
  PROVE  /\ Requests(s, caps) \in Seq(ClientLine(CapVerbs(sasl)))
         /\ \A w \in {"END", "MECHANISM"} :
              /\ Has(Requests(s, caps), Verb(w)) <=> Has(s.out, Verb(w))
              /\ One(s.out, Verb(w)) => One(Requests(s, caps), Verb(w))
<1> DEFINE D == caps \cap Requested
           L == {Line("REQ", {c}) : c \in D}
           l == SetToSeq(L)
<1>1. IsFiniteSet(D)
  BY RegistrationAssumption, FS_Subset
<1>2. IsFiniteSet(L)
  <2> DEFINE f == [c \in D |-> Line("REQ", {c})]
  <2>1. f \in Surjection(D, L)
    BY DEF Surjection
  <2> HIDE DEF f, D, L
  <2> QED
    BY <1>1, <2>1, FS_Surjection
<1>3. L \subseteq Verb("REQ")
  BY RegistrationAssumption DEF Line, Verb, ClientLine
<1>4. l \in Seq(Verb("REQ"))
  <2> HIDE DEF L
  <2>1. l \in Seq(L)
    BY <1>2, SetListed
  <2> QED
    BY <1>3, <2>1
<1> HIDE DEF l
<1>5. l \in Seq(ClientLine(CapVerbs(sasl)))
  <2>1. Verb("REQ") \subseteq ClientLine(CapVerbs(sasl))
    BY DEF Verb, ClientLine, CapVerbs
  <2> QED
    BY <1>4, <2>1
<1>6. \A w \in {"END", "MECHANISM"} : ~Has(l, Verb(w))
  <2> SUFFICES ASSUME NEW w \in {"END", "MECHANISM"}, NEW i \in DOMAIN l, l[i] \in Verb(w) PROVE FALSE
    BY DEF Has
  <2>1. l[i] \in Verb("REQ")
    BY <1>4
  <2> QED
    BY <2>1 DEF Verb, ClientLine
<1>7. s.out \in Seq(ClientLine(CapVerbs(sasl)))
  BY DEF Hearing
<1>8. Requests(s, caps) = s.out \o l
  BY DEF Requests, l
<1> QED
  BY <1>5, <1>6, <1>7, <1>8, ConcatHas

(* The listener that stays.                                                *)
LEMMA TrackHears ==
  ASSUME NEW sasl \in BOOLEAN, NEW s \in Hearing(sasl), NEW m \in CapLine, NEW c \in BOOLEAN,
         NEW waited \in BOOLEAN
  PROVE  /\ Track(s, m) \in Hearing(sasl)
         /\ Track(s, m).listeners = s.listeners
         /\ Ended(c, s) => Ended(c, Track(s, m))
         /\ Announced(waited, s) => Announced(waited, Track(s, m))
<1>1. m.caps \in SUBSET Cap
  BY DEF CapLine, ServerLine
<1>2. CASE m.verb = "ACK"
  <2> DEFINE t == [s EXCEPT !.enabled = @ \cup m.caps]
  <2>1. Track(s, m) = Completed(t)
    BY <1>2, Zenon DEF Track
  <2>2. t \in Hearing(sasl) /\ t.listeners = s.listeners /\ t.out = s.out /\ t.complete = s.complete
    <3> DEFINE e == s.enabled \cup m.caps
    <3>1. e \in SUBSET Cap
      BY <1>1 DEF Hearing
    <3> HIDE DEF e
    <3>2. LET u == [s EXCEPT !.enabled = e]
          IN  u \in Hearing(sasl) /\ u.listeners = s.listeners /\ u.out = s.out /\ u.complete = s.complete
      BY <3>1 DEF Hearing
    <3> QED
      BY <3>2 DEF e
  <2> HIDE DEF t
  <2>3. Ended(c, s) <=> Ended(c, t)
    BY <2>2 DEF Ended
  <2>4. Announced(waited, s) <=> Announced(waited, t)
    BY <2>2 DEF Announced
  <2> QED
    BY <2>1, <2>2, <2>3, <2>4, CompletedHears
<1>3. CASE m.verb = "NAK"
  <2>1. Track(s, m) = Completed(s)
    BY <1>3, Zenon DEF Track
  <2> QED
    BY <2>1, CompletedHears
<1>4. CASE m.verb = "NEW"
  <2> DEFINE a == s.available \cup m.caps
             r == Requests(s, m.caps)
             t == [s EXCEPT !.available = a, !.out = r]
  <2>1. Track(s, m) = t
    BY <1>4, Zenon DEF Track
  <2>2. a \in SUBSET Cap
    BY <1>1 DEF Hearing
  <2>3. /\ r \in Seq(ClientLine(CapVerbs(sasl)))
        /\ \A w \in {"END", "MECHANISM"} : /\ Has(r, Verb(w)) <=> Has(s.out, Verb(w))
                                           /\ One(s.out, Verb(w)) => One(r, Verb(w))
    BY <1>1, RequestsTyped
  <2> HIDE DEF a, r
  <2>4. t \in Hearing(sasl) /\ t.listeners = s.listeners /\ t.out = r /\ t.complete = s.complete
    BY <2>2, <2>3 DEF Hearing
  <2> HIDE DEF t
  <2>5. Ended(c, s) => Ended(c, t)
    BY <2>3, <2>4 DEF Ended
  <2>6. Announced(waited, s) => Announced(waited, t)
    BY <2>3, <2>4 DEF Announced
  <2> QED
    BY <2>1, <2>4, <2>5, <2>6
<1>5. CASE m.verb = "DEL"
  <2> DEFINE e == s.enabled \ m.caps
             a == s.available \ m.caps
             t == [s EXCEPT !.enabled = e, !.available = a]
  <2>1. Track(s, m) = t
    BY <1>5, Zenon DEF Track
  <2>2. e \in SUBSET Cap /\ a \in SUBSET Cap
    BY DEF Hearing
  <2> HIDE DEF e, a
  <2>3. t \in Hearing(sasl) /\ t.listeners = s.listeners /\ t.out = s.out /\ t.complete = s.complete
    BY <2>2 DEF Hearing
  <2> HIDE DEF t
  <2>4. Ended(c, s) => Ended(c, t)
    BY <2>3 DEF Ended
  <2>5. Announced(waited, s) => Announced(waited, t)
    BY <2>3 DEF Announced
  <2> QED
    BY <2>1, <2>3, <2>4, <2>5
<1>6. CASE m.verb \notin {"ACK", "NAK", "NEW", "DEL"}
  <2>1. Track(s, m) = s
    BY <1>6, Zenon DEF Track
  <2> QED
    BY <2>1
<1> QED
  BY <1>2, <1>3, <1>4, <1>5, <1>6

(* A listener that stays on.                                               *)
LEMMA ListenerStays ==
  ASSUME NEW sasl \in BOOLEAN, NEW s \in Hearing(sasl), NEW l \in Waiting(Kinds(sasl)),
         NEW c \in BOOLEAN, NEW waited \in BOOLEAN
  PROVE  LET t == [s EXCEPT !.listeners = Append(@, l)]
         IN  /\ t \in Hearing(sasl)
             /\ Ended(c, s) => Ended(c, t)
             /\ l \notin Sasl /\ Announced(waited, s) => Announced(waited, t)
             /\ Announced(FALSE, s) => Announced(TRUE, t)
<1> DEFINE ls == Append(s.listeners, l)
           t == [s EXCEPT !.listeners = ls]
<1>1. s.listeners \in Seq(Waiting(Kinds(sasl)))
  BY DEF Hearing
<1>2. /\ ls \in Seq(Waiting(Kinds(sasl)))
      /\ Has(ls, Sasl) <=> Has(s.listeners, Sasl) \/ l \in Sasl
      /\ One(s.listeners, Sasl) /\ ~(Has(s.listeners, Sasl) /\ l \in Sasl) => One(ls, Sasl)
  BY <1>1, AppendHas
<1> HIDE DEF ls
<1>3. t \in Hearing(sasl) /\ t.listeners = ls /\ t.out = s.out /\ t.complete = s.complete
  BY <1>2 DEF Hearing
<1> HIDE DEF t
<1>4. Ended(c, s) => Ended(c, t)
  BY <1>3 DEF Ended
<1>5. l \notin Sasl /\ Announced(waited, s) => Announced(waited, t)
  BY <1>2, <1>3 DEF Announced
<1>6. Announced(FALSE, s) => Announced(TRUE, t)
  BY <1>2, <1>3 DEF Announced
<1> QED
  BY <1>3, <1>4, <1>5, <1>6 DEF t, ls

LEMMA OnLsHears ==
  ASSUME NEW sasl \in BOOLEAN, NEW s \in Hearing(sasl), NEW l \in Waiting({"ls"}),
         NEW m \in CapLine, NEW c \in BOOLEAN, NEW waited \in BOOLEAN
  PROVE  /\ OnLs(s, l, m) \in Hearing(sasl)
         /\ Ended(c, s) => Ended(c, OnLs(s, l, m))
         /\ Announced(waited, s) => Announced(waited, OnLs(s, l, m))
<1> DEFINE collected == l.lsCaps \cup m.caps
           known == s.available \cup collected
<1>1. collected \in SUBSET Cap /\ known \in SUBSET Cap
  BY DEF CapLine, ServerLine, Waiting, Hearing
<1>2. ASSUME NEW k \in Waiting({"ls"}) PROVE k \in Waiting(Kinds(sasl)) /\ k \notin Sasl
  BY DEF Waiting, Kinds, Sasl
<1>3. CASE m.verb = "LS*"
  <2> DEFINE k == [l EXCEPT !.lsCaps = collected]
  <2>1. k \in Waiting({"ls"})
    BY <1>1 DEF Waiting
  <2>2. OnLs(s, l, m) = [s EXCEPT !.listeners = Append(@, k)]
    BY <1>3, Zenon DEF OnLs
  <2> HIDE DEF k
  <2> DEFINE t == [s EXCEPT !.listeners = Append(@, k)]
  <2>3. k \in Waiting(Kinds(sasl)) /\ k \notin Sasl
    BY <1>2, <2>1
  <2>4. /\ t \in Hearing(sasl) /\ (Ended(c, s) => Ended(c, t))
        /\ Announced(waited, s) => Announced(waited, t)
    BY <2>3, ListenerStays
  <2> HIDE DEF t
  <2>5. OnLs(s, l, m) = t
    BY <2>2 DEF t
  <2> QED
    BY <2>4, <2>5
<1>4. CASE m.verb = "LS"
  <2> DEFINE t == [s EXCEPT !.available = known]
             caps == Wanted \cap known
             u == [t EXCEPT !.out = Append(@, Line("REQ", caps))]
  <2>1. OnLs(s, l, m) = IF caps # {} THEN [s EXCEPT !.available = known, !.out = Append(@, Line("REQ", caps))]
                        ELSE Completed(t)
    BY <1>4, Zenon DEF OnLs
  <2>2. caps \in SUBSET Cap
    BY <1>1
  <2> HIDE DEF caps, known
  <2>3. t \in Hearing(sasl) /\ t.listeners = s.listeners /\ t.out = s.out /\ t.complete = s.complete
    BY <1>1 DEF Hearing
  <2>4. [s EXCEPT !.available = known, !.out = Append(@, Line("REQ", caps))] = u
    BY DEF Hearing
  <2> HIDE DEF t
  <2>5. (Ended(c, s) <=> Ended(c, t)) /\ (Announced(waited, s) <=> Announced(waited, t))
    BY <2>3 DEF Ended, Announced
  <2>6. CASE caps # {}
    <3>1. "REQ" \in CapVerbs(sasl)
      BY DEF CapVerbs
    <3>2. Adds(u, t, sasl, "REQ")
      BY <2>2, <2>3, <3>1, OutGrows
    <3> HIDE DEF u
    <3>3. Ended(c, t) => Ended(c, u)
      BY <3>2 DEF Adds, Ended
    <3>4. Announced(waited, t) => Announced(waited, u)
      BY <3>2 DEF Adds, Announced
    <3>5. u \in Hearing(sasl)
      BY <3>2 DEF Adds
    <3> QED
      BY <2>1, <2>4, <2>5, <2>6, <3>3, <3>4, <3>5
  <2>7. CASE caps = {}
    BY <2>1, <2>3, <2>5, <2>7, CompletedHears
  <2> QED
    BY <2>6, <2>7
<1>5. CASE m.verb \notin {"LS*", "LS"}
  <2>1. OnLs(s, l, m) = [s EXCEPT !.listeners = Append(@, l)]
    BY <1>5, Zenon DEF OnLs
  <2> DEFINE t == [s EXCEPT !.listeners = Append(@, l)]
  <2>3. l \in Waiting(Kinds(sasl)) /\ l \notin Sasl
    BY <1>2
  <2>4. /\ t \in Hearing(sasl) /\ (Ended(c, s) => Ended(c, t))
        /\ Announced(waited, s) => Announced(waited, t)
    BY <2>3, ListenerStays
  <2> HIDE DEF t
  <2>5. OnLs(s, l, m) = t
    BY <2>1 DEF t
  <2> QED
    BY <2>4, <2>5
<1> QED
  BY <1>3, <1>4, <1>5

LEMMA CapListenerHears ==
  ASSUME NEW s \in Hearing(TRUE), NEW l \in Sasl, NEW m, NEW c \in BOOLEAN
  PROVE  /\ CapListener(s, l, m) \in Hearing(TRUE)
         /\ Ended(c, s) => Ended(c, CapListener(s, l, m))
         /\ Announced(FALSE, s) => Announced(TRUE, CapListener(s, l, m))
<1>1. CASE "sasl" \in m.words
  <2> DEFINE t == [s EXCEPT !.out = Append(@, Say("MECHANISM"))]
  <2>1. CapListener(s, l, m) = t
    BY <1>1 DEF CapListener
  <2>2. Adds(t, s, TRUE, "MECHANISM")
    <3>1. "MECHANISM" \in CapVerbs(TRUE) /\ {} \in SUBSET Cap
      BY DEF CapVerbs
    <3> QED
      BY <3>1, OutGrows DEF Say
  <2> HIDE DEF t
  <2>3. Ended(c, s) => Ended(c, t)
    BY <2>2 DEF Adds, Ended
  <2>4. Announced(FALSE, s) => Announced(TRUE, t)
    BY <2>2 DEF Adds, Announced
  <2> QED
    BY <2>1, <2>2, <2>3, <2>4 DEF Adds
<1>2. CASE "sasl" \notin m.words
  <2>1. l \in Waiting(Kinds(TRUE))
    BY DEF Sasl, Waiting, Kinds
  <2>2. CapListener(s, l, m) = [s EXCEPT !.listeners = Append(@, l)]
    BY <1>2 DEF CapListener
  <2> QED
    BY <2>1, <2>2, ListenerStays
<1> QED
  BY <1>1, <1>2

LEMMA HearHears ==
  ASSUME NEW sasl \in BOOLEAN, NEW s \in Hearing(sasl), NEW l \in Waiting(Kinds(sasl)),
         NEW m \in CapLine
  PROVE  /\ Hear(s, l, m) \in Hearing(sasl)
         /\ \A c \in BOOLEAN : Ended(c, s) => Ended(c, Hear(s, l, m))
         /\ l \notin Sasl => \A w \in BOOLEAN : Announced(w, s) => Announced(w, Hear(s, l, m))
         /\ l \in Sasl /\ Announced(FALSE, s) => Announced(TRUE, Hear(s, l, m))
<1>1. CASE l.kind = "ls"
  <2>1. l \in Waiting({"ls"}) /\ l \notin Sasl
    BY <1>1 DEF Waiting, Sasl
  <2>2. Hear(s, l, m) = OnLs(s, l, m)
    BY <1>1 DEF Hear
  <2> QED
    BY <2>1, <2>2, OnLsHears
<1>2. CASE l.kind # "ls"
  <2>1. l \in Sasl /\ sasl = TRUE
    BY <1>2 DEF Waiting, Sasl, Kinds
  <2>2. Hear(s, l, m) = CapListener(s, l, m)
    BY <1>2 DEF Hear
  <2> QED
    BY <2>1, <2>2, CapListenerHears
<1> QED
  BY <1>1, <1>2

LEMMA AllHear ==
  ASSUME NEW sasl \in BOOLEAN, NEW s \in Hearing(sasl), NEW ls \in Seq(Waiting(Kinds(sasl))),
         NEW m \in CapLine, NEW c \in BOOLEAN, Ended(c, s), Announced(FALSE, s)
  PROVE  /\ HearAll(s, ls, m) \in Hearing(sasl)
         /\ Ended(c, HearAll(s, ls, m))
         /\ One(ls, Sasl) => Announced(Has(ls, Sasl), HearAll(s, ls, m))
<1>1. \A t \in Hearing(sasl), l \in Waiting(Kinds(sasl)) : Hear(t, l, m) \in Hearing(sasl)
  BY HearHears
<1>2. PICK h \in [0 .. Len(ls) -> Hearing(sasl)] : Heard(h, s, ls, m)
  BY <1>1, HearingIsAFold
<1>3. PICK n \in Nat : n = Len(ls)
  OBVIOUS
<1>4. \A i \in 1 .. n : ls[i] \in Waiting(Kinds(sasl))
  BY <1>3
<1>5. /\ h[0] = s /\ HearAll(s, ls, m) = h[n]
      /\ \A i \in 1 .. n : h[i] = Hear(h[i - 1], ls[i], m) /\ h[i - 1] \in Hearing(sasl)
  BY <1>2, <1>3 DEF Heard
<1>6. ASSUME NEW i \in 1 .. n
      PROVE  /\ Ended(c, h[i - 1]) => Ended(c, h[i])
             /\ ls[i] \notin Sasl => \A w \in BOOLEAN : Announced(w, h[i - 1]) => Announced(w, h[i])
             /\ ls[i] \in Sasl /\ Announced(FALSE, h[i - 1]) => Announced(TRUE, h[i])
  <2> DEFINE t == h[i - 1]
             l == ls[i]
  <2>1. t \in Hearing(sasl) /\ l \in Waiting(Kinds(sasl)) /\ h[i] = Hear(t, l, m)
    BY <1>4, <1>5
  <2> HIDE DEF t, l
  <2>2. /\ Ended(c, t) => Ended(c, Hear(t, l, m))
        /\ l \notin Sasl => \A w \in BOOLEAN : Announced(w, t) => Announced(w, Hear(t, l, m))
        /\ l \in Sasl /\ Announced(FALSE, t) => Announced(TRUE, Hear(t, l, m))
    BY <2>1, HearHears
  <2> QED
    BY <2>1, <2>2 DEF t, l
<1>7. 0 \in 0 .. n /\ n \in 0 .. n
  BY <1>3
<1>8. Ended(c, h[n])
  <2> DEFINE S == {i \in 0 .. n : Ended(c, h[i])}
  <2>1. 0 \in S
    BY <1>5, <1>7
  <2>2. ASSUME NEW i \in 1 .. n, i - 1 \in S PROVE i \in S
    <3>1. i \in 0 .. n /\ Ended(c, h[i - 1])
      BY <1>3, <2>2
    <3>2. Ended(c, h[i])
      BY <1>6, <3>1
    <3> QED
      BY <3>1, <3>2
  <2> HIDE DEF S
  <2>3. \A i \in 0 .. n : i \in S
    BY <2>1, <2>2, UpTo
  <2>4. n \in S
    BY <1>7, <2>3
  <2> QED
    BY <2>4 DEF S
<1>9. ASSUME One(ls, Sasl) PROVE Announced(Has(ls, Sasl), h[n])
  <2> DEFINE Met(i) == \E j \in 1 .. i : ls[j] \in Sasl
             S == {i \in 0 .. n : \E w \in BOOLEAN : (w => Met(i)) /\ Announced(w, h[i])}
  <2>1. 0 \in S
    <3>1. FALSE \in BOOLEAN /\ Announced(FALSE, h[0])
      BY <1>5
    <3> QED
      BY <1>7, <3>1
  <2>2. ASSUME NEW i \in 1 .. n, i - 1 \in S PROVE i \in S
    <3>1. PICK w \in BOOLEAN : (w => Met(i - 1)) /\ Announced(w, h[i - 1])
      BY <2>2
    <3>2. Met(i - 1) => Met(i)
      BY <1>3
    <3>3. CASE ls[i] \notin Sasl
      <4>1. Announced(w, h[i])
        BY <1>6, <3>1, <3>3
      <4> HIDE DEF Met
      <4> QED
        BY <3>1, <3>2, <4>1
    <3>4. CASE ls[i] \in Sasl
      <4>1. ~Met(i - 1)
        BY <1>3, <1>9, <3>4 DEF One
      <4>2. w = FALSE
        BY <3>1, <4>1, Zenon
      <4>3. Announced(TRUE, h[i])
        BY <1>6, <3>1, <3>4, <4>2
      <4>4. Met(i)
        BY <3>4
      <4> HIDE DEF Met
      <4> QED
        BY <4>3, <4>4
    <3> QED
      BY <3>3, <3>4
  <2>3. n \in S
    <3> HIDE DEF S
    <3>1. \A i \in 0 .. n : i \in S
      BY <2>1, <2>2, UpTo
    <3> QED
      BY <1>7, <3>1
  <2>4. PICK w \in BOOLEAN : (w => Met(n)) /\ Announced(w, h[n])
    BY <2>3
  <2>5. Met(n) <=> Has(ls, Sasl)
    BY <1>3 DEF Has
  <2> HIDE DEF Met
  <2> QED
    BY <2>4, <2>5 DEF Announced
<1> QED
  BY <1>5, <1>8, <1>9

(* What they see of a CAP line is what See says.                           *)
LEMMA CompletedSees ==
  ASSUME NEW sasl \in BOOLEAN, NEW s \in Hearing(sasl)
  PROVE  /\ Completed(s).enabled = s.enabled /\ Completed(s).available = s.available
         /\ Completed(s).listeners = s.listeners
BY DEF Completed, Hearing

LEMMA TrackSees ==
  ASSUME NEW sasl \in BOOLEAN, NEW s \in Hearing(sasl), NEW m \in CapLine, NEW v \in View,
         v.enabled = s.enabled, v.available = s.available
  PROVE  /\ Track(s, m).enabled = See(v, m).enabled
         /\ Track(s, m).available = IF m.verb = "LS" THEN v.available ELSE See(v, m).available
<1>1. CASE m.verb = "ACK"
  <2> DEFINE e == s.enabled \cup m.caps
             t == [s EXCEPT !.enabled = e]
  <2>1. Track(s, m) = Completed(t) /\ See(v, m) = [v EXCEPT !.enabled = @ \cup m.caps]
    BY <1>1, Zenon DEF Track, See
  <2>2. e \in SUBSET Cap
    BY DEF Hearing, CapLine, ServerLine
  <2>3. See(v, m).enabled = e /\ See(v, m).available = v.available
    BY <2>1 DEF View
  <2> HIDE DEF e
  <2>4. t \in Hearing(sasl) /\ t.enabled = e /\ t.available = s.available
    BY <2>2 DEF Hearing
  <2> HIDE DEF t
  <2> QED
    BY <1>1, <2>1, <2>3, <2>4, CompletedSees
<1>2. CASE m.verb = "NAK"
  <2>1. Track(s, m) = Completed(s) /\ See(v, m) = v
    BY <1>2, Zenon DEF Track, See
  <2> QED
    BY <1>2, <2>1, CompletedSees
<1>3. CASE m.verb = "NEW"
  <2> DEFINE a == s.available \cup m.caps
             r == Requests(s, m.caps)
  <2>1. Track(s, m) = [s EXCEPT !.available = a, !.out = r]
    BY <1>3, Zenon DEF Track
  <2>2. See(v, m) = [v EXCEPT !.available = @ \cup m.caps]
    BY <1>3, Zenon DEF See
  <2>3. See(v, m).enabled = v.enabled /\ See(v, m).available = a
    BY <2>2 DEF View
  <2> HIDE DEF a, r
  <2>4. Track(s, m).enabled = s.enabled /\ Track(s, m).available = a
    BY <2>1 DEF Hearing
  <2> QED
    BY <1>3, <2>3, <2>4
<1>4. CASE m.verb = "DEL"
  <2> DEFINE a == s.available \ m.caps
             e == s.enabled \ m.caps
  <2>1. Track(s, m) = [s EXCEPT !.enabled = e, !.available = a]
    BY <1>4, Zenon DEF Track
  <2>2. See(v, m) = [v EXCEPT !.enabled = @ \ m.caps, !.available = @ \ m.caps]
    BY <1>4, Zenon DEF See
  <2>3. See(v, m).enabled = e /\ See(v, m).available = a
    BY <2>2 DEF View
  <2> HIDE DEF a, e
  <2>4. Track(s, m).enabled = e /\ Track(s, m).available = a
    BY <2>1 DEF Hearing
  <2> QED
    BY <1>4, <2>3, <2>4
<1>5. CASE m.verb \notin {"ACK", "NAK", "NEW", "DEL"}
  <2>1. Track(s, m) = s
    BY <1>5, Zenon DEF Track
  <2>2. CASE m.verb = "LS" /\ v.listing
    <3>1. See(v, m) = [v EXCEPT !.available = @ \cup (v.collected \cup m.caps), !.listing = FALSE]
      BY <2>2, Zenon DEF See
    <3> QED
      BY <2>1, <2>2, <3>1 DEF View
  <2>3. CASE m.verb = "LS*" /\ v.listing
    <3>1. See(v, m) = [v EXCEPT !.collected = @ \cup m.caps]
      BY <2>3, Zenon DEF See
    <3> QED
      BY <2>1, <2>3, <3>1 DEF View
  <2>4. CASE m.verb \in {"LS*", "LS"} => ~v.listing
    <3>1. See(v, m) = v
      BY <1>5, <2>4, Zenon DEF See
    <3> QED
      BY <2>1, <3>1
  <2> QED
    BY <2>2, <2>3, <2>4
<1> QED
  BY <1>1, <1>2, <1>3, <1>4, <1>5

(* While the listeners hear of a line that turns the view v into u: `met`  *)
(* says whether the one that collects has heard of it.                     *)
Follows(met, s, v, m) ==
  LET u == See(v, m)
  IN  /\ s.enabled = u.enabled
      /\ One(s.listeners, Lister)
      /\ IF met THEN /\ s.available = u.available
                     /\ u.listing => Has(s.listeners, Lister)
                     /\ ~Has(s.listeners, Lister \ ListersOf(u.listing, u.collected))
         ELSE /\ s.available = IF m.verb = "LS" THEN v.available ELSE u.available
              /\ ~Has(s.listeners, Lister)

LEMMA CollectorFollows ==
  ASSUME NEW sasl \in BOOLEAN, NEW s \in Hearing(sasl), NEW m \in CapLine, NEW v \in View,
         NEW l \in Lister, v.listing, l.lsCaps = v.collected, Follows(FALSE, s, v, m)
  PROVE  Follows(TRUE, OnLs(s, l, m), v, m)
<1> DEFINE u == See(v, m)
           collected == l.lsCaps \cup m.caps
           known == s.available \cup collected
<1>1. /\ s.enabled = u.enabled
      /\ s.available = IF m.verb = "LS" THEN v.available ELSE u.available
      /\ ~Has(s.listeners, Lister)
  BY DEF Follows
<1>2. u \in View
  BY SeeTyped
<1>3. s.listeners \in Seq(Waiting(Kinds(sasl)))
  BY DEF Hearing
<1>4. ASSUME NEW k \in Lister, u.listing, k.lsCaps = u.collected, s.available = u.available,
             OnLs(s, l, m) = [s EXCEPT !.listeners = Append(@, k)]
      PROVE  Follows(TRUE, OnLs(s, l, m), v, m)
  <2> DEFINE ls == Append(s.listeners, k)
             other == Lister \ ListersOf(u.listing, u.collected)
  <2>1. k \in Waiting(Kinds(sasl)) /\ k \notin other
    BY <1>4 DEF Lister, Waiting, Kinds, ListersOf
  <2>2. ~Has(s.listeners, other)
    BY <1>1 DEF Has
  <2>3. One(s.listeners, Lister)
    BY <1>1 DEF One, Has
  <2> HIDE DEF other
  <2>4. One(ls, Lister) /\ Has(ls, Lister) /\ ~Has(ls, other)
    BY <1>1, <1>3, <2>1, <2>2, <2>3, AppendHas
  <2> HIDE DEF ls
  <2>5. LET t == [s EXCEPT !.listeners = ls]
        IN  t.listeners = ls /\ t.enabled = s.enabled /\ t.available = s.available
    BY DEF Hearing
  <2>6. OnLs(s, l, m) = [s EXCEPT !.listeners = ls]
    BY <1>4 DEF ls
  <2> QED
    BY <1>1, <1>4, <2>4, <2>5, <2>6 DEF Follows, other
<1>5. CASE m.verb = "LS*"
  <2> DEFINE k == [l EXCEPT !.lsCaps = collected]
  <2>1. OnLs(s, l, m) = [s EXCEPT !.listeners = Append(@, k)]
    BY <1>5, Zenon DEF OnLs
  <2>2. u = [v EXCEPT !.collected = @ \cup m.caps]
    BY <1>5, Zenon DEF See
  <2>3. collected \in SUBSET Cap
    BY DEF Lister, Waiting, CapLine, ServerLine
  <2>4. u.listing /\ u.collected = collected
    BY <2>2 DEF View
  <2> HIDE DEF u, collected
  <2>5. k \in Lister /\ k.lsCaps = collected
    BY <2>3 DEF Lister, Waiting
  <2> HIDE DEF k
  <2> QED
    BY <1>1, <1>4, <1>5, <2>1, <2>4, <2>5 DEF u
<1>6. CASE m.verb = "LS"
  <2> DEFINE t == [s EXCEPT !.available = known]
             o == Append(s.out, Line("REQ", Wanted \cap known))
  <2>1. u = [v EXCEPT !.available = @ \cup (v.collected \cup m.caps), !.listing = FALSE]
    BY <1>6, Zenon DEF See
  <2>2. u.listing = FALSE /\ u.available = known
    BY <1>1, <1>6, <2>1 DEF View
  <2>3. \/ OnLs(s, l, m) = [s EXCEPT !.available = known, !.out = o]
        \/ OnLs(s, l, m) = Completed(t)
    BY <1>6, Zenon DEF OnLs
  <2>4. known \in SUBSET Cap
    BY DEF Lister, Waiting, CapLine, ServerLine, Hearing
  <2> HIDE DEF u, known, o
  <2>5. t \in Hearing(sasl) /\ t.enabled = s.enabled /\ t.available = known /\ t.listeners = s.listeners
    BY <2>4 DEF Hearing
  <2> HIDE DEF t
  <2>6. LET r == OnLs(s, l, m)
        IN  r.enabled = s.enabled /\ r.available = known /\ r.listeners = s.listeners
    <3>1. CASE OnLs(s, l, m) = [s EXCEPT !.available = known, !.out = o]
      BY <3>1 DEF Hearing
    <3>2. CASE OnLs(s, l, m) = Completed(t)
      BY <2>5, <3>2, CompletedSees
    <3> QED
      BY <2>3, <3>1, <3>2
  <2>7. One(s.listeners, Lister) /\ ~Has(s.listeners, Lister \ ListersOf(u.listing, u.collected))
    BY <1>1 DEF One, Has
  <2> QED
    BY <1>1, <2>2, <2>6, <2>7 DEF Follows, u
<1>7. CASE m.verb \notin {"LS*", "LS"}
  <2>1. OnLs(s, l, m) = [s EXCEPT !.listeners = Append(@, l)]
    BY <1>7, Zenon DEF OnLs
  <2>2. u.listing = v.listing /\ u.collected = v.collected
    <3>1. \/ u = [v EXCEPT !.enabled = @ \cup m.caps]
          \/ u = [v EXCEPT !.available = @ \cup m.caps]
          \/ u = [v EXCEPT !.enabled = @ \ m.caps, !.available = @ \ m.caps]
          \/ u = v
      BY <1>7, Zenon DEF See
    <3> HIDE DEF u
    <3> QED
      BY <3>1 DEF View
  <2> QED
    BY <1>1, <1>4, <1>7, <2>1, <2>2
<1> QED
  BY <1>5, <1>6, <1>7

LEMMA AnnouncerFollows ==
  ASSUME NEW s \in Hearing(TRUE), NEW m, NEW v, NEW l \in Sasl, NEW met \in BOOLEAN,
         Follows(met, s, v, m)
  PROVE  Follows(met, CapListener(s, l, m), v, m)
<1> DEFINE ls == Append(s.listeners, l)
           o == Append(s.out, Say("MECHANISM"))
<1>1. /\ l \in Waiting(Kinds(TRUE)) /\ l \notin Lister
      /\ s.listeners \in Seq(Waiting(Kinds(TRUE)))
  BY DEF Sasl, Lister, Waiting, Kinds, Hearing
<1>2. /\ One(s.listeners, Lister) => One(ls, Lister)
      /\ \A S \in SUBSET Lister : Has(ls, S) <=> Has(s.listeners, S)
  <2> DEFINE T == Waiting(Kinds(TRUE))
  <2>1. s.listeners \in Seq(T) /\ l \in T
    BY <1>1
  <2> HIDE DEF T
  <2>2. \A S : /\ Has(ls, S) <=> Has(s.listeners, S) \/ l \in S
               /\ One(s.listeners, S) /\ ~(Has(s.listeners, S) /\ l \in S) => One(ls, S)
    BY <2>1, AppendHas
  <2> HIDE DEF ls
  <2> QED
    BY <1>1, <2>2
<1>3. Has(ls, Lister) <=> Has(s.listeners, Lister)
  BY <1>2
<1> HIDE DEF ls, o
<1>4. LET t == CapListener(s, l, m)
      IN  /\ t.enabled = s.enabled /\ t.available = s.available
          /\ t.listeners = s.listeners \/ t.listeners = ls
  <2>1. \/ CapListener(s, l, m) = [s EXCEPT !.out = o]
        \/ CapListener(s, l, m) = [s EXCEPT !.listeners = ls]
    BY DEF CapListener, ls, o
  <2> QED
    BY <2>1 DEF Hearing
<1> DEFINE other == Lister \ ListersOf(See(v, m).listing, See(v, m).collected)
<1>5. Has(ls, other) <=> Has(s.listeners, other)
  <2>1. other \in SUBSET Lister
    OBVIOUS
  <2> HIDE DEF other
  <2> QED
    BY <1>2, <2>1
<1> QED
  BY <1>2, <1>3, <1>4, <1>5 DEF Follows

LEMMA SeeListing ==
  ASSUME NEW v \in View, NEW m
  PROVE  /\ See(v, m).listing => v.listing
         /\ ~v.listing /\ m.verb = "LS" => See(v, m) = v
<1>1. \/ See(v, m) = [v EXCEPT !.enabled = @ \cup m.caps]
      \/ See(v, m) = [v EXCEPT !.available = @ \cup m.caps]
      \/ See(v, m) = [v EXCEPT !.enabled = @ \ m.caps, !.available = @ \ m.caps]
      \/ See(v, m) = [v EXCEPT !.collected = @ \cup m.caps]
      \/ See(v, m) = [v EXCEPT !.available = @ \cup (v.collected \cup m.caps), !.listing = FALSE]
      \/ See(v, m) = v
  BY Zenon DEF See
<1>2. See(v, m).listing => v.listing
  BY <1>1 DEF View
<1>3. ASSUME ~v.listing, m.verb = "LS" PROVE See(v, m) = v
  BY <1>3, Zenon DEF See
<1> QED
  BY <1>2, <1>3

LEMMA AllFollow ==
  ASSUME NEW sasl \in BOOLEAN, NEW s \in Hearing(sasl), s.listeners = <<>>,
         NEW ls \in Seq(Waiting(Kinds(sasl))), NEW m \in CapLine,
         NEW v, NEW caps, NEW offers, Shows(v, caps, offers, ls), Follows(FALSE, s, v, m)
  PROVE  LET t == HearAll(s, ls, m) IN Shows(See(v, m), t.enabled, t.available, t.listeners)
<1>1. \A t \in Hearing(sasl), l \in Waiting(Kinds(sasl)) : Hear(t, l, m) \in Hearing(sasl)
  BY HearHears
<1>2. PICK h \in [0 .. Len(ls) -> Hearing(sasl)] : Heard(h, s, ls, m)
  BY <1>1, HearingIsAFold
<1>3. PICK n \in Nat : n = Len(ls)
  OBVIOUS
<1>4. \A i \in 1 .. n : ls[i] \in Waiting(Kinds(sasl))
  BY <1>3
<1>5. /\ h[0] = s /\ HearAll(s, ls, m) = h[n]
      /\ \A i \in 1 .. n : h[i] = Hear(h[i - 1], ls[i], m) /\ h[i - 1] \in Hearing(sasl)
  BY <1>2, <1>3 DEF Heard
<1>6. v \in View /\ One(ls, Lister) /\ (v.listing => Has(ls, Lister))
  BY DEF Shows
<1>7. ASSUME NEW i \in 1 .. n
      PROVE  /\ ls[i] \notin Lister => \A met \in BOOLEAN :
                                         Follows(met, h[i - 1], v, m) => Follows(met, h[i], v, m)
             /\ ls[i] \in Lister /\ Follows(FALSE, h[i - 1], v, m) => Follows(TRUE, h[i], v, m)
  <2> DEFINE t == h[i - 1]
             l == ls[i]
  <2>1. t \in Hearing(sasl) /\ l \in Waiting(Kinds(sasl)) /\ h[i] = Hear(t, l, m)
    BY <1>4, <1>5
  <2>2. l \in Lister => v.listing /\ l.lsCaps = v.collected
    <3>1. ~Has(ls, Lister \ ListersOf(v.listing, v.collected))
      BY DEF Shows
    <3>2. l \notin Lister \ ListersOf(v.listing, v.collected)
      BY <1>3, <3>1 DEF Has
    <3> QED
      BY <3>2 DEF ListersOf
  <2> HIDE DEF t, l
  <2>3. ASSUME l \notin Lister, NEW met \in BOOLEAN, Follows(met, t, v, m)
        PROVE  Follows(met, Hear(t, l, m), v, m)
    <3>1. l \in Sasl /\ sasl = TRUE /\ l.kind # "ls"
      BY <2>1, <2>3 DEF Lister, Waiting, Kinds, Sasl
    <3>2. Hear(t, l, m) = CapListener(t, l, m) /\ t \in Hearing(TRUE)
      BY <2>1, <3>1 DEF Hear
    <3> QED
      BY <2>3, <3>1, <3>2, AnnouncerFollows
  <2>4. ASSUME l \in Lister, Follows(FALSE, t, v, m)
        PROVE  Follows(TRUE, Hear(t, l, m), v, m)
    <3>1. Hear(t, l, m) = OnLs(t, l, m)
      BY <2>4 DEF Hear, Lister, Waiting
    <3> QED
      BY <1>6, <2>1, <2>2, <2>4, <3>1, CollectorFollows
  <2>5. /\ l \notin Lister => \A met \in BOOLEAN :
                                Follows(met, t, v, m) => Follows(met, h[i], v, m)
        /\ l \in Lister /\ Follows(FALSE, t, v, m) => Follows(TRUE, h[i], v, m)
    BY <2>1, <2>3, <2>4
  <2> QED
    BY <2>5 DEF t, l
<1>8. 0 \in 0 .. n /\ n \in 0 .. n
  BY <1>3
<1> DEFINE Met(i) == \E j \in 1 .. i : ls[j] \in Lister
           S == {i \in 0 .. n : \E met \in BOOLEAN : (met <=> Met(i)) /\ Follows(met, h[i], v, m)}
<1>9. 0 \in S
  <2>1. FALSE \in BOOLEAN /\ Follows(FALSE, h[0], v, m)
    BY <1>5
  <2> QED
    BY <1>8, <2>1
<1>10. ASSUME NEW i \in 1 .. n, i - 1 \in S PROVE i \in S
  <2>1. PICK met \in BOOLEAN : (met <=> Met(i - 1)) /\ Follows(met, h[i - 1], v, m)
    BY <1>10
  <2>2. Met(i) <=> Met(i - 1) \/ ls[i] \in Lister
    <3>1. 1 .. i = (1 .. (i - 1)) \cup {i}
      OBVIOUS
    <3> QED
      BY <3>1
  <2>3. i \in 0 .. n
    BY <1>3
  <2>4. CASE ls[i] \notin Lister
    <3>1. Follows(met, h[i], v, m)
      BY <1>7, <2>1, <2>4
    <3> HIDE DEF Met
    <3> QED
      BY <2>1, <2>2, <2>3, <2>4, <3>1
  <2>5. CASE ls[i] \in Lister
    <3>1. ~Met(i - 1)
      BY <1>3, <1>6, <2>5 DEF One
    <3>2. met = FALSE
      BY <2>1, <3>1, Zenon
    <3>3. Follows(TRUE, h[i], v, m)
      BY <1>7, <2>1, <2>5, <3>2
    <3> HIDE DEF Met
    <3> QED
      BY <2>2, <2>3, <2>5, <3>3
  <2> QED
    BY <2>4, <2>5
<1>11. n \in S
  <2> HIDE DEF S
  <2>1. \A i \in 0 .. n : i \in S
    BY <1>9, <1>10, UpTo
  <2> QED
    BY <1>8, <2>1
<1>12. PICK met \in BOOLEAN : (met <=> Met(n)) /\ Follows(met, h[n], v, m)
  BY <1>11
<1>13. met <=> Has(ls, Lister)
  <2>1. Met(n) <=> Has(ls, Lister)
    BY <1>3 DEF Has
  <2> HIDE DEF Met
  <2> QED
    BY <1>12, <2>1
<1> HIDE DEF Met, S
<1> DEFINE u == See(v, m)
           t == h[n]
<1>14. u \in View /\ (u.listing => v.listing) /\ (~v.listing /\ m.verb = "LS" => u = v)
  BY <1>6, SeeTyped, SeeListing
<1>15. Shows(u, t.enabled, t.available, t.listeners)
  <2>1. Follows(met, t, v, m)
    BY <1>12
  <2> HIDE DEF t
  <2>2. CASE met
    BY <1>14, <2>1, <2>2 DEF Follows, Shows
  <2>3. CASE ~met
    <3>1. ~v.listing
      BY <1>6, <1>13, <2>3
    <3>2. /\ t.enabled = u.enabled /\ One(t.listeners, Lister) /\ ~Has(t.listeners, Lister)
          /\ t.available = IF m.verb = "LS" THEN v.available ELSE u.available
      BY <2>1, <2>3 DEF Follows
    <3>3. ~Has(t.listeners, Lister \ ListersOf(u.listing, u.collected))
      BY <3>2 DEF Has
    <3> QED
      BY <1>14, <3>1, <3>2, <3>3 DEF Shows
  <2> QED
    BY <2>2, <2>3
<1> QED
  BY <1>5, <1>15

-----------------------------------------------------------------------------
(* The lines that a step of the client adds.                               *)
Sending(lines) == /\ lines \in Seq(ClientLine(Says(Strict, UsesSasl, May(server))))
                  /\ Sends(lines)
                  /\ UNCHANGED <<options, epoch, up, server>>
                  /\ toClient' = toClient \/ (toClient # <<>> /\ toClient' = Tail(toClient))

Counts(n, old, lines, v) == /\ n \in Nat
                            /\ ~Has(lines, Verb(v)) => n = old
                            /\ One(lines, Verb(v)) => n <= old + 1

LEMMA SendingKeeps ==
  ASSUME Safe, NEW lines, Sending(lines)
  PROVE  /\ LinesAllowed' /\ ServerOK'
         /\ UsesSasl' = UsesSasl
         /\ Counts(ends', ends, lines, "END")
         /\ Counts(mechanisms', mechanisms, lines, "MECHANISM")
<1>1. /\ UsesSasl' = UsesSasl /\ Strict' = Strict
      /\ server' = server /\ up' = up
  BY DEF Sending, UsesSasl, Strict
<1>2. ServerOK'
  BY <1>1 DEF Safe, ServerOK
<1>3. lines \in Seq(ClientLine(ClientVerb))
  <2>1. ClientLine(Says(Strict, UsesSasl, May(server))) \subseteq ClientLine(ClientVerb)
    BY DEF ClientLine, Says
  <2>2. lines \in Seq(ClientLine(Says(Strict, UsesSasl, May(server))))
    BY DEF Sending
  <2> QED
    BY <2>1, <2>2, SeqMonotonic
<1>4. LinesAllowed'
  <2> DEFINE C == ClientLine(Says(Strict, UsesSasl, May(server)))
             S == ServerLine(Hears(Strict, UsesSasl, May(server)))
  <2>1. /\ toServer \in Seq(C) /\ toClient \in Seq(S) /\ lines \in Seq(C)
        /\ ~up => toServer = <<>> /\ toClient = <<>>
    BY DEF Safe, LinesAllowed, Sending
  <2>2. /\ toServer' = IF up THEN toServer \o lines ELSE toServer
        /\ toClient' = toClient \/ (toClient # <<>> /\ toClient' = Tail(toClient))
    BY DEF Sending, Sends
  <2> HIDE DEF C, S
  <2>3. toServer \o lines \in Seq(C)
    BY <2>1, ConcatProperties
  <2>4. toClient # <<>> => Tail(toClient) \in Seq(S)
    BY <2>1
  <2>5. toServer' \in Seq(C) /\ toClient' \in Seq(S) /\ (~up => toServer' = <<>> /\ toClient' = <<>>)
    BY <2>1, <2>2, <2>3, <2>4
  <2> QED
    BY <1>1, <2>5 DEF LinesAllowed, C, S
<1>5. ends \in Nat /\ mechanisms \in Nat
  BY DEF Safe, EndsOnce, AnnouncesOnce
<1>6. ASSUME NEW v \in ClientVerb, NEW n, NEW old \in Nat,
             n = old + IF up THEN Cardinality({i \in DOMAIN lines : lines[i].verb = v}) ELSE 0
      PROVE  Counts(n, old, lines, v)
  <2> DEFINE k == Cardinality({i \in DOMAIN lines : lines[i].verb = v})
  <2>1. k \in Nat /\ (~Has(lines, Verb(v)) => k = 0) /\ (One(lines, Verb(v)) => k <= 1)
    BY <1>3, CountedVerbs
  <2>2. n = old + IF up THEN k ELSE 0
    BY <1>6
  <2> HIDE DEF k
  <2> QED
    BY <2>1, <2>2 DEF Counts
<1>7. "END" \in ClientVerb /\ "MECHANISM" \in ClientVerb
  BY DEF ClientVerb
<1>8. /\ ends' = ends + IF up THEN Cardinality({i \in DOMAIN lines : lines[i].verb = "END"}) ELSE 0
      /\ mechanisms' = mechanisms
           + IF up THEN Cardinality({i \in DOMAIN lines : lines[i].verb = "MECHANISM"}) ELSE 0
  BY DEF Sending, Sends
<1>9. /\ Counts(ends', ends, lines, "END")
      /\ Counts(mechanisms', mechanisms, lines, "MECHANISM")
  BY <1>5, <1>6, <1>7, <1>8
<1> QED
  BY <1>1, <1>2, <1>4, <1>9

(* Before CAP LS, only a timer or a 451 makes the client say something.    *)
MaySend(lines) == \/ timers # {}
                  \/ toClient # <<>> /\ Head(toClient).verb # "451"
                  \/ lines \in Seq(Verb("REGISTER"))

(* A client that sends more agrees on what the server knows as before.     *)
LEMMA AgreementStays ==
  ASSUME Safe, NEW lines, Sending(lines), ~Has(lines, Verb("LS")), MaySend(lines),
         timers' \subseteq timers, NEW w, Agrees(w)
  PROVE  Agrees(w)'
<1> DEFINE C == ClientLine(Says(Strict, UsesSasl, May(server)))
<1>1. /\ server' = server
      /\ toServer' = IF up THEN toServer \o lines ELSE toServer
      /\ toClient' = toClient \/ (toClient # <<>> /\ toClient' = Tail(toClient))
  BY DEF Sending, Sends
<1>2. toServer \in Seq(C) /\ lines \in Seq(C) /\ (~up => toServer = <<>>)
  BY DEF Safe, LinesAllowed, Sending
<1> HIDE DEF C
<1>3. /\ ~Has(toServer, Verb("LS")) => ~Has(toServer', Verb("LS"))
      /\ One(toServer, Verb("LS")) => One(toServer', Verb("LS"))
  <2>1. /\ Has(toServer \o lines, Verb("LS")) <=> Has(toServer, Verb("LS"))
        /\ One(toServer, Verb("LS")) => One(toServer \o lines, Verb("LS"))
    BY <1>2, ConcatHas
  <2> QED
    BY <1>1, <2>1
<1>4. Greets(toServer) => Greets(toServer')
  <2>1. /\ Len(toServer \o lines) = Len(toServer) + Len(lines)
        /\ \A k \in 1 .. Len(toServer) : (toServer \o lines)[k] = toServer[k]
    BY <1>2
  <2>2. /\ Len(toServer) >= 1 => Len(toServer') >= 1 /\ toServer'[1] = toServer[1]
        /\ Len(toServer) >= 2 => Len(toServer') >= 2 /\ toServer'[2] = toServer[2]
    BY <1>1, <1>2, <2>1
  <2> QED
    BY <1>3, <2>2 DEF Greets
<1>5. Unlisted(w) => Unlisted(w)'
  <2> SUFFICES ASSUME Unlisted(w) PROVE Unlisted(w)'
    OBVIOUS
  <2> DEFINE R == Verb("REGISTER")
  <2>1. toClient \in Seq(Demands) /\ (toClient # <<>> => Head(toClient).verb = "451")
    <3>1. \A m \in Demands : m.verb = "451"
      BY DEF Demands, ServerLine
    <3>2. toClient \in Seq(Demands)
      BY DEF Unlisted
    <3> HIDE DEF Demands
    <3> QED
      BY <3>1, <3>2
  <2>2. toClient' \in Seq(Demands)
    <3> HIDE DEF Demands
    <3>1. toClient # <<>> => Tail(toClient) \in Seq(Demands)
      BY <2>1
    <3> QED
      BY <1>1, <2>1, <3>1
  <2> HIDE DEF R
  <2>3. toServer \in Seq(R) /\ timers = {} => toServer' \in Seq(R) /\ timers' = {}
    BY <1>1, <2>1, ConcatProperties DEF MaySend, R
  <2> QED
    BY <1>4, <2>2, <2>3 DEF Unlisted, R
<1>6. Listed(w, server, toServer) => Listed(w, server, toServer')
  BY <1>3 DEF Listed
<1> QED
  BY <1>1, <1>5, <1>6 DEF Agrees

(* A step of the client that the listeners of CAP take no part in.         *)
LEMMA SaslKeeps ==
  ASSUME Safe, NEW lines, Sending(lines), UNCHANGED <<capVars, saslTimeoutId>>,
         MaySend(lines), toClient' = toClient \/ Neutral(Head(toClient)),
         \A v \in {"MECHANISM", "LS"} : ~Has(lines, Verb(v)), UsesSasl \/ ~Has(lines, Verb("END")),
         authOnce' \in {0, authOnce}, successOnce' \in {0, successOnce}, timers' \subseteq timers
  PROVE  Safe'
<1>1. /\ LinesAllowed' /\ ServerOK'
      /\ UsesSasl' = UsesSasl
      /\ Counts(ends', ends, lines, "END")
      /\ mechanisms' = mechanisms
  BY SendingKeeps DEF Counts
<1>2. UNCHANGED <<options, epoch, up>>
  BY DEF Sending
<1>3. TypeOK'
  BY <1>2 DEF Safe, TypeOK, capVars
<1>4. SaslIsUsed'
  BY <1>1 DEF Safe, SaslIsUsed, capVars
<1>5. EndsOnce'
  BY <1>1 DEF Safe, EndsOnce, Counts, capVars
<1>6. AnnouncesOnce'
  BY <1>1, <1>2 DEF Safe, AnnouncesOnce, capVars
<1>7. CapsPictured'
  <2>1. epoch = 0 => enabled' = {} /\ available' = {}
    BY DEF Safe, CapsPictured, capVars
  <2>2. ASSUME epoch = 1, up
        PROVE  \E v, w \in View : /\ Shows(v, enabled, available, capListeners)
                                  /\ Leads(v, toClient', w) /\ Agrees(w)'
    <3>1. PICK v \in View, w \in View : /\ Shows(v, enabled, available, capListeners)
                                        /\ Leads(v, toClient, w) /\ Agrees(w)
      BY <2>2 DEF Safe, CapsPictured
    <3>2. Agrees(w)'
      BY <3>1, AgreementStays
    <3>3. Leads(v, toClient', w)
      <4>1. CASE toClient' = toClient
        BY <3>1, <4>1
      <4>2. CASE toClient' # toClient
        <5>1. toClient # <<>> /\ toClient' = Tail(toClient) /\ Neutral(Head(toClient))
          BY <4>2 DEF Sending
        <5>2. toClient \in Seq(CapLine)
          <6>1. ServerLine(Hears(Strict, UsesSasl, May(server))) \subseteq CapLine
            BY DEF ServerLine, Hears, CapLine
          <6> QED
            BY <6>1, SeqMonotonic DEF Safe, LinesAllowed
        <5>3. Leads(See(v, Head(toClient)), Tail(toClient), w)
          BY <3>1, <5>1, <5>2, LeadsFirst
        <5> QED
          BY <5>1, <5>3, NeutralSees
      <4> QED
        BY <4>1, <4>2
    <3> QED
      BY <3>1, <3>2, <3>3
  <2> QED
    BY <1>2, <2>1, <2>2 DEF CapsPictured, capVars
<1> QED
  BY <1>1, <1>3, <1>4, <1>5, <1>6, <1>7 DEF Safe

LEMMA LineToSend ==
  ASSUME NEW verbs \in SUBSET ClientVerb, NEW v \in verbs
  PROVE  /\ <<Say(v)>> \in Seq(ClientLine(verbs))
         /\ \A x : Has(<<Say(v)>>, Verb(x)) <=> x = v
<1>1. \A x : Say(v) \in Verb(x) <=> x = v
  BY SaidIsTyped DEF Say
<1>2. Say(v) \in ClientLine(verbs)
  BY DEF Say, Line, ClientLine
<1> QED
  BY <1>1, <1>2 DEF Has

LEMMA LinesToSend ==
  ASSUME NEW verbs \in SUBSET ClientVerb, NEW v \in verbs, NEW w \in verbs
  PROVE  /\ <<Say(v), Say(w)>> \in Seq(ClientLine(verbs))
         /\ \A x : Has(<<Say(v), Say(w)>>, Verb(x)) <=> x \in {v, w}
<1>1. \A x : (Say(v) \in Verb(x) <=> x = v) /\ (Say(w) \in Verb(x) <=> x = w)
  BY SaidIsTyped DEF Say
<1>2. Say(v) \in ClientLine(verbs) /\ Say(w) \in ClientLine(verbs)
  BY DEF Say, Line, ClientLine
<1> QED
  BY <1>1, <1>2 DEF Has

(* A line that the client has taken from the channel.                      *)
Took == /\ toClient # <<>> /\ toClient' = Tail(toClient)
        /\ UNCHANGED <<options, epoch, up, server>>

LEMMA OnCapKeeps ==
  ASSUME Safe, Took, OnCap(Head(toClient)), Head(toClient).verb # "451"
  PROVE  /\ Safe'
         /\ ~completeAfterAck =>
              /\ ~completeAfterAck'
              /\ \E lines \in Seq(ClientLine(ClientVerb)) :
                   Sends(lines) /\ ~Has(lines, Verb("END"))
<1>1. PICK sasl \in BOOLEAN : sasl = UsesSasl
  BY DEF UsesSasl
<1>2. PICK m \in CapLine : m = Head(toClient)
  <2>1. toClient \in Seq(CapLine)
    <3>1. ServerLine(Hears(Strict, UsesSasl, May(server))) \subseteq CapLine
      BY DEF ServerLine, Hears, CapLine
    <3> QED
      BY <3>1, SeqMonotonic DEF Safe, LinesAllowed
  <2> QED
    BY <2>1 DEF Took
<1>3. PICK c \in BOOLEAN : c = completeAfterAck
  BY DEF Safe, TypeOK
<1>4. PICK ls \in Seq(Waiting(Kinds(sasl))) : ls = capListeners
  BY <1>1 DEF Safe, SaslIsUsed
<1> DEFINE before == [available |-> available, enabled |-> enabled, complete |-> completeAfterAck,
                      listeners |-> <<>>, out |-> <<>>]
           after == HearAll(Track(before, m), ls, m)
<1>5. before \in Hearing(sasl) /\ Ended(c, before) /\ Announced(FALSE, before)
  <2>1. before \in Hearing(sasl)
    BY DEF Hearing, Safe, TypeOK
  <2>2. Ended(c, before) /\ Announced(FALSE, before)
    BY <1>3 DEF Ended, Announced, One, Has
  <2> QED
    BY <2>1, <2>2
<1>6. /\ available' = after.available /\ enabled' = after.enabled
      /\ completeAfterAck' = after.complete /\ capListeners' = after.listeners
      /\ Sends(after.out) /\ UNCHANGED <<saslVars, welcomed, reported>>
  BY <1>2, <1>4, Zenon DEF OnCap
<1> HIDE DEF before
<1>7. /\ after \in Hearing(sasl)
      /\ Ended(c, after)
      /\ One(ls, Sasl) => Announced(Has(ls, Sasl), after)
  <2> DEFINE t == Track(before, m)
  <2>1. t \in Hearing(sasl) /\ Ended(c, t) /\ Announced(FALSE, t)
    <3>1. \A waited \in BOOLEAN : Announced(waited, before) => Announced(waited, t)
      BY <1>5, TrackHears
    <3>2. t \in Hearing(sasl) /\ Ended(c, t)
      BY <1>5, TrackHears
    <3> HIDE DEF t
    <3> QED
      BY <1>5, <3>1, <3>2
  <2> HIDE DEF t
  <2>2. LET u == HearAll(t, ls, m) IN /\ u \in Hearing(sasl)
                                      /\ Ended(c, u)
                                      /\ One(ls, Sasl) => Announced(Has(ls, Sasl), u)
    BY <2>1, AllHear
  <2> QED
    BY <2>2 DEF t
<1>8. \A v, caps, offers : Shows(v, caps, offers, ls) /\ Follows(FALSE, Track(before, m), v, m) =>
                              Shows(See(v, m), after.enabled, after.available, after.listeners)
  <2> DEFINE t == Track(before, m)
  <2>1. t \in Hearing(sasl) /\ t.listeners = before.listeners /\ before.listeners = <<>>
    BY <1>5, TrackHears DEF before
  <2> HIDE DEF t
  <2>2. ASSUME NEW v, NEW caps, NEW offers, Shows(v, caps, offers, ls), Follows(FALSE, t, v, m)
        PROVE  LET u == HearAll(t, ls, m) IN Shows(See(v, m), u.enabled, u.available, u.listeners)
    BY <2>1, <2>2, AllFollow
  <2> QED
    BY <2>2 DEF t
<1> HIDE DEF after
<1>9. Sending(after.out)
  <2>1. ClientLine(CapVerbs(sasl)) \subseteq ClientLine(Says(Strict, UsesSasl, May(server)))
    BY <1>1 DEF ClientLine, CapVerbs, Says, ClientVerb
  <2>2. after.out \in Seq(ClientLine(CapVerbs(sasl)))
    BY <1>7 DEF Hearing
  <2>3. after.out \in Seq(ClientLine(Says(Strict, UsesSasl, May(server))))
    BY <2>1, <2>2, SeqMonotonic
  <2> QED
    BY <1>6, <2>3 DEF Sending, Took
<1>10. /\ LinesAllowed' /\ ServerOK'
      /\ UsesSasl' = sasl
      /\ Counts(ends', ends, after.out, "END")
      /\ Counts(mechanisms', mechanisms, after.out, "MECHANISM")
  BY <1>1, <1>9, SendingKeeps
<1>11. TypeOK' /\ SaslIsUsed'
  <2>1. /\ after.available \in SUBSET Cap /\ after.enabled \in SUBSET Cap
        /\ after.complete \in BOOLEAN /\ after.listeners \in Seq(Waiting(Kinds(sasl)))
    BY <1>7 DEF Hearing
  <2>2. after.listeners \in Seq(Waiting({"ls", "sasl"}))
    <3>1. Waiting(Kinds(sasl)) \subseteq Waiting({"ls", "sasl"})
      BY DEF Waiting, Kinds
    <3> QED
      BY <2>1, <3>1, SeqMonotonic
  <2>3. TypeOK'
    BY <1>6, <2>1, <2>2 DEF Safe, TypeOK, Took, Waiting, saslVars
  <2>4. SaslIsUsed'
    BY <1>1, <1>6, <1>10, <2>1 DEF Safe, SaslIsUsed, saslVars
  <2> QED
    BY <2>3, <2>4
<1>12. EndsOnce'
  BY <1>1, <1>3, <1>6, <1>7, <1>10 DEF Safe, EndsOnce, Counts, Ended
<1>13. AnnouncesOnce'
  <2>1. epoch' = epoch /\ epoch # 0
    BY DEF Safe, AnnouncesOnce, LinesAllowed, Took
  <2>2. CASE epoch = 1
    <3>1. One(ls, Sasl) /\ mechanisms <= 1 /\ (Has(ls, Sasl) => mechanisms = 0)
      BY <1>4, <2>2 DEF Safe, AnnouncesOnce
    <3>2. mechanisms \in Nat
      BY DEF Safe, AnnouncesOnce
    <3> QED
      BY <1>6, <1>7, <1>10, <2>1, <3>1, <3>2 DEF AnnouncesOnce, Counts, Announced
  <2>3. CASE epoch # 1
    BY <1>10, <2>1, <2>3 DEF AnnouncesOnce, Counts
  <2> QED
    BY <2>2, <2>3
<1>14. CapsPictured'
  <2>1. toClient # <<>> /\ toClient' = Tail(toClient) /\ UNCHANGED <<epoch, up>>
    BY DEF Took
  <2>2. epoch # 0
    BY <2>1 DEF Safe, AnnouncesOnce, LinesAllowed
  <2>3. ASSUME epoch = 1, up
        PROVE  \E v, w \in View : /\ Shows(v, enabled', available', capListeners')
                                  /\ Leads(v, toClient', w) /\ Agrees(w)'
    <3>1. PICK v \in View, w \in View : /\ Shows(v, enabled, available, capListeners)
                                        /\ Leads(v, toClient, w) /\ Agrees(w)
      BY <2>3 DEF Safe, CapsPictured
    <3>2. Leads(See(v, m), toClient', w) /\ See(v, m) \in View
      <4>1. toClient \in Seq(CapLine)
        <5>1. ServerLine(Hears(Strict, UsesSasl, May(server))) \subseteq CapLine
          BY DEF ServerLine, Hears, CapLine
        <5> QED
          BY <5>1, SeqMonotonic DEF Safe, LinesAllowed
      <4>2. Leads(See(v, m), toClient', w)
        BY <1>2, <2>1, <3>1, <4>1, LeadsFirst
      <4>3. See(v, m) \in View
        BY <1>2, SeeTyped
      <4> QED
        BY <4>2, <4>3
    <3>3. Shows(See(v, m), enabled', available', capListeners')
      <4>1. v.enabled = before.enabled /\ v.available = before.available
        BY <3>1 DEF Shows, before
      <4>2. /\ Track(before, m).enabled = See(v, m).enabled
            /\ Track(before, m).available = IF m.verb = "LS" THEN v.available ELSE See(v, m).available
        BY <1>5, <3>1, <4>1, TrackSees
      <4>3. Track(before, m).listeners = <<>>
        BY <1>5, TrackHears DEF before
      <4>4. Follows(FALSE, Track(before, m), v, m)
        BY <4>2, <4>3 DEF Follows, One, Has
      <4> QED
        BY <1>4, <1>6, <1>8, <3>1, <4>4
    <3>4. Agrees(w)'
      <4>1. ~Has(after.out, Verb("LS"))
        <5>1. after.out \in Seq(ClientLine(CapVerbs(sasl)))
          BY <1>7 DEF Hearing
        <5>2. \A k \in DOMAIN after.out : after.out[k] \in ClientLine(CapVerbs(sasl))
          BY <5>1
        <5>3. \A l \in ClientLine(CapVerbs(sasl)) : l \notin Verb("LS")
          BY DEF ClientLine, CapVerbs, Verb
        <5> QED
          BY <5>2, <5>3 DEF Has
      <4> QED
        BY <1>6, <1>9, <2>1, <3>1, <4>1, AgreementStays DEF MaySend, saslVars
    <3> QED
      BY <3>2, <3>3, <3>4
  <2> QED
    BY <2>1, <2>2, <2>3 DEF CapsPictured
<1>15. ~completeAfterAck =>
        /\ ~completeAfterAck'
        /\ \E lines \in Seq(ClientLine(ClientVerb)) : Sends(lines) /\ ~Has(lines, Verb("END"))
  <2>1. ClientLine(CapVerbs(sasl)) \subseteq ClientLine(ClientVerb)
    BY DEF ClientLine, CapVerbs, ClientVerb
  <2>2. after.out \in Seq(ClientLine(ClientVerb))
    BY <1>7, <2>1, SeqMonotonic DEF Hearing
  <2> QED
    BY <1>3, <1>6, <1>7, <2>2 DEF Ended
<1> QED
  BY <1>10, <1>11, <1>12, <1>13, <1>14, <1>15 DEF Safe

LEMMA SaslFailsKeeps ==
  ASSUME Safe, UsesSasl, NEW armed \in SUBSET timers, SaslFails(armed),
         UNCHANGED <<options, epoch, up, server, capVars, authOnce, successOnce, saslTimeoutId>>,
         timers # {} \/ (toClient # <<>> /\ Head(toClient).verb # "451"),
         \/ toClient' = toClient
         \/ toClient # <<>> /\ toClient' = Tail(toClient) /\ Neutral(Head(toClient))
  PROVE  Safe'
<1> DEFINE verbs == Says(Strict, UsesSasl, May(server))
<1>1. verbs \in SUBSET ClientVerb /\ "END" \in verbs
  BY DEF Says, ClientVerb
<1>2. PICK lines : /\ lines \in Seq(ClientLine(verbs)) /\ Sends(lines)
                   /\ \A v \in {"MECHANISM", "LS"} : ~Has(lines, Verb(v))
  <2>1. CASE options.method = "saslThenNickServ"
    <3> DEFINE lines == <<Say("END"), Say("IDENTIFY")>>
    <3>1. "IDENTIFY" \in verbs
      BY <2>1 DEF Says, ClientVerb, Strict
    <3>2. Sends(lines)
      BY <2>1 DEF SaslFails
    <3>3. lines \in Seq(ClientLine(verbs)) /\ \A x : Has(lines, Verb(x)) <=> x \in {"END", "IDENTIFY"}
      <4> HIDE DEF verbs
      <4> QED
        BY <1>1, <3>1, LinesToSend
    <3>4. \A v \in {"MECHANISM", "LS"} : ~Has(lines, Verb(v))
      <4> HIDE DEF lines
      <4> QED
        BY <3>3
    <3> QED
      BY <3>2, <3>3, <3>4
  <2>2. CASE options.method # "saslThenNickServ"
    <3> DEFINE lines == <<Say("END")>>
    <3>1. Sends(lines)
      BY <2>2 DEF SaslFails
    <3>2. lines \in Seq(ClientLine(verbs)) /\ \A x : Has(lines, Verb(x)) <=> x = "END"
      <4> HIDE DEF verbs
      <4> QED
        BY <1>1, LineToSend
    <3>3. \A v \in {"MECHANISM", "LS"} : ~Has(lines, Verb(v))
      <4> HIDE DEF lines
      <4> QED
        BY <3>2
    <3> QED
      BY <3>1, <3>2, <3>3
  <2> QED
    BY <2>1, <2>2
<1>3. Sending(lines)
  BY <1>2 DEF Sending
<1>4. timers' \subseteq timers
  BY DEF SaslFails
<1> QED
  BY <1>2, <1>3, <1>4, SaslKeeps DEF capVars, MaySend

LEMMA OnSaslSuccessKeeps ==
  ASSUME Safe, Took, OnSaslSuccess, Neutral(Head(toClient)), UsesSasl, Strict => May(server),
         Head(toClient).verb # "451"
  PROVE  Safe'
<1> DEFINE verbs == Says(Strict, UsesSasl, May(server))
           L == ClientLine(verbs)
           pair == <<Say("END"), Say("REGISTER")>>
           pairs == [k \in 1 .. successOnce |-> pair]
           lines == FlattenSeq(pairs)
<1>1. pair \in Seq(L) /\ \A x : Has(pair, Verb(x)) <=> x \in {"END", "REGISTER"}
  <2>1. verbs \in SUBSET ClientVerb /\ "END" \in verbs /\ "REGISTER" \in verbs
    BY DEF Says, ClientVerb
  <2> HIDE DEF verbs
  <2> QED
    BY <2>1, LinesToSend
<1>2. successOnce \in Nat
  BY DEF Safe, TypeOK
<1>3. pairs \in Seq(Seq(L))
  <2> HIDE DEF pair, L
  <2> QED
    BY <1>1, <1>2
<1>4. lines \in Seq(L) /\ ToSet(lines) = UNION {ToSet(pairs[k]) : k \in DOMAIN pairs}
  <2> HIDE DEF pairs, L
  <2> QED
    BY <1>3, Flattened DEF Flat
<1>5. ASSUME NEW v \in {"MECHANISM", "LS"} PROVE ~Has(lines, Verb(v))
  <2>1. \A k \in DOMAIN pairs : pairs[k] = pair
    OBVIOUS
  <2> HIDE DEF lines, pairs, pair
  <2> SUFFICES ASSUME NEW j \in DOMAIN lines, lines[j] \in Verb(v) PROVE FALSE
    BY DEF Has
  <2>2. lines[j] \in ToSet(lines)
    BY DEF ToSet
  <2>3. PICK k \in DOMAIN pairs : lines[j] \in ToSet(pairs[k])
    BY <1>4, <2>2
  <2>4. Has(pair, Verb(v))
    BY <2>1, <2>3 DEF ToSet, Has
  <2> QED
    BY <1>1, <2>4
<1>6. /\ Sends(lines) /\ successOnce' = 0 /\ timers' \subseteq timers
      /\ UNCHANGED <<capVars, authOnce, saslTimeoutId>>
  BY DEF OnSaslSuccess, ClearSaslTimeout
<1> HIDE DEF lines
<1>7. Sending(lines)
  BY <1>4, <1>6 DEF Sending, Took
<1> QED
  BY <1>5, <1>6, <1>7, SaslKeeps DEF Took, MaySend

LEMMA OnAuthenticateKeeps ==
  ASSUME Safe, Took, OnAuthenticate, Neutral(Head(toClient)), UsesSasl,
         Head(toClient).verb # "451"
  PROVE  Safe'
<1> DEFINE L == ClientLine(Says(Strict, UsesSasl, May(server)))
           lines == [i \in 1 .. authOnce |-> Say("CREDENTIALS")]
<1>1. Say("CREDENTIALS") \in L
  BY DEF Say, Line, ClientLine, Says, ClientVerb
<1>2. authOnce \in Nat
  BY DEF Safe, TypeOK
<1>3. lines \in Seq(L)
  <2> HIDE DEF L
  <2> QED
    BY <1>1, <1>2
<1>4. \A v \in {"MECHANISM", "LS"} : ~Has(lines, Verb(v))
  <2>1. \A v \in {"MECHANISM", "LS"} : Say("CREDENTIALS") \notin Verb(v)
    BY SaidIsTyped DEF Say
  <2> QED
    BY <2>1 DEF Has
<1>5. Sends(lines) /\ authOnce' = 0 /\ UNCHANGED <<capVars, successOnce, timers, saslTimeoutId>>
  BY DEF OnAuthenticate
<1> HIDE DEF lines
<1>6. Sending(lines)
  BY <1>3, <1>5 DEF Sending, Took
<1> QED
  BY <1>4, <1>5, <1>6, SaslKeeps DEF Took, MaySend

LEMMA OnNotRegisteredKeeps ==
  ASSUME Safe, Took, OnNotRegistered, Neutral(Head(toClient)), ~Strict \/ May(server)
  PROVE  Safe'
<1> DEFINE verbs == Says(Strict, UsesSasl, May(server))
           lines == <<Say("REGISTER")>>
<1>1. /\ lines \in Seq(ClientLine(verbs)) /\ \A x : Has(lines, Verb(x)) <=> x = "REGISTER"
  <2>1. verbs \in SUBSET ClientVerb /\ "REGISTER" \in verbs
    BY DEF Says, ClientVerb
  <2> HIDE DEF verbs
  <2> QED
    BY <2>1, LineToSend
<1>2. Sends(lines) /\ UNCHANGED <<capVars, saslVars>>
  BY DEF OnNotRegistered
<1> HIDE DEF lines
<1>3. Sending(lines)
  BY <1>1, <1>2 DEF Sending, Took
<1>4. lines \in Seq(Verb("REGISTER"))
  BY SaidIsTyped DEF lines, Say
<1> QED
  BY <1>1, <1>2, <1>3, <1>4, SaslKeeps DEF saslVars, Took, MaySend

LEMMA OnWelcomeKeeps ==
  ASSUME Safe, Took, OnWelcome, Neutral(Head(toClient)), Head(toClient).verb # "451"
  PROVE  Safe'
<1>1. {i \in DOMAIN <<>> : <<>>[i].verb = "END"} = {} /\ {i \in DOMAIN <<>> : <<>>[i].verb = "MECHANISM"} = {}
  OBVIOUS
<1>2. toServer \o <<>> = toServer
  BY DEF Safe, LinesAllowed
<1>3. ends \in Nat /\ mechanisms \in Nat
  BY DEF Safe, EndsOnce, AnnouncesOnce
<1>4. Sends(<<>>)
  BY <1>1, <1>2, <1>3, FS_EmptySet DEF Sends, OnWelcome
<1>5. /\ <<>> \in Seq(ClientLine(Says(Strict, UsesSasl, May(server))))
      /\ \A v : ~Has(<<>>, Verb(v))
  BY DEF Has
<1>6. Sending(<<>>)
  BY <1>4, <1>5 DEF Sending, Took
<1> QED
  BY <1>5, <1>6, SaslKeeps DEF OnWelcome, saslVars, Took, MaySend

LEMMA ReceiveKeeps ==
  ASSUME Safe, Receive
  PROVE  Safe'
<1> DEFINE m == Head(toClient)
<1>1. Took
  BY DEF Receive, Took
<1>2. m.verb \in Hears(Strict, UsesSasl, May(server))
  <2>1. m \in ServerLine(Hears(Strict, UsesSasl, May(server)))
    BY DEF Receive, Safe, LinesAllowed
  <2> QED
    BY <2>1 DEF ServerLine
<1>3. CASE m.verb = "+"
  <2>1. OnAuthenticate
    BY <1>3, Zenon DEF Receive
  <2> QED
    BY <1>1, <1>2, <1>3, <2>1, OnAuthenticateKeeps DEF Hears, Neutral
<1>4. CASE m.verb = "903"
  <2>1. OnSaslSuccess
    BY <1>4, Zenon DEF Receive
  <2> QED
    BY <1>1, <1>2, <1>4, <2>1, OnSaslSuccessKeeps DEF Hears, Neutral
<1>5. CASE m.verb \in {"904", "906"}
  <2>1. OnSaslFail
    BY <1>5, Zenon DEF Receive
  <2>2. UsesSasl
    BY <1>2, <1>5 DEF Hears
  <2> QED
    BY <1>1, <1>5, <2>1, <2>2, SaslFailsKeeps DEF OnSaslFail, ClearSaslTimeout, Took, Neutral
<1>6. CASE m.verb = "451"
  <2>1. OnNotRegistered
    BY <1>6, Zenon DEF Receive
  <2> QED
    BY <1>1, <1>2, <1>6, <2>1, OnNotRegisteredKeeps DEF Hears, Neutral
<1>7. CASE m.verb = "001"
  <2>1. OnWelcome
    BY <1>7, Zenon DEF Receive
  <2> QED
    BY <1>1, <1>7, <2>1, OnWelcomeKeeps DEF Neutral
<1>8. CASE m.verb \notin {"+", "903", "904", "906", "451", "001"}
  <2>1. OnCap(m)
    BY <1>8, Zenon DEF Receive
  <2> QED
    BY <1>1, <1>8, <2>1, OnCapKeeps
<1> QED
  BY <1>3, <1>4, <1>5, <1>6, <1>7, <1>8

LEMMA SaslTimerKeeps ==
  ASSUME Safe, NEW e, SaslTimer(e)
  PROVE  Safe'
<1>1. UsesSasl
  BY DEF Safe, SaslIsUsed, SaslTimer
<1>2. (timers \ {e}) \ {saslTimeoutId} \in SUBSET timers
  OBVIOUS
<1> QED
  BY <1>1, <1>2, SaslFailsKeeps DEF SaslTimer

-----------------------------------------------------------------------------
(* A step of the server: nothing but the channels and its own state.       *)
Handles == /\ up /\ UNCHANGED <<options, epoch, up, capVars, saslVars, history>>
           /\ toServer' = toServer \/ (toServer # <<>> /\ toServer' = Tail(toServer))

(* The server may come to the state s with these lines.                    *)
MayReply(s, lines) == /\ Sound(s, Strict, UsesSasl)
                      /\ May(server) => May(s)
                      /\ lines \in Seq(ServerLine(Hears(Strict, UsesSasl, May(s))))

(* The lines make a client that agrees see what the server knows in s.     *)
Pictures(s, lines) ==
  \A w \in View : epoch = 1 /\ Agrees(w) =>
    \E x \in View : /\ Leads(w, lines, x) /\ x.enabled = s.acked
                    /\ \/ s.registered
                       \/ s.negotiation = "none" /\ (s.user \/ Unlisted(x)')
                       \/ s.negotiation # "none" /\ Listed(x, s, toServer')

LEMMA RepliesKeep ==
  ASSUME Safe, NEW s, NEW lines, MayReply(s, lines), Replies(s, lines), Handles, Pictures(s, lines)
  PROVE  Safe'
<1> DEFINE welcomes == Registered(s) /\ ~s.registered
           said == IF welcomes THEN Append(lines, Short("001")) ELSE lines
           t == [s EXCEPT !.registered = @ \/ welcomes]
           C == ClientLine(Says(Strict, UsesSasl, May(s)))
           S == ServerLine(Hears(Strict, UsesSasl, May(s)))
<1>1. server' = t /\ toClient' = toClient \o said
  BY DEF Replies
<1>2. UsesSasl' = UsesSasl /\ Strict' = Strict /\ up' /\ up
  BY DEF Handles, UsesSasl, Strict
<1>3. May(t) = May(s) /\ Sound(t, Strict, UsesSasl)
  <2>1. s \in ServerState
    BY DEF MayReply, Sound
  <2>2. PICK w \in BOOLEAN : w = welcomes
    OBVIOUS
  <2>3. welcomes => s.user
    BY DEF Registered
  <2>4. t = [s EXCEPT !.registered = s.registered \/ w] /\ (w => s.user)
    BY <2>2, <2>3
  <2> HIDE DEF welcomes, t
  <2>5. t \in ServerState
    BY <2>1, <2>4 DEF ServerState, May
  <2>6. /\ May(t) = May(s) /\ t.user = s.user /\ t.sasl = s.sasl
        /\ t.registered => s.registered \/ w
    BY <2>1, <2>4 DEF ServerState, May
  <2> QED
    BY <2>4, <2>5, <2>6 DEF Sound, MayReply
<1>4. said \in Seq(S)
  <2>1. Short("001") \in S
    BY DEF Short, Reply, ServerLine, Hears, ServerVerb
  <2>2. lines \in Seq(S)
    BY DEF MayReply
  <2> HIDE DEF S
  <2>3. Append(lines, Short("001")) \in Seq(S)
    BY <2>1, <2>2, AppendProperties
  <2> QED
    BY <2>2, <2>3
<1>5. toServer \in Seq(C) /\ toClient \in Seq(S)
  <2>1. /\ ClientLine(Says(Strict, UsesSasl, May(server))) \subseteq C
        /\ ServerLine(Hears(Strict, UsesSasl, May(server))) \subseteq S
    BY DEF MayReply, ClientLine, Says, ServerLine, Hears
  <2>2. /\ toServer \in Seq(ClientLine(Says(Strict, UsesSasl, May(server))))
        /\ toClient \in Seq(ServerLine(Hears(Strict, UsesSasl, May(server))))
    BY DEF Safe, LinesAllowed
  <2> HIDE DEF C, S
  <2> QED
    BY <2>1, <2>2, SeqMonotonic
<1>6. LinesAllowed'
  <2>1. toServer' \in Seq(C) /\ toClient' \in Seq(S)
    <3> HIDE DEF C, S, said
    <3>1. toClient \o said \in Seq(S)
      BY <1>4, <1>5, ConcatProperties
    <3>2. toServer # <<>> => Tail(toServer) \in Seq(C)
      BY <1>5
    <3> QED
      BY <1>1, <1>5, <3>1, <3>2 DEF Handles
  <2>2. May(server') = May(s)
    BY <1>1, <1>3
  <2> QED
    BY <1>2, <2>1, <2>2 DEF LinesAllowed
<1>7. ServerOK'
  <2> HIDE DEF t
  <2> QED
    BY <1>1, <1>2, <1>3 DEF ServerOK
<1>8. CapsPictured'
  <2>1. epoch' = epoch /\ UNCHANGED <<enabled, available, capListeners>>
    BY DEF Handles, capVars
  <2>2. epoch = 0 => enabled' = {} /\ available' = {}
    BY <2>1 DEF Safe, CapsPictured
  <2>3. ASSUME epoch = 1
        PROVE  \E v, x \in View : /\ Shows(v, enabled, available, capListeners)
                                  /\ Leads(v, toClient', x) /\ Agrees(x)'
    <3>1. PICK v \in View, w \in View : /\ Shows(v, enabled, available, capListeners)
                                        /\ Leads(v, toClient, w) /\ Agrees(w)
      BY <1>2, <2>3 DEF Safe, CapsPictured
    <3>2. PICK x \in View : /\ Leads(w, lines, x) /\ x.enabled = s.acked
                            /\ \/ s.registered
                               \/ s.negotiation = "none" /\ (s.user \/ Unlisted(x)')
                               \/ s.negotiation # "none" /\ Listed(x, s, toServer')
      BY <2>3, <3>1 DEF Pictures
    <3>3. lines \in Seq(CapLine) /\ toClient \in Seq(CapLine) /\ said \in Seq(CapLine)
      <4>1. S \subseteq CapLine
        BY DEF ServerLine, Hears, CapLine
      <4> HIDE DEF S, said
      <4>2. lines \in Seq(S)
        BY DEF MayReply, S
      <4> QED
        BY <1>4, <1>5, <4>1, <4>2, SeqMonotonic
    <3>4. Leads(w, said, x)
      <4> DEFINE m == Short("001")
      <4>1. m \in CapLine /\ Neutral(m)
        BY DEF Short, Reply, CapLine, ServerLine, ServerVerb, Neutral
      <4> HIDE DEF m
      <4>2. Leads(x, <<m>>, x) /\ <<m>> \in Seq(CapLine)
        BY <4>1, LeadsOne, NeutralSees
      <4>3. Leads(w, lines \o <<m>>, x)
        BY <3>2, <3>3, <4>2, LeadsOn
      <4>4. Append(lines, m) = lines \o <<m>>
        BY <3>3, <4>1, AppendIsConcat
      <4> QED
        BY <3>2, <4>3, <4>4 DEF m
    <3>5. Leads(v, toClient', x)
      <4> HIDE DEF said
      <4> QED
        BY <1>1, <3>1, <3>3, <3>4, LeadsOn
    <3>6. Agrees(x)'
      <4>1. s \in ServerState
        BY DEF MayReply, Sound
      <4>2. /\ server'.acked = s.acked /\ server'.offers = s.offers
            /\ server'.negotiation = s.negotiation
            /\ ~server'.registered => ~s.registered /\ ~welcomes
        <5> HIDE DEF welcomes
        <5> QED
          BY <1>1, <4>1 DEF ServerState, May
      <4>3. ASSUME ~server'.registered
            PROVE  IF s.negotiation = "none" THEN Unlisted(x)' ELSE Listed(x, s, toServer')
        <5>1. ~(s.user /\ s.negotiation # "open")
          BY <4>2, <4>3 DEF Registered
        <5> QED
          BY <3>2, <4>2, <4>3, <5>1
      <4>4. Listed(x, s, toServer') => Listed(x, server', toServer')
        BY <4>2 DEF Listed
      <4> QED
        BY <3>2, <4>2, <4>3, <4>4 DEF Agrees
    <3> QED
      BY <3>1, <3>5, <3>6
  <2> QED
    BY <2>1, <2>2, <2>3 DEF CapsPictured
<1>9. TypeOK' /\ SaslIsUsed' /\ EndsOnce' /\ AnnouncesOnce'
  <2>1. TypeOK'
    BY DEF Safe, TypeOK, Handles, capVars, saslVars
  <2>2. SaslIsUsed'
    BY <1>2 DEF Safe, SaslIsUsed, Handles, capVars, saslVars
  <2>3. EndsOnce'
    BY <1>2 DEF Safe, EndsOnce, Handles, capVars, history
  <2>4. AnnouncesOnce'
    BY DEF Safe, AnnouncesOnce, Handles, capVars, history
  <2> QED
    BY <2>1, <2>2, <2>3, <2>4
<1> QED
  BY <1>6, <1>7, <1>8, <1>9 DEF Safe

(* The lines of a reply.                                                   *)
LEMMA RepliesTyped ==
  ASSUME NEW verbs \in SUBSET ServerVerb
  PROVE  /\ <<>> \in Seq(ServerLine(verbs))
         /\ \A v \in verbs : <<Short(v)>> \in Seq(ServerLine(verbs))
         /\ \A v \in verbs : \A caps, words \in SUBSET Cap :
              <<Reply(v, caps, words)>> \in Seq(ServerLine(verbs))
         /\ \A v, w \in verbs : \A caps, words, more, others \in SUBSET Cap :
              <<Reply(v, caps, words), Reply(w, more, others)>> \in Seq(ServerLine(verbs))
<1>1. \A v \in verbs : \A caps, words \in SUBSET Cap : Reply(v, caps, words) \in ServerLine(verbs)
  BY DEF Reply, ServerLine
<1>2. \A v \in verbs : Short(v) \in ServerLine(verbs)
  BY <1>1 DEF Short
<1> HIDE DEF ServerLine
<1>3. /\ <<>> \in Seq(ServerLine(verbs))
      /\ \A v \in verbs : <<Short(v)>> \in Seq(ServerLine(verbs))
  BY <1>2
<1>4. \A v \in verbs : \A caps, words \in SUBSET Cap :
        <<Reply(v, caps, words)>> \in Seq(ServerLine(verbs))
  BY <1>1
<1>5. \A v, w \in verbs : \A caps, words, more, others \in SUBSET Cap :
        <<Reply(v, caps, words), Reply(w, more, others)>> \in Seq(ServerLine(verbs))
  BY <1>1
<1> QED
  BY <1>3, <1>4, <1>5

Known(loggedIn) == Hears(Strict, UsesSasl, loggedIn)

(* What is handled is not waiting any more.                                *)
LEMMA TailHas ==
  ASSUME NEW T, NEW lines \in Seq(T), lines # <<>>, NEW S
  PROVE  /\ ~Has(lines, S) => ~Has(Tail(lines), S)
         /\ Head(lines) \in S /\ One(lines, S) => ~Has(Tail(lines), S)
<1>1. PICK t : /\ t = Tail(lines) /\ t \in Seq(T) /\ Len(t) = Len(lines) - 1
               /\ \A i \in 1 .. Len(t) : t[i] = lines[i + 1]
  BY HeadTailProperties
<1>2. /\ DOMAIN t = 1 .. Len(t) /\ DOMAIN lines = 1 .. Len(lines)
      /\ Len(lines) \in Nat /\ Len(lines) >= 1 /\ Head(lines) = lines[1]
  BY <1>1
<1>3. \A i \in DOMAIN t : i + 1 \in DOMAIN lines /\ i + 1 # 1 /\ t[i] = lines[i + 1]
  BY <1>1, <1>2
<1>4. 1 \in DOMAIN lines
  BY <1>2
<1>5. ~Has(lines, S) => ~Has(t, S)
  BY <1>3 DEF Has
<1>6. lines[1] \in S /\ One(lines, S) => ~Has(t, S)
  BY <1>3, <1>4 DEF Has, One
<1> QED
  BY <1>1, <1>2, <1>5, <1>6

(* What the server waits to handle are lines of the client.                *)
LEMMA WaitingLines ==
  ASSUME Safe
  PROVE  /\ toServer \in Seq(ClientLine(ClientVerb))
         /\ \A v : \A i \in DOMAIN toServer : toServer[i].verb = v <=> toServer[i] \in Verb(v)
<1>1. toServer \in Seq(ClientLine(ClientVerb))
  <2> DEFINE S == ClientLine(Says(Strict, UsesSasl, May(server)))
             C == ClientLine(ClientVerb)
  <2>1. S \subseteq C
    BY DEF ClientLine, Says
  <2>2. toServer \in Seq(S)
    BY DEF Safe, LinesAllowed
  <2> HIDE DEF S, C
  <2>3. toServer \in Seq(C)
    BY <2>1, <2>2, SeqMonotonic
  <2> QED
    BY <2>3 DEF C
<1>2. \A v : \A i \in DOMAIN toServer : toServer[i].verb = v <=> toServer[i] \in Verb(v)
  <2> TAKE v
  <2> TAKE i \in DOMAIN toServer
  <2>1. toServer[i] \in ClientLine(ClientVerb)
    BY <1>1
  <2> QED
    BY <2>1 DEF Verb, ClientLine
<1> QED
  BY <1>1, <1>2

(* The picture that the lines of a CAP LS make, in one line or in two.     *)
LEMMA LsSees ==
  ASSUME NEW v \in View, NEW m \in CapLine, m.verb \in {"LS", "LS*"}
  PROVE  LET x == See(v, m)
         IN  /\ x \in View /\ x.enabled = v.enabled
             /\ v.listing /\ m.verb = "LS" =>
                  ~x.listing /\ x.available = v.available \cup (v.collected \cup m.caps)
             /\ v.listing /\ m.verb = "LS*" =>
                  /\ x.listing /\ x.available = v.available
                  /\ x.collected = v.collected \cup m.caps
<1>1. See(v, m) \in View
  BY SeeTyped
<1>2. CASE ~v.listing
  <2>1. See(v, m) = v
    BY <1>2, Zenon DEF See
  <2> QED
    BY <1>1, <1>2, <2>1
<1>3. CASE v.listing /\ m.verb = "LS*"
  <2>1. See(v, m) = [v EXCEPT !.collected = @ \cup m.caps]
    BY <1>3, Zenon DEF See
  <2> QED
    BY <1>1, <1>3, <2>1 DEF View
<1>4. CASE v.listing /\ m.verb = "LS"
  <2>1. See(v, m) = [v EXCEPT !.available = @ \cup (v.collected \cup m.caps), !.listing = FALSE]
    BY <1>4, Zenon DEF See
  <2> QED
    BY <1>1, <1>4, <2>1 DEF View
<1> QED
  BY <1>2, <1>3, <1>4

Tells(v, lines, offers) ==
  \E x \in View : /\ Leads(v, lines, x) /\ x.enabled = v.enabled
                  /\ v.listing /\ v.collected = {} /\ v.available = {} =>
                       ~x.listing /\ x.available = offers

LEMMA ListingTells ==
  ASSUME NEW v \in View, NEW offers \in SUBSET Cap, NEW first \in SUBSET offers,
         NEW words \in SUBSET Cap, NEW rest, rest = offers \ first
  PROVE  /\ Tells(v, <<Reply("LS", offers, words)>>, offers)
         /\ Tells(v, <<Reply("LS*", first, {}), Reply("LS", rest, words)>>, offers)
<1>1. PICK one, two, all : /\ one = Reply("LS*", first, {}) /\ two = Reply("LS", rest, words)
                           /\ all = Reply("LS", offers, words)
  OBVIOUS
<1>2. /\ one \in CapLine /\ one.verb = "LS*" /\ one.caps = first
      /\ two \in CapLine /\ two.verb = "LS" /\ two.caps = rest
      /\ all \in CapLine /\ all.verb = "LS" /\ all.caps = offers
  BY <1>1 DEF Reply, CapLine, ServerLine, ServerVerb
<1>3. Tells(v, <<all>>, offers)
  <2>1. PICK x : x = See(v, all)
    OBVIOUS
  <2>2. Leads(v, <<all>>, x)
    BY <1>2, <2>1, LeadsOne
  <2>3. /\ x \in View /\ x.enabled = v.enabled
        /\ v.listing => ~x.listing /\ x.available = v.available \cup (v.collected \cup offers)
    BY <1>2, <2>1, LsSees
  <2> QED
    BY <2>2, <2>3 DEF Tells
<1>4. Tells(v, <<one, two>>, offers)
  <2>1. PICK y : y = See(v, one)
    OBVIOUS
  <2>2. /\ y \in View /\ y.enabled = v.enabled
        /\ v.listing => /\ y.listing /\ y.available = v.available
                       /\ y.collected = v.collected \cup first
    BY <1>2, <2>1, LsSees
  <2>3. PICK x : x = See(y, two)
    OBVIOUS
  <2>4. /\ x \in View /\ x.enabled = y.enabled
        /\ y.listing => ~x.listing /\ x.available = y.available \cup (y.collected \cup rest)
    <3>1. PICK z \in View : z = y
      BY <2>2
    <3>2. /\ See(z, two) \in View /\ See(z, two).enabled = z.enabled
          /\ z.listing => /\ ~See(z, two).listing
                         /\ See(z, two).available = z.available \cup (z.collected \cup two.caps)
      BY <1>2, LsSees
    <3> QED
      BY <1>2, <2>3, <3>1, <3>2
  <2>5. v.listing /\ v.collected = {} /\ v.available = {} => ~x.listing /\ x.available = offers
    BY <2>2, <2>4
  <2>6. Leads(v, <<one, two>>, x)
    BY <1>2, <2>1, <2>3, LeadsTwo
  <2> QED
    BY <2>2, <2>4, <2>5, <2>6 DEF Tells
<1> QED
  BY <1>1, <1>3, <1>4

LEMMA HandleLsKeeps ==
  ASSUME Safe, Handles, HandleLs,
         toServer # <<>>, Head(toServer).verb = "LS", toServer' = Tail(toServer)
  PROVE  Safe'
<1>1. server \in ServerState /\ Sound(server, Strict, UsesSasl)
  BY DEF Safe, ServerOK, Sound
<1>2. Opened \in ServerState /\ Sound(Opened, Strict, UsesSasl) /\ May(Opened) = May(server)
  BY <1>1 DEF Opened, Sound, ServerState, May
<1>3. \A caps \in SUBSET Cap : Word(caps) \in SUBSET Cap
  BY DEF Word
<1>4. PICK first \in SUBSET server.offers :
         Replies(Opened, IF first = {} THEN <<Reply("LS", server.offers, Word(server.offers))>>
                         ELSE <<Reply("LS*", first, {}),
                                Reply("LS", server.offers \ first, Word(server.offers \ first))>>)
  BY DEF HandleLs
<1>5. PICK rest : rest = server.offers \ first
  OBVIOUS
<1> DEFINE verbs == Known(May(Opened))
           one == <<Reply("LS", server.offers, Word(server.offers))>>
           two == <<Reply("LS*", first, {}), Reply("LS", rest, Word(rest))>>
<1>6. verbs \in SUBSET ServerVerb /\ "LS" \in verbs /\ "LS*" \in verbs
  BY DEF Known, Hears, ServerVerb
<1>7. server.offers \in SUBSET Cap /\ first \in SUBSET Cap /\ rest \in SUBSET Cap /\ {} \in SUBSET Cap
  BY <1>1, <1>5 DEF ServerState, May
<1>8. one \in Seq(ServerLine(verbs)) /\ two \in Seq(ServerLine(verbs))
  <2> HIDE DEF verbs
  <2>1. one \in Seq(ServerLine(verbs))
    BY <1>3, <1>6, <1>7, RepliesTyped
  <2>2. two \in Seq(ServerLine(verbs))
    BY <1>3, <1>6, <1>7, RepliesTyped
  <2> QED
    BY <2>1, <2>2
<1>9. \A w \in View : Tells(w, one, server.offers) /\ Tells(w, two, server.offers)
  <2> TAKE w \in View
  <2> QED
    BY <1>3, <1>5, <1>7, ListingTells
<1>10. PICK lines : /\ lines \in Seq(ServerLine(verbs)) /\ Replies(Opened, lines)
                    /\ \A w \in View : Tells(w, lines, server.offers)
  <2>1. Replies(Opened, IF first = {} THEN one ELSE two)
    BY <1>4, <1>5
  <2> HIDE DEF one, two
  <2> QED
    BY <1>8, <1>9, <2>1
<1>11. MayReply(Opened, lines)
  BY <1>2, <1>10 DEF MayReply, Known
<1>12. Opened.acked = server.acked /\ Opened.offers = server.offers
  BY <1>1 DEF Opened, ServerState, May
<1>13. ~server.registered => Opened.negotiation = "open"
  BY <1>1 DEF Opened, ServerState, May
<1>14. server.registered => Opened.registered
  BY DEF Opened
<1>15. Head(toServer) \in Verb("LS") /\ Has(toServer, Verb("LS"))
  <2>1. 1 \in DOMAIN toServer /\ Head(toServer) = toServer[1]
    BY WaitingLines
  <2> QED
    BY <2>1, WaitingLines DEF Has
<1>16. Pictures(Opened, lines)
  <2> SUFFICES ASSUME NEW w \in View, Agrees(w)
               PROVE  \E x \in View : /\ Leads(w, lines, x) /\ x.enabled = Opened.acked
                                     /\ \/ Opened.registered
                                        \/ /\ Opened.negotiation # "none"
                                           /\ Listed(x, Opened, toServer')
    BY DEF Pictures
  <2>1. PICK x \in View : /\ Leads(w, lines, x) /\ x.enabled = w.enabled
                          /\ w.listing /\ w.collected = {} /\ w.available = {} =>
                               ~x.listing /\ x.available = server.offers
    BY <1>10 DEF Tells
  <2>2. ASSUME ~server.registered PROVE Listed(x, Opened, toServer')
    <3>1. server.negotiation = "none" /\ Unlisted(w) /\ toServer \notin Seq(Verb("REGISTER"))
      <4>1. Verb("LS") \cap Verb("REGISTER") = {}
        BY DEF Verb, ClientLine
      <4>2. toServer \notin Seq(Verb("REGISTER"))
        BY <1>15, <4>1
      <4> QED
        BY <1>15, <2>2, <4>2 DEF Agrees, Listed
    <3>2. w.listing /\ w.collected = {} /\ w.available = {} /\ One(toServer, Verb("LS"))
      BY <3>1 DEF Unlisted, Greets
    <3>3. ~Has(toServer', Verb("LS"))
      BY <1>15, <3>2, TailHas, WaitingLines
    <3> QED
      BY <1>12, <2>1, <3>2, <3>3 DEF Listed
  <2> QED
    BY <1>12, <1>13, <1>14, <2>1, <2>2 DEF Agrees
<1> HIDE DEF verbs
<1> QED
  BY <1>10, <1>11, <1>16, RepliesKeep

(* Once the client has been told the capabilities, it is not told again.   *)
Spoken == epoch = 1 => server.registered \/ server.negotiation # "none"

LEMMA StillListed ==
  ASSUME Safe, Handles, Spoken, epoch = 1, NEW w, Agrees(w), ~server.registered,
         NEW x, x.available = w.available, x.listing = w.listing, NEW s, s.offers = server.offers
  PROVE  Listed(x, s, toServer')
<1>1. Listed(w, server, toServer)
  BY DEF Agrees, Spoken
<1>2. ~Has(toServer', Verb("LS"))
  <2>1. toServer # <<>> => ~Has(Tail(toServer), Verb("LS"))
    BY <1>1, TailHas, WaitingLines DEF Listed
  <2> QED
    BY <1>1, <2>1 DEF Listed, Handles
<1> QED
  BY <1>1, <1>2 DEF Listed

LEMMA AckSees ==
  ASSUME NEW v \in View, NEW caps \in SUBSET Cap
  PROVE  \E x \in View : /\ Leads(v, <<Reply("ACK", caps, caps)>>, x)
                         /\ x.enabled = v.enabled \cup caps
                         /\ x.available = v.available /\ x.listing = v.listing
<1>1. PICK m : m = Reply("ACK", caps, caps)
  OBVIOUS
<1>2. m \in CapLine /\ m.verb = "ACK" /\ m.caps = caps
  BY <1>1 DEF Reply, CapLine, ServerLine, ServerVerb
<1>3. See(v, m) = [v EXCEPT !.enabled = @ \cup caps]
  BY <1>2, Zenon DEF See
<1>4. /\ See(v, m) \in View /\ See(v, m).enabled = v.enabled \cup caps
      /\ See(v, m).available = v.available /\ See(v, m).listing = v.listing
  BY <1>3 DEF View
<1> QED
  BY <1>1, <1>2, <1>4, LeadsOne

LEMMA HandleReqKeeps ==
  ASSUME Safe, Handles, Spoken, NEW caps \in SUBSET Cap, HandleReq(caps)
  PROVE  Safe'
<1>1. server \in ServerState /\ Sound(server, Strict, UsesSasl)
  BY DEF Safe, ServerOK, Sound
<1>2. Opened \in ServerState /\ Sound(Opened, Strict, UsesSasl) /\ May(Opened) = May(server)
  BY <1>1 DEF Opened, Sound, ServerState, May
<1> DEFINE verbs == Known(May(Opened))
           acked == Opened.acked \cup caps
           s == [Opened EXCEPT !.acked = acked]
<1>3. verbs \in SUBSET ServerVerb /\ "ACK" \in verbs /\ "NAK" \in verbs
  BY DEF Known, Hears, ServerVerb
<1>4. /\ <<Reply("ACK", caps, caps)>> \in Seq(ServerLine(verbs))
      /\ <<Reply("NAK", caps, caps)>> \in Seq(ServerLine(verbs))
  <2> HIDE DEF verbs
  <2> QED
    BY <1>3, RepliesTyped
<1>5. /\ Opened.acked = server.acked /\ Opened.offers = server.offers
      /\ server.registered => Opened.registered
      /\ ~server.registered => Opened.negotiation = "open"
  BY <1>1 DEF Opened, ServerState, May
<1>6. CASE caps \subseteq server.offers
  <2>1. Replies(s, <<Reply("ACK", caps, caps)>>)
    BY <1>6 DEF HandleReq
  <2>2. acked \in SUBSET Cap
    BY <1>2 DEF ServerState, May
  <2> HIDE DEF acked
  <2>3. Sound(s, Strict, UsesSasl) /\ May(s) = May(Opened)
    BY <1>2, <2>2 DEF Sound, ServerState, May
  <2>4. /\ s.acked = acked /\ s.offers = Opened.offers
        /\ s.registered = Opened.registered /\ s.negotiation = Opened.negotiation
    BY <1>2, <2>2 DEF ServerState, May
  <2> HIDE DEF s
  <2>5. MayReply(s, <<Reply("ACK", caps, caps)>>)
    BY <1>2, <1>4, <2>3 DEF MayReply, Known
  <2>6. Pictures(s, <<Reply("ACK", caps, caps)>>)
    <3> SUFFICES ASSUME NEW w \in View, epoch = 1, Agrees(w)
                 PROVE  \E x \in View : /\ Leads(w, <<Reply("ACK", caps, caps)>>, x)
                                       /\ x.enabled = s.acked
                                       /\ \/ s.registered
                                          \/ s.negotiation # "none" /\ Listed(x, s, toServer')
      BY DEF Pictures
    <3>1. PICK x \in View : /\ Leads(w, <<Reply("ACK", caps, caps)>>, x)
                            /\ x.enabled = w.enabled \cup caps
                            /\ x.available = w.available /\ x.listing = w.listing
      BY AckSees
    <3>2. x.enabled = s.acked
      BY <1>5, <2>4, <3>1 DEF Agrees, acked
    <3>3. ~server.registered => Listed(x, s, toServer')
      BY <1>5, <2>4, <3>1, StillListed
    <3> QED
      BY <1>5, <2>4, <3>1, <3>2, <3>3
  <2> QED
    BY <2>1, <2>5, <2>6, RepliesKeep
<1>7. CASE ~(caps \subseteq server.offers)
  <2>1. Replies(Opened, <<Reply("NAK", caps, caps)>>)
    BY <1>7 DEF HandleReq
  <2>2. MayReply(Opened, <<Reply("NAK", caps, caps)>>)
    BY <1>2, <1>4 DEF MayReply, Known
  <2>3. \A w \in View : Leads(w, <<Reply("NAK", caps, caps)>>, w)
    <3> DEFINE m == Reply("NAK", caps, caps)
    <3>1. m \in CapLine /\ Neutral(m)
      BY DEF Reply, CapLine, ServerLine, ServerVerb, Neutral
    <3> HIDE DEF m
    <3>2. \A w \in View : Leads(w, <<m>>, w)
      BY <3>1, LeadsOne, NeutralSees
    <3> QED
      BY <3>2 DEF m
  <2>4. Pictures(Opened, <<Reply("NAK", caps, caps)>>)
    <3> SUFFICES ASSUME NEW w \in View, epoch = 1, Agrees(w)
                 PROVE  \E x \in View : /\ Leads(w, <<Reply("NAK", caps, caps)>>, x)
                                       /\ x.enabled = Opened.acked
                                       /\ \/ Opened.registered
                                          \/ /\ Opened.negotiation # "none"
                                             /\ Listed(x, Opened, toServer')
      BY DEF Pictures
    <3>1. ~server.registered => Listed(w, Opened, toServer')
      BY <1>5, StillListed
    <3> QED
      BY <1>5, <2>3, <3>1 DEF Agrees
  <2> QED
    BY <2>1, <2>2, <2>4, RepliesKeep
<1> QED
  BY <1>6, <1>7

(* The lines without capabilities that the server may send.                *)
LEMMA ShortReply ==
  ASSUME Safe, Handles, NEW s, Sound(s, Strict, UsesSasl), May(server) => May(s), NEW lines,
         \/ lines = <<>>
         \/ \E v \in {"906", "907", "+", "904", "903", "451"} :
              v \in Known(May(s)) /\ lines = <<Short(v)>>,
         Replies(s, lines),
         s.acked = server.acked, s.offers = server.offers, s.registered = server.registered,
         epoch = 1 => \/ s.registered
                      \/ s.negotiation = "none" /\ s.user
                      \/ s.negotiation # "none" /\ server.negotiation # "none"
  PROVE  Safe'
<1> DEFINE verbs == Known(May(s))
<1>1. verbs \in SUBSET ServerVerb
  BY DEF Known, Hears
<1>2. lines \in Seq(ServerLine(verbs))
  <2> HIDE DEF verbs
  <2>1. CASE lines = <<>>
    BY <2>1
  <2>2. ASSUME NEW v \in verbs, lines = <<Short(v)>> PROVE lines \in Seq(ServerLine(verbs))
    <3>1. <<Short(v)>> \in Seq(ServerLine(verbs))
      BY <1>1, RepliesTyped
    <3> QED
      BY <2>2, <3>1
  <2> QED
    BY <2>1, <2>2 DEF verbs
<1>3. MayReply(s, lines)
  BY <1>2 DEF MayReply, Known
<1>4. \A w \in View : Leads(w, lines, w)
  <2> TAKE w \in View
  <2>1. CASE lines = <<>>
    BY <2>1, LeadsNowhere
  <2>2. ASSUME NEW v \in {"906", "907", "+", "904", "903", "451"}, lines = <<Short(v)>>
        PROVE  Leads(w, lines, w)
    <3> DEFINE m == Short(v)
    <3>1. m \in CapLine /\ Neutral(m)
      BY DEF Short, Reply, CapLine, ServerLine, ServerVerb, Neutral
    <3> HIDE DEF m
    <3>2. Leads(w, <<m>>, w)
      BY <3>1, LeadsOne, NeutralSees
    <3> QED
      BY <2>2, <3>2 DEF m
  <2> QED
    BY <2>1, <2>2
<1>5. Pictures(s, lines)
  <2> SUFFICES ASSUME NEW w \in View, epoch = 1, Agrees(w)
               PROVE  \/ s.registered
                      \/ s.negotiation = "none" /\ s.user
                      \/ s.negotiation # "none" /\ Listed(w, s, toServer')
    BY <1>4 DEF Pictures, Agrees
  <2>1. ASSUME server.negotiation # "none", ~server.registered PROVE Listed(w, s, toServer')
    BY <2>1, StillListed DEF Spoken
  <2> QED
    BY <2>1
<1> QED
  BY <1>3, <1>5, RepliesKeep

LEMMA SaslHandlersKeep ==
  ASSUME Safe, Handles, Spoken
  PROVE  /\ HandleEnd => Safe'
         /\ UsesSasl /\ HandleMechanism => Safe'
         /\ UsesSasl /\ HandleCredentials => Safe'
<1>1. server \in ServerState /\ Sound(server, Strict, UsesSasl)
  BY DEF Safe, ServerOK, Sound
<1>2. ASSUME HandleEnd PROVE Safe'
  <2> DEFINE s == [server EXCEPT !.negotiation = "ended", !.sasl = "idle"]
             lines == IF server.sasl = "asked" THEN <<Short("906")>> ELSE <<>>
  <2>1. Replies(s, lines)
    BY <1>2 DEF HandleEnd
  <2>2. /\ Sound(s, Strict, UsesSasl) /\ May(s) = May(server)
        /\ s.acked = server.acked /\ s.offers = server.offers
        /\ s.registered = server.registered /\ s.negotiation # "none"
    BY <1>1 DEF Sound, ServerState, May
  <2>3. server.sasl = "asked" => "906" \in Known(May(s))
    BY <1>1 DEF Sound, Known, Hears, ServerVerb
  <2> HIDE DEF s
  <2>4. \/ lines = <<>>
        \/ \E v \in {"906", "907", "+", "904", "903", "451"} :
             v \in Known(May(s)) /\ lines = <<Short(v)>>
    BY <2>3
  <2> HIDE DEF lines
  <2> QED
    BY <2>1, <2>2, <2>4, ShortReply DEF Spoken
<1>3. ASSUME UsesSasl PROVE {"907", "+", "904"} \subseteq Known(May(server))
  BY <1>3 DEF Known, Hears, ServerVerb
<1>4. ASSUME NEW sasl \in {"idle", "asked"}, UsesSasl, NEW v \in {"907", "+", "904"},
             Replies([server EXCEPT !.sasl = sasl], <<Short(v)>>)
      PROVE  Safe'
  <2> DEFINE s == [server EXCEPT !.sasl = sasl]
             lines == <<Short(v)>>
  <2>1. /\ Sound(s, Strict, UsesSasl) /\ May(s) = May(server)
        /\ s.acked = server.acked /\ s.offers = server.offers
        /\ s.registered = server.registered /\ s.negotiation = server.negotiation
    BY <1>1, <1>4 DEF Sound, ServerState, May
  <2>2. v \in Known(May(s))
    BY <1>3, <1>4, <2>1
  <2>3. Replies(s, lines) /\ lines = <<Short(v)>>
    BY <1>4
  <2> HIDE DEF s, lines
  <2> QED
    BY <2>1, <2>2, <2>3, ShortReply DEF Spoken
<1>5. ASSUME UsesSasl, HandleMechanism PROVE Safe'
  <2>1. CASE server.loggedIn
    <3>1. Replies(server, <<Short("907")>>)
      BY <1>5, <2>1 DEF HandleMechanism
    <3>2. server = [server EXCEPT !.sasl = server.sasl] /\ server.sasl \in {"idle", "asked"}
      BY <1>1 DEF ServerState, May
    <3> QED
      BY <1>4, <1>5, <3>1, <3>2
  <2>2. CASE ~server.loggedIn
    <3>1. \/ Replies([server EXCEPT !.sasl = "asked"], <<Short("+")>>)
          \/ Replies([server EXCEPT !.sasl = "idle"], <<Short("904")>>)
      BY <1>5, <2>2 DEF HandleMechanism
    <3> QED
      BY <1>4, <1>5, <3>1
  <2> QED
    BY <2>1, <2>2
<1>6. ASSUME UsesSasl, HandleCredentials PROVE Safe'
  <2> DEFINE s == [server EXCEPT !.sasl = "idle", !.loggedIn = TRUE]
             lines == <<Short("903")>>
  <2>1. CASE Replies(s, lines)
    <3>1. /\ Sound(s, Strict, UsesSasl) /\ May(s)
          /\ s.acked = server.acked /\ s.offers = server.offers
          /\ s.registered = server.registered /\ s.negotiation = server.negotiation
      BY <1>1 DEF Sound, ServerState, May
    <3>2. "903" \in Known(May(s))
      BY <1>6, <3>1 DEF Known, Hears, ServerVerb
    <3>3. lines = <<Short("903")>>
      OBVIOUS
    <3> HIDE DEF s, lines
    <3> QED
      BY <2>1, <3>1, <3>2, <3>3, ShortReply DEF Spoken
  <2>2. CASE Replies([server EXCEPT !.sasl = "idle"], <<Short("904")>>)
    BY <1>4, <1>6, <2>2
  <2> QED
    BY <1>6, <2>1, <2>2 DEF HandleCredentials
<1> QED
  BY <1>2, <1>5, <1>6

LEMMA UserHandlersKeep ==
  ASSUME Safe, Handles
  PROVE  /\ (Strict => May(server)) /\ HandleRegister => Safe'
         /\ ~Strict /\ Spoken /\ HandleIdentify => Safe'
<1>1. server \in ServerState /\ Sound(server, Strict, UsesSasl)
  BY DEF Safe, ServerOK, Sound
<1>2. ASSUME Strict => May(server), HandleRegister PROVE Safe'
  <2> DEFINE s == [server EXCEPT !.user = TRUE]
  <2>1. /\ Sound(s, Strict, UsesSasl) /\ May(s) = May(server) /\ s.user
        /\ s.acked = server.acked /\ s.offers = server.offers
        /\ s.registered = server.registered /\ s.negotiation = server.negotiation
    BY <1>1, <1>2 DEF Sound, ServerState, May
  <2>2. Replies(s, <<>>)
    BY <1>2 DEF HandleRegister
  <2> HIDE DEF s
  <2> QED
    BY <2>1, <2>2, ShortReply
<1>3. ASSUME ~Strict, Spoken, HandleIdentify PROVE Safe'
  <2>1. CASE server.registered
    <3> DEFINE s == [server EXCEPT !.identified = TRUE]
    <3>1. /\ Sound(s, Strict, UsesSasl) /\ May(s) = May(server)
          /\ s.acked = server.acked /\ s.offers = server.offers
          /\ s.registered = server.registered /\ s.negotiation = server.negotiation
      BY <1>1 DEF Sound, ServerState, May
    <3>2. Replies(s, <<>>)
      BY <1>3, <2>1 DEF HandleIdentify
    <3> HIDE DEF s
    <3> QED
      BY <2>1, <3>1, <3>2, ShortReply
  <2>2. CASE ~server.registered
    <3> DEFINE s == [server EXCEPT !.demanded = TRUE]
               lines == <<Short("451")>>
    <3>1. /\ Sound(s, Strict, UsesSasl) /\ May(s)
          /\ s.acked = server.acked /\ s.offers = server.offers
          /\ s.registered = server.registered /\ s.negotiation = server.negotiation
      BY <1>1 DEF Sound, ServerState, May
    <3>2. Replies(s, lines) /\ lines = <<Short("451")>>
      BY <1>3, <2>2 DEF HandleIdentify, Demand
    <3>3. "451" \in Known(May(s))
      BY <3>1 DEF Known, Hears, ServerVerb
    <3> HIDE DEF s, lines
    <3> QED
      BY <1>3, <3>1, <3>2, <3>3, ShortReply DEF Spoken
  <2> QED
    BY <2>1, <2>2
<1> QED
  BY <1>2, <1>3

(* The client asks for the capabilities first, registering at most.        *)
LEMMA Greeted ==
  ASSUME Safe, up, toServer # <<>>, Head(toServer).verb \notin {"LS", "REGISTER"}
  PROVE  Spoken
<1> SUFFICES ASSUME epoch = 1, ~server.registered, server.negotiation = "none" PROVE FALSE
  BY DEF Spoken
<1>1. PICK w \in View : Agrees(w)
  BY DEF Safe, CapsPictured
<1>2. Greets(toServer)
  <2>1. \A l \in Verb("REGISTER") : l.verb = "REGISTER"
    BY DEF Verb, ClientLine
  <2>2. toServer \notin Seq(Verb("REGISTER"))
    <3> HIDE DEF Verb
    <3> QED
      BY <2>1
  <2> QED
    BY <1>1, <2>2 DEF Agrees, Unlisted
<1>3. Head(toServer) = toServer[1]
  BY WaitingLines
<1> QED
  BY <1>2, <1>3 DEF Greets

LEMMA ServerHandlesKeeps ==
  ASSUME Safe, ServerHandles
  PROVE  Safe'
<1> DEFINE m == Head(toServer)
           verbs == Says(Strict, UsesSasl, May(server))
<1>1. m.verb \in verbs /\ m.caps \in SUBSET Cap
  <2>1. m \in ClientLine(verbs)
    <3> HIDE DEF verbs
    <3> QED
      BY DEF ServerHandles, Safe, LinesAllowed, verbs
  <2> QED
    BY <2>1 DEF ClientLine
<1>2. Handles
  <2>1. up
    BY DEF ServerHandles, Safe, LinesAllowed, TypeOK
  <2> QED
    BY <2>1 DEF ServerHandles, Handles
<1>3. toServer # <<>> /\ (m.verb \notin {"LS", "REGISTER"} => Spoken)
  BY <1>2, Greeted DEF ServerHandles, Handles
<1>4. CASE m.verb = "LS"
  <2>1. HandleLs /\ toServer' = Tail(toServer)
    BY <1>4, Zenon DEF ServerHandles
  <2> QED
    BY <1>2, <1>4, <1>3, <2>1, HandleLsKeeps
<1>5. CASE m.verb = "REQ"
  <2>1. HandleReq(m.caps)
    BY <1>5, Zenon DEF ServerHandles
  <2>2. PICK caps \in SUBSET Cap : caps = m.caps
    BY <1>1
  <2>3. HandleReq(caps)
    BY <2>1, <2>2
  <2> QED
    BY <1>2, <1>5, <1>3, <2>3, HandleReqKeeps
<1>6. CASE m.verb = "END"
  <2>1. HandleEnd
    BY <1>6, Zenon DEF ServerHandles
  <2> QED
    BY <1>2, <1>6, <1>3, <2>1, SaslHandlersKeep
<1>7. CASE m.verb = "MECHANISM"
  <2>1. HandleMechanism
    BY <1>7, Zenon DEF ServerHandles
  <2>2. UsesSasl
    BY <1>1, <1>7 DEF Says
  <2> QED
    BY <1>2, <1>7, <1>3, <2>1, <2>2, SaslHandlersKeep
<1>8. CASE m.verb = "CREDENTIALS"
  <2>1. HandleCredentials
    BY <1>8, Zenon DEF ServerHandles
  <2>2. UsesSasl
    BY <1>1, <1>8 DEF Says
  <2> QED
    BY <1>2, <1>8, <1>3, <2>1, <2>2, SaslHandlersKeep
<1>9. CASE m.verb = "REGISTER"
  <2>1. HandleRegister
    BY <1>9, Zenon DEF ServerHandles
  <2>2. Strict => May(server)
    BY <1>1, <1>9 DEF Says
  <2> QED
    BY <1>2, <2>1, <2>2, UserHandlersKeep
<1>10. CASE m.verb = "IDENTIFY"
  <2>1. HandleIdentify
    BY <1>10, Zenon DEF ServerHandles
  <2>2. ~Strict
    BY <1>1, <1>10 DEF Says
  <2> QED
    BY <1>2, <1>10, <1>3, <2>1, <2>2, UserHandlersKeep
<1>11. m.verb \in ClientVerb
  BY <1>1 DEF Says
<1> QED
  BY <1>4, <1>5, <1>6, <1>7, <1>8, <1>9, <1>10, <1>11 DEF ClientVerb

LEMMA NewSees ==
  ASSUME NEW v \in View, NEW caps \in SUBSET Cap, NEW words \in SUBSET Cap
  PROVE  \E x \in View : /\ Leads(v, <<Reply("NEW", caps, words)>>, x)
                         /\ x.enabled = v.enabled
                         /\ x.available = v.available \cup caps /\ x.listing = v.listing
<1>1. PICK m : m = Reply("NEW", caps, words)
  OBVIOUS
<1>2. m \in CapLine /\ m.verb = "NEW" /\ m.caps = caps
  BY <1>1 DEF Reply, CapLine, ServerLine, ServerVerb
<1>3. See(v, m) = [v EXCEPT !.available = @ \cup caps]
  BY <1>2, Zenon DEF See
<1>4. /\ See(v, m) \in View /\ See(v, m).enabled = v.enabled
      /\ See(v, m).available = v.available \cup caps /\ See(v, m).listing = v.listing
  BY <1>3 DEF View
<1> QED
  BY <1>1, <1>2, <1>4, LeadsOne

LEMMA DelSees ==
  ASSUME NEW v \in View, NEW caps \in SUBSET Cap
  PROVE  \E x \in View : /\ Leads(v, <<Reply("DEL", caps, caps)>>, x)
                         /\ x.enabled = v.enabled \ caps
                         /\ x.available = v.available \ caps /\ x.listing = v.listing
<1>1. PICK m : m = Reply("DEL", caps, caps)
  OBVIOUS
<1>2. m \in CapLine /\ m.verb = "DEL" /\ m.caps = caps
  BY <1>1 DEF Reply, CapLine, ServerLine, ServerVerb
<1>3. See(v, m) = [v EXCEPT !.enabled = @ \ caps, !.available = @ \ caps]
  BY <1>2, Zenon DEF See
<1>4. /\ See(v, m) \in View /\ See(v, m).enabled = v.enabled \ caps
      /\ See(v, m).available = v.available \ caps /\ See(v, m).listing = v.listing
  BY <1>3 DEF View
<1> QED
  BY <1>1, <1>2, <1>4, LeadsOne

LEMMA ServerNotifiesKeeps ==
  ASSUME Safe, NEW c \in Cap, ServerNotifies(c)
  PROVE  Safe'
<1> DEFINE verbs == Known(May(server))
           more == server.offers \cup {c}
           fewer == server.offers \ {c}
           left == server.acked \ {c}
           n == server.notices + 1
           s == [server EXCEPT !.notices = n, !.offers = more]
           t == [server EXCEPT !.notices = n, !.offers = fewer, !.acked = left]
           new == <<Reply("NEW", {c}, Word({c}))>>
           del == <<Reply("DEL", {c}, {c})>>
<1>1. server \in ServerState /\ Sound(server, Strict, UsesSasl)
  BY DEF Safe, ServerOK, Sound
<1>2. Handles
  BY DEF ServerNotifies, Handles
<1>3. verbs \in SUBSET ServerVerb /\ "NEW" \in verbs /\ "DEL" \in verbs
  BY DEF Known, Hears, ServerVerb
<1>4. new \in Seq(ServerLine(verbs)) /\ del \in Seq(ServerLine(verbs))
  <2>1. {c} \in SUBSET Cap /\ Word({c}) \in SUBSET Cap
    BY DEF Word
  <2> HIDE DEF verbs
  <2>2. new \in Seq(ServerLine(verbs))
    BY <1>3, <2>1, RepliesTyped
  <2>3. del \in Seq(ServerLine(verbs))
    BY <1>3, <2>1, RepliesTyped
  <2> QED
    BY <2>2, <2>3
<1>5. more \in SUBSET Cap /\ fewer \in SUBSET Cap /\ left \in SUBSET Cap /\ n \in Nat
  BY <1>1 DEF ServerState, May
<1>6. (Replies(s, new) /\ c \notin server.offers) \/ (Replies(t, del) /\ c \in server.offers)
  <2>1. [[server EXCEPT !.notices = @ + 1] EXCEPT !.offers = @ \cup {c}] = s
    BY <1>1 DEF ServerState, May
  <2>2. [[server EXCEPT !.notices = @ + 1] EXCEPT !.offers = @ \ {c}, !.acked = @ \ {c}] = t
    BY <1>1 DEF ServerState, May
  <2>3. IF c \in server.offers
        THEN Replies([[server EXCEPT !.notices = @ + 1] EXCEPT !.offers = @ \ {c}, !.acked = @ \ {c}], del)
        ELSE Replies([[server EXCEPT !.notices = @ + 1] EXCEPT !.offers = @ \cup {c}], new)
    BY DEF ServerNotifies
  <2> HIDE DEF s, t, new, del
  <2> QED
    BY <2>1, <2>2, <2>3
<1> HIDE DEF more, fewer, left, n, new, del
<1>7. /\ Sound(s, Strict, UsesSasl) /\ May(s) = May(server)
      /\ Sound(t, Strict, UsesSasl) /\ May(t) = May(server)
  BY <1>1, <1>5 DEF Sound, ServerState, May
<1>8. /\ s.acked = server.acked /\ s.offers = more
      /\ s.registered = server.registered /\ s.negotiation = server.negotiation
      /\ t.acked = left /\ t.offers = fewer
      /\ t.registered = server.registered /\ t.negotiation = server.negotiation
  BY <1>1, <1>5 DEF ServerState, May
<1> HIDE DEF s, t
<1>9. MayReply(s, new) /\ MayReply(t, del)
  BY <1>4, <1>7 DEF MayReply, Known
<1>10. server.negotiation # "none" /\ toServer' = toServer
  BY DEF ServerNotifies
<1>11. Pictures(s, new) /\ Pictures(t, del)
  <2>1. \A w \in View : Agrees(w) =>
          /\ w.enabled = server.acked
          /\ ~server.registered => w.available = server.offers /\ ~w.listing /\ ~Has(toServer', Verb("LS"))
    BY <1>10 DEF Agrees, Listed
  <2>2. PICK caps \in SUBSET Cap, words \in SUBSET Cap : caps = {c} /\ words = Word({c})
    BY DEF Word
  <2>3. Pictures(s, new)
    <3> SUFFICES ASSUME NEW w \in View, Agrees(w)
                 PROVE  \E x \in View : /\ Leads(w, new, x) /\ x.enabled = s.acked
                                       /\ \/ s.registered
                                          \/ s.negotiation # "none" /\ Listed(x, s, toServer')
      BY DEF Pictures
    <3>1. PICK x \in View : /\ Leads(w, new, x) /\ x.enabled = w.enabled
                            /\ x.available = w.available \cup {c} /\ x.listing = w.listing
      <4>1. new = <<Reply("NEW", caps, words)>>
        BY <2>2 DEF new
      <4>2. \E x \in View : /\ Leads(w, <<Reply("NEW", caps, words)>>, x)
                           /\ x.enabled = w.enabled
                           /\ x.available = w.available \cup caps /\ x.listing = w.listing
        BY NewSees
      <4> QED
        BY <2>2, <4>1, <4>2
    <3> QED
      BY <1>8, <1>10, <2>1, <3>1 DEF Listed, more
  <2>4. Pictures(t, del)
    <3> SUFFICES ASSUME NEW w \in View, Agrees(w)
                 PROVE  \E x \in View : /\ Leads(w, del, x) /\ x.enabled = t.acked
                                       /\ \/ t.registered
                                          \/ t.negotiation # "none" /\ Listed(x, t, toServer')
      BY DEF Pictures
    <3>1. PICK x \in View : /\ Leads(w, del, x) /\ x.enabled = w.enabled \ {c}
                            /\ x.available = w.available \ {c} /\ x.listing = w.listing
      <4>1. del = <<Reply("DEL", caps, caps)>>
        BY <2>2 DEF del
      <4> QED
        BY <2>2, <4>1, DelSees
    <3> QED
      BY <1>8, <1>10, <2>1, <3>1 DEF Listed, fewer, left
  <2> QED
    BY <2>3, <2>4
<1> QED
  BY <1>2, <1>6, <1>9, <1>11, RepliesKeep

LEMMA ServerDemandsKeeps ==
  ASSUME Safe, ServerDemands
  PROVE  Safe'
<1> DEFINE n == server.notices + 1
           s == [server EXCEPT !.notices = n, !.demanded = TRUE]
           lines == <<Short("451")>>
<1>1. server \in ServerState /\ Sound(server, Strict, UsesSasl)
  BY DEF Safe, ServerOK, Sound
<1>2. Handles /\ toServer' = toServer
  BY DEF ServerDemands, Handles
<1>3. n \in Nat
  BY <1>1 DEF ServerState
<1>4. Replies(s, lines) /\ lines = <<Short("451")>>
  <2>1. [[server EXCEPT !.notices = @ + 1] EXCEPT !.demanded = TRUE] = s
    BY <1>1 DEF ServerState
  <2>2. Replies([[server EXCEPT !.notices = @ + 1] EXCEPT !.demanded = TRUE], lines)
    BY DEF ServerDemands, Demand
  <2> HIDE DEF s
  <2> QED
    BY <2>1, <2>2
<1> HIDE DEF n
<1>5. /\ s \in ServerState /\ Sound(s, Strict, UsesSasl) /\ May(s)
      /\ s.acked = server.acked /\ s.offers = server.offers
      /\ s.registered = server.registered /\ s.negotiation = server.negotiation
  BY <1>1, <1>3 DEF Sound, ServerState, May
<1>6. "451" \in Known(May(s))
  BY <1>5 DEF Known, Hears, ServerVerb
<1> HIDE DEF s, lines
<1>7. CASE Spoken
  BY <1>2, <1>4, <1>5, <1>6, <1>7, ShortReply DEF Spoken
<1>8. CASE ~Spoken
  <2> DEFINE m == Short("451")
             verbs == Known(May(s))
  <2>1. m \in CapLine /\ Neutral(m) /\ m \in Demands /\ m \in ServerLine(verbs)
    BY <1>6 DEF Short, Reply, CapLine, ServerLine, ServerVerb, Neutral, Demands
  <2>2. lines = <<m>>
    BY <1>4
  <2>3. lines \in Seq(ServerLine(verbs)) /\ lines \in Seq(Demands)
    <3> HIDE DEF m, verbs, Demands
    <3> QED
      BY <2>1, <2>2
  <2>4. \A w \in View : Leads(w, lines, w)
    <3> HIDE DEF m
    <3> QED
      BY <2>1, <2>2, LeadsOne, NeutralSees
  <2>5. MayReply(s, lines)
    BY <1>5, <2>3 DEF MayReply, Known
  <2>6. server.negotiation = "none" /\ ~server.registered /\ epoch = 1
    BY <1>8 DEF Spoken
  <2>7. ASSUME NEW w \in View, Agrees(w)
        PROVE  s.user \/ Unlisted(w)'
    <3>1. Unlisted(w)
      BY <2>6, <2>7 DEF Agrees
    <3>2. ASSUME ~s.user PROVE toClient' \in Seq(Demands)
      <4>1. toClient' = toClient \o lines
        BY <1>4, <3>2 DEF Replies, Registered
      <4>2. toClient \in Seq(Demands)
        BY <3>1 DEF Unlisted
      <4> QED
        BY <2>3, <4>1, <4>2, ConcatProperties
    <3> QED
      BY <1>2, <3>1, <3>2 DEF Unlisted, Handles, saslVars
  <2>8. Pictures(s, lines)
    <3> SUFFICES ASSUME NEW w \in View, Agrees(w)
                 PROVE  \E x \in View : /\ Leads(w, lines, x) /\ x.enabled = s.acked
                                       /\ s.negotiation = "none" /\ (s.user \/ Unlisted(x)')
      BY DEF Pictures
    <3>1. w.enabled = s.acked
      BY <1>5 DEF Agrees
    <3> QED
      BY <1>5, <2>4, <2>6, <2>7, <3>1
  <2> QED
    BY <1>2, <1>4, <2>5, <2>8, RepliesKeep
<1> QED
  BY <1>7, <1>8

-----------------------------------------------------------------------------
LEMMA LostKeeps ==
  ASSUME Safe, Lost
  PROVE  Safe'
<1>1. UsesSasl' = UsesSasl /\ Strict' = Strict /\ server' = server
  BY DEF Lost, UsesSasl, Strict
<1>2. TypeOK'
  BY DEF Safe, TypeOK, Lost, capVars, saslVars
<1>3. LinesAllowed'
  BY DEF LinesAllowed, Lost
<1>4. ServerOK'
  BY <1>1 DEF Safe, ServerOK
<1>5. SaslIsUsed' /\ EndsOnce' /\ AnnouncesOnce'
  BY <1>1 DEF Safe, SaslIsUsed, EndsOnce, AnnouncesOnce, Lost, capVars, saslVars, history
<1>6. CapsPictured'
  BY DEF Safe, CapsPictured, Lost, capVars
<1> QED
  BY <1>2, <1>3, <1>4, <1>5, <1>6 DEF Safe

(* A new connection: a listener for CAP LS, and with SASL one for the      *)
(* mechanism, join those that earlier connections have left.               *)
LEMMA ConnectedKeeps ==
  ASSUME Safe, NEW offers \in Offers, NEW bare \in BOOLEAN, Connected(offers, bare)
  PROVE  Safe'
<1>1. UsesSasl' = UsesSasl /\ Strict' = Strict /\ options' = options
  BY DEF Connected, UsesSasl, Strict
<1>2. epoch \in Nat /\ epoch' = epoch + 1 /\ epoch' \in 0 .. MaxConnections /\ up'
  BY RegistrationAssumption DEF Safe, TypeOK, Connected
<1>3. Sound(server', Strict, UsesSasl) /\ ~May(server')
  BY RegistrationAssumption DEF Connected, Sound, ServerState, May
<1>4. PICK sasl \in BOOLEAN : sasl = UsesSasl
  BY DEF UsesSasl
<1>5. NoTls => UsesSasl
  BY DEF NoTls, UsesSasl
<1>6. LinesAllowed'
  <2> DEFINE verbs == Says(Strict, UsesSasl, May(server'))
  <2>1. toServer' \in Seq(ClientLine(verbs))
    <3>1. /\ "LS" \in verbs /\ verbs \subseteq ClientVerb
          /\ ~UsesSasl => "REGISTER" \in verbs /\ "IDENTIFY" \in verbs
      BY DEF Says, ClientVerb, Strict
    <3>2. \A v \in verbs : Say(v) \in ClientLine(verbs)
      BY DEF Say, Line, ClientLine
    <3>3. toServer' = IF NoTls THEN <<>> ELSE Greeting
      BY DEF Connected
    <3> HIDE DEF verbs
    <3> DEFINE L == ClientLine(verbs)
    <3> HIDE DEF L
    <3>4. Say("LS") \in L /\ (~UsesSasl => Say("REGISTER") \in L /\ Say("IDENTIFY") \in L)
      BY <3>1, <3>2 DEF L
    <3>5. Greeting \in Seq(L)
      BY <3>4 DEF Greeting
    <3> QED
      BY <3>3, <3>5 DEF L
  <2>2. toClient' = <<>>
    BY DEF Connected
  <2> QED
    BY <1>1, <1>2, <2>1, <2>2 DEF LinesAllowed
<1>7. ServerOK'
  BY <1>1, <1>3 DEF ServerOK
<1>8. PICK ls \in Seq(Waiting(Kinds(sasl))) : ls = capListeners
  BY <1>4 DEF Safe, SaslIsUsed
<1>9. /\ capListeners' \in Seq(Waiting(Kinds(sasl)))
      /\ epoch = 0 => One(capListeners', Sasl)
  <2>1. LsListener \in Waiting(Kinds(sasl)) /\ LsListener \notin Sasl
    BY DEF LsListener, Waiting, Kinds, Sasl
  <2>2. sasl => SaslListener \in Waiting(Kinds(sasl))
    BY DEF SaslListener, Waiting, Kinds
  <2>3. epoch = 0 => ls = <<>>
    BY <1>8 DEF Safe, AnnouncesOnce
  <2> DEFINE one == Append(ls, LsListener)
             both == ls \o <<LsListener, SaslListener>>
  <2>4. one \in Seq(Waiting(Kinds(sasl))) /\ (epoch = 0 => One(one, Sasl))
    BY <2>1, <2>3, AppendHas DEF One, Has
  <2>5. sasl => both \in Seq(Waiting(Kinds(sasl)))
    <3> SUFFICES ASSUME sasl PROVE both \in Seq(Waiting(Kinds(sasl)))
      OBVIOUS
    <3>1. <<LsListener, SaslListener>> \in Seq(Waiting(Kinds(sasl)))
      <4> DEFINE W == Waiting(Kinds(sasl))
      <4>1. SaslListener \in W /\ LsListener \in W
        BY <2>1, <2>2, Zenon
      <4> HIDE DEF W
      <4>2. <<LsListener, SaslListener>> \in Seq(W)
        BY <4>1
      <4> QED
        BY <4>2 DEF W
    <3> QED
      BY <3>1, ConcatProperties
  <2>6. epoch = 0 => One(both, Sasl)
    BY <2>1, <2>3 DEF One
  <2>7. capListeners' = IF NoTls THEN ls ELSE IF UsesSasl THEN both ELSE one
    BY <1>8 DEF Connected, BeginSasl, BeginPlain, Negotiate, capVars
  <2> HIDE DEF one, both
  <2>8. epoch = 0 => One(ls, Sasl)
    BY <2>3 DEF One
  <2> QED
    BY <1>4, <2>4, <2>5, <2>6, <2>7, <2>8
<1>10. /\ available' = available /\ enabled' = enabled /\ completeAfterAck' \in BOOLEAN
       /\ authOnce' \in 0 .. epoch' /\ successOnce' \in 0 .. epoch'
       /\ timers' \subseteq 1 .. epoch' /\ saslTimeoutId' \in 0 .. epoch'
       /\ ~UsesSasl => authOnce' = authOnce /\ successOnce' = successOnce /\ timers' = timers
  <2>1. /\ completeAfterAck \in BOOLEAN /\ authOnce \in 0 .. epoch /\ successOnce \in 0 .. epoch
        /\ timers \subseteq 1 .. epoch /\ saslTimeoutId \in 0 .. epoch
    BY DEF Safe, TypeOK
  <2>2. \A n \in 0 .. epoch : n \in 0 .. epoch' /\ n + 1 \in 0 .. epoch'
    BY <1>2
  <2>3. \A T \in SUBSET (1 .. epoch) : T \subseteq 1 .. epoch' /\ T \cup {epoch'} \subseteq 1 .. epoch'
    BY <1>2
  <2>4. epoch' \in 0 .. epoch'
    BY <1>2
  <2>5. CASE NoTls
    <3>1. UNCHANGED <<available, enabled, completeAfterAck, authOnce, successOnce, timers, saslTimeoutId>>
      BY <2>5 DEF Connected, capVars, saslVars
    <3> QED
      BY <2>1, <2>2, <2>3, <3>1
  <2>6. CASE ~NoTls /\ UsesSasl
    <3>1. BeginSasl
      BY <2>6 DEF Connected
    <3>2. /\ UNCHANGED <<available, enabled>> /\ completeAfterAck' = FALSE
          /\ authOnce' = authOnce + 1 /\ successOnce' = successOnce + 1
          /\ timers' = timers \/ timers' = timers \cup {epoch'}
          /\ saslTimeoutId' = saslTimeoutId \/ saslTimeoutId' = epoch'
      BY <3>1 DEF BeginSasl, Negotiate
    <3> QED
      BY <2>6, <2>1, <2>2, <2>3, <2>4, <3>2
  <2>7. CASE ~NoTls /\ ~UsesSasl
    <3>1. BeginPlain
      BY <2>7 DEF Connected
    <3> QED
      BY <1>2, <2>7, <3>1 DEF BeginPlain, Negotiate, Safe, TypeOK, saslVars
  <2> QED
    BY <2>5, <2>6, <2>7
<1>11. TypeOK'
  <2>1. capListeners' \in Seq(Waiting({"ls", "sasl"}))
    <3>1. Waiting(Kinds(sasl)) \subseteq Waiting({"ls", "sasl"})
      BY DEF Waiting, Kinds
    <3> QED
      BY <1>9, <3>1, SeqMonotonic
  <2> QED
    BY <1>1, <1>2, <1>10, <2>1 DEF Safe, TypeOK, Waiting
<1>12. SaslIsUsed'
  BY <1>1, <1>4, <1>9, <1>10 DEF Safe, SaslIsUsed
<1>13. EndsOnce' /\ AnnouncesOnce'
  <2>1. ends' = 0 /\ mechanisms' = 0
    BY DEF Connected
  <2>2. EndsOnce'
    BY <2>1 DEF EndsOnce
  <2>3. AnnouncesOnce'
    BY <1>2, <1>9, <2>1 DEF AnnouncesOnce
  <2> QED
    BY <2>2, <2>3
<1>14. CapsPictured'
  <2> SUFFICES ASSUME epoch = 0
               PROVE  \E v \in View : /\ Shows(v, enabled', available', capListeners')
                                     /\ Leads(v, toClient', v) /\ Agrees(v)'
    BY <1>2 DEF CapsPictured
  <2>1. PICK v \in View : /\ v.enabled = {} /\ v.available = {} /\ v.collected = {}
                          /\ v.listing = ~NoTls
    <3> DEFINE x == [enabled |-> {}, available |-> {}, listing |-> ~NoTls, collected |-> {}]
    <3>1. x \in View /\ x.enabled = {} /\ x.available = {} /\ x.collected = {} /\ x.listing = ~NoTls
      BY DEF View, NoTls
    <3> QED
      BY <3>1
  <2>2. /\ enabled' = {} /\ available' = {} /\ capListeners = <<>> /\ timers = {}
    <3>1. 1 .. epoch = {}
      OBVIOUS
    <3> QED
      BY <1>10, <3>1 DEF Safe, CapsPictured, AnnouncesOnce, TypeOK
  <2>3. /\ toClient' = <<>> /\ server'.acked = {} /\ server'.negotiation = "none"
        /\ toServer' = IF NoTls THEN <<>> ELSE Greeting
    BY DEF Connected
  <2>4. \/ NoTls /\ capListeners' = <<>> /\ timers' = {}
        \/ ~NoTls /\ capListeners' \in {<<LsListener>>, <<LsListener, SaslListener>>}
    <3>1. CASE NoTls
      BY <2>2, <3>1 DEF Connected, capVars, saslVars
    <3>2. CASE ~NoTls
      <4>1. BeginSasl \/ BeginPlain
        BY <3>2 DEF Connected
      <4>2. <<>> \o <<LsListener, SaslListener>> = <<LsListener, SaslListener>>
        OBVIOUS
      <4>3. Append(<<>>, LsListener) = <<LsListener>>
        OBVIOUS
      <4> QED
        BY <2>2, <3>2, <4>1, <4>2, <4>3 DEF BeginSasl, BeginPlain
    <3> QED
      BY <3>1, <3>2
  <2>5. /\ LsListener \in ListersOf(TRUE, {}) /\ LsListener \in Lister
        /\ SaslListener \notin Lister
    BY DEF LsListener, SaslListener, ListersOf, Lister, Waiting
  <2>6. Shows(v, enabled', available', capListeners')
    <3>1. CASE NoTls
      <4>1. capListeners' = <<>>
        BY <2>4, <3>1
      <4>2. One(<<>>, Lister) /\ \A S : ~Has(<<>>, S)
        BY DEF One, Has
      <4> QED
        BY <2>1, <2>2, <3>1, <4>1, <4>2 DEF Shows
    <3>2. CASE ~NoTls
      <4>1. capListeners' \in {<<LsListener>>, <<LsListener, SaslListener>>}
        BY <2>4, <3>2
      <4>2. /\ One(capListeners', Lister) /\ Has(capListeners', Lister)
            /\ ~Has(capListeners', Lister \ ListersOf(TRUE, {}))
        <5> DEFINE S == ListersOf(TRUE, {})
        <5> HIDE DEF S
        <5>1. LsListener \in S
          BY <2>5 DEF S
        <5>2. /\ One(<<LsListener>>, Lister) /\ Has(<<LsListener>>, Lister)
              /\ ~Has(<<LsListener>>, Lister \ S)
          BY <2>5, <5>1 DEF One, Has
        <5>3. /\ One(<<LsListener, SaslListener>>, Lister)
              /\ Has(<<LsListener, SaslListener>>, Lister)
              /\ ~Has(<<LsListener, SaslListener>>, Lister \ S)
          BY <2>5, <5>1 DEF One, Has
        <5> QED
          BY <4>1, <5>2, <5>3 DEF S
      <4>3. v.listing = TRUE /\ v.collected = {}
        BY <2>1, <3>2
      <4> QED
        BY <2>1, <2>2, <4>2, <4>3 DEF Shows
    <3> QED
      BY <3>1, <3>2
  <2>7. ~NoTls => Greets(toServer')
    <3>1. Say("LS").verb = "LS" /\ Say("REGISTER").verb = "REGISTER" /\ Say("IDENTIFY").verb = "IDENTIFY"
      BY DEF Say, Line
    <3>2. Say("REGISTER") \notin Verb("LS") /\ Say("IDENTIFY") \notin Verb("LS")
      BY <3>1 DEF Verb, ClientLine
    <3>3. Greets(<<Say("LS")>>)
      BY <3>1 DEF Greets, One
    <3>4. Greets(<<Say("LS"), Say("REGISTER"), Say("IDENTIFY")>>)
      BY <3>1, <3>2 DEF Greets, One
    <3>5. Greets(<<Say("REGISTER"), Say("LS")>>)
      BY <3>1, <3>2 DEF Greets, One
    <3> QED
      BY <2>3, <3>3, <3>4, <3>5 DEF Greeting
  <2>8. Agrees(v)'
    <3>1. <<>> \in Seq(Demands) /\ <<>> \in Seq(Verb("REGISTER"))
      <4>1. PICK S, T : S = Demands /\ T = Verb("REGISTER")
        OBVIOUS
      <4> QED
        BY <4>1
    <3> QED
      BY <2>1, <2>3, <2>4, <2>7, <3>1 DEF Agrees, Unlisted
  <2>9. Leads(v, toClient', v)
    BY <2>3, LeadsNowhere
  <2> QED
    BY <2>1, <2>6, <2>8, <2>9
<1> QED
  BY <1>6, <1>7, <1>11, <1>12, <1>13, <1>14 DEF Safe

-----------------------------------------------------------------------------
(* With "sasl" and "saslExternal": as long as the client is not logged in  *)
(* and no failure is reported, nothing ends the negotiation that CAP LS    *)
(* has opened, and nobody is registered.                                   *)
Unheard == Strict /\ ~server.loggedIn /\ ~reported
Success == ServerLine({"903"})
LsFirst(lines) == lines # <<>> /\ Head(lines).verb = "LS"
Negotiates(s) == /\ ~s.registered /\ s.negotiation # "ended"
                 /\ s.negotiation = "none" => ~s.user
Holds == Unheard => /\ ~completeAfterAck /\ ends = 0
                    /\ ~Has(toServer, Verb("END")) /\ ~Has(toClient, Success)
                    /\ Negotiates(server)
                    /\ server.negotiation = "none" /\ up => LsFirst(toServer)

LEMMA WaitingReplies ==
  ASSUME Safe
  PROVE  toClient \in Seq(CapLine)
<1>1. ServerLine(Hears(Strict, UsesSasl, May(server))) \subseteq CapLine
  BY DEF ServerLine, Hears, CapLine
<1> QED
  BY <1>1, SeqMonotonic DEF Safe, LinesAllowed

(* The client says something else than CAP END.                            *)
LEMMA SendingHolds ==
  ASSUME Safe, Holds, NEW lines \in Seq(ClientLine(ClientVerb)), Sends(lines),
         ~Has(lines, Verb("END")), UNCHANGED <<options, up, server>>,
         ~completeAfterAck => ~completeAfterAck', reported => reported',
         toClient' = toClient \/ (toClient # <<>> /\ toClient' = Tail(toClient))
  PROVE  Holds'
<1>1. Strict' = Strict /\ (Unheard' => Unheard)
  BY DEF Strict, UsesSasl, Unheard
<1> SUFFICES ASSUME Unheard, ~completeAfterAck, ends = 0,
                    ~Has(toServer, Verb("END")), ~Has(toClient, Success), Negotiates(server),
                    server.negotiation = "none" /\ up => LsFirst(toServer)
             PROVE  Holds'
  BY <1>1 DEF Holds
<1> DEFINE C == ClientLine(ClientVerb)
<1>2. toServer \in Seq(C) /\ toClient \in Seq(CapLine) /\ lines \in Seq(C)
  BY WaitingLines, WaitingReplies
<1>3. toServer' = IF up THEN toServer \o lines ELSE toServer
  BY DEF Sends
<1>4. ~Has(toServer', Verb("END"))
  <2>1. ~Has(toServer \o lines, Verb("END"))
    <3> HIDE DEF C
    <3> QED
      BY <1>2, ConcatHas
  <2> QED
    BY <1>3, <2>1
<1>5. ~Has(toClient', Success)
  BY <1>2, TailHas
<1>6. ends' = 0
  <2> DEFINE k == Cardinality({i \in DOMAIN lines : lines[i].verb = "END"})
  <2>1. "END" \in ClientVerb
    BY DEF ClientVerb
  <2>2. k = 0
    BY <2>1, CountedVerbs
  <2>3. ends' = ends + IF up THEN k ELSE 0
    BY DEF Sends
  <2> HIDE DEF k
  <2> QED
    BY <2>2, <2>3
<1>7. LsFirst(toServer) => LsFirst(toServer')
  <2> SUFFICES ASSUME LsFirst(toServer) PROVE LsFirst(toServer \o lines)
    BY <1>3
  <2> HIDE DEF C
  <2>1. toServer # <<>> => (toServer \o lines) # <<>> /\ Head(toServer \o lines) = Head(toServer)
    BY <1>2, ConcatProperties
  <2> QED
    BY <2>1 DEF LsFirst
<1> QED
  BY <1>4, <1>5, <1>6, <1>7 DEF Holds

LEMMA SaslFailsHolds ==
  ASSUME NEW armed, SaslFails(armed), UNCHANGED options
  PROVE  Holds'
<1>1. Strict => reported'
  BY DEF SaslFails, Strict
<1>2. Strict' = Strict
  BY DEF Strict, UsesSasl
<1> QED
  BY <1>1, <1>2 DEF Holds, Unheard

LEMMA ReceiveHolds ==
  ASSUME Safe, Holds, Receive
  PROVE  Holds'
<1> DEFINE m == Head(toClient)
<1>1. /\ toClient # <<>> /\ toClient' = Tail(toClient)
      /\ UNCHANGED <<options, epoch, up, server>>
  BY DEF Receive
<1>2. toClient \in Seq(CapLine) /\ m \in CapLine /\ m = toClient[1] /\ 1 \in DOMAIN toClient
  BY <1>1, WaitingReplies
<1>3. SUFFICES ASSUME Unheard PROVE Holds'
  <2>1. Strict' = Strict
    BY <1>1 DEF Strict, UsesSasl
  <2>2. reported' = reported \/ reported' = TRUE
    <3>1. m.verb = "+" => OnAuthenticate
      BY Zenon DEF Receive
    <3>2. m.verb = "903" => OnSaslSuccess
      BY Zenon DEF Receive
    <3>3. m.verb \in {"904", "906"} => OnSaslFail
      BY Zenon DEF Receive
    <3>4. m.verb = "451" => OnNotRegistered
      BY Zenon DEF Receive
    <3>5. m.verb = "001" => OnWelcome
      BY Zenon DEF Receive
    <3>6. m.verb \notin {"+", "903", "904", "906", "451", "001"} => OnCap(m)
      BY Zenon DEF Receive
    <3> QED
      BY <3>1, <3>2, <3>3, <3>4, <3>5, <3>6
         DEF OnAuthenticate, OnSaslSuccess, OnSaslFail, SaslFails, OnNotRegistered, OnWelcome, OnCap
  <2> QED
    BY <1>1, <2>1, <2>2 DEF Holds, Unheard
<1>4. m.verb # "903" /\ ~completeAfterAck
  <2>1. ~Has(toClient, Success) /\ ~completeAfterAck
    BY <1>3 DEF Holds
  <2>2. m.verb = "903" => m \in Success
    BY <1>2 DEF CapLine, ServerLine, Success
  <2> QED
    BY <1>2, <2>1, <2>2 DEF Has
<1>5. CASE m.verb = "+"
  <2> DEFINE lines == [i \in 1 .. authOnce |-> Say("CREDENTIALS")]
  <2>1. OnAuthenticate
    BY <1>5, Zenon DEF Receive
  <2>2. Say("CREDENTIALS") \in ClientLine(ClientVerb) /\ Say("CREDENTIALS") \notin Verb("END")
    BY DEF Say, Line, ClientLine, ClientVerb, Verb
  <2>3. authOnce \in Nat
    BY DEF Safe, TypeOK
  <2>4. lines \in Seq(ClientLine(ClientVerb)) /\ ~Has(lines, Verb("END"))
    <3> HIDE DEF ClientLine
    <3>1. ~Has(lines, Verb("END"))
      BY <2>2 DEF Has
    <3> QED
      BY <2>2, <2>3, <3>1
  <2>5. Sends(lines) /\ reported' = reported /\ completeAfterAck' = completeAfterAck
    BY <2>1 DEF OnAuthenticate, capVars
  <2> HIDE DEF lines
  <2> QED
    BY <1>1, <2>4, <2>5, SendingHolds
<1>6. CASE m.verb \in {"904", "906"}
  <2>1. OnSaslFail
    BY <1>6, Zenon DEF Receive
  <2> QED
    BY <1>1, <2>1, SaslFailsHolds DEF OnSaslFail
<1>7. CASE m.verb = "451"
  <2> DEFINE lines == <<Say("REGISTER")>>
  <2>1. OnNotRegistered
    BY <1>7, Zenon DEF Receive
  <2>2. lines \in Seq(ClientLine(ClientVerb)) /\ \A x : Has(lines, Verb(x)) <=> x = "REGISTER"
    <3>1. "REGISTER" \in ClientVerb /\ ClientVerb \in SUBSET ClientVerb
      BY DEF ClientVerb
    <3> QED
      BY <3>1, LineToSend
  <2>3. Sends(lines) /\ reported' = reported /\ completeAfterAck' = completeAfterAck
    BY <2>1 DEF OnNotRegistered, capVars
  <2> HIDE DEF lines
  <2>4. ~Has(lines, Verb("END"))
    BY <2>2
  <2> QED
    BY <1>1, <2>2, <2>3, <2>4, SendingHolds
<1>8. CASE m.verb = "001"
  <2>1. OnWelcome
    BY <1>8, Zenon DEF Receive
  <2>2. toServer' = toServer /\ ends' = ends /\ reported' = reported
        /\ completeAfterAck' = completeAfterAck
    BY <2>1 DEF OnWelcome, capVars
  <2>3. ~Has(toClient', Success)
    BY <1>1, <1>2, <1>3, TailHas DEF Holds
  <2>4. server' = server /\ up' = up
    BY <1>1
  <2> QED
    BY <1>3, <2>2, <2>3, <2>4 DEF Holds
<1>9. CASE m.verb \notin {"+", "903", "904", "906", "451", "001"}
  <2>1. OnCap(m)
    BY <1>9, Zenon DEF Receive
  <2>2. Took
    BY <1>1 DEF Took
  <2>3. ~completeAfterAck' /\ \E lines \in Seq(ClientLine(ClientVerb)) :
                                Sends(lines) /\ ~Has(lines, Verb("END"))
    BY <1>4, <1>9, <2>1, <2>2, OnCapKeeps
  <2>4. PICK lines \in Seq(ClientLine(ClientVerb)) : Sends(lines) /\ ~Has(lines, Verb("END"))
    BY <2>3
  <2>5. reported' = reported
    BY <2>1 DEF OnCap
  <2> QED
    BY <1>1, <2>3, <2>4, <2>5, SendingHolds
<1> QED
  BY <1>4, <1>5, <1>6, <1>7, <1>8, <1>9

(* The server comes to the state s with these lines.                       *)
LEMMA RepliesHold ==
  ASSUME Safe, Holds, Handles, NEW s \in ServerState, NEW lines \in Seq(CapLine), Replies(s, lines),
         server.loggedIn => s.loggedIn,
         Unheard /\ ~s.loggedIn => /\ ~Has(lines, Success) /\ Negotiates(s)
                                   /\ s.negotiation = "none" => LsFirst(toServer')
  PROVE  Holds'
<1>1. Strict' = Strict /\ UNCHANGED <<up, completeAfterAck, ends, reported>>
  BY DEF Handles, Strict, UsesSasl, capVars, history
<1>2. PICK w \in BOOLEAN : w = (Registered(s) /\ ~s.registered)
  OBVIOUS
<1>3. /\ server' = [s EXCEPT !.registered = s.registered \/ w]
      /\ toClient' = toClient \o (IF w THEN Append(lines, Short("001")) ELSE lines)
  BY <1>2 DEF Replies
<1>4. server'.loggedIn = s.loggedIn /\ server'.negotiation = s.negotiation
      /\ server'.user = s.user /\ (~w /\ ~s.registered => ~server'.registered)
  BY <1>3 DEF ServerState
<1> SUFFICES ASSUME Unheard' PROVE Holds'
  BY DEF Holds
<1>5. Unheard /\ ~s.loggedIn
  BY <1>1, <1>4 DEF Unheard
<1>6. /\ ~Has(lines, Success) /\ Negotiates(s)
      /\ s.negotiation = "none" => LsFirst(toServer')
  BY <1>5
<1>7. ~w
  BY <1>2, <1>6 DEF Negotiates, Registered, ServerState
<1>8. ~Has(toServer, Verb("END")) /\ ~Has(toClient, Success) /\ ~completeAfterAck /\ ends = 0
  BY <1>5 DEF Holds
<1>9. ~Has(toClient', Success)
  <2>1. toClient' = toClient \o lines
    BY <1>3, <1>7
  <2>2. toClient \in Seq(CapLine) /\ lines \in Seq(CapLine)
    BY WaitingReplies
  <2> HIDE DEF CapLine
  <2>3. Has(toClient \o lines, Success) <=> Has(toClient, Success)
    BY <1>6, <2>2, ConcatHas
  <2> QED
    BY <1>8, <2>1, <2>3
<1>10. ~Has(toServer', Verb("END"))
  <2>1. toServer \in Seq(ClientLine(ClientVerb))
    BY WaitingLines
  <2>2. toServer' = toServer \/ (toServer # <<>> /\ toServer' = Tail(toServer))
    BY DEF Handles
  <2>3. toServer # <<>> => ~Has(Tail(toServer), Verb("END"))
    BY <1>8, <2>1, TailHas
  <2> QED
    BY <1>8, <2>2, <2>3
<1>11. Negotiates(server')
  BY <1>4, <1>6, <1>7 DEF Negotiates
<1> QED
  BY <1>1, <1>4, <1>6, <1>8, <1>9, <1>10, <1>11 DEF Holds, Negotiates

(* A reply without RPL_SASLSUCCESS.                                        *)
LEMMA NoSuccess ==
  ASSUME NEW v \in ServerVerb, v # "903", NEW caps \in SUBSET Cap, NEW words \in SUBSET Cap
  PROVE  /\ <<Reply(v, caps, words)>> \in Seq(CapLine)
         /\ ~Has(<<Reply(v, caps, words)>>, Success)
         /\ <<Short(v)>> \in Seq(CapLine) /\ ~Has(<<Short(v)>>, Success)
         /\ <<>> \in Seq(CapLine) /\ ~Has(<<>>, Success)
<1>1. Reply(v, caps, words) \in CapLine /\ Reply(v, caps, words) \notin Success
  BY DEF Reply, CapLine, ServerLine, Success
<1>2. Short(v) \in CapLine /\ Short(v) \notin Success
  BY DEF Short, Reply, CapLine, ServerLine, Success
<1> HIDE DEF CapLine
<1> QED
  BY <1>1, <1>2 DEF Has

LEMMA ServerHandlesHolds ==
  ASSUME Safe, Holds, ServerHandles
  PROVE  Holds'
<1> DEFINE m == Head(toServer)
<1>1. Handles /\ toServer # <<>> /\ toServer' = Tail(toServer)
  <2>1. up
    BY DEF ServerHandles, Safe, LinesAllowed, TypeOK
  <2> QED
    BY <2>1 DEF ServerHandles, Handles
<1>2. m \in ClientLine(ClientVerb) /\ m = toServer[1] /\ 1 \in DOMAIN toServer
  BY <1>1, WaitingLines
<1>3. m.verb \in ClientVerb /\ m.caps \in SUBSET Cap
  BY <1>2 DEF ClientLine
<1>4. server \in ServerState
  BY DEF Safe, ServerOK, Sound
<1>5. Unheard => Negotiates(server) /\ m.verb # "END"
  <2>1. m.verb = "END" => m \in Verb("END")
    BY <1>2 DEF Verb, ClientLine
  <2> QED
    BY <1>2, <2>1 DEF Holds, Has
<1>6. Unheard => m.verb = "LS" \/ server.negotiation # "none"
  BY <1>1 DEF Holds, LsFirst, Handles
<1>7. /\ Opened \in ServerState /\ Opened.loggedIn = server.loggedIn
      /\ Unheard => Negotiates(Opened) /\ Opened.negotiation = "open"
  BY <1>4, <1>5 DEF Opened, ServerState, Negotiates
<1>8. CASE m.verb = "LS"
  <2>1. HandleLs
    BY <1>8, Zenon DEF ServerHandles
  <2>2. PICK first \in SUBSET server.offers :
          Replies(Opened, IF first = {} THEN <<Reply("LS", server.offers, Word(server.offers))>>
                          ELSE <<Reply("LS*", first, {}),
                                 Reply("LS", server.offers \ first, Word(server.offers \ first))>>)
    BY <2>1 DEF HandleLs
  <2>3. PICK a \in CapLine, b \in CapLine, c \in CapLine :
          /\ a = Reply("LS", server.offers, Word(server.offers)) /\ b = Reply("LS*", first, {})
          /\ c = Reply("LS", server.offers \ first, Word(server.offers \ first))
          /\ {a, b, c} \cap Success = {}
    <3>1. server.offers \in SUBSET Cap /\ first \in SUBSET Cap /\ server.offers \ first \in SUBSET Cap
      BY <1>4 DEF ServerState
    <3>2. \A caps \in SUBSET Cap : Word(caps) \in SUBSET Cap
      BY DEF Word
    <3>3. \A v \in {"LS", "LS*"} : \A caps, words \in SUBSET Cap :
            Reply(v, caps, words) \in CapLine /\ Reply(v, caps, words) \notin Success
      BY DEF Reply, CapLine, ServerLine, ServerVerb, Success
    <3>4. {} \in SUBSET Cap
      OBVIOUS
    <3> DEFINE a == Reply("LS", server.offers, Word(server.offers))
               b == Reply("LS*", first, {})
               c == Reply("LS", server.offers \ first, Word(server.offers \ first))
    <3>5. a \in CapLine /\ a \notin Success
      BY <3>1, <3>2, <3>3
    <3>6. b \in CapLine /\ b \notin Success
      BY <3>1, <3>3, <3>4
    <3>7. c \in CapLine /\ c \notin Success
      BY <3>1, <3>2, <3>3
    <3> HIDE DEF a, b, c
    <3>8. \E x \in CapLine, y \in CapLine, z \in CapLine : x = a /\ y = b /\ z = c
                                                /\ {x, y, z} \cap Success = {}
      BY <3>5, <3>6, <3>7
    <3> QED
      BY <3>8 DEF a, b, c
  <2>4. /\ <<a>> \in Seq(CapLine) /\ ~Has(<<a>>, Success)
        /\ <<b, c>> \in Seq(CapLine) /\ ~Has(<<b, c>>, Success)
    <3> HIDE DEF CapLine
    <3> QED
      BY <2>3 DEF Has
  <2>5. PICK lines : lines \in Seq(CapLine) /\ Replies(Opened, lines) /\ ~Has(lines, Success)
    <3>1. Replies(Opened, IF first = {} THEN <<a>> ELSE <<b, c>>)
      BY <2>2, <2>3
    <3> QED
      BY <2>4, <3>1
  <2> QED
    BY <1>1, <1>7, <2>5, RepliesHold
<1>9. CASE m.verb = "REQ"
  <2> DEFINE caps == m.caps
             acked == Opened.acked \cup caps
             s == [Opened EXCEPT !.acked = acked]
  <2>1. HandleReq(caps)
    BY <1>9, Zenon DEF ServerHandles
  <2>2. /\ s \in ServerState /\ s.loggedIn = server.loggedIn
        /\ Unheard => Negotiates(s) /\ s.negotiation = "open"
    BY <1>3, <1>7 DEF ServerState, Negotiates
  <2>3. "ACK" \in ServerVerb /\ "NAK" \in ServerVerb
    BY DEF ServerVerb
  <2>4. \/ Replies(s, <<Reply("ACK", caps, caps)>>)
        \/ Replies(Opened, <<Reply("NAK", caps, caps)>>)
    BY <2>1 DEF HandleReq
  <2> HIDE DEF s, caps
  <2>5. /\ <<Reply("ACK", caps, caps)>> \in Seq(CapLine) /\ ~Has(<<Reply("ACK", caps, caps)>>, Success)
        /\ <<Reply("NAK", caps, caps)>> \in Seq(CapLine) /\ ~Has(<<Reply("NAK", caps, caps)>>, Success)
    BY <1>3, <2>3, NoSuccess DEF caps
  <2>6. CASE Replies(s, <<Reply("ACK", caps, caps)>>)
    BY <1>1, <2>2, <2>5, <2>6, RepliesHold
  <2>7. CASE Replies(Opened, <<Reply("NAK", caps, caps)>>)
    BY <1>1, <1>7, <2>5, <2>7, RepliesHold
  <2> QED
    BY <2>4, <2>6, <2>7
<1>10. CASE m.verb = "END"
  <2> DEFINE s == [server EXCEPT !.negotiation = "ended", !.sasl = "idle"]
             lines == IF server.sasl = "asked" THEN <<Short("906")>> ELSE <<>>
  <2>1. HandleEnd
    BY <1>10, Zenon DEF ServerHandles
  <2>2. Replies(s, lines)
    BY <2>1 DEF HandleEnd
  <2>3. s \in ServerState /\ s.loggedIn = server.loggedIn
    BY <1>4 DEF ServerState
  <2>4. lines \in Seq(CapLine)
    BY NoSuccess DEF ServerVerb
  <2> HIDE DEF s, lines
  <2> QED
    BY <1>1, <1>5, <1>10, <2>2, <2>3, <2>4, RepliesHold
<1>11. ASSUME NEW s \in ServerState, s.loggedIn = server.loggedIn,
              s.registered = server.registered, s.negotiation = server.negotiation,
              NEW lines \in Seq(CapLine), ~Has(lines, Success), Replies(s, lines),
              m.verb \notin {"LS", "END"}
       PROVE  Holds'
  <2>1. Unheard => Negotiates(s) /\ s.negotiation # "none"
    BY <1>5, <1>6, <1>11 DEF Negotiates
  <2> QED
    BY <1>1, <1>11, <2>1, RepliesHold
<1>12. ASSUME NEW v \in {"907", "+", "904", "451"}
       PROVE  <<Short(v)>> \in Seq(CapLine) /\ ~Has(<<Short(v)>>, Success)
  <2>1. v \in ServerVerb /\ v # "903" /\ {} \in SUBSET Cap
    BY DEF ServerVerb
  <2> QED
    BY <2>1, NoSuccess
<1>13. <<>> \in Seq(CapLine) /\ ~Has(<<>>, Success)
  BY DEF Has
<1>14. CASE m.verb = "MECHANISM"
  <2>1. HandleMechanism
    BY <1>14, Zenon DEF ServerHandles
  <2>2. PICK sasl \in {"idle", "asked"}, v \in {"907", "+", "904"} :
          Replies([server EXCEPT !.sasl = sasl], <<Short(v)>>)
    <3>1. server = [server EXCEPT !.sasl = server.sasl] /\ server.sasl \in {"idle", "asked"}
      BY <1>4 DEF ServerState
    <3> QED
      BY <2>1, <3>1 DEF HandleMechanism
  <2> DEFINE s == [server EXCEPT !.sasl = sasl]
  <2>3. /\ s \in ServerState /\ s.loggedIn = server.loggedIn
        /\ s.registered = server.registered /\ s.negotiation = server.negotiation
    BY <1>4 DEF ServerState
  <2>4. <<Short(v)>> \in Seq(CapLine) /\ ~Has(<<Short(v)>>, Success)
    BY <1>12
  <2>5. Replies(s, <<Short(v)>>)
    BY <2>2
  <2> HIDE DEF s
  <2> QED
    BY <1>11, <1>14, <2>3, <2>4, <2>5
<1>15. CASE m.verb = "CREDENTIALS"
  <2> DEFINE s == [server EXCEPT !.sasl = "idle", !.loggedIn = TRUE]
             t == [server EXCEPT !.sasl = "idle"]
  <2>1. HandleCredentials
    BY <1>15, Zenon DEF ServerHandles
  <2>2. s \in ServerState /\ s.loggedIn
    BY <1>4 DEF ServerState
  <2>3. /\ t \in ServerState /\ t.loggedIn = server.loggedIn
        /\ t.registered = server.registered /\ t.negotiation = server.negotiation
    BY <1>4 DEF ServerState
  <2>4. <<Short("903")>> \in Seq(CapLine)
    <3>1. Short("903") \in CapLine
      BY DEF Short, Reply, CapLine, ServerLine, ServerVerb
    <3> HIDE DEF CapLine
    <3> QED
      BY <3>1
  <2>5. Replies(s, <<Short("903")>>) \/ Replies(t, <<Short("904")>>)
    BY <2>1 DEF HandleCredentials
  <2> HIDE DEF s, t
  <2>6. CASE Replies(s, <<Short("903")>>)
    BY <1>1, <2>2, <2>4, <2>6, RepliesHold
  <2>7. CASE Replies(t, <<Short("904")>>)
    BY <1>11, <1>12, <1>15, <2>3, <2>7
  <2> QED
    BY <2>5, <2>6, <2>7
<1>16. CASE m.verb = "REGISTER"
  <2> DEFINE s == [server EXCEPT !.user = TRUE]
  <2>1. HandleRegister
    BY <1>16, Zenon DEF ServerHandles
  <2>2. Replies(s, <<>>)
    BY <2>1 DEF HandleRegister
  <2>3. /\ s \in ServerState /\ s.loggedIn = server.loggedIn
        /\ s.registered = server.registered /\ s.negotiation = server.negotiation
    BY <1>4 DEF ServerState
  <2> HIDE DEF s
  <2> QED
    BY <1>11, <1>13, <1>16, <2>2, <2>3
<1>17. CASE m.verb = "IDENTIFY"
  <2> DEFINE s == [server EXCEPT !.identified = TRUE]
             t == [server EXCEPT !.demanded = TRUE]
  <2>1. HandleIdentify
    BY <1>17, Zenon DEF ServerHandles
  <2>2. Replies(s, <<>>) \/ Replies(t, <<Short("451")>>)
    BY <2>1 DEF HandleIdentify, Demand
  <2>3. /\ s \in ServerState /\ s.loggedIn = server.loggedIn
        /\ s.registered = server.registered /\ s.negotiation = server.negotiation
    BY <1>4 DEF ServerState
  <2>4. /\ t \in ServerState /\ t.loggedIn = server.loggedIn
        /\ t.registered = server.registered /\ t.negotiation = server.negotiation
    BY <1>4 DEF ServerState
  <2> HIDE DEF s, t
  <2>5. CASE Replies(s, <<>>)
    BY <1>11, <1>13, <1>17, <2>3, <2>5
  <2>6. CASE Replies(t, <<Short("451")>>)
    BY <1>11, <1>12, <1>17, <2>4, <2>6
  <2> QED
    BY <2>2, <2>5, <2>6
<1> QED
  BY <1>3, <1>8, <1>9, <1>10, <1>14, <1>15, <1>16, <1>17 DEF ClientVerb

LEMMA ServerSpeaksHolds ==
  ASSUME Safe, Holds
  PROVE  /\ \A c \in Cap : ServerNotifies(c) => Holds'
         /\ ServerDemands => Holds'
<1>1. server \in ServerState
  BY DEF Safe, ServerOK, Sound
<1> DEFINE n == server.notices + 1
<1>2. n \in Nat
  BY <1>1 DEF ServerState
<1>3. Unheard => Negotiates(server) /\ (server.negotiation = "none" /\ up => LsFirst(toServer))
  BY DEF Holds
<1>4. ASSUME NEW s \in ServerState, s.loggedIn = server.loggedIn, s.user = server.user,
             s.registered = server.registered, s.negotiation = server.negotiation,
             NEW v \in {"NEW", "DEL", "451"}, NEW caps \in SUBSET Cap, NEW words \in SUBSET Cap,
             Replies(s, <<Reply(v, caps, words)>>), Handles, toServer' = toServer
      PROVE  Holds'
  <2>1. v \in ServerVerb /\ v # "903"
    BY DEF ServerVerb
  <2>2. /\ <<Reply(v, caps, words)>> \in Seq(CapLine)
        /\ ~Has(<<Reply(v, caps, words)>>, Success)
    BY <2>1, NoSuccess
  <2>3. Unheard => Negotiates(s) /\ (s.negotiation = "none" => LsFirst(toServer'))
    BY <1>3, <1>4 DEF Negotiates, Handles
  <2> QED
    BY <1>4, <2>2, <2>3, RepliesHold
<1>5. ASSUME NEW c \in Cap, ServerNotifies(c) PROVE Holds'
  <2> DEFINE more == server.offers \cup {c}
             fewer == server.offers \ {c}
             left == server.acked \ {c}
             s == [server EXCEPT !.notices = n, !.offers = more]
             t == [server EXCEPT !.notices = n, !.offers = fewer, !.acked = left]
  <2>1. /\ [[server EXCEPT !.notices = @ + 1] EXCEPT !.offers = @ \cup {c}] = s
        /\ [[server EXCEPT !.notices = @ + 1] EXCEPT !.offers = @ \ {c}, !.acked = @ \ {c}] = t
    BY <1>1 DEF ServerState
  <2>2. Replies(s, <<Reply("NEW", {c}, Word({c}))>>) \/ Replies(t, <<Reply("DEL", {c}, {c})>>)
    BY <1>5, <2>1 DEF ServerNotifies
  <2>3. more \in SUBSET Cap /\ fewer \in SUBSET Cap /\ left \in SUBSET Cap
    BY <1>1 DEF ServerState
  <2> HIDE DEF n, more, fewer, left
  <2>4. /\ s \in ServerState /\ s.loggedIn = server.loggedIn /\ s.user = server.user
        /\ s.registered = server.registered /\ s.negotiation = server.negotiation
        /\ t \in ServerState /\ t.loggedIn = server.loggedIn /\ t.user = server.user
        /\ t.registered = server.registered /\ t.negotiation = server.negotiation
    BY <1>1, <1>2, <2>3 DEF ServerState
  <2>5. {c} \in SUBSET Cap /\ Word({c}) \in SUBSET Cap
    BY DEF Word
  <2>6. Handles /\ toServer' = toServer
    BY <1>5 DEF ServerNotifies, Handles
  <2> HIDE DEF s, t
  <2> QED
    BY <1>4, <2>2, <2>4, <2>5, <2>6
<1>6. ASSUME ServerDemands PROVE Holds'
  <2> DEFINE s == [server EXCEPT !.notices = n, !.demanded = TRUE]
  <2>1. [[server EXCEPT !.notices = @ + 1] EXCEPT !.demanded = TRUE] = s
    BY <1>1 DEF ServerState
  <2>2. Replies(s, <<Reply("451", {}, {})>>)
    BY <1>6, <2>1 DEF ServerDemands, Demand, Short
  <2> HIDE DEF n
  <2>3. /\ s \in ServerState /\ s.loggedIn = server.loggedIn /\ s.user = server.user
        /\ s.registered = server.registered /\ s.negotiation = server.negotiation
    BY <1>1, <1>2 DEF ServerState
  <2>4. Handles /\ toServer' = toServer
    BY <1>6 DEF ServerDemands, Handles
  <2> HIDE DEF s
  <2> QED
    BY <1>4, <2>2, <2>3, <2>4
<1> QED
  BY <1>5, <1>6

LEMMA ConnectedHolds ==
  ASSUME NEW offers \in Offers, NEW bare \in BOOLEAN, Connected(offers, bare)
  PROVE  Holds'
<1>1. UsesSasl' = UsesSasl /\ Strict' = Strict
  BY DEF Connected, UsesSasl, Strict
<1>2. SUFFICES ASSUME Strict, ~NoTls PROVE Holds'
  <2>1. NoTls => reported'
    BY DEF Connected
  <2> QED
    BY <1>1, <2>1 DEF Holds, Unheard
<1>3. ~completeAfterAck'
  BY <1>2 DEF Connected, BeginSasl, Negotiate, Strict
<1>4. toServer' = <<Say("LS")>> /\ toClient' = <<>> /\ ends' = 0
  BY <1>2 DEF Connected, Greeting, Strict
<1>5. Say("LS").verb = "LS" /\ Say("LS") \notin Verb("END")
  BY DEF Say, Line, Verb, ClientLine
<1>6. ~Has(toServer', Verb("END")) /\ ~Has(toClient', Success) /\ LsFirst(toServer')
  BY <1>4, <1>5 DEF Has, LsFirst
<1>7. Negotiates(server')
  BY DEF Connected, Negotiates
<1> QED
  BY <1>3, <1>4, <1>6, <1>7 DEF Holds

-----------------------------------------------------------------------------
LEMMA InitSafe == Init => Safe
<1> SUFFICES ASSUME Init PROVE Safe
  OBVIOUS
<1>1. TypeOK
  <2>1. 0 \in 0 .. MaxConnections
    BY RegistrationAssumption
  <2>2. capListeners \in Seq([kind : {"ls", "sasl"}, lsCaps : SUBSET Cap])
    BY DEF Init
  <2>3. authOnce \in 0 .. epoch /\ successOnce \in 0 .. epoch /\ saslTimeoutId \in 0 .. epoch
    BY DEF Init
  <2> QED
    BY <2>1, <2>2, <2>3 DEF Init, TypeOK
<1>2. LinesAllowed
  BY DEF Init, LinesAllowed
<1>3. ServerOK
  BY DEF Init, ServerOK, Sound, ServerState, May
<1>4. SaslIsUsed
  BY DEF Init, SaslIsUsed
<1>5. EndsOnce /\ AnnouncesOnce /\ CapsPictured
  BY DEF Init, EndsOnce, AnnouncesOnce, CapsPictured
<1> QED
  BY <1>1, <1>2, <1>3, <1>4, <1>5 DEF Safe

LEMMA StepSafe == Safe /\ [Next]_vars => Safe'
<1> SUFFICES ASSUME Safe, [Next]_vars PROVE Safe'
  OBVIOUS
<1>1. ASSUME NEW offers \in Offers, NEW bare \in BOOLEAN, Connected(offers, bare) PROVE Safe'
  BY <1>1, ConnectedKeeps
<1>2. ASSUME Receive PROVE Safe'
  BY <1>2, ReceiveKeeps
<1>3. ASSUME NEW e \in 1 .. MaxConnections, SaslTimer(e) PROVE Safe'
  BY <1>3, SaslTimerKeeps
<1>4. ASSUME Lost PROVE Safe'
  BY <1>4, LostKeeps
<1>5. ASSUME ServerHandles PROVE Safe'
  BY <1>5, ServerHandlesKeeps
<1>6. ASSUME NEW c \in Cap, ServerNotifies(c) PROVE Safe'
  BY <1>6, ServerNotifiesKeeps
<1>8. ASSUME ServerDemands PROVE Safe'
  BY <1>8, ServerDemandsKeeps
<1>7. ASSUME UNCHANGED vars PROVE Safe'
  <2>1. /\ UNCHANGED <<options, epoch, up, server>> /\ UNCHANGED <<available, enabled>>
        /\ UNCHANGED <<completeAfterAck, capListeners, authOnce, successOnce, timers>>
        /\ UNCHANGED <<saslTimeoutId, toServer, toClient, ends, mechanisms>>
    BY <1>7 DEF vars, capVars, saslVars, channels, history
  <2>2. UsesSasl' = UsesSasl /\ Strict' = Strict
    BY <2>1 DEF UsesSasl, Strict
  <2>3. TypeOK' /\ LinesAllowed' /\ ServerOK'
    BY <2>1, <2>2 DEF Safe, TypeOK, LinesAllowed, ServerOK
  <2>4. SaslIsUsed' /\ EndsOnce' /\ AnnouncesOnce'
    BY <2>1, <2>2 DEF Safe, SaslIsUsed, EndsOnce, AnnouncesOnce
  <2>5. CapsPictured'
    BY <2>1 DEF Safe, CapsPictured, Agrees, Unlisted
  <2> QED
    BY <2>3, <2>4, <2>5 DEF Safe
<1> QED
  BY <1>1, <1>2, <1>3, <1>4, <1>5, <1>6, <1>7, <1>8 DEF Next

LEMMA StepHolds == Safe /\ Holds /\ [Next]_vars => Holds'
<1> SUFFICES ASSUME Safe, Holds, [Next]_vars PROVE Holds'
  OBVIOUS
<1>1. ASSUME NEW offers \in Offers, NEW bare \in BOOLEAN, Connected(offers, bare) PROVE Holds'
  BY <1>1, ConnectedHolds
<1>2. ASSUME Receive PROVE Holds'
  BY <1>2, ReceiveHolds
<1>3. ASSUME NEW e \in 1 .. MaxConnections, SaslTimer(e) PROVE Holds'
  BY <1>3, SaslFailsHolds DEF SaslTimer
<1>4. ASSUME Lost PROVE Holds'
  <2>1. Strict' = Strict
    BY <1>4 DEF Lost, Strict, UsesSasl
  <2>2. ~Has(<<>>, Verb("END")) /\ ~Has(<<>>, Success)
    BY DEF Has
  <2> QED
    BY <1>4, <2>1, <2>2 DEF Lost, Holds, Unheard, capVars, history
<1>5. ASSUME ServerHandles PROVE Holds'
  BY <1>5, ServerHandlesHolds
<1>6. ASSUME NEW c \in Cap, ServerNotifies(c) PROVE Holds'
  BY <1>6, ServerSpeaksHolds
<1>7. ASSUME ServerDemands PROVE Holds'
  BY <1>7, ServerSpeaksHolds
<1>8. ASSUME UNCHANGED vars PROVE Holds'
  BY <1>8 DEF vars, capVars, channels, history, Holds, Unheard, Strict, UsesSasl
<1> QED
  BY <1>1, <1>2, <1>3, <1>4, <1>5, <1>6, <1>7, <1>8 DEF Next

LEMMA AlwaysSafe == Spec => []Safe
  BY InitSafe, StepSafe, PTL DEF Spec

(* The plugins' state always has its types; no listener counts more than   *)
(* the connections that may have added it (registration.ts, cap.ts).       *)
THEOREM TypeCorrect == Spec => []TypeOK
<1>1. Safe => TypeOK
  BY DEF Safe
<1> QED
  BY <1>1, AlwaysSafe, PTL

LEMMA AlwaysHolds == Spec => []Holds
<1>1. Init => Holds
  <2>1. ~Has(<<>>, Verb("END")) /\ ~Has(<<>>, Success)
    BY DEF Has
  <2> QED
    BY <2>1 DEF Init, Holds, Negotiates
<1> QED
  BY <1>1, StepHolds, AlwaysSafe, PTL DEF Spec

(* "Errors out if SASL fails", on any number of connections and whatever   *)
(* listeners the earlier ones have left behind: a client that is           *)
(* registered without being logged in was asked for by ERR_NOTREGISTERED   *)
(* and has reported the failure on the same connection, since until then   *)
(* nothing ends the negotiation that CAP LS has opened.                    *)
THEOREM NobodyRegistersUnauthenticated == Spec => []NeverUnauthenticated
<1>1. Safe /\ Holds => NeverUnauthenticated
  <2>3. Safe /\ UsesSasl /\ options.method # "saslThenNickServ" => Strict
    BY RegistrationAssumption DEF Safe, TypeOK, Strict, UsesSasl
  <2> SUFFICES ASSUME Safe, Holds, Strict, server.registered, ~server.loggedIn
               PROVE  server.demanded /\ reported
    BY <2>3 DEF NeverUnauthenticated
  <2>1. server.demanded
    BY DEF Safe, ServerOK, Sound, May
  <2>2. reported
    BY DEF Holds, Unheard, Negotiates
  <2> QED
    BY <2>1, <2>2
<1> QED
  BY <1>1, AlwaysSafe, AlwaysHolds, PTL

(* Without SASL each connection sends CAP END at most once, whatever CAP   *)
(* lines the server sends and however many onLs are left over; with "sasl" *)
(* and "saslExternal" none before SASL has succeeded or its failure is     *)
(* reported; a first connection announces its mechanism at most once.      *)
THEOREM NegotiationIsOrderly == Spec => []NegotiatesOrderly
<1>1. Safe /\ Holds => NegotiatesOrderly
  <2> SUFFICES ASSUME Safe, Holds PROVE NegotiatesOrderly
    OBVIOUS
  <2>1. UsesSasl /\ options.method # "saslThenNickServ" => Strict
    BY RegistrationAssumption DEF Safe, TypeOK, Strict, UsesSasl
  <2>2. Strict /\ ends > 0 => server.loggedIn \/ reported
    BY DEF Holds, Unheard
  <2> QED
    BY <2>1, <2>2 DEF Safe, NegotiatesOrderly, EndsOnce, AnnouncesOnce, FirstConnection
<1> QED
  BY <1>1, AlwaysSafe, AlwaysHolds, PTL

(* On a first connection the client's capabilities are the server's when   *)
(* no line is on its way, whatever CAP NEW and CAP DEL have changed        *)
(* meanwhile, in one CAP LS or in several lines (cap.ts).                  *)
THEOREM PictureFollowsServer == Spec => []CapsFollowServer
<1>1. Safe => CapsFollowServer
  <2> SUFFICES ASSUME Safe, epoch = 1, up, toClient = <<>>
               PROVE  /\ enabled = server.acked
                      /\ server.negotiation # "none" /\ ~server.registered =>
                           available = server.offers
    BY DEF CapsFollowServer, FirstConnection
  <2>1. PICK v \in View, w \in View : /\ Shows(v, enabled, available, capListeners)
                                      /\ Leads(v, <<>>, w) /\ Agrees(w)
    BY DEF Safe, CapsPictured
  <2>2. w = v
    BY <2>1, LeadsNowhere
  <2> QED
    BY <2>1, <2>2 DEF Shows, Agrees, Listed
<1> QED
  BY <1>1, AlwaysSafe, PTL
=============================================================================
