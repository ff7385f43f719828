----------------------------- MODULE Induction ------------------------------
(***************************************************************************)
(* Induction over data, for the proofs of the other modules: over natural  *)
(* numbers, over what folds and FlattenSeq compute, and what SetToSeq      *)
(* returns.  The induction theorems of the library take a predicate as a   *)
(* parameter; here it is a set, whose complement has a smallest element.   *)
(***************************************************************************)
EXTENDS SequencesExt, SequenceTheorems, FiniteSetTheorems, WellFoundedInduction, TLAPS

(* A set of natural numbers has a least element.                           *)
LEMMA Least ==
  ASSUME NEW T \in SUBSET Nat, T # {}
  PROVE  \E n \in T : \A m \in T : n <= m
<1> DEFINE F == {1 .. n : n \in T}
           R == StrictSubsetOrdering(Nat)
<1>1. \A n \in Nat : 1 .. n \in FiniteSubsetsOf(Nat)
  BY FS_Interval DEF FiniteSubsetsOf
<1>2. F \subseteq FiniteSubsetsOf(Nat) /\ F # {}
  BY <1>1
<1>3. \E x \in F : \A y \in F : ~(<<y, x>> \in R)
  <2> HIDE DEF F, R
  <2>1. IsWellFoundedOn(R, FiniteSubsetsOf(Nat))
    BY FS_StrictSubsetOrderingWellFounded DEF R
  <2> QED
    BY <1>2, <2>1, WFMin
<1>4. PICK n \in T : \A m \in T : <<1 .. m, 1 .. n>> \notin R
  BY <1>3
<1>5. ASSUME NEW m \in T, m < n PROVE FALSE
  <2>1. 1 .. m \subseteq 1 .. n /\ n \in 1 .. n /\ n \notin 1 .. m
    BY <1>5
  <2>2. <<1 .. m, 1 .. n>> \in R
    BY <2>1 DEF StrictSubsetOrdering
  <2> QED
    BY <1>4, <2>2
<1> QED
  BY <1>5

(* Induction up to n, for the predicate of being in S.                     *)
LEMMA UpTo ==
  ASSUME NEW n \in Nat, NEW S, 0 \in S, \A i \in 1 .. n : i - 1 \in S => i \in S
  PROVE  \A i \in 0 .. n : i \in S
<1> DEFINE T == {i \in 0 .. n : i \notin S}
<1> SUFFICES ASSUME T # {} PROVE FALSE
  OBVIOUS
<1>1. PICK i \in T : \A j \in T : i <= j
  <2> HIDE DEF T
  <2>1. T \in SUBSET Nat
    BY DEF T
  <2> QED
    BY <2>1, Least
<1>2. i \in 1 .. n
  BY <1>1
<1>3. i - 1 \in 0 .. n /\ i - 1 \notin T
  BY <1>1, <1>2
<1> QED
  BY <1>1, <1>2, <1>3

-----------------------------------------------------------------------------
(* The values of a recursion of n steps, which the function G takes.       *)
Steps(V, n) == [V \X (1 .. n) -> V]
Computes(f, n, V, base, G) == /\ f \in [0 .. n -> V]
                              /\ f[0] = base
                              /\ \A i \in 1 .. n : f[i] = G[<<f[i - 1], i>>]

LEMMA Recursion ==
  ASSUME NEW n \in Nat, NEW V, NEW base \in V, NEW G \in Steps(V, n)
  PROVE  \E f : Computes(f, n, V, base, G)
<1> DEFINE Values(k, f) == f[0] = base /\ \A i \in 1 .. k : f[i] = G[<<f[i - 1], i>>]
           S == {k \in 0 .. n : \E f \in [0 .. k -> V] : Values(k, f)}
<1>1. 0 \in S
  <2> DEFINE f == [i \in 0 .. 0 |-> base]
  <2>1. f \in [0 .. 0 -> V] /\ Values(0, f)
    OBVIOUS
  <2>2. 0 \in 0 .. n
    OBVIOUS
  <2> QED
    BY <2>1, <2>2
<1>2. ASSUME NEW k \in 1 .. n, k - 1 \in S PROVE k \in S
  <2>1. PICK f \in [0 .. k - 1 -> V] : Values(k - 1, f)
    BY <1>2
  <2> DEFINE e == G[<<f[k - 1], k>>]
             g == [i \in 0 .. k |-> IF i = k THEN e ELSE f[i]]
  <2>2. e \in V
    <3>1. k - 1 \in 0 .. k - 1
      OBVIOUS
    <3>2. f[k - 1] \in V
      BY <3>1
    <3>3. <<f[k - 1], k>> \in V \X (1 .. n)
      BY <3>2
    <3> QED
      BY <3>3 DEF Steps
  <2>3. g[0] = base
    BY <2>1
  <2>4. ASSUME NEW i \in 1 .. k PROVE g[i] = G[<<g[i - 1], i>>]
    <3>1. g[i - 1] = f[i - 1]
      OBVIOUS
    <3>2. CASE i = k
      <4>1. g[i] = e
        BY <3>2
      <4> QED
        BY <3>1, <3>2, <4>1
    <3>3. CASE i # k
      <4>1. i \in 1 .. k - 1 /\ g[i] = f[i]
        BY <3>3
      <4> QED
        BY <2>1, <3>1, <4>1
    <3> QED
      BY <3>2, <3>3
  <2> HIDE DEF e
  <2>5. g \in [0 .. k -> V]
    BY <2>2
  <2>6. \E h \in [0 .. k -> V] : Values(k, h)
    BY <2>3, <2>4, <2>5
  <2> QED
    BY <2>6
<1>3. n \in S
  <2> HIDE DEF S
  <2>1. n \in 0 .. n
    OBVIOUS
  <2> QED
    BY <1>1, <1>2, <2>1, UpTo
<1> QED
  BY <1>3 DEF Computes

(* Induction from n down, where what holds above i leads to i.             *)
LEMMA DownFrom ==
  ASSUME NEW n \in Nat, NEW S, n + 1 \in S,
         \A i \in 1 .. n : (\A j \in i + 1 .. n + 1 : j \in S) => i \in S
  PROVE  \A i \in 1 .. n + 1 : i \in S
<1> DEFINE T == {k \in Nat : k <= n /\ (n + 1) - k \notin S}
<1> SUFFICES ASSUME T # {} PROVE FALSE
  <2>1. \A i \in 1 .. n + 1 : i \notin S => (n + 1) - i \in T
    OBVIOUS
  <2> QED
    BY <2>1
<1>1. PICK k \in T : \A j \in T : k <= j
  <2> HIDE DEF T
  <2>1. T \in SUBSET Nat
    BY DEF T
  <2> QED
    BY <2>1, Least
<1>2. k \in Nat /\ k <= n /\ (n + 1) - k \notin S
  BY <1>1
<1>3. k # 0
  BY <1>2
<1>4. (n + 1) - k \in 1 .. n
  BY <1>2, <1>3
<1>5. ASSUME NEW j \in ((n + 1) - k) + 1 .. n + 1 PROVE j \in S
  <2>1. (n + 1) - j \in Nat /\ (n + 1) - j < k /\ (n + 1) - j <= n /\ (n + 1) - ((n + 1) - j) = j
    BY <1>2
  <2>2. (n + 1) - j \notin T
    BY <1>1, <1>2, <2>1
  <2> QED
    BY <2>1, <2>2
<1> HIDE DEF T
<1> QED
  BY <1>2, <1>4, <1>5

(* The values of a recursion from the end, where the value at i is made of *)
(* that at a later place, next[i].                                         *)
Onward(next, n) == next \in [1 .. n -> Nat] /\ \A i \in 1 .. n : next[i] \in i + 1 .. n + 1
Unwinds(f, n, V, base, next, G) == /\ f \in [1 .. n + 1 -> V]
                                   /\ f[n + 1] = base
                                   /\ \A i \in 1 .. n : f[i] = G[<<f[next[i]], i>>]

LEMMA Backwards ==
  ASSUME NEW n \in Nat, NEW V, NEW base \in V, NEW G \in Steps(V, n), NEW next, Onward(next, n)
  PROVE  \E f : Unwinds(f, n, V, base, next, G)
<1> DEFINE Values(k, f) == /\ f[n + 1] = base
                           /\ \A i \in (n + 1) - k .. n : f[i] = G[<<f[next[i]], i>>]
           S == {k \in 0 .. n : \E f \in [(n + 1) - k .. n + 1 -> V] : Values(k, f)}
<1>1. 0 \in S
  <2> DEFINE f == [i \in (n + 1) - 0 .. n + 1 |-> base]
  <2>1. f \in [(n + 1) - 0 .. n + 1 -> V] /\ Values(0, f)
    OBVIOUS
  <2>2. 0 \in 0 .. n
    OBVIOUS
  <2> QED
    BY <2>1, <2>2
<1>2. ASSUME NEW k \in 1 .. n, k - 1 \in S PROVE k \in S
  <2>1. PICK f \in [(n + 1) - (k - 1) .. n + 1 -> V] : Values(k - 1, f)
    BY <1>2
  <2>2. PICK m \in 1 .. n : m = (n + 1) - k /\ (n + 1) - (k - 1) = m + 1
    <3>1. (n + 1) - k \in 1 .. n /\ (n + 1) - (k - 1) = ((n + 1) - k) + 1
      OBVIOUS
    <3> QED
      BY <3>1
  <2>3. /\ f \in [m + 1 .. n + 1 -> V] /\ f[n + 1] = base
        /\ \A i \in m + 1 .. n : f[i] = G[<<f[next[i]], i>>]
    BY <2>1, <2>2
  <2>4. \A i \in m .. n : next[i] \in i + 1 .. n + 1
    BY DEF Onward
  <2> DEFINE e == G[<<f[next[m]], m>>]
             g == [i \in m .. n + 1 |-> IF i = m THEN e ELSE f[i]]
  <2>5. e \in V
    <3>1. next[m] \in m + 1 .. n + 1
      BY <2>4
    <3>2. f[next[m]] \in V
      BY <2>3, <3>1
    <3>3. <<f[next[m]], m>> \in V \X (1 .. n)
      BY <3>2
    <3> QED
      BY <3>3 DEF Steps
  <2>6. g[n + 1] = base
    BY <2>3
  <2>7. ASSUME NEW i \in m .. n PROVE g[i] = G[<<g[next[i]], i>>]
    <3>1. next[i] \in m .. n + 1 /\ next[i] # m
      BY <2>4
    <3>2. g[next[i]] = f[next[i]]
      BY <3>1
    <3>3. CASE i = m
      <4>1. g[i] = e
        BY <3>3
      <4> QED
        BY <3>2, <3>3, <4>1
    <3>4. CASE i # m
      <4>1. i \in m + 1 .. n /\ g[i] = f[i]
        BY <3>4
      <4> QED
        BY <2>3, <3>2, <4>1
    <3> QED
      BY <3>3, <3>4
  <2> HIDE DEF e
  <2>8. g \in [m .. n + 1 -> V]
    BY <2>3, <2>5
  <2> HIDE DEF g
  <2>10. (n + 1) - k = m
    BY <2>2
  <2>9. \E h \in [(n + 1) - k .. n + 1 -> V] : Values(k, h)
    BY <2>6, <2>7, <2>8, <2>10
  <2>11. k \in 0 .. n
    OBVIOUS
  <2> QED
    BY <2>9, <2>11
<1>3. n \in S
  <2> HIDE DEF S
  <2>1. n \in 0 .. n
    OBVIOUS
  <2> QED
    BY <1>1, <1>2, <2>1, UpTo
<1>4. (n + 1) - n = 1
  OBVIOUS
<1> QED
  BY <1>3, <1>4 DEF Unwinds

(* The elements of a sequence.                                             *)
LEMMA ConcatElements ==
  ASSUME NEW T, NEW s \in Seq(T), NEW t \in Seq(T)
  PROVE  s \o t \in Seq(T) /\ ToSet(s \o t) = ToSet(s) \cup ToSet(t)
<1>1. \A i \in DOMAIN s : i \in DOMAIN (s \o t) /\ (s \o t)[i] = s[i]
  OBVIOUS
<1>2. \A i \in DOMAIN t : Len(s) + i \in DOMAIN (s \o t) /\ (s \o t)[Len(s) + i] = t[i]
  OBVIOUS
<1>3. \A i \in DOMAIN (s \o t) : IF i <= Len(s) THEN i \in DOMAIN s /\ (s \o t)[i] = s[i]
                                 ELSE i - Len(s) \in DOMAIN t /\ (s \o t)[i] = t[i - Len(s)]
  OBVIOUS
<1>4. s \o t \in Seq(T)
  OBVIOUS
<1> DEFINE c == s \o t
<1> HIDE DEF c
<1>5. \A i \in DOMAIN c : c[i] \in ToSet(s) \cup ToSet(t)
  BY <1>3 DEF c, ToSet
<1>6. \A i \in DOMAIN s : s[i] \in ToSet(c)
  <2>1. \A i \in DOMAIN s : i \in DOMAIN c /\ c[i] = s[i]
    BY <1>1 DEF c
  <2> QED
    BY <2>1 DEF ToSet
<1>7. \A i \in DOMAIN t : t[i] \in ToSet(c)
  <2>1. \A i \in DOMAIN t : Len(s) + i \in DOMAIN c /\ c[Len(s) + i] = t[i]
    BY <1>2 DEF c
  <2> QED
    BY <2>1 DEF ToSet
<1>8. ToSet(c) = ToSet(s) \cup ToSet(t)
  BY <1>5, <1>6, <1>7 DEF ToSet
<1> QED
  BY <1>4, <1>8 DEF c

LEMMA AppendElements ==
  ASSUME NEW T, NEW s \in Seq(T), NEW e \in T
  PROVE  Append(s, e) \in Seq(T) /\ ToSet(Append(s, e)) = ToSet(s) \cup {e}
<1>1. \A i \in DOMAIN s : i \in DOMAIN Append(s, e) /\ Append(s, e)[i] = s[i]
  OBVIOUS
<1>2. Len(s) + 1 \in DOMAIN Append(s, e) /\ Append(s, e)[Len(s) + 1] = e
  OBVIOUS
<1>3. \A i \in DOMAIN Append(s, e) : i = Len(s) + 1 \/ i \in DOMAIN s
  OBVIOUS
<1> QED
  BY <1>1, <1>2, <1>3 DEF ToSet

(* What FlattenSeq computes: the concatenation of the first i sequences,   *)
(* for each i.                                                             *)
Flattens(f, T, seqs) == /\ f \in [0 .. Len(seqs) -> Seq(T)]
                        /\ f[0] = <<>>
                        /\ \A i \in 1 .. Len(seqs) : f[i] = f[i - 1] \o seqs[i]

LEMMA FlattenSteps ==
  ASSUME NEW T, NEW seqs \in Seq(Seq(T))
  PROVE  \E f : Flattens(f, T, seqs) /\ FlattenSeq(seqs) = f[Len(seqs)]
<1>1. CASE Len(seqs) = 0
  <2>1. seqs = <<>>
    BY <1>1
  <2>2. FlattenSeq(seqs) = <<>>
    BY <1>1, <2>1 DEF FlattenSeq
  <2> DEFINE f == [i \in 0 .. 0 |-> <<>>]
  <2>3. <<>> \in Seq(T)
    OBVIOUS
  <2>4. f \in [0 .. 0 -> Seq(T)] /\ f[0] = <<>>
    BY <2>3
  <2>5. Flattens(f, T, seqs)
    BY <1>1, <2>4 DEF Flattens
  <2> QED
    BY <1>1, <2>2, <2>4, <2>5
<1>2. CASE Len(seqs) # 0
  <2> DEFINE V == Seq(T)
             Cat(s, t) == s \o t
             Flatten(f) == f = [i \in 1 .. Len(seqs) |-> IF i = 1 THEN seqs[i] ELSE Cat(f[i - 1], seqs[i])]
             flatten == CHOOSE f : Flatten(f)
  <2>1. PICK n \in Nat : n = Len(seqs) /\ n # 0
    BY <1>2
  <2>2. PICK e : /\ e = [i \in 1 .. n |-> seqs[i]] /\ e \in [1 .. n -> V]
                 /\ \A i \in 1 .. n : e[i] = seqs[i]
    BY <2>1
  <2>3. FlattenSeq(seqs) = flatten[n]
    BY <1>2, <2>1 DEF FlattenSeq
  <2>4. \A s, t \in V : Cat(s, t) \in V /\ Cat(<<>>, t) = t
    <3> SUFFICES ASSUME NEW s \in Seq(T), NEW t \in Seq(T)
                 PROVE  s \o t \in Seq(T) /\ <<>> \o t = t
      OBVIOUS
    <3> QED
      BY ConcatEmptySeq
  <2>5. <<>> \in V
    OBVIOUS
  <2>14. \A i \in 1 .. n, s \in V : Cat(s, e[i]) = s \o seqs[i]
    BY <2>2
  <2> HIDE DEF V, Cat
  <2>6. PICK f \in [0 .. n -> V] : f[0] = <<>> /\ \A i \in 1 .. n : f[i] = Cat(f[i - 1], e[i])
    <3> DEFINE G == [p \in V \X (1 .. n) |-> Cat(p[1], e[p[2]])]
    <3>1. G \in [V \X (1 .. n) -> V] /\ \A s \in V, i \in 1 .. n : G[<<s, i>>] = Cat(s, e[i])
      BY <2>2, <2>4
    <3> HIDE DEF G
    <3>2. PICK f \in [0 .. n -> V] : f[0] = <<>> /\ \A i \in 1 .. n : f[i] = G[<<f[i - 1], i>>]
      <4>1. n \in Nat
        BY <2>1
      <4>2. G \in Steps(V, n)
        BY <3>1 DEF Steps
      <4>3. \E f : Computes(f, n, V, <<>>, G)
        BY <2>5, <4>1, <4>2, Recursion
      <4> QED
        BY <4>3 DEF Computes
    <3>3. \A i \in 1 .. n : f[i - 1] \in V
      OBVIOUS
    <3> QED
      BY <3>1, <3>2, <3>3
  <2>15. f[1] = e[1]
    <3>1. f[1] = Cat(f[1 - 1], e[1]) /\ 1 - 1 = 0
      BY <2>1, <2>6
    <3>2. e[1] \in V
      BY <2>1, <2>2
    <3>3. f[1] = Cat(<<>>, e[1])
      BY <2>6, <3>1
    <3> QED
      BY <2>4, <3>2, <3>3
  <2>7. Flatten([i \in 1 .. n |-> f[i]])
    <3> DEFINE g == [i \in 1 .. n |-> f[i]]
    <3>2. \A i \in 1 .. n : g[i] = IF i = 1 THEN e[i] ELSE Cat(g[i - 1], e[i])
      BY <2>6, <2>15
    <3>3. g = [i \in 1 .. n |-> IF i = 1 THEN seqs[i] ELSE Cat(g[i - 1], seqs[i])]
      BY <2>2, <3>2
    <3> QED
      BY <2>1, <3>3
  <2>8. Flatten(flatten)
    BY <2>7, Zenon
  <2> HIDE DEF flatten
  <2>9. /\ flatten[1] = e[1]
        /\ \A i \in 2 .. n : flatten[i] = Cat(flatten[i - 1], e[i])
    <3>1. flatten = [i \in 1 .. n |-> IF i = 1 THEN seqs[i] ELSE Cat(flatten[i - 1], seqs[i])]
      BY <2>1, <2>8
    <3>2. \A i \in 1 .. n : flatten[i] = IF i = 1 THEN e[i] ELSE Cat(flatten[i - 1], e[i])
      BY <2>2, <3>1
    <3> HIDE DEF Flatten
    <3> QED
      BY <2>1, <3>2
  <2> HIDE DEF Flatten
  <2> DEFINE S == {i \in Nat : i = 0 \/ flatten[i] = f[i]}
  <2>10. ASSUME NEW i \in 1 .. n, i - 1 \in S PROVE i \in S
    <3>1. CASE i = 1
      BY <2>9, <2>15, <3>1
    <3>2. CASE i # 1
      <4>1. i \in 2 .. n /\ i - 1 # 0 /\ i \in 1 .. n
        BY <3>2
      <4>2. flatten[i - 1] = f[i - 1]
        BY <2>10, <4>1
      <4>3. flatten[i] = Cat(flatten[i - 1], e[i]) /\ f[i] = Cat(f[i - 1], e[i])
        BY <2>6, <2>9, <4>1
      <4> QED
        BY <4>2, <4>3
    <3> QED
      BY <3>1, <3>2
  <2>11. n \in S
    <3>1. 0 \in S /\ n \in 0 .. n
      BY <2>1
    <3> HIDE DEF S
    <3> QED
      BY <2>10, <3>1, UpTo
  <2>12. FlattenSeq(seqs) = f[n]
    BY <2>1, <2>3, <2>11
  <2>13. Flattens(f, T, seqs)
    <3>1. \A i \in 1 .. n : f[i - 1] \in V
      OBVIOUS
    <3>2. \A i \in 1 .. n : f[i] = f[i - 1] \o seqs[i]
      BY <2>6, <2>14, <3>1
    <3> QED
      BY <2>1, <2>6, <3>2 DEF Flattens, V
  <2> QED
    BY <2>1, <2>12, <2>13
<1> QED
  BY <1>1, <1>2

LEMMA FlattenIs ==
  ASSUME NEW T, NEW seqs \in Seq(Seq(T)), NEW g, Flattens(g, T, seqs)
  PROVE  FlattenSeq(seqs) = g[Len(seqs)]
<1>1. PICK f : Flattens(f, T, seqs) /\ FlattenSeq(seqs) = f[Len(seqs)]
  BY FlattenSteps
<1>2. PICK n \in Nat : n = Len(seqs)
  OBVIOUS
<1> DEFINE S == {i \in 0 .. n : f[i] = g[i]}
<1>3. 0 \in S
  BY <1>1, <1>2 DEF Flattens
<1>4. ASSUME NEW i \in 1 .. n, i - 1 \in S PROVE i \in S
  <2>1. f[i] = f[i - 1] \o seqs[i] /\ g[i] = g[i - 1] \o seqs[i]
    BY <1>1, <1>2 DEF Flattens
  <2>2. f[i - 1] = g[i - 1]
    BY <1>4
  <2>3. f[i] = g[i]
    BY <2>1, <2>2
  <2>4. i \in 0 .. n
    OBVIOUS
  <2> QED
    BY <2>3, <2>4
<1>5. n \in 0 .. n
  OBVIOUS
<1> HIDE DEF S
<1>6. n \in S
  BY <1>3, <1>4, <1>5, UpTo
<1> QED
  BY <1>1, <1>2, <1>6 DEF S

LEMMA FlattenType ==
  ASSUME NEW T, NEW seqs \in Seq(Seq(T))
  PROVE  FlattenSeq(seqs) \in Seq(T)
<1>1. PICK f : Flattens(f, T, seqs) /\ FlattenSeq(seqs) = f[Len(seqs)]
  BY FlattenSteps
<1>2. Len(seqs) \in 0 .. Len(seqs)
  OBVIOUS
<1> QED
  BY <1>1, <1>2 DEF Flattens

LEMMA Reassociate ==
  ASSUME NEW T
  PROVE  \A a, b, c \in Seq(T) : a \o (b \o c) = (a \o b) \o c
  BY ConcatAssociative

LEMMA FlattenConcat ==
  ASSUME NEW T, NEW s \in Seq(Seq(T)), NEW t \in Seq(Seq(T))
  PROVE  FlattenSeq(s \o t) = FlattenSeq(s) \o FlattenSeq(t)
<1>0. \A a, b, c \in Seq(T) : a \o (b \o c) = (a \o b) \o c
  BY Reassociate
<1>1. PICK f : Flattens(f, T, s) /\ FlattenSeq(s) = f[Len(s)]
  BY FlattenSteps
<1>2. PICK g : Flattens(g, T, t) /\ FlattenSeq(t) = g[Len(t)]
  BY FlattenSteps
<1>3. PICK m \in Nat, n \in Nat : m = Len(s) /\ n = Len(t)
  OBVIOUS
<1>4. PICK u : u = s \o t
  OBVIOUS
<1>5. /\ u \in Seq(Seq(T)) /\ Len(u) = m + n
      /\ \A i \in 1 .. m : u[i] = s[i]
      /\ \A i \in 1 .. n : u[m + i] = t[i]
  BY <1>3, <1>4
<1>6. /\ f \in [0 .. m -> Seq(T)] /\ f[0] = <<>> /\ \A i \in 1 .. m : f[i] = f[i - 1] \o s[i]
      /\ g \in [0 .. n -> Seq(T)] /\ g[0] = <<>> /\ \A i \in 1 .. n : g[i] = g[i - 1] \o t[i]
  BY <1>1, <1>2, <1>3 DEF Flattens
<1> DEFINE h == [i \in 0 .. m + n |-> IF i <= m THEN f[i] ELSE f[m] \o g[i - m]]
<1>7. f[m] \in Seq(T) /\ \A i \in 0 .. n : g[i] \in Seq(T) /\ f[m] \o g[i] \in Seq(T)
  <2>1. f[m] \in Seq(T) /\ \A i \in 0 .. n : g[i] \in Seq(T)
    BY <1>6
  <2>2. \A w, v \in Seq(T) : w \o v \in Seq(T)
    OBVIOUS
  <2> QED
    BY <2>1, <2>2
<1>8. h \in [0 .. m + n -> Seq(T)]
  <2>1. ASSUME NEW i \in 0 .. m + n PROVE h[i] \in Seq(T)
    <3>1. CASE i <= m
      BY <1>6, <3>1
    <3>2. CASE ~(i <= m)
      <4>1. i - m \in 0 .. n
        BY <3>2
      <4> QED
        BY <1>7, <3>2, <4>1
    <3> QED
      BY <3>1, <3>2
  <2> QED
    BY <2>1
<1>9. ASSUME NEW i \in 1 .. m + n PROVE h[i] = h[i - 1] \o u[i]
  <2>1. CASE i <= m
    <3>1. i \in 1 .. m /\ i \in 0 .. m + n /\ i - 1 \in 0 .. m + n /\ i - 1 <= m
      BY <2>1
    <3>2. h[i] = f[i] /\ h[i - 1] = f[i - 1]
      BY <3>1
    <3> QED
      BY <1>5, <1>6, <3>1, <3>2
  <2>2. CASE i > m
    <3>1. PICK k \in 1 .. n : i = m + k
      <4>1. i - m \in 1 .. n /\ i = m + (i - m)
        BY <2>2
      <4> QED
        BY <4>1
    <3>2. u[i] = t[k] /\ t[k] \in Seq(T) /\ g[k] = g[k - 1] \o t[k]
      <4>1. u[i] = t[k]
        BY <1>5, <3>1
      <4>2. t[k] \in Seq(T)
        BY <1>3
      <4>3. g[k] = g[k - 1] \o t[k]
        BY <1>6
      <4> QED
        BY <4>1, <4>2, <4>3
    <3>3. PICK x \in Seq(T), y \in Seq(T), z \in Seq(T) : x = f[m] /\ y = g[k - 1] /\ z = t[k]
      <4>1. k - 1 \in 0 .. n
        OBVIOUS
      <4> QED
        BY <1>7, <3>2, <4>1
    <3>4. h[i] = x \o g[k]
      <4>1. i \in 0 .. m + n /\ ~(i <= m) /\ i - m = k
        BY <2>2, <3>1
      <4> QED
        BY <3>3, <4>1
    <3>5. h[i - 1] = x \o y
      <4>1. CASE k = 1
        <5>1. i - 1 = m /\ k - 1 = 0 /\ i - 1 \in 0 .. m + n /\ i - 1 <= m
          BY <3>1, <4>1
        <5>2. x \o <<>> = x
          BY <3>3, ConcatEmptySeq
        <5>3. h[i - 1] = f[m]
          BY <5>1
        <5>4. y = <<>>
          BY <1>6, <3>3, <5>1
        <5> QED
          BY <3>3, <5>2, <5>3, <5>4
      <4>2. CASE k # 1
        <5>1. i - 1 \in 0 .. m + n /\ ~(i - 1 <= m) /\ (i - 1) - m = k - 1
          BY <3>1, <4>2
        <5> QED
          BY <3>3, <5>1
      <4> QED
        BY <4>1, <4>2
    <3>6. x \o (y \o z) = (x \o y) \o z
      BY <1>0, <3>3, Zenon
    <3> HIDE DEF h
    <3>7. g[k] = y \o z /\ u[i] = z
      BY <3>2, <3>3
    <3>8. h[i] = x \o (y \o z)
      BY <3>4, <3>7
    <3>9. h[i - 1] \o u[i] = (x \o y) \o z
      BY <3>5, <3>7
    <3> QED
      BY <3>6, <3>8, <3>9
  <2>3. i <= m \/ i > m
    OBVIOUS
  <2> QED
    BY <2>1, <2>2, <2>3, Zenon
<1>10. h[0] = <<>>
  BY <1>6
<1>11. h[m + n] = f[m] \o g[n]
  <2>1. CASE n = 0
    <3>1. f[m] \o <<>> = f[m]
      BY <1>7, ConcatEmptySeq
    <3>2. h[m + n] = f[m]
      BY <2>1
    <3> QED
      BY <1>6, <2>1, <3>1, <3>2
  <2>2. CASE n # 0
    <3>1. m + n \in 0 .. m + n /\ ~(m + n <= m) /\ (m + n) - m = n
      BY <2>2
    <3> QED
      BY <3>1
  <2> QED
    BY <2>1, <2>2
<1> HIDE DEF h
<1>12. Flattens(h, T, u)
  BY <1>5, <1>8, <1>9, <1>10 DEF Flattens
<1>13. FlattenSeq(u) = h[Len(u)]
  BY <1>5, <1>12, FlattenIs
<1> QED
  BY <1>1, <1>2, <1>3, <1>4, <1>5, <1>11, <1>13

LEMMA FlattenSmall ==
  ASSUME NEW T, NEW s \in Seq(T)
  PROVE  FlattenSeq(<<>>) = <<>> /\ FlattenSeq(<<s>>) = s
<1>1. FlattenSeq(<<>>) = <<>>
  <2>1. Len(<<>>) = 0
    OBVIOUS
  <2> QED
    BY <2>1 DEF FlattenSeq
<1>2. FlattenSeq(<<s>>) = s
  <2>1. PICK seqs : seqs = <<s>>
    OBVIOUS
  <2>2. seqs \in Seq(Seq(T)) /\ Len(seqs) = 1 /\ seqs[1] = s
    BY <2>1
  <2>3. PICK f : Flattens(f, T, seqs) /\ FlattenSeq(seqs) = f[1]
    BY <2>2, FlattenSteps
  <2>4. f[0] = <<>> /\ 1 \in 1 .. 1 /\ f[1] = f[1 - 1] \o seqs[1] /\ 1 - 1 = 0
    BY <2>2, <2>3 DEF Flattens
  <2>5. <<>> \o s = s
    BY ConcatEmptySeq
  <2> QED
    BY <2>1, <2>2, <2>3, <2>4, <2>5
<1> QED
  BY <1>1, <1>2

(* FlattenSeq is the concatenation of the sequences.                       *)
Flat(T, s, seqs) == s \in Seq(T) /\ ToSet(s) = UNION {ToSet(seqs[j]) : j \in DOMAIN seqs}

LEMMA Flattened ==
  ASSUME NEW T, NEW seqs \in Seq(Seq(T))
  PROVE  Flat(T, FlattenSeq(seqs), seqs)
<1>1. PICK f : Flattens(f, T, seqs) /\ FlattenSeq(seqs) = f[Len(seqs)]
  BY FlattenSteps
<1>2. PICK n \in Nat : n = Len(seqs)
  OBVIOUS
<1> DEFINE Elements(i) == UNION {ToSet(seqs[j]) : j \in 1 .. i}
<1>3. /\ f \in [0 .. n -> Seq(T)] /\ f[0] = <<>>
      /\ \A i \in 1 .. n : f[i] = f[i - 1] \o seqs[i] /\ seqs[i] \in Seq(T)
  <2>1. \A i \in 1 .. n : seqs[i] \in Seq(T)
    BY <1>2
  <2> QED
    BY <1>1, <1>2, <2>1, Zenon DEF Flattens
<1>4. Elements(0) = {} /\ ToSet(<<>>) = {}
  <2>1. 1 .. 0 = {} /\ DOMAIN <<>> = {}
    OBVIOUS
  <2> QED
    BY <2>1 DEF ToSet
<1>5. ASSUME NEW i \in 1 .. n PROVE Elements(i) = Elements(i - 1) \cup ToSet(seqs[i])
  <2>1. 1 .. i = (1 .. (i - 1)) \cup {i}
    OBVIOUS
  <2> QED
    BY <2>1
<1> HIDE DEF Elements
<1> DEFINE S == {i \in 0 .. n : ToSet(f[i]) = Elements(i)}
<1>6. 0 \in S
  <2>2. f[0] = <<>>
    BY <1>3
  <2>3. ToSet(f[0]) = Elements(0)
    BY <1>4, <2>2
  <2>1. 0 \in 0 .. n /\ ToSet(f[0]) = Elements(0)
    BY <2>3
  <2> QED
    BY <2>1
<1>7. ASSUME NEW i \in 1 .. n, i - 1 \in S PROVE i \in S
  <2>4. i - 1 \in 0 .. n /\ i \in 0 .. n
    OBVIOUS
  <2>1. f[i - 1] \in Seq(T) /\ seqs[i] \in Seq(T) /\ f[i] = f[i - 1] \o seqs[i]
    BY <1>3, <2>4
  <2>2. ToSet(f[i]) = ToSet(f[i - 1]) \cup ToSet(seqs[i])
    BY <2>1, ConcatElements
  <2>3. ToSet(f[i]) = Elements(i)
    BY <1>5, <1>7, <2>2
  <2> QED
    BY <2>3, <2>4
<1>8. n \in 0 .. n
  OBVIOUS
<1> HIDE DEF S
<1>9. n \in S
  BY <1>6, <1>7, <1>8, UpTo
<1>10. ToSet(FlattenSeq(seqs)) = Elements(n) /\ FlattenSeq(seqs) \in Seq(T)
  BY <1>1, <1>2, <1>3, <1>8, <1>9 DEF S
<1>11. DOMAIN seqs = 1 .. n
  BY <1>2
<1> QED
  BY <1>10, <1>11 DEF Elements, Flat

(* What a concatenation is, and when a sequence is one.                    *)
LEMMA Concatenates ==
  ASSUME NEW T, NEW s \in Seq(T), NEW t \in Seq(T)
  PROVE  /\ s \o t \in Seq(T) /\ Len(s \o t) = Len(s) + Len(t)
         /\ \A i \in 1 .. Len(s) : (s \o t)[i] = s[i]
         /\ \A i \in 1 .. Len(t) : (s \o t)[Len(s) + i] = t[i]
  OBVIOUS

LEMMA IsConcat ==
  ASSUME NEW T, NEW s \in Seq(T), NEW t \in Seq(T), NEW u \in Seq(T),
         Len(u) = Len(s) + Len(t),
         \A i \in 1 .. Len(s) : u[i] = s[i],
         \A i \in 1 .. Len(t) : u[Len(s) + i] = t[i]
  PROVE  u = s \o t
<1>1. PICK v : v = s \o t
  OBVIOUS
<1>2. /\ v \in Seq(T) /\ Len(v) = Len(s) + Len(t)
      /\ \A i \in 1 .. Len(s) : v[i] = s[i]
      /\ \A i \in 1 .. Len(t) : v[Len(s) + i] = t[i]
  BY <1>1, Concatenates
<1>3. ASSUME NEW i \in 1 .. Len(u) PROVE u[i] = v[i]
  <2>1. CASE i <= Len(s)
    <3>1. i \in 1 .. Len(s)
      BY <2>1
    <3> QED
      BY <1>2, <3>1
  <2>2. CASE i > Len(s)
    <3>1. PICK k \in 1 .. Len(t) : i = Len(s) + k
      <4>1. i - Len(s) \in 1 .. Len(t) /\ i = Len(s) + (i - Len(s))
        BY <2>2
      <4> QED
        BY <4>1
    <3> QED
      BY <1>2, <3>1
  <2>3. i <= Len(s) \/ i > Len(s)
    OBVIOUS
  <2> QED
    BY <2>1, <2>2, <2>3
<1>4. u = v
  BY <1>2, <1>3, SeqEqual
<1> QED
  BY <1>1, <1>4

LEMMA HeadAndTail ==
  ASSUME NEW T, NEW s \in Seq(T), s # <<>>
  PROVE  /\ Head(s) \in T /\ Tail(s) \in Seq(T) /\ s = <<Head(s)>> \o Tail(s)
         /\ Len(Tail(s)) = Len(s) - 1 /\ Head(s) = s[1]
         /\ \A i \in 1 .. Len(s) - 1 : Tail(s)[i] = s[i + 1]
  OBVIOUS

LEMMA AppendsOne ==
  ASSUME NEW T, NEW s \in Seq(T), NEW e \in T
  PROVE  Append(s, e) = s \o <<e>> /\ <<e>> \in Seq(T) /\ Append(s, e) \in Seq(T)
  OBVIOUS

(* Pieces of a sequence, and its first and its last elements.              *)
LEMMA Piece ==
  ASSUME NEW T, NEW s \in Seq(T), NEW i \in 1 .. Len(s) + 1, NEW j \in 0 .. Len(s)
  PROVE  /\ SubSeq(s, i, j) \in Seq(T)
         /\ Len(SubSeq(s, i, j)) = IF i <= j THEN (j - i) + 1 ELSE 0
         /\ \A k \in 1 .. (j - i) + 1 : SubSeq(s, i, j)[k] = s[(i + k) - 1]
<1>1. \A k \in i .. j : s[k] \in T
  OBVIOUS
<1> QED
  BY <1>1, SubSeqProperties

LEMMA PieceSame ==
  ASSUME NEW T, NEW s \in Seq(T), NEW c \in T, NEW i \in 1 .. Len(s) + 1, NEW j \in 0 .. Len(s)
  PROVE  SubSeq(s \o <<c>>, i, j) = SubSeq(s, i, j)
<1>1. PICK y : y = s \o <<c>>
  OBVIOUS
<1>2. y \in Seq(T) /\ Len(y) = Len(s) + 1 /\ \A k \in 1 .. Len(s) : y[k] = s[k]
  BY <1>1
<1>3. PICK u, v : u = SubSeq(y, i, j) /\ v = SubSeq(s, i, j)
  OBVIOUS
<1>4. i \in 1 .. Len(y) + 1 /\ j \in 0 .. Len(y)
  BY <1>2
<1>5. /\ u \in Seq(T) /\ Len(u) = IF i <= j THEN (j - i) + 1 ELSE 0
      /\ \A k \in 1 .. (j - i) + 1 : u[k] = y[(i + k) - 1]
  BY <1>2, <1>3, <1>4, Piece
<1>6. /\ v \in Seq(T) /\ Len(v) = IF i <= j THEN (j - i) + 1 ELSE 0
      /\ \A k \in 1 .. (j - i) + 1 : v[k] = s[(i + k) - 1]
  BY <1>3, Piece
<1>7. ASSUME NEW k \in 1 .. Len(u) PROVE u[k] = v[k]
  <2>1. k \in 1 .. (j - i) + 1 /\ (i + k) - 1 \in 1 .. Len(s)
    BY <1>5
  <2> QED
    BY <1>2, <1>5, <1>6, <2>1
<1>8. u = v
  BY <1>5, <1>6, <1>7, SeqEqual
<1> QED
  BY <1>1, <1>3, <1>8

LEMMA PieceGrown ==
  ASSUME NEW T, NEW s \in Seq(T), NEW c \in T, NEW i \in 1 .. Len(s) + 1
  PROVE  SubSeq(s \o <<c>>, i, Len(s) + 1) = SubSeq(s, i, Len(s)) \o <<c>>
<1>1. PICK y, n : y = s \o <<c>> /\ n = Len(s)
  OBVIOUS
<1>2. y \in Seq(T) /\ Len(y) = n + 1 /\ y[n + 1] = c /\ n \in Nat /\ \A k \in 1 .. n : y[k] = s[k]
  BY <1>1
<1>3. PICK u, v : u = SubSeq(y, i, n + 1) /\ v = SubSeq(s, i, n)
  OBVIOUS
<1>4. i \in 1 .. Len(y) + 1 /\ n + 1 \in 0 .. Len(y) /\ n \in 0 .. Len(s) /\ i \in 1 .. n + 1
  BY <1>1, <1>2
<1>5. /\ u \in Seq(T) /\ Len(u) = ((n + 1) - i) + 1
      /\ \A k \in 1 .. ((n + 1) - i) + 1 : u[k] = y[(i + k) - 1]
  BY <1>2, <1>3, <1>4, Piece
<1>6. /\ v \in Seq(T) /\ Len(v) = IF i <= n THEN (n - i) + 1 ELSE 0
      /\ \A k \in 1 .. (n - i) + 1 : v[k] = s[(i + k) - 1]
  BY <1>1, <1>3, <1>4, Piece
<1>7. Len(v) = (n + 1) - i /\ Len(u) = Len(v) + 1
  BY <1>2, <1>4, <1>5, <1>6
<1>8. ASSUME NEW k \in 1 .. Len(v) PROVE u[k] = v[k]
  <2>1. k \in 1 .. (n - i) + 1 /\ k \in 1 .. ((n + 1) - i) + 1 /\ (i + k) - 1 \in 1 .. n
    BY <1>2, <1>4, <1>7
  <2> QED
    BY <1>2, <1>5, <1>6, <2>1
<1>9. u[Len(v) + 1] = c
  <2>1. Len(v) + 1 \in 1 .. ((n + 1) - i) + 1 /\ (i + (Len(v) + 1)) - 1 = n + 1
    BY <1>2, <1>4, <1>7
  <2> QED
    BY <1>2, <1>5, <2>1
<1>10. u = v \o <<c>>
  <2>1. <<c>> \in Seq(T) /\ Len(<<c>>) = 1 /\ <<c>>[1] = c
    OBVIOUS
  <2>2. \A k \in 1 .. Len(<<c>>) : u[Len(v) + k] = <<c>>[k]
    BY <1>9, <2>1
  <2>3. Len(u) = Len(v) + Len(<<c>>)
    BY <1>7, <2>1
  <2> HIDE <1>7
  <2> QED
    BY <1>5, <1>6, <1>8, <2>1, <2>2, <2>3, IsConcat
<1> QED
  BY <1>1, <1>3, <1>10

LEMMA OneMore ==
  ASSUME NEW T, NEW s \in Seq(T), NEW e \in T
  PROVE  /\ s \o <<e>> \in Seq(T) /\ Len(s \o <<e>>) = Len(s) + 1 /\ (s \o <<e>>)[Len(s) + 1] = e
         /\ \A k \in 1 .. Len(s) : (s \o <<e>>)[k] = s[k]
  OBVIOUS

LEMMA FrontAndLast ==
  ASSUME NEW T, NEW s \in Seq(T), s # <<>>
  PROVE  /\ SubSeq(s, 1, Len(s) - 1) \in Seq(T)
         /\ s = SubSeq(s, 1, Len(s) - 1) \o <<s[Len(s)]>>
<1>1. PICK m \in Nat : m + 1 = Len(s) /\ m = Len(s) - 1
  <2>1. Len(s) - 1 \in Nat /\ (Len(s) - 1) + 1 = Len(s)
    OBVIOUS
  <2> QED
    BY <2>1
<1>2. m \in 0 .. Len(s) /\ 1 \in 1 .. Len(s) + 1
  BY <1>1
<1>3. PICK front, e : front = SubSeq(s, 1, m) /\ e = s[m + 1]
  OBVIOUS
<1>4. /\ front \in Seq(T) /\ Len(front) = IF 1 <= m THEN (m - 1) + 1 ELSE 0
      /\ \A k \in 1 .. (m - 1) + 1 : front[k] = s[(1 + k) - 1]
  BY <1>2, <1>3, Piece
<1>5. Len(front) = m /\ e \in T
  BY <1>1, <1>3, <1>4
<1>6. \A k \in 1 .. m : front[k] = s[k]
  <2>1. \A k \in 1 .. m : k \in 1 .. (m - 1) + 1 /\ (1 + k) - 1 = k
    OBVIOUS
  <2> QED
    BY <1>4, <2>1
<1>7. PICK t : t = front \o <<e>>
  OBVIOUS
<1>8. t \in Seq(T) /\ Len(t) = m + 1 /\ t[m + 1] = e /\ \A k \in 1 .. m : t[k] = front[k]
  BY <1>4, <1>5, <1>7, OneMore
<1>9. ASSUME NEW k \in 1 .. Len(t) PROVE t[k] = s[k]
  <2>1. k \in 1 .. m \/ k = m + 1
    BY <1>8
  <2> QED
    BY <1>3, <1>6, <1>8, <2>1
<1>10. t = s
  BY <1>1, <1>8, <1>9, SeqEqual
<1> QED
  BY <1>1, <1>3, <1>4, <1>7, <1>10

LEMMA Cancel ==
  ASSUME NEW T, NEW a \in Seq(T), NEW b \in Seq(T), NEW c \in T, a \o <<c>> = b \o <<c>>
  PROVE  a = b
<1>1. PICK s, t : s = a \o <<c>> /\ t = b \o <<c>>
  OBVIOUS
<1>2. /\ Len(s) = Len(a) + 1 /\ \A k \in 1 .. Len(a) : s[k] = a[k]
      /\ Len(t) = Len(b) + 1 /\ \A k \in 1 .. Len(b) : t[k] = b[k]
  BY <1>1
<1>3. Len(a) = Len(b) /\ \A k \in 1 .. Len(a) : a[k] = b[k]
  BY <1>1, <1>2
<1> QED
  BY <1>3, SeqEqual

LEMMA OneConcat ==
  ASSUME NEW l
  PROVE  <<l>> \o <<>> = <<l>> /\ <<>> \o <<l>> = <<l>>
<1>1. <<l>> \in Seq({l})
  OBVIOUS
<1> QED
  BY <1>1, ConcatEmptySeq

LEMMA ConcatMoves ==
  ASSUME NEW U, NEW a \in Seq(U), NEW b \in Seq(U), NEW x \in Seq(U)
  PROVE  a \o (x \o b) = (a \o x) \o b
  BY ConcatAssociative

(* What the elements of a sequence contribute, one after the other.        *)
Contributes(T, U) == [T -> Seq(U)]
Sift(s, g) == FlattenSeq([i \in DOMAIN s |-> g[s[i]]])

LEMMA SiftConcat ==
  ASSUME NEW T, NEW U, NEW g \in Contributes(T, U), NEW s \in Seq(T), NEW t \in Seq(T)
  PROVE  Sift(s \o t, g) = Sift(s, g) \o Sift(t, g)
<1> DEFINE Image(r) == [i \in DOMAIN r |-> g[r[i]]]
<1>1. ASSUME NEW r \in Seq(T)
      PROVE  /\ Image(r) \in Seq(Seq(U)) /\ Len(Image(r)) = Len(r)
             /\ \A i \in 1 .. Len(r) : Image(r)[i] = g[r[i]]
  <2>1. DOMAIN r = 1 .. Len(r) /\ \A i \in 1 .. Len(r) : r[i] \in T
    OBVIOUS
  <2>2. \A i \in 1 .. Len(r) : g[r[i]] \in Seq(U)
    BY <2>1 DEF Contributes
  <2> QED
    BY <2>1, <2>2
<1>2. PICK u : u = s \o t
  OBVIOUS
<1>3. /\ u \in Seq(T) /\ Len(u) = Len(s) + Len(t)
      /\ \A i \in 1 .. Len(s) : u[i] = s[i]
      /\ \A i \in 1 .. Len(t) : u[Len(s) + i] = t[i]
  BY <1>2, Concatenates
<1>4. PICK a \in Seq(Seq(U)), b \in Seq(Seq(U)), c \in Seq(Seq(U)) :
        a = Image(s) /\ b = Image(t) /\ c = Image(u)
  BY <1>1, <1>3
<1>5. /\ Len(a) = Len(s) /\ Len(b) = Len(t) /\ Len(c) = Len(s) + Len(t)
      /\ \A i \in 1 .. Len(s) : a[i] = g[s[i]] /\ c[i] = g[u[i]]
      /\ \A i \in 1 .. Len(t) : b[i] = g[t[i]] /\ c[Len(s) + i] = g[u[Len(s) + i]]
  <2>1. \A i \in 1 .. Len(s) : i \in 1 .. Len(u)
    BY <1>3
  <2>2. \A i \in 1 .. Len(t) : Len(s) + i \in 1 .. Len(u)
    BY <1>3
  <2> HIDE DEF Image
  <2> QED
    BY <1>1, <1>3, <1>4, <2>1, <2>2
<1> HIDE DEF Image
<1>6. c = a \o b
  <2>1. Len(c) = Len(a) + Len(b)
    BY <1>5
  <2>2. \A i \in 1 .. Len(a) : c[i] = a[i]
    <3>1. ASSUME NEW i \in 1 .. Len(s) PROVE c[i] = a[i]
      <4>1. u[i] = s[i]
        BY <1>3
      <4>2. a[i] = g[s[i]] /\ c[i] = g[u[i]]
        BY <1>5
      <4> QED
        BY <4>1, <4>2
    <3> QED
      BY <1>5, <3>1
  <2>3. \A i \in 1 .. Len(b) : c[Len(a) + i] = b[i]
    <3>1. ASSUME NEW i \in 1 .. Len(t) PROVE c[Len(s) + i] = b[i]
      <4>1. u[Len(s) + i] = t[i]
        BY <1>3
      <4>2. b[i] = g[t[i]] /\ c[Len(s) + i] = g[u[Len(s) + i]]
        BY <1>5
      <4> QED
        BY <4>1, <4>2
    <3> QED
      BY <1>5, <3>1
  <2> QED
    BY <2>1, <2>2, <2>3, IsConcat
<1>7. FlattenSeq(a \o b) = FlattenSeq(a) \o FlattenSeq(b)
  BY FlattenConcat
<1> QED
  BY <1>2, <1>4, <1>6, <1>7 DEF Sift, Image

LEMMA SiftSmall ==
  ASSUME NEW T, NEW U, NEW g \in Contributes(T, U), NEW e \in T
  PROVE  Sift(<<>>, g) = <<>> /\ Sift(<<e>>, g) = g[e]
<1>1. Sift(<<>>, g) = <<>>
  <2>1. [i \in DOMAIN <<>> |-> g[<<>>[i]]] = <<>>
    OBVIOUS
  <2>2. <<>> \in Seq(U)
    OBVIOUS
  <2>3. FlattenSeq(<<>>) = <<>>
    BY <2>2, FlattenSmall
  <2> QED
    BY <2>1, <2>3 DEF Sift
<1>2. Sift(<<e>>, g) = g[e]
  <2>1. PICK s : s = <<e>>
    OBVIOUS
  <2>2. PICK x \in Seq(U) : x = g[e]
    BY DEF Contributes
  <2>3. DOMAIN s = 1 .. 1 /\ s[1] = e
    BY <2>1
  <2>4. [i \in DOMAIN s |-> g[s[i]]] = [i \in 1 .. 1 |-> x]
    BY <2>2, <2>3
  <2>5. [i \in 1 .. 1 |-> x] = <<x>>
    OBVIOUS
  <2>6. FlattenSeq(<<x>>) = x
    BY FlattenSmall
  <2> QED
    BY <2>1, <2>2, <2>4, <2>5, <2>6 DEF Sift
<1> QED
  BY <1>1, <1>2

LEMMA SiftNone ==
  ASSUME NEW g
  PROVE  Sift(<<>>, g) = <<>>
<1>1. [i \in DOMAIN <<>> |-> g[<<>>[i]]] = <<>>
  OBVIOUS
<1>2. FlattenSeq(<<>>) = <<>>
  BY DEF FlattenSeq
<1> QED
  BY <1>1, <1>2 DEF Sift

LEMMA SiftType ==
  ASSUME NEW T, NEW U, NEW g \in Contributes(T, U), NEW s \in Seq(T)
  PROVE  Sift(s, g) \in Seq(U)
<1>1. DOMAIN s = 1 .. Len(s) /\ \A i \in 1 .. Len(s) : g[s[i]] \in Seq(U)
  BY DEF Contributes
<1>2. PICK a : a = [i \in DOMAIN s |-> g[s[i]]]
  OBVIOUS
<1>3. a \in Seq(Seq(U))
  BY <1>1, <1>2
<1> QED
  BY <1>2, <1>3, FlattenType DEF Sift

LEMMA SiftAppend ==
  ASSUME NEW T, NEW U, NEW g \in Contributes(T, U), NEW s \in Seq(T), NEW e \in T
  PROVE  Sift(Append(s, e), g) = Sift(s, g) \o g[e]
<1>1. Append(s, e) = s \o <<e>> /\ <<e>> \in Seq(T)
  BY AppendsOne
<1>2. Sift(s \o <<e>>, g) = Sift(s, g) \o Sift(<<e>>, g)
  BY <1>1, SiftConcat
<1>3. Sift(<<e>>, g) = g[e]
  BY SiftSmall
<1> QED
  BY <1>1, <1>2, <1>3

LEMMA SiftHead ==
  ASSUME NEW T, NEW U, NEW g \in Contributes(T, U), NEW s \in Seq(T), s # <<>>
  PROVE  Sift(s, g) = g[Head(s)] \o Sift(Tail(s), g)
<1>1. PICK e, t : e = Head(s) /\ t = Tail(s)
  OBVIOUS
<1>2. e \in T /\ t \in Seq(T) /\ s = <<e>> \o t /\ <<e>> \in Seq(T)
  BY <1>1, HeadAndTail, AppendsOne
<1>3. PICK f : f = <<e>>
  OBVIOUS
<1>4. f \in Seq(T) /\ s = f \o t
  BY <1>2, <1>3
<1>5. Sift(f \o t, g) = Sift(f, g) \o Sift(t, g)
  BY <1>2, <1>4, SiftConcat
<1>6. Sift(f, g) = g[e]
  BY <1>2, <1>3, SiftSmall
<1> QED
  BY <1>1, <1>4, <1>5, <1>6

(* The same, with a concatenation that the provers do not look into.       *)
a ++ b == a \o b

LEMMA JoinType ==
  ASSUME NEW U, NEW a \in Seq(U), NEW b \in Seq(U)
  PROVE  a ++ b \in Seq(U)
  BY Concatenates DEF ++

LEMMA JoinNone ==
  ASSUME NEW U, NEW a \in Seq(U)
  PROVE  a ++ <<>> = a /\ <<>> ++ a = a
  BY ConcatEmptySeq DEF ++

LEMMA JoinMoves ==
  ASSUME NEW U, NEW a \in Seq(U), NEW b \in Seq(U), NEW x \in Seq(U)
  PROVE  (a ++ x) ++ b = a ++ (x ++ b)
  BY ConcatAssociative DEF ++

LEMMA SiftJoin ==
  ASSUME NEW T, NEW U, NEW g \in Contributes(T, U), NEW s \in Seq(T), NEW t \in Seq(T)
  PROVE  Sift(s \o t, g) = Sift(s, g) ++ Sift(t, g)
  BY SiftConcat DEF ++

LEMMA SiftJoinOne ==
  ASSUME NEW T, NEW U, NEW g \in Contributes(T, U), NEW s \in Seq(T), NEW e \in T
  PROVE  Sift(Append(s, e), g) = Sift(s, g) ++ g[e]
  BY SiftAppend DEF ++

LEMMA SiftJoinHead ==
  ASSUME NEW T, NEW U, NEW g \in Contributes(T, U), NEW s \in Seq(T), s # <<>>
  PROVE  Sift(s, g) = g[Head(s)] ++ Sift(Tail(s), g)
  BY SiftHead DEF ++

-----------------------------------------------------------------------------
(* A set of numbers has a smallest one, and with no number above n a       *)
(* greatest one.                                                           *)
LEMMA Smallest ==
  ASSUME NEW S \in SUBSET Nat, S # {}
  PROVE  Min(S) \in S /\ \A x \in S : Min(S) <= x
<1>1. \E m \in S : \A x \in S : m <= x
  BY Least
<1> QED
  BY <1>1 DEF Min

LEMMA SmallestIs ==
  ASSUME NEW S \in SUBSET Nat, NEW k \in S, \A x \in S : k <= x
  PROVE  Min(S) = k
<1>1. Min(S) \in S /\ \A x \in S : Min(S) <= x
  BY Smallest
<1>2. Min(S) \in Nat /\ k \in Nat
  BY <1>1
<1>3. Min(S) <= k /\ k <= Min(S)
  BY <1>1
<1> QED
  BY <1>2, <1>3

LEMMA Largest ==
  ASSUME NEW n \in Nat, NEW S \in SUBSET (0 .. n), S # {}
  PROVE  Max(S) \in S /\ \A x \in S : Max(S) >= x
<1> DEFINE T == {t \in 0 .. n : n - t \in S}
<1>1. T \in SUBSET Nat /\ T # {}
  <2>1. PICK x \in S : x \in 0 .. n
    OBVIOUS
  <2>2. n - x \in 0 .. n /\ n - (n - x) = x
    BY <2>1
  <2>3. n - x \in T
    BY <2>2
  <2>4. T \in SUBSET Nat
    OBVIOUS
  <2> HIDE DEF T
  <2> QED
    BY <2>3, <2>4
<1>2. PICK t \in T : \A u \in T : t <= u
  <2> HIDE DEF T
  <2> QED
    BY <1>1, Least
<1>3. PICK x \in S : x = n - t
  BY <1>2
<1>4. \A y \in S : x >= y
  <2> TAKE y \in S
  <2>1. y \in 0 .. n /\ n - y \in 0 .. n /\ n - (n - y) = y
    OBVIOUS
  <2>2. t <= n - y
    BY <1>2, <2>1
  <2> QED
    BY <1>2, <1>3, <2>1, <2>2
<1> QED
  BY <1>4 DEF Max

LEMMA LargestIs ==
  ASSUME NEW n \in Nat, NEW S \in SUBSET (0 .. n), NEW k \in S, \A x \in S : k >= x
  PROVE  Max(S) = k
<1>1. Max(S) \in S /\ \A x \in S : Max(S) >= x
  BY Largest
<1>2. Max(S) \in 0 .. n /\ k \in 0 .. n
  BY <1>1
<1>3. Max(S) >= k /\ k >= Max(S)
  BY <1>1
<1> QED
  BY <1>2, <1>3

LEMMA Greatest ==
  ASSUME NEW n \in Nat, NEW S \in SUBSET (1 .. n), S # {}
  PROVE  Max(S) \in S /\ \A x \in S : Max(S) >= x
<1>1. S \in SUBSET (0 .. n)
  OBVIOUS
<1> QED
  BY <1>1, Largest

LEMMA GreatestIs ==
  ASSUME NEW n \in Nat, NEW S \in SUBSET (1 .. n), NEW k \in S, \A x \in S : k >= x
  PROVE  Max(S) = k
<1>1. Max(S) \in S /\ \A x \in S : Max(S) >= x
  BY Greatest
<1>2. Max(S) \in 1 .. n /\ k \in 1 .. n
  BY <1>1
<1>3. Max(S) >= k /\ k >= Max(S)
  BY <1>1
<1> QED
  BY <1>2, <1>3

(* What FoldLeft computes: a function of the set of places that it has     *)
(* come to, which exists for every step G of it.                           *)
Folds(f, n, base, G) ==
  f = [S \in SUBSET (1 .. n) |-> IF S = {} THEN base ELSE G[<<f[S \ {Max(S)}], Max(S)>>]]

LEMMA Fold ==
  ASSUME NEW n \in Nat, NEW V, NEW base \in V, NEW G \in Steps(V, n)
  PROVE  \E f \in [SUBSET (1 .. n) -> V] : Folds(f, n, base, G)
<1> DEFINE Q == {k \in 0 .. n : \E f \in [SUBSET (1 .. k) -> V] : Folds(f, k, base, G)}
<1>1. 0 \in Q
  <2> DEFINE f == [S \in SUBSET (1 .. 0) |-> base]
  <2>1. SUBSET (1 .. 0) = {{}}
    OBVIOUS
  <2>2. f = [S \in SUBSET (1 .. 0) |-> IF S = {} THEN base ELSE G[<<f[S \ {Max(S)}], Max(S)>>]]
    BY <2>1
  <2>3. f \in [SUBSET (1 .. 0) -> V] /\ 0 \in 0 .. n
    OBVIOUS
  <2> QED
    BY <2>2, <2>3 DEF Folds
<1>2. ASSUME NEW k \in 1 .. n, k - 1 \in Q PROVE k \in Q
  <2>1. PICK f \in [SUBSET (1 .. (k - 1)) -> V] : Folds(f, k - 1, base, G)
    BY <1>2
  <2> DEFINE g == [S \in SUBSET (1 .. k) |-> IF k \in S THEN G[<<f[S \ {k}], k>>] ELSE f[S]]
  <2>2. ASSUME NEW S \in SUBSET (1 .. k), k \in S
        PROVE  /\ S \ {k} \in SUBSET (1 .. (k - 1)) /\ Max(S) = k
               /\ g[S] = G[<<g[S \ {Max(S)}], Max(S)>>] /\ g[S] \in V
    <3>1. S \ {k} \in SUBSET (1 .. (k - 1)) /\ S \ {k} \in SUBSET (1 .. k) /\ k \notin S \ {k}
      OBVIOUS
    <3>2. Max(S) = k
      <4>1. k \in Nat /\ \A x \in S : k >= x
        OBVIOUS
      <4> QED
        BY <2>2, <4>1, GreatestIs
    <3>3. g[S \ {k}] = f[S \ {k}] /\ g[S] = G[<<f[S \ {k}], k>>]
      BY <2>2, <3>1
    <3>4. <<f[S \ {k}], k>> \in V \X (1 .. n)
      BY <2>1, <3>1
    <3>5. G[<<f[S \ {k}], k>>] \in V
      BY <3>4 DEF Steps
    <3> QED
      BY <3>1, <3>2, <3>3, <3>5
  <2>3. ASSUME NEW S \in SUBSET (1 .. k), k \notin S
        PROVE  /\ g[S] \in V
               /\ g[S] = IF S = {} THEN base ELSE G[<<g[S \ {Max(S)}], Max(S)>>]
    <3>1. S \in SUBSET (1 .. (k - 1)) /\ S \ {Max(S)} \in SUBSET (1 .. (k - 1))
      <4>1. \A x \in S : x \in 1 .. (k - 1)
        BY <2>3
      <4> QED
        BY <4>1
    <3>2. g[S] = f[S] /\ g[S \ {Max(S)}] = f[S \ {Max(S)}]
      BY <2>3
    <3>3. f[S] = IF S = {} THEN base ELSE G[<<f[S \ {Max(S)}], Max(S)>>]
      BY <2>1, <3>1 DEF Folds
    <3>4. f[S] \in V
      BY <2>1, <3>1
    <3> QED
      BY <3>2, <3>3, <3>4
  <2> HIDE DEF g
  <2>4. \A S \in SUBSET (1 .. k) : /\ g[S] \in V
                                   /\ g[S] = IF S = {} THEN base ELSE G[<<g[S \ {Max(S)}], Max(S)>>]
    BY <2>2, <2>3
  <2>5. g = [S \in SUBSET (1 .. k) |-> g[S]]
    BY DEF g
  <2>6. g \in [SUBSET (1 .. k) -> V]
    BY <2>4, <2>5
  <2>7. Folds(g, k, base, G)
    BY <2>4, <2>5 DEF Folds
  <2> QED
    BY <2>6, <2>7
<1>3. n \in Q
  <2> HIDE DEF Q
  <2>1. n \in 0 .. n
    OBVIOUS
  <2> QED
    BY <1>1, <1>2, <2>1, UpTo
<1> QED
  BY <1>3

(* SetToSeq lists the elements of a finite set.                            *)
LEMMA SetListed ==
  ASSUME NEW S, IsFiniteSet(S)
  PROVE  /\ SetToSeq(S) \in Seq(S)
         /\ Len(SetToSeq(S)) = Cardinality(S)
         /\ ToSet(SetToSeq(S)) = S
<1>1. Cardinality(S) \in Nat /\ ExistsBijection(1 .. Cardinality(S), S)
  BY FS_CardinalityType
<1>2. PICK f \in Bijection(1 .. Cardinality(S), S) : TRUE
  BY <1>1 DEF ExistsBijection
<1>3. f \in [1 .. Cardinality(S) -> S] /\ IsInjective(f)
  BY <1>2 DEF Bijection, Injection
<1>4. SetToSeq(S) \in [1 .. Cardinality(S) -> S] /\ IsInjective(SetToSeq(S))
  BY <1>3 DEF SetToSeq
<1> DEFINE s == SetToSeq(S)
<1> HIDE DEF s
<1>5. s \in Seq(S) /\ Len(s) = Cardinality(S) /\ DOMAIN s = 1 .. Cardinality(S)
  BY <1>1, <1>4 DEF s
<1>6. s \in Injection(1 .. Cardinality(S), S)
  BY <1>4 DEF Injection, s
<1>7. Cardinality(1 .. Cardinality(S)) = Cardinality(S) /\ IsFiniteSet(1 .. Cardinality(S))
  BY <1>1, FS_Interval
<1>8. s \in Surjection(1 .. Cardinality(S), S)
  BY <1>6, <1>7, FS_Injection
<1>9. ToSet(s) = S
  BY <1>5, <1>8 DEF Surjection, ToSet
<1> QED
  BY <1>5, <1>9 DEF s

(* A sequence is the piece of it from its first to its last element.       *)
LEMMA WholePiece ==
  ASSUME NEW T, NEW s \in Seq(T)
  PROVE  SubSeq(s, 1, Len(s)) = s
<1>1. PICK t : t = SubSeq(s, 1, Len(s))
  OBVIOUS
<1>2. PICK n \in Nat : n = Len(s)
  OBVIOUS
<1>3. 1 \in 1 .. n + 1 /\ n \in 0 .. n
  BY <1>2
<1>4. /\ t \in Seq(T) /\ Len(t) = IF 1 <= n THEN (n - 1) + 1 ELSE 0
      /\ \A k \in 1 .. (n - 1) + 1 : t[k] = s[(1 + k) - 1]
  BY <1>1, <1>2, <1>3, Piece
<1>5. (n - 1) + 1 = n
  BY <1>2
<1>6. Len(t) = n
  BY <1>2, <1>4, <1>5
<1>7. ASSUME NEW k \in 1 .. n PROVE t[k] = s[k]
  <2>1. (1 + k) - 1 = k
    BY <1>7
  <2>2. t[k] = s[(1 + k) - 1]
    BY <1>4, <1>5
  <2> QED
    BY <2>1, <2>2
<1>8. t \in Seq(T)
  BY <1>4
<1>9. t = s
  BY <1>2, <1>6, <1>7, <1>8, SeqEqual
<1> QED
  BY <1>1, <1>9

(* Where the sequences of a concatenation lie in it: sequence i behind     *)
(* o[i - 1].                                                               *)
Laid(o, w, s) ==
  /\ o \in [0 .. Len(w) -> Nat] /\ o[0] = 0 /\ o[Len(w)] = Len(s)
  /\ \A i \in 1 .. Len(w) :
       /\ o[i] = o[i - 1] + Len(w[i]) /\ o[i] <= Len(s)
       /\ \A m \in 1 .. Len(w[i]) : s[o[i - 1] + m] = w[i][m]
  /\ \A k \in 1 .. Len(s) : \E i \in 1 .. Len(w) : \E m \in 1 .. Len(w[i]) : k = o[i - 1] + m

LEMMA LaidOut ==
  ASSUME NEW T, NEW w \in Seq(Seq(T))
  PROVE  \E o : Laid(o, w, FlattenSeq(w))
<1>1. PICK f : Flattens(f, T, w) /\ FlattenSeq(w) = f[Len(w)]
  BY FlattenSteps
<1>2. PICK n \in Nat : n = Len(w)
  OBVIOUS
<1>3. /\ f \in [0 .. n -> Seq(T)] /\ f[0] = <<>>
      /\ \A i \in 1 .. n : f[i] = f[i - 1] \o w[i] /\ w[i] \in Seq(T)
  <2>1. \A i \in 1 .. n : w[i] \in Seq(T)
    BY <1>2
  <2>2. /\ f \in [0 .. n -> Seq(T)] /\ f[0] = <<>>
        /\ \A i \in 1 .. n : f[i] = f[i - 1] \o w[i]
    BY <1>1, <1>2 DEF Flattens
  <2> QED
    BY <2>1, <2>2
<1>4. PICK o \in [0 .. n -> Nat] : \A i \in 0 .. n : o[i] = Len(f[i])
  <2>1. \A i \in 0 .. n : Len(f[i]) \in Nat
    BY <1>3
  <2>2. [i \in 0 .. n |-> Len(f[i])] \in [0 .. n -> Nat]
    BY <2>1
  <2> QED
    BY <2>2
<1>5. ASSUME NEW i \in 1 .. n
      PROVE  /\ f[i - 1] \in Seq(T) /\ w[i] \in Seq(T) /\ f[i] \in Seq(T)
             /\ o[i - 1] \in Nat /\ o[i] \in Nat /\ Len(w[i]) \in Nat
             /\ o[i] = o[i - 1] + Len(w[i])
             /\ \A k \in 1 .. o[i - 1] : f[i][k] = f[i - 1][k]
             /\ \A m \in 1 .. Len(w[i]) : f[i][o[i - 1] + m] = w[i][m]
  <2>1. i - 1 \in 0 .. n /\ i \in 0 .. n
    OBVIOUS
  <2>2. PICK a \in Seq(T), b \in Seq(T) : a = f[i - 1] /\ b = w[i] /\ f[i] = a \o b
    BY <1>3, <2>1
  <2>3. /\ a \o b \in Seq(T) /\ Len(a \o b) = Len(a) + Len(b)
        /\ \A k \in 1 .. Len(a) : (a \o b)[k] = a[k]
        /\ \A m \in 1 .. Len(b) : (a \o b)[Len(a) + m] = b[m]
    BY Concatenates
  <2>4. o[i - 1] = Len(a) /\ o[i] = Len(f[i])
    BY <1>4, <2>1, <2>2
  <2>5. Len(a) \in Nat /\ Len(b) \in Nat
    OBVIOUS
  <2>6. o[i] = Len(a) + Len(b)
    BY <2>2, <2>3, <2>4
  <2>7. f[i - 1] \in Seq(T) /\ w[i] \in Seq(T) /\ f[i] \in Seq(T)
    BY <2>2, <2>3
  <2>8. /\ \A k \in 1 .. o[i - 1] : f[i][k] = f[i - 1][k]
        /\ \A m \in 1 .. Len(w[i]) : f[i][o[i - 1] + m] = w[i][m]
    BY <2>2, <2>3, <2>4
  <2>9. o[i - 1] \in Nat /\ o[i] \in Nat /\ Len(w[i]) \in Nat /\ o[i] = o[i - 1] + Len(w[i])
    <3>1. Len(w[i]) = Len(b)
      BY <2>2
    <3>2. o[i] = o[i - 1] + Len(w[i])
      BY <2>4, <2>6, <3>1
    <3>3. o[i - 1] \in Nat /\ o[i] \in Nat
      BY <1>4, <2>1
    <3> QED
      BY <2>5, <3>1, <3>2, <3>3
  <2> QED
    BY <2>7, <2>8, <2>9
<1> DEFINE Lie(j) == /\ \A i \in 1 .. j : /\ o[i] <= o[j]
                                         /\ \A m \in 1 .. Len(w[i]) : f[j][o[i - 1] + m] = w[i][m]
                     /\ \A k \in 1 .. o[j] : \E i \in 1 .. j : \E m \in 1 .. Len(w[i]) : k = o[i - 1] + m
           S == {j \in 0 .. n : Lie(j)}
<1>6. 0 \in S
  <2>1. o[0] = 0
    <3>1. 0 \in 0 .. n
      OBVIOUS
    <3> QED
      BY <1>3, <1>4, <3>1
  <2>2. Lie(0) /\ 0 \in 0 .. n
    BY <2>1
  <2> QED
    BY <2>2
<1>7. ASSUME NEW j \in 1 .. n, j - 1 \in S PROVE j \in S
  <2>1. Lie(j - 1)
    BY <1>7
  <2>2. /\ o[j - 1] \in Nat /\ o[j] \in Nat /\ Len(w[j]) \in Nat /\ o[j] = o[j - 1] + Len(w[j])
        /\ \A k \in 1 .. o[j - 1] : f[j][k] = f[j - 1][k]
        /\ \A m \in 1 .. Len(w[j]) : f[j][o[j - 1] + m] = w[j][m]
    BY <1>5
  <2>3. ASSUME NEW i \in 1 .. j
        PROVE  o[i] <= o[j] /\ \A m \in 1 .. Len(w[i]) : f[j][o[i - 1] + m] = w[i][m]
    <3>1. CASE i = j
      BY <2>2, <3>1
    <3>2. CASE i # j
      <4>1. i \in 1 .. j - 1 /\ i \in 1 .. n
        BY <3>2
      <4>2. o[i] <= o[j - 1] /\ \A m \in 1 .. Len(w[i]) : f[j - 1][o[i - 1] + m] = w[i][m]
        BY <2>1, <4>1
      <4>3. o[i - 1] \in Nat /\ o[i] \in Nat /\ Len(w[i]) \in Nat /\ o[i] = o[i - 1] + Len(w[i])
        BY <1>5, <4>1
      <4>4. ASSUME NEW m \in 1 .. Len(w[i]) PROVE f[j][o[i - 1] + m] = w[i][m]
        <5>1. o[i - 1] + m \in 1 .. o[j - 1]
          <6>1. PICK a \in Nat, b \in Nat, e \in Nat, z \in Nat :
                  a = o[i - 1] /\ b = o[i] /\ e = Len(w[i]) /\ z = o[j - 1]
            BY <2>2, <4>3
          <6>2. b = a + e /\ b <= z /\ m \in 1 .. e
            BY <4>2, <4>3, <6>1
          <6>3. a + m \in 1 .. z
            BY <6>2
          <6> QED
            BY <6>1, <6>3
        <5> QED
          BY <2>2, <4>2, <5>1
      <4>5. o[i] <= o[j]
        <5>1. PICK a \in Nat, b \in Nat, z \in Nat, e \in Nat :
                a = o[i] /\ b = o[j] /\ z = o[j - 1] /\ e = Len(w[j])
          BY <2>2, <4>3
        <5>2. a <= z /\ b = z + e
          BY <2>2, <4>2, <5>1
        <5>3. a <= b
          BY <5>2
        <5> QED
          BY <5>1, <5>3
      <4> QED
        BY <4>4, <4>5
    <3> QED
      BY <3>1, <3>2
  <2>4. ASSUME NEW k \in 1 .. o[j] PROVE \E i \in 1 .. j : \E m \in 1 .. Len(w[i]) : k = o[i - 1] + m
    <3>1. CASE k <= o[j - 1]
      <4>1. k \in 1 .. o[j - 1]
        BY <2>2, <3>1
      <4>2. PICK i \in 1 .. j - 1 : \E m \in 1 .. Len(w[i]) : k = o[i - 1] + m
        BY <2>1, <4>1
      <4>3. i \in 1 .. j
        OBVIOUS
      <4> QED
        BY <4>2, <4>3
    <3>2. CASE k > o[j - 1]
      <4>1. PICK m \in 1 .. Len(w[j]) : k = o[j - 1] + m
        <5>1. PICK a \in Nat, b \in Nat, e \in Nat : a = o[j - 1] /\ b = o[j] /\ e = Len(w[j])
          BY <2>2
        <5>2. b = a + e /\ k > a /\ k \in 1 .. b
          BY <2>2, <3>2, <5>1
        <5>3. k - a \in 1 .. e /\ k = a + (k - a)
          BY <5>2
        <5> QED
          BY <5>1, <5>3
      <4> QED
        BY <4>1
    <3> QED
      BY <2>2, <3>1, <3>2
  <2>5. Lie(j)
    BY <2>3, <2>4
  <2> QED
    BY <2>5
<1>8. Lie(n)
  <2> HIDE DEF Lie
  <2>1. n \in S
    <3>1. n \in 0 .. n
      OBVIOUS
    <3> HIDE DEF S
    <3> QED
      BY <1>6, <1>7, <3>1, UpTo
  <2> QED
    BY <2>1
<1>9. PICK s \in Seq(T) : s = FlattenSeq(w) /\ s = f[n] /\ o[n] = Len(s)
  BY <1>1, <1>2, <1>3, <1>4
<1>10. o[0] = 0
  <2>1. 0 \in 0 .. n
    OBVIOUS
  <2> QED
    BY <1>3, <1>4, <2>1
<1> HIDE DEF S
<1>11. \A i \in 1 .. n :
         /\ o[i] = o[i - 1] + Len(w[i]) /\ o[i] <= Len(s)
         /\ \A m \in 1 .. Len(w[i]) : s[o[i - 1] + m] = w[i][m]
  BY <1>5, <1>8, <1>9
<1>12. \A k \in 1 .. Len(s) : \E i \in 1 .. n : \E m \in 1 .. Len(w[i]) : k = o[i - 1] + m
  BY <1>8, <1>9
<1>13. Laid(o, w, s)
  BY <1>2, <1>9, <1>10, <1>11, <1>12 DEF Laid
<1> QED
  BY <1>9, <1>13

(* A sequence each element of which is written as it is or behind an       *)
(* escape, and the places of it that X says are escaped.                   *)
Codes(w, v, esc, code) ==
  w = [i \in DOMAIN v |-> IF v[i] \in DOMAIN code THEN <<esc, code[v[i]]>> ELSE <<v[i]>>]
Escapes(X, s, esc) ==
  \A k \in 1 .. Len(s) + 1 : k \in X <=> (k > 1 /\ s[k - 1] = esc /\ k - 1 \notin X)
ReadAt(v, s, X, esc, code, o, i) ==
  /\ o[i - 1] + 1 \notin X
  /\ v[i] \notin DOMAIN code =>
       o[i] = o[i - 1] + 1 /\ s[o[i - 1] + 1] = v[i] /\ v[i] # esc
  /\ v[i] \in DOMAIN code =>
       /\ o[i] = o[i - 1] + 2 /\ s[o[i - 1] + 1] = esc
       /\ o[i - 1] + 2 \in X /\ s[o[i - 1] + 2] = code[v[i]]

LEMMA CodesType ==
  ASSUME NEW T, NEW v \in Seq(T), NEW esc \in T, NEW code, \A u \in DOMAIN code : code[u] \in T,
         NEW w, Codes(w, v, esc, code)
  PROVE  /\ w \in Seq(Seq(T)) /\ Len(w) = Len(v)
         /\ \A i \in 1 .. Len(v) :
              /\ v[i] \in DOMAIN code => /\ w[i] = <<esc, code[v[i]]>> /\ Len(w[i]) = 2
                                         /\ w[i][1] = esc /\ w[i][2] = code[v[i]]
              /\ v[i] \notin DOMAIN code => w[i] = <<v[i]>> /\ Len(w[i]) = 1 /\ w[i][1] = v[i]
<1>1. DOMAIN v = 1 .. Len(v) /\ \A i \in 1 .. Len(v) : v[i] \in T
  OBVIOUS
<1>2. \A i \in 1 .. Len(v) :
        w[i] = IF v[i] \in DOMAIN code THEN <<esc, code[v[i]]>> ELSE <<v[i]>>
  BY <1>1 DEF Codes
<1>3. \A x, y \in T : <<x, y>> \in Seq(T) /\ <<x>> \in Seq(T)
  OBVIOUS
<1>4. \A i \in 1 .. Len(v) : w[i] \in Seq(T)
  BY <1>1, <1>2, <1>3
<1>5. w \in Seq(Seq(T)) /\ Len(w) = Len(v)
  <2>1. PICK n \in Nat : n = Len(v)
    OBVIOUS
  <2>2. w = [i \in 1 .. n |-> w[i]]
    BY <1>1, <1>2, <2>1 DEF Codes
  <2> QED
    BY <1>4, <2>1, <2>2
<1>7. ASSUME NEW i \in 1 .. Len(v), v[i] \in DOMAIN code
      PROVE  w[i] = <<esc, code[v[i]]>> /\ Len(w[i]) = 2 /\ w[i][1] = esc /\ w[i][2] = code[v[i]]
  <2>1. w[i] = <<esc, code[v[i]]>>
    BY <1>2, <1>7
  <2> QED
    BY <2>1
<1>8. ASSUME NEW i \in 1 .. Len(v), v[i] \notin DOMAIN code
      PROVE  w[i] = <<v[i]>> /\ Len(w[i]) = 1 /\ w[i][1] = v[i]
  <2>1. w[i] = <<v[i]>>
    BY <1>2, <1>8
  <2> QED
    BY <2>1
<1> QED
  BY <1>5, <1>7, <1>8

LEMMA EscapedWell ==
  ASSUME NEW T, NEW v \in Seq(T), NEW esc \in T, NEW code, esc \in DOMAIN code,
         \A u \in DOMAIN code : code[u] \in T,
         NEW w, Codes(w, v, esc, code), NEW s \in Seq(T), NEW o, Laid(o, w, s),
         NEW X, Escapes(X, s, esc)
  PROVE  /\ \A i \in 1 .. Len(v) : ReadAt(v, s, X, esc, code, o, i)
         /\ Len(s) + 1 \notin X
<1>1. PICK n \in Nat : n = Len(v) /\ n = Len(w)
  BY CodesType
<1>2. PICK l \in Nat : l = Len(s)
  OBVIOUS
<1>3. /\ o \in [0 .. n -> Nat] /\ o[0] = 0 /\ o[n] = l
      /\ \A i \in 1 .. n : /\ o[i] = o[i - 1] + Len(w[i]) /\ o[i] <= l
                           /\ \A m \in 1 .. Len(w[i]) : s[o[i - 1] + m] = w[i][m]
  BY <1>1, <1>2 DEF Laid
<1>4. \A k \in 1 .. l + 1 : k \in X <=> (k > 1 /\ s[k - 1] = esc /\ k - 1 \notin X)
  BY <1>2 DEF Escapes
<1>5. ASSUME NEW i \in 1 .. n, o[i - 1] + 1 \notin X
      PROVE  ReadAt(v, s, X, esc, code, o, i) /\ o[i] + 1 \notin X
  <2>1. PICK p \in Nat : p = o[i - 1]
    <3>1. i - 1 \in 0 .. n
      OBVIOUS
    <3> QED
      BY <1>3, <3>1
  <2>2. /\ o[i] = p + Len(w[i]) /\ o[i] <= l /\ p + 1 \notin X
        /\ \A m \in 1 .. Len(w[i]) : s[p + m] = w[i][m]
    BY <1>3, <1>5, <2>1
  <2>3. CASE v[i] \in DOMAIN code
    <3>1. Len(w[i]) = 2 /\ w[i][1] = esc /\ w[i][2] = code[v[i]]
      BY <1>1, <2>3, CodesType
    <3>2. o[i] = p + 2 /\ s[p + 1] = esc /\ s[p + 2] = code[v[i]]
      BY <2>2, <3>1
    <3>3. p + 2 \in 1 .. l + 1 /\ p + 2 > 1 /\ (p + 2) - 1 = p + 1
      BY <2>2, <3>2
    <3>4. p + 2 \in X
      BY <1>4, <2>2, <3>2, <3>3
    <3>5. p + 3 \in 1 .. l + 1 /\ (p + 3) - 1 = p + 2
      BY <2>2, <3>2
    <3>6. p + 3 \notin X
      BY <1>4, <3>4, <3>5
    <3>7. o[i] + 1 = p + 3
      BY <3>2
    <3> QED
      BY <2>1, <2>2, <2>3, <3>2, <3>4, <3>6, <3>7 DEF ReadAt
  <2>4. CASE v[i] \notin DOMAIN code
    <3>1. Len(w[i]) = 1 /\ w[i][1] = v[i]
      BY <1>1, <2>4, CodesType
    <3>2. o[i] = p + 1 /\ s[p + 1] = v[i]
      BY <2>2, <3>1
    <3>3. v[i] # esc
      BY <2>4
    <3>4. p + 2 \in 1 .. l + 1 /\ (p + 2) - 1 = p + 1
      BY <2>2, <3>2
    <3>5. p + 2 \notin X
      BY <1>4, <3>2, <3>3, <3>4
    <3>6. o[i] + 1 = p + 2
      BY <3>2
    <3> QED
      BY <2>1, <2>2, <2>4, <3>2, <3>3, <3>5, <3>6 DEF ReadAt
  <2> QED
    BY <2>3, <2>4
<1> DEFINE S == {i \in 0 .. n : o[i] + 1 \notin X}
<1>6. 0 \in S
  <2>1. 1 \in 1 .. l + 1 /\ ~(1 > 1)
    OBVIOUS
  <2>2. 1 \notin X
    BY <1>4, <2>1
  <2>3. o[0] + 1 = 1 /\ 0 \in 0 .. n
    BY <1>3
  <2> QED
    BY <2>2, <2>3
<1>7. ASSUME NEW i \in 1 .. n, i - 1 \in S PROVE i \in S
  <2>1. o[i] + 1 \notin X
    BY <1>5, <1>7
  <2>2. i \in 0 .. n
    OBVIOUS
  <2> QED
    BY <2>1, <2>2
<1>8. \A i \in 0 .. n : i \in S
  <2> HIDE DEF S
  <2> QED
    BY <1>6, <1>7, UpTo
<1>9. ASSUME NEW i \in 1 .. n PROVE ReadAt(v, s, X, esc, code, o, i)
  <2>1. i - 1 \in 0 .. n
    OBVIOUS
  <2>2. o[i - 1] + 1 \notin X
    BY <1>8, <2>1
  <2> QED
    BY <1>5, <2>2
<1>10. l + 1 \notin X
  <2>1. n \in 0 .. n
    OBVIOUS
  <2> QED
    BY <1>3, <1>8, <2>1
<1> QED
  BY <1>1, <1>2, <1>9, <1>10

(* What is read of such a sequence: each element once.                     *)
LEMMA EachOnce ==
  ASSUME NEW T, NEW v \in Seq(T), NEW n \in Nat, n = Len(v), NEW o \in [0 .. n -> Nat],
         o[0] = 0, NEW g \in Seq(Seq(T)), o[n] = Len(g),
         \A i \in 1 .. n : /\ o[i] <= Len(g)
                           /\ \/ o[i] = o[i - 1] + 1 /\ g[o[i - 1] + 1] = <<v[i]>>
                              \/ /\ o[i] = o[i - 1] + 2
                                 /\ g[o[i - 1] + 1] = <<>> /\ g[o[i - 1] + 2] = <<v[i]>>
  PROVE  FlattenSeq(g) = v
<1>1. PICK f : Flattens(f, T, g) /\ FlattenSeq(g) = f[Len(g)]
  BY FlattenSteps
<1>2. PICK l \in Nat : l = Len(g)
  OBVIOUS
<1>3. f \in [0 .. l -> Seq(T)] /\ f[0] = <<>> /\ \A k \in 1 .. l : f[k] = f[k - 1] \o g[k]
  BY <1>1, <1>2 DEF Flattens
<1> DEFINE S == {i \in 0 .. n : f[o[i]] = SubSeq(v, 1, i)}
<1>4. 0 \in S
  <2>1. SubSeq(v, 1, 0) = <<>>
    OBVIOUS
  <2> QED
    BY <1>3, <2>1
<1>5. ASSUME NEW i \in 1 .. n, i - 1 \in S PROVE i \in S
  <2>1. PICK p \in Nat : p = o[i - 1]
    <3>1. i - 1 \in 0 .. n
      OBVIOUS
    <3> QED
      BY <3>1
  <2>2. PICK a \in Seq(T) : a = f[p] /\ a = SubSeq(v, 1, i - 1)
    <3>1. f[p] = SubSeq(v, 1, i - 1)
      BY <1>5, <2>1
    <3>2. SubSeq(v, 1, i - 1) \in Seq(T)
      <4>1. 1 \in 1 .. Len(v) + 1 /\ i - 1 \in 0 .. Len(v)
        OBVIOUS
      <4> QED
        BY <4>1, Piece
    <3> QED
      BY <3>1, <3>2
  <2>3. /\ o[i] <= l
        /\ \/ o[i] = p + 1 /\ g[p + 1] = <<v[i]>>
           \/ o[i] = p + 2 /\ g[p + 1] = <<>> /\ g[p + 2] = <<v[i]>>
    BY <1>2, <2>1
  <2>4. f[o[i]] = a \o <<v[i]>>
    <3>1. CASE o[i] = p + 1 /\ g[p + 1] = <<v[i]>>
      <4>1. p + 1 \in 1 .. l /\ (p + 1) - 1 = p
        BY <2>3, <3>1
      <4>2. f[p + 1] = f[p] \o g[p + 1]
        BY <1>3, <4>1
      <4> QED
        BY <2>2, <3>1, <4>2
    <3>2. CASE o[i] = p + 2 /\ g[p + 1] = <<>> /\ g[p + 2] = <<v[i]>>
      <4>1. p + 1 \in 1 .. l /\ (p + 1) - 1 = p /\ p + 2 \in 1 .. l /\ (p + 2) - 1 = p + 1
        BY <2>3, <3>2
      <4>2. f[p + 1] = f[p] \o g[p + 1] /\ f[p + 2] = f[p + 1] \o g[p + 2]
        BY <1>3, <4>1
      <4>3. a \o <<>> = a
        OBVIOUS
      <4> QED
        BY <2>2, <3>2, <4>2, <4>3
    <3> QED
      BY <2>3, <3>1, <3>2
  <2>5. SubSeq(v, 1, i) = a \o <<v[i]>>
    <3>1. PICK u \in Seq(T) : u = SubSeq(v, 1, i) /\ Len(u) = i /\ \A k \in 1 .. i : u[k] = v[k]
      <4>1. 1 \in 1 .. Len(v) + 1 /\ i \in 0 .. Len(v) /\ 1 <= i
        OBVIOUS
      <4>2. /\ SubSeq(v, 1, i) \in Seq(T)
            /\ Len(SubSeq(v, 1, i)) = IF 1 <= i THEN (i - 1) + 1 ELSE 0
            /\ \A k \in 1 .. (i - 1) + 1 : SubSeq(v, 1, i)[k] = v[(1 + k) - 1]
        BY <4>1, Piece
      <4>3. (i - 1) + 1 = i /\ \A k \in 1 .. i : (1 + k) - 1 = k
        OBVIOUS
      <4>4. SubSeq(v, 1, i) \in Seq(T) /\ Len(SubSeq(v, 1, i)) = i
        BY <4>1, <4>2, <4>3
      <4>5. \A k \in 1 .. i : SubSeq(v, 1, i)[k] = v[k]
        BY <4>2, <4>3
      <4> QED
        BY <4>4, <4>5
    <3>2. Len(a) = i - 1 /\ \A k \in 1 .. i - 1 : a[k] = v[k]
      <4>1. 1 \in 1 .. Len(v) + 1 /\ i - 1 \in 0 .. Len(v)
        OBVIOUS
      <4>2. /\ Len(SubSeq(v, 1, i - 1)) = IF 1 <= i - 1 THEN ((i - 1) - 1) + 1 ELSE 0
            /\ \A k \in 1 .. ((i - 1) - 1) + 1 : SubSeq(v, 1, i - 1)[k] = v[(1 + k) - 1]
        BY <4>1, Piece
      <4> QED
        BY <2>2, <4>1, <4>2
    <3>3. v[i] \in T /\ <<v[i]>> \in Seq(T) /\ Len(<<v[i]>>) = 1 /\ <<v[i]>>[1] = v[i]
      OBVIOUS
    <3>4. \A k \in 1 .. Len(a) : u[k] = a[k]
      BY <3>1, <3>2
    <3>5. \A k \in 1 .. Len(<<v[i]>>) : u[Len(a) + k] = <<v[i]>>[k]
      BY <3>1, <3>2, <3>3
    <3> QED
      BY <3>1, <3>2, <3>3, <3>4, <3>5, IsConcat
  <2>6. i \in 0 .. n
    OBVIOUS
  <2> QED
    BY <2>4, <2>5, <2>6
<1>6. n \in S
  <2>1. n \in 0 .. n
    OBVIOUS
  <2> HIDE DEF S
  <2> QED
    BY <1>4, <1>5, <2>1, UpTo
<1>7. SubSeq(v, 1, n) = v
  BY WholePiece
<1> QED
  BY <1>1, <1>6, <1>7

(* The places of a sequence, from b + 1 on, that are behind an escape      *)
(* which is not escaped itself: what the loops that read escapes compute.  *)
Marks(f, a, b, l, s, esc) == f = [k \in a .. l |-> k > b /\ s[k - 1] = esc /\ ~f[k - 1]]

LEMMA Marking ==
  ASSUME NEW a \in Nat, NEW b \in Nat, a <= b, NEW l \in Nat, NEW s, NEW esc
  PROVE  \E f : Marks(f, a, b, l, s, esc)
<1> DEFINE Mark(p) == IF p[2] > b /\ s[p[2] - 1] = esc /\ p[1] = 0 THEN 1 ELSE 0
           G == [p \in {0, 1} \X (1 .. l) |-> Mark(p)]
<1>1. G \in Steps({0, 1}, l)
  <2>1. \A p : Mark(p) \in {0, 1}
    OBVIOUS
  <2> HIDE DEF Mark
  <2> QED
    BY <2>1 DEF Steps
<1>2. PICK h : Computes(h, l, {0, 1}, 0, G)
  <2> HIDE DEF G
  <2> QED
    BY <1>1, Recursion
<1>3. h \in [0 .. l -> {0, 1}] /\ h[0] = 0 /\ \A k \in 1 .. l : h[k] = G[<<h[k - 1], k>>]
  <2> HIDE DEF G
  <2> QED
    BY <1>2 DEF Computes
<1>4. ASSUME NEW k \in 1 .. l
      PROVE  h[k] = 1 <=> (k > b /\ s[k - 1] = esc /\ h[k - 1] # 1)
  <2>1. h[k - 1] \in {0, 1}
    <3>1. k - 1 \in 0 .. l
      OBVIOUS
    <3> QED
      BY <1>3, <3>1
  <2>2. PICK x \in {0, 1} : x = h[k - 1]
    BY <2>1
  <2>3. G[<<x, k>>] = Mark(<<x, k>>)
    OBVIOUS
  <2>4. Mark(<<x, k>>) = IF k > b /\ s[k - 1] = esc /\ x = 0 THEN 1 ELSE 0
    OBVIOUS
  <2> HIDE DEF Mark, G
  <2>5. h[k] = IF k > b /\ s[k - 1] = esc /\ x = 0 THEN 1 ELSE 0
    BY <1>3, <2>2, <2>3, <2>4
  <2> QED
    BY <2>2, <2>5
<1> DEFINE f == [k \in a .. l |-> h[k] = 1]
<1>5. ASSUME NEW k \in a .. l
      PROVE  (h[k] = 1) = (k > b /\ s[k - 1] = esc /\ ~f[k - 1])
  <2>1. CASE k > b
    <3>1. k \in 1 .. l /\ k - 1 \in a .. l
      BY <2>1
    <3>2. f[k - 1] = (h[k - 1] = 1)
      BY <3>1
    <3>3. h[k] = 1 <=> (k > b /\ s[k - 1] = esc /\ h[k - 1] # 1)
      BY <1>4, <3>1
    <3> HIDE DEF f
    <3> QED
      BY <3>2, <3>3
  <2>2. CASE ~(k > b)
    <3>1. h[k] # 1
      <4>1. CASE k = 0
        BY <1>3, <4>1
      <4>2. CASE k # 0
        <5>1. k \in 1 .. l
          BY <4>2
        <5> QED
          BY <1>4, <2>2, <5>1
      <4> QED
        BY <4>1, <4>2
    <3> QED
      BY <2>2, <3>1
  <2> QED
    BY <2>1, <2>2
<1>6. f = [k \in a .. l |-> k > b /\ s[k - 1] = esc /\ ~f[k - 1]]
  <2>1. \A k \in a .. l : f[k] = (k > b /\ s[k - 1] = esc /\ ~f[k - 1])
    BY <1>5
  <2>2. f = [k \in a .. l |-> f[k]]
    OBVIOUS
  <2> HIDE DEF f
  <2> QED
    BY <2>1, <2>2
<1> HIDE DEF f
<1>7. Marks(f, a, b, l, s, esc)
  BY <1>6 DEF Marks
<1> QED
  BY <1>7

(* A sequence that was written so is read back, where an escape counts for *)
(* nothing and what it escapes for what it stands for; and what else has a *)
(* code is found behind an escape only.                                    *)
Behind(g, s, X, esc, code) ==
  \A k \in 1 .. Len(s) :
    /\ k \notin X /\ s[k] # esc => g[k] = <<s[k]>>
    /\ k \notin X /\ s[k] = esc => g[k] = <<>>
    /\ k \in X => \A u \in DOMAIN code : s[k] = code[u] => g[k] = <<u>>

LEMMA ReadsBack ==
  ASSUME NEW T, NEW v \in Seq(T), NEW esc \in T, NEW code, esc \in DOMAIN code,
         \A u \in DOMAIN code : code[u] \in T,
         NEW w, Codes(w, v, esc, code), NEW s, s = FlattenSeq(w),
         NEW X, Escapes(X, s, esc)
  PROVE  /\ s \in Seq(T)
         /\ Len(s) + 1 \notin X
         /\ \A k \in 1 .. Len(s) : s[k] \in DOMAIN code \ {esc} => k \in X
         /\ \A g \in Seq(Seq(T)) :
              Len(g) = Len(s) /\ Behind(g, s, X, esc, code) => FlattenSeq(g) = v
<1>1. w \in Seq(Seq(T)) /\ Len(w) = Len(v)
  BY CodesType
<1>2. s \in Seq(T)
  BY <1>1, FlattenType
<1>3. PICK o : Laid(o, w, s)
  BY <1>1, LaidOut
<1>4. (\A i \in 1 .. Len(v) : ReadAt(v, s, X, esc, code, o, i)) /\ Len(s) + 1 \notin X
  BY <1>2, <1>3, EscapedWell
<1>5. PICK n \in Nat : n = Len(v) /\ n = Len(w)
  BY <1>1
<1>6. PICK l \in Nat : l = Len(s)
  BY <1>2
<1>7. /\ o \in [0 .. n -> Nat] /\ o[0] = 0 /\ o[n] = l
      /\ \A i \in 1 .. n : o[i] = o[i - 1] + Len(w[i]) /\ o[i] <= l
      /\ \A k \in 1 .. l : \E i \in 1 .. n : \E m \in 1 .. Len(w[i]) : k = o[i - 1] + m
  BY <1>3, <1>5, <1>6 DEF Laid
<1>8. ASSUME NEW i \in 1 .. n
      PROVE  /\ o[i - 1] \in Nat
             /\ v[i] \in DOMAIN code => Len(w[i]) = 2
             /\ v[i] \notin DOMAIN code => Len(w[i]) = 1
             /\ ReadAt(v, s, X, esc, code, o, i)
  <2>1. i - 1 \in 0 .. n
    OBVIOUS
  <2>2. o[i - 1] \in Nat
    BY <1>7, <2>1
  <2>3. (v[i] \in DOMAIN code => Len(w[i]) = 2) /\ (v[i] \notin DOMAIN code => Len(w[i]) = 1)
    BY <1>5, CodesType
  <2> QED
    BY <1>4, <1>5, <2>2, <2>3
<1>9. ASSUME NEW k \in 1 .. l, s[k] \in DOMAIN code \ {esc} PROVE k \in X
  <2>1. PICK i \in 1 .. n : \E m \in 1 .. Len(w[i]) : k = o[i - 1] + m
    BY <1>7
  <2>2. PICK m \in 1 .. Len(w[i]) : k = o[i - 1] + m
    BY <2>1
  <2>3. ReadAt(v, s, X, esc, code, o, i)
    BY <1>8
  <2>4. CASE v[i] \in DOMAIN code
    <3>1. m = 1 \/ m = 2
      <4>1. Len(w[i]) = 2
        BY <1>8, <2>4
      <4>2. m \in 1 .. 2
        BY <4>1
      <4> QED
        BY <4>2
    <3>2. s[o[i - 1] + 1] = esc /\ o[i - 1] + 2 \in X
      BY <2>3, <2>4 DEF ReadAt
    <3>3. m # 1
      BY <1>9, <2>2, <3>2
    <3> QED
      BY <2>2, <3>1, <3>2, <3>3
  <2>5. CASE v[i] \notin DOMAIN code
    <3>1. m = 1
      <4>1. Len(w[i]) = 1
        BY <1>8, <2>5
      <4>2. m \in 1 .. 1
        BY <4>1
      <4> QED
        BY <4>2
    <3>2. s[o[i - 1] + 1] = v[i]
      BY <2>3, <2>5 DEF ReadAt
    <3>3. s[k] = v[i]
      BY <2>2, <3>1, <3>2
    <3> QED
      BY <1>9, <2>5, <3>3
  <2> QED
    BY <2>4, <2>5
<1>10. ASSUME NEW g \in Seq(Seq(T)), Len(g) = Len(s), Behind(g, s, X, esc, code)
       PROVE  FlattenSeq(g) = v
  <2>1. ASSUME NEW i \in 1 .. n
        PROVE  /\ o[i] <= Len(g)
               /\ \/ o[i] = o[i - 1] + 1 /\ g[o[i - 1] + 1] = <<v[i]>>
                  \/ /\ o[i] = o[i - 1] + 2
                     /\ g[o[i - 1] + 1] = <<>> /\ g[o[i - 1] + 2] = <<v[i]>>
    <3>1. PICK p \in Nat : p = o[i - 1]
      BY <1>8
    <3>2. o[i] <= l /\ ReadAt(v, s, X, esc, code, o, i) /\ p + 1 \notin X
      BY <1>7, <1>8, <3>1 DEF ReadAt
    <3>3. CASE v[i] \in DOMAIN code
      <4>1. /\ o[i] = p + 2 /\ s[p + 1] = esc /\ p + 2 \in X /\ s[p + 2] = code[v[i]]
        BY <3>1, <3>2, <3>3 DEF ReadAt
      <4>2. p + 1 \in 1 .. l /\ p + 2 \in 1 .. l
        BY <3>2, <4>1
      <4>3. g[p + 1] = <<>>
        BY <1>6, <1>10, <3>2, <4>1, <4>2 DEF Behind
      <4>4. g[p + 2] = <<v[i]>>
        BY <1>6, <1>10, <3>3, <4>1, <4>2 DEF Behind
      <4> QED
        BY <1>6, <1>10, <3>1, <3>2, <4>1, <4>3, <4>4
    <3>4. CASE v[i] \notin DOMAIN code
      <4>1. o[i] = p + 1 /\ s[p + 1] = v[i] /\ v[i] # esc
        BY <3>1, <3>2, <3>4 DEF ReadAt
      <4>2. p + 1 \in 1 .. l
        BY <3>2, <4>1
      <4>3. g[p + 1] = <<v[i]>>
        BY <1>6, <1>10, <3>2, <4>1, <4>2 DEF Behind
      <4> QED
        BY <1>6, <1>10, <3>1, <3>2, <4>1, <4>3
    <3> QED
      BY <3>3, <3>4
  <2>2. o[n] = Len(g) /\ o \in [0 .. n -> Nat] /\ o[0] = 0
    BY <1>6, <1>7, <1>10
  <2> QED
    BY <1>5, <2>1, <2>2, EachOnce
<1> QED
  BY <1>2, <1>4, <1>6, <1>9, <1>10

(* Sequences each of which follows a separator, separator j at place at[j].*)
Behinds(w, sep, f) == w = [j \in 1 .. Len(f) |-> <<sep[j]>> \o f[j]]
PlacedBehind(at, sep, f, s) ==
  /\ at \in [1 .. Len(f) + 1 -> Nat \ {0}] /\ at[1] = 1 /\ at[Len(f) + 1] = Len(s) + 1
  /\ \A j \in 1 .. Len(f) :
       /\ at[j] <= Len(s) /\ s[at[j]] = sep[j]
       /\ at[j + 1] = (at[j] + Len(f[j])) + 1 /\ at[j + 1] <= Len(s) + 1
       /\ \A m \in 1 .. Len(f[j]) : s[at[j] + m] = f[j][m]
  /\ \A k \in 1 .. Len(s) : \E j \in 1 .. Len(f) : k = at[j] \/ \E m \in 1 .. Len(f[j]) : k = at[j] + m

LEMMA Separated ==
  ASSUME NEW T, NEW f \in Seq(Seq(T)), NEW sep, \A j \in 1 .. Len(f) : sep[j] \in T,
         NEW w, Behinds(w, sep, f)
  PROVE  /\ w \in Seq(Seq(T)) /\ FlattenSeq(w) \in Seq(T)
         /\ \E at : PlacedBehind(at, sep, f, FlattenSeq(w))
<1>1. PICK n \in Nat : n = Len(f)
  OBVIOUS
<1>2. ASSUME NEW j \in 1 .. n
      PROVE  /\ f[j] \in Seq(T) /\ w[j] \in Seq(T) /\ Len(f[j]) \in Nat
             /\ Len(w[j]) = Len(f[j]) + 1 /\ w[j][1] = sep[j]
             /\ \A m \in 1 .. Len(f[j]) : w[j][1 + m] = f[j][m]
  <2>1. f[j] \in Seq(T) /\ <<sep[j]>> \in Seq(T)
    BY <1>1
  <2>2. w[j] = <<sep[j]>> \o f[j]
    BY <1>1 DEF Behinds
  <2>3. PICK a \in Seq(T), b \in Seq(T) : a = <<sep[j]>> /\ b = f[j]
    BY <2>1
  <2>4. /\ a \o b \in Seq(T) /\ Len(a \o b) = Len(a) + Len(b)
        /\ \A k \in 1 .. Len(a) : (a \o b)[k] = a[k]
        /\ \A m \in 1 .. Len(b) : (a \o b)[Len(a) + m] = b[m]
    BY Concatenates
  <2>5. Len(a) = 1 /\ a[1] = sep[j] /\ Len(b) \in Nat
    BY <2>3
  <2> QED
    BY <2>2, <2>3, <2>4, <2>5
<1>3. w \in Seq(Seq(T)) /\ Len(w) = n
  <2> DEFINE e(j) == <<sep[j]>> \o f[j]
  <2>1. w = [j \in 1 .. n |-> e(j)]
    BY <1>1 DEF Behinds
  <2> HIDE DEF e
  <2>2. w = [j \in 1 .. n |-> w[j]]
    BY <2>1
  <2>3. PICK U : U = Seq(T)
    OBVIOUS
  <2>4. \A j \in 1 .. n : w[j] \in U
    BY <1>2, <2>3
  <2>5. w \in Seq(U) /\ Len(w) = n
    <3>1. [j \in 1 .. n |-> w[j]] \in Seq(U)
      BY <2>4
    <3>2. w \in [1 .. n -> U]
      BY <2>2, <2>4
    <3>3. w \in Seq(U)
      BY <2>2, <3>1
    <3>4. DOMAIN w = 1 .. n
      BY <2>2
    <3> QED
      BY <3>3, <3>4
  <2> QED
    BY <2>3, <2>5
<1>4. PICK s : s = FlattenSeq(w)
  OBVIOUS
<1>5. s \in Seq(T)
  BY <1>3, <1>4, FlattenType
<1>6. PICK o : Laid(o, w, s)
  BY <1>3, <1>4, LaidOut
<1>7. PICK l \in Nat : l = Len(s)
  BY <1>5
<1>8. /\ o \in [0 .. n -> Nat] /\ o[0] = 0 /\ o[n] = l
      /\ \A i \in 1 .. n : /\ o[i] = o[i - 1] + Len(w[i]) /\ o[i] <= l
                           /\ \A m \in 1 .. Len(w[i]) : s[o[i - 1] + m] = w[i][m]
      /\ \A k \in 1 .. l : \E i \in 1 .. n : \E m \in 1 .. Len(w[i]) : k = o[i - 1] + m
  BY <1>3, <1>6, <1>7 DEF Laid
<1> DEFINE at == [j \in 1 .. n + 1 |-> o[j - 1] + 1]
<1>9. at \in [1 .. n + 1 -> Nat \ {0}] /\ at[1] = 1 /\ at[n + 1] = l + 1
  <2>1. ASSUME NEW j \in 1 .. n + 1 PROVE o[j - 1] + 1 \in Nat \ {0}
    <3>1. j - 1 \in 0 .. n
      OBVIOUS
    <3>2. o[j - 1] \in Nat
      BY <1>8, <3>1
    <3> QED
      BY <3>2
  <2>2. at \in [1 .. n + 1 -> Nat \ {0}]
    BY <2>1
  <2>3. 1 \in 1 .. n + 1 /\ n + 1 \in 1 .. n + 1 /\ 1 - 1 = 0 /\ (n + 1) - 1 = n
    OBVIOUS
  <2>4. at[1] = o[0] + 1 /\ at[n + 1] = o[n] + 1
    BY <2>3
  <2> QED
    BY <1>8, <2>2, <2>4
<1>10. ASSUME NEW j \in 1 .. n
       PROVE  /\ at[j] <= l /\ s[at[j]] = sep[j]
              /\ at[j + 1] = (at[j] + Len(f[j])) + 1 /\ at[j + 1] <= l + 1
              /\ \A m \in 1 .. Len(f[j]) : s[at[j] + m] = f[j][m]
  <2>1. PICK p \in Nat, e \in Nat : p = o[j - 1] /\ e = Len(f[j])
    <3>1. j - 1 \in 0 .. n
      OBVIOUS
    <3> QED
      BY <1>2, <1>8, <3>1
  <2>2. j \in 1 .. n + 1 /\ j + 1 \in 1 .. n + 1 /\ (j + 1) - 1 = j
    OBVIOUS
  <2>3. at[j] = p + 1 /\ at[j + 1] = o[j] + 1
    BY <2>1, <2>2
  <2>4. o[j] = p + (e + 1) /\ o[j] <= l
    BY <1>2, <1>8, <2>1
  <2>5. \A m \in 1 .. e + 1 : s[p + m] = w[j][m]
    <3>1. Len(w[j]) = e + 1
      BY <1>2, <2>1
    <3>2. \A m \in 1 .. Len(w[j]) : s[p + m] = w[j][m]
      BY <1>8, <2>1
    <3> QED
      BY <3>1, <3>2
  <2>6. s[p + 1] = sep[j]
    <3>1. 1 \in 1 .. e + 1
      OBVIOUS
    <3> QED
      BY <1>2, <2>5, <3>1
  <2>7. ASSUME NEW m \in 1 .. e PROVE s[(p + 1) + m] = f[j][m]
    <3>1. 1 + m \in 1 .. e + 1 /\ (p + 1) + m = p + (1 + m)
      OBVIOUS
    <3> QED
      BY <1>2, <2>1, <2>5, <3>1
  <2>8. at[j] <= l /\ at[j + 1] = (at[j] + e) + 1 /\ at[j + 1] <= l + 1
    <3> HIDE DEF at
    <3> QED
      BY <2>3, <2>4
  <2> HIDE DEF at
  <2> QED
    BY <2>1, <2>3, <2>6, <2>7, <2>8
<1>11. ASSUME NEW k \in 1 .. l
       PROVE  \E j \in 1 .. n : k = at[j] \/ \E m \in 1 .. Len(f[j]) : k = at[j] + m
  <2>1. PICK j \in 1 .. n : \E m \in 1 .. Len(w[j]) : k = o[j - 1] + m
    BY <1>8
  <2>2. PICK m \in 1 .. Len(w[j]) : k = o[j - 1] + m
    BY <2>1
  <2>3. PICK p \in Nat, e \in Nat : p = o[j - 1] /\ e = Len(f[j])
    <3>1. j - 1 \in 0 .. n
      OBVIOUS
    <3> QED
      BY <1>2, <1>8, <3>1
  <2>4. m \in 1 .. e + 1 /\ k = p + m
    BY <1>2, <2>2, <2>3
  <2>5. at[j] = p + 1
    BY <2>3
  <2> HIDE DEF at
  <2>6. CASE m = 1
    BY <2>4, <2>5, <2>6
  <2>7. CASE m # 1
    <3>1. m - 1 \in 1 .. e /\ k = (p + 1) + (m - 1)
      BY <2>4, <2>7
    <3>2. k = at[j] + (m - 1)
      BY <2>5, <3>1
    <3> QED
      BY <2>3, <3>1, <3>2
  <2> QED
    BY <2>6, <2>7
<1> HIDE DEF at
<1>12. PlacedBehind(at, sep, f, s)
  BY <1>1, <1>7, <1>9, <1>10, <1>11 DEF PlacedBehind
<1> QED
  BY <1>3, <1>4, <1>5, <1>12

LEMMA PieceIs ==
  ASSUME NEW T, NEW s \in Seq(T), NEW t \in Seq(T), NEW a \in 1 .. Len(s) + 1, NEW b \in 0 .. Len(s),
         a + Len(t) = b + 1, \A m \in 1 .. Len(t) : s[(a + m) - 1] = t[m]
  PROVE  SubSeq(s, a, b) = t
<1>1. PICK u : u = SubSeq(s, a, b)
  OBVIOUS
<1>2. PICK n \in Nat : n = Len(t)
  OBVIOUS
<1>3. /\ u \in Seq(T) /\ Len(u) = IF a <= b THEN (b - a) + 1 ELSE 0
      /\ \A k \in 1 .. (b - a) + 1 : u[k] = s[(a + k) - 1]
  BY <1>1, Piece
<1>4. (b - a) + 1 = n /\ (a <= b <=> n >= 1)
  BY <1>2
<1>5. Len(u) = n
  BY <1>2, <1>3, <1>4
<1>6. \A k \in 1 .. n : u[k] = t[k]
  BY <1>2, <1>3, <1>4
<1>7. u \in Seq(T)
  BY <1>3
<1> QED
  BY <1>1, <1>2, <1>5, <1>6, <1>7, SeqEqual
=============================================================================
