-------------------------- MODULE RecursionProofs --------------------------
(***************************************************************************)
(* Recursive functions on sequences of any length.                         *)
(*                                                                         *)
(* That a recursive equation has a solution is shown once, for every       *)
(* recursion by a rank of the arguments (RecursionFixpoint); what the      *)
(* function computes is shown by induction on sets of natural numbers      *)
(* (SetInduction).                                                         *)
(***************************************************************************)
EXTENDS Naturals, Sequences, SequencesExt, SequenceTheorems, WellFoundedInduction, TLAPS

-----------------------------------------------------------------------------
(* Induction and recursion *)

\* Every non-empty set of natural numbers has a least element.
LEMMA LeastElement ==
  ASSUME NEW S \in SUBSET Nat, S # {}
  PROVE  \E t \in S : \A u \in S : ~(u < t)
<1>1. IsWellFoundedOn(OpToRel(<, Nat), Nat)
  BY NatLessThanWellFounded
<1>2. PICK t \in S : \A u \in S : ~(<<u, t>> \in OpToRel(<, Nat))
  BY <1>1, WFMin
<1> QED
  BY <1>2 DEF OpToRel

\* A set of natural numbers that holds 0, and the successor of each of its
\* elements, holds all of them.
LEMMA SetInduction ==
  ASSUME NEW T, 0 \in T, \A n \in Nat : n \in T => n + 1 \in T
  PROVE  \A n \in Nat : n \in T
<1> DEFINE S == Nat \ T
<1> SUFFICES ASSUME S # {} PROVE FALSE
  OBVIOUS
<1>1. PICK t \in S : \A u \in S : ~(u < t)
  BY LeastElement
<1>2. t \in Nat /\ t # 0 /\ t - 1 \in Nat
  OBVIOUS
<1>3. t - 1 \in T
  BY <1>1, <1>2
<1>4. (t - 1) + 1 \in T
  BY <1>2, <1>3
<1> QED
  BY <1>2, <1>4

\* A recursive definition: step[g] at x depends on g at arguments of a rank
\* smaller than that of x only.
Causal(step, rank, S, V) ==
  /\ rank \in [S -> Nat]
  /\ step \in [[S -> V] -> [S -> V]]
  /\ \A g, h \in [S -> V], x \in S :
       (\A y \in S : rank[y] < rank[x] => g[y] = h[y]) => step[g][x] = step[h][x]

\* g satisfies the equation at arguments of a rank below n.
Upto(g, n, step, rank, S, V) ==
  g \in [S -> V] /\ \A x \in S : rank[x] < n => g[x] = step[g][x]

\* Two functions that satisfy the equation up to a rank are equal up to it.
LEMMA RecursionUnique ==
  ASSUME NEW S, NEW V, NEW rank, NEW step, Causal(step, rank, S, V), NEW n \in Nat,
         NEW g, Upto(g, n, step, rank, S, V), NEW h, Upto(h, n, step, rank, S, V),
         NEW x \in S, rank[x] < n
  PROVE  g[x] = h[x]
<1> USE DEF Causal
<1> DEFINE T == {m \in Nat : m <= n => \A y \in S : rank[y] < m => g[y] = h[y]}
<1>1. 0 \in T
  OBVIOUS
<1>2. ASSUME NEW m \in Nat, m \in T PROVE m + 1 \in T
  <2> SUFFICES ASSUME m + 1 <= n, NEW y \in S, rank[y] < m + 1 PROVE g[y] = h[y]
    OBVIOUS
  <2>1. \A z \in S : rank[z] < m => g[z] = h[z]
    BY <1>2
  <2>2. \A z \in S : rank[z] < rank[y] => g[z] = h[z]
    BY <2>1
  <2>3. step[g][y] = step[h][y]
    BY <2>2 DEF Causal, Upto
  <2>4. rank[y] < n
    OBVIOUS
  <2> QED
    BY <2>3, <2>4 DEF Upto
<1> HIDE DEF T
<1>3. n \in T
  BY <1>1, <1>2, SetInduction
<1> QED
  BY <1>3 DEF T

\* A recursive definition by rank has a solution.
LEMMA RecursionFixpoint ==
  ASSUME NEW S, NEW V, V # {}, NEW rank, NEW step, Causal(step, rank, S, V)
  PROVE  \E f \in [S -> V] : f = step[f]
<1>0. rank \in [S -> Nat] /\ step \in [[S -> V] -> [S -> V]]
  BY DEF Causal
<1> DEFINE Solves(g, n) == Upto(g, n, step, rank, S, V)
           T == {n \in Nat : \E g : Solves(g, n)}
<1>1. 0 \in T
  <2> PICK v : v \in V
    OBVIOUS
  <2> DEFINE g == [x \in S |-> v]
  <2>1. Solves(g, 0)
    BY <1>0 DEF Upto
  <2> QED
    BY <1>0, <2>1
<1>2. ASSUME NEW n \in Nat, n \in T PROVE n + 1 \in T
  <2> PICK g : Solves(g, n)
    BY <1>0, <1>2
  <2> DEFINE h == step[g]
  <2>1. g \in [S -> V] /\ h \in [S -> V]
    BY <1>0 DEF Upto
  <2>2. \A x \in S : rank[x] < n => h[x] = g[x]
    BY <1>0 DEF Upto
  <2> SUFFICES Solves(h, n + 1)
    OBVIOUS
  <2> SUFFICES ASSUME NEW x \in S, rank[x] < n + 1 PROVE step[g][x] = step[h][x]
    BY <1>0, <2>1 DEF Upto
  <2> HIDE DEF h
  <2>3. \A y \in S : rank[y] < rank[x] => g[y] = h[y]
    BY <1>0, <2>2
  <2> QED
    BY <1>0, <2>1, <2>3 DEF Causal
<1>3. \A n \in Nat : \E g : Solves(g, n)
  <2> HIDE DEF Solves
  <2>1. \A n \in Nat : n \in T
    <3> HIDE DEF T
    <3> QED BY <1>0, <1>1, <1>2, SetInduction
  <2> QED
    BY <1>0, <2>1
<1> DEFINE G(n) == CHOOSE g : Solves(g, n)
           f == [x \in S |-> G(rank[x] + 1)[x]]
<1>4. \A n \in Nat : Solves(G(n), n)
  <2> HIDE DEF Solves
  <2> QED BY <1>0, <1>3
<1> HIDE DEF G
<1>5. f \in [S -> V]
  BY <1>0, <1>4 DEF Upto
<1>6. ASSUME NEW x \in S PROVE f[x] = step[f][x]
  <2> DEFINE n == rank[x] + 1
  <2>1. n \in Nat /\ Solves(G(n), n)
    BY <1>0, <1>4
  <2>2. ASSUME NEW y \in S, rank[y] < n PROVE f[y] = G(n)[y]
    <3> DEFINE m == rank[y] + 1
    <3>1. m \in Nat /\ m <= n /\ rank[y] < m /\ Solves(G(m), m)
      BY <1>0, <1>4, <2>2
    <3>2. Solves(G(n), m)
      BY <1>0, <2>1, <3>1 DEF Upto
    <3>3. G(m)[y] = G(n)[y]
      <4> HIDE DEF m, n
      <4> QED BY <1>0, <3>1, <3>2, RecursionUnique
    <3> QED
      BY <1>0, <3>3
  <2>3. f[x] = step[G(n)][x]
    BY <1>0, <2>1, <2>2 DEF Upto
  <2>4. \A y \in S : rank[y] < rank[x] => f[y] = G(n)[y]
    BY <1>0, <2>2
  <2> HIDE DEF f, n
  <2>5. step[f][x] = step[G(n)][x]
    BY <1>0, <1>5, <2>1, <2>4 DEF Causal, Upto
  <2> QED
    BY <1>0, <2>3, <2>5
<1>7. f = step[f]
  <2> HIDE DEF f
  <2>1. step[f] \in [S -> V]
    BY <1>0, <1>5
  <2> QED
    BY <1>0, <1>5, <1>6, <2>1
<1> QED
  <2> HIDE DEF f
  <2> QED BY <1>0, <1>5, <1>7

-----------------------------------------------------------------------------
(* Functions that work through a sequence from its head *)

\* F maps the elements of a sequence with c and joins what comes out.
IsFlatMap(F, c, S, T) ==
  /\ c \in [S -> Seq(T)]
  /\ F \in [Seq(S) -> Seq(T)]
  /\ \A s \in Seq(S) : F[s] = IF s = <<>> THEN <<>> ELSE c[Head(s)] \o F[Tail(s)]

\* The form of the recursive definitions of modules ResolvConf and HostsFile.
FlatMapDef(F, c, S) ==
  F = [s \in Seq(S) |-> IF s = <<>> THEN <<>> ELSE c[Head(s)] \o F[Tail(s)]]

\* Such a definition defines a function.
LEMMA FlatMapExists ==
  ASSUME NEW S, NEW T, NEW c \in [S -> Seq(T)]
  PROVE  \E F : FlatMapDef(F, c, S)
<1> DEFINE A == Seq(S)
           V == Seq(T)
           body(g, s) == IF s = <<>> THEN <<>> ELSE c[Head(s)] \o g[Tail(s)]
           step == [g \in [A -> V] |-> [s \in A |-> body(g, s)]]
           rank == [s \in A |-> Len(s)]
<1>1. <<>> \in V /\ V # {}
  <2>1. <<>> \in Seq(T)
    BY EmptySeq
  <2> QED
    BY <2>1
<1>2. ASSUME NEW s \in A, s # <<>>
      PROVE  Head(s) \in S /\ Tail(s) \in A /\ Len(Tail(s)) < Len(s) /\ c[Head(s)] \in V
  <2>1. Head(s) \in S /\ Tail(s) \in A /\ Len(Tail(s)) = Len(s) - 1 /\ Len(s) \in Nat
    BY <1>2, HeadTailProperties, LenProperties
  <2> QED
    BY <2>1
<1>3. \A g \in [A -> V], s \in A : body(g, s) \in V
  <2> SUFFICES ASSUME NEW g \in [A -> V], NEW s \in A, s # <<>>
               PROVE  c[Head(s)] \o g[Tail(s)] \in V
    BY <1>1
  <2>1. c[Head(s)] \in Seq(T) /\ g[Tail(s)] \in Seq(T)
    BY <1>2
  <2> QED
    BY <2>1, ConcatProperties
<1>4. Causal(step, rank, A, V)
  <2>1. rank \in [A -> Nat]
    BY LenProperties
  <2>2. step \in [[A -> V] -> [A -> V]]
    BY <1>3
  <2>3. ASSUME NEW g \in [A -> V], NEW h \in [A -> V], NEW s \in A,
               \A y \in A : rank[y] < rank[s] => g[y] = h[y]
        PROVE  step[g][s] = step[h][s]
    <3>1. s # <<>> => g[Tail(s)] = h[Tail(s)]
      BY <1>2, <2>3
    <3>2. body(g, s) = body(h, s)
      BY <3>1
    <3> QED
      BY <3>2
  <2> HIDE DEF step, rank, A, V
  <2> QED
    BY <2>1, <2>2, <2>3 DEF Causal
<1>5. PICK F \in [A -> V] : F = step[F]
  <2> HIDE DEF step, rank, A, V
  <2> QED BY <1>1, <1>4, RecursionFixpoint
<1>6. F = [s \in A |-> body(F, s)]
  BY <1>5
<1> QED
  BY <1>6 DEF FlatMapDef

\* A sequence that is not empty has a head and a tail.
LEMMA ConsSeq ==
  ASSUME NEW S, NEW s \in Seq(S), NEW n \in Nat, Len(s) = n + 1
  PROVE  /\ s # <<>>
         /\ Head(s) \in S /\ Tail(s) \in Seq(S) /\ Len(Tail(s)) = n
         /\ Head(s) = s[1] /\ \A i \in DOMAIN Tail(s) : i + 1 \in DOMAIN s /\ Tail(s)[i] = s[i + 1]
         /\ 1 \in DOMAIN s
BY HeadTailProperties

\* The function that such a definition defines.
LEMMA FlatMapDefined ==
  ASSUME NEW S, NEW T, NEW c \in [S -> Seq(T)], NEW F, FlatMapDef(F, c, S)
  PROVE  IsFlatMap(F, c, S, T)
<1> DEFINE Q == {n \in Nat : \A t \in Seq(S) : Len(t) = n => F[t] \in Seq(T)}
<1>0. \A t \in Seq(S) : F[t] = IF t = <<>> THEN <<>> ELSE c[Head(t)] \o F[Tail(t)]
  BY DEF FlatMapDef
<1>1. 0 \in Q
  <2> SUFFICES ASSUME NEW t \in Seq(S), Len(t) = 0 PROVE F[t] \in Seq(T)
    OBVIOUS
  <2>1. t = <<>> /\ <<>> \in Seq(T)
    BY EmptySeq
  <2> QED
    BY <1>0, <2>1
<1>2. ASSUME NEW n \in Nat, n \in Q PROVE n + 1 \in Q
  <2> SUFFICES ASSUME NEW t \in Seq(S), Len(t) = n + 1 PROVE F[t] \in Seq(T)
    OBVIOUS
  <2>1. t # <<>> /\ Tail(t) \in Seq(S) /\ Len(Tail(t)) = n /\ Head(t) \in S
    BY ConsSeq
  <2>2. F[t] = c[Head(t)] \o F[Tail(t)] /\ c[Head(t)] \in Seq(T) /\ F[Tail(t)] \in Seq(T)
    BY <1>0, <1>2, <2>1
  <2> QED
    BY <2>2, ConcatProperties
<1>3. \A n \in Nat : n \in Q
  <2> HIDE DEF Q
  <2> QED BY <1>1, <1>2, SetInduction
<1>4. \A t \in Seq(S) : F[t] \in Seq(T)
  BY <1>3, LenProperties
<1>5. F \in [Seq(S) -> Seq(T)]
  BY <1>4 DEF FlatMapDef
<1> QED
  BY <1>0, <1>5 DEF IsFlatMap

\* Sequences whose elements are mapped alike come out alike.
LEMMA FlatMapEqual ==
  ASSUME NEW T, NEW S1, NEW c1, NEW F1, IsFlatMap(F1, c1, S1, T),
         NEW S2, NEW c2, NEW F2, IsFlatMap(F2, c2, S2, T),
         NEW s1 \in Seq(S1), NEW s2 \in Seq(S2), Len(s1) = Len(s2),
         \A i \in DOMAIN s1 : c1[s1[i]] = c2[s2[i]]
  PROVE  F1[s1] = F2[s2]
<1> DEFINE Alike(t1, t2) == Len(t1) = Len(t2) /\ \A i \in DOMAIN t1 : c1[t1[i]] = c2[t2[i]]
           Q == {n \in Nat : \A t1 \in Seq(S1), t2 \in Seq(S2) :
                               Len(t1) = n /\ Alike(t1, t2) => F1[t1] = F2[t2]}
<1>1. 0 \in Q
  <2> SUFFICES ASSUME NEW t1 \in Seq(S1), NEW t2 \in Seq(S2), Len(t1) = 0, Len(t2) = 0
               PROVE  F1[t1] = F2[t2]
    OBVIOUS
  <2>1. t1 = <<>> /\ t2 = <<>>
    BY EmptySeq
  <2> QED
    BY <2>1 DEF IsFlatMap
<1>2. ASSUME NEW n \in Nat, n \in Q PROVE n + 1 \in Q
  <2> SUFFICES ASSUME NEW t1 \in Seq(S1), NEW t2 \in Seq(S2),
                      Len(t1) = n + 1, Alike(t1, t2)
               PROVE  F1[t1] = F2[t2]
    OBVIOUS
  <2>1. /\ t1 # <<>> /\ Tail(t1) \in Seq(S1) /\ Len(Tail(t1)) = n /\ Head(t1) = t1[1]
        /\ \A i \in DOMAIN Tail(t1) : i + 1 \in DOMAIN t1 /\ Tail(t1)[i] = t1[i + 1]
        /\ 1 \in DOMAIN t1
    BY ConsSeq
  <2>2. /\ t2 # <<>> /\ Tail(t2) \in Seq(S2) /\ Len(Tail(t2)) = n /\ Head(t2) = t2[1]
        /\ \A i \in DOMAIN Tail(t2) : i + 1 \in DOMAIN t2 /\ Tail(t2)[i] = t2[i + 1]
    BY ConsSeq
  <2>3. DOMAIN Tail(t1) = DOMAIN Tail(t2)
    BY <2>1, <2>2
  <2>4. Alike(Tail(t1), Tail(t2))
    BY <2>1, <2>2, <2>3
  <2>5. F1[Tail(t1)] = F2[Tail(t2)]
    BY <1>2, <2>1, <2>2, <2>4
  <2>6. c1[Head(t1)] = c2[Head(t2)]
    BY <2>1, <2>2
  <2>7. F1[t1] = c1[Head(t1)] \o F1[Tail(t1)]
    BY <2>1 DEF IsFlatMap
  <2>8. F2[t2] = c2[Head(t2)] \o F2[Tail(t2)]
    BY <2>2 DEF IsFlatMap
  <2> QED
    BY <2>5, <2>6, <2>7, <2>8
<1>3. Alike(s1, s2) /\ Len(s1) \in Nat
  BY LenProperties
<1> HIDE DEF Alike
<1>4. Len(s1) \in Q
  <2> HIDE DEF Q
  <2> QED BY <1>1, <1>2, <1>3, SetInduction
<1> QED
  BY <1>3, <1>4

\* What comes out came from the elements.
LEMMA FlatMapElements ==
  ASSUME NEW T, NEW S, NEW c, NEW F, IsFlatMap(F, c, S, T), NEW s \in Seq(S),
         NEW P, \A i \in DOMAIN s : ToSet(c[s[i]]) \subseteq P
  PROVE  ToSet(F[s]) \subseteq P
<1> DEFINE Q == {n \in Nat : \A t \in Seq(S) :
                   Len(t) = n /\ (\A i \in DOMAIN t : ToSet(c[t[i]]) \subseteq P)
                     => ToSet(F[t]) \subseteq P}
<1>1. 0 \in Q
  <2> SUFFICES ASSUME NEW t \in Seq(S), Len(t) = 0 PROVE ToSet(F[t]) = {}
    OBVIOUS
  <2>1. t = <<>>
    BY EmptySeq
  <2>2. F[t] = <<>>
    BY <2>1 DEF IsFlatMap
  <2> QED
    BY <2>2 DEF ToSet
<1>2. ASSUME NEW n \in Nat, n \in Q PROVE n + 1 \in Q
  <2> SUFFICES ASSUME NEW t \in Seq(S), Len(t) = n + 1,
                      \A i \in DOMAIN t : ToSet(c[t[i]]) \subseteq P
               PROVE  ToSet(F[t]) \subseteq P
    OBVIOUS
  <2>1. /\ t # <<>> /\ Tail(t) \in Seq(S) /\ Len(Tail(t)) = n /\ Head(t) = t[1] /\ Head(t) \in S
        /\ \A i \in DOMAIN Tail(t) : i + 1 \in DOMAIN t /\ Tail(t)[i] = t[i + 1]
        /\ 1 \in DOMAIN t
    BY ConsSeq
  <2>2. ToSet(F[Tail(t)]) \subseteq P /\ ToSet(c[Head(t)]) \subseteq P
    BY <1>2, <2>1
  <2>3. F[t] = c[Head(t)] \o F[Tail(t)] /\ c[Head(t)] \in Seq(T) /\ F[Tail(t)] \in Seq(T)
    BY <2>1 DEF IsFlatMap
  <2>4. \A a, b \in Seq(T) : ToSet(a) \subseteq P /\ ToSet(b) \subseteq P => ToSet(a \o b) \subseteq P
    BY DEF ToSet
  <2> QED
    BY <2>2, <2>3, <2>4
<1>3. Len(s) \in Nat
  BY LenProperties
<1>4. Len(s) \in Q
  <2> HIDE DEF Q
  <2> QED BY <1>1, <1>2, <1>3, SetInduction
<1> QED
  BY <1>4

\* The elements of two sequences, one after the other.
LEMMA ConcatSet ==
  ASSUME NEW T, NEW a \in Seq(T), NEW b \in Seq(T)
  PROVE  ToSet(a \o b) = ToSet(a) \cup ToSet(b)
<1>1. /\ a \o b \in Seq(T) /\ Len(a \o b) = Len(a) + Len(b)
      /\ \A i \in 1..Len(a) : (a \o b)[i] = a[i]
      /\ \A i \in 1..Len(b) : (a \o b)[Len(a) + i] = b[i]
  OBVIOUS
<1>2. /\ DOMAIN a = 1..Len(a) /\ DOMAIN b = 1..Len(b) /\ DOMAIN (a \o b) = 1..(Len(a) + Len(b))
      /\ Len(a) \in Nat /\ Len(b) \in Nat
  BY <1>1
<1> DEFINE w == a \o b
<1> HIDE DEF w
<1>3. \A i \in 1..Len(w) : (i \in 1..Len(a) /\ w[i] = a[i])
                           \/ (i - Len(a) \in 1..Len(b) /\ w[i] = b[i - Len(a)])
  <2> SUFFICES ASSUME NEW i \in 1..Len(w), ~(i \in 1..Len(a))
               PROVE  i - Len(a) \in 1..Len(b) /\ w[i] = b[i - Len(a)]
    BY <1>1 DEF w
  <2>1. i - Len(a) \in 1..Len(b) /\ Len(a) + (i - Len(a)) = i
    BY <1>1, <1>2 DEF w
  <2>2. w[Len(a) + (i - Len(a))] = b[i - Len(a)]
    BY <1>1, <2>1, Zenon DEF w
  <2> QED
    BY <2>1, <2>2
<1>4. (\A i \in 1..Len(a) : i \in DOMAIN w /\ w[i] = a[i])
      /\ \A i \in 1..Len(b) : Len(a) + i \in DOMAIN w /\ w[Len(a) + i] = b[i]
  BY <1>1, <1>2 DEF w
<1>5. DOMAIN w = 1..Len(w)
  BY <1>1, <1>2 DEF w
<1>6. ToSet(w) \subseteq ToSet(a) \cup ToSet(b)
  BY <1>2, <1>3, <1>5, Zenon DEF ToSet
<1>7. ToSet(a) \subseteq ToSet(w) /\ ToSet(b) \subseteq ToSet(w)
  BY <1>2, <1>4, Zenon DEF ToSet
<1> QED
  BY <1>6, <1>7 DEF w

\* The elements that come out of a flat map, exactly.
LEMMA FlatMapSet ==
  ASSUME NEW T, NEW S, NEW c, NEW F, IsFlatMap(F, c, S, T), NEW s \in Seq(S)
  PROVE  ToSet(F[s]) = UNION {ToSet(c[s[i]]) : i \in DOMAIN s}
<1> DEFINE U(t) == UNION {ToSet(c[t[i]]) : i \in DOMAIN t}
           Q == {n \in Nat : \A t \in Seq(S) : Len(t) = n => ToSet(F[t]) = U(t)}
<1> HIDE DEF U
<1>1. 0 \in Q
  <2> SUFFICES ASSUME NEW t \in Seq(S), Len(t) = 0 PROVE ToSet(F[t]) = U(t)
    OBVIOUS
  <2>1. t = <<>>
    BY EmptySeq
  <2>2. F[t] = <<>>
    BY <2>1 DEF IsFlatMap
  <2>3. ToSet(F[t]) = {}
    BY <2>2 DEF ToSet
  <2>4. DOMAIN t = {}
    BY <2>1
  <2> QED
    BY <2>3, <2>4 DEF U
<1>2. ASSUME NEW n \in Nat, n \in Q PROVE n + 1 \in Q
  <2> SUFFICES ASSUME NEW t \in Seq(S), Len(t) = n + 1 PROVE ToSet(F[t]) = U(t)
    OBVIOUS
  <2> DEFINE h == Head(t)
             r == Tail(t)
  <2>1. /\ t # <<>> /\ r \in Seq(S) /\ Len(r) = n /\ h = t[1] /\ h \in S /\ 1 \in DOMAIN t
        /\ \A i \in DOMAIN r : i + 1 \in DOMAIN t /\ r[i] = t[i + 1]
    BY ConsSeq
  <2>2. F[t] = c[h] \o F[r] /\ c[h] \in Seq(T) /\ F[r] \in Seq(T)
    BY <2>1 DEF IsFlatMap
  <2>3. \A a, b \in Seq(T) : ToSet(a \o b) = ToSet(a) \cup ToSet(b)
    BY ConcatSet
  <2>4. DOMAIN t = 1..(n + 1) /\ DOMAIN r = 1..n
    BY <2>1
  <2> HIDE DEF h, r
  <2>5. ToSet(F[r]) = U(r)
    BY <1>2, <2>1
  <2>6. \A i \in DOMAIN t : i = 1 \/ (i - 1 \in DOMAIN r /\ t[i] = r[i - 1])
    <3> SUFFICES ASSUME NEW i \in DOMAIN t, i # 1 PROVE i - 1 \in DOMAIN r /\ t[i] = r[i - 1]
      OBVIOUS
    <3>1. i - 1 \in DOMAIN r /\ (i - 1) + 1 = i
      BY <2>4
    <3> QED
      BY <2>1, <3>1
  <2>7. U(t) = ToSet(c[h]) \cup U(r)
    <3>1. ASSUME NEW x, x \in U(t) PROVE x \in ToSet(c[h]) \cup U(r)
      <4>1. PICK i \in DOMAIN t : x \in ToSet(c[t[i]])
        BY <3>1 DEF U
      <4> QED
        BY <2>1, <2>6, <4>1 DEF U
    <3>2. ASSUME NEW x, x \in U(r) PROVE x \in U(t)
      <4>1. PICK i \in DOMAIN r : x \in ToSet(c[r[i]])
        BY <3>2 DEF U
      <4>2. i + 1 \in DOMAIN t /\ r[i] = t[i + 1]
        BY <2>1
      <4> QED
        BY <4>1, <4>2 DEF U
    <3>3. ToSet(c[h]) \subseteq U(t)
      BY <2>1 DEF U
    <3> QED
      BY <3>1, <3>2, <3>3
  <2> QED
    BY <2>2, <2>3, <2>5, <2>7
<1>3. Len(s) \in Nat
  BY LenProperties
<1>4. Len(s) \in Q
  <2> HIDE DEF Q
  <2> QED BY <1>1, <1>2, <1>3, SetInduction
<1>5. ToSet(F[s]) = U(s)
  BY <1>4
<1> QED
  BY <1>5 DEF U

\* Sequences of no and of one element.
LEMMA SmallSeq ==
  ASSUME NEW S
  PROVE  <<>> \in Seq(S) /\ \A x \in S : <<x>> \in Seq(S)
<1>1. <<>> \in Seq(S)
  BY EmptySeq
<1>2. ASSUME NEW x \in S PROVE <<x>> \in Seq(S)
  OBVIOUS
<1> QED
  BY <1>1, <1>2

\* An element of a sequence is its head or one of the others.
LEMMA ConsElement ==
  ASSUME NEW S, NEW s \in Seq(S), NEW x, NEW i \in DOMAIN (<<x>> \o s)
  PROVE  (<<x>> \o s)[i] = x \/ \E k \in DOMAIN s : (<<x>> \o s)[i] = s[k]
<1> SUFFICES ASSUME i # 1 PROVE i - 1 \in DOMAIN s /\ (<<x>> \o s)[i] = s[i - 1]
  OBVIOUS
<1> QED
  OBVIOUS

=============================================================================
