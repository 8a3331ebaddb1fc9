------------------------- MODULE ResolvConfProofs --------------------------
(***************************************************************************)
(* What updateResolvConf makes of the contents of /etc/resolv.conf, for    *)
(* contents of any length.  The functions of module ResolvConf are         *)
(* recursive; module RecursionProofs has what their proofs rest on.        *)
(***************************************************************************)
EXTENDS ResolvConf, RecursionProofs

-----------------------------------------------------------------------------
(* The functions of module ResolvConf *)

\* What Joined, Kept, Uncomment and ServersIn make of one element.
lineOf == [line \in Text |-> line]
keptOf == [line \in Text |-> IF Added(line) THEN <<>> ELSE line]
tokenOf == [token \in Token |-> IF token = "disabled" THEN <<>> ELSE <<token>>]
serverOf == [line \in Text |-> Server(line)]

\* Each of them maps the elements of a sequence and joins what comes out.
LEMMA JoinedIs == IsFlatMap(Joined, lineOf, Text, Token)
<1> DEFINE eq(F) == F = [s \in Seq(Text) |-> IF s = <<>> THEN <<>> ELSE Head(s) \o F[Tail(s)]]
<1>1. lineOf \in [Text -> Seq(Token)]
  BY DEF lineOf, Text
<1>2. \A F : eq(F) <=> FlatMapDef(F, lineOf, Text)
  <2>1. \A s \in Seq(Text) : s # <<>> => lineOf[Head(s)] = Head(s)
    BY HeadTailProperties DEF lineOf
  <2> QED
    BY <2>1 DEF FlatMapDef
<1>3. \E F : eq(F)
  BY <1>1, <1>2, FlatMapExists
<1>4. eq(Joined)
  BY <1>3 DEF Joined
<1> QED
  BY <1>1, <1>2, <1>4, FlatMapDefined

\* Kept drops the lines that were added.
LEMMA KeptIs == IsFlatMap(Kept, keptOf, Text, Token)
<1> DEFINE eq(F) == F = [s \in Seq(Text) |-> IF s = <<>> THEN <<>> ELSE (IF Added(Head(s)) THEN <<>> ELSE Head(s)) \o F[Tail(s)]]
<1>1. keptOf \in [Text -> Seq(Token)]
  <2>1. <<>> \in Seq(Token)
    BY EmptySeq
  <2> QED
    BY <2>1 DEF keptOf, Text
<1>2. \A F : eq(F) <=> FlatMapDef(F, keptOf, Text)
  <2>1. \A s \in Seq(Text) : s # <<>> => keptOf[Head(s)] = (IF Added(Head(s)) THEN <<>> ELSE Head(s))
    BY HeadTailProperties DEF keptOf
  <2> QED
    BY <2>1 DEF FlatMapDef
<1>3. \E F : eq(F)
  BY <1>1, <1>2, FlatMapExists
<1>4. eq(Kept)
  BY <1>3 DEF Kept
<1> QED
  BY <1>1, <1>2, <1>4, FlatMapDefined

\* Uncomment drops the marks of disabled lines.
LEMMA UncommentIs == IsFlatMap(Uncomment, tokenOf, Token, Token)
<1> DEFINE eq(F) == F = [s \in Seq(Token) |-> IF s = <<>> THEN <<>> ELSE (IF Head(s) = "disabled" THEN <<>> ELSE <<Head(s)>>) \o F[Tail(s)]]
<1>1. tokenOf \in [Token -> Seq(Token)]
  <2>1. <<>> \in Seq(Token) /\ \A token \in Token : <<token>> \in Seq(Token)
    BY SmallSeq
  <2> QED
    BY <2>1 DEF tokenOf
<1>2. \A F : eq(F) <=> FlatMapDef(F, tokenOf, Token)
  <2>1. \A s \in Seq(Token) : s # <<>> => tokenOf[Head(s)] = (IF Head(s) = "disabled" THEN <<>> ELSE <<Head(s)>>)
    BY HeadTailProperties DEF tokenOf
  <2> QED
    BY <2>1 DEF FlatMapDef
<1>3. \E F : eq(F)
  BY <1>1, <1>2, FlatMapExists
<1>4. eq(Uncomment)
  BY <1>3 DEF Uncomment, Text
<1> QED
  BY <1>1, <1>2, <1>4, FlatMapDefined

\* ServersIn picks the address of each line that has one.
LEMMA ServersInIs == IsFlatMap(ServersIn, serverOf, Text, Token)
<1> DEFINE eq(F) == F = [s \in Seq(Text) |-> IF s = <<>> THEN <<>> ELSE Server(Head(s)) \o F[Tail(s)]]
<1>1. serverOf \in [Text -> Seq(Token)]
  <2>1. <<>> \in Seq(Token) /\ \A token \in Token : <<token>> \in Seq(Token)
    BY SmallSeq
  <2>2. \A line \in Text : Len(line) > 1 => line[2] \in Token
    BY DEF Text
  <2>3. \A line \in Text : Server(line) \in Seq(Token)
    BY <2>1, <2>2 DEF Server
  <2> QED
    BY <2>3 DEF serverOf
<1>2. \A F : eq(F) <=> FlatMapDef(F, serverOf, Text)
  <2>1. \A s \in Seq(Text) : s # <<>> => serverOf[Head(s)] = Server(Head(s))
    BY HeadTailProperties DEF serverOf
  <2> QED
    BY <2>1 DEF FlatMapDef
<1>3. \E F : eq(F)
  BY <1>1, <1>2, FlatMapExists
<1>4. eq(ServersIn)
  BY <1>3 DEF ServersIn
<1> QED
  BY <1>1, <1>2, <1>4, FlatMapDefined

\* e is where the first line of f ends.
Ends(f, e) ==
  /\ e \in DOMAIN f
  /\ f[e] = "newline" \/ e = Len(f)
  /\ \A k \in 1..(e - 1) : f[k] # "newline"

\* The first line of contents that are not empty ends somewhere, once.
LEMMA OneEnd ==
  ASSUME NEW f \in Text, f # <<>>
  PROVE  /\ \E e : Ends(f, e)
         /\ \A e, d : Ends(f, e) /\ Ends(f, d) => e = d
<1> DEFINE S == {i \in DOMAIN f : f[i] = "newline" \/ i = Len(f)}
<1>1. DOMAIN f = 1..Len(f) /\ Len(f) \in Nat /\ Len(f) # 0
  BY EmptySeq, LenProperties DEF Text
<1>2. S \in SUBSET Nat /\ Len(f) \in S
  BY <1>1
<1>3. PICK e \in S : \A u \in S : ~(u < e)
  BY <1>2, LeastElement
<1>4. Ends(f, e)
  BY <1>1, <1>3 DEF Ends
<1>5. ASSUME NEW i, NEW j, Ends(f, i), Ends(f, j), i < j PROVE FALSE
  BY <1>1, <1>5 DEF Ends
<1>6. ASSUME NEW i, NEW j, Ends(f, i), Ends(f, j) PROVE i = j
  <2>1. i \in Nat /\ j \in Nat
    BY <1>1, <1>6 DEF Ends
  <2>2. ~(i < j) /\ ~(j < i)
    BY <1>5, <1>6
  <2> QED
    BY <2>1, <2>2
<1> QED
  BY <1>4, <1>6

\* What Lines makes of contents, by their first line.
LEMMA LinesIs ==
  /\ Lines \in [Text -> Seq(Text)]
  /\ Lines[<<>>] = <<>>
  /\ \A f \in Text : \A e : Ends(f, e) =>
       Lines[f] = <<SubSeq(f, 1, e)>> \o Lines[SubSeq(f, e + 1, Len(f))]
<1> DEFINE V == Seq(Text)
           end(f) == CHOOSE i \in DOMAIN f :
                       /\ f[i] = "newline" \/ i = Len(f)
                       /\ \A k \in 1..(i - 1) : f[k] # "newline"
           body(g, f) == IF f = <<>> THEN <<>>
                         ELSE <<SubSeq(f, 1, end(f))>> \o g[SubSeq(f, end(f) + 1, Len(f))]
           step == [g \in [Text -> V] |-> [f \in Text |-> body(g, f)]]
           rank == [f \in Text |-> Len(f)]
<1>1. <<>> \in V /\ V # {} /\ <<>> \in Text
  <2>1. <<>> \in Seq(Text) /\ <<>> \in Seq(Token)
    BY EmptySeq
  <2> QED
    BY <2>1 DEF Text
<1>2. \A f \in Text : f # <<>> => Ends(f, end(f))
  BY OneEnd DEF Ends
<1> HIDE DEF end
<1>3. ASSUME NEW f \in Text, f # <<>>
      PROVE  /\ SubSeq(f, 1, end(f)) \in Text
             /\ SubSeq(f, end(f) + 1, Len(f)) \in Text
             /\ Len(SubSeq(f, end(f) + 1, Len(f))) < Len(f)
  <2>1. end(f) \in 1..Len(f) /\ Len(f) \in Nat
    BY <1>2, <1>3, LenProperties DEF Ends, Text
  <2> QED
    BY <2>1 DEF Text
<1>4. \A g \in [Text -> V], f \in Text : body(g, f) \in V
  <2> SUFFICES ASSUME NEW g \in [Text -> V], NEW f \in Text, f # <<>>
               PROVE  <<SubSeq(f, 1, end(f))>> \o g[SubSeq(f, end(f) + 1, Len(f))] \in V
    BY <1>1
  <2>1. g[SubSeq(f, end(f) + 1, Len(f))] \in Seq(Text)
    BY <1>3
  <2>2. <<SubSeq(f, 1, end(f))>> \in Seq(Text)
    BY <1>3, SmallSeq
  <2> QED
    BY <2>1, <2>2, ConcatProperties
<1>5. Causal(step, rank, Text, V)
  <2>1. rank \in [Text -> Nat]
    BY LenProperties DEF Text
  <2>2. step \in [[Text -> V] -> [Text -> V]]
    BY <1>4
  <2>3. ASSUME NEW g \in [Text -> V], NEW h \in [Text -> V], NEW f \in Text,
               \A y \in Text : rank[y] < rank[f] => g[y] = h[y]
        PROVE  step[g][f] = step[h][f]
    <3>1. f # <<>> => g[SubSeq(f, end(f) + 1, Len(f))] = h[SubSeq(f, end(f) + 1, Len(f))]
      BY <1>3, <2>3
    <3>2. body(g, f) = body(h, f)
      BY <3>1
    <3> QED
      BY <3>2
  <2> HIDE DEF step, rank, V
  <2> QED
    BY <2>1, <2>2, <2>3 DEF Causal
<1>6. PICK F \in [Text -> V] : F = step[F]
  <2> HIDE DEF step, rank, V
  <2> QED BY <1>1, <1>5, RecursionFixpoint
<1> DEFINE eq(G) == G = [f \in Text |-> body(G, f)]
<1>7. eq(F)
  BY <1>6
<1>8. eq(Lines)
  BY <1>7 DEF Lines, end
<1>9. Lines \in [Text -> V]
  <2> DEFINE Q == {n \in Nat : \A f \in Text : Len(f) < n => Lines[f] \in V}
  <2>1. \A f \in Text : Lines[f] = body(Lines, f) /\ Len(f) \in Nat
    BY <1>8, LenProperties DEF Text
  <2>2. 0 \in Q
    BY <2>1
  <2>3. ASSUME NEW n \in Nat, n \in Q PROVE n + 1 \in Q
    <3> SUFFICES ASSUME NEW f \in Text, Len(f) < n + 1 PROVE Lines[f] \in V
      OBVIOUS
    <3>1. CASE f = <<>>
      BY <1>1, <2>1, <3>1
    <3>2. CASE f # <<>>
      <4>1. Len(SubSeq(f, end(f) + 1, Len(f))) < n
        <5> DEFINE k == Len(SubSeq(f, end(f) + 1, Len(f)))
        <5>1. k < Len(f)
          BY <1>3, <3>2
        <5>2. k \in Nat /\ Len(f) \in Nat
          BY <1>3, <3>2, LenProperties DEF Text
        <5> HIDE DEF k
        <5>3. k < n
          BY <5>1, <5>2
        <5> QED
          BY <5>3 DEF k
      <4>2. Lines[SubSeq(f, end(f) + 1, Len(f))] \in Seq(Text)
        BY <1>3, <2>3, <3>2, <4>1
      <4>3. <<SubSeq(f, 1, end(f))>> \in Seq(Text)
        BY <1>3, <3>2, SmallSeq
      <4>4. <<SubSeq(f, 1, end(f))>> \o Lines[SubSeq(f, end(f) + 1, Len(f))] \in Seq(Text)
        BY <4>2, <4>3, ConcatProperties
      <4> QED
        BY <2>1, <3>2, <4>4
    <3> QED
      BY <3>1, <3>2
  <2>4. \A n \in Nat : n \in Q
    <3> HIDE DEF Q
    <3> QED BY <2>2, <2>3, SetInduction
  <2>5. \A f \in Text : Lines[f] \in V
    <3> SUFFICES ASSUME NEW f \in Text PROVE Lines[f] \in V
      OBVIOUS
    <3>1. Len(f) + 1 \in Q /\ Len(f) < Len(f) + 1
      BY <2>1, <2>4
    <3> QED
      BY <3>1
  <2> QED
    BY <1>8, <2>5
<1>10. ASSUME NEW f \in Text, NEW e, Ends(f, e)
       PROVE  Lines[f] = <<SubSeq(f, 1, e)>> \o Lines[SubSeq(f, e + 1, Len(f))]
  <2>1. f # <<>>
    BY <1>10 DEF Ends
  <2>2. e = end(f)
    BY <1>2, <1>10, <2>1, OneEnd
  <2> QED
    BY <1>8, <2>1, <2>2
<1>11. Lines[<<>>] = <<>>
  BY <1>1, <1>8
<1> QED
  BY <1>9, <1>10, <1>11

-----------------------------------------------------------------------------
(* Contents and their lines *)

\* "newline" ends a line and occurs nowhere else in it.
IsLine(l) == l \in Text /\ l # <<>> /\ \A k \in 1..(Len(l) - 1) : l[k] # "newline"
Closed(l) == l[Len(l)] = "newline"

\* Only the last line may lack its end.
Proper(ls) ==
  /\ ls \in Seq(Text)
  /\ \A i \in DOMAIN ls : IsLine(ls[i]) /\ (i < Len(ls) => Closed(ls[i]))

\* A complete line may precede any proper lines.
LEMMA ProperCons ==
  ASSUME NEW l, IsLine(l), NEW ls, Proper(ls), Closed(l) \/ ls = <<>>
  PROVE  Proper(<<l>> \o ls)
<1>1. l \in Text /\ ls \in Seq(Text)
  BY DEF IsLine, Proper
<1>2. <<l>> \o ls \in Seq(Text) /\ Len(<<l>> \o ls) = Len(ls) + 1 /\ Len(ls) \in Nat
  BY <1>1
<1>3. /\ (<<l>> \o ls)[1] = l
      /\ \A i \in 2..(Len(ls) + 1) : (<<l>> \o ls)[i] = ls[i - 1] /\ i - 1 \in DOMAIN ls
  BY <1>1
<1>4. ls = <<>> => Len(ls) = 0
  OBVIOUS
<1>5. ASSUME NEW i \in DOMAIN (<<l>> \o ls)
      PROVE  /\ IsLine((<<l>> \o ls)[i])
             /\ i < Len(<<l>> \o ls) => Closed((<<l>> \o ls)[i])
  <2>1. i = 1 \/ i \in 2..(Len(ls) + 1)
    BY <1>2
  <2>2. CASE i = 1
    BY <1>2, <1>3, <1>4, <2>2
  <2>3. CASE i \in 2..(Len(ls) + 1)
    <3>1. i < Len(<<l>> \o ls) => i - 1 < Len(ls)
      BY <1>2, <2>3
    <3> QED
      BY <1>3, <2>3, <3>1 DEF Proper
  <2> QED
    BY <2>1, <2>2, <2>3
<1> QED
  BY <1>2, <1>5 DEF Proper

\* Proper lines are a first line and proper lines after it.
LEMMA ProperTail ==
  ASSUME NEW ls, Proper(ls), NEW n \in Nat, Len(ls) = n + 1
  PROVE  /\ IsLine(Head(ls)) /\ Proper(Tail(ls)) /\ Len(Tail(ls)) = n
         /\ Closed(Head(ls)) \/ Tail(ls) = <<>>
         /\ ls = <<Head(ls)>> \o Tail(ls)
<1>1. ls \in Seq(Text)
  BY DEF Proper
<1>2. /\ ls # <<>> /\ Tail(ls) \in Seq(Text) /\ Len(Tail(ls)) = n /\ Head(ls) = ls[1]
      /\ \A i \in DOMAIN Tail(ls) : i + 1 \in DOMAIN ls /\ Tail(ls)[i] = ls[i + 1]
      /\ 1 \in DOMAIN ls
  BY <1>1, ConsSeq
<1>3. IsLine(Head(ls)) /\ (n > 0 => Closed(Head(ls)))
  BY <1>2 DEF Proper
<1>4. n = 0 => Tail(ls) = <<>>
  BY <1>2, EmptySeq
<1>5. Proper(Tail(ls))
  <2> SUFFICES ASSUME NEW i \in DOMAIN Tail(ls)
               PROVE  IsLine(Tail(ls)[i]) /\ (i < n => Closed(Tail(ls)[i]))
    BY <1>2 DEF Proper
  <2>1. i \in Nat
    BY <1>2
  <2> QED
    BY <1>2, <2>1 DEF Proper
<1>6. ls = <<Head(ls)>> \o Tail(ls)
  BY <1>1, <1>2
<1> QED
  BY <1>2, <1>3, <1>4, <1>5, <1>6

\* The contents cut into the first line, of e tokens, and the rest.
Cut(f, e, l, r) ==
  /\ IsLine(l) /\ r \in Text /\ Len(r) \in Nat /\ Len(r) < Len(f)
  /\ Closed(l) \/ r = <<>>
  /\ l \o r = f
  /\ Len(l) = e /\ (\A i \in 1..e : l[i] = f[i])
  /\ Len(r) = Len(f) - e /\ (\A i \in DOMAIN r : i + e \in DOMAIN f /\ r[i] = f[i + e])

\* The line before a line end and what is after it cut the contents in two.
LEMMA FirstLine ==
  ASSUME NEW f \in Text, NEW e, Ends(f, e)
  PROVE  Cut(f, e, SubSeq(f, 1, e), SubSeq(f, e + 1, Len(f)))
<1> DEFINE l == SubSeq(f, 1, e)
           r == SubSeq(f, e + 1, Len(f))
<1>1. f \in Seq(Token) /\ e \in 1..Len(f) /\ Len(f) \in Nat
  BY LenProperties DEF Ends, Text
<1>2. l \in Text /\ Len(l) = e /\ \A i \in 1..e : l[i] = f[i]
  BY <1>1 DEF Text
<1>3. r \in Text /\ Len(r) = Len(f) - e /\ \A i \in 1..(Len(f) - e) : r[i] = f[i + e]
  BY <1>1 DEF Text
<1>4. l \o r = f
  <2>1. l \o r \in Seq(Token) /\ Len(l \o r) = Len(f)
    BY <1>1, <1>2, <1>3 DEF Text
  <2>2. \A i \in 1..Len(f) : (l \o r)[i] = f[i]
    BY <1>1, <1>2, <1>3
  <2> HIDE DEF l, r
  <2> QED
    BY <1>1, <2>1, <2>2, SeqEqual
<1> HIDE DEF l, r
<1>5. IsLine(l)
  BY <1>1, <1>2 DEF IsLine, Ends
<1>6. Closed(l) \/ r = <<>>
  <2>1. CASE f[e] = "newline"
    BY <1>1, <1>2, <2>1 DEF Closed
  <2>2. CASE e = Len(f)
    BY <1>1, <1>3, <2>2, EmptySeq DEF Text
  <2> QED
    BY <2>1, <2>2 DEF Ends
<1>7. DOMAIN r = 1..(Len(f) - e) /\ DOMAIN f = 1..Len(f)
  BY <1>1, <1>3 DEF Text
<1>8. Len(r) \in Nat /\ Len(r) < Len(f)
  BY <1>1, <1>3
<1>9. \A i \in DOMAIN r : i + e \in DOMAIN f
  BY <1>1, <1>7
<1>10. \A i \in DOMAIN r : r[i] = f[i + e]
  BY <1>3, <1>7, Zenon
<1>11. Cut(f, e, l, r)
  BY <1>2, <1>3, <1>4, <1>5, <1>6, <1>8, <1>9, <1>10, Zenon DEF Cut
<1> QED
  BY <1>11 DEF l, r

\* One line in front of others.
LEMMA JoinedCons ==
  ASSUME NEW l \in Text, NEW ls \in Seq(Text)
  PROVE  /\ Joined[<<l>> \o ls] = l \o Joined[ls]
         /\ Joined[ls] \in Text
         /\ Joined[<<>>] = <<>>
         /\ ls # <<>> => Joined[ls] = Head(ls) \o Joined[Tail(ls)]
<1>1. lineOf[l] = l /\ (ls # <<>> => lineOf[Head(ls)] = Head(ls))
  BY HeadTailProperties DEF lineOf
<1>2. Joined[<<l>> \o ls] = lineOf[l] \o Joined[ls] /\ Joined[<<>>] = <<>>
  <2>1. /\ <<l>> \o ls \in Seq(Text) /\ <<l>> \o ls # <<>>
        /\ Head(<<l>> \o ls) = l /\ Tail(<<l>> \o ls) = ls
    OBVIOUS
  <2>2. <<>> \in Seq(Text)
    BY EmptySeq
  <2> QED
    BY <2>1, <2>2, JoinedIs DEF IsFlatMap
<1>3. Joined[ls] \in Text /\ (ls # <<>> => Joined[ls] = lineOf[Head(ls)] \o Joined[Tail(ls)])
  BY JoinedIs DEF IsFlatMap, Text
<1> QED
  BY <1>1, <1>2, <1>3

\* Joining the lines of contents gives the contents.
LEMMA LinesProper ==
  ASSUME NEW u \in Text
  PROVE  Proper(Lines[u]) /\ Joined[Lines[u]] = u
<1> DEFINE Good(f) == Proper(Lines[f]) /\ Joined[Lines[f]] = f
           Q == {n \in Nat : \A f \in Text : Len(f) < n => Good(f)}
<1>0. \A f \in Text : Len(f) \in Nat
  BY LenProperties DEF Text
<1>1. 0 \in Q
  BY <1>0
<1>2. ASSUME NEW n \in Nat, n \in Q PROVE n + 1 \in Q
  <2> SUFFICES ASSUME NEW f \in Text, Len(f) < n + 1 PROVE Good(f)
    OBVIOUS
  <2>1. CASE f = <<>>
    <3>1. Lines[f] = <<>> /\ <<>> \in Seq(Text)
      BY <2>1, LinesIs, EmptySeq
    <3>2. Proper(<<>>)
      BY <3>1 DEF Proper
    <3>3. Joined[<<>>] = <<>>
      BY <3>1, JoinedIs DEF IsFlatMap
    <3> QED
      BY <2>1, <3>1, <3>2, <3>3
  <2>2. CASE f # <<>>
    <3> PICK e : Ends(f, e)
      BY <2>2, OneEnd
    <3> DEFINE l == SubSeq(f, 1, e)
               r == SubSeq(f, e + 1, Len(f))
    <3>1. IsLine(l) /\ r \in Text /\ Len(r) \in Nat /\ Len(r) < Len(f) /\ (Closed(l) \/ r = <<>>) /\ l \o r = f
      <4>1. Cut(f, e, l, r)
        BY FirstLine
      <4> HIDE DEF l, r
      <4> QED BY <4>1 DEF Cut
    <3>2. Lines[f] = <<l>> \o Lines[r]
      BY LinesIs
    <3> HIDE DEF l, r
    <3>3. Good(r)
      BY <1>0, <1>2, <3>1
    <3>4. Closed(l) \/ Lines[r] = <<>>
      BY <3>1, LinesIs
    <3>5. Proper(<<l>> \o Lines[r])
      BY <3>1, <3>3, <3>4, ProperCons
    <3>6. Joined[<<l>> \o Lines[r]] = l \o Joined[Lines[r]]
      BY <3>1, <3>3, JoinedCons DEF IsLine, Proper
    <3> QED
      BY <3>1, <3>2, <3>3, <3>5, <3>6
  <2> QED
    BY <2>1, <2>2
<1>3. \A n \in Nat : n \in Q
  <2> HIDE DEF Q
  <2> QED BY <1>1, <1>2, SetInduction
<1>4. Len(u) + 1 \in Q /\ Len(u) < Len(u) + 1
  BY <1>0, <1>3
<1> HIDE DEF Good
<1>5. Good(u)
  BY <1>4
<1> QED
  BY <1>5 DEF Good

\* The lines of joined lines are the lines.
LEMMA LinesOfJoined ==
  ASSUME NEW ls, Proper(ls)
  PROVE  Lines[Joined[ls]] = ls
<1> DEFINE Q == {n \in Nat : \A t : Proper(t) /\ Len(t) = n => Lines[Joined[t]] = t}
<1>1. 0 \in Q
  <2> SUFFICES ASSUME NEW t, Proper(t), Len(t) = 0 PROVE Lines[Joined[t]] = t
    OBVIOUS
  <2>1. t = <<>> /\ t \in Seq(Text)
    BY EmptySeq DEF Proper
  <2>2. Joined[t] = <<>>
    BY <2>1, JoinedIs DEF IsFlatMap
  <2> QED
    BY <2>1, <2>2, LinesIs
<1>2. ASSUME NEW n \in Nat, n \in Q PROVE n + 1 \in Q
  <2> SUFFICES ASSUME NEW t, Proper(t), Len(t) = n + 1 PROVE Lines[Joined[t]] = t
    OBVIOUS
  <2> DEFINE l == Head(t)
             rest == Tail(t)
             g == Joined[rest]
             f == l \o g
  <2>1. /\ IsLine(l) /\ Proper(rest) /\ Len(rest) = n
        /\ Closed(l) \/ rest = <<>>
        /\ t = <<l>> \o rest
    BY ProperTail
  <2> HIDE DEF l, rest
  <2>2. l \in Text /\ rest \in Seq(Text) /\ Lines[g] = rest
    BY <1>2, <2>1 DEF IsLine, Proper
  <2>3. Joined[t] = f /\ g \in Text /\ (rest = <<>> => g = <<>>)
    BY <2>1, <2>2, JoinedCons
  <2> HIDE DEF g
  <2>4. /\ Len(l) \in Nat /\ Len(l) # 0 /\ Len(g) \in Nat /\ (g = <<>> => Len(g) = 0)
        /\ DOMAIN f = 1..(Len(l) + Len(g)) /\ Len(f) = Len(l) + Len(g) /\ f \in Text
        /\ \A i \in 1..Len(l) : f[i] = l[i]
    BY <2>1, <2>2, <2>3, EmptySeq DEF Text, IsLine
  <2>5. Ends(f, Len(l))
    BY <2>1, <2>3, <2>4 DEF Ends, IsLine, Closed
  <2>6. SubSeq(f, 1, Len(l)) = l /\ SubSeq(f, Len(l) + 1, Len(f)) = g
    BY <2>2, <2>3, <2>4, SubSeqOfConcat1, SubSeqOfConcat2 DEF Text
  <2> HIDE DEF f
  <2>7. Lines[f] = <<l>> \o Lines[g]
    BY <2>4, <2>5, <2>6, LinesIs
  <2> QED
    BY <2>1, <2>2, <2>3, <2>7
<1>3. Len(ls) \in Nat
  BY LenProperties DEF Proper
<1>4. Len(ls) \in Q
  <2> HIDE DEF Q
  <2> QED BY <1>1, <1>2, <1>3, SetInduction
<1> QED
  BY <1>4

\* The tokens of the lines are those of the contents.
LEMMA LineTokens ==
  ASSUME NEW u \in Text, NEW P, ToSet(u) \subseteq P
  PROVE  \A j \in DOMAIN Lines[u] : ToSet(Lines[u][j]) \subseteq P
<1> DEFINE Good(f) == ToSet(f) \subseteq P => \A j \in DOMAIN Lines[f] : ToSet(Lines[f][j]) \subseteq P
           Q == {n \in Nat : \A f \in Text : Len(f) < n => Good(f)}
<1>0. \A f \in Text : Len(f) \in Nat
  BY LenProperties DEF Text
<1>1. 0 \in Q
  BY <1>0
<1>2. ASSUME NEW n \in Nat, n \in Q PROVE n + 1 \in Q
  <2> SUFFICES ASSUME NEW f \in Text, Len(f) < n + 1, ToSet(f) \subseteq P,
                      NEW j \in DOMAIN Lines[f]
               PROVE  ToSet(Lines[f][j]) \subseteq P
    OBVIOUS
  <2>1. f # <<>>
    BY LinesIs
  <2> PICK e : Ends(f, e)
    BY <2>1, OneEnd
  <2> DEFINE l == SubSeq(f, 1, e)
             r == SubSeq(f, e + 1, Len(f))
  <2>2. /\ IsLine(l) /\ r \in Text /\ Len(r) \in Nat /\ Len(r) < Len(f)
        /\ Len(l) = e /\ (\A i \in 1..e : l[i] = f[i])
        /\ \A i \in DOMAIN r : i + e \in DOMAIN f /\ r[i] = f[i + e]
    <3>1. Cut(f, e, l, r)
      BY FirstLine
    <3> HIDE DEF l, r
    <3> QED BY <3>1 DEF Cut
  <2>3. Lines[f] = <<l>> \o Lines[r] /\ Lines[r] \in Seq(Text)
    BY <2>2, LinesIs
  <2>4. e \in 1..Len(f) /\ Len(f) \in Nat /\ DOMAIN f = 1..Len(f)
    BY LenProperties DEF Ends, Text
  <2> HIDE DEF l, r
  <2>5. ToSet(l) \subseteq P
    <3>1. DOMAIN l = 1..e
      BY <2>2 DEF IsLine, Text
    <3> QED
      BY <2>2, <2>4, <3>1 DEF ToSet
  <2>6. ToSet(r) \subseteq P
    BY <2>2 DEF ToSet
  <2>7. \A i \in DOMAIN Lines[r] : ToSet(Lines[r][i]) \subseteq P
    BY <1>0, <1>2, <2>2, <2>6
  <2>8. Lines[f][j] = l \/ \E i \in DOMAIN Lines[r] : Lines[f][j] = Lines[r][i]
    BY <2>3, ConsElement
  <2> QED
    BY <2>5, <2>7, <2>8
<1>3. \A n \in Nat : n \in Q
  <2> HIDE DEF Q
  <2> QED BY <1>1, <1>2, SetInduction
<1>4. Len(u) + 1 \in Q /\ Len(u) < Len(u) + 1
  BY <1>0, <1>3
<1> HIDE DEF Good
<1>5. Good(u)
  BY <1>4
<1> QED
  BY <1>5 DEF Good

\* Every occurrence of a in the contents ends with the mark of an addition.
Marked(f, a) ==
  \A i \in DOMAIN f : f[i] = a =>
    /\ i + 1 \in DOMAIN f /\ f[i + 1] = "added"
    /\ i + 1 = Len(f) \/ f[i + 2] = "newline"

\* Then every line with a is one that was added.
LEMMA MarkedLines ==
  ASSUME NEW u \in Text, NEW a \in Token \ {"newline"}, Marked(u, a)
  PROVE  \A j \in DOMAIN Lines[u] : a \in ToSet(Lines[u][j]) => Added(Lines[u][j])
<1> DEFINE Fine(line) == a \in ToSet(line) => Added(line)
           Good(f) == Marked(f, a) => \A j \in DOMAIN Lines[f] : Fine(Lines[f][j])
           Q == {n \in Nat : \A f \in Text : Len(f) < n => Good(f)}
<1>0. \A f \in Text : Len(f) \in Nat
  BY LenProperties DEF Text
<1>1. 0 \in Q
  BY <1>0
<1>2. ASSUME NEW n \in Nat, n \in Q PROVE n + 1 \in Q
  <2> SUFFICES ASSUME NEW f \in Text, Len(f) < n + 1, Marked(f, a),
                      NEW j \in DOMAIN Lines[f]
               PROVE  Fine(Lines[f][j])
    OBVIOUS
  <2>1. f # <<>>
    BY LinesIs
  <2> PICK e : Ends(f, e)
    BY <2>1, OneEnd
  <2> DEFINE l == SubSeq(f, 1, e)
             r == SubSeq(f, e + 1, Len(f))
  <2>2. /\ IsLine(l) /\ r \in Text /\ Len(r) \in Nat /\ Len(r) < Len(f) /\ Len(r) = Len(f) - e
        /\ Len(l) = e /\ (\A i \in 1..e : l[i] = f[i])
        /\ \A i \in DOMAIN r : i + e \in DOMAIN f /\ r[i] = f[i + e]
    <3>1. Cut(f, e, l, r)
      BY FirstLine
    <3> HIDE DEF l, r
    <3> QED BY <3>1 DEF Cut
  <2>3. Lines[f] = <<l>> \o Lines[r] /\ Lines[r] \in Seq(Text)
    BY <2>2, LinesIs
  <2>4. e \in 1..Len(f) /\ Len(f) \in Nat /\ DOMAIN f = 1..Len(f)
    BY LenProperties DEF Ends, Text
  <2> HIDE DEF l, r
  <2>5. Fine(l)
    <3>1. DOMAIN l = 1..e
      BY <2>2 DEF IsLine, Text
    <3> SUFFICES ASSUME NEW i \in 1..e, l[i] = a PROVE Added(l)
      BY <3>1 DEF ToSet
    <3>0. i \in DOMAIN f /\ f[i] = a /\ i \in Nat /\ e \in Nat
      BY <2>2, <2>4
    <3>2. i + 1 \in 1..Len(f) /\ f[i + 1] = "added" /\ (i + 1 = Len(f) \/ f[i + 2] = "newline")
      BY <2>4, <3>0 DEF Marked
    <3>3. i # e
      BY <2>4, <3>0, <3>2 DEF Ends
    <3>4. i + 1 \in 1..e /\ l[i + 1] = "added"
      BY <2>2, <2>4, <3>0, <3>2, <3>3
    <3>5. CASE i + 1 = e
      BY <2>2, <3>1, <3>4, <3>5 DEF Added
    <3>6. CASE i + 1 # e
      <4>1. i + 2 \in 1..e
        BY <3>0, <3>4, <3>6
      <4>2. ASSUME i + 1 = Len(f) PROVE FALSE
        <5>1. i + 2 <= e /\ e <= i + 1
          BY <2>4, <4>1, <4>2
        <5> QED
          BY <3>0, <5>1
      <4>3. l[i + 2] = "newline" /\ (i + 1) + 1 = i + 2
        BY <2>2, <3>2, <4>1, <4>2
      <4> QED
        BY <3>1, <3>4, <4>3 DEF Added
    <3> QED
      BY <3>5, <3>6
  <2>6. Marked(r, a)
    <3>1. DOMAIN r = 1..Len(r)
      BY <2>2 DEF Text
    <3> SUFFICES ASSUME NEW i \in 1..Len(r), r[i] = a
                 PROVE  /\ i + 1 \in 1..Len(r) /\ r[i + 1] = "added"
                        /\ i + 1 = Len(r) \/ r[i + 2] = "newline"
      BY <3>1 DEF Marked
    <3>2. /\ i + e + 1 \in 1..Len(f) /\ f[i + e + 1] = "added"
          /\ i + e + 1 = Len(f) \/ f[i + e + 2] = "newline"
      <4>1. i + e \in DOMAIN f /\ f[i + e] = a
        BY <2>2, <3>1
      <4>2. /\ (i + e) + 1 \in DOMAIN f /\ f[(i + e) + 1] = "added"
            /\ (i + e) + 1 = Len(f) \/ f[(i + e) + 2] = "newline"
        BY <4>1 DEF Marked
      <4>3. (i + e) + 1 = i + e + 1 /\ (i + e) + 2 = i + e + 2
        OBVIOUS
      <4> QED BY <2>4, <4>2, <4>3
    <3>0. /\ Len(r) \in Nat /\ Len(f) \in Nat /\ e \in Nat /\ i \in Nat /\ i <= Len(r)
          /\ Len(r) = Len(f) - e
      BY <2>2, <2>4
    <3>3. i + 1 \in 1..Len(r) /\ r[i + 1] = f[i + 1 + e] /\ i + 1 + e = i + e + 1
      <4>1. i + 1 \in 1..Len(r)
        BY <3>0, <3>2
      <4>2. r[i + 1] = f[i + 1 + e]
        BY <2>2, <3>1, <4>1, Zenon
      <4> QED BY <3>0, <4>1, <4>2
    <3>4. ASSUME i + 1 # Len(r)
          PROVE  r[i + 2] = f[i + 2 + e] /\ i + 2 + e = i + e + 2 /\ i + e + 1 # Len(f)
      <4>1. i + 2 \in 1..Len(r) /\ i + 2 + e = i + e + 2 /\ i + e + 1 # Len(f)
        BY <3>0, <3>3, <3>4
      <4>2. r[i + 2] = f[i + 2 + e]
        BY <2>2, <3>1, <4>1, Zenon
      <4> QED BY <4>1, <4>2
    <3> QED
      BY <3>2, <3>3, <3>4, Zenon
  <2>7. \A i \in DOMAIN Lines[r] : Fine(Lines[r][i])
    <3> HIDE DEF Fine
    <3> QED BY <1>0, <1>2, <2>2, <2>6
  <2>8. Lines[f][j] = l \/ \E i \in DOMAIN Lines[r] : Lines[f][j] = Lines[r][i]
    BY <2>3, ConsElement
  <2> HIDE DEF Fine
  <2> QED
    BY <2>5, <2>7, <2>8
<1>3. \A n \in Nat : n \in Q
  <2> HIDE DEF Q
  <2> QED BY <1>1, <1>2, SetInduction
<1>4. Len(u) + 1 \in Q /\ Len(u) < Len(u) + 1
  BY <1>0, <1>3
<1> HIDE DEF Good
<1>5. Good(u)
  BY <1>4
<1> QED
  BY <1>5 DEF Good

-----------------------------------------------------------------------------
(* updateResolvConf *)

\* The lines of f as updateResolvConf writes them, after the insertion.
Rewritten(ins, f) ==
  [i \in DOMAIN Lines[StripAdded(f)] |->
     IF ins = <<>> THEN Uncomment[Lines[StripAdded(f)][i]]
     ELSE CommentOut(Lines[StripAdded(f)][i])]

\* The tokens that go-dnsmasq writes.
LEMMA Tokens == {"nameserver", "added", "disabled", "newline"} \subseteq Token
BY DEF Token

\* What is left without the added lines is text.
LEMMA StripAddedType == \A f \in Text : StripAdded(f) \in Text
BY LinesIs, KeptIs DEF StripAdded, IsFlatMap, Text

\* A line that is commented out is text.
LEMMA CommentOutType == \A l \in Text : CommentOut(l) \in Text
<1>1. <<"disabled">> \in Seq(Token)
  BY SmallSeq, Tokens
<1>2. \A l \in Seq(Token) : <<"disabled">> \o l \in Seq(Token)
  BY <1>1, ConcatProperties
<1> QED
  BY <1>2 DEF CommentOut, Text

\* A line that is uncommented is text.
LEMMA UncommentType == \A l \in Text : Uncomment[l] \in Text
BY UncommentIs DEF IsFlatMap, Text

\* An update writes its insertion and then the rewritten lines.
LEMMA WritesType ==
  ASSUME NEW ins \in Text, NEW f \in Text
  PROVE  /\ Rewritten(ins, f) \in Seq(Text)
         /\ Writes(ins, f) = <<ins>> \o Rewritten(ins, f)
         /\ Writes(ins, f) \in Seq(Text)
<1> DEFINE ls == Lines[StripAdded(f)]
<1>1. ls \in Seq(Text)
  BY StripAddedType, LinesIs
<1>2. \A i \in DOMAIN ls : ls[i] \in Text
  BY <1>1
<1>3. \A i \in DOMAIN ls :
        (IF ins = <<>> THEN Uncomment[ls[i]] ELSE CommentOut(ls[i])) \in Text
  BY <1>2, CommentOutType, UncommentType
<1>4. DOMAIN ls = 1..Len(ls) /\ Len(ls) \in Nat
  BY <1>1
<1>5. Rewritten(ins, f) \in Seq(Text)
  <2>1. Rewritten(ins, f) = [i \in 1..Len(ls) |-> IF ins = <<>> THEN Uncomment[ls[i]] ELSE CommentOut(ls[i])]
    BY <1>4 DEF Rewritten
  <2>2. Rewritten(ins, f) \in [1..Len(ls) -> Text]
    BY <1>3, <1>4, <2>1
  <2> HIDE DEF ls
  <2> QED
    BY <1>4, <2>2, IsASeq
<1>6. Writes(ins, f) = <<ins>> \o Rewritten(ins, f)
  BY DEF Writes, Rewritten
<1>7. <<ins>> \in Seq(Text)
  BY SmallSeq
<1> QED
  BY <1>5, <1>6, <1>7, ConcatProperties

\* No line that is kept has an address all of whose occurrences are marked.
LEMMA StripMarked ==
  ASSUME NEW f \in Text, NEW a \in Token \ {"newline"}, Marked(f, a)
  PROVE  a \notin ToSet(StripAdded(f))
<1> DEFINE P == Token \ {a}
<1>1. \A i \in DOMAIN Lines[f] : ToSet(keptOf[Lines[f][i]]) \subseteq P
  <2> SUFFICES ASSUME NEW i \in DOMAIN Lines[f] PROVE ToSet(keptOf[Lines[f][i]]) \subseteq P
    OBVIOUS
  <2> DEFINE l == Lines[f][i]
  <2>1. l \in Text /\ (a \in ToSet(l) => Added(l))
    BY LinesIs, MarkedLines
  <2> HIDE DEF l
  <2>2. ToSet(l) \subseteq Token
    BY <2>1 DEF ToSet, Text
  <2>3. keptOf[l] = (IF Added(l) THEN <<>> ELSE l)
    BY <2>1 DEF keptOf
  <2>4. ToSet(<<>>) = {}
    BY DEF ToSet
  <2>5. ToSet(keptOf[l]) \subseteq P
    BY <2>1, <2>2, <2>3, <2>4
  <2> QED
    BY <2>5 DEF l
<1>2. Lines[f] \in Seq(Text)
  BY LinesIs
<1> HIDE DEF P
<1>3. ToSet(Kept[Lines[f]]) \subseteq P
  BY <1>1, <1>2, KeptIs, FlatMapElements
<1> QED
  BY <1>3 DEF P, StripAdded

\* The lines that are written consist of tokens that are kept and "disabled".
LEMMA RewrittenTokens ==
  ASSUME NEW ins \in Text, NEW f \in Text, NEW P, ToSet(StripAdded(f)) \subseteq P, "disabled" \in P
  PROVE  \A i \in DOMAIN Rewritten(ins, f) : ToSet(Rewritten(ins, f)[i]) \subseteq P
<1> DEFINE ls == Lines[StripAdded(f)]
<1> SUFFICES ASSUME NEW i \in DOMAIN ls
             PROVE  ToSet(Uncomment[ls[i]]) \subseteq P /\ ToSet(CommentOut(ls[i])) \subseteq P
  BY DEF Rewritten
<1>1. ls[i] \in Text /\ ToSet(ls[i]) \subseteq P
  BY StripAddedType, LinesIs, LineTokens
<1> DEFINE l == ls[i]
<1> HIDE DEF l
<1>2. l \in Seq(Token) /\ \A k \in DOMAIN l : l[k] \in P /\ l[k] \in Token
  BY <1>1 DEF l, Text, ToSet
<1>3. ToSet(Uncomment[l]) \subseteq P
  <2>1. ASSUME NEW k \in DOMAIN l PROVE ToSet(tokenOf[l[k]]) \subseteq P
    <3>1. tokenOf[l[k]] = (IF l[k] = "disabled" THEN <<>> ELSE <<l[k]>>)
      BY <1>2 DEF tokenOf
    <3>2. ToSet(<<>>) = {} /\ ToSet(<<l[k]>>) = {l[k]}
      BY DEF ToSet
    <3> QED
      BY <1>2, <3>1, <3>2
  <2> QED
    BY <1>2, <2>1, UncommentIs, FlatMapElements
<1>4. ToSet(CommentOut(l)) \subseteq P
  <2>1. ToSet(<<"disabled">> \o l) \subseteq P
    BY <1>2 DEF ToSet
  <2> QED
    BY <1>1, <2>1 DEF CommentOut, l
<1> QED
  BY <1>3, <1>4 DEF l

\* What others may write to the file: nothing that go-dnsmasq writes itself.
Foreign(u, a) == u \in Text /\ {a, "added", "disabled"} \cap ToSet(u) = {}

\* The contents after StoreAddress(a), if nothing interferes.
Registered(f, a) == Joined[Writes(Entry(a), f)]

\* The insertion of StoreAddress is a complete line with the mark.
LEMMA EntryLine ==
  ASSUME NEW a \in Token \ {"newline"}
  PROVE  IsLine(Entry(a)) /\ Closed(Entry(a)) /\ Added(Entry(a)) /\ Entry(a) \in Text /\ Entry(a) # <<>>
<1>1. Entry(a) \in Text /\ Entry(a) # <<>> /\ Len(Entry(a)) = 4 /\ DOMAIN Entry(a) = 1..4
  BY Tokens DEF Entry, Text
<1>2. /\ Entry(a)[1] = "nameserver" /\ Entry(a)[2] = a
      /\ Entry(a)[3] = "added" /\ Entry(a)[4] = "newline"
  BY DEF Entry
<1> HIDE DEF Entry
<1>3. \A k \in 1..3 : Entry(a)[k] # "newline"
  <2>1. \A k \in 1..3 : k = 1 \/ k = 2 \/ k = 3
    OBVIOUS
  <2> QED
    BY <1>2, <2>1
<1>4. IsLine(Entry(a))
  BY <1>1, <1>3 DEF IsLine
<1>5. Added(Entry(a)) /\ Closed(Entry(a))
  <2>1. 3 \in DOMAIN Entry(a) /\ Entry(a)[3 + 1] = "newline"
    BY <1>1, <1>2
  <2> QED
    BY <1>1, <1>2, <2>1 DEF Added, Closed
<1> QED
  BY <1>1, <1>4, <1>5

\* A line without "disabled" has nothing to uncomment.
LEMMA UncommentPlain ==
  ASSUME NEW l \in Text, "disabled" \notin ToSet(l)
  PROVE  Uncomment[l] = l
<1> DEFINE id == [s \in Seq(Token) |-> s]
           single == [t \in Token |-> <<t>>]
<1>1. IsFlatMap(id, single, Token, Token)
  <2>1. single \in [Token -> Seq(Token)]
    BY SmallSeq
  <2>2. ASSUME NEW s \in Seq(Token)
        PROVE  id[s] = IF s = <<>> THEN <<>> ELSE single[Head(s)] \o id[Tail(s)]
    <3>1. s # <<>> => /\ Head(s) \in Token /\ Tail(s) \in Seq(Token)
                      /\ s = <<Head(s)>> \o Tail(s)
      OBVIOUS
    <3> QED
      BY <3>1
  <2> QED
    BY <2>1, <2>2 DEF IsFlatMap
<1>2. l \in Seq(Token) /\ \A i \in DOMAIN l : l[i] \in Token /\ l[i] # "disabled"
  BY DEF Text, ToSet
<1>3. \A i \in DOMAIN l : tokenOf[l[i]] = single[l[i]]
  BY <1>2 DEF tokenOf
<1> HIDE DEF id, single
<1>4. Uncomment[l] = id[l]
  BY <1>1, <1>2, <1>3, UncommentIs, FlatMapEqual
<1> QED
  BY <1>2, <1>4 DEF id

\* Uncommenting a line that was commented out.
LEMMA UncommentCommentOut ==
  ASSUME NEW l \in Text, "disabled" \notin ToSet(l)
  PROVE  Uncomment[CommentOut(l)] = l
<1>1. Uncomment[l] = l
  BY UncommentPlain
<1> SUFFICES Uncomment[<<"disabled">> \o l] = l
  BY <1>1 DEF CommentOut
<1> DEFINE s == <<"disabled">> \o l
<1>2. s \in Seq(Token) /\ s # <<>> /\ Head(s) = "disabled" /\ Tail(s) = l
  BY Tokens DEF Text
<1>3. tokenOf["disabled"] = <<>>
  BY Tokens DEF tokenOf
<1> HIDE DEF s
<1>4. Uncomment[s] = <<>> \o Uncomment[l]
  BY <1>2, <1>3, UncommentIs DEF IsFlatMap
<1>5. <<>> \o l = l
  BY ConcatEmptySeq DEF Text
<1> QED
  BY <1>1, <1>4, <1>5 DEF s

\* Lines without "added" are kept.
LEMMA KeptPlain ==
  ASSUME NEW ls \in Seq(Text), \A i \in DOMAIN ls : "added" \notin ToSet(ls[i])
  PROVE  Kept[ls] = Joined[ls]
<1>1. \A i \in DOMAIN ls : ls[i] \in Text /\ ~Added(ls[i])
  BY DEF Added, ToSet
<1>2. \A i \in DOMAIN ls : keptOf[ls[i]] = lineOf[ls[i]]
  BY <1>1 DEF keptOf, lineOf
<1> QED
  BY <1>2, KeptIs, JoinedIs, FlatMapEqual

\* A line that is commented out is a line, and is not commented out again.
LEMMA CommentOutLine ==
  ASSUME NEW l, IsLine(l)
  PROVE  /\ IsLine(CommentOut(l)) /\ (Closed(l) => Closed(CommentOut(l)))
         /\ CommentOut(CommentOut(l)) = CommentOut(l)
         /\ ToSet(CommentOut(l)) \subseteq ToSet(l) \cup {"disabled"}
<1> DEFINE d == <<"disabled">> \o l
<1>1. l \in Text /\ l # <<>> /\ Len(l) \in Nat /\ Len(l) # 0 /\ DOMAIN l = 1..Len(l)
  BY EmptySeq DEF IsLine, Text
<1>2. /\ d \in Text /\ Len(d) = Len(l) + 1 /\ DOMAIN d = 1..(Len(l) + 1) /\ d[1] = "disabled"
      /\ \A k \in 2..(Len(l) + 1) : d[k] = l[k - 1]
  <2>1. <<"disabled">> \in Seq(Token)
    BY SmallSeq, Tokens
  <2>2. d \in Text
    BY <1>1, <2>1, ConcatProperties DEF Text
  <2> QED
    BY <1>1, <2>2 DEF Text
<1>3. CASE l[1] # "nameserver"
  BY <1>1, <1>3 DEF CommentOut
<1>4. CASE l[1] = "nameserver"
  <2>1. CommentOut(l) = d
    BY <1>4 DEF CommentOut
  <2> HIDE DEF d
  <2>2. CommentOut(d) = d
    BY <1>2 DEF CommentOut
  <2>3. d # <<>>
    BY <1>1, <1>2
  <2>4. \A k \in 1..(Len(d) - 1) : d[k] # "newline"
    <3> SUFFICES ASSUME NEW k \in 1..(Len(d) - 1), k # 1 PROVE d[k] # "newline"
      BY <1>2
    <3>1. k \in 2..(Len(l) + 1) /\ k - 1 \in 1..(Len(l) - 1)
      BY <1>1, <1>2
    <3> QED
      BY <1>2, <3>1 DEF IsLine
  <2>5. IsLine(d)
    BY <1>2, <2>3, <2>4 DEF IsLine
  <2>6. Closed(l) => Closed(d)
    BY <1>1, <1>2 DEF Closed
  <2>7. ToSet(d) \subseteq ToSet(l) \cup {"disabled"}
    <3> SUFFICES ASSUME NEW k \in 1..(Len(l) + 1), k # 1 PROVE d[k] \in ToSet(l)
      BY <1>2 DEF ToSet
    <3>1. k \in 2..(Len(l) + 1) /\ k - 1 \in DOMAIN l
      BY <1>1
    <3> QED
      BY <1>2, <3>1 DEF ToSet
  <2> QED
    BY <2>1, <2>2, <2>5, <2>6, <2>7
<1> QED
  BY <1>3, <1>4

Commented(u) == [i \in DOMAIN Lines[u] |-> CommentOut(Lines[u][i])]

\* The lines of contents that others wrote.
LEMMA ForeignLines ==
  ASSUME NEW u, NEW a, Foreign(u, a)
  PROVE  /\ Lines[u] \in Seq(Text) /\ Proper(Lines[u]) /\ Joined[Lines[u]] = u
         /\ \A i \in DOMAIN Lines[u] :
              IsLine(Lines[u][i]) /\ {a, "added", "disabled"} \cap ToSet(Lines[u][i]) = {}
<1> DEFINE P == ToSet(u)
<1>1. u \in Text /\ {a, "added", "disabled"} \cap P = {}
  BY DEF Foreign
<1>2. Lines[u] \in Seq(Text) /\ Proper(Lines[u]) /\ Joined[Lines[u]] = u
  BY <1>1, LinesIs, LinesProper
<1>3. \A i \in DOMAIN Lines[u] : IsLine(Lines[u][i]) /\ ToSet(Lines[u][i]) \subseteq P
  BY <1>1, <1>2, LineTokens DEF Proper
<1> HIDE DEF P
<1> QED
  BY <1>1, <1>2, <1>3

\* Commented out, they are proper lines that nobody takes for added ones.
LEMMA CommentedLines ==
  ASSUME NEW u, NEW a, Foreign(u, a)
  PROVE  /\ Commented(u) \in Seq(Text) /\ Proper(Commented(u))
         /\ DOMAIN Commented(u) = DOMAIN Lines[u]
         /\ \A i \in DOMAIN Lines[u] :
              /\ Commented(u)[i] = CommentOut(Lines[u][i])
              /\ "added" \notin ToSet(Commented(u)[i])
<1> DEFINE ls == Lines[u]
           d == Commented(u)
<1>1. /\ ls \in Seq(Text) /\ Proper(ls)
      /\ \A i \in DOMAIN ls : IsLine(ls[i]) /\ "added" \notin ToSet(ls[i])
  BY ForeignLines
<1>2. DOMAIN d = DOMAIN ls /\ \A i \in DOMAIN ls : d[i] = CommentOut(ls[i])
  BY DEF Commented
<1>3. DOMAIN ls = 1..Len(ls) /\ Len(ls) \in Nat
  BY <1>1
<1>4. \A i \in DOMAIN ls : /\ d[i] \in Text /\ IsLine(d[i]) /\ (Closed(ls[i]) => Closed(d[i]))
                           /\ "added" \notin ToSet(d[i])
  BY <1>1, <1>2, CommentOutLine DEF IsLine
<1>5. d \in [1..Len(ls) -> Text]
  BY <1>3, <1>4 DEF Commented
<1> HIDE DEF d, ls
<1>6. d \in Seq(Text) /\ Len(d) = Len(ls)
  BY <1>3, <1>5
<1>7. Proper(d)
  BY <1>1, <1>2, <1>4, <1>6 DEF Proper
<1> QED
  BY <1>2, <1>4, <1>6, <1>7 DEF d, ls

\* What is left of contents that others wrote, and of such contents after a
\* registration, when the added lines are taken out.
LEMMA StripForeign ==
  ASSUME NEW u, NEW a, Foreign(u, a)
  PROVE  StripAdded(u) = u
<1>1. Lines[u] \in Seq(Text) /\ Joined[Lines[u]] = u
  BY ForeignLines
<1>2. \A i \in DOMAIN Lines[u] : "added" \notin ToSet(Lines[u][i])
  BY ForeignLines
<1> QED
  BY <1>1, <1>2, KeptPlain DEF StripAdded

\* A registration puts the entry before the commented lines.
LEMMA RegisteredIs ==
  ASSUME NEW u, NEW a \in Token \ {"newline"}, Foreign(u, a)
  PROVE  /\ Registered(u, a) = Entry(a) \o Joined[Commented(u)]
         /\ Registered(u, a) \in Text
         /\ Writes(Entry(a), u) = <<Entry(a)>> \o Commented(u)
<1>1. u \in Text /\ Entry(a) \in Text /\ Entry(a) # <<>> /\ Commented(u) \in Seq(Text)
  BY EntryLine, CommentedLines DEF Foreign
<1>2. Rewritten(Entry(a), u) = Commented(u)
  BY <1>1, StripForeign DEF Rewritten, Commented
<1>3. Writes(Entry(a), u) = <<Entry(a)>> \o Commented(u) /\ Writes(Entry(a), u) \in Seq(Text)
  BY <1>1, <1>2, WritesType
<1>4. Joined[<<Entry(a)>> \o Commented(u)] = Entry(a) \o Joined[Commented(u)]
  BY <1>1, JoinedCons
<1> QED
  BY <1>1, <1>3, <1>4, JoinedCons DEF Registered

\* Without the added lines, a registered file has the commented lines left.
LEMMA StripRegistered ==
  ASSUME NEW u, NEW a \in Token \ {"newline"}, Foreign(u, a)
  PROVE  /\ StripAdded(Registered(u, a)) = Joined[Commented(u)]
         /\ Lines[StripAdded(Registered(u, a))] = Commented(u)
<1> DEFINE d == Commented(u)
           e == Entry(a)
           s == <<e>> \o d
<1>1. /\ IsLine(e) /\ Closed(e) /\ Added(e) /\ e \in Text /\ Proper(d) /\ d \in Seq(Text)
      /\ \A i \in DOMAIN d : "added" \notin ToSet(d[i])
  BY EntryLine, CommentedLines
<1>2. Registered(u, a) = Joined[s]
  BY RegisteredIs DEF Registered
<1> HIDE DEF d, e
<1>3. Proper(s)
  BY <1>1, ProperCons
<1>4. Lines[Registered(u, a)] = s
  BY <1>2, <1>3, LinesOfJoined
<1>5. s \in Seq(Text) /\ s # <<>> /\ Head(s) = e /\ Tail(s) = d
  BY <1>1
<1>6. keptOf[e] = <<>>
  BY <1>1 DEF keptOf
<1>7. Kept[s] = <<>> \o Kept[d]
  <2> HIDE DEF s
  <2> QED BY <1>5, <1>6, KeptIs DEF IsFlatMap
<1>8. Kept[d] = Joined[d] /\ Joined[d] \in Seq(Token)
  BY <1>1, KeptPlain, JoinedCons DEF Text
<1>9. <<>> \o Joined[d] = Joined[d]
  BY <1>8, ConcatEmptySeq
<1>10. StripAdded(Registered(u, a)) = Joined[d]
  BY <1>4, <1>7, <1>8, <1>9 DEF StripAdded
<1>11. Lines[Joined[d]] = d
  BY <1>1, LinesOfJoined
<1> QED
  BY <1>10, <1>11 DEF d

\* resolvconf.go:32-37.  Clean leaves alone what others wrote.
THEOREM CleanKeeps ==
  ASSUME NEW u, NEW a, Foreign(u, a)
  PROVE  Cleaned(u) = u
<1>1. u \in Text /\ <<>> \in Text /\ Lines[u] \in Seq(Text) /\ Joined[Lines[u]] = u
  BY ForeignLines, EmptySeq DEF Foreign, Text
<1>2. \A i \in DOMAIN Lines[u] : Uncomment[Lines[u][i]] = Lines[u][i]
  BY ForeignLines, UncommentPlain DEF IsLine
<1>3. Rewritten(<<>>, u) = Lines[u]
  <2>1. Rewritten(<<>>, u) = [i \in DOMAIN Lines[u] |-> Lines[u][i]]
    BY <1>2, StripForeign DEF Rewritten
  <2> QED
    BY <1>1, <2>1
<1>4. Writes(<<>>, u) = <<<<>>>> \o Lines[u]
  BY <1>1, <1>3, WritesType
<1>5. Joined[<<<<>>>> \o Lines[u]] = <<>> \o Joined[Lines[u]]
  BY <1>1, JoinedCons
<1>6. <<>> \o u = u
  BY <1>1, ConcatEmptySeq DEF Text
<1> QED
  BY <1>1, <1>4, <1>5, <1>6 DEF Cleaned

\* resolvconf.go:26-37.  Clean undoes StoreAddress: of contents of any length,
\* with any number of nameservers, exactly what others wrote comes back.
THEOREM CleanRestores ==
  ASSUME NEW u, NEW a \in Token \ {"newline"}, Foreign(u, a)
  PROVE  Cleaned(Registered(u, a)) = u
<1>1. u \in Text /\ <<>> \in Text /\ Lines[u] \in Seq(Text) /\ Joined[Lines[u]] = u
  BY ForeignLines, EmptySeq DEF Foreign, Text
<1> DEFINE R == Registered(u, a)
<1>2. R \in Text /\ Lines[StripAdded(R)] = Commented(u)
  BY RegisteredIs, StripRegistered
<1>3. /\ DOMAIN Commented(u) = DOMAIN Lines[u]
      /\ \A i \in DOMAIN Lines[u] : Uncomment[Commented(u)[i]] = Lines[u][i]
  <2>1. \A i \in DOMAIN Lines[u] : Lines[u][i] \in Text /\ "disabled" \notin ToSet(Lines[u][i])
    BY ForeignLines DEF IsLine
  <2>2. \A i \in DOMAIN Lines[u] : Commented(u)[i] = CommentOut(Lines[u][i])
    BY CommentedLines
  <2>3. \A i \in DOMAIN Lines[u] : Uncomment[CommentOut(Lines[u][i])] = Lines[u][i]
    BY <2>1, UncommentCommentOut
  <2> QED
    BY <2>2, <2>3, CommentedLines
<1> HIDE DEF R
<1>4. Rewritten(<<>>, R) = Lines[u]
  <2>1. Rewritten(<<>>, R) = [i \in DOMAIN Lines[u] |-> Lines[u][i]]
    BY <1>2, <1>3 DEF Rewritten
  <2> QED
    BY <1>1, <2>1
<1>5. Writes(<<>>, R) = <<<<>>>> \o Lines[u]
  BY <1>1, <1>2, <1>4, WritesType
<1>6. Joined[<<<<>>>> \o Lines[u]] = <<>> \o Joined[Lines[u]]
  BY <1>1, JoinedCons
<1>7. <<>> \o u = u
  BY <1>1, ConcatEmptySeq DEF Text
<1> QED
  BY <1>1, <1>5, <1>6, <1>7 DEF Cleaned, R

\* resolvconf.go:26-30.  StoreAddress of an address that is registered already
\* changes nothing.
THEOREM RegisterAgain ==
  ASSUME NEW u, NEW a \in Token \ {"newline"}, Foreign(u, a)
  PROVE  Registered(Registered(u, a), a) = Registered(u, a)
<1> DEFINE R == Registered(u, a)
<1>1. R \in Text /\ Lines[StripAdded(R)] = Commented(u) /\ Entry(a) \in Text /\ Entry(a) # <<>>
  BY RegisteredIs, StripRegistered, EntryLine
<1>2. /\ DOMAIN Commented(u) = DOMAIN Lines[u]
      /\ \A i \in DOMAIN Lines[u] : CommentOut(Commented(u)[i]) = CommentOut(Lines[u][i])
  BY ForeignLines, CommentedLines, CommentOutLine
<1> HIDE DEF R
<1>3. Rewritten(Entry(a), R) = Commented(u)
  <2>1. Rewritten(Entry(a), R) = [i \in DOMAIN Lines[u] |-> CommentOut(Lines[u][i])]
    BY <1>1, <1>2 DEF Rewritten
  <2> QED
    BY <2>1 DEF Commented
<1>4. Writes(Entry(a), R) = Writes(Entry(a), u)
  <2>1. Writes(Entry(a), R) = <<Entry(a)>> \o Rewritten(Entry(a), R)
    BY <1>1, WritesType
  <2>2. Writes(Entry(a), u) = <<Entry(a)>> \o Commented(u)
    BY RegisteredIs
  <2> QED BY <1>3, <2>1, <2>2, Zenon
<1> QED
  BY <1>4 DEF Registered, R

=============================================================================
