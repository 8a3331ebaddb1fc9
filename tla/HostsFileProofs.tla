-------------------------- MODULE HostsFileProofs --------------------------
(***************************************************************************)
(* Four theorems of HostsFile, for all contents and any number of changes  *)
(* of the file.  No update is lost: there what newHostlist computes plays  *)
(* no part.  Lookups mean what the loaded lines say: newHostlist lists the *)
(* entries of all usable lines, each once, the first one of an address     *)
(* first.                                                                  *)
(***************************************************************************)
EXTENDS HostsFile, RecursionProofs

Lines == Seq(Line)

Types ==
  /\ disk \in [present : BOOLEAN, lines : Lines, mtime : Nat]
  /\ rest \in Lines
  /\ stat \in Meta /\ seen \in Meta

\* What was read earlier is not later than the file: its mtime is smaller, or
\* the same with a size that is not larger.
Earlier(s) ==
  s.mtime < disk.mtime \/ (s.mtime = disk.mtime /\ s.size <= Size(disk.lines))

\* Between the reading of the file and the recording of mtime and size: if they
\* are still those of the file, then what was read is what is there now.
ReadCurrent ==
  status = "up" /\ pc = "record" /\ disk.present /\ stat = Stamp /\ ~failed =>
    hosts = newHostlist(disk.lines)

IInv == Types /\ Earlier(stat) /\ Earlier(seen) /\ ReadCurrent /\ NoLostUpdate

\* The size of a file is a number.
LEMMA SizeType == ASSUME Types PROVE Size(disk.lines) \in Nat /\ disk.mtime \in Nat
BY DEF Types, Size, Lines

\* Every initial state satisfies the invariant.
LEMMA InitInvariant == Init => IInv
<1> SUFFICES ASSUME Init PROVE IInv
  OBVIOUS
<1>1. disk \in [present : BOOLEAN, lines : Lines, mtime : Nat] /\ disk.mtime = 1
  BY HostsAssumption DEF Init, Lines
<1>2. Types
  BY <1>1 DEF Types, Init, Meta, Lines
<1>3. Earlier(stat) /\ Earlier(seen)
  BY <1>1 DEF Init, Earlier
<1> QED BY <1>2, <1>3 DEF IInv, Init, ReadCurrent, NoLostUpdate

\* When the file changes, nothing that was read before equals its new mtime and
\* size, and it stays earlier.
LEMMA ChangeInvariant ==
  ASSUME IInv, Types', UNCHANGED <<stat, seen, pc, status, hosts, failed>>,
         \/ disk.mtime < disk'.mtime
         \/ disk.mtime = disk'.mtime /\ Size(disk.lines) < Size(disk'.lines)
  PROVE  IInv'
<1>1. /\ Size(disk.lines) \in Nat /\ disk.mtime \in Nat
      /\ Size(disk'.lines) \in Nat /\ disk'.mtime \in Nat
      /\ stat.mtime \in Nat /\ stat.size \in Nat /\ seen.mtime \in Nat /\ seen.size \in Nat
  BY SizeType DEF IInv, Types, Lines, Size, Meta
<1>2. ASSUME NEW s \in {stat, seen}
      PROVE  Earlier(s)' /\ (s # Stamp)'
  <2>1. Earlier(s) /\ s' = s /\ s.mtime \in Nat /\ s.size \in Nat
    BY <1>1, <1>2 DEF IInv
  <2>2. ASSUME s = [mtime |-> disk'.mtime, size |-> Size(disk'.lines)]
        PROVE  FALSE
    BY <1>1, <2>1, <2>2, SMT DEF Earlier
  <2>3. Earlier(s)'
    BY <1>1, <2>1, SMT DEF Earlier
  <2> QED BY <2>1, <2>2, <2>3 DEF Stamp
<1>3. Earlier(stat)' /\ Earlier(seen)' /\ stat' # Stamp' /\ seen' # Stamp'
  BY <1>2
<1> QED BY <1>3 DEF IInv, ReadCurrent, NoLostUpdate

\* The writers of the file keep the invariant.
LEMMA WriterInvariant == IInv /\ Writer => IInv'
<1> SUFFICES ASSUME IInv, Writer PROVE IInv'
  OBVIOUS
<1>1. Types
  BY DEF IInv
<1>2. ASSUME NEW lines \in Content, NEW n \in 0..Len(lines), Edit(lines, n)
      PROVE  IInv'
  <2>1. lines \in Lines
    BY HostsAssumption DEF Lines
  <2>2. SubSeq(lines, 1, n) \in Lines /\ SubSeq(lines, n + 1, Len(lines)) \in Lines
    <3>1. \A i \in 1..Len(lines) : lines[i] \in Line
      BY <2>1 DEF Lines
    <3>2. Len(lines) \in Int /\ n \in Int /\ n + 1 \in Int /\ n >= 0 /\ n <= Len(lines)
      BY <2>1 DEF Lines
    <3>3. SubSeq(lines, 1, n) \in Seq(Line)
      BY <3>1, <3>2, SubSeqProperties
    <3>4. SubSeq(lines, n + 1, Len(lines)) \in Seq(Line)
      BY <3>1, <3>2, SubSeqProperties
    <3> QED BY <3>3, <3>4 DEF Lines
  <2>3. Types'
    BY <1>1, <1>2, <2>2 DEF Types, Edit
  <2>4. disk.mtime < disk'.mtime
    BY <1>1, <1>2 DEF Types, Edit
  <2> QED BY <1>2, <2>3, <2>4, ChangeInvariant DEF Edit
<1>3. CASE EditEnds
  <2>1. PICK tick \in 0..1 : disk' = [disk EXCEPT !.lines = @ \o rest, !.mtime = @ + tick]
    BY <1>3 DEF EditEnds
  <2>2. /\ disk'.lines = disk.lines \o rest /\ disk'.mtime = disk.mtime + tick
        /\ disk'.present = disk.present
    BY <1>1, <2>1 DEF Types
  <2>3. /\ disk.lines \o rest \in Lines
        /\ Len(disk.lines \o rest) = Len(disk.lines) + Len(rest)
        /\ Len(rest) \in Nat \ {0} /\ Len(disk.lines) \in Nat
    BY <1>1, <1>3 DEF Types, Lines, EditEnds
  <2>4. Types'
    <3>1. disk' \in [present : BOOLEAN, lines : Lines, mtime : Nat]
      <4>1. disk.mtime + tick \in Nat
        BY <1>1, SizeType, SMT
      <4>2. disk' = [present |-> disk.present, lines |-> disk.lines \o rest,
                     mtime |-> disk.mtime + tick]
        BY <1>1, <2>1 DEF Types
      <4>3. disk.present \in BOOLEAN
        BY <1>1 DEF Types
      <4> QED BY <2>3, <4>1, <4>2, <4>3
    <3>2. rest' \in Lines /\ UNCHANGED <<stat, seen>>
      BY <1>3 DEF EditEnds, Lines
    <3> QED BY <1>1, <3>1, <3>2 DEF Types
  <2>5. Size(disk.lines) < Size(disk'.lines)
    BY <2>2, <2>3, SMT DEF Size
  <2>6. disk.mtime < disk'.mtime \/ disk.mtime = disk'.mtime
    BY <1>1, <2>2, SizeType, SMT
  <2> QED BY <1>3, <2>4, <2>5, <2>6, ChangeInvariant DEF EditEnds
<1>4. CASE Unlink
  <2>1. disk'.lines = disk.lines /\ disk'.mtime = disk.mtime /\ ~disk'.present
    BY <1>1, <1>4 DEF Types, Unlink
  <2>2. Types'
    BY <1>1, <1>4 DEF Types, Unlink
  <2>3. Earlier(stat)' /\ Earlier(seen)'
    BY <1>4, <2>1 DEF IInv, Earlier, Unlink
  <2> QED BY <2>1, <2>2, <2>3 DEF IInv, ReadCurrent, NoLostUpdate
<1> QED BY <1>2, <1>3, <1>4 DEF Writer

\* NewHostsfile and the poller leave the file alone and keep the invariant.
LEMMA MonitorInvariant == IInv /\ (NewHostsfile \/ monitorHostEntries) => IInv'
<1> SUFFICES ASSUME IInv, NewHostsfile \/ monitorHostEntries PROVE IInv'
  OBVIOUS
<1> USE DEF file
<1>1. Types /\ Earlier(stat) /\ Earlier(seen)
  BY DEF IInv
<1>2. CASE NewHostsfile
  <2>1. UNCHANGED <<disk, rest, stat, seen>> /\ pc = "new" /\ status = "up"
    BY <1>2 DEF NewHostsfile
  <2>2. Types' /\ Earlier(stat)' /\ Earlier(seen)'
    BY <1>1, <2>1 DEF Types, Earlier
  <2>3. ASSUME (status = "up" /\ pc = "wait")'
        PROVE  hosts' = newHostlist(disk.lines)
    BY <1>2, <2>3 DEF NewHostsfile, loadHostEntries, LoadPanics
  <2>4. pc' # "record"
    BY <1>2 DEF NewHostsfile
  <2> QED BY <2>1, <2>2, <2>3, <2>4 DEF IInv, ReadCurrent, NoLostUpdate
<1>3. CASE PollNothing
  BY <1>3 DEF PollNothing, vars, IInv, Types, Earlier, ReadCurrent, NoLostUpdate, Stamp
<1>4. CASE PollChange
  <2>1. stat' = Stamp /\ pc' = "load" /\ UNCHANGED <<disk, rest, seen>>
    BY <1>4 DEF PollChange
  <2>2. Stamp \in Meta /\ Stamp.mtime = disk.mtime /\ Stamp.size = Size(disk.lines)
    BY <1>1, SizeType DEF Stamp, Meta
  <2>3. Types' /\ Earlier(seen)'
    BY <1>1, <2>1, <2>2 DEF Types, Earlier
  <2>4. Earlier(stat)'
    BY <1>1, <2>1, <2>2, SizeType, SMT DEF Earlier
  <2> QED BY <2>1, <2>3, <2>4 DEF IInv, ReadCurrent, NoLostUpdate
<1>5. CASE Reload
  <2>1. UNCHANGED <<disk, rest, stat, seen>> /\ pc' = "record"
    BY <1>5 DEF Reload
  <2>2. Types' /\ Earlier(stat)' /\ Earlier(seen)'
    BY <1>1, <2>1 DEF Types, Earlier
  <2>3. (status = "up" /\ ~failed)' => hosts' = newHostlist(disk.lines)
    BY <1>5 DEF Reload, loadHostEntries, LoadPanics
  <2> QED BY <2>1, <2>2, <2>3 DEF IInv, ReadCurrent, NoLostUpdate
<1>6. CASE Record
  <2>1. /\ UNCHANGED <<disk, rest, stat, hosts, failed, status>> /\ seen' = stat
        /\ pc = "record" /\ pc' = "wait"
    BY <1>6 DEF Record
  <2>2. Types' /\ Earlier(stat)' /\ Earlier(seen)'
    BY <1>1, <2>1 DEF Types, Earlier
  <2>3. NoLostUpdate'
    BY <2>1 DEF IInv, ReadCurrent, NoLostUpdate, Stamp
  <2> QED BY <2>1, <2>2, <2>3 DEF IInv, ReadCurrent
<1> QED BY <1>2, <1>3, <1>4, <1>5, <1>6 DEF monitorHostEntries

\* Every step keeps the invariant.
LEMMA NextInvariant == IInv /\ [Next]_vars => IInv'
<1> SUFFICES ASSUME IInv, [Next]_vars PROVE IInv'
  OBVIOUS
<1>1. CASE Next
  BY <1>1, WriterInvariant, MonitorInvariant DEF Next
<1>2. CASE UNCHANGED vars
  BY <1>2 DEF vars, file, IInv, Types, Earlier, ReadCurrent, NoLostUpdate, Stamp
<1> QED BY <1>1, <1>2

\* Whenever writers change the file, between the two system calls of the poller
\* or within one tick of the clock, the poller that sees nothing new and did
\* not fail to read has loaded what the file holds now.
THEOREM UpdatesAreNotLost == Spec => []NoLostUpdate
<1>1. IInv => NoLostUpdate
  BY DEF IInv
<1> QED BY <1>1, InitInvariant, NextInvariant, PTL DEF Spec

-----------------------------------------------------------------------------
(* The list operators *)

\* No element of a list is there twice.
Distinct(l) == \A i, j \in DOMAIN l : l[i] = l[j] => i = j

\* A new element before others that are distinct.
LEMMA ConsDistinct ==
  ASSUME NEW T, NEW b \in Seq(T), NEW x \in T \ ToSet(b), Distinct(b)
  PROVE  Distinct(<<x>> \o b)
<1> DEFINE w == <<x>> \o b
<1>1. DOMAIN w = 1..(Len(b) + 1) /\ Len(b) \in Nat /\ DOMAIN b = 1..Len(b)
  OBVIOUS
<1>2. w[1] = x /\ \A i \in 1..(Len(b) + 1) : i # 1 => w[i] = b[i - 1]
  OBVIOUS
<1> HIDE DEF w
<1>3. \A i \in 1..(Len(b) + 1) : i # 1 => i - 1 \in DOMAIN b
  BY <1>1
<1>4. \A i \in DOMAIN w : i # 1 => w[i] = b[i - 1] /\ w[i] # x
  BY <1>1, <1>2, <1>3 DEF ToSet
<1>5. \A i, j \in DOMAIN w : i # 1 /\ j # 1 /\ w[i] = w[j] => i = j
  <2> SUFFICES ASSUME NEW i \in DOMAIN w, NEW j \in DOMAIN w, i # 1, j # 1, w[i] = w[j]
               PROVE  i = j
    OBVIOUS
  <2>1. b[i - 1] = b[j - 1] /\ i - 1 \in DOMAIN b /\ j - 1 \in DOMAIN b
    BY <1>1, <1>3, <1>4
  <2>2. i - 1 = j - 1
    BY <2>1 DEF Distinct
  <2> QED
    BY <1>1, <2>2
<1>6. Distinct(w)
  BY <1>2, <1>4, <1>5 DEF Distinct
<1> QED
  BY <1>6 DEF w

\* A new element after others that are distinct.
LEMMA AppendDistinct ==
  ASSUME NEW T, NEW b \in Seq(T), NEW x \in T \ ToSet(b), Distinct(b)
  PROVE  Distinct(Append(b, x))
<1> DEFINE w == Append(b, x)
           n == Len(b)
<1>1. DOMAIN w = 1..(n + 1) /\ n \in Nat /\ DOMAIN b = 1..n
  OBVIOUS
<1>2. w[n + 1] = x /\ \A i \in 1..n : w[i] = b[i]
  OBVIOUS
<1> HIDE DEF w, n
<1>3. \A i \in DOMAIN w : i # n + 1 => i \in DOMAIN b /\ w[i] = b[i] /\ w[i] # x
  BY <1>1, <1>2 DEF ToSet
<1>4. Distinct(w)
  BY <1>2, <1>3 DEF Distinct
<1> QED
  BY <1>4 DEF w

\* The rest of a list.
LEMMA RestDistinct ==
  ASSUME NEW T, NEW t \in Seq(T), NEW n \in Nat, Len(t) = n + 1, Distinct(t)
  PROVE  Distinct(Tail(t)) /\ Head(t) \notin ToSet(Tail(t))
<1>1. /\ Head(t) = t[1] /\ 1 \in DOMAIN t /\ DOMAIN Tail(t) \subseteq Nat \ {0}
      /\ \A i \in DOMAIN Tail(t) : i + 1 \in DOMAIN t /\ Tail(t)[i] = t[i + 1]
  <2>1. Tail(t) \in Seq(T)
    BY ConsSeq
  <2> QED
    BY <2>1, ConsSeq
<1> DEFINE r == Tail(t)
           h == Head(t)
<1> HIDE DEF r, h
<1>2. Distinct(r)
  <2> SUFFICES ASSUME NEW i \in DOMAIN r, NEW j \in DOMAIN r, r[i] = r[j] PROVE i = j
    BY DEF Distinct
  <2>1. i + 1 \in DOMAIN t /\ j + 1 \in DOMAIN t /\ t[i + 1] = t[j + 1] /\ i \in Nat /\ j \in Nat
    BY <1>1 DEF r
  <2>2. i + 1 = j + 1
    BY <2>1, Zenon DEF Distinct
  <2> QED
    BY <2>1, <2>2
<1>3. ASSUME NEW i \in DOMAIN r, r[i] = h PROVE FALSE
  <2>1. i + 1 \in DOMAIN t /\ t[i + 1] = t[1] /\ 1 \in DOMAIN t /\ i \in Nat \ {0}
    BY <1>1, <1>3 DEF r, h
  <2>2. i + 1 = 1
    BY <2>1, Zenon DEF Distinct
  <2> QED
    BY <2>1, <2>2
<1> QED
  BY <1>2, <1>3 DEF r, h, ToSet

\* What Among makes of one entry.
amongOf(wanted) == [h \in Host |-> IF h \in wanted THEN <<h>> ELSE <<>>]

\* Among maps the entries of a list and joins what comes out.
LEMMA AmongIs ==
  ASSUME NEW wanted
  PROVE  \E F : /\ IsFlatMap(F, amongOf(wanted), Host, Host)
                /\ \A l \in Seq(Host) : Among(l, wanted) = F[l]
<1> DEFINE c == amongOf(wanted)
           eq(F) == F = [l \in Seq(Host) |->
                           IF l = <<>> THEN <<>>
                           ELSE (IF Head(l) \in wanted THEN <<Head(l)>> ELSE <<>>) \o F[Tail(l)]]
<1>1. c \in [Host -> Seq(Host)]
  <2>1. <<>> \in Seq(Host) /\ \A h \in Host : <<h>> \in Seq(Host)
    BY SmallSeq
  <2> QED
    BY <2>1 DEF amongOf
<1>2. \A F : eq(F) <=> FlatMapDef(F, c, Host)
  <2>1. \A l \in Seq(Host) : l # <<>> => c[Head(l)] = (IF Head(l) \in wanted THEN <<Head(l)>> ELSE <<>>)
    BY HeadTailProperties DEF amongOf
  <2> HIDE DEF c
  <2> QED
    BY <2>1 DEF FlatMapDef
<1> DEFINE A == CHOOSE F : eq(F)
<1>3. \E F : eq(F)
  <2> HIDE DEF c, eq
  <2> QED BY <1>1, <1>2, FlatMapExists
<1>4. eq(A)
  <2> HIDE DEF eq
  <2> QED BY <1>3
<1>5. \A l \in Seq(Host) : Among(l, wanted) = A[l]
  BY DEF Among
<1>6. IsFlatMap(A, c, Host, Host)
  <2> HIDE DEF A, c, eq
  <2> QED BY <1>1, <1>2, <1>4, FlatMapDefined
<1> QED
  <2> HIDE DEF A, eq
  <2> QED BY <1>5, <1>6

\* Among yields the entries that are wanted, each as often as it was there.
LEMMA AmongList ==
  ASSUME NEW wanted, NEW list \in Seq(Host)
  PROVE  /\ Among(list, wanted) \in Seq(Host)
         /\ ToSet(Among(list, wanted)) = ToSet(list) \cap wanted
         /\ Distinct(list) => Distinct(Among(list, wanted))
<1> PICK F : /\ IsFlatMap(F, amongOf(wanted), Host, Host)
             /\ \A l \in Seq(Host) : Among(l, wanted) = F[l]
  BY AmongIs
<1> DEFINE c == amongOf(wanted)
           Good(t) == Distinct(t) => Distinct(F[t])
           Q == {n \in Nat : \A t \in Seq(Host) : Len(t) = n => Good(t)}
<1>1. F \in [Seq(Host) -> Seq(Host)] /\ c \in [Host -> Seq(Host)]
  BY DEF IsFlatMap
<1>2. \A h \in Host : ToSet(c[h]) = {h} \cap wanted
  <2> SUFFICES ASSUME NEW h \in Host PROVE ToSet(c[h]) = {h} \cap wanted
    OBVIOUS
  <2>1. ToSet(<<h>>) = {h} /\ ToSet(<<>>) = {}
    BY DEF ToSet
  <2> QED
    BY <2>1 DEF amongOf
<1>0. IsFlatMap(F, c, Host, Host)
  OBVIOUS
<1> HIDE DEF c
<1>3. ASSUME NEW t \in Seq(Host) PROVE ToSet(F[t]) = ToSet(t) \cap wanted
  <2>1. ToSet(F[t]) = UNION {ToSet(c[t[i]]) : i \in DOMAIN t}
    BY <1>0, FlatMapSet
  <2>2. \A i \in DOMAIN t : t[i] \in Host
    OBVIOUS
  <2>3. ASSUME NEW x, x \in ToSet(F[t]) PROVE x \in ToSet(t) \cap wanted
    <3>1. PICK i \in DOMAIN t : x \in ToSet(c[t[i]])
      BY <2>1, <2>3
    <3> QED
      BY <1>2, <2>2, <3>1 DEF ToSet
  <2>4. ASSUME NEW x, x \in ToSet(t) \cap wanted PROVE x \in ToSet(F[t])
    <3>1. PICK i \in DOMAIN t : x = t[i]
      BY <2>4 DEF ToSet
    <3>2. x \in ToSet(c[t[i]])
      BY <1>2, <2>2, <2>4, <3>1
    <3> QED
      BY <2>1, <3>2
  <2> QED
    BY <2>3, <2>4
<1>4. 0 \in Q
  <2> SUFFICES ASSUME NEW t \in Seq(Host), Len(t) = 0 PROVE Distinct(F[t])
    OBVIOUS
  <2>1. t = <<>>
    BY EmptySeq
  <2>2. F[t] = <<>>
    BY <2>1 DEF IsFlatMap
  <2> QED
    BY <2>2 DEF Distinct
<1>5. ASSUME NEW n \in Nat, n \in Q PROVE n + 1 \in Q
  <2> SUFFICES ASSUME NEW t \in Seq(Host), Len(t) = n + 1, Distinct(t) PROVE Distinct(F[t])
    OBVIOUS
  <2> DEFINE h == Head(t)
             r == Tail(t)
  <2>1. t # <<>> /\ r \in Seq(Host) /\ Len(r) = n /\ h \in Host
    BY ConsSeq
  <2>2. Distinct(r) /\ h \notin ToSet(r)
    BY RestDistinct
  <2>3. F[t] = c[h] \o F[r]
    BY <2>1 DEF IsFlatMap, c
  <2> HIDE DEF h, r
  <2>4. Distinct(F[r]) /\ F[r] \in Seq(Host) /\ h \notin ToSet(F[r])
    BY <1>1, <1>3, <1>5, <2>1, <2>2
  <2>5. CASE h \in wanted
    <3>1. c[h] = <<h>>
      BY <2>1, <2>5 DEF c, amongOf
    <3>2. Distinct(<<h>> \o F[r])
      BY <2>1, <2>4, ConsDistinct
    <3> QED
      BY <2>3, <3>1, <3>2, Zenon
  <2>6. CASE h \notin wanted
    <3>1. c[h] = <<>>
      BY <2>1, <2>6 DEF c, amongOf
    <3>2. <<>> \o F[r] = F[r]
      BY <2>4, ConcatEmptySeq
    <3> QED
      BY <2>3, <2>4, <3>1, <3>2, Zenon
  <2> QED
    BY <2>5, <2>6
<1>6. Len(list) \in Nat
  BY LenProperties
<1> HIDE DEF Good
<1>7. Len(list) \in Q
  <2> HIDE DEF Q
  <2> QED BY <1>4, <1>5, <1>6, SetInduction
<1>8. Good(list)
  BY <1>7
<1> QED
  BY <1>1, <1>3, <1>8 DEF Good

\* A list that is not empty ends with its last entry.
LEMMA FrontLast ==
  ASSUME NEW T, NEW s \in Seq(T), s # <<>>
  PROVE  /\ Front(s) \in Seq(T) /\ Last(s) \in T
         /\ Len(Front(s)) = Len(s) - 1 /\ Len(Front(s)) < Len(s)
         /\ ToSet(s) = ToSet(Front(s)) \cup {Last(s)}
<1> DEFINE f == Front(s)
           n == Len(s)
<1>1. n \in Nat \ {0} /\ DOMAIN s = 1..n /\ n \in DOMAIN s
  BY EmptySeq, LenProperties
<1>2. f \in Seq(T) /\ Len(f) = n - 1 /\ DOMAIN f = 1..(n - 1) /\ \A i \in 1..(n - 1) : f[i] = s[i]
  BY <1>1 DEF Front
<1>3. Last(s) = s[n] /\ s[n] \in T
  BY <1>1 DEF Last
<1> HIDE DEF f, n
<1>4. \A i \in DOMAIN s : i = n \/ (i \in DOMAIN f /\ f[i] = s[i])
  BY <1>1, <1>2
<1>5. \A i \in DOMAIN f : i \in DOMAIN s /\ f[i] = s[i]
  BY <1>1, <1>2
<1>6. ToSet(s) = ToSet(f) \cup {Last(s)}
  <2>1. ASSUME NEW x, x \in ToSet(s) PROVE x \in ToSet(f) \cup {Last(s)}
    BY <1>3, <1>4, <2>1 DEF ToSet
  <2>2. ASSUME NEW x, x \in ToSet(f) PROVE x \in ToSet(s)
    BY <1>5, <2>2 DEF ToSet
  <2>3. Last(s) \in ToSet(s)
    BY <1>1, <1>3 DEF ToSet
  <2> QED
    BY <2>1, <2>2, <2>3
<1>7. Len(f) < n
  BY <1>1, <1>2
<1> QED
  BY <1>2, <1>3, <1>6, <1>7 DEF f, n

\* addAll is the function that its equation describes.
LEMMA AddAllIs ==
  /\ addAll \in [Seq(Host) -> Seq(Host)]
  /\ \A hs \in Seq(Host) :
       addAll[hs] = IF hs = <<>> THEN <<>> ELSE add(addAll[Front(hs)], Last(hs))
<1> DEFINE A == Seq(Host)
           body(g, s) == IF s = <<>> THEN <<>> ELSE add(g[Front(s)], Last(s))
           step == [g \in [A -> A] |-> [s \in A |-> body(g, s)]]
           rank == [s \in A |-> Len(s)]
           eq(F) == F = [hs \in Seq(Host) |->
                           IF hs = <<>> THEN <<>> ELSE add(F[Front(hs)], Last(hs))]
<1>1. <<>> \in A
  BY SmallSeq
<1>2. \A l \in A, h \in Host : add(l, h) \in A
  BY DEF add
<1>3. ASSUME NEW s \in A, s # <<>>
      PROVE  Front(s) \in A /\ Last(s) \in Host /\ Len(Front(s)) < Len(s)
  BY <1>3, FrontLast
<1>4. \A g \in [A -> A], s \in A : body(g, s) \in A
  <2> SUFFICES ASSUME NEW g \in [A -> A], NEW s \in A, s # <<>>
               PROVE  add(g[Front(s)], Last(s)) \in A
    BY <1>1
  <2>1. g[Front(s)] \in A /\ Last(s) \in Host
    BY <1>3
  <2> QED
    BY <1>2, <2>1
<1>5. Causal(step, rank, A, A)
  <2>1. rank \in [A -> Nat]
    BY LenProperties
  <2>2. step \in [[A -> A] -> [A -> A]]
    BY <1>4
  <2>3. ASSUME NEW g \in [A -> A], NEW h \in [A -> A], NEW s \in A,
               \A y \in A : rank[y] < rank[s] => g[y] = h[y]
        PROVE  step[g][s] = step[h][s]
    <3>1. s # <<>> => g[Front(s)] = h[Front(s)]
      BY <1>3, <2>3
    <3>2. body(g, s) = body(h, s)
      BY <3>1
    <3> QED
      BY <3>2
  <2> HIDE DEF step, rank, A
  <2> QED
    BY <2>1, <2>2, <2>3 DEF Causal
<1>6. PICK F \in [A -> A] : F = step[F]
  <2>1. A # {}
    BY <1>1
  <2> HIDE DEF step, rank, A
  <2> QED BY <1>5, <2>1, RecursionFixpoint
<1>7. eq(F)
  BY <1>6
<1>8. eq(addAll)
  <2>1. addAll = CHOOSE G : eq(G)
    BY DEF addAll
  <2> HIDE DEF eq
  <2> QED BY <1>7, <2>1
<1> DEFINE Q == {n \in Nat : \A s \in A : Len(s) = n => addAll[s] \in A}
<1>9. \A s \in A : addAll[s] = body(addAll, s)
  BY <1>8
<1>10. 0 \in Q
  <2> SUFFICES ASSUME NEW s \in A, Len(s) = 0 PROVE addAll[s] \in A
    OBVIOUS
  <2>1. s = <<>>
    BY EmptySeq
  <2> QED
    BY <1>1, <1>9, <2>1
<1>11. ASSUME NEW n \in Nat, n \in Q PROVE n + 1 \in Q
  <2> SUFFICES ASSUME NEW s \in A, Len(s) = n + 1 PROVE addAll[s] \in A
    OBVIOUS
  <2>1. s # <<>>
    OBVIOUS
  <2>2. Front(s) \in A /\ Len(Front(s)) = n /\ Last(s) \in Host
    BY <2>1, FrontLast
  <2>3. addAll[Front(s)] \in A
    BY <1>11, <2>2
  <2> QED
    BY <1>2, <1>9, <2>1, <2>2, <2>3
<1>12. \A n \in Nat : n \in Q
  <2> HIDE DEF Q
  <2> QED BY <1>10, <1>11, SetInduction
<1>13. \A s \in A : addAll[s] \in A
  BY <1>12, LenProperties
<1>14. addAll \in [A -> A]
  BY <1>8, <1>13
<1> QED
  BY <1>9, <1>14

\* addAll keeps each entry, once.
LEMMA AddAllList ==
  ASSUME NEW hs \in Seq(Host)
  PROVE  /\ addAll[hs] \in Seq(Host)
         /\ ToSet(addAll[hs]) = ToSet(hs)
         /\ Distinct(addAll[hs])
<1> DEFINE Good(s) == ToSet(addAll[s]) = ToSet(s) /\ Distinct(addAll[s])
           Q == {n \in Nat : \A s \in Seq(Host) : Len(s) = n => Good(s)}
<1> HIDE DEF Good
<1>1. 0 \in Q
  <2> SUFFICES ASSUME NEW s \in Seq(Host), Len(s) = 0 PROVE Good(s)
    OBVIOUS
  <2>1. s = <<>>
    BY EmptySeq
  <2>2. addAll[s] = <<>>
    BY <2>1, AddAllIs
  <2> QED
    BY <2>1, <2>2 DEF Good, ToSet, Distinct
<1>2. ASSUME NEW n \in Nat, n \in Q PROVE n + 1 \in Q
  <2> SUFFICES ASSUME NEW s \in Seq(Host), Len(s) = n + 1 PROVE Good(s)
    OBVIOUS
  <2> DEFINE f == Front(s)
             x == Last(s)
             l == addAll[f]
  <2>1. s # <<>>
    OBVIOUS
  <2>2. f \in Seq(Host) /\ Len(f) = n /\ x \in Host /\ ToSet(s) = ToSet(f) \cup {x}
    BY <2>1, FrontLast
  <2>3. addAll[s] = add(l, x)
    BY <2>1, AddAllIs
  <2>4. l \in Seq(Host)
    BY <2>2, AddAllIs
  <2> HIDE DEF f, x
  <2>5. ToSet(l) = ToSet(f) /\ Distinct(l)
    BY <1>2, <2>2 DEF Good
  <2> HIDE DEF l
  <2>6. CASE x \in ToSet(l)
    BY <2>2, <2>3, <2>5, <2>6 DEF add, Good
  <2>7. CASE x \notin ToSet(l)
    <3>1. addAll[s] = Append(l, x)
      BY <2>3, <2>7 DEF add
    <3>2. Distinct(Append(l, x))
      BY <2>2, <2>4, <2>5, <2>7, AppendDistinct
    <3>3. ToSet(Append(l, x)) = ToSet(l) \cup {x}
      <4>1. /\ DOMAIN Append(l, x) = 1..(Len(l) + 1) /\ Len(l) \in Nat /\ DOMAIN l = 1..Len(l)
            /\ Append(l, x)[Len(l) + 1] = x /\ \A i \in 1..Len(l) : Append(l, x)[i] = l[i]
        BY <2>2, <2>4
      <4>2. \A i \in 1..(Len(l) + 1) : i \in 1..Len(l) \/ i = Len(l) + 1
        BY <4>1
      <4>3. (\A i \in 1..Len(l) : i \in 1..(Len(l) + 1)) /\ Len(l) + 1 \in 1..(Len(l) + 1)
        BY <4>1
      <4> QED
        BY <4>1, <4>2, <4>3 DEF ToSet
    <3> QED
      BY <2>2, <2>5, <3>1, <3>2, <3>3 DEF Good
  <2> QED
    BY <2>6, <2>7
<1>3. Len(hs) \in Nat
  BY LenProperties
<1>4. Len(hs) \in Q
  <2> HIDE DEF Q
  <2> QED BY <1>1, <1>2, <1>3, SetInduction
<1>5. Good(hs)
  BY <1>4
<1> QED
  BY <1>5, AddAllIs DEF Good

-----------------------------------------------------------------------------
(* The first entry that is wanted *)

\* The first element of a list that is in a set.
IsFirst(l, W, h) ==
  \E i \in DOMAIN l : /\ l[i] = h /\ h \in W
                      /\ \A j \in DOMAIN l : l[j] \in W => i <= j

\* It is still the first one if others follow.
LEMMA FirstInFront ==
  ASSUME NEW T, NEW a \in Seq(T), NEW b \in Seq(T), NEW W, NEW h, IsFirst(a, W, h)
  PROVE  IsFirst(a \o b, W, h)
<1> DEFINE w == a \o b
<1>1. /\ DOMAIN w = 1..(Len(a) + Len(b)) /\ Len(a) \in Nat /\ Len(b) \in Nat
      /\ DOMAIN a = 1..Len(a) /\ \A i \in 1..Len(a) : w[i] = a[i]
  OBVIOUS
<1> HIDE DEF w
<1> PICK i \in DOMAIN a : a[i] = h /\ h \in W /\ \A j \in DOMAIN a : a[j] \in W => i <= j
  BY DEF IsFirst
<1>2. i \in DOMAIN w /\ w[i] = h
  BY <1>1
<1>3. ASSUME NEW j \in DOMAIN w, w[j] \in W PROVE i <= j
  <2>1. CASE j \in DOMAIN a
    <3>1. a[j] \in W
      BY <1>1, <1>3, <2>1, Zenon
    <3> QED
      BY <2>1, <3>1
  <2>2. CASE j \notin DOMAIN a
    BY <1>1, <2>2
  <2> QED
    BY <2>1, <2>2
<1>4. IsFirst(w, W, h)
  BY <1>2, <1>3, Zenon DEF IsFirst
<1> QED
  BY <1>4 DEF w

\* And if others that are not in the set come before.
LEMMA FirstBehind ==
  ASSUME NEW T, NEW a \in Seq(T), NEW b \in Seq(T), NEW W, NEW h, IsFirst(b, W, h),
         \A x \in ToSet(a) : x \notin W
  PROVE  IsFirst(a \o b, W, h)
<1> DEFINE w == a \o b
           n == Len(a)
<1>1. /\ DOMAIN w = 1..(n + Len(b)) /\ n \in Nat /\ Len(b) \in Nat
      /\ DOMAIN a = 1..n /\ \A i \in 1..n : w[i] = a[i]
      /\ DOMAIN b = 1..Len(b) /\ \A i \in 1..Len(b) : w[n + i] = b[i]
  OBVIOUS
<1> HIDE DEF w, n
<1> PICK i \in DOMAIN b : b[i] = h /\ h \in W /\ \A j \in DOMAIN b : b[j] \in W => i <= j
  BY DEF IsFirst
<1>2. n + i \in DOMAIN w /\ w[n + i] = h
  BY <1>1
<1>3. ASSUME NEW j \in DOMAIN w, w[j] \in W PROVE n + i <= j
  <2>1. CASE j \in DOMAIN a
    <3>1. a[j] \in ToSet(a) /\ w[j] = a[j]
      BY <1>1, <2>1 DEF ToSet
    <3> QED
      BY <1>3, <3>1
  <2>2. CASE j \notin DOMAIN a
    <3>1. j - n \in DOMAIN b /\ n + (j - n) = j
      BY <1>1, <2>2
    <3>2. b[j - n] \in W
      <4>1. w[n + (j - n)] = b[j - n]
        BY <1>1, <3>1, Zenon
      <4> QED
        BY <1>3, <3>1, <4>1
    <3>3. i <= j - n
      BY <3>1, <3>2
    <3> QED
      BY <1>1, <3>3
  <2> QED
    BY <2>1, <2>2
<1>4. IsFirst(w, W, h)
  BY <1>2, <1>3, Zenon DEF IsFirst
<1> QED
  BY <1>4 DEF w

\* h comes first of an element of t, and nothing wanted of those before it.
Reached(c, t, W, h) ==
  \E i \in DOMAIN t : /\ IsFirst(c[t[i]], W, h)
                      /\ \A k \in DOMAIN t : k < i => \A x \in ToSet(c[t[k]]) : x \notin W

\* What comes first of an element of a list, if nothing wanted comes of those
\* before it, comes first of the list.
LEMMA FlatMapFirst ==
  ASSUME NEW T, NEW S, NEW c, NEW F, IsFlatMap(F, c, S, T), NEW s \in Seq(S),
         NEW W, NEW h, Reached(c, s, W, h)
  PROVE  IsFirst(F[s], W, h)
<1> DEFINE Good(t) == Reached(c, t, W, h) => IsFirst(F[t], W, h)
           Q == {n \in Nat : \A t \in Seq(S) : Len(t) = n => Good(t)}
<1>1. F \in [Seq(S) -> Seq(T)] /\ c \in [S -> Seq(T)]
  BY DEF IsFlatMap
<1>2. 0 \in Q
  <2> SUFFICES ASSUME NEW t \in Seq(S), Len(t) = 0 PROVE ~Reached(c, t, W, h)
    OBVIOUS
  <2>1. t = <<>>
    BY EmptySeq
  <2> QED
    BY <2>1 DEF Reached
<1>3. ASSUME NEW n \in Nat, n \in Q PROVE n + 1 \in Q
  <2> SUFFICES ASSUME NEW t \in Seq(S), Len(t) = n + 1, Reached(c, t, W, h)
               PROVE  IsFirst(F[t], W, h)
    OBVIOUS
  <2> DEFINE g == Head(t)
             r == Tail(t)
  <2>1. /\ t # <<>> /\ r \in Seq(S) /\ Len(r) = n /\ g \in S /\ g = t[1] /\ 1 \in DOMAIN t
        /\ \A i \in DOMAIN r : i + 1 \in DOMAIN t /\ r[i] = t[i + 1]
    BY ConsSeq
  <2>2. DOMAIN t = 1..(n + 1) /\ DOMAIN r = 1..n
    BY <2>1
  <2>3. F[t] = c[g] \o F[r]
    BY <2>1 DEF IsFlatMap
  <2> HIDE DEF g, r
  <2>4. c[g] \in Seq(T) /\ F[r] \in Seq(T)
    BY <1>1, <2>1
  <2> PICK i \in DOMAIN t : /\ IsFirst(c[t[i]], W, h)
                            /\ \A k \in DOMAIN t : k < i => \A x \in ToSet(c[t[k]]) : x \notin W
    BY DEF Reached
  <2>5. CASE i = 1
    <3>1. IsFirst(c[g], W, h)
      BY <2>1, <2>5
    <3> QED
      BY <2>3, <2>4, <3>1, FirstInFront
  <2>6. CASE i # 1
    <3>1. 1 < i /\ i - 1 \in DOMAIN r /\ r[i - 1] = t[i]
      <4>1. 1 < i /\ i - 1 \in DOMAIN r /\ (i - 1) + 1 = i
        BY <2>2, <2>6
      <4>2. r[i - 1] = t[(i - 1) + 1]
        BY <2>1, <4>1, Zenon
      <4> QED
        BY <4>1, <4>2
    <3>2. \A x \in ToSet(c[g]) : x \notin W
      BY <2>1, <3>1
    <3>3. ASSUME NEW k \in DOMAIN r, k < i - 1, NEW x \in ToSet(c[r[k]]) PROVE x \notin W
      <4>1. k + 1 \in DOMAIN t /\ r[k] = t[k + 1]
        BY <2>1
      <4>2. k + 1 < i
        BY <2>2, <3>3
      <4>3. x \in ToSet(c[t[k + 1]])
        BY <3>3, <4>1
      <4> QED
        BY <4>1, <4>2, <4>3, Zenon
    <3>4. Reached(c, r, W, h)
      <4>1. IsFirst(c[r[i - 1]], W, h)
        BY <3>1
      <4> QED
        BY <3>1, <3>3, <4>1, Zenon DEF Reached
    <3>5. IsFirst(F[r], W, h)
      BY <1>3, <2>1, <3>4
    <3> QED
      BY <2>3, <2>4, <3>2, <3>5, FirstBehind
  <2> QED
    BY <2>5, <2>6
<1>4. Len(s) \in Nat
  BY LenProperties
<1> HIDE DEF Good
<1>5. Len(s) \in Q
  <2> HIDE DEF Q
  <2> QED BY <1>2, <1>3, <1>4, SetInduction
<1>6. Good(s)
  BY <1>5
<1> QED
  BY <1>6 DEF Good

\* Among begins with the first entry that is wanted.
LEMMA AmongFirst ==
  ASSUME NEW W, NEW list \in Seq(Host), NEW h, IsFirst(list, W, h)
  PROVE  Among(list, W) # <<>> /\ Among(list, W)[1] = h
<1> PICK F : IsFlatMap(F, amongOf(W), Host, Host) /\ \A l \in Seq(Host) : Among(l, W) = F[l]
  BY AmongIs
<1> DEFINE c == amongOf(W)
           found == Among(list, W)
<1> PICK i \in DOMAIN list : list[i] = h /\ h \in W /\ \A j \in DOMAIN list : list[j] \in W => i <= j
  BY DEF IsFirst
<1>1. \A k \in DOMAIN list : list[k] \in Host
  OBVIOUS
<1>2. IsFirst(c[list[i]], W, h)
  <2>1. c[list[i]] = <<h>>
    BY <1>1 DEF amongOf
  <2>2. DOMAIN <<h>> = {1} /\ <<h>>[1] = h /\ 1 <= 1
    OBVIOUS
  <2>3. IsFirst(<<h>>, W, h)
    BY <2>2 DEF IsFirst
  <2> QED
    BY <2>1, <2>3
<1>3. ASSUME NEW k \in DOMAIN list, k < i, NEW x \in ToSet(c[list[k]]) PROVE x \notin W
  <2>1. ~(i <= k)
    BY <1>3
  <2>2. c[list[k]] = <<>>
    BY <1>1, <2>1 DEF amongOf
  <2> QED
    BY <2>2, <1>3 DEF ToSet
<1>4. Reached(c, list, W, h)
  <2> HIDE DEF c
  <2> QED BY <1>2, <1>3, Zenon DEF Reached
<1>5. IsFirst(found, W, h)
  <2>1. IsFirst(F[list], W, h)
    <3> HIDE DEF c
    <3>1. IsFlatMap(F, c, Host, Host)
      BY DEF c
    <3> QED
      BY <1>4, <3>1, FlatMapFirst
  <2> QED
    BY <2>1
<1>6. found \in Seq(Host) /\ ToSet(found) \subseteq W
  BY AmongList
<1> HIDE DEF found
<1> PICK m \in DOMAIN found : found[m] = h /\ \A j \in DOMAIN found : found[j] \in W => m <= j
  BY <1>5 DEF IsFirst
<1>7. 1 \in DOMAIN found /\ m \in Nat \ {0} /\ found[1] \in ToSet(found)
  <2>1. DOMAIN found = 1..Len(found) /\ Len(found) \in Nat
    BY <1>6
  <2>2. 1 \in DOMAIN found /\ m \in Nat \ {0}
    BY <2>1
  <2> QED
    BY <2>2 DEF ToSet
<1>8. m = 1
  BY <1>6, <1>7
<1>9. found # <<>> /\ found[1] = h
  BY <1>7, <1>8
<1> QED
  BY <1>9 DEF found

\* addAll keeps the first entry of a kind first.
LEMMA AddAllFirst ==
  ASSUME NEW hs \in Seq(Host), NEW W, NEW h, IsFirst(hs, W, h)
  PROVE  IsFirst(addAll[hs], W, h)
<1> DEFINE Good(s) == IsFirst(s, W, h) => IsFirst(addAll[s], W, h)
           Q == {n \in Nat : \A s \in Seq(Host) : Len(s) = n => Good(s)}
<1>1. 0 \in Q
  <2> SUFFICES ASSUME NEW s \in Seq(Host), Len(s) = 0 PROVE ~IsFirst(s, W, h)
    OBVIOUS
  <2>1. s = <<>>
    BY EmptySeq
  <2> QED
    BY <2>1 DEF IsFirst
<1>2. ASSUME NEW n \in Nat, n \in Q PROVE n + 1 \in Q
  <2> SUFFICES ASSUME NEW s \in Seq(Host), Len(s) = n + 1, IsFirst(s, W, h)
               PROVE  IsFirst(addAll[s], W, h)
    OBVIOUS
  <2> DEFINE f == Front(s)
             x == Last(s)
             l == addAll[f]
  <2>1. s # <<>>
    OBVIOUS
  <2>2. /\ f \in Seq(Host) /\ Len(f) = n /\ x \in Host /\ x = s[n + 1]
        /\ DOMAIN f = 1..n /\ DOMAIN s = 1..(n + 1) /\ \A k \in 1..n : f[k] = s[k]
    <3>1. f \in Seq(Host) /\ Len(f) = n /\ x \in Host
      BY <2>1, FrontLast
    <3> QED
      BY <3>1 DEF Front, Last
  <2>3. addAll[s] = add(l, x)
    BY <2>1, AddAllIs
  <2>4. l \in Seq(Host) /\ ToSet(l) = ToSet(f)
    BY <2>2, AddAllList
  <2> HIDE DEF f, x
  <2> PICK i \in DOMAIN s : s[i] = h /\ h \in W /\ \A j \in DOMAIN s : s[j] \in W => i <= j
    BY DEF IsFirst
  <2>5. CASE i # n + 1
    <3>1. i \in DOMAIN f /\ f[i] = h
      BY <2>2, <2>5
    <3>2. \A j \in DOMAIN f : j \in DOMAIN s /\ f[j] = s[j]
      BY <2>2
    <3>3. IsFirst(f, W, h)
      BY <3>1, <3>2, Zenon DEF IsFirst
    <3>4. IsFirst(l, W, h)
      BY <1>2, <2>2, <3>3
    <3> HIDE DEF l
    <3>5. IsFirst(Append(l, x), W, h)
      <4>1. <<x>> \in Seq(Host) /\ Append(l, x) = l \o <<x>>
        BY <2>2, <2>4, SmallSeq
      <4> QED
        BY <2>4, <3>4, <4>1, FirstInFront
    <3> QED
      BY <2>3, <3>4, <3>5 DEF add
  <2>6. CASE i = n + 1
    <3>1. \A y \in ToSet(l) : y \notin W
      <4>1. ASSUME NEW j \in DOMAIN f PROVE f[j] \notin W
        <5>1. j \in DOMAIN s /\ f[j] = s[j] /\ ~(i <= j)
          BY <2>2, <2>6
        <5> QED
          BY <5>1
      <4> QED
        BY <2>4, <4>1 DEF ToSet
    <3> HIDE DEF l
    <3>2. x = h /\ addAll[s] = Append(l, x)
      BY <2>2, <2>3, <2>6, <3>1 DEF add
    <3>3. <<x>> \in Seq(Host) /\ Append(l, x) = l \o <<x>>
      BY <2>2, <2>4, SmallSeq
    <3>4. IsFirst(<<x>>, W, h)
      <4>1. DOMAIN <<x>> = {1} /\ <<x>>[1] = h /\ 1 <= 1
        BY <3>2
      <4> QED
        BY <4>1 DEF IsFirst
    <3>5. IsFirst(l \o <<x>>, W, h)
      BY <2>4, <3>1, <3>3, <3>4, FirstBehind
    <3> QED
      BY <3>2, <3>3, <3>5
  <2> QED
    BY <2>5, <2>6
<1>3. Len(hs) \in Nat
  BY LenProperties
<1> HIDE DEF Good
<1>4. Len(hs) \in Q
  <2> HIDE DEF Q
  <2> QED BY <1>1, <1>2, <1>3, SetInduction
<1>5. Good(hs)
  BY <1>4
<1> QED
  BY <1>5 DEF Good

-----------------------------------------------------------------------------
(* The list that the lines of the file make *)

\* h is an entry of the lines.
Entered(lines, h) ==
  \E i \in DOMAIN lines : /\ Usable(lines[i])
                          /\ \E j \in DOMAIN lines[i].words :
                               h = newHostname(lines[i].words[j], lines[i].ip)

\* A name in lower case, once or twice.
LEMMA LowerType ==
  ASSUME NEW name \in Seq(Label)
  PROVE  lower(name) \in Seq(Label) /\ lower(lower(name)) = lower(name)
<1>1. /\ DOMAIN name = 1..Len(name) /\ Len(name) \in Nat
      /\ \A i \in DOMAIN name : name[i] \in Label
  OBVIOUS
<1>2. lower(name) = [i \in DOMAIN name |-> Lower[name[i]]]
  BY DEF lower
<1>3. \A i \in DOMAIN name : Lower[name[i]] \in Label /\ Lower[Lower[name[i]]] = Lower[name[i]]
  BY <1>1, HostsAssumption
<1>4. lower(name) \in [1..Len(name) -> Label]
  BY <1>1, <1>2, <1>3
<1>5. lower(name) \in Seq(Label)
  BY <1>1, <1>4
<1>6. lower(lower(name)) = [i \in DOMAIN name |-> Lower[Lower[name[i]]]]
  BY DEF lower
<1> QED
  BY <1>2, <1>3, <1>5, <1>6

\* What newHostname makes of a word and an address that is not skipped.
LEMMA HostnameType ==
  ASSUME NEW word \in Word, NEW ip \in STRING
  PROVE  LET h == newHostname(word, ip)
         IN  /\ h \in Host /\ h.ip = ip /\ h.wildcard = word.wildcard
             /\ h.ipv6 = (ip \in IPv6)
             /\ h.domain = lower(word.name) /\ h.domain = lower(h.domain)
<1>1. word.name \in Seq(Label) /\ word.wildcard \in BOOLEAN
  BY Zenon DEF Word
<1>2. lower(word.name) \in Seq(Label) /\ lower(lower(word.name)) = lower(word.name)
  BY <1>1, LowerType
<1>3. (ip \in IPv6) \in BOOLEAN
  OBVIOUS
<1> QED
  BY <1>1, <1>2, <1>3 DEF newHostname, Host

\* An entry of the lines is an entry of a list.
LEMMA EnteredType ==
  ASSUME NEW lines \in Seq(Line), NEW h, Entered(lines, h)
  PROVE  /\ h \in Host /\ h.domain = lower(h.domain)
         /\ h.ip \in IPv4 \cup IPv6 /\ h.ipv6 = (h.ip \in IPv6)
<1> PICK i \in DOMAIN lines : /\ Usable(lines[i])
                              /\ \E j \in DOMAIN lines[i].words :
                                   h = newHostname(lines[i].words[j], lines[i].ip)
  BY DEF Entered
<1>1. lines[i] \in Line
  OBVIOUS
<1>2. lines[i].ip \in STRING /\ lines[i].words \in Seq(Word)
  BY <1>1 DEF Line
<1> PICK j \in DOMAIN lines[i].words : h = newHostname(lines[i].words[j], lines[i].ip)
  OBVIOUS
<1>3. lines[i].words[j] \in Word
  BY <1>2
<1>4. /\ h \in Host /\ h.ip = lines[i].ip /\ h.ipv6 = (lines[i].ip \in IPv6)
      /\ h.domain = lower(h.domain)
  BY <1>2, <1>3, HostnameType
<1> QED
  BY <1>4, Zenon DEF Usable

\* What parseLine makes of a line.
parseOf == [line \in Line |-> parseLine(line)]

\* The entries of one line.
LEMMA LineEntries ==
  ASSUME NEW line \in Line
  PROVE  /\ parseLine(line) \in Seq(Host)
         /\ \A h : h \in ToSet(parseLine(line)) <=>
              Usable(line) /\ \E j \in DOMAIN line.words : h = newHostname(line.words[j], line.ip)
<1>1. line.ip \in STRING /\ line.words \in Seq(Word)
  BY DEF Line
<1>2. /\ DOMAIN line.words = 1..Len(line.words) /\ Len(line.words) \in Nat
      /\ \A j \in DOMAIN line.words : newHostname(line.words[j], line.ip) \in Host
  <2>1. DOMAIN line.words = 1..Len(line.words) /\ Len(line.words) \in Nat
        /\ \A j \in DOMAIN line.words : line.words[j] \in Word
    BY <1>1
  <2> QED
    BY <1>1, <2>1, HostnameType
<1>3. CASE Usable(line)
  <2>1. parseLine(line) = [j \in DOMAIN line.words |-> newHostname(line.words[j], line.ip)]
    BY <1>3 DEF parseLine
  <2>2. parseLine(line) \in [1..Len(line.words) -> Host]
    BY <1>2, <2>1
  <2>3. parseLine(line) \in Seq(Host)
    BY <1>2, <2>2
  <2>4. \A h : h \in ToSet(parseLine(line)) <=>
          \E j \in DOMAIN line.words : h = newHostname(line.words[j], line.ip)
    BY <2>1 DEF ToSet
  <2> QED
    BY <1>3, <2>3, <2>4
<1>4. CASE ~Usable(line)
  <2>1. parseLine(line) = <<>> /\ <<>> \in Seq(Host)
    BY <1>4, SmallSeq DEF parseLine
  <2> QED
    BY <1>4, <2>1 DEF ToSet
<1> QED
  BY <1>3, <1>4

\* parseLines joins what parseLine makes of the lines.
LEMMA ParseIs == IsFlatMap(parseLines, parseOf, Line, Host)
<1> DEFINE eq(F) == F = [s \in Seq(Line) |->
                           IF s = <<>> THEN <<>> ELSE parseLine(Head(s)) \o F[Tail(s)]]
<1>1. parseOf \in [Line -> Seq(Host)]
  BY LineEntries DEF parseOf
<1>2. \A F : eq(F) <=> FlatMapDef(F, parseOf, Line)
  <2>1. \A s \in Seq(Line) : s # <<>> => parseOf[Head(s)] = parseLine(Head(s))
    BY HeadTailProperties DEF parseOf
  <2> QED
    BY <2>1 DEF FlatMapDef
<1>3. \E F : eq(F)
  BY <1>1, <1>2, FlatMapExists
<1>4. eq(parseLines)
  BY <1>3 DEF parseLines
<1> QED
  BY <1>1, <1>2, <1>4, FlatMapDefined

\* The list has the entries of the lines, each once.
LEMMA ListIs ==
  ASSUME NEW lines \in Seq(Line)
  PROVE  /\ newHostlist(lines) \in Seq(Host)
         /\ Distinct(newHostlist(lines))
         /\ \A h : h \in ToSet(newHostlist(lines)) <=> Entered(lines, h)
<1> DEFINE hs == parseLines[lines]
<1>1. hs \in Seq(Host) /\ ToSet(hs) = UNION {ToSet(parseOf[lines[i]]) : i \in DOMAIN lines}
  <2>1. hs \in Seq(Host)
    BY ParseIs DEF IsFlatMap
  <2>2. ToSet(hs) = UNION {ToSet(parseOf[lines[i]]) : i \in DOMAIN lines}
    BY ParseIs, FlatMapSet
  <2> QED
    BY <2>1, <2>2
<1>2. \A i \in DOMAIN lines : lines[i] \in Line /\ parseOf[lines[i]] = parseLine(lines[i])
  BY DEF parseOf
<1>3. \A h : h \in ToSet(hs) <=> \E i \in DOMAIN lines : h \in ToSet(parseLine(lines[i]))
  BY <1>1, <1>2
<1>4. \A h : h \in ToSet(hs) <=> Entered(lines, h)
  BY <1>2, <1>3, LineEntries DEF Entered
<1>5. newHostlist(lines) = addAll[hs]
  BY DEF newHostlist
<1> HIDE DEF hs
<1> QED
  BY <1>1, <1>4, <1>5, AddAllList

-----------------------------------------------------------------------------
(* What the lookups find *)

\* The words of the lines.
LEMMA WordType ==
  ASSUME NEW lines \in Seq(Line), NEW i \in DOMAIN lines, NEW j \in DOMAIN lines[i].words
  PROVE  lines[i].words[j].wildcard \in BOOLEAN
<1>1. lines[i] \in Line
  OBVIOUS
<1>2. lines[i].words \in Seq(Word)
  BY <1>1 DEF Line
<1>3. lines[i].words[j] \in Word
  BY <1>2
<1> QED
  BY <1>3, Zenon DEF Word

\* A name is one label in front of another name.
LEMMA OneLabelMore ==
  ASSUME NEW name \in Seq(Label), NEW d \in Seq(Label)
  PROVE  (Len(name) = Len(d) + 1 /\ Tail(name) = d) <=> name = <<name[1]>> \o d
<1> DEFINE v == name[1]
           T == Label \cup {v}
<1>1. v \in T /\ d \in Seq(T) /\ name \in Seq(T)
  OBVIOUS
<1> HIDE DEF v, T
<1>2. <<v>> \o d \in Seq(T) /\ Len(<<v>> \o d) = Len(d) + 1 /\ Len(d) \in Nat
      /\ (<<v>> \o d)[1] = v /\ \A i \in 1..Len(d) : (<<v>> \o d)[i + 1] = d[i]
  BY <1>1
<1>3. ASSUME Len(name) = Len(d) + 1 PROVE Tail(name) = d <=> name = <<v>> \o d
  <2>1. /\ Tail(name) \in Seq(T) /\ Len(Tail(name)) = Len(d)
        /\ \A i \in 1..Len(d) : Tail(name)[i] = name[i + 1]
    BY <1>1, <1>2, <1>3
  <2>2. ASSUME Tail(name) = d PROVE name = <<v>> \o d
    <3> DEFINE w == <<v>> \o d
    <3>1. w \in Seq(T) /\ Len(w) = Len(name) /\ w[1] = v /\ \A i \in 1..Len(d) : w[i + 1] = d[i]
      BY <1>2, <1>3
    <3> HIDE DEF w
    <3>2. ASSUME NEW i \in 1..Len(name) PROVE name[i] = w[i]
      <4>1. CASE i = 1
        BY <3>1, <4>1 DEF v
      <4>2. CASE i # 1
        <5>1. i - 1 \in 1..Len(d) /\ (i - 1) + 1 = i
          BY <1>2, <1>3, <4>2
        <5>2. d[i - 1] = name[(i - 1) + 1] /\ w[(i - 1) + 1] = d[i - 1]
          BY <2>1, <2>2, <3>1, <5>1, Zenon
        <5> QED
          BY <5>1, <5>2
      <4> QED
        BY <4>1, <4>2
    <3>3. name = w
      BY <1>1, <3>1, <3>2, SeqEqual
    <3> QED
      BY <3>3 DEF w
  <2>3. ASSUME name = <<v>> \o d PROVE Tail(name) = d
    <3>1. \A i \in 1..Len(d) : name[i + 1] = d[i]
      BY <1>2, <2>3
    <3>2. \A i \in 1..Len(d) : Tail(name)[i] = d[i]
      BY <2>1, <3>1
    <3> QED
      BY <1>1, <2>1, <3>2, SeqEqual
  <2> QED
    BY <2>2, <2>3
<1>4. ASSUME name = <<v>> \o d PROVE Len(name) = Len(d) + 1
  BY <1>2, <1>4
<1> QED
  BY <1>3, <1>4 DEF v

\* The addresses of a name itself are those that the lines give it.
LEMMA ExactListed ==
  ASSUME NEW lines \in Seq(Line), NEW name \in Seq(Label)
  PROVE  {h.ip : h \in Exact(newHostlist(lines), name)} = Listed(lines, name, FALSE)
<1> DEFINE list == newHostlist(lines)
<1>0. \A h : h \in ToSet(list) <=> Entered(lines, h)
  BY ListIs
<1> HIDE DEF list
<1>1. ASSUME NEW h \in Exact(list, name) PROVE h.ip \in Listed(lines, name, FALSE)
  <2>1. Entered(lines, h) /\ ~h.wildcard /\ h.domain = name
    BY <1>0 DEF Exact
  <2> PICK i \in DOMAIN lines : /\ Usable(lines[i])
                                /\ \E j \in DOMAIN lines[i].words :
                                     h = newHostname(lines[i].words[j], lines[i].ip)
    BY <2>1 DEF Entered
  <2> PICK j \in DOMAIN lines[i].words : h = newHostname(lines[i].words[j], lines[i].ip)
    OBVIOUS
  <2>2. lines[i].words[j].wildcard \in BOOLEAN
    BY WordType
  <2>3. h.ip = lines[i].ip /\ h.wildcard = lines[i].words[j].wildcard
        /\ h.domain = lower(lines[i].words[j].name)
    BY DEF newHostname
  <2>4. lines[i].words[j].wildcard = FALSE /\ name = lower(lines[i].words[j].name)
    BY <2>1, <2>2, <2>3, Zenon
  <2> QED
    BY <2>3, <2>4, Zenon DEF Listed
<1>2. ASSUME NEW ip \in Listed(lines, name, FALSE)
      PROVE  \E h \in Exact(list, name) : ip = h.ip
  <2> PICK i \in DOMAIN lines :
             /\ ip = lines[i].ip /\ Usable(lines[i])
             /\ \E j \in DOMAIN lines[i].words :
                  lines[i].words[j].wildcard = FALSE /\ name = lower(lines[i].words[j].name)
    BY Zenon DEF Listed
  <2> PICK j \in DOMAIN lines[i].words :
             lines[i].words[j].wildcard = FALSE /\ name = lower(lines[i].words[j].name)
    OBVIOUS
  <2> DEFINE h == newHostname(lines[i].words[j], lines[i].ip)
  <2>1. h.ip = ip /\ ~h.wildcard /\ h.domain = name
    BY DEF newHostname
  <2>2. Entered(lines, h)
    BY Zenon DEF Entered
  <2> HIDE DEF h
  <2>3. h \in Exact(list, name)
    BY <1>0, <2>1, <2>2 DEF Exact
  <2> QED
    BY <2>1, <2>3
<1>3. {h.ip : h \in Exact(list, name)} = Listed(lines, name, FALSE)
  BY <1>1, <1>2
<1> QED
  BY <1>3 DEF list

\* The addresses of a name by a wildcard are those that the lines give to all
\* names with one label more than the wildcard's.
LEMMA MatchesListed ==
  ASSUME NEW lines \in Seq(Line), NEW name \in Seq(Label)
  PROVE  {h.ip : h \in Matches(newHostlist(lines), name)} = Listed(lines, name, TRUE)
<1> DEFINE list == newHostlist(lines)
<1>0. \A h : h \in ToSet(list) <=> Entered(lines, h)
  BY ListIs
<1> HIDE DEF list
<1>1. ASSUME NEW h \in Matches(list, name) PROVE h.ip \in Listed(lines, name, TRUE)
  <2>1. /\ Entered(lines, h) /\ h.wildcard
        /\ Len(name) = Len(h.domain) + 1 /\ Tail(name) = h.domain
    BY <1>0 DEF Matches
  <2>2. h.domain \in Seq(Label)
    BY <2>1, EnteredType DEF Host
  <2>3. name = <<name[1]>> \o h.domain
    BY <2>1, <2>2, OneLabelMore
  <2> PICK i \in DOMAIN lines : /\ Usable(lines[i])
                                /\ \E j \in DOMAIN lines[i].words :
                                     h = newHostname(lines[i].words[j], lines[i].ip)
    BY <2>1 DEF Entered
  <2> PICK j \in DOMAIN lines[i].words : h = newHostname(lines[i].words[j], lines[i].ip)
    OBVIOUS
  <2>4. lines[i].words[j].wildcard \in BOOLEAN
    BY WordType
  <2>5. h.ip = lines[i].ip /\ h.wildcard = lines[i].words[j].wildcard
        /\ h.domain = lower(lines[i].words[j].name)
    BY DEF newHostname
  <2>6. lines[i].words[j].wildcard = TRUE /\ name = <<name[1]>> \o lower(lines[i].words[j].name)
    BY <2>1, <2>3, <2>4, <2>5, Zenon
  <2> QED
    BY <2>5, <2>6, Zenon DEF Listed
<1>2. ASSUME NEW ip \in Listed(lines, name, TRUE)
      PROVE  \E h \in Matches(list, name) : ip = h.ip
  <2> PICK i \in DOMAIN lines :
             /\ ip = lines[i].ip /\ Usable(lines[i])
             /\ \E j \in DOMAIN lines[i].words :
                  /\ lines[i].words[j].wildcard = TRUE
                  /\ name = <<name[1]>> \o lower(lines[i].words[j].name)
    BY Zenon DEF Listed
  <2> PICK j \in DOMAIN lines[i].words :
             /\ lines[i].words[j].wildcard = TRUE
             /\ name = <<name[1]>> \o lower(lines[i].words[j].name)
    OBVIOUS
  <2> DEFINE h == newHostname(lines[i].words[j], lines[i].ip)
  <2>1. h.ip = ip /\ h.wildcard /\ name = <<name[1]>> \o h.domain
    BY DEF newHostname
  <2>2. Entered(lines, h)
    BY Zenon DEF Entered
  <2> HIDE DEF h
  <2>3. h.domain \in Seq(Label)
    BY <2>2, EnteredType DEF Host
  <2>4. Len(name) = Len(h.domain) + 1 /\ Tail(name) = h.domain
    BY <2>1, <2>3, OneLabelMore
  <2>5. h \in Matches(list, name)
    BY <1>0, <2>1, <2>2, <2>4 DEF Matches
  <2> QED
    BY <2>1, <2>5
<1>3. {h.ip : h \in Matches(list, name)} = Listed(lines, name, TRUE)
  BY <1>1, <1>2
<1> QED
  BY <1>3 DEF list

\* Entries for one name with the same address are the same entry.
LEMMA OneAddress ==
  ASSUME NEW lines \in Seq(Line), NEW name,
         NEW W \in {Exact(newHostlist(lines), name), Matches(newHostlist(lines), name)},
         NEW g \in W, NEW h \in W, g.ip = h.ip
  PROVE  g = h
<1>1. Entered(lines, g) /\ Entered(lines, h)
  BY ListIs DEF Exact, Matches
<1>2. /\ g \in Host /\ h \in Host
      /\ g.ipv6 = (g.ip \in IPv6) /\ h.ipv6 = (h.ip \in IPv6)
  BY <1>1, EnteredType
<1>3. g.ipv6 = h.ipv6
  BY <1>2
<1>4. g.domain = h.domain
  BY DEF Exact, Matches
<1>5. g.wildcard = h.wildcard
  <2>1. (g.wildcard /\ h.wildcard) \/ (~g.wildcard /\ ~h.wildcard)
    BY DEF Exact, Matches
  <2>2. g.wildcard \in BOOLEAN /\ h.wildcard \in BOOLEAN
    BY <1>2, Zenon DEF Host
  <2> QED
    BY <2>1, <2>2, Zenon
<1>6. /\ g = [domain |-> g.domain, ip |-> g.ip, ipv6 |-> g.ipv6, wildcard |-> g.wildcard]
      /\ h = [domain |-> h.domain, ip |-> h.ip, ipv6 |-> h.ipv6, wildcard |-> h.wildcard]
  BY <1>2 DEF Host
<1> QED
  BY <1>3, <1>4, <1>5, <1>6, Zenon

\* FindHosts finds the entries of the name, else those of its wildcards.
LEMMA Found ==
  ASSUME NEW lines \in Seq(Line), NEW name \in Seq(Label)
  PROVE  LET list == newHostlist(lines)
             W == IF Exact(list, name) # {} THEN Exact(list, name) ELSE Matches(list, name)
         IN  /\ FindHosts(list, name) \in Seq(Host) /\ Distinct(FindHosts(list, name))
             /\ ToSet(FindHosts(list, name)) = W
             /\ {h.ip : h \in W} = IF Listed(lines, name, FALSE) # {} THEN Listed(lines, name, FALSE)
                                   ELSE Listed(lines, name, TRUE)
<1> DEFINE list == newHostlist(lines)
           W == IF Exact(list, name) # {} THEN Exact(list, name) ELSE Matches(list, name)
<1>1. list \in Seq(Host) /\ Distinct(list)
  BY ListIs
<1>2. /\ {h.ip : h \in Exact(list, name)} = Listed(lines, name, FALSE)
      /\ {h.ip : h \in Matches(list, name)} = Listed(lines, name, TRUE)
  BY ExactListed, MatchesListed
<1> HIDE DEF list
<1>3. FindHosts(list, name) = Among(list, W) /\ W \subseteq ToSet(list)
  BY DEF FindHosts, Exact, Matches
<1>4. Exact(list, name) # {} <=> Listed(lines, name, FALSE) # {}
  <2> DEFINE E == Exact(list, name)
             L == Listed(lines, name, FALSE)
  <2>1. {h.ip : h \in E} = L
    BY <1>2
  <2> HIDE DEF E, L
  <2>2. ASSUME NEW h \in E PROVE L # {}
    BY <2>1
  <2>3. ASSUME NEW ip \in L PROVE E # {}
    BY <2>1
  <2>4. E # {} <=> L # {}
    BY <2>2, <2>3
  <2> QED
    BY <2>4 DEF E, L
<1>5. {h.ip : h \in W} = IF Listed(lines, name, FALSE) # {} THEN Listed(lines, name, FALSE)
                         ELSE Listed(lines, name, TRUE)
  BY <1>2, <1>4
<1> HIDE DEF W
<1>6. ToSet(list) \cap W = W
  BY <1>3
<1>7. /\ FindHosts(list, name) \in Seq(Host) /\ Distinct(FindHosts(list, name))
      /\ ToSet(FindHosts(list, name)) = W
  BY <1>1, <1>3, <1>6, AmongList
<1> QED
  BY <1>5, <1>7 DEF W, list

\* The addresses of the family that is asked for.
Family(type) ==
  CASE type = "A" -> IPv4 [] type = "AAAA" -> IPv6 [] OTHER -> IPv4 \cup IPv6

\* AddressRecords gives the addresses that the lines give to the name.
LEMMA RecordsListed ==
  ASSUME NEW lines \in Seq(Line), NEW name \in Seq(Label), NEW type \in {"A", "AAAA", "ANY"}
  PROVE  LET records == AddressRecords(newHostlist(lines), name, type)
             exact == Listed(lines, name, FALSE)
         IN  /\ ToSet(records) =
                  Family(type) \cap (IF exact # {} THEN exact ELSE Listed(lines, name, TRUE))
             /\ IsInjective(records)
<1> DEFINE list == newHostlist(lines)
           W == IF Exact(list, name) # {} THEN Exact(list, name) ELSE Matches(list, name)
           L == IF Listed(lines, name, FALSE) # {} THEN Listed(lines, name, FALSE)
                ELSE Listed(lines, name, TRUE)
           hs == FindHosts(list, name)
           asked(h) == type = "ANY" \/ (h.ip \in IPv6 <=> type = "AAAA")
           found == Among(hs, {h \in ToSet(hs) : asked(h)})
           records == AddressRecords(list, name, type)
<1>1. hs \in Seq(Host) /\ Distinct(hs) /\ ToSet(hs) = W /\ {h.ip : h \in W} = L
  BY Found
<1>2. \A h \in W : h.ip \in IPv4 \cup IPv6
  <2>1. \A h \in W : h \in ToSet(list)
    BY DEF Exact, Matches
  <2> QED
    BY <2>1, ListIs, EnteredType
<1>3. \A g, h \in W : g.ip = h.ip => g = h
  BY OneAddress
<1>4. records = [i \in DOMAIN found |-> found[i].ip]
  BY DEF AddressRecords
<1> HIDE DEF W, L, hs, list, records
<1>5. Distinct(found) /\ ToSet(found) = {h \in W : asked(h)}
  <2>1. ToSet(hs) \cap {h \in ToSet(hs) : asked(h)} = {h \in W : asked(h)}
    BY <1>1
  <2> HIDE DEF asked
  <2> QED
    BY <1>1, <2>1, AmongList
<1> HIDE DEF found
<1>6. \A h \in W : asked(h) <=> h.ip \in Family(type)
  BY <1>2, HostsAssumption DEF Family
<1> HIDE DEF asked
<1>7. ToSet(records) = Family(type) \cap L
  <2>1. ToSet(records) = {h.ip : h \in ToSet(found)}
    BY <1>4 DEF ToSet
  <2> QED
    BY <1>1, <1>5, <1>6, <2>1
<1>8. IsInjective(records)
  <2> SUFFICES ASSUME NEW i \in DOMAIN found, NEW j \in DOMAIN found, found[i].ip = found[j].ip
               PROVE  i = j
    BY <1>4 DEF IsInjective
  <2>1. found[i] \in W /\ found[j] \in W
    BY <1>5 DEF ToSet
  <2> QED
    BY <1>3, <1>5, <2>1 DEF Distinct
<1> QED
  BY <1>7, <1>8 DEF L, records, list

\* The first line that gives an address makes the first entry that has it.
LEMMA ParseFirst ==
  ASSUME NEW lines \in Seq(Line), NEW ip, NEW i \in DOMAIN lines, Gives(lines[i], ip),
         \A j \in DOMAIN lines : Gives(lines[j], ip) => i <= j
  PROVE  IsFirst(parseLines[lines], {h \in Host : h.ip = ip},
                 newHostname(lines[i].words[1], lines[i].ip))
<1> DEFINE W == {h \in Host : h.ip = ip}
           e == newHostname(lines[i].words[1], lines[i].ip)
<1>1. \A k \in DOMAIN lines : lines[k] \in Line /\ parseOf[lines[k]] = parseLine(lines[k])
  BY DEF parseOf
<1>2. IsFirst(parseLine(lines[i]), W, e)
  <2> DEFINE l == parseLine(lines[i])
             words == lines[i].words
  <2>1. /\ Usable(lines[i]) /\ lines[i].ip = ip /\ words # <<>>
        /\ words \in Seq(Word) /\ lines[i].ip \in STRING
    BY <1>1 DEF Gives, Line
  <2>2. 1 \in DOMAIN words /\ words[1] \in Word
        /\ \A j \in DOMAIN words : j \in Nat \ {0}
    <3>1. Len(words) \in Nat \ {0} /\ DOMAIN words = 1..Len(words)
      BY <2>1, EmptySeq, LenProperties
    <3> QED
      BY <2>1, <3>1
  <2>3. DOMAIN l = DOMAIN words /\ l[1] = e
    BY <2>1, <2>2 DEF parseLine
  <2>4. e \in W
    <3>1. newHostname(words[1], lines[i].ip) \in Host
          /\ newHostname(words[1], lines[i].ip).ip = lines[i].ip
      BY <2>1, <2>2, HostnameType
    <3> QED
      BY <2>1, <3>1
  <2>5. \A j \in DOMAIN l : 1 <= j
    BY <2>2, <2>3
  <2> HIDE DEF l, W, e
  <2>6. IsFirst(l, W, e)
    BY <2>2, <2>3, <2>4, <2>5, Zenon DEF IsFirst
  <2> QED
    BY <2>6 DEF l
<1>3. ASSUME NEW k \in DOMAIN lines, k < i, NEW x \in ToSet(parseOf[lines[k]])
      PROVE  x \notin W
  <2>1. ~(i <= k)
    BY <1>3
  <2>2. ~Gives(lines[k], ip)
    BY <2>1
  <2>3. x \in ToSet(parseLine(lines[k])) /\ lines[k] \in Line
    BY <1>1, <1>3
  <2>4. Usable(lines[k]) /\ \E j \in DOMAIN lines[k].words :
                              x = newHostname(lines[k].words[j], lines[k].ip)
    BY <2>3, LineEntries
  <2>5. x.ip = lines[k].ip
    BY <2>4 DEF newHostname
  <2>6. lines[k].words # <<>>
    BY <2>4
  <2> QED
    BY <2>2, <2>4, <2>5, <2>6 DEF Gives
<1> HIDE DEF W, e
<1>4. IsFirst(parseOf[lines[i]], W, e)
  BY <1>1, <1>2
<1>5. Reached(parseOf, lines, W, e)
  BY <1>3, <1>4, Zenon DEF Reached
<1>6. IsFirst(parseLines[lines], W, e)
  BY <1>5, ParseIs, FlatMapFirst
<1> QED
  BY <1>6 DEF W, e

\* An entry comes of a line that gives its address.
LEMMA EnteredGiven ==
  ASSUME NEW lines \in Seq(Line), NEW h, Entered(lines, h)
  PROVE  \E i \in DOMAIN lines : Gives(lines[i], h.ip)
<1> PICK i \in DOMAIN lines : /\ Usable(lines[i])
                              /\ \E j \in DOMAIN lines[i].words :
                                   h = newHostname(lines[i].words[j], lines[i].ip)
  BY DEF Entered
<1>1. h.ip = lines[i].ip /\ lines[i].words # <<>>
  BY DEF newHostname
<1> QED
  BY <1>1 DEF Gives

\* FindReverse gives the first word of the first line that gives the address.
LEMMA ReverseListed ==
  ASSUME NEW lines \in Seq(Line), NEW ip
  PROVE  FindReverse(newHostlist(lines), ip) = FirstWord(lines, ip)
<1> DEFINE list == newHostlist(lines)
           W == {h \in ToSet(list) : h.ip = ip}
           A == {h \in Host : h.ip = ip}
           found == Among(list, W)
           G == {i \in DOMAIN lines : Gives(lines[i], ip)}
<1>1. list \in Seq(Host) /\ (\A h : h \in ToSet(list) <=> Entered(lines, h))
      /\ list = addAll[parseLines[lines]] /\ parseLines[lines] \in Seq(Host)
  <2>1. parseLines[lines] \in Seq(Host)
    BY ParseIs DEF IsFlatMap
  <2> QED
    BY <2>1, ListIs DEF newHostlist
<1>2. FindReverse(list, ip) = IF found = <<>> THEN {} ELSE {found[1].domain}
  BY Zenon DEF FindReverse
<1> HIDE DEF list
<1>3. CASE G = {}
  <2>1. FirstWord(lines, ip) = {}
    BY <1>3, Zenon DEF FirstWord
  <2>2. W = {}
    <3>1. ASSUME NEW h \in W PROVE FALSE
      <4>1. Entered(lines, h) /\ h.ip = ip
        BY <1>1
      <4>2. \E i \in DOMAIN lines : Gives(lines[i], ip)
        BY <4>1, EnteredGiven
      <4> QED
        BY <1>3, <4>2
    <3> QED
      BY <3>1
  <2>3. found \in Seq(Host) /\ ToSet(found) = {}
    <3>1. ToSet(list) \cap W = {}
      BY <2>2
    <3> HIDE DEF W
    <3> QED
      BY <1>1, <3>1, AmongList
  <2> HIDE DEF found
  <2>4. found = <<>>
    <3>1. DOMAIN found = {}
      BY <2>3 DEF ToSet
    <3> QED
      BY <2>3, <3>1
  <2> QED
    BY <1>2, <2>1, <2>4 DEF list
<1>4. CASE G # {}
  <2>1. G \in SUBSET Nat
    OBVIOUS
  <2> HIDE DEF G
  <2> PICK i \in G : \A j \in G : ~(j < i)
    BY <1>4, <2>1, LeastElement
  <2>2. i \in DOMAIN lines /\ Gives(lines[i], ip)
    BY DEF G
  <2>3. \A j \in DOMAIN lines : Gives(lines[j], ip) => i <= j
    <3> SUFFICES ASSUME NEW j \in DOMAIN lines, Gives(lines[j], ip) PROVE i <= j
      OBVIOUS
    <3>1. j \in G
      BY DEF G
    <3>2. ~(j < i) /\ i \in Nat /\ j \in Nat
      BY <2>1, <3>1
    <3> QED
      BY <3>2
  <2> DEFINE e == newHostname(lines[i].words[1], lines[i].ip)
  <2>4. IsFirst(list, A, e)
    <3> HIDE DEF A
    <3>1. IsFirst(parseLines[lines], A, e)
      BY <2>2, <2>3, ParseFirst DEF A
    <3> HIDE DEF e
    <3> QED
      BY <1>1, <3>1, AddAllFirst
  <2>5. e.domain = lower(lines[i].words[1].name)
    BY DEF newHostname
  <2> HIDE DEF e
  <2>6. IsFirst(list, W, e)
    <3>1. \A k \in DOMAIN list : list[k] \in ToSet(list) /\ list[k] \in Host
      BY <1>1 DEF ToSet
    <3>2. \A k \in DOMAIN list : list[k] \in A <=> list[k] \in W
      BY <3>1
    <3> HIDE DEF A, W
    <3> PICK k \in DOMAIN list : list[k] = e /\ e \in A /\ \A j \in DOMAIN list : list[j] \in A => k <= j
      BY <2>4 DEF IsFirst
    <3> QED
      BY <3>2, Zenon DEF IsFirst
  <2>7. found # <<>> /\ found[1] = e
    <3> HIDE DEF W
    <3> QED BY <1>1, <2>6, AmongFirst
  <2>8. FindReverse(list, ip) = {lower(lines[i].words[1].name)}
    BY <1>2, <2>5, <2>7
  <2>9. FirstWord(lines, ip) = {lower(lines[i].words[1].name)}
    <3> DEFINE M == {k \in DOMAIN lines :
                       /\ Gives(lines[k], ip)
                       /\ \A j \in DOMAIN lines : Gives(lines[j], ip) => k <= j}
    <3>1. M = {i}
      <4>1. ASSUME NEW k \in M PROVE k = i
        <5>1. k <= i /\ i <= k /\ i \in Nat /\ k \in Nat
          BY <2>1, <2>2, <2>3
        <5> QED
          BY <5>1
      <4>2. i \in M
        BY <2>2, <2>3
      <4> QED
        BY <4>1, <4>2, Zenon
    <3>2. FirstWord(lines, ip) = {lower(lines[k].words[1].name) : k \in M}
      BY Zenon DEF FirstWord
    <3> HIDE DEF M
    <3> QED
      BY <3>1, <3>2
  <2> QED
    BY <2>8, <2>9 DEF list
<1> QED
  BY <1>3, <1>4

-----------------------------------------------------------------------------
(* Types and lookups *)

Simple ==
  /\ config \in [path : BOOLEAN, poll : BOOLEAN] /\ (config.poll => config.path)
  /\ edits \in 0..MaxEdits
  /\ pc \in {"new", "serve", "wait", "load", "record"}
  /\ failed \in BOOLEAN
  /\ status \in {"up", "panic", "fatal"}

\* The list is that of the lines that were loaded; before any were, both are
\* empty.
Parsed == loaded \in Lines /\ hosts = newHostlist(loaded)

LInv == Simple /\ Types /\ Parsed

\* No lines give the empty list.
LEMMA NoLines == newHostlist(<<>>) = <<>>
<1>1. <<>> \in Seq(Line) /\ <<>> \in Seq(Host)
  BY SmallSeq
<1>2. parseLines[<<>>] = <<>>
  BY <1>1, ParseIs DEF IsFlatMap
<1>3. addAll[<<>>] = <<>>
  BY <1>1, AddAllIs
<1> QED
  BY <1>2, <1>3 DEF newHostlist

\* Every initial state satisfies the second invariant.
LEMMA InitLookups == Init => LInv
<1> SUFFICES ASSUME Init PROVE LInv
  OBVIOUS
<1>1. Types
  BY InitInvariant DEF IInv
<1>2. Parsed
  <2>1. hosts = <<>> /\ loaded = <<>>
    BY DEF Init
  <2>2. <<>> \in Lines
    BY SmallSeq DEF Lines
  <2> QED
    BY <2>1, <2>2, NoLines, Zenon DEF Parsed
<1>3. Simple
  <2>1. config \in [path : BOOLEAN, poll : BOOLEAN] /\ (config.poll => config.path)
    <3>1. \A p, q \in BOOLEAN : [path |-> p, poll |-> q] \in [path : BOOLEAN, poll : BOOLEAN]
      OBVIOUS
    <3>2. config \in [path : BOOLEAN, poll : BOOLEAN]
      BY <3>1, Zenon DEF Init
    <3>3. ~config.poll \/ config.path
      BY DEF Init
    <3> QED
      BY <3>2, <3>3, Zenon
  <2>2. edits \in 0..MaxEdits
    BY HostsAssumption DEF Init
  <2> QED
    BY <2>1, <2>2 DEF Init, Simple
<1> QED
  BY <1>1, <1>2, <1>3 DEF LInv

\* Every step keeps it: the list changes only with a reading of the file.
LEMMA NextLookups == IInv /\ LInv /\ [Next]_vars => LInv'
<1> SUFFICES ASSUME IInv, LInv, [Next]_vars PROVE LInv'
  OBVIOUS
<1> USE DEF file
<1>1. Types'
  BY NextInvariant DEF IInv
<1>2. Parsed'
  <2>1. UNCHANGED <<hosts, loaded>> \/ loadHostEntries
    BY DEF Next, vars, Writer, Edit, EditEnds, Unlink, monitorHostEntries, PollNothing,
           PollChange, Reload, Record, NewHostsfile, LoadPanics
  <2>2. CASE UNCHANGED <<hosts, loaded>>
    BY <2>2 DEF LInv, Parsed
  <2>3. CASE loadHostEntries
    <3>1. disk.lines \in Lines
      BY DEF LInv, Types
    <3> QED
      BY <2>3, <3>1 DEF loadHostEntries, Parsed
  <2> QED
    BY <2>1, <2>2, <2>3
<1>3. Simple'
  <2>1. Simple /\ MaxEdits \in Nat
    BY HostsAssumption DEF LInv
  <2>2. CASE NewHostsfile
    BY <2>1, <2>2 DEF NewHostsfile, loadHostEntries, LoadPanics, Simple
  <2>3. CASE monitorHostEntries
    BY <2>1, <2>3 DEF monitorHostEntries, PollNothing, PollChange, Reload, Record,
                      loadHostEntries, LoadPanics, Simple, vars
  <2>4. CASE Writer
    <3>1. UNCHANGED <<config, pc, failed, status>> /\ edits' \in 0..MaxEdits
      BY <2>1, <2>4 DEF Writer, Edit, EditEnds, Unlink, Simple
    <3> QED
      BY <2>1, <3>1 DEF Simple
  <2>5. CASE UNCHANGED vars
    BY <2>1, <2>5 DEF Simple, vars
  <2> QED
    BY <2>2, <2>3, <2>4, <2>5 DEF Next
<1> QED
  BY <1>1, <1>2, <1>3 DEF LInv

\* Whatever the file holds when it is read, the variables keep their types, and
\* every domain in the list is in lower case.
THEOREM HostsTypeCorrect == Spec => []TypeOK
<1>1. LInv => TypeOK
  <2> SUFFICES ASSUME LInv PROVE TypeOK
    OBVIOUS
  <2>1. loaded \in Seq(Line) /\ hosts = newHostlist(loaded)
    BY DEF LInv, Parsed, Lines
  <2>2. hosts \in Seq(Host) /\ \A h : h \in ToSet(hosts) <=> Entered(loaded, h)
    BY <2>1, ListIs
  <2>3. ASSUME NEW i \in DOMAIN hosts PROVE hosts[i].domain = lower(hosts[i].domain)
    <3> DEFINE h == hosts[i]
    <3>1. h \in ToSet(hosts)
      BY DEF ToSet
    <3> HIDE DEF h
    <3>2. h.domain = lower(h.domain)
      BY <2>1, <2>2, <3>1, EnteredType
    <3> QED
      BY <3>2 DEF h
  <2>4. Simple /\ Types
    BY DEF LInv
  <2> QED
    BY <2>1, <2>2, <2>3, <2>4 DEF TypeOK, Simple, Types, Lines
<1>2. IInv /\ LInv /\ [Next]_vars => IInv' /\ LInv'
  BY NextInvariant, NextLookups
<1>3. Init => IInv /\ LInv
  BY InitInvariant, InitLookups
<1> QED
  BY <1>1, <1>2, <1>3, PTL DEF Spec

\* Every lookup of a name answers as the loaded lines say, for all names and
\* contents: the addresses that the lines give the name itself, and only if
\* there are none those of wildcards for its first label, each once.
THEOREM LookupsMean == Spec => []LookupMeaning
<1>1. LInv => LookupMeaning
  <2> SUFFICES ASSUME LInv PROVE LookupMeaning
    OBVIOUS
  <2>1. loaded \in Seq(Line) /\ hosts = newHostlist(loaded)
    BY DEF LInv, Parsed, Lines
  <2>2. \A name \in Name : name \in Seq(Label)
    BY HostsAssumption
  <2>3. ASSUME NEW name \in Name, NEW type \in {"A", "AAAA", "ANY"}
        PROVE  LET records == AddressRecords(hosts, name, type)
                   exact == Listed(loaded, name, FALSE)
               IN  /\ ToSet(records) =
                        Family(type) \cap (IF exact # {} THEN exact ELSE Listed(loaded, name, TRUE))
                   /\ IsInjective(records)
    BY <2>1, <2>2, RecordsListed
  <2> QED
    BY <2>3, Zenon DEF LookupMeaning, Family
<1>2. IInv /\ LInv /\ [Next]_vars => IInv' /\ LInv'
  BY NextInvariant, NextLookups
<1>3. Init => IInv /\ LInv
  BY InitInvariant, InitLookups
<1> QED
  BY <1>1, <1>2, <1>3, PTL DEF Spec

\* Every reverse lookup gives the first word of the first loaded line with the
\* address, for all addresses and contents, and nothing without such a line.
THEOREM ReversesMean == Spec => []ReverseMeaning
<1>1. LInv => ReverseMeaning
  <2> SUFFICES ASSUME LInv PROVE ReverseMeaning
    OBVIOUS
  <2>1. loaded \in Seq(Line) /\ hosts = newHostlist(loaded)
    BY DEF LInv, Parsed, Lines
  <2> QED
    BY <2>1, ReverseListed DEF ReverseMeaning
<1>2. IInv /\ LInv /\ [Next]_vars => IInv' /\ LInv'
  BY NextInvariant, NextLookups
<1>3. Init => IInv /\ LInv
  BY InitInvariant, InitLookups
<1> QED
  BY <1>1, <1>2, <1>3, PTL DEF Spec

=============================================================================
