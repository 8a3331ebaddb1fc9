-------------------------- MODULE LifecycleProofs --------------------------
(***************************************************************************)
(* Proofs about the life of the process, for files of any length, any set  *)
(* of flags, and any number of starts, kills and changes by others.        *)
(***************************************************************************)
EXTENDS Lifecycle, ResolvConfProofs

-----------------------------------------------------------------------------
(* The inductive invariant *)

\* The offset is that of an open file.
Idle == ~opened => writes = <<>> /\ pos = 0

\* Until the first token of an update is written, the file is what others
\* wrote, or that with Self registered.
Whole == ~torn /\ pos = 0 => file \in {user, Registered(user, Self)}

\* What an update has written and what it will write make up its result.
Outcome(f, p, ws) == SubSeq(f, 1, p) \o Joined[ws]
Result == IF pc = "register" THEN Registered(user, Self) ELSE user
OnTheWay == opened /\ ~torn => Outcome(file, pos, writes) = Result

\* Where the file is what others wrote.
Unregistered ==
  \/ pc \in {"config", "check"}
  \/ pc = "running" /\ ~flags.defaultResolver
  \/ exit = "clean"
Restored == ~torn /\ ~err /\ Unregistered => file = user

\* Self is in the file with the mark of an addition only, in what was written
\* only by a registration, and in what is to be written only before that; a
\* cleaned file is without it.
SelfMarked == Marked(file, Self)
SelfWritten ==
  \A i \in 1..pos : file[i] = Self =>
    pc = "register" /\ i = 2 /\ pos >= 4 /\ file[3] = "added" /\ file[4] = "newline"
SelfToWrite ==
  \A j \in DOMAIN writes : Self \in ToSet(writes[j]) =>
    pc = "register" /\ pos = 0 /\ j = 1 /\ writes[1] = Entry(Self)
SelfCleaned == pc = "config" /\ ~err => Self \notin ToSet(file)

Shape ==
  /\ TypeOK
  /\ user \in UserFile
  /\ file \in Text
  /\ writes \in Seq(Text)
  /\ Idle
  /\ exit = "clean" => pc = "down"
  /\ pc = "register" => flags.defaultResolver

LInv ==
  /\ Shape
  /\ Whole /\ OnTheWay /\ Restored
  /\ SelfMarked /\ SelfWritten /\ SelfToWrite /\ SelfCleaned

-----------------------------------------------------------------------------
(* Lemmas *)

\* The address of --listen is none of the other tokens, and what others write
\* has none of the tokens that go-dnsmasq adds.
LEMMA Constants ==
  /\ Self \in Token \ {"newline"}
  /\ Self # "nameserver" /\ Self # "added" /\ Self # "disabled" /\ Self # "newline"
  /\ \A u \in UserFile : Foreign(u, Self) /\ u \in Text /\ Self \notin ToSet(u)
  /\ \A fl \in Flags : Self \notin ToSet(fl.nameservers)
BY LifecycleAssumption DEF Foreign, Token

\* Two sequences, one after the other.
LEMMA ConcatIs ==
  ASSUME NEW S, NEW y \in Seq(S), NEW z \in Seq(S)
  PROVE  /\ y \o z \in Seq(S) /\ Len(y \o z) = Len(y) + Len(z)
         /\ \A i \in 1..Len(y) : (y \o z)[i] = y[i]
         /\ \A i \in 1..Len(z) : (y \o z)[Len(y) + i] = z[i]
OBVIOUS

\* w is f with t written at the offset p.
Overwritten(w, f, p, t) ==
  /\ w \in Text /\ Len(w) >= p + Len(t) /\ Len(w) >= Len(f)
  /\ Len(w) = Len(f) \/ Len(w) = p + Len(t)
  /\ \A i \in 1..p : w[i] = f[i]
  /\ \A i \in 1..Len(t) : w[p + i] = t[i]
  /\ \A i \in 1..Len(w) : i > p + Len(t) => i \in 1..Len(f) /\ w[i] = f[i] /\ Len(w) = Len(f)

\* What a write leaves of the contents.
LEMMA WriteAtIs ==
  ASSUME NEW f \in Text, NEW p \in 0..Len(f), NEW t \in Text
  PROVE  Overwritten(WriteAt(f, p, t), f, p, t)
<1> DEFINE w == WriteAt(f, p, t)
           x == SubSeq(f, 1, p)
           z == SubSeq(f, p + Len(t) + 1, Len(f))
<1>1. f \in Seq(Token) /\ t \in Seq(Token) /\ Len(f) \in Nat /\ Len(t) \in Nat /\ p \in Nat /\ p <= Len(f)
  BY LenProperties DEF Text
<1>2. x \in Seq(Token) /\ Len(x) = p /\ \A i \in 1..p : x[i] = f[i]
  BY <1>1
<1>3. /\ z \in Seq(Token)
      /\ p + Len(t) <= Len(f) => Len(z) = Len(f) - (p + Len(t))
      /\ ~(p + Len(t) <= Len(f)) => Len(z) = 0
      /\ \A i \in 1..Len(z) : z[i] = f[p + Len(t) + i]
  BY <1>1
<1>4. w = (x \o t) \o z
  BY DEF WriteAt
<1> HIDE DEF w, x, z
<1> DEFINE y == x \o t
<1>5. /\ y \in Seq(Token) /\ Len(y) = p + Len(t)
      /\ \A i \in 1..p : y[i] = f[i]
      /\ \A i \in 1..Len(t) : y[p + i] = t[i]
  <2>1. /\ y \in Seq(Token) /\ Len(y) = Len(x) + Len(t)
        /\ \A i \in 1..Len(x) : y[i] = x[i]
        /\ \A i \in 1..Len(t) : y[Len(x) + i] = t[i]
    <3>1. x \in Seq(Token) /\ t \in Seq(Token)
      BY <1>1, <1>2
    <3> QED
      BY <3>1, ConcatIs
  <2> QED
    BY <1>2, <2>1, Zenon
<1>12. w = y \o z
  BY <1>4
<1> HIDE DEF y
<1>6. /\ w \in Seq(Token) /\ Len(w) = Len(y) + Len(z)
      /\ \A i \in 1..Len(y) : w[i] = y[i]
      /\ \A i \in 1..Len(z) : w[Len(y) + i] = z[i]
  <2>1. y \in Seq(Token) /\ z \in Seq(Token)
    BY <1>3, <1>5
  <2>2. /\ y \o z \in Seq(Token) /\ Len(y \o z) = Len(y) + Len(z)
        /\ \A i \in 1..Len(y) : (y \o z)[i] = y[i]
        /\ \A i \in 1..Len(z) : (y \o z)[Len(y) + i] = z[i]
    BY <2>1, ConcatIs
  <2> QED
    BY <1>12, <2>2, Zenon
<1>7. Len(z) \in Nat /\ Len(y) \in Nat /\ Len(w) \in Nat
  BY <1>3, <1>5, <1>6, LenProperties
<1>8. Len(w) >= p + Len(t) /\ Len(w) >= Len(f) /\ (Len(w) = Len(f) \/ Len(w) = p + Len(t))
  <2>1. /\ Len(f) \in Nat /\ Len(t) \in Nat /\ p \in Nat /\ p <= Len(f)
        /\ Len(z) \in Nat /\ Len(w) = p + Len(t) + Len(z)
    BY <1>1, <1>5, <1>6, <1>7
  <2>2. CASE p + Len(t) <= Len(f)
    <3>1. Len(z) = Len(f) - (p + Len(t))
      BY <1>3, <2>2, Zenon
    <3> QED
      BY <2>1, <2>2, <3>1
  <2>3. CASE ~(p + Len(t) <= Len(f))
    <3>1. Len(z) = 0
      BY <1>3, <2>3, Zenon
    <3> QED
      BY <2>1, <2>3, <3>1
  <2> QED
    BY <2>2, <2>3
<1>9. \A i \in 1..p : w[i] = f[i]
  <2>1. \A i \in 1..p : i \in 1..Len(y)
    BY <1>1, <1>5
  <2> QED
    BY <1>5, <1>6, <2>1, Zenon
<1>10. \A i \in 1..Len(t) : w[p + i] = t[i]
  <2>1. \A i \in 1..Len(t) : p + i \in 1..Len(y)
    BY <1>1, <1>5
  <2> QED
    BY <1>5, <1>6, <2>1, Zenon
<1>11. ASSUME NEW i \in 1..Len(w), i > p + Len(t)
       PROVE  i \in 1..Len(f) /\ w[i] = f[i] /\ Len(w) = Len(f)
  <2> DEFINE k == i - Len(y)
  <2>1. k \in 1..Len(z) /\ i = Len(y) + k /\ i = p + Len(t) + k
    BY <1>1, <1>5, <1>6, <1>7, <1>11
  <2>2. Len(z) > 0
    BY <1>7, <2>1
  <2>3. Len(w) = Len(f) /\ i \in 1..Len(f)
    <3>1. p + Len(t) <= Len(f) /\ Len(z) = Len(f) - (p + Len(t))
      BY <1>3, <2>2
    <3>2. Len(w) = Len(f)
      BY <1>1, <1>5, <1>6, <3>1
    <3> QED
      BY <3>2
  <2> HIDE DEF k
  <2> QED
    BY <1>3, <1>6, <2>1, <2>3
<1>13. Overwritten(w, f, p, t)
  BY <1>6, <1>8, <1>9, <1>10, <1>11, Zenon DEF Overwritten, Text
<1> QED
  BY <1>13 DEF w

\* The written part grows by what is written.
LEMMA WriteAtPrefix ==
  ASSUME NEW f \in Text, NEW p \in 0..Len(f), NEW t \in Text
  PROVE  /\ SubSeq(WriteAt(f, p, t), 1, p + Len(t)) = SubSeq(f, 1, p) \o t
         /\ p = 0 /\ Len(t) = 0 => WriteAt(f, p, t) = f
<1> DEFINE w == WriteAt(f, p, t)
<1>1. f \in Seq(Token) /\ t \in Seq(Token) /\ Len(f) \in Nat /\ Len(t) \in Nat /\ p \in Nat /\ p <= Len(f)
  BY LenProperties DEF Text
<1>2. /\ w \in Seq(Token) /\ Len(w) \in Nat /\ Len(w) >= p + Len(t) /\ Len(w) >= Len(f)
      /\ Len(w) = Len(f) \/ Len(w) = p + Len(t)
      /\ \A i \in 1..p : w[i] = f[i]
      /\ \A i \in 1..Len(t) : w[p + i] = t[i]
      /\ \A i \in 1..Len(w) : i > p + Len(t) => i \in 1..Len(f) /\ w[i] = f[i]
  <2>1. Overwritten(w, f, p, t)
    BY WriteAtIs
  <2> HIDE DEF w
  <2>2. w \in Seq(Token) /\ Len(w) \in Nat
    BY <2>1, LenProperties DEF Overwritten, Text
  <2> QED
    BY <2>1, <2>2, Zenon DEF Overwritten
<1> HIDE DEF w
<1>3. SubSeq(w, 1, p + Len(t)) = SubSeq(f, 1, p) \o t
  <2> DEFINE a == SubSeq(w, 1, p + Len(t))
             x == SubSeq(f, 1, p)
             b == x \o t
  <2>1. a \in Seq(Token) /\ Len(a) = p + Len(t) /\ \A i \in 1..(p + Len(t)) : a[i] = w[i]
    BY <1>1, <1>2
  <2>2. x \in Seq(Token) /\ Len(x) = p /\ \A i \in 1..p : x[i] = f[i]
    BY <1>1
  <2> HIDE DEF x
  <2>3. /\ b \in Seq(Token) /\ Len(b) = p + Len(t)
        /\ \A i \in 1..p : b[i] = f[i]
        /\ \A i \in 1..Len(t) : b[p + i] = t[i]
    <3>1. /\ b \in Seq(Token) /\ Len(b) = Len(x) + Len(t)
          /\ \A i \in 1..Len(x) : b[i] = x[i]
          /\ \A i \in 1..Len(t) : b[Len(x) + i] = t[i]
      <4>1. x \in Seq(Token) /\ t \in Seq(Token)
        BY <1>1, <2>2
      <4> QED
        BY <4>1, ConcatIs
    <3> QED
      BY <2>2, <3>1, Zenon
  <2> HIDE DEF a, b
  <2>4. ASSUME NEW i \in 1..(p + Len(t)) PROVE a[i] = b[i]
    <3>0. a[i] = w[i]
      BY <2>1
    <3>1. CASE i <= p
      <4>1. i \in 1..p
        BY <1>1, <3>1
      <4>2. w[i] = f[i] /\ b[i] = f[i]
        BY <1>2, <2>3, <4>1, Zenon
      <4> QED
        BY <3>0, <4>2, Zenon
    <3>2. CASE i > p
      <4>1. i - p \in 1..Len(t) /\ p + (i - p) = i
        BY <1>1, <3>2
      <4>2. w[p + (i - p)] = t[i - p] /\ b[p + (i - p)] = t[i - p]
        BY <1>2, <2>3, <4>1, Zenon
      <4> QED
        BY <3>0, <4>1, <4>2, Zenon
    <3> QED
      BY <1>1, <3>1, <3>2
  <2>5. a = b
    BY <2>1, <2>3, <2>4, SeqEqual
  <2> QED
    BY <2>5 DEF a, b, x
<1>4. ASSUME p = 0, Len(t) = 0 PROVE w = f
  <2>1. Len(w) = Len(f)
    BY <1>1, <1>2, <1>4
  <2>2. \A i \in 1..Len(f) : w[i] = f[i]
    BY <1>1, <1>2, <1>4, <2>1
  <2> QED
    BY <1>1, <1>2, <2>1, <2>2, SeqEqual
<1> QED
  BY <1>3, <1>4 DEF w

\* What an update is to write comes to its result.
LEMMA WritesResult ==
  ASSUME NEW u \in UserFile, NEW f, f \in {u, Registered(u, Self)}
  PROVE  /\ Joined[Writes(Entry(Self), f)] = Registered(u, Self)
         /\ Joined[Writes(<<>>, f)] = u
<1>1. Foreign(u, Self) /\ Self \in Token \ {"newline"}
  BY Constants
<1>2. Registered(Registered(u, Self), Self) = Registered(u, Self)
  BY <1>1, RegisterAgain
<1>3. Cleaned(u) = u /\ Cleaned(Registered(u, Self)) = u
  BY <1>1, CleanKeeps, CleanRestores
<1>4. Registered(f, Self) = Registered(u, Self) /\ Cleaned(f) = u
  BY <1>2, <1>3
<1> QED
  BY <1>4 DEF Registered, Cleaned

\* Self is to be written by a registration only, and first.
LEMMA WritesSelf ==
  ASSUME NEW f \in Text, Marked(f, Self), NEW ins, ins = Entry(Self) \/ ins = <<>>
  PROVE  /\ Writes(ins, f) \in Seq(Text)
         /\ \A j \in DOMAIN Writes(ins, f) :
              Self \in ToSet(Writes(ins, f)[j]) => j = 1 /\ ins = Entry(Self) /\ Writes(ins, f)[1] = Entry(Self)
<1> DEFINE P == Token \ {Self}
           r == Rewritten(ins, f)
<1>1. ins \in Text
  BY Constants, EntryLine, EmptySeq DEF Text
<1>2. r \in Seq(Text) /\ Writes(ins, f) = <<ins>> \o r /\ Writes(ins, f) \in Seq(Text)
  BY <1>1, WritesType
<1>3. Self \notin ToSet(StripAdded(f)) /\ StripAdded(f) \in Text
  BY Constants, StripMarked, StripAddedType
<1>4. ToSet(StripAdded(f)) \subseteq P /\ "disabled" \in P
  BY <1>3, Constants, Tokens DEF ToSet, Text
<1> HIDE DEF P, r
<1>5. \A i \in DOMAIN r : ToSet(r[i]) \subseteq P
  BY <1>1, <1>4, RewrittenTokens DEF r
<1>6. \A i \in DOMAIN r : Self \notin ToSet(r[i])
  BY <1>5 DEF P
<1>7. ToSet(<<>>) = {}
  BY DEF ToSet
<1> SUFFICES ASSUME NEW j \in DOMAIN (<<ins>> \o r), Self \in ToSet((<<ins>> \o r)[j])
             PROVE  j = 1 /\ ins = Entry(Self) /\ (<<ins>> \o r)[1] = Entry(Self)
  BY <1>2
<1>8. j = 1
  <2> SUFFICES ASSUME j # 1 PROVE FALSE
    OBVIOUS
  <2>1. j - 1 \in DOMAIN r /\ (<<ins>> \o r)[j] = r[j - 1]
    BY <1>2
  <2> QED
    BY <1>6, <2>1
<1>9. (<<ins>> \o r)[1] = ins
  BY <1>2
<1> QED
  BY <1>7, <1>8, <1>9

-----------------------------------------------------------------------------
(* The steps of the process *)

\* The invariant of the initial states.
LEMMA InitInv == Init => LInv
<1> SUFFICES ASSUME Init PROVE LInv
  OBVIOUS
<1> USE DEF Init
<1>1. user \in UserFile /\ file = user /\ file \in Text /\ Self \notin ToSet(file)
  BY Constants
<1>2. pos \in 0..Len(file) /\ writes = <<>> /\ writes \in Seq(Text)
  BY <1>1, LenProperties, EmptySeq DEF Text
<1>3. Shape
  BY <1>1, <1>2 DEF Shape, TypeOK, Updating, Idle
<1>4. Whole /\ OnTheWay /\ Restored
  BY <1>1 DEF Whole, OnTheWay, Restored
<1>5. SelfMarked /\ SelfWritten /\ SelfToWrite /\ SelfCleaned
  BY <1>1, <1>2 DEF SelfMarked, SelfWritten, SelfToWrite, SelfCleaned, Marked, ToSet
<1> QED
  BY <1>3, <1>4, <1>5 DEF LInv

\* Outside an update the file is not open.
LEMMA NotUpdating ==
  ASSUME LInv, ~opened
  PROVE  /\ writes = <<>> /\ pos = 0
         /\ ~torn => file \in {user, Registered(user, Self)}
BY DEF LInv, Shape, Idle, Whole

\* An update that ends early has written nothing, or is half-way.
LEMMA EndsEarly ==
  ASSUME LInv, torn' = (torn \/ HalfWay), file' = file, user' = user, pos' = 0
  PROVE  Whole' /\ torn' \in BOOLEAN
<1>1. pos \in Nat /\ torn \in BOOLEAN /\ opened \in BOOLEAN
  BY LenProperties DEF LInv, Shape, TypeOK, Text
<1>2. ~torn' => pos = 0
  <2>1. CASE opened
    <3>1. ~torn' => ~HalfWay
      BY Zenon
    <3> QED
      BY <1>1, <2>1, <3>1 DEF HalfWay
  <2>2. CASE ~opened
    BY <2>2, NotUpdating
  <2> QED
    BY <2>1, <2>2
<1>3. Whole'
  BY <1>1, <1>2 DEF LInv, Whole, HalfWay
<1>4. torn' \in BOOLEAN
  BY <1>1 DEF HalfWay
<1> QED
  BY <1>3, <1>4

\* The process ends, at whatever point.
LEMMA ExitInv ==
  ASSUME LInv, NEW how \in {"fatal", "killed", "clean"}, Exit(how),
         how = "clean" => pc = "running" /\ ~flags.defaultResolver
  PROVE  LInv'
<1> USE DEF Exit
<1>1. /\ pc' = "down" /\ exit' = how /\ opened' = FALSE /\ writes' = <<>> /\ pos' = 0
      /\ file' = file /\ user' = user /\ flags' = flags /\ err' = err
      /\ torn' = (torn \/ HalfWay) /\ notified' = notified /\ sig' = sig
  BY DEF process
<1>2. Whole' /\ torn' \in BOOLEAN
  BY <1>1, EndsEarly
<1>3. Shape'
  <2>1. 0 \in 0..Len(file) /\ <<>> \in Seq(Text)
    BY LenProperties, EmptySeq DEF LInv, Shape, Text
  <2>2. TypeOK'
    BY <1>1, <1>2, <2>1 DEF LInv, Shape, TypeOK, Updating
  <2> QED
    BY <1>1, <2>1, <2>2 DEF LInv, Shape, Idle
<1>4. OnTheWay'
  BY <1>1 DEF OnTheWay
<1>5. Restored'
  <2>1. ~torn' => ~torn
    BY <1>1
  <2> QED
    BY <1>1, <2>1 DEF LInv, Restored, Unregistered
<1>6. SelfMarked' /\ SelfWritten' /\ SelfToWrite' /\ SelfCleaned'
  BY <1>1 DEF LInv, SelfMarked, SelfWritten, SelfToWrite, SelfCleaned
<1> QED
  BY <1>2, <1>3, <1>4, <1>5, <1>6 DEF LInv

\* The process starts.
LEMMA StartInv ==
  ASSUME LInv, NEW fl \in Flags, Start(fl)
  PROVE  LInv'
<1>1. /\ pc = "down" /\ pc' = "flags" /\ flags' = fl /\ notified' = FALSE /\ sig' = FALSE
      /\ exit' = "none" /\ file' = file /\ user' = user /\ torn' = torn
      /\ opened' = opened /\ writes' = writes /\ pos' = pos /\ err' = err
  BY DEF Start, update
<1>2. ~opened /\ writes = <<>> /\ pos = 0
  <2>1. ~opened
    BY <1>1 DEF LInv, Shape, TypeOK, Updating
  <2> QED
    BY <2>1, NotUpdating
<1>3. Shape'
  BY <1>1, <1>2 DEF LInv, Shape, TypeOK, Updating, Idle
<1>4. Whole' /\ OnTheWay' /\ Restored'
  BY <1>1, <1>2 DEF LInv, Whole, OnTheWay, Restored, Unregistered
<1>5. SelfMarked' /\ SelfWritten' /\ SelfToWrite' /\ SelfCleaned'
  BY <1>1, <1>2 DEF LInv, SelfMarked, SelfWritten, SelfToWrite, SelfCleaned
<1> QED
  BY <1>3, <1>4, <1>5 DEF LInv

\* Steps of app.Action that do not touch the file, and lead to a point where it
\* need not be as others wrote it unless it was so before.
LEMMA ControlInv ==
  ASSUME LInv, ~Updating, pc # "down",
         file' = file, user' = user, opened' = opened, writes' = writes, pos' = pos,
         torn' = torn, exit' = exit, flags' = flags,
         notified' \in BOOLEAN, sig' \in BOOLEAN, err' \in BOOLEAN, err => err',
         pc' \in {"flags", "clean", "check", "register", "running", "restore"},
         Unregistered' => Unregistered,
         pc' = "register" => flags.defaultResolver
  PROVE  LInv'
<1>1. ~opened /\ writes = <<>> /\ pos = 0 /\ exit # "clean"
  <2>1. ~opened /\ exit # "clean"
    BY DEF LInv, Shape, TypeOK
  <2> QED
    BY <2>1, NotUpdating
<1>2. Shape'
  BY <1>1 DEF LInv, Shape, TypeOK, Updating, Idle
<1>3. Whole' /\ OnTheWay' /\ Restored'
  BY <1>1 DEF LInv, Whole, OnTheWay, Restored
<1>4. SelfMarked' /\ SelfWritten' /\ SelfToWrite' /\ SelfCleaned'
  BY <1>1 DEF LInv, SelfMarked, SelfWritten, SelfToWrite, SelfCleaned
<1> QED
  BY <1>2, <1>3, <1>4 DEF LInv

\* A signal is noticed.
LEMMA SignalInv ==
  ASSUME LInv, UNCHANGED <<file, user, pc, flags, upstreams, update, exit, torn, count>>,
         notified' \in BOOLEAN, sig' \in BOOLEAN
  PROVE  LInv'
<1>1. /\ file' = file /\ user' = user /\ pc' = pc /\ flags' = flags /\ exit' = exit /\ torn' = torn
      /\ opened' = opened /\ writes' = writes /\ pos' = pos /\ err' = err
  BY DEF update
<1>2. Shape'
  BY <1>1 DEF LInv, Shape, TypeOK, Updating, Idle
<1>3. Whole' /\ Restored'
  BY <1>1 DEF LInv, Whole, Restored, Unregistered
<1>5. OnTheWay'
  <2>1. Result' = Result
    BY <1>1 DEF Result
  <2> QED
    BY <1>1, <2>1 DEF LInv, OnTheWay
<1>4. SelfMarked' /\ SelfWritten' /\ SelfToWrite' /\ SelfCleaned'
  BY <1>1 DEF LInv, SelfMarked, SelfWritten, SelfToWrite, SelfCleaned
<1> QED
  BY <1>2, <1>3, <1>4, <1>5 DEF LInv

\* Others write the file anew.
LEMMA EditInv ==
  ASSUME LInv, NEW u \in UserFile, Edit(u)
  PROVE  LInv'
<1>1. /\ ~opened /\ file' = u /\ user' = u /\ torn' = FALSE
      /\ pc' = pc /\ flags' = flags /\ exit' = exit /\ notified' = notified /\ sig' = sig
      /\ opened' = opened /\ writes' = writes /\ pos' = pos /\ err' = err
  BY DEF Edit, update, process
<1>2. writes = <<>> /\ pos = 0
  BY <1>1, NotUpdating
<1>3. u \in Text /\ Self \notin ToSet(u) /\ 0 \in 0..Len(u)
  BY Constants, LenProperties DEF Text
<1>4. Shape'
  BY <1>1, <1>2, <1>3 DEF LInv, Shape, TypeOK, Updating, Idle
<1>5. Whole' /\ OnTheWay' /\ Restored'
  BY <1>1 DEF Whole, OnTheWay, Restored
<1>6. SelfMarked' /\ SelfWritten' /\ SelfToWrite' /\ SelfCleaned'
  BY <1>1, <1>2, <1>3 DEF SelfMarked, SelfWritten, SelfToWrite, SelfCleaned, Marked, ToSet
<1> QED
  BY <1>4, <1>5, <1>6 DEF LInv

-----------------------------------------------------------------------------
(* The steps of updateResolvConf *)

\* updateResolvConf opens and reads the file.
LEMMA OpenInv ==
  ASSUME LInv, Open
  PROVE  LInv'
<1>1. /\ Updating /\ ~opened /\ opened' = TRUE /\ writes' = Writes(insert, file) /\ pos' = 0
      /\ file' = file /\ user' = user /\ pc' = pc /\ flags' = flags /\ notified' = notified
      /\ sig' = sig /\ err' = err /\ exit' = exit /\ torn' = torn
  BY DEF Open, process
<1>2. pos = 0 /\ (~torn => file \in {user, Registered(user, Self)})
  BY <1>1, NotUpdating
<1>3. file \in Text /\ Marked(file, Self) /\ user \in UserFile /\ exit # "clean"
  BY <1>1 DEF LInv, Shape, SelfMarked, Updating
<1>4. insert = (IF pc = "register" THEN Entry(Self) ELSE <<>>)
  BY DEF insert
<1>5. /\ writes' \in Seq(Text)
      /\ \A j \in DOMAIN writes' : Self \in ToSet(writes'[j]) =>
           j = 1 /\ insert = Entry(Self) /\ writes'[1] = Entry(Self)
  BY <1>1, <1>3, <1>4, WritesSelf
<1>6. insert = Entry(Self) => pc = "register"
  BY <1>4, Constants, EntryLine
<1>7. Shape'
  <2>1. pos' \in 0..Len(file)
    BY <1>1, <1>3, LenProperties DEF Text
  <2>2. TypeOK'
    BY <1>1, <2>1 DEF LInv, Shape, TypeOK, Updating
  <2> QED
    BY <1>1, <1>5, <2>2 DEF LInv, Shape, Idle
<1>8. Whole' /\ Restored'
  BY <1>1, <1>2, <1>3 DEF Whole, Restored, Unregistered, Updating
<1>9. OnTheWay'
  <2> SUFFICES ASSUME ~torn PROVE Outcome(file, 0, Writes(insert, file)) = Result
    <3>1. Result' = Result
      BY <1>1 DEF Result
    <3> QED
      BY <1>1, <3>1 DEF OnTheWay
  <2>1. /\ Joined[Writes(Entry(Self), file)] = Registered(user, Self)
        /\ Joined[Writes(<<>>, file)] = user
    BY <1>2, <1>3, WritesResult
  <2>2. Joined[Writes(insert, file)] = Result
    BY <1>4, <2>1 DEF Result
  <2>3. SubSeq(file, 1, 0) = <<>>
    BY <1>3 DEF Text
  <2>4. Joined[Writes(insert, file)] \in Seq(Token)
    BY <1>1, <1>5, JoinedIs DEF IsFlatMap
  <2>5. <<>> \o Joined[Writes(insert, file)] = Joined[Writes(insert, file)]
    BY <2>4, ConcatEmptySeq
  <2> QED
    BY <2>2, <2>3, <2>5 DEF Outcome
<1>10. SelfMarked' /\ SelfWritten' /\ SelfCleaned'
  BY <1>1, <1>3 DEF SelfMarked, SelfWritten, SelfCleaned, Updating
<1>11. SelfToWrite'
  BY <1>1, <1>5, <1>6 DEF SelfToWrite
<1> QED
  BY <1>7, <1>8, <1>9, <1>10, <1>11 DEF LInv

\* Where Self is in the file after a write.
LEMMA SelfAfterWrite ==
  ASSUME LInv, opened, writes # <<>>,
         NEW w, w = WriteAt(file, pos, Head(writes)),
         NEW i \in DOMAIN w, w[i] = Self
  PROVE  \/ /\ pc = "register" /\ i = 2 /\ w[3] = "added" /\ w[4] = "newline"
            /\ pos + Len(Head(writes)) >= 4 /\ Len(w) >= 4
         \/ /\ i > pos + Len(Head(writes))
            /\ i + 1 \in DOMAIN w /\ w[i + 1] = "added"
            /\ i + 1 = Len(w) \/ w[i + 2] = "newline"
<1> DEFINE t == Head(writes)
<1>1. /\ file \in Text /\ t \in Text /\ t = writes[1] /\ 1 \in DOMAIN writes
      /\ pos \in 0..Len(file)
  BY HeadTailProperties DEF LInv, Shape, TypeOK
<1>2. Len(file) \in Nat /\ Len(t) \in Nat /\ pos \in Nat /\ pos <= Len(file) /\ DOMAIN t = 1..Len(t)
  BY <1>1, LenProperties DEF Text
<1> HIDE DEF t
<1>3. /\ w \in Text /\ Len(w) >= pos + Len(t) /\ Len(w) >= Len(file)
      /\ \A k \in 1..pos : w[k] = file[k]
      /\ \A k \in 1..Len(t) : w[pos + k] = t[k]
      /\ \A k \in 1..Len(w) : k > pos + Len(t) => k \in 1..Len(file) /\ w[k] = file[k] /\ Len(w) = Len(file)
  <2>1. w = WriteAt(file, pos, t)
    BY DEF t
  <2>2. Overwritten(w, file, pos, t)
    BY <1>1, <2>1, WriteAtIs
  <2> QED
    BY <2>2, Zenon DEF Overwritten
<1>4. DOMAIN w = 1..Len(w) /\ Len(w) \in Nat /\ DOMAIN file = 1..Len(file) /\ i \in Nat
  BY <1>1, <1>3 DEF Text
<1>5. CASE i <= pos
  <2>1. pc = "register" /\ i = 2 /\ pos >= 4 /\ file[3] = "added" /\ file[4] = "newline"
    BY <1>2, <1>3, <1>4, <1>5 DEF LInv, SelfWritten
  <2>2. w[3] = "added" /\ w[4] = "newline"
    BY <1>2, <1>3, <2>1
  <2>3. pos + Len(t) >= 4 /\ Len(w) >= 4
    BY <1>2, <1>3, <1>4, <2>1
  <2> QED
    BY <2>1, <2>2, <2>3 DEF t
<1>6. CASE i > pos /\ i <= pos + Len(t)
  <2> DEFINE k == i - pos
  <2>1. k \in 1..Len(t) /\ pos + k = i
    BY <1>2, <1>4, <1>6
  <2> HIDE DEF k
  <2>2. t[k] = Self
    BY <1>3, <2>1
  <2>3. Self \in ToSet(t)
    BY <1>2, <2>1, <2>2 DEF ToSet
  <2>4. pc = "register" /\ pos = 0 /\ t = Entry(Self)
    BY <1>1, <2>3 DEF LInv, SelfToWrite
  <2>5. Len(t) = 4 /\ t[1] = "nameserver" /\ t[2] = Self /\ t[3] = "added" /\ t[4] = "newline"
    BY <2>4 DEF Entry
  <2>6. k = 2
    <3>1. k = 1 \/ k = 2 \/ k = 3 \/ k = 4
      BY <2>1, <2>5
    <3> QED
      BY <2>2, <2>5, <3>1, Constants
  <2>7. i = 2
    BY <2>1, <2>4, <2>6
  <2>8. w[3] = "added" /\ w[4] = "newline"
    <3>1. w[0 + 3] = t[3] /\ w[0 + 4] = t[4]
      BY <1>3, <2>4, <2>5
    <3> QED
      BY <2>5, <3>1
  <2> QED
    BY <1>3, <1>4, <2>4, <2>5, <2>7, <2>8 DEF t
<1>7. CASE i > pos + Len(t)
  <2>1. file[i] = Self /\ i \in DOMAIN file /\ Len(w) = Len(file)
    BY <1>3, <1>4, <1>7
  <2>2. /\ i + 1 \in DOMAIN file /\ file[i + 1] = "added"
        /\ i + 1 = Len(file) \/ file[i + 2] = "newline"
    BY <2>1 DEF LInv, SelfMarked, Marked
  <2>3. i + 1 \in 1..Len(w) /\ i + 1 > pos + Len(t)
    BY <1>2, <1>4, <1>7, <2>1, <2>2
  <2>4. w[i + 1] = "added"
    BY <1>3, <2>2, <2>3
  <2>5. i + 1 # Len(w) => i + 2 \in 1..Len(w) /\ i + 2 > pos + Len(t)
    BY <1>2, <1>4, <1>7, <2>3
  <2>6. i + 1 # Len(w) => w[i + 2] = "newline"
    BY <1>3, <2>1, <2>2, <2>5
  <2> QED
    BY <1>4, <1>7, <2>3, <2>4, <2>6 DEF t
<1> QED
  BY <1>2, <1>4, <1>5, <1>6, <1>7

\* updateResolvConf writes one string.
LEMMA WriteStringInv ==
  ASSUME LInv, WriteString
  PROVE  LInv'
<1> DEFINE t == Head(writes)
           w == WriteAt(file, pos, t)
<1>1. /\ opened /\ writes # <<>> /\ file' = w /\ pos' = pos + Len(t) /\ writes' = Tail(writes)
      /\ user' = user /\ pc' = pc /\ flags' = flags /\ notified' = notified /\ sig' = sig
      /\ opened' = opened /\ err' = err /\ exit' = exit /\ torn' = torn
  BY DEF WriteString, process
<1>2. /\ file \in Text /\ writes \in Seq(Text) /\ pos \in 0..Len(file) /\ Updating
      /\ t \in Text /\ Tail(writes) \in Seq(Text) /\ exit # "clean"
  BY <1>1, HeadTailProperties DEF LInv, Shape, TypeOK, Updating
<1>3. /\ w \in Text /\ Len(w) >= pos + Len(t) /\ Len(w) \in Nat /\ Len(t) \in Nat /\ pos \in Nat
      /\ SubSeq(w, 1, pos + Len(t)) = SubSeq(file, 1, pos) \o t
      /\ pos = 0 /\ Len(t) = 0 => w = file
  <2>1. w \in Text /\ Len(w) >= pos + Len(t)
    BY <1>2, WriteAtIs DEF Overwritten
  <2>2. /\ SubSeq(w, 1, pos + Len(t)) = SubSeq(file, 1, pos) \o t
        /\ pos = 0 /\ Len(t) = 0 => w = file
    BY <1>2, WriteAtPrefix
  <2>3. Len(w) \in Nat /\ Len(t) \in Nat /\ pos \in Nat
    <3> HIDE DEF w, t
    <3> QED BY <1>2, <2>1, LenProperties DEF Text
  <2> QED
    BY <2>1, <2>2, <2>3
<1>4. \A i \in DOMAIN w : w[i] = Self =>
        \/ /\ pc = "register" /\ i = 2 /\ w[3] = "added" /\ w[4] = "newline"
           /\ pos + Len(t) >= 4 /\ Len(w) >= 4
        \/ /\ i > pos + Len(t)
           /\ i + 1 \in DOMAIN w /\ w[i + 1] = "added"
           /\ i + 1 = Len(w) \/ w[i + 2] = "newline"
  BY <1>1, SelfAfterWrite
<1>5. DOMAIN w = 1..Len(w)
  BY <1>3 DEF Text
<1>6. /\ writes = <<t>> \o Tail(writes)
      /\ \A j \in DOMAIN Tail(writes) : j + 1 \in DOMAIN writes /\ Tail(writes)[j] = writes[j + 1] /\ j \in Nat /\ j # 0
  BY <1>1, <1>2
<1>7. OnTheWay'
  <2> SUFFICES ASSUME ~torn PROVE Outcome(w, pos + Len(t), Tail(writes)) = Result
    <3>1. Result' = Result
      BY <1>1 DEF Result
    <3> HIDE DEF w, t
    <3> QED
      BY <1>1, <3>1 DEF OnTheWay
  <2> DEFINE x == SubSeq(file, 1, pos)
             r == Joined[Tail(writes)]
  <2>1. Joined[writes] = t \o r
    BY <1>1, <1>2, JoinedCons
  <2>2. x \in Seq(Token) /\ t \in Seq(Token) /\ r \in Seq(Token)
    <3>1. x \in Seq(Token)
      BY <1>2 DEF Text
    <3>2. t \in Seq(Token)
      BY <1>2 DEF Text
    <3>3. r \in Seq(Token)
      BY <1>2, JoinedIs DEF IsFlatMap
    <3> QED
      BY <3>1, <3>2, <3>3
  <2>3. x \o (t \o r) = (x \o t) \o r
    <3> HIDE DEF x, t, r
    <3> QED BY <2>2, ConcatAssociative
  <2>4. Outcome(file, pos, writes) = Result
    BY <1>1 DEF LInv, OnTheWay
  <2> QED
    BY <1>3, <2>1, <2>3, <2>4 DEF Outcome
<1> HIDE DEF w, t
<1>8. Shape'
  <2>1. pos' \in 0..Len(file')
    BY <1>1, <1>3
  <2>2. TypeOK'
    BY <1>1, <1>2, <2>1 DEF LInv, Shape, TypeOK, Updating
  <2> QED
    BY <1>1, <1>2, <1>3, <2>2 DEF LInv, Shape, Idle
<1>9. Whole'
  <2>1. pos' = 0 => pos = 0 /\ Len(t) = 0
    BY <1>1, <1>3
  <2> QED
    BY <1>1, <1>3, <2>1 DEF LInv, Whole
<1>10. Restored' /\ SelfCleaned'
  BY <1>1, <1>2 DEF Restored, Unregistered, SelfCleaned, Updating
<1>11. SelfMarked'
  <2>1. ASSUME NEW i \in DOMAIN w, w[i] = Self
        PROVE  /\ i + 1 \in DOMAIN w /\ w[i + 1] = "added"
               /\ i + 1 = Len(w) \/ w[i + 2] = "newline"
    <3>1. CASE i = 2 /\ w[3] = "added" /\ w[4] = "newline" /\ Len(w) >= 4
      BY <1>3, <1>5, <3>1
    <3> QED
      BY <1>4, <2>1, <3>1
  <2> QED
    BY <1>1, <2>1 DEF SelfMarked, Marked
<1>12. SelfWritten'
  <2> SUFFICES ASSUME NEW i \in 1..(pos + Len(t)), w[i] = Self
               PROVE  /\ pc = "register" /\ i = 2 /\ pos + Len(t) >= 4
                      /\ w[3] = "added" /\ w[4] = "newline"
    BY <1>1 DEF SelfWritten
  <2>1. i \in DOMAIN w /\ ~(i > pos + Len(t))
    BY <1>3, <1>5
  <2> QED
    BY <1>4, <2>1
<1>13. SelfToWrite'
  <2> SUFFICES ASSUME NEW j \in DOMAIN Tail(writes), Self \in ToSet(Tail(writes)[j])
               PROVE  FALSE
    BY <1>1 DEF SelfToWrite
  <2>1. j + 1 = 1
    BY <1>6 DEF LInv, SelfToWrite
  <2> QED
    BY <1>6, <2>1
<1> QED
  BY <1>7, <1>8, <1>9, <1>10, <1>11, <1>12, <1>13 DEF LInv

\* What the return of updateResolvConf leaves, with or without an error.
LEMMA ReturnsIs ==
  ASSUME LInv, NEW failed \in BOOLEAN, Updating, UpdateReturns(failed)
  PROVE  /\ opened' = FALSE /\ writes' = <<>> /\ pos' = 0 /\ err' = failed /\ user' = user
         /\ flags' = flags /\ notified' = notified /\ sig' = sig
         /\ torn' = (torn \/ (failed /\ HalfWay))
         /\ \/ pc = "clean" /\ pc' = "config" /\ exit' = exit
            \/ pc = "register" /\ pc' = "running" /\ exit' = exit
            \/ pc = "restore" /\ pc' = "down" /\ exit' = "clean"
         /\ exit # "clean"
<1>1. pc = "clean" \/ pc = "register" \/ pc = "restore"
  BY DEF Updating
<1>2. exit # "clean"
  BY <1>1 DEF LInv, Shape
<1>3. /\ pc = "clean" => pc' = "config" /\ exit' = exit
      /\ pc = "register" => pc' = "running" /\ exit' = exit
      /\ pc = "restore" => pc' = "down" /\ exit' = "clean"
  BY DEF UpdateReturns
<1>4. /\ opened' = FALSE /\ writes' = <<>> /\ pos' = 0 /\ err' = failed /\ user' = user
      /\ flags' = flags /\ notified' = notified /\ sig' = sig
      /\ torn' = (torn \/ (failed /\ HalfWay))
  BY DEF UpdateReturns, process
<1> QED
  BY <1>1, <1>2, <1>3, <1>4

\* updateResolvConf cuts the file and returns.
LEMMA TruncateInv ==
  ASSUME LInv, Truncate
  PROVE  LInv'
<1> DEFINE x == SubSeq(file, 1, pos)
<1>1. opened /\ writes = <<>> /\ file' = x /\ Updating /\ UpdateReturns(FALSE)
  BY DEF Truncate, LInv, Shape, TypeOK
<1>2. /\ opened' = FALSE /\ writes' = <<>> /\ pos' = 0 /\ err' = FALSE /\ user' = user
      /\ flags' = flags /\ notified' = notified /\ sig' = sig /\ exit # "clean"
      /\ torn' = (torn \/ (FALSE /\ HalfWay))
      /\ \/ pc = "clean" /\ pc' = "config" /\ exit' = exit
         \/ pc = "register" /\ pc' = "running" /\ exit' = exit
         \/ pc = "restore" /\ pc' = "down" /\ exit' = "clean"
  BY <1>1, ReturnsIs
<1>3. torn' = torn
  <2>1. torn \in BOOLEAN
    BY DEF LInv, Shape, TypeOK
  <2> QED
    BY <1>2, <2>1
<1>4. /\ file \in Text /\ pos \in Nat /\ pos <= Len(file) /\ Len(file) \in Nat
  BY LenProperties DEF LInv, Shape, TypeOK, Text
<1>5. x \in Text /\ Len(x) = pos /\ DOMAIN x = 1..pos /\ \A i \in 1..pos : x[i] = file[i]
  BY <1>4 DEF Text
<1>6. ~torn => x = Result
  <2> SUFFICES ASSUME ~torn PROVE x = Result
    OBVIOUS
  <2>1. x \o Joined[<<>>] = Result
    BY <1>1 DEF LInv, OnTheWay, Outcome
  <2>2. Joined[<<>>] = <<>> /\ x \o <<>> = x
    <3>1. <<>> \in Seq(Text)
      BY EmptySeq
    <3> HIDE DEF x
    <3> QED BY <1>5, <3>1, JoinedIs, ConcatEmptySeq DEF IsFlatMap, Text
  <2> QED
    BY <2>1, <2>2
<1> HIDE DEF x
<1>7. Shape'
  <2>1. 0 \in 0..Len(x) /\ <<>> \in Seq(Text)
    BY <1>4, <1>5, EmptySeq
  <2>2. TypeOK'
    BY <1>1, <1>2, <1>3, <2>1 DEF LInv, Shape, TypeOK, Updating
  <2> QED
    BY <1>1, <1>2, <1>5, <2>1, <2>2 DEF LInv, Shape, Idle
<1>8. Whole' /\ OnTheWay'
  BY <1>1, <1>2, <1>3, <1>6 DEF Whole, OnTheWay, Result
<1>9. Restored'
  <2> SUFFICES ASSUME ~torn, Unregistered' PROVE x = user
    BY <1>1, <1>2, <1>3 DEF Restored
  <2>1. pc # "register"
    BY <1>2 DEF LInv, Shape, Unregistered
  <2> QED
    BY <1>6, <2>1 DEF Result
<1>10. \A i \in 1..pos : x[i] = Self =>
         pc = "register" /\ i = 2 /\ pos >= 4 /\ x[3] = "added" /\ x[4] = "newline"
  <2> SUFFICES ASSUME NEW i \in 1..pos, x[i] = Self
               PROVE  pc = "register" /\ i = 2 /\ pos >= 4 /\ x[3] = "added" /\ x[4] = "newline"
    OBVIOUS
  <2>1. pc = "register" /\ i = 2 /\ pos >= 4 /\ file[3] = "added" /\ file[4] = "newline"
    BY <1>5 DEF LInv, SelfWritten
  <2>2. 3 \in 1..pos /\ 4 \in 1..pos
    BY <1>4, <2>1
  <2> QED
    BY <1>5, <2>1, <2>2
<1>11. SelfMarked'
  <2>1. ASSUME NEW i \in DOMAIN x, x[i] = Self
        PROVE  /\ i + 1 \in DOMAIN x /\ x[i + 1] = "added"
               /\ i + 1 = Len(x) \/ x[i + 2] = "newline"
    <3>1. i = 2 /\ pos >= 4 /\ x[3] = "added" /\ x[4] = "newline"
      BY <1>5, <1>10, <2>1
    <3> QED
      BY <1>4, <1>5, <3>1
  <2> QED
    BY <1>1, <2>1 DEF SelfMarked, Marked
<1>12. SelfWritten' /\ SelfToWrite'
  BY <1>2 DEF SelfWritten, SelfToWrite
<1>13. SelfCleaned'
  <2> SUFFICES ASSUME pc' = "config" PROVE Self \notin ToSet(x)
    BY <1>1 DEF SelfCleaned
  <2>1. pc = "clean"
    BY <1>2
  <2> QED
    BY <1>5, <1>10, <2>1 DEF ToSet
<1> QED
  BY <1>7, <1>8, <1>9, <1>11, <1>12, <1>13 DEF LInv

\* updateResolvConf fails, maybe half-way.
LEMMA UpdateFailsInv ==
  ASSUME LInv, UpdateFails
  PROVE  LInv'
<1>1. Updating /\ file' = file /\ UpdateReturns(TRUE)
  BY DEF UpdateFails
<1>2. /\ opened' = FALSE /\ writes' = <<>> /\ pos' = 0 /\ err' = TRUE /\ user' = user
      /\ flags' = flags /\ notified' = notified /\ sig' = sig /\ exit # "clean"
      /\ torn' = (torn \/ (TRUE /\ HalfWay))
      /\ \/ pc = "clean" /\ pc' = "config" /\ exit' = exit
         \/ pc = "register" /\ pc' = "running" /\ exit' = exit
         \/ pc = "restore" /\ pc' = "down" /\ exit' = "clean"
  BY <1>1, ReturnsIs
<1>3. Whole' /\ torn' \in BOOLEAN
  <2>1. torn' = (torn \/ HalfWay)
    BY <1>2
  <2> QED
    BY <1>1, <1>2, <2>1, EndsEarly
<1>4. Shape'
  <2>1. 0 \in 0..Len(file) /\ <<>> \in Seq(Text)
    BY LenProperties, EmptySeq DEF LInv, Shape, Text
  <2>2. TypeOK'
    BY <1>1, <1>2, <1>3, <2>1 DEF LInv, Shape, TypeOK, Updating
  <2> QED
    BY <1>1, <1>2, <2>1, <2>2 DEF LInv, Shape, Idle
<1>5. OnTheWay' /\ Restored' /\ SelfCleaned'
  BY <1>2 DEF OnTheWay, Restored, SelfCleaned
<1>6. SelfMarked' /\ SelfWritten' /\ SelfToWrite'
  BY <1>1, <1>2 DEF LInv, SelfMarked, SelfWritten, SelfToWrite
<1> QED
  BY <1>3, <1>4, <1>5, <1>6 DEF LInv

-----------------------------------------------------------------------------
(* The steps of app.Action *)

\* The flags are looked through.
LEMMA ParseFlagsInv ==
  ASSUME LInv, ParseFlags
  PROVE  LInv'
<1>1. CASE Exit("fatal")
  BY <1>1, ExitInv
<1>2. CASE /\ pc = "flags" /\ pc' = "clean"
           /\ UNCHANGED <<file, user, process, update, exit, torn, count>>
  <2>1. /\ pc = "flags" /\ pc' = "clean" /\ ~Updating
        /\ file' = file /\ user' = user /\ opened' = opened /\ writes' = writes /\ pos' = pos
        /\ torn' = torn /\ exit' = exit /\ flags' = flags
        /\ notified' = notified /\ sig' = sig /\ err' = err
    BY <1>2 DEF process, update, Updating
  <2>2. notified' \in BOOLEAN /\ sig' \in BOOLEAN /\ err' \in BOOLEAN
    BY <2>1 DEF LInv, Shape, TypeOK
  <2>3. Unregistered' => Unregistered
    BY <2>1 DEF Unregistered
  <2> QED
    BY <2>1, <2>2, <2>3, ControlInv
<1> QED
  BY <1>1, <1>2 DEF ParseFlags

\* The nameservers are read.
LEMMA ReadResolvConfInv ==
  ASSUME LInv, ReadResolvConf
  PROVE  LInv'
<1>1. /\ pc = "config" /\ pc' = "check" /\ ~Updating
      /\ file' = file /\ user' = user /\ opened' = opened /\ writes' = writes /\ pos' = pos
      /\ torn' = torn /\ exit' = exit /\ flags' = flags
      /\ notified' = notified /\ sig' = sig /\ (err' = err \/ err' = TRUE)
  BY DEF ReadResolvConf, Updating
<1>2. notified' \in BOOLEAN /\ sig' \in BOOLEAN /\ err' \in BOOLEAN /\ (err => err')
  <2>1. notified \in BOOLEAN /\ sig \in BOOLEAN /\ err \in BOOLEAN
    BY DEF LInv, Shape, TypeOK
  <2>2. CASE err' = err
    BY <1>1, <2>1, <2>2
  <2>3. CASE err' = TRUE
    BY <1>1, <2>1, <2>3
  <2> QED
    BY <1>1, <2>2, <2>3
<1>3. Unregistered' => Unregistered
  BY <1>1 DEF Unregistered
<1> QED
  BY <1>1, <1>2, <1>3, ControlInv

\* The configuration is checked.
LEMMA CheckInv ==
  ASSUME LInv, Check
  PROVE  LInv'
<1>1. CASE Exit("fatal")
  BY <1>1, ExitInv
<1>2. CASE /\ pc = "check" /\ pc' = IF flags.defaultResolver THEN "register" ELSE "running"
           /\ UNCHANGED <<file, user, process, update, exit, torn, count>>
  <2>1. /\ pc = "check" /\ pc' \in {"register", "running"} /\ ~Updating
        /\ file' = file /\ user' = user /\ opened' = opened /\ writes' = writes /\ pos' = pos
        /\ torn' = torn /\ exit' = exit /\ flags' = flags
        /\ notified' = notified /\ sig' = sig /\ err' = err
        /\ pc' = "register" => flags.defaultResolver
    BY <1>2 DEF process, update, Updating
  <2>2. notified' \in BOOLEAN /\ sig' \in BOOLEAN /\ err' \in BOOLEAN
    BY <2>1 DEF LInv, Shape, TypeOK
  <2>3. Unregistered
    BY <2>1 DEF Unregistered
  <2> QED
    BY <2>1, <2>2, <2>3, ControlInv
<1> QED
  BY <1>1, <1>2 DEF Check

\* The end is asked for.
LEMMA ReceiveInv ==
  ASSUME LInv, Receive
  PROVE  LInv'
<1>1. CASE pc = "running" /\ ~flags.defaultResolver /\ Exit("clean")
  BY <1>1, ExitInv
<1>2. CASE /\ pc = "running" /\ pc' = "restore"
           /\ UNCHANGED <<file, user, process, update, exit, torn, count>>
  <2>1. /\ pc = "running" /\ pc' = "restore" /\ ~Updating
        /\ file' = file /\ user' = user /\ opened' = opened /\ writes' = writes /\ pos' = pos
        /\ torn' = torn /\ exit' = exit /\ flags' = flags
        /\ notified' = notified /\ sig' = sig /\ err' = err
    BY <1>2 DEF process, update, Updating
  <2>2. notified' \in BOOLEAN /\ sig' \in BOOLEAN /\ err' \in BOOLEAN
    BY <2>1 DEF LInv, Shape, TypeOK
  <2>3. Unregistered' => Unregistered
    BY <2>1 DEF Unregistered
  <2> QED
    BY <2>1, <2>2, <2>3, ControlInv
<1> QED
  BY <1>1, <1>2 DEF Receive

\* No step leaves the invariant.
LEMMA NextInv == LInv /\ [Next]_vars => LInv'
<1> SUFFICES ASSUME LInv, [Next]_vars PROVE LInv'
  OBVIOUS
<1>1. CASE Open
  BY <1>1, OpenInv
<1>2. CASE WriteString
  BY <1>2, WriteStringInv
<1>3. CASE Truncate
  BY <1>3, TruncateInv
<1>4. CASE UpdateFails
  BY <1>4, UpdateFailsInv
<1>5. CASE ParseFlags
  BY <1>5, ParseFlagsInv
<1>6. CASE ReadResolvConf
  BY <1>6, ReadResolvConfInv
<1>7. CASE Check
  BY <1>7, CheckInv
<1>8. CASE Receive
  BY <1>8, ReceiveInv
<1>9. CASE RunFails
  <2>1. Exit("fatal")
    BY <1>9 DEF RunFails
  <2> QED
    BY <2>1, ExitInv
<1>10. CASE ListenFails
  <2>1. Exit("fatal")
    BY <1>10 DEF ListenFails
  <2> QED
    BY <2>1, ExitInv
<1>11. CASE Kill
  <2>1. Exit("killed")
    BY <1>11 DEF Kill
  <2> QED
    BY <2>1, ExitInv
<1>12. CASE Notify
  <2>1. /\ UNCHANGED <<file, user, pc, flags, upstreams, update, exit, torn, count>>
        /\ notified' = TRUE /\ sig' = sig
    BY <1>12 DEF Notify
  <2>2. notified' \in BOOLEAN /\ sig' \in BOOLEAN
    BY <2>1 DEF LInv, Shape, TypeOK
  <2> QED
    BY <2>1, <2>2, SignalInv
<1>13. CASE Signal
  <2>1. CASE Exit("killed")
    BY <2>1, ExitInv
  <2>2. CASE /\ UNCHANGED <<file, user, pc, flags, notified, upstreams, update, exit, torn, count>>
             /\ sig' = TRUE
    <3>1. notified' \in BOOLEAN /\ sig' \in BOOLEAN
      BY <2>2 DEF LInv, Shape, TypeOK
    <3> QED
      BY <2>2, <3>1, SignalInv
  <2> QED
    BY <1>13, <2>1, <2>2 DEF Signal
<1>14. CASE \E fl \in Flags : Start(fl)
  BY <1>14, StartInv
<1>15. CASE \E u \in UserFile : Edit(u)
  BY <1>15, EditInv
<1>16. CASE UNCHANGED vars
  <2>1. /\ UNCHANGED <<file, user, pc, flags, upstreams, update, exit, torn, count>>
        /\ notified' = notified /\ sig' = sig
    BY <1>16 DEF vars, process
  <2>2. notified' \in BOOLEAN /\ sig' \in BOOLEAN
    BY <2>1 DEF LInv, Shape, TypeOK
  <2> QED
    BY <2>1, <2>2, SignalInv
<1> QED
  BY <1>1, <1>2, <1>3, <1>4, <1>5, <1>6, <1>7, <1>8, <1>9, <1>10, <1>11, <1>12, <1>13, <1>14,
     <1>15, <1>16 DEF Next, Main

-----------------------------------------------------------------------------
(* Theorems *)

\* main.go:58-398, resolvconf.go:39-88.  The inductive invariant: what an
\* update has written and has yet to write always make up its result, and Self
\* is in the file with its mark only.
THEOREM LifecycleInvariant == Spec => []LInv
<1>1. Init => LInv
  BY InitInv
<1>2. LInv /\ [Next]_vars => LInv'
  BY NextInv
<1> QED
  BY <1>1, <1>2, PTL DEF Spec

\* Type correctness; the file is open during an update only, and the offset
\* never past its end.
THEOREM LifecycleTypeCorrect == Spec => []TypeOK
<1>1. LInv => TypeOK
  BY DEF LInv, Shape
<1> QED
  BY <1>1, LifecycleInvariant, PTL

\* resolvconf.go:24-88.  Whatever sequence of starts, exits, kills and changes
\* by others came before: unless an update was left half-way, Clean would give
\* back exactly what others wrote.
THEOREM AlwaysRestorable == Spec => []Restorable
<1>1. LInv => Restorable
  <2> SUFFICES ASSUME LInv, ~torn, ~opened PROVE Cleaned(file) = user
    BY DEF Restorable
  <2>1. file \in {user, Registered(user, Self)} /\ user \in UserFile
    BY NotUpdating DEF LInv, Shape
  <2> QED
    BY <2>1, WritesResult DEF Cleaned
<1> QED
  BY <1>1, LifecycleInvariant, PTL

\* main.go:358-361.  A process that ended on a signal left the file as others
\* wrote it.
THEOREM FileRestoredAtExit == Spec => []RestoredAtExit
<1>1. LInv => RestoredAtExit
  BY DEF LInv, Restored, Unregistered, RestoredAtExit
<1> QED
  BY <1>1, LifecycleInvariant, PTL

\* No server is read from the file that is not in it.
LEMMA ServersInFile ==
  ASSUME NEW f \in Text
  PROVE  ToSet(Servers(f)) \subseteq ToSet(f)
<1> DEFINE P == ToSet(f)
<1>1. Lines[f] \in Seq(Text) /\ \A j \in DOMAIN Lines[f] : ToSet(Lines[f][j]) \subseteq P
  BY LinesIs, LineTokens
<1>2. ASSUME NEW j \in DOMAIN Lines[f] PROVE ToSet(serverOf[Lines[f][j]]) \subseteq P
  <2> DEFINE l == Lines[f][j]
  <2>1. l \in Text /\ ToSet(l) \subseteq P
    BY <1>1
  <2> HIDE DEF l, P
  <2>2. serverOf[l] = Server(l)
    BY <2>1 DEF serverOf
  <2>3. Len(l) > 1 => l[2] \in P
    BY <2>1 DEF Text, ToSet
  <2>4. ToSet(<<>>) = {} /\ ToSet(<<l[2]>>) = {l[2]}
    BY DEF ToSet
  <2>5. ToSet(serverOf[l]) \subseteq P
    BY <2>2, <2>3, <2>4 DEF Server
  <2> QED
    BY <2>5 DEF l
<1> HIDE DEF P
<1>3. ToSet(ServersIn[Lines[f]]) \subseteq P
  BY <1>1, <1>2, ServersInIs, FlatMapElements
<1> QED
  BY <1>3 DEF P, Servers

\* main.go:285-290.  The server never takes itself for an upstream, even after
\* processes that died with its address in the file, in the middle of writing
\* it or not.
THEOREM NeverItsOwnUpstream == Spec => NeverSelf
<1>1. LInv /\ [Next]_vars => [~err => Self \notin ToSet(upstreams')]_upstreams
  <2> SUFFICES ASSUME LInv, [Next]_vars, upstreams' # upstreams, ~err
               PROVE  Self \notin ToSet(upstreams')
    OBVIOUS
  <2>1. ToSet(<<>>) = {}
    BY DEF ToSet
  <2>2. CASE ReadResolvConf
    <3>1. pc = "config" /\ Self \notin ToSet(file) /\ file \in Text /\ flags \in Flags
      BY <2>2 DEF ReadResolvConf, LInv, SelfCleaned, Shape, TypeOK
    <3>2. upstreams' = Servers(file) \/ upstreams' = flags.nameservers
      BY <2>2 DEF ReadResolvConf
    <3> QED
      BY <3>1, <3>2, ServersInFile, Constants
  <2>3. CASE \E fl \in Flags : Start(fl)
    BY <2>1, <2>3 DEF Start
  <2> QED
    BY <2>2, <2>3 DEF Next, Main, vars, process, Exit, ParseFlags, Open, WriteString, Truncate,
       UpdateFails, UpdateReturns, Check, Receive, RunFails, ListenFails, Notify, Signal, Kill, Edit
<1> QED
  BY <1>1, LifecycleInvariant, PTL DEF Spec, NeverSelf

\* README.md:18.  The upstreams taken from the file are those that others wrote,
\* in their order, though an earlier process may have died with all of them
\* commented out.
THEOREM UpstreamsAreTheUsers == Spec => UsersServers
<1>1. LInv /\ [Next]_vars =>
        [pc = "config" /\ pc' = "check" /\ flags.nameservers = <<>> /\ ~err' /\ ~torn =>
           upstreams' = Servers(user)]_vars
  <2> SUFFICES ASSUME LInv, Next, pc = "config", pc' = "check", flags.nameservers = <<>>,
                      ~err', ~torn
               PROVE  upstreams' = Servers(user)
    BY DEF vars
  <2>1. ReadResolvConf
    BY DEF Next, Main, Exit, ParseFlags, Open, WriteString, Truncate, UpdateFails, Check,
       Receive, RunFails, ListenFails, Notify, Signal, Kill, Start, Edit, Updating, LInv, Shape, TypeOK
  <2>2. upstreams' = Servers(file) /\ err' = err
    BY <2>1 DEF ReadResolvConf
  <2>3. file = user
    BY <2>2 DEF LInv, Restored, Unregistered
  <2> QED
    BY <2>2, <2>3
<1> QED
  BY <1>1, LifecycleInvariant, PTL DEF Spec, UsersServers

=============================================================================
