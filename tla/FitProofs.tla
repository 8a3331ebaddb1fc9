----------------------------- MODULE FitProofs -----------------------------
(***************************************************************************)
(* Theorems about Fit, for messages of every number of answers and every   *)
(* length.  Searching is the loop invariant of the search.                 *)
(***************************************************************************)
EXTENDS Fit, TLAPS

\* The loop invariant: fewer than min answers fit, max answers do not, and the
\* message as a whole does not.
Searching ==
  pc = "search" =>
    /\ \A k \in 0..original : k < min => length[k] + extra < size
    /\ length[max] + extra >= size
    /\ tcp \/ truncated

Start == pc = "start" => answers = original /\ ~overflow

IInv == TypeOK /\ Start /\ Searching /\ CutsClosely /\ CutIsMarked

\* Between two ends that differ the middle is below the upper one.
LEMMA Middle ==
  ASSUME NEW a \in Nat, NEW b \in Nat, a <= b, a # b
  PROVE  LET c == (a + b) \div 2 IN c \in Nat /\ a <= c /\ c < b
BY SMT

\* Fewer answers make a shorter message.
LEMMA Monotone ==
  ASSUME TypeOK, NEW i \in 0..original, NEW j \in 0..original, i <= j
  PROVE  /\ length[i] \in Nat /\ length[j] \in Nat /\ length[i] <= length[j]
<1>1. length \in Lengths(original) /\ original \in Nat
  BY FitAssumption DEF TypeOK
<1>2. length[i] \in 1..MaxLen /\ length[j] \in 1..MaxLen /\ (i < j => length[i] < length[j])
  BY <1>1 DEF Lengths
<1>3. i = j \/ i < j
  BY <1>1, SMT
<1> QED BY <1>2, <1>3, FitAssumption, SMT

\* Every initial state satisfies the invariant.
LEMMA InitInvariant == Init => IInv
<1> SUFFICES ASSUME Init PROVE IInv
  OBVIOUS
<1>1. answers \in 0..original /\ min \in 0..max /\ max \in 0..original
  BY FitAssumption, SMT DEF Init
<1>2. TypeOK
  BY <1>1, Zenon DEF Init, TypeOK
<1> QED BY <1>2 DEF Init, IInv, Start, Searching, CutsClosely, CutIsMarked

\* Begin establishes the loop invariant, or ends with a message that fits.
LEMMA BeginInvariant == IInv /\ Begin => IInv'
<1> SUFFICES ASSUME IInv, Begin PROVE IInv'
  OBVIOUS
<1> USE DEF BeginSearch, input
<1>1. TypeOK /\ pc = "start" /\ answers = original /\ ~overflow
  BY DEF IInv, Begin, Start
<1>2. /\ length \in [0..original -> 1..MaxLen] /\ original \in Nat /\ extra \in Nat
      /\ size \in Nat /\ extra' \in 0..extra /\ length[original] \in Nat
  BY <1>1, FitAssumption, SMT DEF TypeOK, Lengths, Begin
<1>3. TypeOK'
  <2>1. extra' \in 0..MaxExtra /\ min' \in 0..max' /\ max' \in 0..original
    BY <1>1, <1>2, FitAssumption, SMT DEF TypeOK, Begin
  <2>2. /\ truncated' \in BOOLEAN /\ pc' \in {"start", "search", "done"}
        /\ UNCHANGED <<length, size, tcp, original, answers, overflow>>
    BY <1>1 DEF TypeOK, Begin
  <2> QED BY <1>1, <2>1, <2>2, Zenon DEF TypeOK, Lengths
<1>4. Start'
  BY DEF Start, Begin
<1>5. CASE pc' = "search"
  <2>1. length'[max'] + extra' >= size' /\ min' = 0 /\ (tcp' \/ truncated')
    BY <1>1, <1>2, <1>5 DEF Begin, TypeOK
  <2>2. Searching'
    BY <1>2, <2>1, SMT DEF Searching, Begin
  <2> QED BY <1>3, <1>4, <1>5, <2>2 DEF IInv, CutsClosely, CutIsMarked
<1>6. CASE pc' = "done"
  <2>1. /\ length'[answers'] + extra' < size' /\ answers' = original' /\ ~overflow'
        /\ original' = original
    BY <1>1, <1>2, <1>6 DEF Begin
  <2>2. length' = length /\ size' = size /\ size \in Nat /\ extra' \in Nat
    BY <1>1, <1>2, SMT DEF Begin
  <2>3. answers' \in Fitting'
    BY <1>1, <1>2, <2>1, <2>2, SMT DEF Fitting
  <2>4. \A k \in Fitting' : k <= answers'
    BY <1>2, <2>1, SMT DEF Fitting
  <2>5. CutsClosely'
    BY <2>3, <2>4 DEF CutsClosely
  <2>6. CutIsMarked'
    BY <1>2, <2>1, SMT DEF CutIsMarked
  <2> QED BY <1>3, <1>4, <1>6, <2>5, <2>6 DEF IInv, Searching
<1> QED BY <1>5, <1>6 DEF Begin

\* Grow: min answers fit, since not fewer than that were tried.
LEMMA GrowInvariant == IInv /\ Grow => IInv'
<1> SUFFICES ASSUME IInv, Grow PROVE IInv'
  OBVIOUS
<1> USE DEF input
<1>1. /\ TypeOK /\ Searching /\ pc = "search" /\ pc' = "search"
      /\ original \in Nat /\ min \in Nat /\ max \in Nat /\ max <= original /\ min <= max
      /\ min # max /\ min' = min + 1 /\ max' = max /\ size \in Nat /\ extra \in Nat
      /\ length[mid] + extra < size
  BY FitAssumption, SMT DEF IInv, Grow, TypeOK
<1>2. mid \in Nat /\ min <= mid /\ mid < max
  BY <1>1, Middle DEF mid
<1>3. TypeOK'
  BY <1>1, <1>2, SMT DEF TypeOK, Grow
<1>4. ASSUME NEW k \in 0..original, k < min'
      PROVE  length[k] + extra < size
  <2>1. k <= mid /\ mid \in 0..original
    BY <1>1, <1>2, <1>4, SMT
  <2>2. length[k] \in Nat /\ length[mid] \in Nat /\ length[k] <= length[mid]
    BY <1>1, <2>1, Monotone
  <2> QED BY <1>1, <2>2, SMT
<1>5. Searching'
  BY <1>1, <1>4 DEF Searching, Grow
<1> QED BY <1>1, <1>3, <1>5 DEF IInv, Start, CutsClosely, CutIsMarked

\* Shrink: mid answers do not fit.
LEMMA ShrinkInvariant == IInv /\ Shrink => IInv'
<1> SUFFICES ASSUME IInv, Shrink PROVE IInv'
  OBVIOUS
<1> USE DEF input
<1>1. /\ TypeOK /\ Searching /\ pc = "search" /\ pc' = "search"
      /\ original \in Nat /\ min \in Nat /\ max \in Nat /\ max <= original /\ min <= max
      /\ min # max /\ min' = min /\ max' = mid /\ length[mid] + extra >= size
  BY FitAssumption, SMT DEF IInv, Shrink, TypeOK
<1>2. mid \in Nat /\ min <= mid /\ mid < max
  BY <1>1, Middle DEF mid
<1>3. TypeOK'
  BY <1>1, <1>2, SMT DEF TypeOK, Shrink
<1>4. Searching'
  BY <1>1 DEF Searching, Shrink
<1> QED BY <1>1, <1>3, <1>4 DEF IInv, Start, CutsClosely, CutIsMarked

\* End: the ends have met, so that max - 1 answers are the most that fit.
LEMMA EndInvariant == IInv /\ End => IInv'
<1> SUFFICES ASSUME IInv, End PROVE IInv'
  OBVIOUS
<1> USE DEF input
<1>1. /\ TypeOK /\ Searching /\ pc = "search" /\ pc' = "done" /\ overflow'
      /\ original \in Nat /\ max \in Nat /\ max <= original /\ min = max
      /\ size \in Nat /\ extra \in Nat
      /\ answers' = IF max > 1 THEN max - 1 ELSE max
      /\ \A k \in 0..original : k < max => length[k] + extra < size
      /\ length[max] + extra >= size
      /\ tcp \/ truncated
  BY FitAssumption, SMT DEF IInv, End, TypeOK, Searching
<1>2. TypeOK'
  BY <1>1, SMT DEF TypeOK, End
<1>3. ASSUME NEW k \in 0..original, k >= max
      PROVE  length[k] + extra >= size
  <2>1. length[max] \in Nat /\ length[k] \in Nat /\ length[max] <= length[k]
    BY <1>1, <1>3, Monotone, SMT
  <2> QED BY <1>1, <2>1, SMT
<1>4. UNCHANGED <<length, extra, size, original, tcp, truncated>> /\ Fitting' = Fitting
  BY DEF End, Fitting
<1>5. ASSUME NEW k \in Fitting, k >= max
      PROVE  k = max /\ length[k] + extra = size
  <2>1. k \in 0..original /\ length[k] + extra <= size /\ length[k] \in Nat
    BY <1>1, Monotone, SMT DEF Fitting
  <2>2. length[k] + extra = size
    BY <1>1, <1>3, <1>5, <2>1, SMT
  <2>3. k > max => length[max] < length[k] /\ length[max] \in Nat
    <3>1. length \in Lengths(original) /\ max \in 0..original
      BY <1>1 DEF TypeOK
    <3>2. max < k => length[max] < length[k]
      BY <2>1, <3>1 DEF Lengths
    <3> QED BY <1>1, <2>1, <3>1, <3>2, Monotone, SMT
  <2>4. ~(k > max)
    BY <1>1, <2>1, <2>2, <2>3, SMT
  <2> QED BY <1>1, <1>5, <2>1, <2>2, <2>4, SMT
<1>6. CutsClosely'
  <2>1. CASE max > 1
    <3>1. answers' = max - 1 /\ answers' \in 0..original /\ answers' < max
      BY <1>1, <2>1, SMT
    <3>2. answers' \in Fitting
      <4>1. length[answers'] + extra < size /\ length[answers'] \in Nat
        BY <1>1, <3>1, Monotone, SMT
      <4> QED BY <1>1, <3>1, <4>1, SMT DEF Fitting
    <3>3. ASSUME NEW k \in Fitting
          PROVE  k <= answers' \/ (k = answers' + 1 /\ length[k] + extra = size)
      <4>1. k \in Nat
        BY <1>1, SMT DEF Fitting
      <4> QED BY <1>1, <1>5, <3>1, <4>1, SMT
    <3> QED BY <1>4, <3>2, <3>3 DEF CutsClosely
  <2>2. CASE max <= 1
    <3>1. answers' = max /\ answers' <= 1
      BY <1>1, <2>2, SMT
    <3>2. ASSUME NEW k \in Fitting
          PROVE  k <= answers'
      <4>1. k \in Nat
        BY <1>1, SMT DEF Fitting
      <4> QED BY <1>1, <1>5, <3>1, <4>1, SMT
    <3> QED BY <1>4, <3>1, <3>2 DEF CutsClosely
  <2> QED BY <1>1, <2>1, <2>2, SMT
<1>7. CutIsMarked'
  <2>1. length[original] + extra >= size
    BY <1>1, <1>3, SMT
  <2> QED BY <1>1, <1>4, <2>1 DEF CutIsMarked
<1> QED BY <1>1, <1>2, <1>6, <1>7 DEF IInv, Start, Searching

\* Every step keeps the invariant.
LEMMA NextInvariant == IInv /\ [Next]_vars => IInv'
<1> SUFFICES ASSUME IInv, [Next]_vars PROVE IInv'
  OBVIOUS
<1>1. CASE Next
  BY <1>1, BeginInvariant, GrowInvariant, ShrinkInvariant, EndInvariant DEF Next
<1>2. CASE UNCHANGED vars
  BY <1>2 DEF vars, input, IInv, TypeOK, Lengths, Start, Searching, CutsClosely, CutIsMarked, Fitting
<1> QED BY <1>1, <1>2

\* The invariant holds in all states of all calls of Fit.
THEOREM Invariance == Spec => []IInv
BY InitInvariant, NextInvariant, PTL DEF Spec

\* The variables keep their types and the ends of the search never cross.
THEOREM FitTypeCorrect == Spec => []TypeOK
<1>1. IInv => TypeOK
  BY DEF IInv
<1> QED BY <1>1, Invariance, PTL

\* What Fit keeps is not larger than size, but for a single record or none, and
\* of the answers that would have fitted it loses at most one, which fits exactly.
THEOREM FitCutsClosely == Spec => []CutsClosely
<1>1. IInv => CutsClosely
  BY DEF IInv
<1> QED BY <1>1, Invariance, PTL

\* Answers are missing only from a message that is marked or reported.
THEOREM FitMarks == Spec => []CutIsMarked
<1>1. IInv => CutIsMarked
  BY DEF IInv
<1> QED BY <1>1, Invariance, PTL

\* Every round of the search brings its ends closer, so that the search stops.
THEOREM FitStops == Spec => Closer
<1>1. IInv /\ [Next]_vars => [pc = "search" /\ pc' = "search" => max' - min' < max - min]_vars
  <2> SUFFICES ASSUME IInv, Next, pc = "search", pc' = "search"
               PROVE  max' - min' < max - min
    BY DEF vars, input
  <2>1. min \in Nat /\ max \in Nat /\ min <= max
    BY FitAssumption, SMT DEF IInv, TypeOK
  <2>2. CASE Grow
    BY <2>1, <2>2, SMT DEF Grow
  <2>3. CASE Shrink
    <3>1. mid \in Nat /\ mid < max
      BY <2>1, <2>3, Middle DEF Shrink, mid
    <3> QED BY <2>1, <2>3, <3>1, SMT DEF Shrink
  <2> QED BY <2>2, <2>3 DEF Next, Begin, BeginSearch, End
<1> QED BY <1>1, Invariance, PTL DEF Spec, Closer
=============================================================================
