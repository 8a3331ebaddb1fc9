-------------------------------- MODULE Fit --------------------------------
(***************************************************************************)
(* Fit (src/server/msg.go): a message is made to fit the client's buffer   *)
(* by dropping its additional section, then answers from the end.  One     *)
(* call, for any message: how many answers it has, its length with the     *)
(* first k of them, and the length of the additional section.              *)
(***************************************************************************)
EXTENDS Integers

CONSTANTS
  MaxAnswers,  \* bound: answers in a message
  MaxLen,      \* bound: length of a message without its additional section
  MaxExtra     \* bound: length of the additional section

ASSUME FitAssumption == MaxAnswers \in Nat /\ MaxLen \in Nat /\ MaxExtra \in Nat

VARIABLES
  length,     \* length[k]: the length with the first k answers
  extra,      \* the length of m.Extra
  size, tcp,  \* the other parameters
  answers,    \* len(m.Answer)
  original,   \* len(original)
  truncated,  \* m.Truncated
  min, max,
  overflow,   \* the result
  pc

input == <<length, size, tcp, original>>
vars == <<input, extra, answers, truncated, min, max, overflow, pc>>

\* Every answer adds to the length, also when names are compressed.
Lengths(n) ==
  {f \in [0..n -> 1..MaxLen] : \A i, j \in 0..n : i < j => f[i] < f[j]}

Init ==
  /\ original \in 0..MaxAnswers
  /\ length \in Lengths(original)
  /\ extra \in 0..MaxExtra
  /\ size \in 1..(MaxLen + MaxExtra + 1)
  /\ tcp \in BOOLEAN
  /\ answers = original
  /\ truncated = FALSE
  /\ min = 0 /\ max = 0
  /\ overflow = FALSE
  /\ pc = "start"

\* The additional section goes if the message is larger than size; if it is
\* then smaller it is done, else it is marked and answers have to go.
BeginSearch(from, mark) ==
  /\ pc = "start"
  /\ extra' = IF length[answers] + extra > size THEN 0 ELSE extra
  /\ \/ /\ length[answers] + extra' < size
        /\ pc' = "done"
        /\ UNCHANGED <<truncated, min, max>>
     \/ /\ length[answers] + extra' >= size
        /\ truncated' = mark
        /\ min' = from /\ max' = original
        /\ pc' = "search"
  /\ UNCHANGED <<input, answers, overflow>>

\* Mutant: at least one answer is taken to fit.
Begin_fromOne == BeginSearch(1, ~tcp)

\* Mutant: the message is marked for the wrong transport.
Begin_marksTcp == BeginSearch(0, tcp)

\* With TCP setting TC does not mean anything.
Begin == BeginSearch(0, ~tcp)

mid == (min + max) \div 2

Grow ==
  /\ pc = "search" /\ min # max
  /\ answers' = mid
  /\ length[mid] + extra < size
  /\ min' = min + 1
  /\ UNCHANGED <<input, extra, truncated, max, overflow, pc>>

\* Mutant: the upper end is left one too high.
Shrink_offByOne ==
  /\ pc = "search" /\ min # max
  /\ answers' = mid
  /\ length[mid] + extra >= size
  /\ max' = mid + 1
  /\ UNCHANGED <<input, extra, truncated, min, overflow, pc>>

Shrink ==
  /\ pc = "search" /\ min # max
  /\ answers' = mid
  /\ length[mid] + extra >= size
  /\ max' = mid
  /\ UNCHANGED <<input, extra, truncated, min, overflow, pc>>

\* Mutant: the first record that is too much stays.
End_keepsLast ==
  /\ pc = "search" /\ min = max
  /\ answers' = max
  /\ overflow' = TRUE
  /\ pc' = "done"
  /\ UNCHANGED <<input, extra, truncated, min, max>>

End ==
  /\ pc = "search" /\ min = max
  /\ answers' = IF max > 1 THEN max - 1 ELSE max
  /\ overflow' = TRUE
  /\ pc' = "done"
  /\ UNCHANGED <<input, extra, truncated, min, max>>

Next == Begin \/ Grow \/ Shrink \/ End

Spec == Init /\ [][Next]_vars

-----------------------------------------------------------------------------
(* Properties *)

\* The types of the variables; the ends of the search never cross.
TypeOK ==
  /\ original \in 0..MaxAnswers
  /\ length \in Lengths(original)
  /\ extra \in 0..MaxExtra
  /\ size \in 1..(MaxLen + MaxExtra + 1)
  /\ answers \in 0..original
  /\ min \in 0..max /\ max \in 0..original
  /\ tcp \in BOOLEAN /\ truncated \in BOOLEAN /\ overflow \in BOOLEAN
  /\ pc \in {"start", "search", "done"}

\* How many answers the message may have without being larger than size.
Fitting == {k \in 0..original : length[k] + extra <= size}

\* msg.go:31-52, for all lengths of the records and all sizes, though the search
\* moves its lower end by one and its upper end by half.  What is kept is not
\* larger than size, but for a single record or a message without records.  Of
\* the answers that would have fitted at most one is lost, and only if the
\* message with it had exactly the size.
CutsClosely ==
  pc = "done" =>
    /\ answers \in Fitting \/ answers <= 1
    /\ \A k \in Fitting :
         k <= answers \/ (k = answers + 1 /\ length[k] + extra = size)

\* server.go:189, 199 and 225 rely on it: answers are missing only from a
\* message that is marked or, with TCP, reported as an overflow; and what is
\* reported was not smaller than size.
CutIsMarked ==
  pc = "done" =>
    /\ answers < original => overflow /\ (tcp \/ truncated)
    /\ overflow => length[original] + extra >= size

\* msg.go:34-48.  Every round of the search brings the ends closer, so that it
\* stops.
Closer == [][pc = "search" /\ pc' = "search" => max' - min' < max - min]_vars
=============================================================================
