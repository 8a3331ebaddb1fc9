------------------------------ MODULE Resolve ------------------------------
(***************************************************************************)
(* What ServeDNSForward promises to ServeDNS (src/server/forwarding.go:16- *)
(* 18): one message is written to the client.  It is NOERROR if some       *)
(* upstream answered NOERROR.  If none did, it is the stale message, if    *)
(* there is one: also in place of an upstream's negative answer, and only  *)
(* a query that is not forwarded at all is refused in spite of it.  The    *)
(* one way to break the promise is a panic, which ends the process.        *)
(* Forward shows how the promise is kept, Server relies on it.             *)
(***************************************************************************)
CONSTANTS NoReply,     \* nothing has been written to the client
          Panicked     \* nothing will be, the process has ended

Rcode == {"NOERROR", "NXDOMAIN", "SERVFAIL", "REFUSED"}

\* The values (resp.Rcode, servedStale) that ServeDNSForward may return.  The
\* stale message may have any response code: negative answers are cached too.
Outcomes(haveStale, havePositive) ==
  IF havePositive THEN [rcode : {"NOERROR"}, stale : {FALSE}]
  ELSE IF haveStale THEN [rcode : {"REFUSED"}, stale : {FALSE}] \cup [rcode : Rcode, stale : {TRUE}]
  ELSE [rcode : Rcode \ {"NOERROR"}, stale : {FALSE}]

VARIABLES staleRes,    \* a stale message was passed to ServeDNSForward
          positive,    \* some upstream has answered NOERROR
          answer       \* what was written to the client, NoReply or Panicked

vars == <<staleRes, positive, answer>>

Init == staleRes \in BOOLEAN /\ positive = FALSE /\ answer = NoReply

\* An upstream answers NOERROR.
Learn ==
  /\ answer = NoReply
  /\ positive' = TRUE
  /\ UNCHANGED <<staleRes, answer>>

Answer ==
  /\ answer = NoReply
  /\ answer' \in Outcomes(staleRes, positive)
  /\ UNCHANGED <<staleRes, positive>>

Panic ==
  /\ answer = NoReply
  /\ answer' = Panicked
  /\ UNCHANGED <<staleRes, positive>>

Next == Learn \/ Answer \/ Panic

\* The upstream clients have timeouts, so the query ends.
Spec == Init /\ [][Next]_vars /\ WF_vars(Answer \/ Panic)
=============================================================================
