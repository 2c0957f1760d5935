--------------------------- MODULE CircuitBreaker ---------------------------
(***************************************************************************)
(* The engine's circuit breaker (internal/engine/circuit_breaker.go), as   *)
(* operators on a breaker value.  Every method of the Go type runs under   *)
(* the breaker's own mutex, so each is one atomic function from breaker to *)
(* breaker; a client module keeps the value in a variable and applies it.  *)
(*                                                                         *)
(* Time is abstracted to what Allow tells apart: `elapsed` says whether    *)
(* openTimeout has passed since openedAt.  consecutiveFails is only ever   *)
(* compared with the limit, so it saturates there instead of growing.      *)
(***************************************************************************)
EXTENDS Naturals

BreakerStates == {"closed", "open", "half_open"}

Breaker == [state : BreakerStates, fails : Nat, elapsed : BOOLEAN]

NewCircuitBreaker == [state |-> "closed", fails |-> 0, elapsed |-> FALSE]

\* A breaker whose last report reached the failure limit.
TrippedCircuitBreaker(limit) ==
    [state |-> "open", fails |-> limit, elapsed |-> FALSE]

\* The breaker after Allow: an open breaker whose window has passed becomes
\* half-open, and a half-open breaker admits every caller.
Allow(b) ==
    IF b.state = "open" /\ b.elapsed
    THEN [b EXCEPT !.state = "half_open", !.elapsed = FALSE]
    ELSE b

\* Allow returns nil (the call may go ahead).
Admits(b) == Allow(b).state # "open"

\* Mutant: the failure count survives a success.
ReportSuccessKeepsCount(b) == [b EXCEPT !.state = "closed", !.elapsed = FALSE]

\* Also reached by an answer that arrives late: it closes an open breaker.
ReportSuccess(b) ==
    [b EXCEPT !.state = "closed", !.fails = 0, !.elapsed = FALSE]

\* A failure that arrives while the breaker is open restarts its window.
ReportFailure(b, limit) ==
    LET fails == IF b.fails < limit THEN b.fails + 1 ELSE limit
    IN  IF b.state = "half_open" \/ fails >= limit
        THEN [state |-> "open", fails |-> fails, elapsed |-> FALSE]
        ELSE [b EXCEPT !.fails = fails]

\* openTimeout passes.
Elapse(b) == [b EXCEPT !.elapsed = TRUE]
=============================================================================
