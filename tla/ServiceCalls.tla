---------------------------- MODULE ServiceCalls ----------------------------
(***************************************************************************)
(* Calls of the query runtime to the services behind it: the embedding     *)
(* endpoint, Qdrant, Elasticsearch (internal/runtime/backend.go) and       *)
(* OpenFGA (openfga.go).  Every service has a circuit breaker              *)
(* (circuit_breaker.go) shared by all queries; a caller asks it with Allow,*)
(* makes up to Attempts requests (retry.go) and reports how the last one   *)
(* went.  Between Allow and the report the breaker may have changed state  *)
(* any number of times on account of other callers.                        *)
(*                                                                         *)
(* A call that its own query cancels is reported as a failure of the       *)
(* service, so `weather` stands for both: in bad weather a request may be  *)
(* refused, time out, be cancelled or be answered without content.  Time   *)
(* is relative: `left` is what remains of OpenTimeout.  consecutiveFails   *)
(* is kept up to FailureLimit, beyond which the code does not tell values  *)
(* apart.                                                                  *)
(***************************************************************************)
EXTENDS Integers, Sequences, FiniteSets

CONSTANTS
    Callers,
    Plans,          \* what a caller may do: services in the order of the calls
    FailureLimit,
    OpenTimeout,
    HalfOpenLimit,
    Attempts        \* requests per call (3)

Services == UNION {{plan[k] : k \in DOMAIN plan} : plan \in Plans}

ASSUME ServiceAssumption ==
    /\ Plans \subseteq Seq(Services) \ {<< >>}
    /\ FailureLimit \in Nat \ {0}
    /\ OpenTimeout \in Nat \ {0}
    /\ HalfOpenLimit \in Nat \ {0}
    /\ Attempts \in Nat \ {0}

\* What the searchers and the checker call, in order.
SearchVector == <<"embedding", "qdrant">>
SearchLexical == <<"elasticsearch">>
CanAccess == <<"openfga">>

VARIABLES
    breakers,   \* the circuit breaker of each service
    callers,    \* each caller's plan and where it is
    probes,     \* callers let in since a breaker last became half open
    weather     \* of each service

vars == <<breakers, callers, probes, weather>>

NoCall == [pc |-> "idle"]
Closed == [state |-> "closed", fails |-> 0, left |-> 0, inFlight |-> 0]

Service(c) == Head(callers[c].plan)
Calling(c, s) == callers[c].pc \in {"trying", "waiting"} /\ Service(c) = s

Breakers == [state : {"closed", "open", "half_open"}, fails : 0..FailureLimit,
             left : 0..OpenTimeout, inFlight : 0..HalfOpenLimit]

\* A call under way: what is left of the plan, attempts made at its first service.
Calls == [pc : {"asking", "trying", "waiting"}, plan : Seq(Services) \ {<< >>},
          made : 0..Attempts]

TypeOK ==
    /\ breakers \in [Services -> Breakers]
    /\ callers \in [Callers -> {NoCall} \union Calls]
    /\ probes \in [Services -> SUBSET Callers]
    /\ weather \in [Services -> {"good", "bad"}]

-----------------------------------------------------------------------------
(* The circuit breaker *)

\* Mutant: an open breaker stays open.
AiredNever(b) == b

\* Allow, first half: an open breaker whose time is up becomes half open.
Aired(b) ==
    IF b.state = "open" /\ b.left = 0
    THEN [b EXCEPT !.state = "half_open", !.inFlight = 0] ELSE b

\* Allow, second half: does the breaker let a call in, and what becomes of it.
Admits(b) ==
    CASE b.state = "open" -> FALSE
      [] b.state = "half_open" -> b.inFlight < HalfOpenLimit
      [] OTHER -> TRUE

Entered(b) ==
    IF b.state = "half_open" THEN [b EXCEPT !.inFlight = @ + 1] ELSE b

opened(b) == [b EXCEPT !.state = "open", !.left = OpenTimeout, !.inFlight = 0]

\* ReportSuccess closes the breaker, whatever state it is in.
ReportSuccess(b) == Closed

\* Mutant: a failed probe is counted like any other failure.
ReportFailureCounts(b) ==
    LET fails == IF b.fails < FailureLimit THEN b.fails + 1 ELSE b.fails
        counted == [b EXCEPT !.fails = fails]
    IN  IF b.state # "half_open" /\ fails >= FailureLimit THEN opened(counted)
        ELSE counted

ReportFailure(b) ==
    LET fails == IF b.fails < FailureLimit THEN b.fails + 1 ELSE b.fails
        counted == [b EXCEPT !.fails = fails]
    IN  IF b.state = "half_open" THEN opened(b)
        ELSE IF fails >= FailureLimit THEN opened(counted)
        ELSE counted

\* A report or Allow on the breaker of s; probes of an episode are forgotten
\* when the breaker leaves the half-open state.
Becomes(s, b, let) ==
    /\ breakers' = [breakers EXCEPT ![s] = b]
    /\ probes' = [probes EXCEPT ![s] = IF b.state = "half_open" THEN @ \union let
                                       ELSE {}]

-----------------------------------------------------------------------------
(* Callers *)

Init ==
    /\ breakers = [s \in Services |-> Closed]
    /\ callers = [c \in Callers |-> NoCall]
    /\ probes = [s \in Services |-> {}]
    /\ weather = [s \in Services |-> "good"]

Start(c, plan) ==
    /\ callers[c] = NoCall
    /\ callers' = [callers EXCEPT ![c] = [pc |-> "asking", plan |-> plan, made |-> 0]]
    /\ UNCHANGED <<breakers, probes, weather>>

\* Allow returns nil.
AllowCall(c) ==
    /\ callers[c].pc = "asking"
    /\ LET s == Service(c)
           b == Aired(breakers[s])
       IN  /\ Admits(b)
           /\ Becomes(s, Entered(b), {c})
           /\ callers' = [callers EXCEPT ![c].pc = "trying"]
    /\ UNCHANGED weather

\* Allow returns ErrCircuitOpen, and the caller gives up.
RefuseCall(c) ==
    /\ callers[c].pc = "asking"
    /\ LET s == Service(c)
           b == Aired(breakers[s])
       IN  /\ ~Admits(b)
           /\ Becomes(s, b, {})
           /\ callers' = [callers EXCEPT ![c] = NoCall]
    /\ UNCHANGED weather

\* A request is answered: report, and go on to the next service of the plan.
Answered(c) ==
    /\ callers[c].pc = "trying"
    /\ LET s == Service(c)
           rest == Tail(callers[c].plan)
       IN  /\ Becomes(s, ReportSuccess(breakers[s]), {})
           /\ callers' = [callers EXCEPT ![c] =
                IF rest = << >> THEN NoCall
                ELSE [pc |-> "asking", plan |-> rest, made |-> 0]]
    /\ UNCHANGED weather

\* The embedding service answers without an embedding: to the breaker that is a
\* success, but there is nothing to ask Qdrant for.
AnsweredEmpty(c) ==
    /\ callers[c].pc = "trying"
    /\ LET s == Service(c)
       IN  /\ s = "embedding" /\ weather[s] = "bad"
           /\ Becomes(s, ReportSuccess(breakers[s]), {})
           /\ callers' = [callers EXCEPT ![c] = NoCall]
    /\ UNCHANGED weather

\* The last attempt failed, or the context of the query is done: report.
GiveUp(c) ==
    LET s == Service(c)
    IN  /\ weather[s] = "bad"
        /\ Becomes(s, ReportFailure(breakers[s]), {})
        /\ callers' = [callers EXCEPT ![c] = NoCall]
        /\ UNCHANGED weather

\* Mutant: the attempts are not counted.
AttemptFailsUncounted(c) ==
    /\ callers[c].pc = "trying"
    /\ weather[Service(c)] = "bad"
    /\ callers' = [callers EXCEPT ![c].pc = "waiting"]
    /\ UNCHANGED <<breakers, probes, weather>>

\* An attempt fails and another one is left: back off.
AttemptFails(c) ==
    /\ callers[c].pc = "trying"
    /\ callers[c].made + 1 < Attempts
    /\ weather[Service(c)] = "bad"
    /\ callers' = [callers EXCEPT ![c].pc = "waiting", ![c].made = @ + 1]
    /\ UNCHANGED <<breakers, probes, weather>>

LastAttemptFails(c) ==
    /\ callers[c].pc = "trying"
    /\ callers[c].made + 1 = Attempts
    /\ GiveUp(c)

CancelledWaiting(c) == callers[c].pc = "waiting" /\ GiveUp(c)

\* The backoff is over.
TryAgain(c) ==
    /\ callers[c].pc = "waiting"
    /\ callers' = [callers EXCEPT ![c].pc = "trying"]
    /\ UNCHANGED <<breakers, probes, weather>>

\* Time passes for the open breakers.
Tick ==
    /\ \E s \in Services : breakers[s].left > 0
    /\ breakers' = [s \in Services |->
            [breakers[s] EXCEPT !.left = IF @ > 0 THEN @ - 1 ELSE 0]]
    /\ UNCHANGED <<callers, probes, weather>>

Change(s) ==
    /\ weather' = [weather EXCEPT ![s] = IF @ = "good" THEN "bad" ELSE "good"]
    /\ UNCHANGED <<breakers, callers, probes>>

Proceed(c) ==
    \/ AllowCall(c)
    \/ RefuseCall(c)
    \/ Answered(c)
    \/ AnsweredEmpty(c)
    \/ AttemptFails(c)
    \/ LastAttemptFails(c)
    \/ CancelledWaiting(c)
    \/ TryAgain(c)

Next ==
    \/ \E c \in Callers : Proceed(c) \/ \E plan \in Plans : Start(c, plan)
    \/ Tick
    \/ \E s \in Services : Change(s)

Spec == Init /\ [][Next]_vars

\* A call ends: every HTTP request has a timeout and every backoff a timer.
\* Time passes.  Queries of every kind keep coming.
Fairness ==
    /\ \A c \in Callers : WF_vars(Proceed(c))
    /\ \A plan \in Plans : SF_vars(\E c \in Callers : Start(c, plan))
    /\ WF_vars(Tick)

LiveSpec == Spec /\ Fairness

-----------------------------------------------------------------------------
(* Properties *)

\* The slots of a half-open breaker are exactly the callers that were let in
\* since it became half open and have not reported: no slot is lost while the
\* calls that were under way before come home, and none is given twice.  A
\* closed breaker has counted fewer than FailureLimit failures, and an open one
\* has counted enough, also when it was a probe that opened it again.  The state
\* is well typed throughout, so no more than HalfOpenLimit slots are ever taken.
SlotsAccounted ==
    /\ TypeOK
    /\ \A s \in Services :
        LET b == breakers[s]
        IN  /\ b.inFlight = Cardinality(probes[s])
            /\ \A c \in probes[s] : Calling(c, s)
            /\ b.state = "closed" <=> b.fails < FailureLimit

\* A half-open breaker whose slots are taken is not stuck: the probe comes home
\* and opens or closes it.
ProbesComeHome ==
    \A s \in Services :
        (breakers[s].state = "half_open" /\ breakers[s].inFlight = HalfOpenLimit)
            ~> (breakers[s].state # "half_open")

\* After the last bad weather every breaker closes and stays closed, although
\* reports of calls made before arrive at any time.
Recovers ==
    <>[](\A s \in Services : weather[s] = "good")
        => <>[](\A s \in Services : breakers[s].state = "closed")

-----------------------------------------------------------------------------
(* The inductive invariant behind SlotsAccounted.                          *)

\* Slots are in use only while the breaker is half open.
BreakerOK(b) ==
    /\ b \in Breakers
    /\ b.state = "closed" <=> b.fails < FailureLimit
    /\ b.state # "half_open" => b.inFlight = 0

\* The slots in use are those of the probes, each of which is under way.
ProbesOK(s) ==
    /\ IsFiniteSet(probes[s])
    /\ breakers[s].inFlight = Cardinality(probes[s])
    /\ \A c \in probes[s] : Calling(c, s)

CallsInv == TypeOK /\ \A s \in Services : BreakerOK(breakers[s]) /\ ProbesOK(s)
=============================================================================
