------------------------- MODULE ServiceCallsProofs -------------------------
(***************************************************************************)
(* Proofs about ServiceCalls, for every number of callers, every plan and  *)
(* every limit: the slots of the half-open breakers are accounted for.     *)
(***************************************************************************)
EXTENDS ServiceCalls, FiniteSetTheorems, SequenceTheorems, TLAPS

-----------------------------------------------------------------------------
(* The breaker *)

\* A closed breaker is as it should be.
LEMMA ClosedOK == BreakerOK(Closed) /\ Closed.state = "closed" /\ Closed.inFlight = 0
BY ServiceAssumption DEF BreakerOK, Closed, Breakers

\* Airing a breaker keeps it as it should be and takes no slot.
LEMMA AiredOK ==
    ASSUME NEW b, BreakerOK(b)
    PROVE  BreakerOK(Aired(b)) /\ Aired(b).inFlight = b.inFlight
BY ServiceAssumption DEF BreakerOK, Aired, Breakers

\* A call that is let in takes one slot of a half-open breaker and none of a
\* closed one, and there was a slot.
LEMMA EnteredOK ==
    ASSUME NEW b, BreakerOK(b), Admits(b)
    PROVE  /\ BreakerOK(Entered(b))
           /\ Entered(b).state = b.state
           /\ b.state = "half_open" => Entered(b).inFlight = b.inFlight + 1
           /\ b.state # "half_open" => Entered(b) = b
<1>1. b.state \in {"closed", "open", "half_open"} /\ b.inFlight \in Nat
  BY ServiceAssumption DEF BreakerOK, Breakers
<1>2. CASE b.state = "half_open"
  <2>1. b.inFlight < HalfOpenLimit
    BY <1>2 DEF Admits
  <2>. QED  BY <1>1, <1>2, <2>1, ServiceAssumption DEF BreakerOK, Breakers, Entered
<1>3. CASE b.state # "half_open"
  BY <1>3 DEF Entered
<1>. QED  BY <1>2, <1>3

\* Opening a breaker resets its time and its slots.
LEMMA OpenedOK ==
    ASSUME NEW d \in Breakers
    PROVE  /\ opened(d) \in Breakers /\ opened(d).state = "open"
           /\ opened(d).inFlight = 0 /\ opened(d).fails = d.fails
<1>1. OpenTimeout \in 0..OpenTimeout /\ 0 \in 0..HalfOpenLimit
  BY ServiceAssumption
<1>. QED  BY <1>1 DEF opened, Breakers

\* A reported failure leaves the breaker closed or open, with no slot taken.
LEMMA FailureOK ==
    ASSUME NEW b, BreakerOK(b)
    PROVE  /\ BreakerOK(ReportFailure(b))
           /\ ReportFailure(b).state # "half_open"
           /\ ReportFailure(b).inFlight = 0
<1> USE ServiceAssumption
<1> DEFINE fails == IF b.fails < FailureLimit THEN b.fails + 1 ELSE b.fails
           counted == [b EXCEPT !.fails = fails]
<1>1. b \in Breakers /\ b.fails \in 0..FailureLimit /\ fails \in 0..FailureLimit
  BY DEF BreakerOK, Breakers
<1>2. counted \in Breakers /\ counted.fails = fails /\ counted.state = b.state
      /\ counted.inFlight = b.inFlight
  BY <1>1 DEF Breakers
<1>3. ASSUME NEW d \in Breakers
      PROVE  /\ opened(d) \in Breakers /\ opened(d).state = "open"
             /\ opened(d).inFlight = 0 /\ opened(d).fails = d.fails
  BY OpenedOK
<1>4. CASE b.state = "half_open"
  <2>1. ReportFailure(b) = opened(b)
    BY <1>4 DEF ReportFailure
  <2>2. ~(b.fails < FailureLimit)
    BY <1>4 DEF BreakerOK
  <2>. QED  BY <1>1, <1>3, <2>1, <2>2 DEF BreakerOK
<1>5. CASE b.state # "half_open" /\ fails >= FailureLimit
  <2>1. ReportFailure(b) = opened(counted)
    BY <1>5 DEF ReportFailure
  <2>. HIDE DEF counted, fails
  <2>2. ~(fails < FailureLimit)
    BY <1>1, <1>5
  <2>3. /\ opened(counted) \in Breakers /\ opened(counted).state = "open"
        /\ opened(counted).inFlight = 0 /\ opened(counted).fails = fails
    BY <1>2, <1>3
  <2>. QED  BY <2>1, <2>2, <2>3 DEF BreakerOK
<1>6. CASE b.state # "half_open" /\ ~(fails >= FailureLimit)
  <2>1. ReportFailure(b) = counted
    BY <1>6 DEF ReportFailure
  <2>2. b.fails < FailureLimit /\ fails < FailureLimit
    BY <1>1, <1>6
  <2>3. b.state = "closed" /\ b.inFlight = 0
    BY <1>6, <2>2 DEF BreakerOK
  <2>. HIDE DEF counted, fails
  <2>. QED  BY <1>2, <2>1, <2>2, <2>3 DEF BreakerOK
<1>. QED  BY <1>4, <1>5, <1>6

-----------------------------------------------------------------------------
(* The callers *)

\* A caller that is not idle has a service.
LEMMA CallerService ==
    ASSUME TypeOK, NEW c \in Callers, callers[c].pc # "idle"
    PROVE  /\ callers[c] \in Calls /\ Service(c) \in Services
           /\ Tail(callers[c].plan) \in Seq(Services)
<1>1. callers[c] \in {NoCall} \union Calls
  BY DEF TypeOK
<1>2. callers[c] # NoCall
  BY DEF NoCall
<1>3. callers[c] \in Calls
  BY <1>1, <1>2
<1>4. callers[c].plan \in Seq(Services) /\ callers[c].plan # << >>
  BY <1>3 DEF Calls
<1>5. Head(callers[c].plan) \in Services /\ Tail(callers[c].plan) \in Seq(Services)
  BY <1>4
<1>. QED  BY <1>3, <1>5 DEF Service

\* What remains of the invariant to be shown when one breaker has changed: the
\* others are as they were.
LEMMA BreakerChanged ==
    ASSUME CallsInv, TypeOK', NEW c \in Callers, NEW s \in Services, NEW b, NEW let,
           Becomes(s, b, let), BreakerOK(b),
           IsFiniteSet(probes'[s]), b.inFlight = Cardinality(probes'[s]),
           \A d \in probes'[s] : Calling(d, s)',
           \A d \in Callers \ {c} : callers'[d] = callers[d],
           \A u \in Services \ {s} : c \notin probes[u]
    PROVE  CallsInv'
<1> SUFFICES ASSUME NEW u \in Services PROVE BreakerOK(breakers'[u]) /\ ProbesOK(u)'
  BY DEF CallsInv, BreakerOK
<1>1. CASE u = s
  <2>1. breakers'[s] = b
    BY DEF CallsInv, TypeOK, Becomes
  <2>. QED  BY <1>1, <2>1 DEF ProbesOK
<1>2. CASE u # s
  <2>1. breakers'[u] = breakers[u] /\ probes'[u] = probes[u]
    BY <1>2 DEF CallsInv, TypeOK, Becomes
  <2>2. BreakerOK(breakers[u]) /\ ProbesOK(u) /\ probes[u] \subseteq Callers
    BY DEF CallsInv, TypeOK
  <2>3. \A d \in probes[u] : callers'[d] = callers[d]
    BY <1>2, <2>2
  <2>. QED  BY <2>1, <2>2, <2>3 DEF ProbesOK, Calling, Service
<1>. QED  BY <1>1, <1>2

\* A caller is a probe of the service it calls only.
LEMMA OneService ==
    ASSUME CallsInv, NEW c \in Callers, NEW u \in Services, c \in probes[u]
    PROVE  callers[c].pc \in {"trying", "waiting"} /\ Service(c) = u
BY DEF CallsInv, ProbesOK, Calling

\* Without slots in use there are no probes.
LEMMA NoProbes ==
    ASSUME CallsInv, NEW s \in Services, breakers[s].inFlight = 0
    PROVE  probes[s] = {}
<1>1. IsFiniteSet(probes[s]) /\ Cardinality(probes[s]) = 0
  BY DEF CallsInv, ProbesOK
<1>. QED  BY <1>1, FS_EmptySet

\* A step of caller c that changes the breaker of its service, if the caller ends
\* up idle, asking or trying and the breaker is as it should be: types are kept.
LEMMA BecomesTyping ==
    ASSUME TypeOK, NEW c \in Callers, NEW s \in Services, NEW b \in Breakers,
           NEW let \in SUBSET Callers, NEW next \in {NoCall} \union Calls,
           Becomes(s, b, let), callers' = [callers EXCEPT ![c] = next], UNCHANGED weather
    PROVE  TypeOK'
<1>1. breakers' \in [Services -> Breakers]
  BY DEF TypeOK, Becomes
<1>2. probes' \in [Services -> SUBSET Callers]
  BY DEF TypeOK, Becomes
<1>3. callers' \in [Callers -> {NoCall} \union Calls]
  BY DEF TypeOK
<1>. QED  BY <1>1, <1>2, <1>3 DEF TypeOK

\* A report ends the episode: the breaker is not half open afterwards, nobody is
\* a probe of it, and the caller goes wherever it goes.
LEMMA ReportKeeps ==
    ASSUME CallsInv, NEW c \in Callers, callers[c].pc \in {"trying", "waiting"},
           NEW b, BreakerOK(b), b.state # "half_open", b.inFlight = 0,
           NEW next \in {NoCall} \union Calls,
           Becomes(Service(c), b, {}), callers' = [callers EXCEPT ![c] = next], UNCHANGED weather
    PROVE  CallsInv'
<1> DEFINE s == Service(c)
<1>1. s \in Services
  BY CallerService DEF CallsInv
<1>2. TypeOK'
  BY <1>1, BecomesTyping DEF CallsInv, BreakerOK
<1>3. probes'[s] = {}
  BY <1>1 DEF CallsInv, TypeOK, Becomes
<1>4. IsFiniteSet(probes'[s]) /\ b.inFlight = Cardinality(probes'[s])
  BY <1>3, FS_EmptySet
<1>5. \A d \in Callers \ {c} : callers'[d] = callers[d]
  BY DEF CallsInv, TypeOK
<1>6. \A u \in Services \ {s} : c \notin probes[u]
  BY OneService
<1>. QED  BY <1>1, <1>2, <1>3, <1>4, <1>5, <1>6, BreakerChanged

\* Allow: a call that is let in is a probe of a half-open breaker, a new one.
LEMMA AllowKeeps ==
    ASSUME CallsInv, NEW c \in Callers, AllowCall(c)
    PROVE  CallsInv'
<1>0. PICK s \in Services : s = Service(c)
  BY CallerService DEF CallsInv, AllowCall
<1> DEFINE b == Aired(breakers[s])
           next == [callers[c] EXCEPT !.pc = "trying"]
<1>1. callers[c] \in Calls /\ callers[c].pc = "asking"
  BY CallerService DEF CallsInv, AllowCall
<1>2. Admits(b) /\ Becomes(s, Entered(b), {c}) /\ callers' = [callers EXCEPT ![c] = next]
      /\ UNCHANGED weather
  BY <1>0 DEF AllowCall
<1>3. BreakerOK(breakers[s]) /\ ProbesOK(s)
  BY <1>1 DEF CallsInv
<1>4. BreakerOK(b) /\ b.inFlight = breakers[s].inFlight
  BY <1>3, AiredOK
<1>5. /\ BreakerOK(Entered(b)) /\ Entered(b).state = b.state
      /\ b.state = "half_open" => Entered(b).inFlight = b.inFlight + 1
      /\ b.state # "half_open" => Entered(b) = b
  BY <1>2, <1>4, EnteredOK
<1>6. next \in Calls /\ next.pc = "trying" /\ next.plan = callers[c].plan
  BY <1>1 DEF Calls
<1>7. s = Head(callers[c].plan)
  BY <1>0 DEF Service
<1>8. callers'[c] = next /\ \A d \in Callers \ {c} : callers'[d] = callers[d]
  BY <1>2 DEF CallsInv, TypeOK
<1>9. TypeOK'
  BY <1>1, <1>2, <1>5, <1>6, BecomesTyping DEF CallsInv, BreakerOK
<1>10. \A u \in Services : c \notin probes[u]
  BY <1>1, OneService
<1>11. probes'[s] = IF Entered(b).state = "half_open" THEN probes[s] \union {c} ELSE {}
  BY <1>1, <1>2 DEF CallsInv, TypeOK, Becomes
<1>12. Calling(c, s)' /\ \A d \in probes[s] : Calling(d, s)'
  <2>1. Calling(c, s)'
    BY <1>6, <1>7, <1>8 DEF Calling, Service
  <2>2. \A d \in probes[s] : d \in Callers /\ d # c /\ Calling(d, s)
    BY <1>1, <1>3, <1>10 DEF CallsInv, TypeOK, ProbesOK
  <2>3. \A d \in probes[s] : callers'[d] = callers[d]
    BY <1>8, <2>2
  <2>. QED  BY <2>1, <2>2, <2>3 DEF Calling, Service
<1>. HIDE DEF b, next
<1>13. /\ IsFiniteSet(probes'[s]) /\ Entered(b).inFlight = Cardinality(probes'[s])
       /\ \A d \in probes'[s] : Calling(d, s)'
  <2>1. CASE b.state = "half_open"
    <3>1. probes'[s] = probes[s] \union {c} /\ c \notin probes[s]
      BY <1>1, <1>5, <1>10, <1>11, <2>1
    <3>2. IsFiniteSet(probes[s]) /\ breakers[s].inFlight = Cardinality(probes[s])
      BY <1>3 DEF ProbesOK
    <3>3. /\ IsFiniteSet(probes[s] \union {c})
          /\ Cardinality(probes[s] \union {c}) = Cardinality(probes[s]) + 1
      <4>. DEFINE P == probes[s]
      <4>1. IsFiniteSet(P) /\ c \notin P  BY <3>1, <3>2
      <4>. HIDE DEF P
      <4>2. /\ IsFiniteSet(P \union {c})
            /\ Cardinality(P \union {c}) =
                 IF c \in P THEN Cardinality(P) ELSE Cardinality(P) + 1
        BY <4>1, FS_AddElement, Zenon
      <4>3. /\ IsFiniteSet(P \union {c})
            /\ Cardinality(P \union {c}) = Cardinality(P) + 1
        BY <4>1, <4>2
      <4>. QED  BY <4>3 DEF P
    <3>. QED  BY <1>4, <1>5, <1>12, <2>1, <3>1, <3>2, <3>3
  <2>2. CASE b.state # "half_open"
    <3>1. probes'[s] = {} /\ Entered(b).inFlight = 0
      BY <1>4, <1>5, <1>11, <2>2 DEF BreakerOK
    <3>. QED  BY <3>1, FS_EmptySet
  <2>. QED  BY <2>1, <2>2
<1>. QED  BY <1>1, <1>2, <1>5, <1>8, <1>9, <1>10, <1>13, BreakerChanged

\* Allow, refused: an open breaker may have become half open, without a probe.
LEMMA RefuseKeeps ==
    ASSUME CallsInv, NEW c \in Callers, RefuseCall(c)
    PROVE  CallsInv'
<1>0. PICK s \in Services : s = Service(c)
  BY CallerService DEF CallsInv, RefuseCall
<1> DEFINE b == Aired(breakers[s])
<1>1. callers[c] \in Calls /\ callers[c].pc = "asking"
  BY CallerService DEF CallsInv, RefuseCall
<1>2. Becomes(s, b, {}) /\ callers' = [callers EXCEPT ![c] = NoCall] /\ UNCHANGED weather
  BY <1>0 DEF RefuseCall
<1>3. BreakerOK(breakers[s]) /\ ProbesOK(s)
  BY <1>1 DEF CallsInv
<1>4. BreakerOK(b) /\ b.inFlight = breakers[s].inFlight
  BY <1>3, AiredOK
<1>5. \A d \in Callers \ {c} : callers'[d] = callers[d]
  BY <1>2 DEF CallsInv, TypeOK
<1>6. \A u \in Services : c \notin probes[u]
  BY <1>1, OneService
<1>7. TypeOK'
  BY <1>1, <1>2, <1>4, BecomesTyping DEF CallsInv, BreakerOK
<1>8. probes'[s] = IF b.state = "half_open" THEN probes[s] ELSE {}
  BY <1>1, <1>2 DEF CallsInv, TypeOK, Becomes
<1>9. probes[s] \subseteq Callers
  BY <1>1 DEF CallsInv, TypeOK
<1>. HIDE DEF b
<1>10. /\ IsFiniteSet(probes'[s]) /\ b.inFlight = Cardinality(probes'[s])
       /\ \A d \in probes'[s] : Calling(d, s)'
  <2>1. CASE b.state = "half_open"
    <3>1. probes'[s] = probes[s]
      BY <1>8, <2>1
    <3>2. \A d \in probes[s] : callers'[d] = callers[d] /\ Calling(d, s)
      BY <1>1, <1>3, <1>5, <1>6, <1>9 DEF ProbesOK
    <3>. QED  BY <1>3, <1>4, <3>1, <3>2 DEF ProbesOK, Calling, Service
  <2>2. CASE b.state # "half_open"
    <3>1. probes'[s] = {} /\ b.inFlight = 0
      BY <1>4, <1>8, <2>2 DEF BreakerOK
    <3>. QED  BY <3>1, FS_EmptySet
  <2>. QED  BY <2>1, <2>2
<1>. QED  BY <1>1, <1>2, <1>4, <1>5, <1>6, <1>7, <1>10, BreakerChanged

\* Steps of callers that leave the breakers alone, if calls under way stay so.
LEMMA CallersChanged ==
    ASSUME CallsInv, UNCHANGED <<breakers, probes>>, TypeOK',
           \A d \in Callers : \A s \in Services : Calling(d, s) => Calling(d, s)'
    PROVE  CallsInv'
<1> SUFFICES ASSUME NEW s \in Services PROVE BreakerOK(breakers'[s]) /\ ProbesOK(s)'
  BY DEF CallsInv, BreakerOK
<1>1. BreakerOK(breakers[s]) /\ ProbesOK(s) /\ probes[s] \subseteq Callers
  BY DEF CallsInv, TypeOK
<1>. QED  BY <1>1 DEF ProbesOK

\* Every step keeps the invariant.
LEMMA CallsStep == CallsInv /\ [Next]_vars => CallsInv'
<1> SUFFICES ASSUME CallsInv, [Next]_vars PROVE CallsInv'
  OBVIOUS
<1> USE ServiceAssumption
<1>1. CASE UNCHANGED vars
  <2>1. TypeOK'
    BY <1>1 DEF CallsInv, TypeOK, vars
  <2>2. \A d \in Callers : \A s \in Services : Calling(d, s) => Calling(d, s)'
    BY <1>1 DEF Calling, Service, vars
  <2>. QED  BY <1>1, <2>1, <2>2, CallersChanged DEF vars
<1>2. ASSUME NEW c \in Callers, NEW plan \in Plans, Start(c, plan) PROVE CallsInv'
  <2>1. [pc |-> "asking", plan |-> plan, made |-> 0] \in Calls
    BY DEF Calls
  <2>2. TypeOK'
    BY <1>2, <2>1 DEF CallsInv, TypeOK, Start
  <2>3. \A d \in Callers : \A s \in Services : Calling(d, s) => Calling(d, s)'
    BY <1>2 DEF CallsInv, TypeOK, Start, Calling, Service, NoCall
  <2>. QED  BY <1>2, <2>2, <2>3, CallersChanged DEF Start
<1>3. ASSUME NEW c \in Callers, Answered(c) PROVE CallsInv'
  <2> DEFINE rest == Tail(callers[c].plan)
             next == IF rest = << >> THEN NoCall ELSE [pc |-> "asking", plan |-> rest, made |-> 0]
  <2>1. rest \in Seq(Services)
    BY <1>3, CallerService DEF CallsInv, Answered
  <2>2. next \in {NoCall} \union Calls
    BY <2>1 DEF Calls
  <2>3. /\ Becomes(Service(c), Closed, {}) /\ callers' = [callers EXCEPT ![c] = next]
        /\ UNCHANGED weather /\ callers[c].pc = "trying"
    BY <1>3 DEF Answered, ReportSuccess
  <2>. HIDE DEF next
  <2>. QED  BY <2>2, <2>3, ClosedOK, ReportKeeps
<1>9. ASSUME NEW c \in Callers, AnsweredEmpty(c) PROVE CallsInv'
  <2>1. /\ Becomes(Service(c), Closed, {}) /\ callers' = [callers EXCEPT ![c] = NoCall]
        /\ UNCHANGED weather /\ callers[c].pc = "trying"
    BY <1>9 DEF AnsweredEmpty, ReportSuccess
  <2>. QED  BY <2>1, ClosedOK, ReportKeeps
<1>4. ASSUME NEW c \in Callers, GiveUp(c), callers[c].pc \in {"trying", "waiting"} PROVE CallsInv'
  <2>1. Service(c) \in Services
    BY <1>4, CallerService DEF CallsInv
  <2>2. BreakerOK(breakers[Service(c)])
    BY <2>1 DEF CallsInv
  <2>3. /\ Becomes(Service(c), ReportFailure(breakers[Service(c)]), {})
        /\ callers' = [callers EXCEPT ![c] = NoCall] /\ UNCHANGED weather
    BY <1>4 DEF GiveUp
  <2>. QED  BY <1>4, <2>2, <2>3, FailureOK, ReportKeeps
<1>5. ASSUME NEW c \in Callers, AttemptFails(c) PROVE CallsInv'
  <2> DEFINE next == [callers[c] EXCEPT !.pc = "waiting", !.made = @ + 1]
  <2>1. callers[c] \in Calls /\ callers[c].made + 1 < Attempts
    BY <1>5, CallerService DEF CallsInv, AttemptFails
  <2>2. next \in Calls /\ next.pc = "waiting" /\ next.plan = callers[c].plan
    <3>1. callers[c].made + 1 \in 0..Attempts
      BY <2>1 DEF Calls
    <3>. QED  BY <2>1, <3>1 DEF Calls
  <2>3. callers' = [callers EXCEPT ![c] = next]
    BY <1>5 DEF AttemptFails
  <2>. HIDE DEF next
  <2>4. TypeOK'
    <3>1. UNCHANGED <<breakers, probes, weather>>  BY <1>5 DEF AttemptFails
    <3>2. callers' \in [Callers -> {NoCall} \union Calls]
      BY <2>2, <2>3 DEF CallsInv, TypeOK
    <3>. QED  BY <3>1, <3>2 DEF CallsInv, TypeOK
  <2>5. \A d \in Callers : \A s \in Services : Calling(d, s) => Calling(d, s)'
    BY <2>2, <2>3 DEF CallsInv, TypeOK, Calling, Service
  <2>. QED  BY <1>5, <2>4, <2>5, CallersChanged DEF AttemptFails
<1>6. ASSUME NEW c \in Callers, TryAgain(c) PROVE CallsInv'
  <2> DEFINE next == [callers[c] EXCEPT !.pc = "trying"]
  <2>1. callers[c] \in Calls
    BY <1>6, CallerService DEF CallsInv, TryAgain
  <2>2. next \in Calls /\ next.pc = "trying" /\ next.plan = callers[c].plan
    BY <2>1 DEF Calls
  <2>3. callers' = [callers EXCEPT ![c] = next]
    BY <1>6 DEF TryAgain
  <2>. HIDE DEF next
  <2>4. TypeOK'
    <3>1. UNCHANGED <<breakers, probes, weather>>  BY <1>6 DEF TryAgain
    <3>2. callers' \in [Callers -> {NoCall} \union Calls]
      BY <2>2, <2>3 DEF CallsInv, TypeOK
    <3>. QED  BY <3>1, <3>2 DEF CallsInv, TypeOK
  <2>5. \A d \in Callers : \A s \in Services : Calling(d, s) => Calling(d, s)'
    BY <2>2, <2>3 DEF CallsInv, TypeOK, Calling, Service
  <2>. QED  BY <1>6, <2>4, <2>5, CallersChanged DEF TryAgain
<1>7. CASE Tick
  <2>1. ASSUME NEW s \in Services
        PROVE  /\ BreakerOK(breakers'[s]) /\ breakers'[s].inFlight = breakers[s].inFlight
    <3>1. breakers'[s] = [breakers[s] EXCEPT !.left = IF @ > 0 THEN @ - 1 ELSE 0]
      BY <1>7 DEF Tick
    <3>2. BreakerOK(breakers[s])
      BY DEF CallsInv
    <3>. QED  BY <3>1, <3>2 DEF BreakerOK, Breakers
  <2>2. breakers' = [s \in Services |-> breakers'[s]] /\ UNCHANGED <<callers, probes, weather>>
    BY <1>7 DEF Tick
  <2>3. TypeOK'
    BY <2>1, <2>2 DEF CallsInv, TypeOK, BreakerOK
  <2>4. \A s \in Services : ProbesOK(s)'
    BY <2>1, <2>2 DEF CallsInv, ProbesOK, Calling, Service
  <2>. QED  BY <2>1, <2>3, <2>4 DEF CallsInv, BreakerOK
<1>8. ASSUME NEW s \in Services, Change(s) PROVE CallsInv'
  <2>1. TypeOK'
    BY <1>8 DEF CallsInv, TypeOK, Change
  <2>2. \A d \in Callers : \A u \in Services : Calling(d, u) => Calling(d, u)'
    BY <1>8 DEF Change, Calling, Service
  <2>. QED  BY <1>8, <2>1, <2>2, CallersChanged DEF Change
<1>. QED
  BY <1>1, <1>2, <1>3, <1>4, <1>5, <1>6, <1>7, <1>8, <1>9, AllowKeeps, RefuseKeeps
     DEF Next, Proceed, LastAttemptFails, CancelledWaiting

\* The slots of a half-open breaker are those of the calls under way that it let
\* in, at most HalfOpenLimit of them, and the failures it counted agree with its
\* state, whatever order calls are made and reported in (CircuitBreaker.Allow,
\* ReportSuccess, ReportFailure and their call sites).
THEOREM SlotsAccountedHolds == Spec => []SlotsAccounted
<1>1. Init => CallsInv
  <2> SUFFICES ASSUME Init PROVE CallsInv
    OBVIOUS
  <2>1. \A s \in Services : breakers[s] = Closed /\ probes[s] = {}
    BY DEF Init
  <2>2. TypeOK
    BY ClosedOK DEF Init, TypeOK, BreakerOK
  <2>. QED  BY <2>1, <2>2, ClosedOK, FS_EmptySet DEF CallsInv, ProbesOK
<1>2. CallsInv => SlotsAccounted
  BY DEF CallsInv, SlotsAccounted, BreakerOK, ProbesOK
<1>. QED  BY <1>1, <1>2, CallsStep, PTL DEF Spec
=============================================================================
