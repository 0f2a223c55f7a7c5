---------------------- MODULE HeartbeatAccountingProofs ----------------------
(***************************************************************************)
(* Theorems about HeartbeatAccounting for any actions, budget, limit and   *)
(* number of dispatchers.  What the chain says is a replay of its records, *)
(* so the proofs begin with what one more record does to a replay.         *)
(***************************************************************************)
EXTENDS HeartbeatAccounting, FiniteSetTheorems, TLAPS

-----------------------------------------------------------------------------
(* The inductive invariant *)

\* What a chain says of the task.
Standing ==
  [grants : [Operations -> Actions \cup {None}], charged : [Dimensions -> Nat],
   reserved : SUBSET Operations, pending : Unreviewed \cup {None},
   streak : Nat, accepted : BOOLEAN]

Now == State(records)

OperationOf(d) == Plan[job[d].action].operation

Working == {"reserved", "running", "ran"}

\* A grant is of an action of its operation, what is pending was reserved,
\* and nothing is pending once the task was accepted.
StandingInv(s) ==
  /\ \A o \in Operations : s.grants[o] # None => Plan[s.grants[o]].operation = o
  /\ s.pending # None => s.pending.operation \in s.reserved
  /\ s.accepted => s.pending = None
  /\ Within(s.charged, Budget)

\* What was kept for an action is that of the granted and reserved one.
Complete(e) ==
  e.outcome = "execution_completed" => e.phases = PhaseCount(e.action)

KeptInv ==
  \A a \in Actions :
    /\ retained[a].state # "absent" =>
         /\ Plan[a].operation \in Now.reserved
         /\ Now.grants[Plan[a].operation] = a
    /\ retained[a].state # "result" => retained[a].result = None
    /\ retained[a].state = "result" =>
         /\ retained[a].result \in Evidence
         /\ retained[a].result.action = a /\ Complete(retained[a].result)

\* Where a dispatcher is, and what it has done and kept by then.
DispatchInv(d) ==
  /\ pc[d] # "idle" => job[d].action \in Actions
  /\ pc[d] \in {"reserving", "reserved"} => job[d].phases = 0
  /\ pc[d] \in {"reserving", "reserved", "running"} => job[d].outcome = "failed"
  /\ pc[d] \in Working \cup {"recording"} => MatchesGrant(job[d].action)
  /\ pc[d] \in Working => Unresolved(Now, OperationOf(d))
  /\ pc[d] = "reserved" => retained[job[d].action].state = "absent"
  /\ pc[d] \in {"running", "ran"} => retained[job[d].action].state = "frozen"
  /\ pc[d] = "running" => job[d].phases < PhaseCount(job[d].action)
  /\ pc[d] \in {"ran", "recording"} => Complete(EvidenceOf(d))
  /\ pc[d] = "recording" =>
       retained[job[d].action] = [state |-> "result", result |-> EvidenceOf(d)]

OneWorks == \A d, e \in Dispatchers : pc[d] \in Working /\ pc[e] \in Working => d = e

\* What the phases that are still to come may use.
Left(d) ==
  IF pc[d] = "ran" THEN Nothing
  ELSE IF job[d].phases = 0 THEN Envelope(Plan[job[d].action].run, Plan[job[d].action].compact)
  ELSE Allocation(job[d].action, 1)

SpentInv ==
  /\ Within(spent, Now.charged)
  /\ \A d \in Dispatchers : pc[d] \in Working => Within(Plus(spent, Left(d)), Now.charged)

\* The streak counts every stretch of reviews without progress up to the end.
NoProgress(h, k) == \A j \in (k + 1)..Len(h) :
  h[j].type = "review" => h[j].decision = "no_progress"

ReviewsOf(h, k) == {j \in (k + 1)..Len(h) : h[j].type = "review"}

StreakInv(h, s) ==
  /\ \A k \in 0..Len(h) : NoProgress(h, k) => Cardinality(ReviewsOf(h, k)) =< s.streak
  /\ \A j \in DOMAIN h : h[j].type = "review" /\ h[j].decision = "accepted" => s.accepted

HeartbeatInv ==
  /\ TypeOK /\ Now \in Standing /\ StandingInv(Now) /\ KeptInv
  /\ \A d \in Dispatchers : DispatchInv(d)
  /\ OneWorks /\ SpentInv /\ StreakInv(records, Now)
  /\ ResultsAreEvidence /\ StoppedStays

-----------------------------------------------------------------------------
(* The replay of a chain *)

\* A set of natural numbers has a smallest: intervals are ordered by inclusion.
LEMMA Smallest ==
  ASSUME NEW S \in SUBSET Nat, S # {}
  PROVE  \E m \in S : \A n \in S : m =< n
  <1> DEFINE T == {0..n : n \in S}
  <1>1. T \subseteq FiniteSubsetsOf(Nat)
    <2>1. \A n \in S : IsFiniteSet(0..n) /\ 0..n \subseteq Nat
      BY FS_Interval
    <2>2. QED
      BY <2>1 DEF FiniteSubsetsOf
  <1>2. PICK x \in T : \A y \in T : ~(<<y, x>> \in StrictSubsetOrdering(Nat))
    <2>1. T # {}
      OBVIOUS
    <2>2. IsWellFoundedOn(StrictSubsetOrdering(Nat), FiniteSubsetsOf(Nat))
      BY FS_StrictSubsetOrderingWellFounded
    <2> HIDE DEF T
    <2>3. QED
      BY <1>1, <2>1, <2>2, WFMin
  <1>3. PICK m \in S : x = 0..m
    OBVIOUS
  <1>4. ASSUME NEW n \in S, n < m
        PROVE  FALSE
    <2>1. 0..n \subseteq 0..m /\ 0..n # 0..m
      BY <1>4
    <2>2. <<0..n, 0..m>> \in StrictSubsetOrdering(Nat)
      BY <2>1 DEF StrictSubsetOrdering
    <2>3. QED
      BY <1>2, <1>3, <2>2
  <1>5. QED
    BY <1>4

\* The standing after each of the first n records.
Replay(h, n, f) ==
  f = [i \in 0..n |-> IF i = 0 THEN Fresh ELSE Effect(f[i - 1], h[i])]

LEMMA ReplayExists ==
  ASSUME NEW h, NEW n \in Nat
  PROVE  \E f : Replay(h, n, f)
  <1> DEFINE S == {i \in Nat : ~\E f : Replay(h, i, f)}
  <1>1. SUFFICES ASSUME S # {}
                 PROVE  FALSE
    OBVIOUS
  <1>2. PICK m \in S : \A i \in S : m =< i
    BY <1>1, Smallest
  <1>3. CASE m = 0
    <2> DEFINE f == [i \in 0..0 |-> Fresh]
    <2>1. Replay(h, 0, f)
      BY DEF Replay
    <2>2. QED
      BY <1>2, <1>3, <2>1
  <1>4. CASE m # 0
    <2>1. m \in Nat /\ m - 1 \in Nat /\ m - 1 \notin S
      BY <1>2, <1>4
    <2>2. PICK g : Replay(h, m - 1, g)
      BY <2>1
    <2> DEFINE f == [i \in 0..m |-> IF i = m THEN Effect(g[m - 1], h[m]) ELSE g[i]]
    <2>3. \A i \in 0..(m - 1) : f[i] = g[i]
      BY <2>1
    <2>4. \A i \in 0..m : f[i] = IF i = 0 THEN Fresh ELSE Effect(f[i - 1], h[i])
      BY <1>4, <2>1, <2>2, <2>3 DEF Replay
    <2>5. Replay(h, m, f)
      BY <2>4 DEF Replay
    <2>6. QED
      BY <1>2, <2>5
  <1>5. QED
    BY <1>3, <1>4

LEMMA StateIsReplay ==
  ASSUME NEW h, Len(h) \in Nat
  PROVE  \E f : Replay(h, Len(h), f) /\ State(h) = f[Len(h)]
  <1>1. \E f : f = [i \in 0..Len(h) |-> IF i = 0 THEN Fresh ELSE Effect(f[i - 1], h[i])]
    BY ReplayExists DEF Replay
  <1>2. QED
    BY <1>1 DEF State, Replay

\* Nothing recorded leaves the task fresh; one more record has its effect.
LEMMA ReplayEmpty == State(<<>>) = Fresh
  <1>1. Len(<<>>) = 0 /\ 0 \in 0..0
    OBVIOUS
  <1>2. PICK f : Replay(<<>>, 0, f) /\ State(<<>>) = f[0]
    BY <1>1, StateIsReplay
  <1>3. QED
    BY <1>1, <1>2 DEF Replay

LEMMA ReplayAppend ==
  ASSUME NEW h \in Seq(Event), NEW e \in Event
  PROVE  State(Append(h, e)) = Effect(State(h), e)
  <1> DEFINE n == Len(h)
             k == Append(h, e)
  <1>1. /\ n \in Nat /\ Len(k) = n + 1 /\ n + 1 \in Nat /\ k[n + 1] = e
        /\ \A i \in 1..n : h[i] = k[i]
    OBVIOUS
  <1>2. PICK f : Replay(h, n, f) /\ State(h) = f[n]
    BY <1>1, StateIsReplay
  <1> HIDE DEF k
  <1>3. PICK g : Replay(k, n + 1, g) /\ State(k) = g[n + 1]
    BY <1>1, StateIsReplay
  <1>4. \A i \in 0..n : f[i] = g[i]
    <2> DEFINE S == {i \in 0..n : f[i] # g[i]}
    <2>1. SUFFICES ASSUME S # {}
                   PROVE  FALSE
      OBVIOUS
    <2>2. S \in SUBSET Nat
      OBVIOUS
    <2> HIDE DEF S
    <2>3. PICK j \in S : \A i \in S : j =< i
      BY <2>1, <2>2, Smallest
    <2> USE DEF S
    <2>4. /\ f[j] = IF j = 0 THEN Fresh ELSE Effect(f[j - 1], h[j])
          /\ g[j] = IF j = 0 THEN Fresh ELSE Effect(g[j - 1], k[j])
      <3>1. j \in 0..n /\ j \in 0..(n + 1)
        BY <1>1, <2>3
      <3> HIDE DEF n
      <3>2. QED
        BY <1>2, <1>3, <3>1 DEF Replay
    <2>5. j # 0 => f[j - 1] = g[j - 1] /\ h[j] = k[j]
      BY <1>1, <2>3
    <2>6. QED
      BY <2>3, <2>4, <2>5
  <1>5. g[n + 1] = Effect(g[n], k[n + 1])
    BY <1>1, <1>3 DEF Replay
  <1>6. QED
    BY <1>1, <1>2, <1>3, <1>4, <1>5 DEF k

-----------------------------------------------------------------------------
(* What a record does to the standing of the task *)

\* Amounts are typed and add up.
LEMMA Amounts ==
  /\ Nothing \in [Dimensions -> Nat]
  /\ \A a, b \in [Dimensions -> Nat] : Plus(a, b) \in [Dimensions -> Nat]
  /\ \A run \in Run, compact \in Compact \cup {None} :
       Envelope(run, compact) \in [Dimensions -> Nat]
  <1>1. Nothing \in [Dimensions -> Nat]
    BY DEF Nothing
  <1>2. \A a, b \in [Dimensions -> Nat] : Plus(a, b) \in [Dimensions -> Nat]
    BY DEF Plus
  <1>3. ASSUME NEW run \in Run, NEW compact \in Compact \cup {None}
        PROVE  Envelope(run, compact) \in [Dimensions -> Nat]
    <2>1. run.requests \in Nat /\ run.tokens \in Nat
      BY DEF Run
    <2>2. compact # None => compact.tokens \in Nat
      BY DEF Compact
    <2>3. \A p, q, r, t \in Nat :
            [attempts |-> p, requests |-> q, tokens |-> r, compactions |-> t]
              \in [Dimensions -> Nat]
      <3>1. ASSUME NEW p \in Nat, NEW q \in Nat, NEW r \in Nat, NEW t \in Nat
            PROVE  [attempts |-> p, requests |-> q, tokens |-> r, compactions |-> t]
                     \in [Dimensions -> Nat]
        BY DEF Dimensions
      <3>2. QED
        BY <3>1
    <2>4. QED
      BY <2>1, <2>2, <2>3 DEF Envelope
  <1>4. QED
    BY <1>1, <1>2, <1>3

LEMMA FreshStanding == Fresh \in Standing
  <1>1. Nothing \in [Dimensions -> Nat]
    BY Amounts
  <1>2. QED
    BY <1>1, HeartbeatAssumption DEF Fresh, Standing

\* Each kind of record, when it is admitted: what it is and what it changes.
LEMMA AuthorizeEffect ==
  ASSUME NEW s \in Standing, NEW e \in Event, e.type = "authorize", AdmitsEvent(s, e)
  PROVE  /\ e.operation \in Operations /\ e.action \in Actions
         /\ Plan[e.action].operation = e.operation
         /\ s.grants[e.operation] = None /\ MayAttempt(s)
         /\ Effect(s, e) \in Standing
         /\ Effect(s, e).grants = [s.grants EXCEPT ![e.operation] = e.action]
         /\ Effect(s, e).charged = s.charged /\ Effect(s, e).reserved = s.reserved
         /\ Effect(s, e).pending = s.pending /\ Effect(s, e).streak = s.streak
         /\ Effect(s, e).accepted = s.accepted
  <1>1. e.operation \in Operations /\ e.action \in Actions
    BY DEF Event
  <1>2. /\ Plan[e.action].operation = e.operation
        /\ s.grants[e.operation] = None /\ MayAttempt(s)
    BY DEF AdmitsEvent
  <1>3. Effect(s, e) = [s EXCEPT !.grants = [s.grants EXCEPT ![e.operation] = e.action]]
    BY DEF Effect, Standing
  <1>4. QED
    BY <1>1, <1>2, <1>3 DEF Standing

LEMMA ReserveEffect ==
  ASSUME NEW s \in Standing, NEW e \in Event, e.type = "reserve", AdmitsEvent(s, e)
  PROVE  /\ e.operation \in Operations
         /\ MayAttempt(s) /\ e.operation \notin s.reserved
         /\ Within(Plus(s.charged, Envelope(e.run, e.compact)), Budget)
         /\ Effect(s, e) \in Standing
         /\ Effect(s, e).grants = s.grants
         /\ Effect(s, e).charged = Plus(s.charged, Envelope(e.run, e.compact))
         /\ Effect(s, e).reserved = s.reserved \cup {e.operation}
         /\ Effect(s, e).pending = [operation |-> e.operation, result |-> None]
         /\ Effect(s, e).streak = s.streak /\ Effect(s, e).accepted = s.accepted
  <1>1. e.operation \in Operations /\ e.run \in Run /\ e.compact \in Compact \cup {None}
    BY DEF Event
  <1>2. /\ MayAttempt(s) /\ e.operation \notin s.reserved
        /\ Within(Plus(s.charged, Envelope(e.run, e.compact)), Budget)
    BY DEF AdmitsEvent, FreshOperation
  <1> DEFINE amount == Plus(s.charged, Envelope(e.run, e.compact))
             one == [operation |-> e.operation, result |-> None]
             all == s.reserved \cup {e.operation}
  <1>3. amount \in [Dimensions -> Nat]
    BY <1>1, Amounts DEF Standing
  <1>4. one \in Unreviewed /\ all \in SUBSET Operations
    BY <1>1 DEF Unreviewed, Standing
  <1>5. Effect(s, e) = [s EXCEPT !.charged = amount, !.reserved = all, !.pending = one]
    BY DEF Effect
  <1> HIDE DEF amount, one, all
  <1>6. /\ Effect(s, e) \in Standing
        /\ Effect(s, e).grants = s.grants /\ Effect(s, e).charged = amount
        /\ Effect(s, e).reserved = all
        /\ Effect(s, e).pending = one
        /\ Effect(s, e).streak = s.streak /\ Effect(s, e).accepted = s.accepted
    BY <1>3, <1>4, <1>5 DEF Standing
  <1>7. QED
    BY <1>1, <1>2, <1>6 DEF amount, one, all

LEMMA ResultEffect ==
  ASSUME NEW s \in Standing, NEW e \in Event, e.type = "result", AdmitsEvent(s, e)
  PROVE  /\ e.operation \in Operations /\ e.result \in Evidence
         /\ Unresolved(s, e.operation)
         /\ Effect(s, e) \in Standing
         /\ Effect(s, e).grants = s.grants /\ Effect(s, e).charged = s.charged
         /\ Effect(s, e).reserved = s.reserved
         /\ Effect(s, e).pending = [operation |-> e.operation, result |-> e.result]
         /\ Effect(s, e).streak = s.streak /\ Effect(s, e).accepted = s.accepted
  <1>1. e.operation \in Operations /\ e.result \in Evidence
    BY DEF Event
  <1>2. Unresolved(s, e.operation)
    BY DEF AdmitsEvent
  <1> DEFINE one == [operation |-> e.operation, result |-> e.result]
  <1>3. one \in Unreviewed
    BY <1>1 DEF Unreviewed
  <1>4. Effect(s, e) = [s EXCEPT !.pending = [s.pending EXCEPT !.result = e.result]]
    BY DEF Effect, Standing
  <1>5. [s.pending EXCEPT !.result = e.result] = one
    BY <1>2 DEF Unresolved
  <1> HIDE DEF one
  <1>6. /\ Effect(s, e) \in Standing
        /\ Effect(s, e).grants = s.grants /\ Effect(s, e).charged = s.charged
        /\ Effect(s, e).reserved = s.reserved
        /\ Effect(s, e).pending = one
        /\ Effect(s, e).streak = s.streak /\ Effect(s, e).accepted = s.accepted
    BY <1>3, <1>4, <1>5 DEF Standing
  <1>7. QED
    BY <1>1, <1>2, <1>6 DEF one

LEMMA ReviewEffect ==
  ASSUME NEW s \in Standing, NEW e \in Event, e.type = "review", AdmitsEvent(s, e)
  PROVE  /\ e.result \in Evidence
         /\ s.pending = [operation |-> e.operation, result |-> e.result]
         /\ Effect(s, e) \in Standing
         /\ Effect(s, e).grants = s.grants /\ Effect(s, e).charged = s.charged
         /\ Effect(s, e).reserved = s.reserved /\ Effect(s, e).pending = None
         /\ Effect(s, e).streak = Streak(s, e.decision)
         /\ Effect(s, e).accepted = (e.decision = "accepted")
  <1>1. e.result \in Evidence /\ e.decision \in Decisions
    BY DEF Event
  <1>2. s.pending = [operation |-> e.operation, result |-> e.result]
    BY DEF AdmitsEvent
  <1>3. Streak(s, e.decision) \in Nat
    BY DEF Streak, Standing
  <1>4. Effect(s, e) = [s EXCEPT !.streak = Streak(s, e.decision),
                                 !.accepted = (e.decision = "accepted"),
                                 !.pending = None]
    BY DEF Effect
  <1>5. QED
    BY <1>1, <1>2, <1>3, <1>4 DEF Standing

LEMMA EffectTyped ==
  ASSUME NEW s \in Standing, NEW e \in Event, AdmitsEvent(s, e)
  PROVE  Effect(s, e) \in Standing
  <1>1. e.type \in {"authorize", "reserve", "result", "review"}
    BY DEF Event
  <1>2. QED
    BY <1>1, AuthorizeEffect, ReserveEffect, ResultEffect, ReviewEffect

\* A record takes back neither a grant nor a reservation nor a charge.
Continues(s, t) ==
  /\ \A o \in Operations : s.grants[o] # None => t.grants[o] = s.grants[o]
  /\ s.reserved \subseteq t.reserved
  /\ Within(s.charged, t.charged)

LEMMA ChargesAdd ==
  ASSUME NEW a \in [Dimensions -> Nat], NEW b \in [Dimensions -> Nat]
  PROVE  Within(a, a) /\ Within(a, Plus(a, b))
  BY DEF Within, Plus

LEMMA EffectContinues ==
  ASSUME NEW s \in Standing, NEW e \in Event, AdmitsEvent(s, e)
  PROVE  Continues(s, Effect(s, e))
  <1>1. e.type \in {"authorize", "reserve", "result", "review"}
    BY DEF Event
  <1>2. s.charged \in [Dimensions -> Nat]
    BY DEF Standing
  <1>3. CASE e.type = "authorize"
    <2>1. /\ e.operation \in Operations /\ s.grants[e.operation] = None
          /\ Effect(s, e).grants = [s.grants EXCEPT ![e.operation] = e.action]
          /\ Effect(s, e).charged = s.charged /\ Effect(s, e).reserved = s.reserved
      BY <1>3, AuthorizeEffect
    <2>2. s.grants \in [Operations -> Actions \cup {None}]
      BY DEF Standing
    <2>3. QED
      BY <1>2, <2>1, <2>2, ChargesAdd DEF Continues
  <1>4. CASE e.type = "reserve"
    <2>1. /\ Effect(s, e).grants = s.grants
          /\ Effect(s, e).charged = Plus(s.charged, Envelope(e.run, e.compact))
          /\ Effect(s, e).reserved = s.reserved \cup {e.operation}
      BY <1>4, ReserveEffect
    <2>2. Envelope(e.run, e.compact) \in [Dimensions -> Nat]
      BY <1>4, Amounts DEF Event
    <2>3. Within(s.charged, Effect(s, e).charged)
      BY <1>2, <2>1, <2>2, ChargesAdd
    <2>4. QED
      BY <2>1, <2>3 DEF Continues
  <1>5. CASE e.type \in {"result", "review"}
    <2>1. /\ Effect(s, e).grants = s.grants /\ Effect(s, e).charged = s.charged
          /\ Effect(s, e).reserved = s.reserved
      BY <1>5, ResultEffect, ReviewEffect
    <2>2. QED
      BY <1>2, <2>1, ChargesAdd DEF Continues
  <1>6. QED
    BY <1>1, <1>3, <1>4, <1>5

\* A record that is admitted keeps what the standing promises.
LEMMA EffectKeeps ==
  ASSUME NEW s \in Standing, NEW e \in Event, AdmitsEvent(s, e), StandingInv(s)
  PROVE  StandingInv(Effect(s, e))
  <1> DEFINE t == Effect(s, e)
  <1>1. e.type \in {"authorize", "reserve", "result", "review"}
    BY DEF Event
  <1>2. CASE e.type = "authorize"
    <2>1. /\ e.operation \in Operations /\ Plan[e.action].operation = e.operation
          /\ t.grants = [s.grants EXCEPT ![e.operation] = e.action]
          /\ t.charged = s.charged /\ t.reserved = s.reserved
          /\ t.pending = s.pending /\ t.accepted = s.accepted
          /\ s.grants \in [Operations -> Actions \cup {None}]
      BY <1>2, AuthorizeEffect DEF Standing
    <2> HIDE DEF t
    <2>2. QED
      BY <2>1 DEF StandingInv, t
  <1>3. CASE e.type = "reserve"
    <2>1. /\ Within(t.charged, Budget)
          /\ t.grants = s.grants /\ t.reserved = s.reserved \cup {e.operation}
          /\ t.pending = [operation |-> e.operation, result |-> None]
          /\ t.accepted = s.accepted /\ ~s.accepted
      BY <1>3, ReserveEffect DEF MayAttempt, Stopped
    <2> HIDE DEF t
    <2>2. QED
      BY <2>1 DEF StandingInv, t
  <1>4. CASE e.type = "result"
    <2>1. /\ Unresolved(s, e.operation) /\ e.operation \in Operations
          /\ t.grants = s.grants /\ t.charged = s.charged /\ t.reserved = s.reserved
          /\ t.pending = [operation |-> e.operation, result |-> e.result]
          /\ t.accepted = s.accepted
      BY <1>4, ResultEffect
    <2>2. [operation |-> e.operation, result |-> None] \in Unreviewed
      BY <2>1 DEF Unreviewed
    <2>3. s.pending # None /\ s.pending.operation = e.operation
      BY <2>1, <2>2, NoneAssumption DEF Unresolved
    <2> HIDE DEF t
    <2>4. QED
      BY <2>1, <2>3 DEF StandingInv, t
  <1>5. CASE e.type = "review"
    <2>1. /\ t.grants = s.grants /\ t.charged = s.charged /\ t.reserved = s.reserved
          /\ t.pending = None
      BY <1>5, ReviewEffect
    <2> HIDE DEF t
    <2>2. QED
      BY <2>1 DEF StandingInv, t
  <1>6. QED
    BY <1>1, <1>2, <1>3, <1>4, <1>5

-----------------------------------------------------------------------------
(* Reviews without progress *)

\* One more record adds itself to every stretch up to the end, if a review.
LEMMA ReviewsAppend ==
  ASSUME NEW h \in Seq(Event), NEW e \in Event, NEW k \in 0..Len(h)
  PROVE  LET g == Append(h, e) IN
         /\ Cardinality(ReviewsOf(h, k)) \in Nat
         /\ e.type # "review" => /\ ReviewsOf(g, k) = ReviewsOf(h, k)
                                 /\ NoProgress(g, k) => NoProgress(h, k)
         /\ e.type = "review" =>
              /\ Cardinality(ReviewsOf(g, k)) = Cardinality(ReviewsOf(h, k)) + 1
              /\ NoProgress(g, k) => NoProgress(h, k) /\ e.decision = "no_progress"
  <1> DEFINE g == Append(h, e)
             n == Len(h)
  <1>1. /\ n \in Nat /\ Len(g) = n + 1 /\ g[n + 1] = e /\ k \in Nat /\ k =< n
        /\ \A i \in 1..n : g[i] = h[i]
    OBVIOUS
  <1> HIDE DEF g
  <1>2. ReviewsOf(h, k) \in SUBSET ((k + 1)..n) /\ n + 1 \notin ReviewsOf(h, k)
    BY <1>1 DEF ReviewsOf
  <1>3. IsFiniteSet(ReviewsOf(h, k)) /\ Cardinality(ReviewsOf(h, k)) \in Nat
    <2>1. IsFiniteSet((k + 1)..n)
      BY <1>1, FS_Interval
    <2>2. IsFiniteSet(ReviewsOf(h, k))
      BY <1>2, <2>1, FS_Subset
    <2>3. QED
      BY <2>2, FS_CardinalityType
  <1>4. NoProgress(g, k) => NoProgress(h, k)
                            /\ (e.type = "review" => e.decision = "no_progress")
    BY <1>1 DEF NoProgress
  <1>5. e.type # "review" => ReviewsOf(g, k) = ReviewsOf(h, k)
    BY <1>1 DEF ReviewsOf
  <1>6. ASSUME e.type = "review"
        PROVE  Cardinality(ReviewsOf(g, k)) = Cardinality(ReviewsOf(h, k)) + 1
    <2>1. ReviewsOf(g, k) = ReviewsOf(h, k) \cup {n + 1}
      BY <1>1, <1>6 DEF ReviewsOf
    <2>2. QED
      BY <1>2, <1>3, <2>1, FS_AddElement
  <1>7. QED
    BY <1>3, <1>4, <1>5, <1>6 DEF g

\* Nothing comes after the end of a chain.
LEMMA ReviewsAtEnd ==
  ASSUME NEW h, Len(h) \in Nat
  PROVE  Cardinality(ReviewsOf(h, Len(h))) = 0
  <1>1. ReviewsOf(h, Len(h)) = {}
    BY DEF ReviewsOf
  <1>2. QED
    BY <1>1, FS_EmptySet

\* So the streak goes on counting.
LEMMA StreakStep ==
  ASSUME NEW h \in Seq(Event), NEW s \in Standing, NEW e \in Event,
         AdmitsEvent(s, e), StandingInv(s), StreakInv(h, s)
  PROVE  StreakInv(Append(h, e), Effect(s, e))
  <1> DEFINE g == Append(h, e)
             t == Effect(s, e)
             n == Len(h)
  <1>1. /\ n \in Nat /\ Len(g) = n + 1 /\ g \in Seq(Event) /\ g[n + 1] = e
        /\ DOMAIN g = 1..(n + 1) /\ DOMAIN h = 1..n
        /\ \A i \in DOMAIN h : g[i] = h[i]
    OBVIOUS
  <1>2. t \in Standing /\ s.streak \in Nat /\ t.streak \in Nat
    BY EffectTyped DEF Standing
  <1>3. \A k \in 0..n :
          /\ Cardinality(ReviewsOf(h, k)) \in Nat
          /\ e.type # "review" => /\ ReviewsOf(g, k) = ReviewsOf(h, k)
                                  /\ NoProgress(g, k) => NoProgress(h, k)
          /\ e.type = "review" =>
               /\ Cardinality(ReviewsOf(g, k)) = Cardinality(ReviewsOf(h, k)) + 1
               /\ NoProgress(g, k) => NoProgress(h, k) /\ e.decision = "no_progress"
    BY ReviewsAppend
  <1>4. Cardinality(ReviewsOf(g, n + 1)) = 0
    <2> HIDE DEF g, n
    <2>1. Len(g) \in Nat /\ Len(g) = n + 1
      BY <1>1
    <2>2. Cardinality(ReviewsOf(g, Len(g))) = 0
      BY <2>1, ReviewsAtEnd
    <2>3. QED
      BY <2>1, <2>2
  <1>5. e.type # "review" => t.streak = s.streak /\ t.accepted = s.accepted
    <2>1. e.type \in {"authorize", "reserve", "result", "review"}
      BY DEF Event
    <2>2. QED
      BY <2>1, AuthorizeEffect, ReserveEffect, ResultEffect
  <1>6. e.type = "review" =>
          /\ t.streak = Streak(s, e.decision)
          /\ t.accepted = (e.decision = "accepted") /\ ~s.accepted
    <2>1. ASSUME e.type = "review"
          PROVE  /\ t.streak = Streak(s, e.decision)
                 /\ t.accepted = (e.decision = "accepted") /\ ~s.accepted
      <3>1. /\ t.streak = Streak(s, e.decision)
            /\ t.accepted = (e.decision = "accepted")
            /\ s.pending = [operation |-> e.operation, result |-> e.result]
            /\ e.operation \in Operations /\ e.result \in Evidence
        BY <2>1, ReviewEffect DEF Event
      <3>2. s.pending \in Unreviewed
        BY <3>1 DEF Unreviewed
      <3>3. s.pending # None
        BY <3>2, NoneAssumption
      <3>4. QED
        BY <3>1, <3>3 DEF StandingInv
    <2>2. QED
      BY <2>1
  <1> HIDE DEF g, t, n
  <1>7. ASSUME NEW k \in 0..(n + 1), NoProgress(g, k)
        PROVE  Cardinality(ReviewsOf(g, k)) =< t.streak
    <2>1. CASE k = n + 1
      BY <1>2, <1>4, <2>1
    <2>2. ASSUME k \in 0..n, e.type # "review"
          PROVE  Cardinality(ReviewsOf(g, k)) =< t.streak
      BY <1>3, <1>5, <1>7, <2>2 DEF StreakInv, n
    <2>3. ASSUME k \in 0..n, e.type = "review"
          PROVE  Cardinality(ReviewsOf(g, k)) =< t.streak
      <3>1. t.streak = s.streak + 1 /\ NoProgress(h, k)
        BY <1>3, <1>6, <1>7, <2>3 DEF Streak
      <3>2. Cardinality(ReviewsOf(h, k)) =< s.streak
        BY <2>3, <3>1 DEF StreakInv, n
      <3>3. QED
        BY <1>2, <1>3, <2>3, <3>1, <3>2
    <2>4. QED
      BY <1>1, <2>1, <2>2, <2>3
  <1>8. ASSUME NEW j \in DOMAIN g, g[j].type = "review", g[j].decision = "accepted"
        PROVE  t.accepted
    <2>1. CASE j = n + 1
      BY <1>1, <1>6, <1>8, <2>1
    <2>2. CASE j \in DOMAIN h
      BY <1>1, <1>5, <1>6, <1>8, <2>2 DEF StreakInv
    <2>3. QED
      BY <1>1, <2>1, <2>2
  <1>9. QED
    BY <1>1, <1>7, <1>8 DEF StreakInv, g, t

\* A stopped task is not attempted: what a reservation finds before it.
LEMMA ReserveInTime ==
  ASSUME NEW h \in Seq(Event), NEW s \in Standing, MayAttempt(s), StreakInv(h, s)
  PROVE  /\ \A j \in DOMAIN h : h[j].type = "review" => h[j].decision # "accepted"
         /\ \A k \in 0..Len(h) :
              NoProgress(h, k) => Cardinality(ReviewsOf(h, k)) < NoProgressLimit
  <1>1. ~s.accepted /\ ~(s.streak >= NoProgressLimit)
    BY DEF MayAttempt, Stopped
  <1>2. s.streak \in Nat /\ NoProgressLimit \in Nat
    BY HeartbeatAssumption DEF Standing
  <1>3. ASSUME NEW k \in 0..Len(h), NoProgress(h, k)
        PROVE  Cardinality(ReviewsOf(h, k)) < NoProgressLimit
    <2>1. Cardinality(ReviewsOf(h, k)) =< s.streak
      BY <1>3 DEF StreakInv
    <2>2. ReviewsOf(h, k) \in SUBSET ((k + 1)..Len(h)) /\ IsFiniteSet((k + 1)..Len(h))
      BY FS_Interval DEF ReviewsOf
    <2>3. Cardinality(ReviewsOf(h, k)) \in Nat
      BY <2>2, FS_Subset, FS_CardinalityType
    <2>4. QED
      BY <1>1, <1>2, <2>1, <2>3
  <1>4. QED
    BY <1>1, <1>3 DEF StreakInv

-----------------------------------------------------------------------------
(* What a step does to the chain *)

\* A publication that succeeds or dies records its event or nothing.
LEMMA Published ==
  ASSUME NEW e, NEW x, Appends(e, x) \/ DiesAppending(e, x)
  PROVE  \/ records' = records
         \/ AdmitsEvent(Now, e) /\ records' = Append(records, e)
  BY DEF Appends, DiesAppending, Now

\* The event is a reservation a dispatcher makes for the granted action, a
\* result that is kept, or the controller's.
Owned(e) ==
  \/ e.type \in {"authorize", "review"}
  \/ e.type = "reserve" /\ \E d \in Dispatchers :
       /\ pc[d] = "reserving" /\ e = Reservation(job[d].action)
       /\ MatchesGrant(job[d].action)
  \/ e.type = "result" /\ \E a \in Actions :
       /\ retained[a].state = "result" /\ e.result = retained[a].result
       /\ e.operation = Plan[a].operation /\ Now.grants[Plan[a].operation] = a

LEMMA ReservationTyped ==
  ASSUME NEW a \in Actions
  PROVE  /\ Reservation(a) \in Event /\ Reservation(a).type = "reserve"
         /\ Plan[a].operation \in Operations /\ Plan[a].run \in Run
         /\ Plan[a].compact \in Compact \cup {None}
  <1>1. /\ Plan[a].operation \in Operations /\ Plan[a].run \in Run
        /\ Plan[a].compact \in Compact \cup {None}
    BY HeartbeatAssumption
  <1>2. QED
    BY <1>1 DEF Reservation, Event

\* The job of a dispatcher that is not idle is typed, and so is its evidence.
LEMMA JobTyped ==
  ASSUME HeartbeatInv, NEW d \in Dispatchers, pc[d] # "idle"
  PROVE  /\ job[d].action \in Actions /\ EvidenceOf(d) \in Evidence
         /\ job[d].phases \in 0..2 /\ job[d].outcome \in Outcomes
         /\ job[d] \in [action : Actions \cup {None}, head : Nat,
                        phases : 0..2, outcome : Outcomes]
  <1>1. job[d] \in [action : Actions \cup {None}, head : Nat,
                    phases : 0..2, outcome : Outcomes]
    BY DEF HeartbeatInv, TypeOK
  <1>2. job[d].action \in Actions
    BY DEF HeartbeatInv, DispatchInv
  <1>3. QED
    BY <1>1, <1>2 DEF EvidenceOf, Evidence

LEMMA RecordedStep ==
  ASSUME HeartbeatInv, [Next]_vars
  PROVE  \/ records' = records
         \/ \E e \in Event : /\ AdmitsEvent(Now, e) /\ Owned(e)
                             /\ records' = Append(records, e)
  <1>1. ASSUME NEW a \in Actions, Authorize(a)
        PROVE  \/ records' = records
               \/ \E e \in Event : /\ AdmitsEvent(Now, e) /\ Owned(e)
                                   /\ records' = Append(records, e)
    <2> DEFINE e == [type |-> "authorize", operation |-> Plan[a].operation, action |-> a]
    <2>1. e \in Event /\ e.type = "authorize"
      BY ReservationTyped DEF Event
    <2>2. Appends(e, Tip) \/ DiesAppending(e, Tip)
      BY <1>1 DEF Authorize, Controls
    <2> HIDE DEF e
    <2>3. QED
      BY <2>1, <2>2, Published DEF Owned
  <1>2. ASSUME NEW decision \in Decisions, Review(decision)
        PROVE  \/ records' = records
               \/ \E e \in Event : /\ AdmitsEvent(Now, e) /\ Owned(e)
                                   /\ records' = Append(records, e)
    <2> DEFINE e == [type |-> "review", operation |-> Now.pending.operation,
                     result |-> Now.pending.result, decision |-> decision]
    <2>1. Now.pending # None /\ Now.pending.result # None
          /\ (Appends(e, Tip) \/ DiesAppending(e, Tip))
      BY <1>2 DEF Review, Controls, Now
    <2>2. Now.pending \in Unreviewed
      BY <2>1 DEF HeartbeatInv, Standing
    <2>3. e \in Event /\ e.type = "review"
      BY <2>1, <2>2 DEF Event, Unreviewed
    <2> HIDE DEF e
    <2>4. QED
      BY <2>1, <2>3, Published DEF Owned
  <1>3. ASSUME NEW a \in Actions, NEW r \in Evidence,
               retained[a].state = "result", r = retained[a].result,
               Now.grants[Plan[a].operation] = a,
               NEW x, Appends([type |-> "result", operation |-> Plan[a].operation,
                               result |-> r], x)
                      \/ DiesAppending([type |-> "result",
                               operation |-> Plan[a].operation, result |-> r], x)
        PROVE  \/ records' = records
               \/ \E e \in Event : /\ AdmitsEvent(Now, e) /\ Owned(e)
                                   /\ records' = Append(records, e)
    <2> DEFINE e == [type |-> "result", operation |-> Plan[a].operation, result |-> r]
    <2>1. /\ e \in Event /\ e.type = "result" /\ e.result = r
          /\ e.operation = Plan[a].operation
      BY ReservationTyped DEF Event
    <2>2. Appends(e, x) \/ DiesAppending(e, x)
      BY <1>3
    <2> HIDE DEF e
    <2>3. Owned(e)
      BY <1>3, <2>1 DEF Owned
    <2>4. QED
      BY <2>1, <2>2, <2>3, Published
  <1>4. ASSUME NEW a \in Actions, Reconcile(a)
        PROVE  \/ records' = records
               \/ \E e \in Event : /\ AdmitsEvent(Now, e) /\ Owned(e)
                                   /\ records' = Append(records, e)
    <2>1. /\ retained[a].state = "result" /\ Result(a) = retained[a].result
          /\ Now.grants[Plan[a].operation] = a
      BY <1>4 DEF Reconcile, Result, Now
    <2>2. retained[a].result \in Evidence
      BY <2>1 DEF HeartbeatInv, KeptInv
    <2>3. QED
      BY <1>3, <1>4, <2>1, <2>2 DEF Reconcile, Controls
  <1>5. ASSUME NEW d \in Dispatchers, pc[d] = "reserving",
               MatchesGrant(job[d].action),
               NEW x, Appends(Reservation(job[d].action), x)
                      \/ DiesAppending(Reservation(job[d].action), x)
        PROVE  \/ records' = records
               \/ \E e \in Event : /\ AdmitsEvent(Now, e) /\ Owned(e)
                                   /\ records' = Append(records, e)
    <2>1. /\ Reservation(job[d].action) \in Event
          /\ Reservation(job[d].action).type = "reserve"
      BY <1>5, JobTyped, ReservationTyped
    <2>2. Owned(Reservation(job[d].action))
      BY <1>5, <2>1 DEF Owned
    <2>3. QED
      BY <1>5, <2>1, <2>2, Published
  <1>6. ASSUME NEW d \in Dispatchers, pc[d] = "recording",
               NEW x, Appends([type |-> "result",
                         operation |-> Plan[job[d].action].operation,
                         result |-> EvidenceOf(d)], x)
                      \/ DiesAppending([type |-> "result",
                         operation |-> Plan[job[d].action].operation,
                         result |-> EvidenceOf(d)], x)
        PROVE  \/ records' = records
               \/ \E e \in Event : /\ AdmitsEvent(Now, e) /\ Owned(e)
                                   /\ records' = Append(records, e)
    <2>1. job[d].action \in Actions /\ EvidenceOf(d) \in Evidence
      BY <1>6, JobTyped
    <2>2. /\ retained[job[d].action].state = "result"
          /\ EvidenceOf(d) = retained[job[d].action].result
          /\ Now.grants[Plan[job[d].action].operation] = job[d].action
      <3>1. /\ retained[job[d].action]
                  = [state |-> "result", result |-> EvidenceOf(d)]
            /\ MatchesGrant(job[d].action)
        BY <1>6 DEF HeartbeatInv, DispatchInv
      <3>2. QED
        BY <3>1 DEF MatchesGrant, Now
    <2>3. QED
      BY <1>3, <1>6, <2>1, <2>2
  <1>7. ASSUME NEW d \in Dispatchers,
               \/ \E a \in Actions : Start(d, a)
               \/ Freeze(d) \/ RunPhase(d) \/ Interrupted(d) \/ RetainResult(d)
               \/ GiveUp(d)
        PROVE  records' = records
    BY <1>7 DEF Start, Freeze, RunPhase, Interrupted, RetainResult, GiveUp
  <1>8. ASSUME NEW d \in Dispatchers, DiesPublishing(d)
        PROVE  \/ records' = records
               \/ \E e \in Event : /\ AdmitsEvent(Now, e) /\ Owned(e)
                                   /\ records' = Append(records, e)
    BY <1>5, <1>6, <1>8 DEF DiesPublishing
  <1>9. CASE Tidy \/ UNCHANGED vars
    BY <1>9 DEF Tidy, vars
  <1>10. QED
    BY <1>1, <1>2, <1>4, <1>5, <1>6, <1>7, <1>8, <1>9
       DEF Next, Reserve, RecordResult

\* The chain after a step: what it says follows from what it said.
LEMMA ChainStep ==
  ASSUME HeartbeatInv, [Next]_vars
  PROVE  /\ State(records') \in Standing /\ StandingInv(State(records'))
         /\ StreakInv(records', State(records'))
         /\ Continues(Now, State(records'))
         /\ records' \in Seq(Event)
  <1>1. /\ records \in Seq(Event) /\ Now \in Standing /\ StandingInv(Now)
        /\ StreakInv(records, Now) /\ Now = State(records)
    BY DEF HeartbeatInv, TypeOK, Now
  <1>2. CASE records' = records
    <2>1. Now.charged \in [Dimensions -> Nat]
      BY <1>1 DEF Standing
    <2>2. Continues(Now, Now)
      BY <2>1, ChargesAdd DEF Continues
    <2>3. QED
      BY <1>1, <1>2, <2>2
  <1>3. ASSUME NEW e \in Event, AdmitsEvent(Now, e), records' = Append(records, e)
        PROVE  /\ State(records') \in Standing /\ StandingInv(State(records'))
               /\ StreakInv(records', State(records'))
               /\ Continues(Now, State(records'))
               /\ records' \in Seq(Event)
    <2>1. State(records') = Effect(Now, e)
      BY <1>1, <1>3, ReplayAppend
    <2>2. records' \in Seq(Event)
      BY <1>1, <1>3
    <2>3. Effect(Now, e) \in Standing
      BY <1>1, <1>3, EffectTyped
    <2>4. StandingInv(Effect(Now, e))
      BY <1>1, <1>3, EffectKeeps
    <2>5. StreakInv(Append(records, e), Effect(Now, e))
      BY <1>1, <1>3, StreakStep
    <2>6. Continues(Now, Effect(Now, e))
      BY <1>1, <1>3, EffectContinues
    <2>7. QED
      BY <1>3, <2>1, <2>2, <2>3, <2>4, <2>5, <2>6
  <1>4. QED
    BY <1>2, <1>3, RecordedStep

\* While a dispatcher works nothing is recorded: its reservation waits for a
\* result, and nothing is kept yet that could be recorded as one.
LEMMA NothingWhileWorking ==
  ASSUME HeartbeatInv, [Next]_vars, NEW d \in Dispatchers, pc[d] \in Working
  PROVE  records' = records
  <1>1. SUFFICES ASSUME NEW e \in Event, AdmitsEvent(Now, e), Owned(e)
                 PROVE  FALSE
    BY RecordedStep
  <1>2. /\ Unresolved(Now, OperationOf(d)) /\ MatchesGrant(job[d].action)
        /\ retained[job[d].action].state \in {"absent", "frozen"}
    BY DEF HeartbeatInv, DispatchInv, Working
  <1>3. job[d].action \in Actions /\ OperationOf(d) \in Operations
    <2>1. job[d].action \in Actions
      BY JobTyped DEF Working
    <2>2. QED
      BY <2>1, ReservationTyped DEF OperationOf
  <1>4. Now.pending = [operation |-> OperationOf(d), result |-> None]
    BY <1>2 DEF Unresolved
  <1>5. Now.pending \in Unreviewed /\ Now.pending # None
    BY <1>3, <1>4, NoneAssumption DEF Unreviewed
  <1>6. Now \in Standing /\ ~MayAttempt(Now)
    BY <1>5 DEF HeartbeatInv, MayAttempt
  <1>7. e.type \notin {"authorize", "reserve"}
    BY <1>1, <1>6, AuthorizeEffect, ReserveEffect
  <1>8. e.type # "review"
    <2>1. SUFFICES ASSUME e.type = "review"
                   PROVE  FALSE
      OBVIOUS
    <2>2. e.result \in Evidence
          /\ Now.pending = [operation |-> e.operation, result |-> e.result]
      BY <1>1, <1>6, <2>1, ReviewEffect
    <2>3. e.result = None
      BY <1>4, <2>2
    <2>4. QED
      BY <2>2, <2>3, NoneAssumption
  <1>9. e.type = "result"
    BY <1>1, <1>7, <1>8 DEF Owned
  <1>10. PICK a \in Actions : /\ retained[a].state = "result"
                              /\ e.operation = Plan[a].operation
                              /\ Now.grants[Plan[a].operation] = a
    BY <1>1, <1>9 DEF Owned
  <1>11. Unresolved(Now, e.operation)
    BY <1>1, <1>6, <1>9, ResultEffect
  <1>12. Plan[a].operation = OperationOf(d)
    BY <1>4, <1>10, <1>11 DEF Unresolved
  <1>13. a = job[d].action
    BY <1>2, <1>10, <1>12 DEF MatchesGrant, Now, OperationOf
  <1>14. QED
    BY <1>2, <1>10, <1>13

\* Nobody works when something is recorded.
LEMMA NobodyWorks ==
  ASSUME HeartbeatInv, [Next]_vars, NEW e \in Event, records' = Append(records, e),
         NEW d \in Dispatchers
  PROVE  pc[d] \notin Working
  <1>1. records \in Seq(Event)
    BY DEF HeartbeatInv, TypeOK
  <1>2. Append(records, e) # records
    BY <1>1
  <1>3. QED
    BY <1>2, NothingWhileWorking

\* A grant is not taken back.
LEMMA GrantsStand ==
  ASSUME HeartbeatInv, [Next]_vars, NEW a \in Actions,
         Now.grants[Plan[a].operation] = a
  PROVE  State(records').grants[Plan[a].operation] = a
  <1>1. Plan[a].operation \in Operations /\ a # None
    BY ReservationTyped, HeartbeatAssumption
  <1>2. QED
    BY <1>1, ChainStep DEF Continues

-----------------------------------------------------------------------------
(* The dispatchers *)

\* What is kept changes only under the dispatcher that works on it.
LEMMA RetainedStep ==
  ASSUME HeartbeatInv, [Next]_vars, NEW a \in Actions, retained'[a] # retained[a]
  PROVE  \E d \in Dispatchers :
           /\ pc[d] \in {"reserved", "ran"} /\ job[d].action = a
           /\ \/ Freeze(d) /\ retained'[a] = [retained[a] EXCEPT !.state = "frozen"]
              \/ /\ RetainResult(d)
                 /\ retained'[a] = [state |-> "result", result |-> EvidenceOf(d)]
              \/ /\ pc[d] = "ran" /\ DiesPublishing(d)
                 /\ retained'[a] = [retained[a] EXCEPT !.state = "torn"]
  <1>1. retained \in [Actions -> [state : {"absent", "frozen", "result", "torn"},
                                  result : Evidence \cup {None}]]
    BY DEF HeartbeatInv, TypeOK
  <1>2. retained' # retained
    OBVIOUS
  <1>3. \E d \in Dispatchers : Freeze(d) \/ RetainResult(d) \/ DiesPublishing(d)
    BY <1>2 DEF Next, vars, Authorize, Reconcile, Review, Controls, Tidy, Start,
                Reserve, RunPhase, Interrupted, RecordResult, GiveUp
  <1>4. PICK d \in Dispatchers : Freeze(d) \/ RetainResult(d) \/ DiesPublishing(d)
    BY <1>3
  <1>5. CASE Freeze(d)
    <2>1. pc[d] = "reserved" /\ retained' = [retained EXCEPT ![job[d].action].state = "frozen"]
      BY <1>5 DEF Freeze
    <2>2. a = job[d].action /\ retained'[a] = [retained[a] EXCEPT !.state = "frozen"]
      BY <1>1, <2>1
    <2>3. QED
      BY <1>5, <2>1, <2>2
  <1>6. CASE RetainResult(d)
    <2> DEFINE kept == [state |-> "result", result |-> EvidenceOf(d)]
    <2>1. pc[d] = "ran" /\ retained' = [retained EXCEPT ![job[d].action] = kept]
      BY <1>6 DEF RetainResult
    <2> HIDE DEF kept
    <2>2. a = job[d].action /\ retained'[a] = kept
      BY <1>1, <2>1
    <2>3. QED
      BY <1>6, <2>1, <2>2 DEF kept
  <1>7. CASE DiesPublishing(d)
    <2>1. pc[d] = "ran" /\ retained' = [retained EXCEPT ![job[d].action].state = "torn"]
      BY <1>2, <1>7 DEF DiesPublishing
    <2>2. a = job[d].action /\ retained'[a] = [retained[a] EXCEPT !.state = "torn"]
      BY <1>1, <2>1
    <2>3. QED
      BY <1>7, <2>1, <2>2
  <1>8. QED
    BY <1>4, <1>5, <1>6, <1>7

\* Two dispatchers that have reserved are on different actions.
LEMMA Apart ==
  ASSUME HeartbeatInv, NEW d \in Dispatchers, NEW e \in Dispatchers, d # e,
         pc[d] \in Working, pc[e] \in Working \cup {"recording"}
  PROVE  job[d].action # job[e].action
  <1>1. pc[e] = "recording"
    <2>1. OneWorks
      BY DEF HeartbeatInv
    <2>2. QED
      BY <2>1 DEF OneWorks
  <1>2. retained[job[e].action].state = "result"
    <2>1. DispatchInv(e)
      BY DEF HeartbeatInv
    <2>2. retained[job[e].action] = [state |-> "result", result |-> EvidenceOf(e)]
      BY <1>1, <2>1 DEF DispatchInv
    <2>3. QED
      BY <2>2
  <1>3. retained[job[d].action].state \in {"absent", "frozen"}
    BY DEF HeartbeatInv, DispatchInv, Working
  <1>4. QED
    BY <1>2, <1>3

\* The step of another leaves a dispatcher as it was.
LEMMA Elsewhere ==
  ASSUME HeartbeatInv, [Next]_vars, NEW e \in Dispatchers,
         pc'[e] = pc[e], job'[e] = job[e],
         pc[e] \in Working \cup {"recording"} =>
           retained'[job[e].action] = retained[job[e].action]
  PROVE  DispatchInv(e)'
  <1>1. DispatchInv(e)
    BY DEF HeartbeatInv
  <1>2. /\ pc'[e] # "idle" => job'[e].action \in Actions
        /\ pc'[e] \in {"reserving", "reserved"} => job'[e].phases = 0
        /\ pc'[e] \in {"reserving", "reserved", "running"} => job'[e].outcome = "failed"
        /\ pc'[e] = "running" => job'[e].phases < PhaseCount(job'[e].action)
    BY <1>1 DEF DispatchInv
  <1>3. (pc[e] \in Working \cup {"recording"} => MatchesGrant(job[e].action))'
    <2>1. SUFFICES ASSUME pc[e] \in Working \cup {"recording"}
                   PROVE  MatchesGrant(job[e].action)'
      BY DEF Working
    <2>2. job[e].action \in Actions /\ Now.grants[Plan[job[e].action].operation] = job[e].action
      BY <1>1, <2>1 DEF DispatchInv, MatchesGrant, Now, Working
    <2>3. State(records').grants[Plan[job[e].action].operation] = job[e].action
      BY <2>2, GrantsStand
    <2>4. QED
      BY <2>3 DEF MatchesGrant
  <1>4. (pc[e] \in Working => Unresolved(Now, OperationOf(e)))'
    <2>1. SUFFICES ASSUME pc[e] \in Working
                   PROVE  Unresolved(Now, OperationOf(e))'
      BY DEF Working
    <2>2. records' = records
      BY <2>1, NothingWhileWorking
    <2>3. QED
      BY <1>1, <2>1, <2>2 DEF DispatchInv, Now, OperationOf
  <1>5. EvidenceOf(e)' = EvidenceOf(e)
    BY DEF EvidenceOf
  <1>6. /\ pc'[e] = "reserved" => retained'[job'[e].action].state = "absent"
        /\ pc'[e] \in {"running", "ran"} => retained'[job'[e].action].state = "frozen"
        /\ (pc[e] \in {"ran", "recording"} => Complete(EvidenceOf(e)))'
        /\ pc'[e] = "recording" =>
             retained'[job'[e].action] = [state |-> "result", result |-> EvidenceOf(e)']
    BY <1>1, <1>5 DEF DispatchInv, Working, Complete
  <1>7. QED
    BY <1>2, <1>3, <1>4, <1>6 DEF DispatchInv

\* The steps of a dispatcher itself, up to its reservation.
LEMMA StartStep ==
  ASSUME HeartbeatInv, [Next]_vars, NEW d \in Dispatchers, NEW a \in Actions,
         Start(d, a)
  PROVE  DispatchInv(d)'
  <1>1. /\ pc \in [Dispatchers -> {"idle", "reserving", "reserved", "running", "ran",
                                   "recording"}]
        /\ job \in [Dispatchers -> [action : Actions \cup {None}, head : Nat,
                                    phases : 0..2, outcome : Outcomes]]
    BY DEF HeartbeatInv, TypeOK
  <1>2. pc'[d] = "reserving"
    BY <1>1 DEF Start, Goto
  <1>3. job'[d].action = a /\ job'[d].phases = 0 /\ job'[d].outcome = "failed"
    BY <1>1 DEF Start, NoJob
  <1>4. QED
    BY <1>2, <1>3 DEF DispatchInv, Working

LEMMA IdleStep ==
  ASSUME HeartbeatInv, NEW d \in Dispatchers, pc'[d] = "idle"
  PROVE  DispatchInv(d)'
  BY DEF DispatchInv, Working

\* A reservation that is recorded is pending, of the action that was granted.
LEMMA ReserveStep ==
  ASSUME HeartbeatInv, [Next]_vars, NEW d \in Dispatchers, Reserve(d)
  PROVE  LET a == job[d].action
             t == State(records')
         IN  /\ pc[d] = "reserving" /\ pc'[d] = "reserved" /\ a \in Actions
             /\ job'[d].action = a /\ job'[d].phases = 0 /\ job'[d].outcome = "failed"
             /\ retained' = retained /\ spent' = spent
             /\ records' = Append(records, Reservation(a))
             /\ Reservation(a) \in Event /\ AdmitsEvent(Now, Reservation(a))
             /\ retained[a].state = "absent"
             /\ Unresolved(t, Plan[a].operation)
             /\ t.grants[Plan[a].operation] = a
             /\ t.charged = Plus(Now.charged, Envelope(Plan[a].run, Plan[a].compact))
  <1> DEFINE a == job[d].action
             e == Reservation(a)
  <1>1. /\ pc \in [Dispatchers -> {"idle", "reserving", "reserved", "running", "ran",
                                   "recording"}]
        /\ job \in [Dispatchers -> [action : Actions \cup {None}, head : Nat,
                                    phases : 0..2, outcome : Outcomes]]
        /\ records \in Seq(Event) /\ Now \in Standing /\ Now = State(records)
    BY DEF HeartbeatInv, TypeOK, Now
  <1>2. /\ pc[d] = "reserving" /\ pc'[d] = "reserved"
        /\ retained' = retained /\ spent' = spent /\ MatchesGrant(a)
        /\ AdmitsEvent(Now, e) /\ records' = Append(records, e)
        /\ job' = [job EXCEPT ![d].head = Tip + 1]
    BY <1>1 DEF Reserve, Goto, Appends
  <1>3. DispatchInv(d)
    BY DEF HeartbeatInv
  <1>4. a \in Actions /\ job[d].phases = 0 /\ job[d].outcome = "failed"
    BY <1>2, <1>3 DEF DispatchInv
  <1>5. job'[d].action = a /\ job'[d].phases = 0 /\ job'[d].outcome = "failed"
    BY <1>1, <1>2, <1>4
  <1>6. e \in Event /\ e.type = "reserve"
    BY <1>4, ReservationTyped
  <1>7. /\ e.operation = Plan[a].operation /\ e.run = Plan[a].run
        /\ e.compact = Plan[a].compact
    BY DEF Reservation
  <1> HIDE DEF a, e
  <1>8. State(records') = Effect(Now, e)
    BY <1>1, <1>2, <1>6, ReplayAppend
  <1>9. /\ e.operation \notin Now.reserved
        /\ Effect(Now, e).charged = Plus(Now.charged, Envelope(e.run, e.compact))
        /\ Effect(Now, e).pending = [operation |-> e.operation, result |-> None]
        /\ Effect(Now, e).grants = Now.grants
    BY <1>1, <1>2, <1>6, ReserveEffect
  <1>10. retained[a].state = "absent"
    <2>1. KeptInv
      BY DEF HeartbeatInv
    <2>2. QED
      BY <1>4, <1>7, <1>9, <2>1 DEF KeptInv
  <1>11. Unresolved(State(records'), Plan[a].operation)
    BY <1>7, <1>8, <1>9 DEF Unresolved
  <1>12. State(records').grants[Plan[a].operation] = a
    BY <1>2, <1>8, <1>9 DEF MatchesGrant, Now
  <1>13. QED
    BY <1>2, <1>4, <1>5, <1>6, <1>7, <1>8, <1>9, <1>10, <1>11, <1>12 DEF a, e

\* From the reservation to the result that is kept.
LEMMA WorkStep ==
  ASSUME HeartbeatInv, [Next]_vars, NEW d \in Dispatchers,
         Freeze(d) \/ RunPhase(d) \/ Interrupted(d) \/ RetainResult(d)
  PROVE  /\ pc[d] \in Working /\ pc'[d] \in {"running", "ran", "recording"}
         /\ records' = records /\ job'[d].action = job[d].action
         /\ job[d].action \in Actions /\ DispatchInv(d)'
  <1> DEFINE a == job[d].action
  <1>1. /\ pc \in [Dispatchers -> {"idle", "reserving", "reserved", "running", "ran",
                                   "recording"}]
        /\ job \in [Dispatchers -> [action : Actions \cup {None}, head : Nat,
                                    phases : 0..2, outcome : Outcomes]]
        /\ retained \in [Actions -> [state : {"absent", "frozen", "result", "torn"},
                                     result : Evidence \cup {None}]]
    BY DEF HeartbeatInv, TypeOK
  <1>2. DispatchInv(d)
    BY DEF HeartbeatInv
  <1>3. pc[d] \in Working /\ records' = records
    BY DEF Freeze, RunPhase, Interrupted, RetainResult, Working
  <1>4. a \in Actions /\ MatchesGrant(a) /\ Unresolved(Now, Plan[a].operation)
    BY <1>2, <1>3 DEF DispatchInv, Working, OperationOf
  <1>5. Unresolved(Now, Plan[a].operation)' <=> Unresolved(Now, Plan[job'[d].action].operation)
    BY <1>3 DEF Unresolved, Now
  <1>6. MatchesGrant(a)' <=> MatchesGrant(job'[d].action)
    BY <1>3 DEF MatchesGrant
  <1>7. CASE Freeze(d)
    <2>1. /\ pc[d] = "reserved" /\ pc'[d] = "running" /\ job' = job
          /\ retained' = [retained EXCEPT ![a].state = "frozen"]
      BY <1>1, <1>7 DEF Freeze, Goto
    <2>2. retained'[a].state = "frozen"
      BY <1>1, <1>4, <2>1
    <2>3. job[d].phases = 0 /\ job[d].outcome = "failed"
      BY <1>2, <2>1 DEF DispatchInv
    <2>4. job[d].phases < PhaseCount(a)
      BY <2>3 DEF PhaseCount
    <2>5. DispatchInv(d)'
      BY <1>4, <1>5, <1>6, <2>1, <2>2, <2>3, <2>4 DEF DispatchInv, Working, OperationOf
    <2>6. QED
      BY <1>3, <1>4, <2>1, <2>5
  <1>8. CASE RunPhase(d)
    <2> DEFINE n == job[d].phases + 1
               going == [job EXCEPT ![d].phases = n, ![d].outcome =
                           IF n = PhaseCount(a) THEN "execution_completed" ELSE "failed"]
               failed == [job EXCEPT ![d].phases = n]
    <2>1. /\ pc[d] = "running" /\ retained' = retained
          /\ \/ job' = going /\ pc'[d] = IF n = PhaseCount(a) THEN "ran" ELSE "running"
             \/ job' = failed /\ pc'[d] = "ran"
      BY <1>1, <1>8 DEF RunPhase, Goto
    <2>2. /\ job[d].phases < PhaseCount(a) /\ job[d].outcome = "failed"
          /\ retained[a].state = "frozen"
      BY <1>2, <2>1 DEF DispatchInv
    <2>3. job[d].phases \in 0..2 /\ n \in Nat /\ PhaseCount(a) \in Nat
      BY <1>1 DEF PhaseCount
    <2>4. /\ going[d].action = a /\ going[d].phases = n
          /\ going[d].outcome = IF n = PhaseCount(a) THEN "execution_completed" ELSE "failed"
      BY <1>1
    <2>5. failed[d].action = a /\ failed[d].phases = n /\ failed[d].outcome = "failed"
      BY <1>1, <2>2
    <2> HIDE DEF n, going, failed
    <2>6. job'[d].action = a
      BY <2>1, <2>4, <2>5
    <2>7. pc'[d] = "running" => job'[d].outcome = "failed" /\ job'[d].phases < PhaseCount(a)
      BY <2>1, <2>2, <2>3, <2>4 DEF n
    <2>8. pc'[d] = "ran" => (job'[d].outcome = "execution_completed" =>
                               job'[d].phases = PhaseCount(a))
      BY <2>1, <2>4, <2>5
    <2>9. pc'[d] \in {"running", "ran"}
      BY <2>1
    <2>10. (pc[d] = "ran" => Complete(EvidenceOf(d)))'
      BY <2>6, <2>8 DEF Complete, EvidenceOf, PhaseCount
    <2>11. DispatchInv(d)'
      BY <1>4, <1>5, <1>6, <2>1, <2>2, <2>6, <2>7, <2>9, <2>10
         DEF DispatchInv, Working, OperationOf
    <2>12. QED
      BY <1>3, <1>4, <2>6, <2>9, <2>11
  <1>9. CASE Interrupted(d)
    <2>1. /\ pc[d] = "running" /\ pc'[d] = "ran" /\ job' = job /\ retained' = retained
      BY <1>1, <1>9 DEF Interrupted, Goto
    <2>2. job[d].outcome = "failed" /\ retained[a].state = "frozen"
      BY <1>2, <2>1 DEF DispatchInv
    <2>3. Complete(EvidenceOf(d))'
      BY <2>1, <2>2 DEF Complete, EvidenceOf
    <2>4. DispatchInv(d)'
      BY <1>4, <1>5, <1>6, <2>1, <2>2, <2>3 DEF DispatchInv, Working, OperationOf
    <2>5. QED
      BY <1>3, <1>4, <2>1, <2>4
  <1>10. CASE RetainResult(d)
    <2> DEFINE kept == [state |-> "result", result |-> EvidenceOf(d)]
    <2>1. /\ pc[d] = "ran" /\ pc'[d] = "recording" /\ job' = job
          /\ retained' = [retained EXCEPT ![a] = kept]
      BY <1>1, <1>10 DEF RetainResult, Goto
    <2>2. Complete(EvidenceOf(d))
      BY <1>2, <2>1 DEF DispatchInv
    <2>3. EvidenceOf(d)' = EvidenceOf(d)
      BY <2>1 DEF EvidenceOf
    <2>4. retained'[a] = kept
      BY <1>1, <1>4, <2>1
    <2>5. DispatchInv(d)'
      BY <1>4, <1>5, <1>6, <2>1, <2>2, <2>3, <2>4
         DEF DispatchInv, Working, OperationOf, Complete
    <2>6. QED
      BY <1>3, <1>4, <2>1, <2>5
  <1>11. QED
    BY <1>7, <1>8, <1>9, <1>10

\* The step of one dispatcher does not move the others.
Moves(d) ==
  \/ \E a \in Actions : Start(d, a)
  \/ Reserve(d) \/ Freeze(d) \/ RunPhase(d) \/ Interrupted(d)
  \/ RetainResult(d) \/ RecordResult(d) \/ GiveUp(d) \/ DiesPublishing(d)

LEMMA OneMoves ==
  ASSUME HeartbeatInv, [Next]_vars
  PROVE  \/ UNCHANGED <<pc, job, retained, spent>>
         \/ \E d \in Dispatchers :
              /\ Moves(d)
              /\ \A e \in Dispatchers \ {d} : pc'[e] = pc[e] /\ job'[e] = job[e]
  <1>1. /\ pc \in [Dispatchers -> {"idle", "reserving", "reserved", "running", "ran",
                                   "recording"}]
        /\ job \in [Dispatchers -> [action : Actions \cup {None}, head : Nat,
                                    phases : 0..2, outcome : Outcomes]]
    BY DEF HeartbeatInv, TypeOK
  <1>2. \/ UNCHANGED <<pc, job, retained, spent>>
        \/ \E d \in Dispatchers : Moves(d)
    BY DEF Next, vars, Authorize, Reconcile, Review, Controls, Tidy, Moves
  <1>3. ASSUME NEW d \in Dispatchers, Moves(d), NEW e \in Dispatchers \ {d}
        PROVE  pc'[e] = pc[e]
    BY <1>1, <1>3 DEF Moves, Start, Reserve, Freeze, RunPhase, Interrupted,
                      RetainResult, RecordResult, GiveUp, DiesPublishing, Goto
  <1>4. ASSUME NEW d \in Dispatchers, Moves(d), NEW e \in Dispatchers \ {d}
        PROVE  job'[e] = job[e]
    BY <1>1, <1>4 DEF Moves, Start, Reserve, Freeze, RunPhase, Interrupted,
                      RetainResult, RecordResult, GiveUp, DiesPublishing
  <1>5. QED
    BY <1>2, <1>3, <1>4

\* What a dispatcher relies on is not changed by another.
LEMMA KeptElsewhere ==
  ASSUME HeartbeatInv, [Next]_vars, NEW e \in Dispatchers, pc'[e] = pc[e],
         pc[e] \in Working \cup {"recording"}
  PROVE  retained'[job[e].action] = retained[job[e].action]
  <1> DEFINE a == job[e].action
  <1>1. pc[e] # "idle"
    BY DEF Working
  <1>2. a \in Actions
    BY <1>1, JobTyped
  <1> HIDE DEF a
  <1>3. SUFFICES ASSUME retained'[a] # retained[a]
                 PROVE  FALSE
    BY DEF a
  <1>4. PICK d \in Dispatchers :
          /\ pc[d] \in {"reserved", "ran"} /\ job[d].action = a
          /\ Freeze(d) \/ RetainResult(d) \/ DiesPublishing(d)
    BY <1>2, <1>3, RetainedStep
  <1>5. pc'[d] # pc[d]
    <2>1. pc \in [Dispatchers -> {"idle", "reserving", "reserved", "running", "ran",
                                  "recording"}]
      BY DEF HeartbeatInv, TypeOK
    <2>2. QED
      BY <1>4, <2>1 DEF Freeze, RetainResult, DiesPublishing, Goto
  <1>6. pc[d] \in Working
    BY <1>4 DEF Working
  <1>7. d # e
    BY <1>5
  <1>8. QED
    BY <1>4, <1>6, <1>7, Apart DEF a

LEMMA DispatchStep ==
  ASSUME HeartbeatInv, [Next]_vars
  PROVE  \A d \in Dispatchers : DispatchInv(d)'
  <1>1. ASSUME NEW d \in Dispatchers, pc'[d] = pc[d], job'[d] = job[d]
        PROVE  DispatchInv(d)'
    BY <1>1, KeptElsewhere, Elsewhere
  <1>2. ASSUME NEW d \in Dispatchers, Moves(d)
        PROVE  DispatchInv(d)'
    <2>1. CASE \E a \in Actions : Start(d, a)
      BY <2>1, StartStep
    <2>2. CASE Reserve(d)
      <3> DEFINE a == job[d].action
      <3>1. /\ pc'[d] = "reserved" /\ a \in Actions /\ job'[d].action = a
            /\ job'[d].phases = 0 /\ job'[d].outcome = "failed"
            /\ retained'[a].state = "absent"
            /\ Unresolved(State(records'), Plan[a].operation)
            /\ State(records').grants[Plan[a].operation] = a
        BY <2>2, ReserveStep
      <3>2. QED
        BY <3>1 DEF DispatchInv, Working, Now, OperationOf, MatchesGrant
    <2>3. CASE Freeze(d) \/ RunPhase(d) \/ Interrupted(d) \/ RetainResult(d)
      BY <2>3, WorkStep
    <2>4. CASE RecordResult(d) \/ GiveUp(d) \/ DiesPublishing(d)
      <3>1. pc \in [Dispatchers -> {"idle", "reserving", "reserved", "running", "ran",
                                    "recording"}]
        BY DEF HeartbeatInv, TypeOK
      <3>2. pc'[d] = "idle"
        BY <2>4, <3>1 DEF RecordResult, GiveUp, DiesPublishing, Goto
      <3>3. QED
        BY <3>2, IdleStep
    <2>5. QED
      BY <1>2, <2>1, <2>2, <2>3, <2>4 DEF Moves
  <1>3. QED
    BY <1>1, <1>2, OneMoves

\* A dispatcher that begins to work was alone in reserving.
LEMMA BeginsToWork ==
  ASSUME HeartbeatInv, [Next]_vars, NEW d \in Dispatchers, Moves(d),
         pc'[d] \in Working
  PROVE  pc[d] \in Working \/ (Reserve(d) /\ \A e \in Dispatchers : pc[e] \notin Working)
  <1>1. pc \in [Dispatchers -> {"idle", "reserving", "reserved", "running", "ran",
                                "recording"}]
    BY DEF HeartbeatInv, TypeOK
  <1>2. CASE Reserve(d)
    <2>1. /\ records' = Append(records, Reservation(job[d].action))
          /\ Reservation(job[d].action) \in Event
      BY <1>2, ReserveStep
    <2>2. QED
      BY <1>2, <2>1, NobodyWorks
  <1>3. CASE Freeze(d) \/ RunPhase(d) \/ Interrupted(d) \/ RetainResult(d)
    BY <1>3, WorkStep
  <1>4. CASE (\E a \in Actions : Start(d, a)) \/ RecordResult(d) \/ GiveUp(d)
             \/ DiesPublishing(d)
    <2>1. pc'[d] \in {"idle", "reserving"}
      BY <1>1, <1>4 DEF Start, RecordResult, GiveUp, DiesPublishing, Goto
    <2>2. QED
      BY <2>1 DEF Working
  <1>5. QED
    BY <1>2, <1>3, <1>4 DEF Moves

LEMMA OneWorksStep ==
  ASSUME HeartbeatInv, [Next]_vars
  PROVE  OneWorks'
  <1>1. OneWorks
    BY DEF HeartbeatInv
  <1>2. CASE UNCHANGED <<pc, job, retained, spent>>
    BY <1>1, <1>2 DEF OneWorks
  <1>3. ASSUME NEW d \in Dispatchers, Moves(d),
               \A e \in Dispatchers \ {d} : pc'[e] = pc[e]
        PROVE  OneWorks'
    <2>1. pc'[d] \in Working =>
            pc[d] \in Working \/ \A e \in Dispatchers : pc[e] \notin Working
      BY <1>3, BeginsToWork
    <2>2. QED
      BY <1>1, <1>3, <2>1 DEF OneWorks
  <1>4. QED
    BY <1>2, <1>3, OneMoves

\* Something is kept only of what was granted and reserved, and it is whole.
LEMMA KeptStep ==
  ASSUME HeartbeatInv, [Next]_vars
  PROVE  KeptInv'
  <1>1. /\ KeptInv /\ Now \in Standing /\ StandingInv(Now)
        /\ retained \in [Actions -> [state : {"absent", "frozen", "result", "torn"},
                                     result : Evidence \cup {None}]]
    BY DEF HeartbeatInv, TypeOK
  <1>2. SUFFICES ASSUME NEW a \in Actions
        PROVE  /\ retained'[a].state # "absent" =>
                    /\ Plan[a].operation \in State(records').reserved
                    /\ State(records').grants[Plan[a].operation] = a
               /\ retained'[a].state # "result" => retained'[a].result = None
               /\ retained'[a].state = "result" =>
                    /\ retained'[a].result \in Evidence
                    /\ retained'[a].result.action = a /\ Complete(retained'[a].result)
    BY DEF KeptInv, Now, Complete, PhaseCount
  <1>3. CASE retained'[a] = retained[a]
    <2>1. retained[a].state # "absent" =>
            /\ Plan[a].operation \in State(records').reserved
            /\ State(records').grants[Plan[a].operation] = a
      <3>1. Now.reserved \subseteq State(records').reserved
        BY ChainStep DEF Continues
      <3>2. QED
        BY <1>1, <3>1, GrantsStand DEF KeptInv
    <2>2. QED
      BY <1>1, <1>3, <2>1 DEF KeptInv
  <1>4. CASE retained'[a] # retained[a]
    <2>1. PICK d \in Dispatchers :
           /\ pc[d] \in {"reserved", "ran"} /\ job[d].action = a
           /\ \/ Freeze(d) /\ retained'[a] = [retained[a] EXCEPT !.state = "frozen"]
              \/ /\ RetainResult(d)
                 /\ retained'[a] = [state |-> "result", result |-> EvidenceOf(d)]
              \/ /\ pc[d] = "ran" /\ DiesPublishing(d)
                 /\ retained'[a] = [retained[a] EXCEPT !.state = "torn"]
      BY <1>4, RetainedStep
    <2>2. DispatchInv(d) /\ pc[d] \in Working
      BY <2>1 DEF HeartbeatInv, Working
    <2>3. records' = records
      BY <2>2, NothingWhileWorking
    <2>4. Now.pending = [operation |-> Plan[a].operation, result |-> None]
          /\ Now.grants[Plan[a].operation] = a
      BY <2>1, <2>2 DEF DispatchInv, Unresolved, OperationOf, MatchesGrant, Now
    <2>5. Now.pending \in Unreviewed /\ Now.pending.operation = Plan[a].operation
      BY <2>4, ReservationTyped DEF Unreviewed
    <2>6. Plan[a].operation \in Now.reserved
      BY <1>1, <2>5, NoneAssumption DEF StandingInv
    <2>7. retained[a].state # "result" /\ retained[a].result = None
      BY <1>1, <2>1, <2>2 DEF DispatchInv, KeptInv
    <2>8. CASE retained'[a].state = "result"
      <3>1. retained'[a] = [state |-> "result", result |-> EvidenceOf(d)] /\ pc[d] = "ran"
        BY <1>1, <2>1, <2>8 DEF RetainResult
      <3>2. EvidenceOf(d) \in Evidence
        BY <2>1, JobTyped
      <3>3. Complete(EvidenceOf(d)) /\ EvidenceOf(d).action = a
        BY <2>1, <2>2, <3>1 DEF DispatchInv, EvidenceOf
      <3>4. QED
        BY <2>3, <2>4, <2>6, <3>1, <3>2, <3>3 DEF Now
    <2>9. CASE retained'[a].state # "result"
      <3>1. retained'[a].result = retained[a].result
        BY <1>1, <2>1, <2>9
      <3>2. QED
        BY <2>3, <2>4, <2>6, <2>7, <2>9, <3>1 DEF Now
    <2>10. QED
      BY <2>8, <2>9
  <1>5. QED
    BY <1>3, <1>4

-----------------------------------------------------------------------------
(* Amounts of the phases *)

LEMMA AllocationTyped ==
  ASSUME NEW a \in Actions, NEW n
  PROVE  Allocation(a, n) \in [Dimensions -> Nat]
  <1>1. Plan[a].run \in Run /\ Plan[a].compact \in Compact \cup {None}
    BY ReservationTyped
  <1>2. Plan[a].run.requests \in Nat /\ Plan[a].run.tokens \in Nat
    BY <1>1 DEF Run
  <1>3. Plan[a].compact # None => Plan[a].compact.tokens \in Nat
    BY <1>1 DEF Compact
  <1>4. \A p, q, r, t \in Nat :
          [attempts |-> p, requests |-> q, tokens |-> r, compactions |-> t]
            \in [Dimensions -> Nat]
    BY DEF Dimensions
  <1>5. QED
    BY <1>2, <1>3, <1>4 DEF Allocation

\* The phases of an action share out what was reserved for it.
LEMMA Shares ==
  ASSUME NEW a \in Actions
  PROVE  LET all == Envelope(Plan[a].run, Plan[a].compact)
         IN  /\ Plan[a].compact = None => Allocation(a, 0) = all
             /\ Plan[a].compact # None =>
                  all = Plus(Allocation(a, 0), Allocation(a, 1))
  <1>1. Plan[a].run \in Run /\ Plan[a].compact \in Compact \cup {None}
    BY ReservationTyped
  <1>2. Plan[a].run.requests \in Nat /\ Plan[a].run.tokens \in Nat
    BY <1>1 DEF Run
  <1>3. Plan[a].compact # None => Plan[a].compact.tokens \in Nat
    BY <1>1 DEF Compact
  <1>4. CASE Plan[a].compact = None
    BY <1>2, <1>4 DEF Allocation, Envelope
  <1>5. CASE Plan[a].compact # None
    <2> DEFINE p == Plan[a].run.requests
               q == Plan[a].run.tokens
               r == Plan[a].compact.tokens
    <2>1. /\ Allocation(a, 0) = [attempts |-> 0, requests |-> 1, tokens |-> r,
                                 compactions |-> 1]
          /\ Allocation(a, 1) = [attempts |-> 1, requests |-> p, tokens |-> q,
                                 compactions |-> 0]
          /\ Envelope(Plan[a].run, Plan[a].compact)
               = [attempts |-> 1, requests |-> p + 1, tokens |-> q + r,
                  compactions |-> 1]
      BY <1>5 DEF Allocation, Envelope
    <2>2. p \in Nat /\ q \in Nat /\ r \in Nat
      BY <1>2, <1>3, <1>5
    <2> HIDE DEF p, q, r
    <2>3. Plus(Allocation(a, 0), Allocation(a, 1))
            = [attempts |-> 1, requests |-> p + 1, tokens |-> q + r, compactions |-> 1]
      BY <2>1, <2>2 DEF Plus, Dimensions
    <2>4. QED
      BY <1>5, <2>1, <2>3
  <1>6. QED
    BY <1>4, <1>5

-----------------------------------------------------------------------------
(* Types *)

LEMMA TypeStep ==
  ASSUME HeartbeatInv, [Next]_vars
  PROVE  TypeOK'
  <1>1. /\ residue \in BOOLEAN
        /\ pc \in [Dispatchers -> {"idle", "reserving", "reserved", "running", "ran",
                                   "recording"}]
        /\ job \in [Dispatchers -> [action : Actions \cup {None}, head : Nat,
                                    phases : 0..2, outcome : Outcomes]]
        /\ retained \in [Actions -> [state : {"absent", "frozen", "result", "torn"},
                                     result : Evidence \cup {None}]]
        /\ spent \in [Dimensions -> Nat] /\ Tip \in Nat
    BY DEF HeartbeatInv, TypeOK, Tip
  <1>2. residue' \in BOOLEAN
    BY <1>1 DEF Next, vars, Authorize, Reconcile, Review, Controls, Tidy, Start,
                Reserve, Freeze, RunPhase, Interrupted, RetainResult, RecordResult,
                GiveUp, DiesPublishing, Appends, DiesAppending
  <1>3. pc' \in [Dispatchers -> {"idle", "reserving", "reserved", "running", "ran",
                                 "recording"}]
    BY <1>1, OneMoves DEF Moves, Start, Reserve, Freeze, RunPhase, Interrupted,
         RetainResult, RecordResult, GiveUp, DiesPublishing, Goto
  <1>4. NoJob \in [action : Actions \cup {None}, head : Nat, phases : 0..2,
                   outcome : Outcomes]
    BY DEF NoJob, Outcomes
  <1>5. job' \in [Dispatchers -> [action : Actions \cup {None}, head : Nat,
                                  phases : 0..2, outcome : Outcomes]]
    <2>1. ASSUME NEW d \in Dispatchers, Moves(d)
          PROVE  job' \in [Dispatchers -> [action : Actions \cup {None}, head : Nat,
                                           phases : 0..2, outcome : Outcomes]]
      <3>1. ASSUME NEW a \in Actions, Start(d, a)
            PROVE  job' \in [Dispatchers -> [action : Actions \cup {None}, head : Nat,
                                             phases : 0..2, outcome : Outcomes]]
        <4>1. [NoJob EXCEPT !.action = a, !.head = Tip]
                \in [action : Actions \cup {None}, head : Nat, phases : 0..2,
                     outcome : Outcomes]
          BY <1>1, <1>4
        <4>2. QED
          BY <1>1, <3>1, <4>1 DEF Start
      <3>2. CASE Reserve(d)
        BY <1>1, <3>2 DEF Reserve
      <3>3. CASE RunPhase(d)
        <4>1. job[d].phases < PhaseCount(job[d].action)
          BY <3>3 DEF RunPhase, HeartbeatInv, DispatchInv
        <4> DEFINE n == job[d].phases + 1
                   o == IF n = PhaseCount(job[d].action)
                        THEN "execution_completed" ELSE "failed"
        <4>2. n \in 0..2 /\ o \in Outcomes
          BY <1>1, <4>1 DEF PhaseCount, Outcomes
        <4> DEFINE next == [job[d] EXCEPT !.phases = n, !.outcome = o]
                   last == [job[d] EXCEPT !.phases = n]
        <4>3. \/ job' = [job EXCEPT ![d] = next]
              \/ job' = [job EXCEPT ![d] = last]
          BY <1>1, <3>3 DEF RunPhase
        <4> HIDE DEF n, o
        <4>4. /\ next \in [action : Actions \cup {None}, head : Nat, phases : 0..2,
                          outcome : Outcomes]
              /\ last \in [action : Actions \cup {None}, head : Nat, phases : 0..2,
                          outcome : Outcomes]
          BY <1>1, <4>2
        <4> HIDE DEF next, last
        <4>5. QED
          BY <1>1, <4>3, <4>4
      <3>4. CASE Freeze(d) \/ Interrupted(d) \/ RetainResult(d)
        BY <1>1, <3>4 DEF Freeze, Interrupted, RetainResult
      <3>5. CASE RecordResult(d) \/ GiveUp(d) \/ DiesPublishing(d)
        BY <1>1, <1>4, <3>5 DEF RecordResult, GiveUp, DiesPublishing
      <3>6. QED
        BY <2>1, <3>1, <3>2, <3>3, <3>4, <3>5 DEF Moves
    <2>2. QED
      BY <1>1, <2>1, OneMoves
  <1>6. retained' \in [Actions -> [state : {"absent", "frozen", "result", "torn"},
                                   result : Evidence \cup {None}]]
    <2>1. ASSUME NEW d \in Dispatchers, RetainResult(d)
          PROVE  retained' \in [Actions ->
                   [state : {"absent", "frozen", "result", "torn"},
                    result : Evidence \cup {None}]]
      <3>1. EvidenceOf(d) \in Evidence
        BY <2>1, JobTyped DEF RetainResult
      <3>2. QED
        BY <1>1, <2>1, <3>1 DEF RetainResult
    <2>2. ASSUME NEW d \in Dispatchers, Freeze(d) \/ DiesPublishing(d)
          PROVE  retained' \in [Actions ->
                   [state : {"absent", "frozen", "result", "torn"},
                    result : Evidence \cup {None}]]
      <3>1. \/ retained' = retained
            \/ retained' = [retained EXCEPT ![job[d].action].state = "frozen"]
            \/ retained' = [retained EXCEPT ![job[d].action].state = "torn"]
        BY <2>2 DEF Freeze, DiesPublishing
      <3>2. QED
        BY <1>1, <3>1
    <2>3. ASSUME NEW d \in Dispatchers,
                 \/ \E a \in Actions : Start(d, a)
                 \/ Reserve(d) \/ RunPhase(d) \/ Interrupted(d)
                 \/ RecordResult(d) \/ GiveUp(d)
          PROVE  retained' = retained
      BY <2>3 DEF Start, Reserve, RunPhase, Interrupted, RecordResult, GiveUp
    <2>4. QED
      BY <1>1, <2>1, <2>2, <2>3, OneMoves DEF Moves
  <1>7. spent' \in [Dimensions -> Nat]
    <2>1. ASSUME NEW d \in Dispatchers, RunPhase(d)
          PROVE  spent' \in [Dimensions -> Nat]
      <3>1. Allocation(job[d].action, job[d].phases) \in [Dimensions -> Nat]
        BY <2>1, JobTyped, AllocationTyped DEF RunPhase
      <3>2. QED
        BY <1>1, <2>1, <3>1, Amounts DEF RunPhase
    <2>2. QED
      BY <1>1, <2>1, OneMoves DEF Moves, Start, Reserve, Freeze, RetainResult,
           Interrupted, RecordResult, GiveUp, DiesPublishing
  <1>8. records' \in Seq(Event)
    BY ChainStep
  <1>9. QED
    BY <1>2, <1>3, <1>5, <1>6, <1>7, <1>8 DEF TypeOK

-----------------------------------------------------------------------------
(* What is spent *)

LEMMA WithinAdds ==
  ASSUME NEW a \in [Dimensions -> Nat], NEW b \in [Dimensions -> Nat],
         NEW c \in [Dimensions -> Nat]
  PROVE  /\ Within(a, b) /\ Within(b, c) => Within(a, c)
         /\ Within(a, b) => Within(Plus(a, c), Plus(b, c))
         /\ Within(b, c) => Within(Plus(a, b), Plus(a, c))
         /\ Within(Nothing, a) /\ Plus(a, Nothing) = a
         /\ Plus(Plus(a, b), c) = Plus(a, Plus(b, c))
  <1>1. \A d \in Dimensions : a[d] \in Nat /\ b[d] \in Nat /\ c[d] \in Nat
    OBVIOUS
  <1>2. Plus(Plus(a, b), c) = Plus(a, Plus(b, c))
    BY <1>1 DEF Plus
  <1>3. Plus(a, Nothing) = a
    BY <1>1 DEF Plus, Nothing
  <1>4. /\ Within(a, b) /\ Within(b, c) => Within(a, c)
        /\ Within(a, b) => Within(Plus(a, c), Plus(b, c))
        /\ Within(b, c) => Within(Plus(a, b), Plus(a, c))
        /\ Within(Nothing, a)
    BY <1>1 DEF Within, Plus, Nothing
  <1>5. QED
    BY <1>2, <1>3, <1>4

LEMMA LeftTyped ==
  ASSUME HeartbeatInv, NEW d \in Dispatchers, pc[d] \in Working
  PROVE  Left(d) \in [Dimensions -> Nat]
  <1>1. job[d].action \in Actions
    BY JobTyped DEF Working
  <1>2. QED
    BY <1>1, Amounts, AllocationTyped, ReservationTyped DEF Left

\* A phase takes its share of what was left.
LEMMA PhaseShare ==
  ASSUME HeartbeatInv, [Next]_vars, NEW d \in Dispatchers, RunPhase(d)
  PROVE  LET share == Allocation(job[d].action, job[d].phases)
         IN  /\ spent' = Plus(spent, share)
             /\ \/ Left(d)' = Nothing /\ Within(share, Left(d))
                \/ Left(d)' \in [Dimensions -> Nat] /\ Left(d) = Plus(share, Left(d)')
  <1> DEFINE a == job[d].action
             n == job[d].phases
             share == Allocation(a, n)
             more == Allocation(a, 1)
  <1>1. /\ a \in Actions /\ n \in 0..2 /\ n < PhaseCount(a)
        /\ pc[d] = "running"
    BY JobTyped DEF RunPhase, HeartbeatInv, DispatchInv
  <1>2. /\ spent' = Plus(spent, share) /\ pc'[d] \in {"running", "ran"}
        /\ pc'[d] = "running" => n + 1 # PhaseCount(a)
        /\ job'[d].action = a /\ job'[d].phases = n + 1
    BY DEF RunPhase, Goto, HeartbeatInv, TypeOK
  <1>3. share \in [Dimensions -> Nat] /\ more \in [Dimensions -> Nat]
    BY <1>1, AllocationTyped
  <1>4. Left(d) = IF n = 0 THEN Envelope(Plan[a].run, Plan[a].compact) ELSE more
    BY <1>1 DEF Left
  <1>5. Left(d)' = IF pc'[d] = "ran" THEN Nothing ELSE more
    BY <1>1, <1>2 DEF Left, Allocation, Nothing
  <1>6. Plan[a].compact = None => n = 0
    BY <1>1 DEF PhaseCount
  <1>7. pc'[d] = "running" => Plan[a].compact # None /\ n = 0
    BY <1>1, <1>2 DEF PhaseCount
  <1>8. CASE pc'[d] = "running"
    <2>1. Left(d) = Plus(share, more)
      BY <1>1, <1>4, <1>7, <1>8, Shares
    <2>2. Left(d)' = more
      BY <1>5, <1>8
    <2> HIDE DEF share, more
    <2>3. QED
      BY <1>2, <1>3, <2>1, <2>2 DEF share
  <1>9. CASE pc'[d] = "ran"
    <2>1. CASE n = 0 /\ Plan[a].compact = None
      BY <1>1, <1>2, <1>3, <1>4, <1>5, <1>9, <2>1, Shares, ChargesAdd
    <2>2. CASE n = 0 /\ Plan[a].compact # None
      <3>1. Left(d) = Plus(share, more)
        BY <1>1, <1>4, <2>2, Shares
      <3> HIDE DEF share, more
      <3>2. Within(share, Left(d))
        BY <1>3, <3>1, ChargesAdd
      <3>3. QED
        BY <1>2, <1>5, <1>9, <3>2 DEF share
    <2>3. CASE n # 0
      <3>1. share = more
        BY <2>3, <1>1 DEF Allocation
      <3>2. Within(share, Left(d))
        BY <1>3, <1>4, <2>3, <3>1, ChargesAdd
      <3>3. QED
        BY <1>2, <1>5, <1>9, <3>2
    <2>4. QED
      BY <1>6, <2>1, <2>2, <2>3
  <1>10. QED
    BY <1>2, <1>8, <1>9

LEMMA SpentStep ==
  ASSUME HeartbeatInv, [Next]_vars
  PROVE  SpentInv'
  <1> DEFINE c == Now.charged
             t == State(records').charged
  <1>1. /\ spent \in [Dimensions -> Nat] /\ c \in [Dimensions -> Nat]
        /\ t \in [Dimensions -> Nat] /\ Within(c, t)
    BY ChainStep DEF HeartbeatInv, TypeOK, Standing, Continues
  <1>2. /\ Within(spent, c)
        /\ \A d \in Dispatchers : pc[d] \in Working => Within(Plus(spent, Left(d)), c)
    BY DEF HeartbeatInv, SpentInv
  <1>3. SpentInv' <=> /\ Within(spent', t)
                      /\ \A d \in Dispatchers :
                           pc'[d] \in Working => Within(Plus(spent', Left(d)'), t)
    BY DEF SpentInv, Now, Within, Plus, Working
  <1> HIDE DEF c, t
  <1>4. ASSUME spent' = spent, NEW d \in Dispatchers, pc[d] \in Working,
               Left(d)' \in {Left(d), Nothing}
        PROVE  Within(Plus(spent', Left(d)'), t)
    <2>1. Left(d) \in [Dimensions -> Nat] /\ Nothing \in [Dimensions -> Nat]
      BY <1>4, LeftTyped, Amounts
    <2>2. Within(Plus(spent, Left(d)), c)
      BY <1>2, <1>4
    <2>3. Within(Left(d)', Left(d)) /\ Left(d)' \in [Dimensions -> Nat]
      BY <1>4, <2>1, WithinAdds, ChargesAdd
    <2>4. /\ Plus(spent, Left(d)) \in [Dimensions -> Nat]
          /\ Plus(spent, Left(d)') \in [Dimensions -> Nat]
      BY <1>1, <2>1, <2>3, Amounts
    <2>5. Within(Plus(spent, Left(d)'), Plus(spent, Left(d)))
      BY <1>1, <2>1, <2>3, WithinAdds
    <2>6. Within(Plus(spent, Left(d)'), c)
      BY <1>1, <2>2, <2>4, <2>5, WithinAdds
    <2>7. QED
      BY <1>1, <1>4, <2>4, <2>6, WithinAdds
  <1>5. spent' = spent => Within(spent', t)
    BY <1>1, <1>2, WithinAdds
  <1>6. ASSUME NEW d \in Dispatchers, pc'[d] = pc[d], job'[d] = job[d]
        PROVE  Left(d)' = Left(d)
    BY <1>6 DEF Left, Allocation, Envelope, Nothing
  <1>7. CASE UNCHANGED <<pc, job, retained, spent>>
    BY <1>3, <1>4, <1>5, <1>6, <1>7
  <1>8. ASSUME NEW d \in Dispatchers, Moves(d),
               \A e \in Dispatchers \ {d} : pc'[e] = pc[e] /\ job'[e] = job[e]
        PROVE  SpentInv'
    <2>1. pc \in [Dispatchers -> {"idle", "reserving", "reserved", "running", "ran",
                                  "recording"}]
      BY DEF HeartbeatInv, TypeOK
    <2>2. CASE Reserve(d)
      <3> DEFINE a == job[d].action
                 all == Envelope(Plan[a].run, Plan[a].compact)
      <3>1. /\ spent' = spent /\ pc'[d] = "reserved" /\ job'[d].action = a
            /\ job'[d].phases = 0 /\ a \in Actions
            /\ t = Plus(c, all) /\ records' = Append(records, Reservation(a))
            /\ Reservation(a) \in Event
        BY <2>2, ReserveStep DEF c, t
      <3>2. \A e \in Dispatchers : pc[e] \notin Working
        BY <3>1, NobodyWorks
      <3>3. Left(d)' = all
        BY <3>1 DEF Left, Envelope
      <3>4. all \in [Dimensions -> Nat]
        BY <3>1, Amounts, ReservationTyped
      <3> HIDE DEF a, all
      <3>5. Within(Plus(spent, all), t)
        BY <1>1, <1>2, <3>1, <3>4, WithinAdds
      <3>6. QED
        BY <1>3, <1>5, <1>8, <3>1, <3>2, <3>3, <3>5
    <2>3. CASE RunPhase(d)
      <3> DEFINE share == Allocation(job[d].action, job[d].phases)
      <3>1. pc[d] \in Working /\ job[d].action \in Actions
        BY <2>3, WorkStep
      <3>2. share \in [Dimensions -> Nat] /\ Left(d) \in [Dimensions -> Nat]
            /\ Nothing \in [Dimensions -> Nat]
        BY <3>1, AllocationTyped, LeftTyped, Amounts
      <3>3. /\ spent' = Plus(spent, share)
            /\ \/ Left(d)' = Nothing /\ Within(share, Left(d))
               \/ Left(d)' \in [Dimensions -> Nat] /\ Left(d) = Plus(share, Left(d)')
        BY <2>3, PhaseShare
      <3> HIDE DEF share
      <3>4. Within(Plus(spent, Left(d)), c) /\ Plus(spent, Left(d)) \in [Dimensions -> Nat]
        BY <1>1, <1>2, <3>1, <3>2, Amounts
      <3>5. spent' \in [Dimensions -> Nat]
        BY <1>1, <3>2, <3>3, Amounts
      <3>6. /\ Within(spent', Plus(spent, Left(d)))
            /\ Within(Plus(spent', Left(d)'), Plus(spent, Left(d)))
            /\ Plus(spent', Left(d)') \in [Dimensions -> Nat]
        <4>1. CASE Left(d)' = Nothing /\ Within(share, Left(d))
          BY <1>1, <3>2, <3>3, <3>5, <4>1, WithinAdds
        <4>2. CASE Left(d)' \in [Dimensions -> Nat] /\ Left(d) = Plus(share, Left(d)')
          <5>1. Plus(spent', Left(d)') = Plus(spent, Left(d))
            BY <1>1, <3>2, <3>3, <4>2, WithinAdds
          <5>2. QED
            BY <3>4, <3>5, <4>2, <5>1, ChargesAdd
        <4>3. QED
          BY <3>3, <4>1, <4>2
      <3>7. Within(spent', t) /\ Within(Plus(spent', Left(d)'), t)
        <4>1. Within(spent', c) /\ Within(Plus(spent', Left(d)'), c)
          BY <1>1, <3>4, <3>5, <3>6, WithinAdds
        <4>2. QED
          BY <1>1, <3>5, <3>6, <4>1, WithinAdds
      <3>8. \A e \in Dispatchers : pc[e] \in Working => e = d
        BY <3>1 DEF HeartbeatInv, OneWorks
      <3>9. QED
        BY <1>3, <1>8, <3>7, <3>8
    <2>4. CASE Freeze(d) \/ Interrupted(d) \/ RetainResult(d)
      <3>1. spent' = spent /\ job' = job
        BY <2>4 DEF Freeze, Interrupted, RetainResult
      <3>2. pc'[d] \in Working => Left(d)' \in {Left(d), Nothing}
        BY <2>1, <2>4, <3>1 DEF Freeze, Interrupted, RetainResult, Goto, Working,
                                Left, Allocation, Envelope, Nothing
      <3>3. pc[d] \in Working
        BY <2>4, WorkStep
      <3>4. QED
        BY <1>3, <1>4, <1>5, <1>6, <1>8, <3>1, <3>2, <3>3
    <2>5. CASE (\E a \in Actions : Start(d, a)) \/ RecordResult(d) \/ GiveUp(d)
               \/ DiesPublishing(d)
      <3>1. spent' = spent /\ pc'[d] \in {"idle", "reserving"}
        BY <2>1, <2>5 DEF Start, RecordResult, GiveUp, DiesPublishing, Goto
      <3>2. pc'[d] \notin Working
        BY <3>1 DEF Working
      <3>3. QED
        BY <1>3, <1>4, <1>5, <1>6, <1>8, <3>1, <3>2
    <2>6. QED
      BY <1>8, <2>2, <2>3, <2>4, <2>5 DEF Moves
  <1>9. QED
    BY <1>7, <1>8, OneMoves

-----------------------------------------------------------------------------
(* Results on the chain *)

\* A result that is kept is not replaced.
LEMMA ResultsStay ==
  ASSUME HeartbeatInv, [Next]_vars, NEW a \in Actions, retained[a].state = "result"
  PROVE  retained'[a] = retained[a]
  <1>1. SUFFICES ASSUME retained'[a] # retained[a]
                 PROVE  FALSE
    OBVIOUS
  <1>2. PICK d \in Dispatchers : pc[d] \in {"reserved", "ran"} /\ job[d].action = a
    BY <1>1, RetainedStep
  <1>3. DispatchInv(d)
    BY DEF HeartbeatInv
  <1>4. retained[a].state \in {"absent", "frozen"}
    BY <1>2, <1>3 DEF DispatchInv
  <1>5. QED
    BY <1>4

LEMMA EvidenceStep ==
  ASSUME HeartbeatInv, [Next]_vars
  PROVE  ResultsAreEvidence'
  <1> DEFINE Shown(h, s, i) ==
        LET e == h[i].result
        IN  /\ retained'[e.action].state = "result" /\ retained'[e.action].result = e
            /\ s.grants[h[i].operation] = e.action
            /\ Complete(e)
  <1>1. /\ records \in Seq(Event) /\ records' \in Seq(Event) /\ ResultsAreEvidence
        /\ StandingInv(Now) /\ KeptInv /\ Now = State(records)
    BY ChainStep DEF HeartbeatInv, TypeOK, Now
  <1>2. SUFFICES ASSUME NEW i \in DOMAIN records', records'[i].type = "result"
                 PROVE  Shown(records', State(records'), i)
    BY DEF ResultsAreEvidence, Result, Complete, PhaseCount
  <1>3. ASSUME i \in DOMAIN records, records'[i] = records[i]
        PROVE  Shown(records', State(records'), i)
    <2> DEFINE e == records[i].result
               a == e.action
               o == records[i].operation
    <2>1. records[i] \in Event /\ records[i].type = "result"
      BY <1>1, <1>2, <1>3
    <2>2. e \in Evidence /\ a \in Actions /\ o \in Operations
      BY <2>1 DEF Event, Evidence
    <2>3. Result(a) = e /\ Now.grants[o] = a /\ Complete(e)
      BY <1>1, <1>3, <2>1 DEF ResultsAreEvidence, Complete
    <2> HIDE DEF e, a, o
    <2>4. retained[a].state = "result" /\ retained[a].result = e
      BY <2>2, <2>3, NoneAssumption DEF Result
    <2>5. retained'[a] = retained[a]
      BY <2>2, <2>4, ResultsStay
    <2>6. Plan[a].operation = o
      BY <1>1, <2>2, <2>3, HeartbeatAssumption DEF StandingInv
    <2>7. State(records').grants[o] = a
      BY <2>2, <2>3, <2>6, GrantsStand
    <2>8. QED
      BY <1>3, <2>3, <2>4, <2>5, <2>7 DEF e, a, o
  <1>4. ASSUME NEW e \in Event, Owned(e), records' = Append(records, e),
               i \notin DOMAIN records
        PROVE  Shown(records', State(records'), i)
    <2>1. records'[i] = e /\ e.type = "result"
      BY <1>1, <1>2, <1>4
    <2>2. PICK a \in Actions : /\ retained[a].state = "result"
                               /\ e.result = retained[a].result
                               /\ e.operation = Plan[a].operation
                               /\ Now.grants[Plan[a].operation] = a
      BY <1>4, <2>1 DEF Owned
    <2>3. e.result.action = a /\ Complete(e.result)
      BY <1>1, <2>2 DEF KeptInv
    <2>4. retained'[a] = retained[a]
      BY <2>2, ResultsStay
    <2>5. State(records').grants[Plan[a].operation] = a
      BY <2>2, GrantsStand
    <2>6. QED
      BY <2>1, <2>2, <2>3, <2>4, <2>5
  <1>5. \/ records' = records
        \/ \E e \in Event : Owned(e) /\ records' = Append(records, e)
    BY RecordedStep
  <1>6. i \in DOMAIN records => records'[i] = records[i]
    BY <1>1, <1>5
  <1>7. QED
    BY <1>2, <1>3, <1>4, <1>5, <1>6

-----------------------------------------------------------------------------
(* A stopped task *)

\* StoppedStays, of any chain.
ReviewsIn(h, from, to) == {j \in (from + 1)..to : h[j].type = "review"}

Stands(h) ==
  \A i \in DOMAIN h : h[i].type = "reserve" =>
    /\ \A j \in ReviewsIn(h, 0, i) : h[j].decision # "accepted"
    /\ \A k \in 0..i :
         (\A j \in ReviewsIn(h, k, i) : h[j].decision = "no_progress") =>
            Cardinality(ReviewsIn(h, k, i)) < NoProgressLimit

LEMMA StandsAppend ==
  ASSUME NEW h \in Seq(Event), NEW s \in Standing, NEW e \in Event,
         AdmitsEvent(s, e), StreakInv(h, s), Stands(h)
  PROVE  Stands(Append(h, e))
  <1> DEFINE g == Append(h, e)
             n == Len(h)
  <1>1. /\ n \in Nat /\ g[n + 1] = e /\ DOMAIN g = 1..(n + 1) /\ DOMAIN h = 1..n
        /\ \A i \in 1..n : g[i] = h[i]
    OBVIOUS
  <1> HIDE DEF g, n
  <1>2. ASSUME NEW i \in 1..n, NEW k \in 0..i
        PROVE  ReviewsIn(g, k, i) = ReviewsIn(h, k, i)
    BY <1>1 DEF ReviewsIn
  <1>3. ASSUME NEW i \in 1..n, NEW k \in 0..i, NEW j \in ReviewsIn(g, k, i)
        PROVE  g[j] = h[j]
    BY <1>1 DEF ReviewsIn
  <1>4. ASSUME NEW i \in 1..n, g[i].type = "reserve"
        PROVE  /\ \A j \in ReviewsIn(g, 0, i) : g[j].decision # "accepted"
               /\ \A k \in 0..i :
                    (\A j \in ReviewsIn(g, k, i) : g[j].decision = "no_progress") =>
                      Cardinality(ReviewsIn(g, k, i)) < NoProgressLimit
    <2>1. /\ \A j \in ReviewsIn(h, 0, i) : h[j].decision # "accepted"
          /\ \A k \in 0..i :
               (\A j \in ReviewsIn(h, k, i) : h[j].decision = "no_progress") =>
                 Cardinality(ReviewsIn(h, k, i)) < NoProgressLimit
      BY <1>1, <1>4 DEF Stands
    <2>2. 0 \in 0..i
      BY <1>1
    <2>3. QED
      BY <1>2, <1>3, <2>1, <2>2
  <1>5. ASSUME e.type = "reserve"
        PROVE  /\ \A j \in ReviewsIn(g, 0, n + 1) : g[j].decision # "accepted"
               /\ \A k \in 0..(n + 1) :
                    (\A j \in ReviewsIn(g, k, n + 1) : g[j].decision = "no_progress") =>
                      Cardinality(ReviewsIn(g, k, n + 1)) < NoProgressLimit
    <2>1. MayAttempt(s)
      BY <1>5, ReserveEffect
    <2>2. /\ \A j \in DOMAIN h : h[j].type = "review" => h[j].decision # "accepted"
          /\ \A k \in 0..n :
               NoProgress(h, k) => Cardinality(ReviewsOf(h, k)) < NoProgressLimit
      BY <2>1, ReserveInTime DEF n
    <2>3. ASSUME NEW k \in 0..n
          PROVE  ReviewsIn(g, k, n + 1) = ReviewsOf(h, k)
      BY <1>1, <1>5 DEF ReviewsIn, ReviewsOf, n
    <2>4. \A j \in ReviewsIn(g, 0, n + 1) : g[j].decision # "accepted"
      BY <1>1, <1>5, <2>2 DEF ReviewsIn
    <2>5. ASSUME NEW k \in 0..n,
                 \A j \in ReviewsIn(g, k, n + 1) : g[j].decision = "no_progress"
          PROVE  Cardinality(ReviewsIn(g, k, n + 1)) < NoProgressLimit
      <3>1. NoProgress(h, k)
        BY <1>1, <2>5 DEF NoProgress, ReviewsIn, n
      <3>2. QED
        BY <2>2, <2>3, <3>1
    <2>6. Cardinality(ReviewsIn(g, n + 1, n + 1)) < NoProgressLimit
      <3>1. ReviewsIn(g, n + 1, n + 1) = {}
        BY <1>1 DEF ReviewsIn
      <3>2. Cardinality(ReviewsIn(g, n + 1, n + 1)) = 0
        BY <3>1, FS_EmptySet
      <3>3. NoProgressLimit \in Nat \ {0}
        BY HeartbeatAssumption
      <3>4. QED
        BY <3>2, <3>3
    <2>7. \A k \in 0..(n + 1) : k \in 0..n \/ k = n + 1
      BY <1>1
    <2>8. QED
      BY <2>4, <2>5, <2>6, <2>7
  <1>6. SUFFICES ASSUME NEW i \in 1..(n + 1), g[i].type = "reserve"
        PROVE  /\ \A j \in ReviewsIn(g, 0, i) : g[j].decision # "accepted"
               /\ \A k \in 0..i :
                    (\A j \in ReviewsIn(g, k, i) : g[j].decision = "no_progress") =>
                      Cardinality(ReviewsIn(g, k, i)) < NoProgressLimit
    BY <1>1 DEF Stands, g
  <1>7. CASE i = n + 1
    BY <1>1, <1>5, <1>6, <1>7
  <1>8. CASE i \in 1..n
    BY <1>4, <1>6, <1>8
  <1>9. QED
    BY <1>1, <1>7, <1>8

LEMMA StoppedStep ==
  ASSUME HeartbeatInv, [Next]_vars
  PROVE  StoppedStays'
  <1>1. /\ records \in Seq(Event) /\ Now \in Standing /\ StreakInv(records, Now)
        /\ Stands(records)
    BY DEF HeartbeatInv, TypeOK, StoppedStays, Stands, Reviews, ReviewsIn
  <1>2. Stands(records')
    BY <1>1, RecordedStep, StandsAppend
  <1>3. QED
    BY <1>2 DEF StoppedStays, Stands, Reviews, ReviewsIn

-----------------------------------------------------------------------------
(* The invariant and the theorems *)

LEMMA HeartbeatInit == Init => HeartbeatInv
  <1> SUFFICES ASSUME Init
                 PROVE  HeartbeatInv
    OBVIOUS
  <1>2. /\ records = <<>> /\ residue = FALSE
        /\ pc = [d \in Dispatchers |-> "idle"] /\ job = [d \in Dispatchers |-> NoJob]
        /\ retained = [a \in Actions |-> [state |-> "absent", result |-> None]]
        /\ spent = Nothing
    BY DEF Init
  <1>3. Now = Fresh
    BY <1>2, ReplayEmpty DEF Now
  <1>4. Nothing \in [Dimensions -> Nat]
    BY Amounts
  <1>5. TypeOK
    <2>1. NoJob \in [action : Actions \cup {None}, head : Nat, phases : 0..2,
                     outcome : Outcomes]
      BY DEF NoJob, Outcomes
    <2>2. <<>> \in Seq(Event)
      OBVIOUS
    <2>3. records \in Seq(Event) /\ residue \in BOOLEAN
      BY <1>2, <2>2
    <2>4. retained \in [Actions -> [state : {"absent", "frozen", "result", "torn"},
                                   result : Evidence \cup {None}]]
      BY <1>2
    <2>5. QED
      BY <1>2, <1>4, <2>1, <2>3, <2>4 DEF TypeOK
  <1>6. Now \in Standing
    BY <1>3, FreshStanding
  <1>7. StandingInv(Now)
    <2>1. Within(Nothing, Budget)
      BY HeartbeatAssumption DEF Within, Nothing
    <2>2. \A o \in Operations : Granted[o] # None => Plan[Granted[o]].operation = o
      BY HeartbeatAssumption
    <2>3. QED
      BY <1>3, <2>1, <2>2 DEF StandingInv, Fresh
  <1>8. KeptInv
    BY <1>2 DEF KeptInv
  <1>9. \A d \in Dispatchers : DispatchInv(d)
    BY <1>2 DEF DispatchInv, Working
  <1>10. OneWorks
    BY <1>2 DEF OneWorks, Working
  <1>11. SpentInv
    BY <1>2, <1>3, <1>4, ChargesAdd DEF SpentInv, Fresh, Working
  <1>12. StreakInv(records, Now)
    <2>1. Len(<<>>) = 0 /\ \A k \in 0..0 : k = 0
      OBVIOUS
    <2>2. Cardinality(ReviewsOf(<<>>, Len(<<>>))) = 0
      BY <2>1, ReviewsAtEnd
    <2>3. QED
      BY <1>2, <1>3, <2>1, <2>2 DEF StreakInv, Fresh
  <1>13. ResultsAreEvidence /\ StoppedStays
    BY <1>2 DEF ResultsAreEvidence, StoppedStays
  <1>14. QED
    BY <1>5, <1>6, <1>7, <1>8, <1>9, <1>10, <1>11, <1>12, <1>13 DEF HeartbeatInv

LEMMA HeartbeatStep == HeartbeatInv /\ [Next]_vars => HeartbeatInv'
  <1> SUFFICES ASSUME HeartbeatInv, [Next]_vars
                 PROVE  HeartbeatInv'
    OBVIOUS
  <1>2. State(records') \in Standing
    BY ChainStep
  <1>3. StandingInv(State(records'))
    BY ChainStep
  <1>4. StreakInv(records', State(records'))
    BY ChainStep
  <1>5. TypeOK' /\ KeptInv' /\ OneWorks' /\ SpentInv'
    BY TypeStep, KeptStep, OneWorksStep, SpentStep
  <1>6. \A d \in Dispatchers : DispatchInv(d)'
    BY DispatchStep
  <1>7. ResultsAreEvidence' /\ StoppedStays'
    BY EvidenceStep, StoppedStep
  <1>8. (Now \in Standing)' /\ StandingInv(Now)' /\ StreakInv(records, Now)'
    BY <1>2, <1>3, <1>4 DEF Now, Standing, StandingInv, StreakInv, Within, NoProgress,
       ReviewsOf
  <1>9. QED
    BY <1>5, <1>6, <1>7, <1>8 DEF HeartbeatInv

LEMMA HeartbeatInvariant == Spec => []HeartbeatInv
  BY HeartbeatInit, HeartbeatStep, PTL DEF Spec

\* Records, directories, jobs and amounts keep their shape.
THEOREM HeartbeatTypes == Spec => []TypeOK
  <1>1. HeartbeatInv => TypeOK
    BY DEF HeartbeatInv
  <1>2. QED
    BY <1>1, HeartbeatInvariant, PTL

\* replay charges an attempt in full before anything of it runs, so what the
\* phases use, in attempts that fail, die, overlap or are reconciled, is within
\* what the chain has charged, and that within the budget of the task.
THEOREM SpendingIsCharged == Spec => []SpentWithinBudget
  <1>1. HeartbeatInv => SpentWithinBudget
    BY DEF HeartbeatInv, SpentInv, StandingInv, SpentWithinBudget, Now
  <1>2. QED
    BY <1>1, HeartbeatInvariant, PTL

\* From the reservation execute has appended to the result file it retains, a
\* dispatcher works on the one unresolved attempt of the task and alone.
THEOREM ReservedAlone == Spec => []RunsUnderReservation
  <1>1. ASSUME HeartbeatInv, NEW d \in Dispatchers, pc[d] \in Working
        PROVE  /\ Unresolved(State(records), Plan[job[d].action].operation)
               /\ MatchesGrant(job[d].action)
               /\ \A e \in Dispatchers \ {d} : pc[e] \notin Working
    <2>1. DispatchInv(d) /\ OneWorks
      BY <1>1 DEF HeartbeatInv
    <2>2. \A e \in Dispatchers \ {d} : pc[e] \notin Working
      BY <1>1, <2>1 DEF OneWorks
    <2>3. QED
      BY <1>1, <2>1, <2>2 DEF DispatchInv, Now, OperationOf
  <1>2. HeartbeatInv => RunsUnderReservation
    BY <1>1 DEF RunsUnderReservation, Working
  <1>3. QED
    BY <1>2, HeartbeatInvariant, PTL

\* What execute or reconcile records as a result is the file the dispatcher of
\* the granted action retained, which nothing replaces afterwards.
THEOREM ChainHasEvidence == Spec => []ResultsAreEvidence
  <1>1. HeartbeatInv => ResultsAreEvidence
    BY DEF HeartbeatInv
  <1>2. QED
    BY <1>1, HeartbeatInvariant, PTL

\* The streak and the acceptance that replay computes stop a task for good: no
\* reservation is recorded where reviews have exhausted the limit, or accepted.
THEOREM StopIsFinal == Spec => []StoppedStays
  <1>1. HeartbeatInv => StoppedStays
    BY DEF HeartbeatInv
  <1>2. QED
    BY <1>1, HeartbeatInvariant, PTL
=============================================================================
