-------------------------- MODULE OwnerControlProofs --------------------------
(***************************************************************************)
(* Theorems about OwnerControl for any requests, operations, connections   *)
(* and challenges.  The private journal numbers the requests: an effect    *)
(* belongs to the last intent at the time it happens, so that neither a    *)
(* relay that repeats and reorders frames nor a new connection can bring   *)
(* about one out of turn.                                                  *)
(***************************************************************************)
EXTENDS OwnerControl, OperationLogProofs, TLAPS

-----------------------------------------------------------------------------
(* The inductive invariant *)

\* Frames are told apart by their request.
SealedOnce == \A f, g \in sealed : f.request = g.request => f = g

Request(h, i) == h[i].control.request
Sequence(h, i) == h[i].control.sequence

\* The requests of a control journal are numbered in order and told apart, and
\* there is a last one.
Numbered(h) ==
  /\ \A i, j \in Intents(h) : i < j => Sequence(h, i) < Sequence(h, j)
  /\ \A i, j \in Intents(h) : Request(h, i) = Request(h, j) => i = j
  /\ Intents(h) = {} \/ \E m \in Intents(h) : \A i \in Intents(h) : i =< m

LogInv == Coherent(log) /\ Numbered(log)

\* The request in hand is sealed; once begun it is the last in the journal.
Dispatched == {"begun", "entered", "applied", "resulted", "finished"}

IsLast(h, i) == \A j \in Intents(h) : j =< i

ServingInv ==
  serving # None =>
    /\ serving.frame \in sealed
    /\ serving.step \in Dispatched =>
         /\ serving.op \in Operations
         /\ \E i \in Intents(log) :
              /\ IsLast(log, i) /\ log[i].op = serving.op
              /\ Request(log, i) = serving.frame.request
              /\ Sequence(log, i) = serving.frame.sequence
    /\ serving.step \in {"begun", "entered"} =>
         \A k \in DOMAIN effects : effects[k].sequence < serving.frame.sequence
    /\ serving.step \in {"applied", "resulted", "finished"} =>
         \E k \in DOMAIN effects : effects[k] = serving.frame
    /\ serving.step = "finished" => serving.op \in Settled(log)

\* Every effect is that of a sealed frame with an intent, and every settled
\* request had its effect.
EffectsInv ==
  /\ \A k \in DOMAIN effects :
       /\ effects[k] \in sealed
       /\ \E i \in Intents(log) : Request(log, i) = effects[k].request
                                    /\ Sequence(log, i) = effects[k].sequence
  /\ \A i \in Intents(log) : log[i].op \in Settled(log) =>
       \E k \in DOMAIN effects : effects[k].request = Request(log, i)

\* An answer rests on what the journal holds for good.
RepliesInv ==
  \A a \in replies : \E i \in Intents(log) :
    /\ Request(log, i) = a.request
    /\ a.answer \in {"receipt", "completed"} => log[i].op \in Settled(log)

\* Nothing is served while the reader waits for a connection or has gone, nor
\* after the run's thread has fetched a Requests object that was replaced; the
\* reader has gone when the listening has ended.
EndingInv ==
  /\ reader # "reading" => serving = None
  /\ closing # None => stop
  /\ revoked => closing # None
  /\ closing # None /\ closing # connection => serving = None
  /\ revoked /\ ~requests.closed => serving = None
  /\ phase # "live" => reader = "gone"

\* A positive decision is that of an approval of the challenge that is open.
Approved(e, c) ==
  \E k \in DOMAIN e :
    e[k].method = "approve" /\ e[k].challenge = c /\ e[k].allow

ApprovalInv ==
  /\ approval.open => approval.asked # 0
  /\ approval.decision # None /\ approval.decision = TRUE => Approved(effects, approval.asked)
  /\ \A c \in allowed : Approved(effects, c)

ControlInv ==
  /\ TypeOK /\ SealedOnce /\ LogInv /\ ServingInv /\ EffectsInv /\ RepliesInv
  /\ EndingInv /\ ApprovalInv /\ EffectsInOrder /\ SteeringArrivesOnce

-----------------------------------------------------------------------------
(* Type correctness *)

\* The intent of a request in hand is a record of the control journal.
LEMMA IntentTyped ==
  ASSUME serving \in Serving, NEW o \in Operations
  PROVE  IntentFor(o) \in ControlIntent
  <1>1. serving.frame \in Frame
    BY DEF Serving
  <1>2. /\ serving.frame.request \in Requests
        /\ serving.frame.sequence \in 1..MaxSequence
        /\ serving.frame.method \in ControlMethods
    BY <1>1, ControlAssumption DEF Frame, ControlMethods
  <1>3. Binding \in Bindings /\ 1 \in 1..MaxRequestBytes
    BY ControlAssumption
  <1>4. QED
    BY <1>2, <1>3 DEF IntentFor, ControlIntent, Control

\* The outcome of a request that was begun is a record as well.
LEMMA OutcomeTyped ==
  ASSUME NEW o \in Operations
  PROVE  Completed(o) \in Outcome
  BY DEF Completed, Outcome, Outcomes

\* A control journal is a history in the sense of OperationLog.
LEMMA ControlHistory ==
  ASSUME NEW h \in Seq(ControlIntent \cup Outcome)
  PROVE  /\ h \in Seq(Record)
         /\ \A i \in Intents(h) : h[i] \in ControlIntent
  <1>1. h \in Seq(Record)
    BY DEF Record, Intent
  <1>2. \A i \in DOMAIN h : h[i] \in ControlIntent \cup Outcome
    OBVIOUS
  <1>3. QED
    BY <1>1, <1>2 DEF Intents, Outcome

\* The initial state has its types.
LEMMA InitTypes ==
  ASSUME Init
  PROVE  TypeOK
  <1>1. MaxSequence \in Nat /\ MaxConnections \in Nat /\ 1 =< MaxConnections
        /\ MaxChallenges \in Nat
    BY ControlAssumption, BoundsAssumption
  <1>2. connection \in 0..MaxConnections
    BY <1>1 DEF Init
  <1>3. requests \in [previous : 0..MaxSequence, used : Nat, closed : BOOLEAN]
    BY <1>1 DEF Init, FreshRequests
  <1>4. approval \in [asked : 0..MaxChallenges, open : BOOLEAN,
                     decision : BOOLEAN \cup {None}]
    BY <1>1 DEF Init
  <1>5. reader \in {"accepting", "reading", "gone"}
    BY DEF Init
  <1>6. /\ stop \in BOOLEAN /\ revoked \in BOOLEAN /\ cancelled \in BOOLEAN
        /\ log \in Seq(ControlIntent \cup Outcome) /\ effects \in Seq(Frame)
        /\ pending \in Seq(Requests) /\ taken \in Seq(Requests)
    <2>1. \A S : <<>> \in Seq(S)
      OBVIOUS
    <2>2. /\ stop = FALSE /\ revoked = FALSE /\ cancelled = FALSE
          /\ log = <<>> /\ effects = <<>> /\ pending = <<>> /\ taken = <<>>
      BY DEF Init
    <2>3. QED
      BY <2>1, <2>2
  <1>7. /\ attachment \in Attachments /\ sealed \subseteq Frame
        /\ phase \in {"live", "ended", "recovering"}
        /\ closing \in (0..MaxConnections) \cup {None}
        /\ serving \in Serving \cup {None}
        /\ allowed \subseteq 1..MaxChallenges /\ replies \subseteq Reply
    BY DEF Init
  <1>8. QED
    BY <1>2, <1>3, <1>4, <1>5, <1>6, <1>7 DEF TypeOK

\* Every action leaves the variables it does not name alone; these are the
\* actions that change the variables the invariant is about.
LEMMA ChangesLog ==
  ASSUME [Next]_vars
  PROVE  Begin \/ Finish \/ UNCHANGED log
  BY DEF Next, vars, Seal, Deliver, Reconcile, Reading, Enter, Apply, Result,
         Acknowledge, Raise, Leave, Accept, LoseConnection, Take, Require, Resume,
         SetStop, Ending, FetchRequests, CloseRequests, Join, Crash, Recover

LEMMA ChangesSealed ==
  ASSUME [Next]_vars
  PROVE  (\E f \in Frame : Seal(f)) \/ UNCHANGED sealed
  BY DEF Next, vars, Deliver, Reconcile, Reading, Enter, Begin, Apply, Result, Finish,
         Acknowledge, Raise, Leave, Accept, LoseConnection, Take, Require, Resume,
         SetStop, Ending, FetchRequests, CloseRequests, Join, Crash, Recover

LEMMA ChangesEffects ==
  ASSUME [Next]_vars
  PROVE  Apply \/ UNCHANGED effects
  BY DEF Next, vars, Seal, Deliver, Reconcile, Reading, Enter, Begin, Result, Finish,
         Acknowledge, Raise, Leave, Accept, LoseConnection, Take, Require, Resume,
         SetStop, Ending, FetchRequests, CloseRequests, Join, Crash, Recover

LEMMA ChangesReplies ==
  ASSUME [Next]_vars
  PROVE  Acknowledge \/ (\E q \in Requests : Reconcile(q)) \/ UNCHANGED replies
  BY DEF Next, vars, Seal, Deliver, Reading, Enter, Begin, Apply, Result, Finish,
         Raise, Leave, Accept, LoseConnection, Take, Require, Resume,
         SetStop, Ending, FetchRequests, CloseRequests, Join, Crash, Recover

LEMMA ChangesTexts ==
  ASSUME [Next]_vars
  PROVE  Apply \/ Take \/ UNCHANGED <<taken, pending>>
  BY DEF Next, vars, Seal, Deliver, Reconcile, Reading, Enter, Begin, Result, Finish,
         Acknowledge, Raise, Leave, Accept, LoseConnection, Require, Resume,
         SetStop, Ending, FetchRequests, CloseRequests, Join, Crash, Recover

LEMMA ChangesApproval ==
  ASSUME [Next]_vars
  PROVE  Apply \/ Require \/ Resume \/ Crash \/ UNCHANGED <<approval, allowed>>
  BY DEF Next, vars, Seal, Deliver, Reconcile, Reading, Enter, Begin, Result, Finish,
         Acknowledge, Raise, Leave, Accept, LoseConnection, Take,
         SetStop, Ending, FetchRequests, CloseRequests, Join, Recover

\* Serving ends, starts over with a frame, or goes on by a step of the reader.
LEMMA ChangesServing ==
  ASSUME [Next]_vars
  PROVE  \/ \E f \in sealed : Deliver(f)
         \/ Begin \/ Enter \/ Apply \/ Result \/ Finish
         \/ serving' = None
         \/ UNCHANGED <<serving, log, effects>>
  BY DEF Next, vars, Seal, Reconcile, Reading,
         Acknowledge, Raise, Drop, Leave, Accept, LoseConnection, Take, Require, Resume,
         SetStop, Ending, FetchRequests, CloseRequests, Join, Crash, Recover

\* The steps that service a request keep the types of the request in hand.
LEMMA ServiceTypes ==
  ASSUME TypeOK,
         \/ \E f \in sealed : Deliver(f)
         \/ Begin \/ Enter \/ Apply \/ Result \/ Finish \/ Acknowledge
  PROVE  TypeOK'
  <1>1. serving \in Serving \cup {None} /\ log \in Seq(ControlIntent \cup Outcome)
    BY DEF TypeOK
  <1>2. requests \in [previous : 0..MaxSequence, used : Nat, closed : BOOLEAN]
    BY DEF TypeOK
  <1>3. ASSUME NEW f \in sealed, Deliver(f)
        PROVE  TypeOK'
    <2>1. serving' \in Serving
      BY <1>3 DEF Deliver, Serving, Steps, TypeOK
    <2>2. QED
      BY <1>3, <2>1 DEF Deliver, TypeOK
  <1>4. ASSUME NEW s \in Steps, serving # None
        PROVE  [serving EXCEPT !.step = s] \in Serving
    BY <1>1, <1>4 DEF Serving
  <1>5. ASSUME serving # None
        PROVE  /\ serving \in Serving /\ serving.frame \in Frame
               /\ serving.frame.request \in Requests
               /\ serving.frame.sequence \in 1..MaxSequence
               /\ serving.frame.sequence - 1 \in 0..MaxSequence
               /\ serving.frame.allow \in BOOLEAN
    <2>1. serving \in Serving /\ serving.frame \in Frame
      BY <1>1, <1>5 DEF Serving
    <2>2. serving.frame.sequence \in 1..MaxSequence
      BY <2>1 DEF Frame
    <2>3. serving.frame.sequence - 1 \in 0..MaxSequence
      BY <2>2, BoundsAssumption
    <2>4. QED
      BY <2>1, <2>2, <2>3 DEF Frame
  <1>6. ASSUME Begin
        PROVE  TypeOK'
    <2>1. serving # None
      BY <1>6 DEF Begin, At
    <2>2. serving' \in Serving \cup {None}
      BY <1>6, <1>5, <2>1 DEF Begin, RejectedBeforeDispatch, Serving, Steps
    <2>3. log' \in Seq(ControlIntent \cup Outcome)
      <3>1. ASSUME NEW o \in Operations
            PROVE  Append(log, IntentFor(o)) \in Seq(ControlIntent \cup Outcome)
        BY <1>1, <1>5, <2>1, IntentTyped
      <3>2. QED
        BY <1>1, <1>6, <3>1 DEF Begin
    <2>4. requests' \in [previous : 0..MaxSequence, used : Nat, closed : BOOLEAN]
      <3>1. [requests EXCEPT !.previous = serving.frame.sequence - 1]
              \in [previous : 0..MaxSequence, used : Nat, closed : BOOLEAN]
        BY <1>2, <1>5, <2>1
      <3>2. QED
        BY <1>2, <1>6, <3>1 DEF Begin
    <2>5. QED
      BY <1>6, <2>2, <2>3, <2>4 DEF Begin, TypeOK
  <1>7. ASSUME Apply
        PROVE  TypeOK'
    <2>1. serving # None
      BY <1>7 DEF Apply, At
    <2>2. serving' \in Serving
      BY <1>7, <1>4, <2>1 DEF Apply, Goto, Steps
    <2>3. pending' \in Seq(Requests) /\ effects' \in Seq(Frame)
      BY <1>5, <1>7, <2>1 DEF Apply, TypeOK
    <2>4. approval' \in [asked : 0..MaxChallenges, open : BOOLEAN,
                         decision : BOOLEAN \cup {None}]
      BY <1>5, <1>7, <2>1 DEF Apply, TypeOK
    <2>5. cancelled' \in BOOLEAN
      BY <1>7 DEF Apply, TypeOK
    <2>6. QED
      BY <1>7, <2>2, <2>3, <2>4, <2>5 DEF Apply, TypeOK
  <1>8. ASSUME Result
        PROVE  TypeOK'
    <2>1. serving' \in Serving
      BY <1>8, <1>4 DEF Result, At, Goto, Steps
    <2>2. QED
      BY <1>8, <2>1 DEF Result, TypeOK
  <1>9. ASSUME Finish
        PROVE  TypeOK'
    <2>1. serving' \in Serving
      BY <1>9, <1>4 DEF Finish, At, Goto, Steps
    <2>2. log' \in Seq(ControlIntent \cup Outcome)
      <3>1. serving.op \in Open(log)
        BY <1>9 DEF Finish, Appendable, Admits, AdmitsOutcome, Completed
      <3>2. serving.op \in Operations
        <4>1. PICK i \in Intents(log) : log[i].op = serving.op
          BY <3>1 DEF Open, Begun
        <4>2. log[i] \in ControlIntent
          BY <1>1, ControlHistory
        <4>3. QED
          BY <4>1, <4>2 DEF ControlIntent
      <3>3. Completed(serving.op) \in ControlIntent \cup Outcome
        BY <3>2, OutcomeTyped
      <3>4. log' = Append(log, Completed(serving.op))
        BY <1>9 DEF Finish
      <3>5. QED
        BY <1>1, <3>3, <3>4
    <2>3. QED
      BY <1>9, <2>1, <2>2 DEF Finish, TypeOK
  <1>10. ASSUME Acknowledge
         PROVE  TypeOK'
    <2>1. replies' \subseteq Reply
      BY <1>5, <1>10 DEF Acknowledge, At, Answer, Reply, Answers, TypeOK
    <2>2. QED
      BY <1>10, <2>1 DEF Acknowledge, TypeOK
  <1>11. ASSUME Enter
         PROVE  TypeOK'
    <2>1. serving # None
      BY <1>11 DEF Enter, At
    <2>2. serving' \in Serving
      BY <1>11, <1>4, <2>1 DEF Enter, Goto, Steps
    <2>3. requests' \in [previous : 0..MaxSequence, used : Nat, closed : BOOLEAN]
      <3>1. serving.frame.sequence \in 0..MaxSequence /\ requests.used + 1 \in Nat
        BY <1>2, <1>5, <2>1, BoundsAssumption
      <3>2. requests' = [requests EXCEPT !.previous = serving.frame.sequence,
                                         !.used = requests.used + 1]
        BY <1>11 DEF Enter
      <3>3. QED
        BY <1>2, <3>1, <3>2
    <2>4. QED
      BY <1>11, <2>2, <2>3 DEF Enter, TypeOK
  <1>12. QED
    BY <1>3, <1>6, <1>7, <1>8, <1>9, <1>10, <1>11

\* So do all other steps.
LEMMA OtherTypes ==
  ASSUME TypeOK, ApprovalInv,
         \/ \E f \in Frame : Seal(f)
         \/ \E q \in Requests : Reconcile(q)
         \/ Raise \/ Leave \/ Accept \/ LoseConnection
         \/ Take \/ Require \/ Resume \/ SetStop \/ FetchRequests
         \/ CloseRequests \/ Join \/ Crash \/ Recover
         \/ UNCHANGED vars
  PROVE  TypeOK'
  <1>1. requests \in [previous : 0..MaxSequence, used : Nat, closed : BOOLEAN]
    BY DEF TypeOK
  <1>2. [requests EXCEPT !.closed = TRUE]
          \in [previous : 0..MaxSequence, used : Nat, closed : BOOLEAN]
    BY <1>1
  <1>3. approval \in [asked : 0..MaxChallenges, open : BOOLEAN,
                      decision : BOOLEAN \cup {None}]
    BY DEF TypeOK
  <1>4. [approval EXCEPT !.open = FALSE, !.decision = None]
          \in [asked : 0..MaxChallenges, open : BOOLEAN,
               decision : BOOLEAN \cup {None}]
    BY <1>3
  <1>5. ASSUME NEW f \in Frame, Seal(f)
        PROVE  TypeOK'
    BY <1>5 DEF Seal, TypeOK
  <1>6. ASSUME NEW q \in Requests, Reconcile(q)
        PROVE  TypeOK'
    <2>1. Observed(q) \in {"uncertain", "completed"}
      BY <1>6 DEF Reconcile, Observed
    <2>2. replies' \subseteq Reply
      BY <1>6, <2>1 DEF Reconcile, Answer, Reply, Answers, TypeOK
    <2>3. QED
      BY <1>6, <2>2 DEF Reconcile, TypeOK
  <1>7. ASSUME Raise \/ LoseConnection
        PROVE  TypeOK'
    <2>1. Drop /\ UNCHANGED <<attachment, log, sealed, phase, stop, connection,
                              closing, revoked, pending, taken, approval,
                              allowed, replies, effects>>
      BY <1>7 DEF Raise, LoseConnection
    <2>2. QED
      BY <1>2, <2>1 DEF Drop, LossIsCancel, TypeOK
  <1>8. CASE Leave
    BY <1>2, <1>8 DEF Leave, TypeOK
  <1>9. ASSUME Accept
        PROVE  TypeOK'
    <2>1. FreshRequests \in [previous : 0..MaxSequence, used : Nat, closed : BOOLEAN]
      BY BoundsAssumption DEF FreshRequests
    <2>2. connection' \in 0..MaxConnections
      BY <1>9, ControlAssumption DEF Accept, TypeOK
    <2>3. QED
      BY <1>9, <2>1, <2>2 DEF Accept, TypeOK
  <1>10. CASE Take
    BY <1>10 DEF Take, TypeOK
  <1>11. ASSUME Require
         PROVE  TypeOK'
    <2>1. approval' \in [asked : 0..MaxChallenges, open : BOOLEAN,
                         decision : BOOLEAN \cup {None}]
      <3>1. approval.asked + 1 \in 0..MaxChallenges
        BY <1>3, <1>11, ControlAssumption DEF Require
      <3>2. QED
        BY <1>11, <3>1 DEF Require
    <2>2. QED
      BY <1>11, <2>1 DEF Require, TypeOK
  <1>12. ASSUME Resume
         PROVE  TypeOK'
    <2>1. approval.asked \in 1..MaxChallenges
      BY <1>3, <1>12, ControlAssumption DEF Resume, ApprovalInv
    <2>2. allowed' \subseteq 1..MaxChallenges
      BY <1>12, <2>1 DEF Resume, TypeOK
    <2>3. QED
      BY <1>4, <1>12, <2>2 DEF Resume, TypeOK
  <1>13. CASE SetStop
    BY <1>13 DEF SetStop, TypeOK
  <1>14. CASE FetchRequests
    BY <1>14 DEF FetchRequests, TypeOK
  <1>15. ASSUME CloseRequests
         PROVE  TypeOK'
    <2>1. requests' \in [previous : 0..MaxSequence, used : Nat, closed : BOOLEAN]
      BY <1>1, <1>2, <1>15 DEF CloseRequests
    <2>2. QED
      BY <1>15, <2>1 DEF CloseRequests, TypeOK
  <1>16. CASE Join
    BY <1>16 DEF Join, TypeOK
  <1>17. CASE Crash
    BY <1>2, <1>4, <1>17 DEF Crash, TypeOK
  <1>18. CASE Recover
    BY <1>18 DEF Recover, TypeOK
  <1>19. CASE UNCHANGED vars
    BY <1>19 DEF vars, TypeOK
  <1>20. QED
    BY <1>5, <1>6, <1>7, <1>8, <1>9, <1>10, <1>11, <1>12, <1>13, <1>14, <1>15,
       <1>16, <1>17, <1>18, <1>19

LEMMA TypesStep ==
  ASSUME TypeOK, ApprovalInv, [Next]_vars
  PROVE  TypeOK'
  BY ServiceTypes, OtherTypes DEF Next, Reading, Ending

-----------------------------------------------------------------------------
(* The control journal *)

\* What the journal tells of its intents is typed.
LEMMA IntentFacts ==
  ASSUME TypeOK
  PROVE  /\ log \in Seq(Record)
         /\ \A i \in Intents(log) :
              /\ i \in Nat /\ log[i].op \in Operations
              /\ Request(log, i) \in Requests /\ Sequence(log, i) \in Nat
  <1>1. log \in Seq(Record) /\ \A i \in Intents(log) : log[i] \in ControlIntent
    BY ControlHistory DEF TypeOK
  <1>2. \A i \in Intents(log) : i \in Nat
    BY <1>1 DEF Intents
  <1>3. \A i \in Intents(log) : log[i].op \in Operations /\ log[i].control \in Control
    BY <1>1 DEF ControlIntent
  <1>4. QED
    BY <1>1, <1>2, <1>3 DEF Request, Sequence, Control

\* A new request is numbered after the last one and told apart from all.
LEMMA IntentComesLast ==
  ASSUME TypeOK, LogInv, NEW o \in Operations, Appendable(log, IntentFor(o))
  PROVE  /\ \A i \in Intents(log) : Sequence(log, i) < serving.frame.sequence
         /\ \A i \in Intents(log) : Request(log, i) # serving.frame.request
  <1> DEFINE r == IntentFor(o)
  <1>1. /\ r.type = "intent" /\ r.kind = "owner_control"
        /\ r.control.sequence = serving.frame.sequence
        /\ r.control.request = serving.frame.request
    BY DEF IntentFor
  <1>2. FreshControl(log, r)
    <2>1. AdmitsIntent(log, r)
      BY <1>1 DEF Appendable, Admits
    <2>2. QED
      BY <1>1, <2>1 DEF AdmitsIntent
  <1> HIDE DEF r
  <1>3. \A i \in Intents(log) : Request(log, i) # serving.frame.request
    BY <1>1, <1>2 DEF FreshControl, Request
  <1>4. ASSUME NEW i \in Intents(log)
        PROVE  Sequence(log, i) < serving.frame.sequence
    <2>1. PICK m \in Intents(log) : \A j \in Intents(log) : j =< m
      BY <1>4 DEF LogInv, Numbered
    <2>2. Max(Intents(log)) \in Intents(log)
          /\ \A j \in Intents(log) : j =< Max(Intents(log))
      BY <2>1 DEF Max, Intents
    <2>3. serving.frame.sequence = Sequence(log, Max(Intents(log))) + 1
      BY <1>1, <1>2, <1>4 DEF FreshControl, Sequence
    <2>4. /\ i = Max(Intents(log)) \/ i < Max(Intents(log))
          /\ Sequence(log, Max(Intents(log))) \in Nat /\ Sequence(log, i) \in Nat
      BY <2>2, <1>4, IntentFacts
    <2>5. Sequence(log, i) =< Sequence(log, Max(Intents(log)))
      BY <2>2, <2>4, <1>4 DEF LogInv, Numbered
    <2>6. QED
      BY <2>3, <2>4, <2>5
  <1>5. QED
    BY <1>3, <1>4

\* Appending an outcome or a new request that comes last keeps the numbering.
LEMMA AppendNumbered ==
  ASSUME NEW h \in Seq(Record), NEW r \in Record, Numbered(h),
         r.type = "intent" =>
           \A i \in Intents(h) : /\ Sequence(h, i) < r.control.sequence
                                 /\ Request(h, i) # r.control.request
  PROVE  Numbered(Append(h, r))
  <1> DEFINE g == Append(h, r)
             n == Len(h) + 1
  <1>1. /\ Intents(g) = Intents(h) \cup {i \in {n} : r.type = "intent"}
        /\ Intents(h) \subseteq 1..Len(h)
        /\ \A i \in 1..Len(h) : g[i] = h[i]
        /\ g[n] = r
        /\ Len(h) \in Nat /\ n = Len(h) + 1
    BY AppendReading, AppendFacts
  <1> HIDE DEF g, n
  <1>2. /\ \A i \in Intents(h) : /\ i < n /\ i \in Nat
                                 /\ Sequence(g, i) = Sequence(h, i)
                                 /\ Request(g, i) = Request(h, i)
        /\ Sequence(g, n) = r.control.sequence /\ Request(g, n) = r.control.request
        /\ n \in Nat
    BY <1>1 DEF Sequence, Request
  <1>3. \A i, j \in Intents(g) : i < j => Sequence(g, i) < Sequence(g, j)
    BY <1>1, <1>2 DEF Numbered
  <1>4. \A i, j \in Intents(g) : Request(g, i) = Request(g, j) => i = j
    BY <1>1, <1>2 DEF Numbered
  <1>5. Intents(g) = {} \/ \E m \in Intents(g) : \A i \in Intents(g) : i =< m
    BY <1>1, <1>2 DEF Numbered
  <1>6. QED
    BY <1>3, <1>4, <1>5 DEF Numbered, g

\* The journal changes by the intent of the request in hand, or by its outcome.
LEMMA LogStep ==
  ASSUME TypeOK, [Next]_vars
  PROVE  \/ UNCHANGED log
         \/ /\ Begin
            /\ \E o \in Operations :
                 /\ Appendable(log, IntentFor(o)) /\ IntentFor(o) \in Record
                 /\ log' = Append(log, IntentFor(o))
         \/ /\ Finish
            /\ Appendable(log, Completed(serving.op))
            /\ Completed(serving.op) \in Record
            /\ log' = Append(log, Completed(serving.op))
  <1>1. CASE Begin
    <2>1. serving \in Serving
      BY <1>1 DEF Begin, At, TypeOK
    <2>2. \A o \in Operations : IntentFor(o) \in Record
      BY <2>1, IntentTyped DEF Record, Intent
    <2>3. \/ UNCHANGED log
          \/ \E o \in Operations : /\ Appendable(log, IntentFor(o))
                                   /\ log' = Append(log, IntentFor(o))
      BY <1>1 DEF Begin
    <2>4. QED
      BY <1>1, <2>2, <2>3
  <1>2. CASE Finish
    <2>1. serving.op \in Open(log)
      BY <1>2 DEF Finish, Appendable, Admits, AdmitsOutcome, Completed
    <2>2. serving.op \in Operations
      BY <2>1, IntentFacts DEF Open, Begun
    <2>3. Completed(serving.op) \in Record
      BY <2>2, OutcomeTyped DEF Record
    <2>4. QED
      BY <1>2, <2>3 DEF Finish
  <1>3. QED
    BY <1>1, <1>2, ChangesLog

\* So the journal only ever grows by an admitted record, and a new request
\* comes last.
LEMMA LogGrows ==
  ASSUME TypeOK, LogInv, [Next]_vars
  PROVE  \/ log' = log
         \/ \E r \in Record :
              /\ Appendable(log, r) /\ log' = Append(log, r)
              /\ r.type = "intent" =>
                   \A i \in Intents(log) : /\ Sequence(log, i) < r.control.sequence
                                           /\ Request(log, i) # r.control.request
  <1>1. ASSUME NEW o \in Operations, Appendable(log, IntentFor(o))
        PROVE  \A i \in Intents(log) :
                 /\ Sequence(log, i) < IntentFor(o).control.sequence
                 /\ Request(log, i) # IntentFor(o).control.request
    <2>1. /\ IntentFor(o).control.sequence = serving.frame.sequence
          /\ IntentFor(o).control.request = serving.frame.request
      BY DEF IntentFor
    <2>2. QED
      BY <1>1, <2>1, IntentComesLast
  <1>2. \A o : Completed(o).type # "intent"
    BY DEF Completed
  <1>3. QED
    BY <1>1, <1>2, LogStep

\* The journal stays coherent, and its requests numbered and told apart; what
\* it says of a request and of a settled operation stays true.
LEMMA LogInvStep ==
  ASSUME TypeOK, LogInv, [Next]_vars
  PROVE  /\ LogInv'
         /\ Settled(log) \subseteq Settled(log')
         /\ Intents(log) \subseteq Intents(log')
         /\ \A i \in Intents(log) :
              /\ log'[i] = log[i]
              /\ Request(log', i) = Request(log, i)
              /\ Sequence(log', i) = Sequence(log, i)
  <1>1. CASE log' = log
    BY <1>1 DEF LogInv
  <1>2. ASSUME NEW r \in Record, Appendable(log, r), log' = Append(log, r),
               r.type = "intent" =>
                 \A i \in Intents(log) : /\ Sequence(log, i) < r.control.sequence
                                         /\ Request(log, i) # r.control.request
        PROVE  /\ Coherent(log') /\ Numbered(log')
               /\ Settled(log) \subseteq Settled(log')
               /\ Intents(log) \subseteq Intents(log')
               /\ \A i \in Intents(log) : log'[i] = log[i]
    <2>1. log \in Seq(Record) /\ Coherent(log) /\ Numbered(log)
      BY IntentFacts DEF LogInv
    <2>2. Coherent(log') /\ Settled(log) \subseteq Settled(log')
      BY <1>2, <2>1, AppendCoherent, AppendOpens
    <2>3. Numbered(log')
      BY <1>2, <2>1, AppendNumbered
    <2>4. Intents(log) \subseteq Intents(log') /\ Intents(log) \subseteq 1..Len(log)
      BY <1>2, <2>1, AppendReading
    <2>5. \A i \in 1..Len(log) : log'[i] = log[i]
      BY <1>2, <2>1, AppendFacts
    <2>6. QED
      BY <2>2, <2>3, <2>4, <2>5
  <1>3. QED
    BY <1>1, <1>2, LogGrows DEF LogInv, Request, Sequence

-----------------------------------------------------------------------------
(* The request in hand *)

\* A frame once sealed stays, and a new one has a request of its own.
LEMMA SealedStep ==
  ASSUME SealedOnce, [Next]_vars
  PROVE  SealedOnce' /\ sealed \subseteq sealed'
  <1>1. CASE UNCHANGED sealed
    BY <1>1 DEF SealedOnce
  <1>2. ASSUME NEW f \in Frame, Seal(f)
        PROVE  SealedOnce' /\ sealed \subseteq sealed'
    BY <1>2 DEF Seal, SealedOnce
  <1>3. QED
    BY <1>1, <1>2, ChangesSealed

\* What the run has done stays done.
LEMMA EffectsGrow ==
  ASSUME TypeOK, [Next]_vars
  PROVE  /\ DOMAIN effects \subseteq DOMAIN effects'
         /\ \A k \in DOMAIN effects : effects'[k] = effects[k]
         /\ effects \in Seq(Frame)
  <1>1. effects \in Seq(Frame)
    BY DEF TypeOK
  <1>2. CASE Apply
    <2>1. serving.frame \in Frame
      BY <1>2 DEF Apply, At, TypeOK, Serving
    <2>2. effects' = Append(effects, serving.frame)
      BY <1>2 DEF Apply
    <2>3. QED
      BY <1>1, <2>1, <2>2
  <1>3. CASE UNCHANGED effects
    BY <1>1, <1>3
  <1>4. QED
    BY <1>2, <1>3, ChangesEffects

\* The begun request becomes the last in the journal, after all that had an
\* effect.
LEMMA BeginServing ==
  ASSUME TypeOK, LogInv, ServingInv, EffectsInv, Begin
  PROVE  ServingInv'
  <1>1. serving \in Serving /\ serving.frame \in sealed /\ serving.step = "admitted"
    BY DEF Begin, At, TypeOK, ServingInv
  <1>2. effects' = effects /\ sealed' = sealed
    BY DEF Begin
  <1>3. ASSUME NEW o \in Operations, Appendable(log, IntentFor(o)),
               log' = Append(log, IntentFor(o)),
               serving' = [serving EXCEPT !.op = o, !.step = "begun"]
        PROVE  ServingInv'
    <2> DEFINE r == IntentFor(o)
               n == Len(log) + 1
    <2>1. r \in Record /\ r.type = "intent" /\ r.op = o
          /\ r.control.request = serving.frame.request
          /\ r.control.sequence = serving.frame.sequence
      BY <1>1, IntentTyped DEF IntentFor, Record, Intent
    <2>2. log \in Seq(Record) /\ log' = Append(log, r)
      BY <1>3, IntentFacts
    <2> HIDE DEF r
    <2>3. /\ n \in Intents(log') /\ log'[n] = r
          /\ \A i \in Intents(log') : i =< n
      BY <2>1, <2>2, AppendReading, AppendFacts
    <2>4. /\ serving'.frame = serving.frame /\ serving'.op = o
          /\ serving'.step = "begun"
      BY <1>1, <1>3 DEF Serving
    <2>5. \E i \in Intents(log') :
            /\ IsLast(log', i) /\ log'[i].op = serving'.op
            /\ Request(log', i) = serving'.frame.request
            /\ Sequence(log', i) = serving'.frame.sequence
      BY <2>1, <2>3, <2>4 DEF IsLast, Request, Sequence
    <2>6. \A k \in DOMAIN effects' : effects'[k].sequence < serving'.frame.sequence
      <3>1. \A i \in Intents(log) : Sequence(log, i) < serving.frame.sequence
        BY <1>3, IntentComesLast
      <3>2. QED
        BY <1>2, <2>4, <3>1 DEF EffectsInv
    <2>7. QED
      BY <1>1, <1>2, <2>4, <2>5, <2>6 DEF ServingInv
  <1>4. CASE serving' = None
    BY <1>4 DEF ServingInv
  <1>5. QED
    BY <1>3, <1>4 DEF Begin, RejectedBeforeDispatch

\* The request in hand goes on as its record and its effect allow.
LEMMA ServingStep ==
  ASSUME TypeOK, LogInv, ServingInv, EffectsInv, SealedOnce, [Next]_vars
  PROVE  ServingInv'
  <1>1. CASE serving' = None
    BY <1>1 DEF ServingInv
  <1>2. ASSUME UNCHANGED <<serving, log, effects>>
        PROVE  ServingInv'
    <2>1. sealed \subseteq sealed'
      BY SealedStep
    <2>2. QED
      BY <1>2, <2>1 DEF ServingInv
  <1>3. ASSUME NEW f \in sealed, Deliver(f)
        PROVE  ServingInv'
    BY <1>3 DEF Deliver, ServingInv, Dispatched
  <1>4. ASSUME NEW s \in Steps, serving # None, Goto(s)
        PROVE  /\ serving'.frame = serving.frame /\ serving'.op = serving.op
               /\ serving'.step = s
    BY <1>4 DEF Goto, TypeOK, Serving
  <1>5. ASSUME Apply
        PROVE  ServingInv'
    <2>1. /\ serving # None /\ serving.step = "entered"
          /\ serving'.frame = serving.frame /\ serving'.op = serving.op
          /\ serving'.step = "applied"
      BY <1>4, <1>5 DEF Apply, At, Steps
    <2>2. \E k \in DOMAIN effects' : effects'[k] = serving.frame
      <3>1. effects' = Append(effects, serving.frame) /\ effects \in Seq(Frame)
        BY <1>5, EffectsGrow DEF Apply, TypeOK
      <3>2. QED
        BY <3>1
    <2>3. log' = log /\ sealed' = sealed
      BY <1>5 DEF Apply
    <2>4. QED
      BY <2>1, <2>2, <2>3 DEF ServingInv, Dispatched
  <1>6. ASSUME Result
        PROVE  ServingInv'
    <2>1. /\ serving # None /\ serving.step = "applied"
          /\ serving'.frame = serving.frame /\ serving'.op = serving.op
          /\ serving'.step = "resulted"
      BY <1>4, <1>6 DEF Result, At, Steps
    <2>2. log' = log /\ sealed' = sealed /\ effects' = effects
      BY <1>6 DEF Result
    <2>3. QED
      BY <2>1, <2>2 DEF ServingInv, Dispatched
  <1>7. ASSUME Finish
        PROVE  ServingInv'
    <2>1. /\ serving # None /\ serving.step = "resulted"
          /\ serving'.frame = serving.frame /\ serving'.op = serving.op
          /\ serving'.step = "finished"
      BY <1>4, <1>7 DEF Finish, At, Steps
    <2>2. sealed' = sealed /\ effects' = effects
      BY <1>7 DEF Finish
    <2> DEFINE r == Completed(serving.op)
    <2>3. /\ r.type = "outcome" /\ r.outcome = "completed" /\ r.op = serving.op
      BY DEF Completed
    <2>4. r \in Record /\ log \in Seq(Record) /\ log' = Append(log, r)
      <3>1. serving.op \in Operations
        BY <2>1 DEF ServingInv, Dispatched
      <3>2. QED
        BY <1>7, <3>1, OutcomeTyped, IntentFacts DEF Finish, Record
    <2> HIDE DEF r
    <2>5. Intents(log') = Intents(log) /\ Intents(log) \subseteq 1..Len(log)
      BY <2>3, <2>4, AppendReading
    <2>6. \A i \in Intents(log) : log'[i] = log[i]
      BY <2>4, <2>5, AppendFacts
    <2>7. serving.op \in Settled(log')
      <3>1. Len(log) + 1 \in OutcomesIn(log') /\ log'[Len(log) + 1] = r
        BY <2>3, <2>4, AppendReading, AppendFacts
      <3>2. QED
        BY <2>3, <3>1 DEF Settled
    <2>8. PICK i \in Intents(log) :
            /\ IsLast(log, i) /\ log[i].op = serving.op
            /\ Request(log, i) = serving.frame.request
            /\ Sequence(log, i) = serving.frame.sequence
      BY <2>1 DEF ServingInv, Dispatched
    <2>9. /\ i \in Intents(log') /\ IsLast(log', i) /\ log'[i].op = serving.op
          /\ Request(log', i) = serving.frame.request
          /\ Sequence(log', i) = serving.frame.sequence
      BY <2>5, <2>6, <2>8 DEF IsLast, Request, Sequence
    <2>10. QED
      BY <2>1, <2>2, <2>7, <2>9 DEF ServingInv, Dispatched
  <1>8. CASE Begin
    BY <1>8, BeginServing
  <1>9. ASSUME Enter
        PROVE  ServingInv'
    <2>1. /\ serving # None /\ serving.step = "begun"
          /\ serving'.frame = serving.frame /\ serving'.op = serving.op
          /\ serving'.step = "entered"
      BY <1>4, <1>9 DEF Enter, At, Steps
    <2>2. log' = log /\ sealed' = sealed /\ effects' = effects
      BY <1>9 DEF Enter
    <2>3. QED
      BY <2>1, <2>2 DEF ServingInv, Dispatched
  <1>10. QED
    BY <1>1, <1>2, <1>3, <1>5, <1>6, <1>7, <1>8, <1>9, ChangesServing

-----------------------------------------------------------------------------
(* Effects, answers and the end of the listening *)

\* An operation settled by a step was settled before or is the one in hand.
LEMMA NewlySettled ==
  ASSUME TypeOK, LogInv, [Next]_vars
  PROVE  \/ \A i \in Intents(log') : log'[i].op \in Settled(log') =>
              i \in Intents(log) /\ log[i].op \in Settled(log)
         \/ /\ Finish /\ Intents(log') = Intents(log)
            /\ \A i \in Intents(log) : log'[i].op \in Settled(log') =>
                 log[i].op \in Settled(log) \/ log[i].op = serving.op
  <1>1. log \in Seq(Record) /\ Coherent(log)
    BY IntentFacts DEF LogInv
  <1>2. \A i \in Intents(log) : log'[i] = log[i]
    BY LogInvStep
  <1>3. Settled(log) \subseteq Begun(log)
    BY <1>1 DEF Coherent, OutcomeFollows, Settled, Begun
  <1>4. CASE log' = log
    BY <1>4
  <1>5. ASSUME NEW o \in Operations, Appendable(log, IntentFor(o)),
               IntentFor(o) \in Record, log' = Append(log, IntentFor(o))
        PROVE  \A i \in Intents(log') : log'[i].op \in Settled(log') =>
                 i \in Intents(log) /\ log[i].op \in Settled(log)
    <2>1. IntentFor(o).type = "intent" /\ IntentFor(o).op = o
      BY DEF IntentFor
    <2>2. Open(log') = Open(log) \cup {o} /\ Coherent(log')
      BY <1>1, <1>5, <2>1, AppendOpens, AppendCoherent
    <2>3. /\ Intents(log') = Intents(log) \cup {Len(log) + 1}
          /\ log'[Len(log) + 1] = IntentFor(o)
      BY <1>1, <1>5, <2>1, AppendReading, AppendFacts
    <2>4. \A i \in Intents(log') : log'[i].op \in Settled(log') =>
            log'[i].op \notin Open(log) /\ log'[i].op # o
      BY <2>2 DEF Open
    <2>5. ASSUME NEW i \in Intents(log'), log'[i].op \in Settled(log')
          PROVE  i \in Intents(log) /\ log[i].op \in Settled(log)
      <3>1. i \in Intents(log)
        BY <2>1, <2>3, <2>4, <2>5
      <3>2. log[i].op \in Begun(log) /\ log[i].op \notin Open(log)
        BY <1>2, <2>4, <2>5, <3>1 DEF Begun
      <3>3. QED
        BY <3>1, <3>2 DEF Open
    <2>6. QED
      BY <2>5
  <1>6. ASSUME Finish, Appendable(log, Completed(serving.op)),
               Completed(serving.op) \in Record,
               log' = Append(log, Completed(serving.op))
        PROVE  /\ Intents(log') = Intents(log)
               /\ \A i \in Intents(log) : log'[i].op \in Settled(log') =>
                    log[i].op \in Settled(log) \/ log[i].op = serving.op
    <2>1. /\ Completed(serving.op).type = "outcome"
          /\ Completed(serving.op).outcome # "uncertain"
          /\ Completed(serving.op).op = serving.op
      BY DEF Completed
    <2>2. Open(log') = Open(log) \ {serving.op}
      BY <1>1, <1>6, <2>1, AppendOpens
    <2>3. Intents(log') = Intents(log)
      <3> DEFINE r == Completed(serving.op)
      <3>1. r \in Record /\ r.type # "intent" /\ log' = Append(log, r)
        BY <1>6, <2>1
      <3> HIDE DEF r
      <3>2. Intents(log') = Intents(log) \cup {i \in {Len(log) + 1} : r.type = "intent"}
        BY <1>1, <3>1, AppendReading
      <3>3. QED
        BY <3>1, <3>2
    <2>4. ASSUME NEW i \in Intents(log), log'[i].op \in Settled(log'),
                 log[i].op # serving.op
          PROVE  log[i].op \in Settled(log)
      <3>1. log[i].op \notin Open(log)
        BY <1>2, <2>2, <2>4 DEF Open
      <3>2. QED
        BY <2>4, <3>1 DEF Open, Begun
    <2>5. QED
      BY <2>3, <2>4
  <1>7. QED
    BY <1>4, <1>5, <1>6, LogStep

\* Effects stay those of sealed and recorded requests, and what is settled
\* took place.
LEMMA EffectsStep ==
  ASSUME TypeOK, LogInv, ServingInv, EffectsInv, SealedOnce, [Next]_vars
  PROVE  EffectsInv'
  <1>1. /\ sealed \subseteq sealed'
        /\ Intents(log) \subseteq Intents(log')
        /\ \A i \in Intents(log) : /\ log'[i] = log[i]
                                   /\ Request(log', i) = Request(log, i)
                                   /\ Sequence(log', i) = Sequence(log, i)
    BY SealedStep, LogInvStep
  <1>2. \A k \in DOMAIN effects :
          k \in DOMAIN effects' /\ effects'[k] = effects[k]
    BY EffectsGrow
  <1>3. \A k \in DOMAIN effects' :
          /\ effects'[k] \in sealed
          /\ \E i \in Intents(log) : Request(log, i) = effects'[k].request
                                       /\ Sequence(log, i) = effects'[k].sequence
    <2>1. CASE effects' = effects
      BY <2>1 DEF EffectsInv
    <2>2. ASSUME Apply
          PROVE  \A k \in DOMAIN effects' :
                   /\ effects'[k] \in sealed
                   /\ \E i \in Intents(log) :
                        /\ Request(log, i) = effects'[k].request
                        /\ Sequence(log, i) = effects'[k].sequence
      <3>1. serving # None /\ serving.step = "entered"
            /\ effects' = Append(effects, serving.frame)
        BY <2>2 DEF Apply, At
      <3>2. /\ serving.frame \in sealed
            /\ \E i \in Intents(log) : Request(log, i) = serving.frame.request
                                         /\ Sequence(log, i) = serving.frame.sequence
        BY <3>1 DEF ServingInv, Dispatched
      <3>3. \A k \in DOMAIN effects' :
              k \in DOMAIN effects \/ effects'[k] = serving.frame
        BY <3>1, EffectsGrow
      <3>4. QED
        BY <1>2, <3>2, <3>3 DEF EffectsInv
    <2>3. QED
      BY <2>1, <2>2, ChangesEffects
  <1>4. ASSUME NEW i \in Intents(log'), log'[i].op \in Settled(log')
        PROVE  \E k \in DOMAIN effects' : effects'[k].request = Request(log', i)
    <2>1. CASE i \in Intents(log) /\ log[i].op \in Settled(log)
      BY <1>1, <1>2, <2>1 DEF EffectsInv
    <2>2. ASSUME Finish, i \in Intents(log), log[i].op = serving.op
          PROVE  \E k \in DOMAIN effects' : effects'[k].request = Request(log', i)
      <3>1. serving # None /\ serving.step = "resulted"
        BY <2>2 DEF Finish, At
      <3>2. \E k \in DOMAIN effects : effects[k] = serving.frame
        BY <3>1 DEF ServingInv
      <3>3. PICK j \in Intents(log) : log[j].op = serving.op
                                        /\ Request(log, j) = serving.frame.request
        BY <3>1 DEF ServingInv, Dispatched
      <3>4. i = j
        BY <2>2, <3>3 DEF LogInv, Coherent, BegunOnce
      <3>5. QED
        BY <1>1, <1>2, <2>2, <3>2, <3>3, <3>4
    <2>3. QED
      BY <1>4, <2>1, <2>2, NewlySettled
  <1>5. QED
    BY <1>1, <1>3, <1>4 DEF EffectsInv

\* Answers stay backed by the journal.
LEMMA RepliesStep ==
  ASSUME TypeOK, LogInv, ServingInv, RepliesInv, [Next]_vars
  PROVE  RepliesInv'
  <1>1. /\ Intents(log) \subseteq Intents(log')
        /\ Settled(log) \subseteq Settled(log')
        /\ \A i \in Intents(log) : log'[i] = log[i]
                                   /\ Request(log', i) = Request(log, i)
    BY LogInvStep
  <1>2. SUFFICES ASSUME NEW a \in replies', a \notin replies
                 PROVE  \E i \in Intents(log) :
                          /\ Request(log, i) = a.request
                          /\ a.answer \in {"receipt", "completed"} =>
                               log[i].op \in Settled(log)
    BY <1>1 DEF RepliesInv
  <1>3. CASE Acknowledge
    <2>1. /\ serving # None /\ serving.step = "finished"
          /\ a.request = serving.frame.request
      BY <1>2, <1>3 DEF Acknowledge, At, Answer
    <2>2. QED
      BY <2>1 DEF ServingInv, Dispatched
  <1>4. ASSUME NEW q \in Requests, Reconcile(q)
        PROVE  \E i \in Intents(log) :
                 /\ Request(log, i) = a.request
                 /\ a.answer \in {"receipt", "completed"} =>
                      log[i].op \in Settled(log)
    <2>1. a.request = q /\ a.answer = Observed(q) /\ Observed(q) # "not_observed"
      BY <1>2, <1>4 DEF Reconcile, Answer
    <2>2. PICK i \in Intents(log) : Request(log, i) = q
      BY <2>1 DEF Observed, Request
    <2>3. a.answer \in {"receipt", "completed"} => log[i].op \notin Open(log)
      BY <2>1, <2>2 DEF Observed, Request
    <2>4. log[i].op \in Begun(log)
      BY DEF Begun
    <2>5. QED
      BY <2>1, <2>2, <2>3, <2>4 DEF Open
  <1>5. QED
    BY <1>2, <1>3, <1>4, ChangesReplies

\* Nothing is served where the reader does not read, nor on what was closed.
LEMMA EndingStep ==
  ASSUME TypeOK, EndingInv, [Next]_vars
  PROVE  EndingInv'
  <1>1. requests \in [previous : 0..MaxSequence, used : Nat, closed : BOOLEAN]
    BY DEF TypeOK
  <1>2. ASSUME NEW f \in sealed, Deliver(f)
        PROVE  EndingInv'
    BY <1>2 DEF Deliver, Receptive, Authorized, EndingInv
  <1>3. ASSUME Begin
        PROVE  EndingInv'
    <2>1. serving # None
      BY <1>3 DEF Begin, At
    <2>2. requests'.closed = requests.closed
      <3>1. \A n : [requests EXCEPT !.previous = n].closed = requests.closed
        BY <1>1
      <3>2. QED
        BY <1>3, <3>1 DEF Begin
    <2>3. UNCHANGED <<phase, reader, closing, stop, revoked, connection>>
      BY <1>3 DEF Begin
    <2>4. QED
      BY <2>1, <2>2, <2>3 DEF EndingInv
  <1>4. ASSUME Enter \/ Apply \/ Result \/ Finish
        PROVE  EndingInv'
    <2>1. serving # None /\ UNCHANGED <<phase, reader, closing, stop, revoked, connection>>
      BY <1>4 DEF Enter, Apply, Result, Finish, At
    <2>2. requests'.closed = requests.closed
      BY <1>1, <1>4 DEF Enter, Apply, Result, Finish
    <2>3. QED
      BY <2>1, <2>2 DEF EndingInv
  <1>5. ASSUME serving' = None,
               UNCHANGED <<stop, closing, revoked>>,
               phase' # "live" => reader' = "gone"
        PROVE  EndingInv'
    BY <1>5 DEF EndingInv
  <1>6. CASE Acknowledge \/ Raise \/ LoseConnection \/ Crash
    <2>1. serving' = None /\ UNCHANGED <<stop, closing, revoked>>
      BY <1>6 DEF Acknowledge, Raise, LoseConnection, Drop, Crash
    <2>2. phase' # "live" => reader' = "gone"
      BY <1>6 DEF Acknowledge, Raise, LoseConnection, Crash, At, EndingInv
    <2>3. QED
      BY <1>5, <2>1, <2>2
  <1>7. CASE Leave \/ Accept
    <2>1. /\ serving' = None /\ UNCHANGED <<stop, closing, revoked>>
          /\ phase' # "live" => reader' = "gone"
      BY <1>7 DEF Leave, Accept, EndingInv
    <2>2. QED
      BY <1>5, <2>1
  <1>8. CASE SetStop
    BY <1>8 DEF SetStop, EndingInv
  <1>9. CASE FetchRequests
    BY <1>9 DEF FetchRequests, EndingInv
  <1>10. ASSUME CloseRequests
         PROVE  EndingInv'
    <2>1. UNCHANGED <<phase, reader, serving, closing, stop, connection>> /\ closing # None
      BY <1>10 DEF CloseRequests
    <2>2. closing = connection => requests'.closed = TRUE
      BY <1>1, <1>10 DEF CloseRequests
    <2>3. QED
      BY <2>1, <2>2 DEF EndingInv
  <1>11. ASSUME UNCHANGED <<phase, reader, serving, closing, stop, revoked, connection, requests>>
         PROVE  EndingInv'
    BY <1>11 DEF EndingInv
  <1>12. CASE \/ \E f \in Frame : Seal(f)
              \/ \E q \in Requests : Reconcile(q)
              \/ Take \/ Require \/ Resume \/ UNCHANGED vars
    BY <1>11, <1>12 DEF Seal, Reconcile, Take, Require, Resume, vars
  <1>13. CASE Join \/ Recover
    BY <1>13 DEF Join, Recover, EndingInv
  <1>14. QED
    BY <1>13, <1>2, <1>3, <1>4, <1>6, <1>7, <1>8, <1>9, <1>10, <1>12
       DEF Next, Reading, Ending

-----------------------------------------------------------------------------
(* Approvals and steering *)

\* An approval that took place stays.
LEMMA ApprovedStays ==
  ASSUME TypeOK, [Next]_vars, NEW c, Approved(effects, c)
  PROVE  Approved(effects', c)
  BY EffectsGrow DEF Approved

\* A decision is that of an approval of the open challenge.
LEMMA ApprovalStep ==
  ASSUME TypeOK, ApprovalInv, [Next]_vars
  PROVE  ApprovalInv'
  <1>1. approval \in [asked : 0..MaxChallenges, open : BOOLEAN,
                      decision : BOOLEAN \cup {None}]
    BY DEF TypeOK
  <1>2. \A c : Approved(effects, c) => Approved(effects', c)
    BY ApprovedStays
  <1>3. CASE UNCHANGED <<approval, allowed>>
    BY <1>2, <1>3 DEF ApprovalInv
  <1>4. CASE Require
    <2>1. /\ approval'.asked = approval.asked + 1 /\ approval'.decision = None
          /\ allowed' = allowed /\ approval.asked + 1 # 0
      BY <1>1, <1>4, ControlAssumption DEF Require
    <2>2. QED
      BY <1>2, <2>1 DEF ApprovalInv
  <1>5. CASE Crash
    <2>1. /\ approval'.open = FALSE /\ approval'.decision = None
          /\ allowed' = allowed
      BY <1>1, <1>5 DEF Crash
    <2>2. QED
      BY <1>2, <2>1 DEF ApprovalInv
  <1>6. ASSUME Resume
        PROVE  ApprovalInv'
    <2>1. approval'.open = FALSE /\ approval'.decision = None
      BY <1>1, <1>6 DEF Resume
    <2>2. \A c \in allowed' : c \in allowed \/ Approved(effects, c)
      <3>1. CASE ~cancelled /\ approval.decision
        <4>1. approval.decision # None /\ approval.decision = TRUE
          BY <1>1, <1>6, <3>1 DEF Resume
        <4>2. allowed' = allowed \cup {approval.asked}
          BY <1>6, <3>1 DEF Resume
        <4>3. QED
          BY <4>1, <4>2 DEF ApprovalInv
      <3>2. CASE ~(~cancelled /\ approval.decision)
        BY <1>6, <3>2 DEF Resume
      <3>3. QED
        BY <3>1, <3>2
    <2>3. QED
      BY <1>2, <2>1, <2>2 DEF ApprovalInv
  <1>7. ASSUME Apply
        PROVE  ApprovalInv'
    <2>1. CASE serving.frame.method # "approve"
      BY <1>2, <1>3, <1>7, <2>1 DEF Apply
    <2>2. ASSUME serving.frame.method = "approve"
          PROVE  ApprovalInv'
      <3>1. /\ approval'.asked = approval.asked /\ approval'.open = approval.open
            /\ approval'.decision = serving.frame.allow
            /\ allowed' = allowed
            /\ serving.frame.challenge = approval.asked
        BY <1>1, <1>7, <2>2 DEF Apply, HandlerAccepts
      <3>2. ASSUME serving.frame.allow
            PROVE  Approved(effects', approval.asked)
        <4>1. effects' = Append(effects, serving.frame) /\ effects \in Seq(Frame)
          BY <1>7 DEF Apply, TypeOK
        <4>2. PICK k \in DOMAIN effects' : effects'[k] = serving.frame
          BY <4>1
        <4>3. QED
          BY <2>2, <3>1, <3>2, <4>2 DEF Approved
      <3>3. QED
        BY <1>2, <3>1, <3>2 DEF ApprovalInv
    <2>3. QED
      BY <2>1, <2>2
  <1>8. QED
    BY <1>3, <1>4, <1>5, <1>6, <1>7, ChangesApproval

\* A new effect comes after the others and is that of a request of its own.
LEMMA ApplyComesLast ==
  ASSUME TypeOK, SealedOnce, ServingInv, EffectsInv, Apply
  PROVE  /\ serving.frame \in Frame /\ effects \in Seq(Frame)
         /\ effects' = Append(effects, serving.frame)
         /\ \A k \in DOMAIN effects :
              /\ effects[k].sequence < serving.frame.sequence
              /\ effects[k].request # serving.frame.request
  <1>1. /\ serving # None /\ serving.step = "entered" /\ serving \in Serving
        /\ effects' = Append(effects, serving.frame) /\ effects \in Seq(Frame)
    BY DEF Apply, At, TypeOK
  <1>2. serving.frame \in Frame /\ serving.frame \in sealed
    BY <1>1 DEF Serving, ServingInv
  <1>3. \A k \in DOMAIN effects : effects[k].sequence < serving.frame.sequence
    BY <1>1 DEF ServingInv
  <1>4. ASSUME NEW k \in DOMAIN effects, effects[k].request = serving.frame.request
        PROVE  FALSE
    <2>1. effects[k] = serving.frame
      BY <1>2, <1>4 DEF EffectsInv, SealedOnce
    <2>2. serving.frame.sequence \in Nat
      BY <1>2 DEF Frame
    <2>3. QED
      BY <1>3, <2>1, <2>2
  <1>5. QED
    BY <1>1, <1>2, <1>3, <1>4

\* Effects stay in the order of the numbers.
LEMMA OrderStep ==
  ASSUME TypeOK, SealedOnce, ServingInv, EffectsInv, EffectsInOrder, [Next]_vars
  PROVE  EffectsInOrder'
  <1>1. CASE UNCHANGED effects
    BY <1>1 DEF EffectsInOrder
  <1>2. ASSUME Apply
        PROVE  EffectsInOrder'
    <2>1. /\ effects' = Append(effects, serving.frame) /\ effects \in Seq(Frame)
          /\ \A k \in DOMAIN effects : effects[k].sequence < serving.frame.sequence
          /\ serving.frame \in Frame
      BY <1>2, ApplyComesLast
    <2>2. /\ DOMAIN effects' = 1..(Len(effects) + 1) /\ DOMAIN effects = 1..Len(effects)
          /\ \A k \in DOMAIN effects : effects'[k] = effects[k]
          /\ effects'[Len(effects) + 1] = serving.frame
          /\ Len(effects) \in Nat
      BY <2>1
    <2>3. QED
      BY <2>1, <2>2 DEF EffectsInOrder
  <1>3. QED
    BY <1>1, <1>2, ChangesEffects

\* The texts given and waiting match the accepted steering requests.
Accepts(e, g, i, j) == e[i].method = "steer" /\ e[i].request = g[j]

Matches(e, g) ==
  /\ \A i \in DOMAIN e : e[i].method = "steer" => \E j \in DOMAIN g : Accepts(e, g, i, j)
  /\ \A j \in DOMAIN g : \E i \in DOMAIN e : Accepts(e, g, i, j)
  /\ \A i, k \in DOMAIN e, j, l \in DOMAIN g :
       Accepts(e, g, i, j) /\ Accepts(e, g, k, l) => (i < k <=> j < l)

LEMMA MatchesIsSteering ==
  SteeringArrivesOnce <=> Matches(effects, taken \o pending)
  BY DEF SteeringArrivesOnce, Matches, Accepts

\* A further request of its own matches the text it appends, if it steers.
LEMMA AppendMatches ==
  ASSUME NEW e \in Seq(Frame), NEW g \in Seq(Requests), NEW f \in Frame,
         Matches(e, g), \A k \in DOMAIN e : e[k].request # f.request
  PROVE  IF f.method = "steer" THEN Matches(Append(e, f), Append(g, f.request))
                               ELSE Matches(Append(e, f), g)
  <1> DEFINE e2 == Append(e, f)
             g2 == Append(g, f.request)
             m == Len(e) + 1
             n == Len(g) + 1
  <1>1. /\ DOMAIN e2 = DOMAIN e \cup {m} /\ e2[m] = f
        /\ \A i \in DOMAIN e : i < m /\ i # m /\ i \in Nat /\ e2[i] = e[i]
        /\ m \in Nat
    OBVIOUS
  <1>2. /\ DOMAIN g2 = DOMAIN g \cup {n} /\ g2[n] = f.request
        /\ \A j \in DOMAIN g : j < n /\ j # n /\ j \in Nat /\ g2[j] = g[j]
        /\ n \in Nat
    BY DEF Frame
  <1>3. \A j \in DOMAIN g : g[j] # f.request
    BY DEF Matches, Accepts
  <1> HIDE DEF e2, g2, m, n
  <1>4. CASE f.method # "steer"
    <2>1. \A j : ~Accepts(e2, g, m, j)
      BY <1>1, <1>4 DEF Accepts
    <2>2. \A i \in DOMAIN e, j \in DOMAIN g : Accepts(e2, g, i, j) <=> Accepts(e, g, i, j)
      BY <1>1 DEF Accepts
    <2>3. \A i \in DOMAIN e2 : e2[i].method = "steer" =>
            i \in DOMAIN e /\ e[i].method = "steer"
      BY <1>1, <1>4
    <2>4. QED
      BY <1>1, <1>4, <2>1, <2>2, <2>3 DEF Matches, e2
  <1>5. CASE f.method = "steer"
    <2>1. Accepts(e2, g2, m, n)
      BY <1>1, <1>2, <1>5 DEF Accepts
    <2>2. \A j \in DOMAIN g : ~Accepts(e2, g2, m, j)
      BY <1>1, <1>2, <1>3 DEF Accepts
    <2>3. \A i \in DOMAIN e : ~Accepts(e2, g2, i, n)
      BY <1>1, <1>2 DEF Accepts
    <2>4. \A i \in DOMAIN e, j \in DOMAIN g :
            Accepts(e2, g2, i, j) <=> Accepts(e, g, i, j)
      BY <1>1, <1>2 DEF Accepts
    <2>5. \A i \in DOMAIN e2 : e2[i].method = "steer" =>
            \E j \in DOMAIN g2 : Accepts(e2, g2, i, j)
      <3>1. ASSUME NEW i \in DOMAIN e, e2[i].method = "steer"
            PROVE  \E j \in DOMAIN g2 : Accepts(e2, g2, i, j)
        BY <1>1, <1>2, <2>4, <3>1 DEF Matches
      <3>2. QED
        BY <1>1, <1>2, <2>1, <3>1
    <2>6. \A j \in DOMAIN g2 : \E i \in DOMAIN e2 : Accepts(e2, g2, i, j)
      <3>1. ASSUME NEW j \in DOMAIN g
            PROVE  \E i \in DOMAIN e2 : Accepts(e2, g2, i, j)
        BY <1>1, <2>4, <3>1 DEF Matches
      <3>2. QED
        BY <1>1, <1>2, <2>1, <3>1
    <2>7. ASSUME NEW i \in DOMAIN e2, NEW k \in DOMAIN e2,
                 NEW j \in DOMAIN g2, NEW l \in DOMAIN g2,
                 Accepts(e2, g2, i, j), Accepts(e2, g2, k, l)
          PROVE  i < k <=> j < l
      <3>1. (i = m <=> j = n) /\ (k = m <=> l = n)
        BY <1>1, <1>2, <2>2, <2>3, <2>7
      <3>2. CASE i \in DOMAIN e /\ k \in DOMAIN e
        <4>1. j \in DOMAIN g /\ l \in DOMAIN g
          BY <1>1, <1>2, <3>1, <3>2
        <4>2. QED
          BY <2>4, <2>7, <3>2, <4>1 DEF Matches
      <3>3. CASE i = m \/ k = m
        BY <1>1, <1>2, <3>1, <3>3
      <3>4. QED
        BY <1>1, <3>2, <3>3
    <2>8. QED
      BY <1>5, <2>5, <2>6, <2>7 DEF Matches, e2, g2
  <1>6. QED
    BY <1>4, <1>5

\* Texts are handed out as they wait, and wait as they are accepted.
LEMMA SteeringStep ==
  ASSUME TypeOK, SealedOnce, ServingInv, EffectsInv, SteeringArrivesOnce, [Next]_vars
  PROVE  SteeringArrivesOnce'
  <1>1. pending \in Seq(Requests) /\ taken \in Seq(Requests)
    BY DEF TypeOK
  <1>2. Matches(effects, taken \o pending)
    BY MatchesIsSteering
  <1>3. Matches(effects', taken' \o pending')
    <2>1. CASE UNCHANGED <<effects, taken, pending>>
      BY <1>2, <2>1
    <2>2. ASSUME Take
          PROVE  Matches(effects', taken' \o pending')
      <3>1. taken' = taken \o pending /\ pending' = <<>> /\ effects' = effects
        BY <2>2 DEF Take
      <3>2. taken' \o pending' = taken \o pending
        BY <1>1, <3>1
      <3>3. QED
        BY <1>2, <3>1, <3>2
    <2>3. ASSUME Apply
          PROVE  Matches(effects', taken' \o pending')
      <3>1. /\ serving.frame \in Frame /\ effects \in Seq(Frame)
            /\ effects' = Append(effects, serving.frame)
            /\ \A k \in DOMAIN effects : effects[k].request # serving.frame.request
        BY <2>3, ApplyComesLast
      <3>2. taken \o pending \in Seq(Requests) /\ serving.frame.request \in Requests
        BY <1>1, <3>1 DEF Frame
      <3>3. taken' = taken
            /\ pending' = IF serving.frame.method = "steer"
                            THEN Append(pending, serving.frame.request) ELSE pending
        BY <2>3 DEF Apply
      <3>4. taken \o Append(pending, serving.frame.request)
              = Append(taken \o pending, serving.frame.request)
        BY <1>1, <3>2
      <3>5. IF serving.frame.method = "steer"
              THEN Matches(effects', Append(taken \o pending, serving.frame.request))
              ELSE Matches(effects', taken \o pending)
        BY <1>2, <3>1, <3>2, AppendMatches
      <3>6. QED
        BY <3>3, <3>4, <3>5
    <2>4. QED
      BY <2>1, <2>2, <2>3, ChangesTexts, ChangesEffects DEF Take
  <1>4. QED
    BY <1>3 DEF SteeringArrivesOnce, Matches, Accepts

-----------------------------------------------------------------------------
(* The theorems *)

\* The invariant holds at the start, before anything is sealed or recorded.
LEMMA ControlInit ==
  ASSUME Init
  PROVE  ControlInv
  <1>1. TypeOK
    BY InitTypes
  <1>2. LogInv
    BY EmptyHistory DEF Init, LogInv, Numbered
  <1>3. SealedOnce /\ ServingInv /\ RepliesInv
    BY DEF Init, SealedOnce, ServingInv, RepliesInv
  <1>4. EffectsInv /\ EffectsInOrder
    BY EmptyHistory DEF Init, EffectsInv, EffectsInOrder
  <1>5. EndingInv
    BY DEF Init, EndingInv
  <1>6. ApprovalInv
    BY DEF Init, ApprovalInv
  <1>7. SteeringArrivesOnce
    <2>1. effects = <<>> /\ taken \o pending = <<>>
      BY DEF Init
    <2>2. QED
      BY <2>1 DEF SteeringArrivesOnce
  <1>8. QED
    BY <1>1, <1>2, <1>3, <1>4, <1>5, <1>6, <1>7 DEF ControlInv

\* Every step keeps it.
LEMMA ControlStep ==
  ASSUME ControlInv, [Next]_vars
  PROVE  ControlInv'
  <1>1. TypeOK' /\ SealedOnce' /\ LogInv' /\ ServingInv'
    BY TypesStep, SealedStep, LogInvStep, ServingStep DEF ControlInv
  <1>2. EffectsInv' /\ RepliesInv' /\ EndingInv' /\ ApprovalInv'
    BY EffectsStep, RepliesStep, EndingStep, ApprovalStep DEF ControlInv
  <1>3. EffectsInOrder' /\ SteeringArrivesOnce'
    BY OrderStep, SteeringStep DEF ControlInv
  <1>4. QED
    BY <1>1, <1>2, <1>3 DEF ControlInv

LEMMA ControlInvariant == Spec => []ControlInv
  BY ControlInit, ControlStep, PTL DEF Spec

\* Every state of the listener, its journal and its answers is typed.
THEOREM ControlTypes == Spec => []TypeOK
  <1>1. ControlInv => TypeOK
    BY DEF ControlInv
  <1>2. QED
    BY <1>1, ControlInvariant, PTL

\* However the untrusted relay repeats, delays and reorders sealed frames, and
\* whatever connections it opens, the handlers of dispatch_recorded take effect
\* in the strict order of the requests' numbers.
THEOREM OrderOfEffects == Spec => []EffectsInOrder
  <1>1. ControlInv => EffectsInOrder
    BY DEF ControlInv
  <1>2. QED
    BY <1>1, ControlInvariant, PTL

\* A receipt, or the answer "completed" of Journal.control_observation, means
\* that the handler had its effect and that the journal will always say so;
\* "uncertain" is only said of a request that was recorded.
LEMMA BackedAnswers ==
  ASSUME ControlInv
  PROVE  AnswersAreTrue
  <1>1. SUFFICES ASSUME NEW a \in replies
                 PROVE  /\ a.answer \in {"receipt", "completed"} =>
                             /\ \E k \in DOMAIN effects : effects[k].request = a.request
                             /\ Observed(a.request) = "completed"
                        /\ a.answer = "uncertain" => Observed(a.request) # "not_observed"
    BY DEF AnswersAreTrue
  <1>2. PICK i \in Intents(log) :
          /\ Request(log, i) = a.request
          /\ a.answer \in {"receipt", "completed"} => log[i].op \in Settled(log)
    BY DEF ControlInv, RepliesInv
  <1>3. Observed(a.request) # "not_observed"
    BY <1>2 DEF Observed, Request
  <1>4. ASSUME log[i].op \in Settled(log)
        PROVE  /\ \E k \in DOMAIN effects : effects[k].request = a.request
               /\ Observed(a.request) = "completed"
    <2>1. \E k \in DOMAIN effects : effects[k].request = a.request
      BY <1>2, <1>4 DEF ControlInv, EffectsInv
    <2>2. \A j \in Intents(log) : log[j].control.request = a.request => j = i
      BY <1>2 DEF ControlInv, LogInv, Numbered, Request
    <2>3. log[i].op \notin Open(log)
      BY <1>4 DEF Open
    <2>4. Observed(a.request) = "completed"
      BY <1>2, <2>2, <2>3 DEF Observed, Request
    <2>5. QED
      BY <2>1, <2>4
  <1>5. QED
    BY <1>2, <1>3, <1>4

\* What the device is answered is true, in the run and in a recovery listener.
THEOREM AnswersHold == Spec => []AnswersAreTrue
  BY BackedAnswers, ControlInvariant, PTL

\* Steering.take hands the model every accepted text once, in the order in
\* which Steering.accept took them.
THEOREM SteeringIsExact == Spec => []SteeringArrivesOnce
  <1>1. ControlInv => SteeringArrivesOnce
    BY DEF ControlInv
  <1>2. QED
    BY <1>1, ControlInvariant, PTL

\* Approvals.require lets a tool call go on only after an approval of its own
\* challenge had its effect.
THEOREM ApprovalIsOwn == Spec => []OwnApprovalOnly
  <1>1. ControlInv => OwnApprovalOnly
    BY DEF ControlInv, ApprovalInv, Approved, OwnApprovalOnly
  <1>2. QED
    BY <1>1, ControlInvariant, PTL

\* Once the end of listen has closed the Requests object it fetched, _dispatch
\* enters no further handler, though the reader may have replaced that object
\* meanwhile; a handler that was entered before has its effect, if any, before
\* the join returns.
THEOREM RevocationIsFinal == Spec => NoDispatchAfterRevocation
  <1>1. ASSUME ControlInv, [Next]_vars, revoked, At("entered")'
        PROVE  At("entered")
    <2>1. CASE Enter
      <3>1. ~requests.closed /\ serving # None
        BY <2>1 DEF Enter, At, MayEnter
      <3>2. QED
        BY <1>1, <3>1 DEF ControlInv, EndingInv
    <2>2. CASE ~Enter
      <3>1. serving \in Serving \cup {None}
        BY <1>1 DEF ControlInv, TypeOK
      <3>2. ASSUME serving # None, NEW o
            PROVE  /\ [serving EXCEPT !.op = o, !.step = "begun"].step = "begun"
                   /\ \A t : [serving EXCEPT !.step = t].step = t
        BY <3>1, <3>2 DEF Serving
      <3>3. CASE \E f \in sealed : Deliver(f)
        BY <1>1, <3>3 DEF Deliver, At
      <3>4. CASE Begin
        BY <1>1, <3>2, <3>4 DEF Begin, RejectedBeforeDispatch, At
      <3>5. CASE Apply \/ Result \/ Finish
        BY <1>1, <3>2, <3>5 DEF Apply, Result, Finish, Goto, At
      <3>6. CASE serving' = None
        BY <1>1, <3>6 DEF At
      <3>7. CASE serving' = serving
        BY <1>1, <3>7 DEF At
      <3>8. QED
        BY <1>1, <2>2, <3>3, <3>4, <3>5, <3>6, <3>7, ChangesServing
    <2>3. QED
      BY <2>1, <2>2
  <1>2. ASSUME ControlInv, [Next]_vars, effects' # effects
        PROVE  phase = "live"
    <2>1. Apply
      BY <1>2, ChangesEffects
    <2>2. QED
      BY <1>2, <2>1 DEF Apply, At, ControlInv, EndingInv
  <1>3. ControlInv /\ [Next]_vars =>
          [/\ revoked /\ At("entered")' => At("entered")
           /\ effects' # effects => phase = "live"]_vars
    BY <1>1, <1>2
  <1>4. QED
    BY <1>3, ControlInvariant, PTL DEF Spec, NoDispatchAfterRevocation
=============================================================================
