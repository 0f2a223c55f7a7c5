----------------------------- MODULE OwnerControl -----------------------------
(***************************************************************************)
(* Encrypted control of a running session by its owner (ls/core/agent).    *)
(* The owner's device seals numbered requests; a relay that nobody trusts  *)
(* carries them; a reader thread of the run serves them one by one over a  *)
(* private control journal; the worker's thread takes steering texts and   *)
(* waits for approvals; the run's own thread ends the listening.  After    *)
(* the run a recovery listener answers reconciliation queries only.        *)
(*                                                                         *)
(* Sources: control_run.py, control_requests.py, remote_control.py,        *)
(* control_transport.py, session_owner.control_authority, steering.py,     *)
(* approvals.py.                                                           *)
(*                                                                         *)
(* Abstracted: encryption is that the relay can neither make nor change a  *)
(* frame; it may lose, delay, repeat and reorder them, so a sealed frame   *)
(* can be delivered at any time and any number of times.  Every request    *)
(* has one unit of bytes.  Deadlines act like the end of the listening.    *)
(***************************************************************************)
EXTENDS OperationLog

CONSTANTS
  Attachments,      \* "socket": relays reconnect; "descriptor": one stream
  Methods,          \* methods the grant admits, a part of ControlMethods
  Binding,          \* the admitted binding
  MaxConnections,   \* bound of connections (MAX_CALLS)
  MaxChallenges     \* bound of approvals the model's tools ask for

ASSUME ControlAssumption ==
  /\ Attachments \subseteq {"socket", "descriptor"}
  /\ Methods \subseteq {"status", "cancel", "steer", "approve"}
  /\ Bindings = {Binding}
  /\ MaxConnections \in Nat \ {0}
  /\ MaxChallenges \in Nat
  /\ MaxRequestBytes = 1
  /\ None \notin Requests

VARIABLES
  attachment,  \* how the listener is reached, settled when it starts
  log,         \* the control journal of the run
  sealed,      \* frames the owner's device has sealed
  phase,       \* "live", "ended" or "recovering"
  stop,        \* listen's stop event
  connection,  \* number of the connection being served, 0 before the first
  requests,    \* its Requests object: previous, used and closed
  closing,     \* connection whose Requests object that thread is about to close
  revoked,     \* the run's thread has set stop and closed what it fetched
  reader,      \* the reader thread: "accepting", "reading" or "gone"
  serving,     \* the request in the reader's hands
  cancelled,   \* the run's cancellation event
  pending,     \* Steering.pending
  taken,       \* history: texts the model was given
  approval,    \* Approvals: challenges so far, the open one and its decision
  allowed,     \* history: challenges whose tool call went on
  replies,     \* replies sealed by the run, which the relay may deliver
  effects      \* history: frames whose handler had its effect, in order

vars == <<attachment, log, sealed, phase, stop, connection, requests, closing,
          revoked, reader, serving, cancelled, pending, taken, approval, allowed,
          replies, effects>>

Frame == [request : Requests, sequence : 1..MaxSequence, method : Methods,
          challenge : 0..MaxChallenges, allow : BOOLEAN]

Steps == {"admitted", "begun", "entered", "applied", "resulted", "finished"}
Serving == [frame : Frame, op : Operations \cup {None}, step : Steps]

\* The answers the device may rely on.  A rejection only speaks of one copy of
\* the bytes, and "not_observed" only of the moment: they are not kept.
Answers == {"receipt", "uncertain", "completed"}
Reply == [request : Requests, answer : Answers]

\* Nothing served is not something served.
ASSUME NoneAssumption == None \notin Serving

FreshRequests == [previous |-> 0, used |-> 0, closed |-> FALSE]

Init ==
  /\ attachment \in Attachments
  /\ log = <<>>
  /\ sealed = {}
  /\ phase = "live"
  /\ stop = FALSE
  /\ connection = IF attachment = "socket" THEN 0 ELSE 1
  /\ requests = FreshRequests
  /\ closing = None
  /\ revoked = FALSE
  /\ reader = IF attachment = "socket" THEN "accepting" ELSE "reading"
  /\ serving = None
  /\ cancelled = FALSE
  /\ pending = <<>>
  /\ taken = <<>>
  /\ approval = [asked |-> 0, open |-> FALSE, decision |-> None]
  /\ allowed = {}
  /\ replies = {}
  /\ effects = <<>>

-----------------------------------------------------------------------------
(* The owner's device *)

\* The device seals a request under a fresh identity.  It may guess any
\* sequence number, and answers challenges it has been shown.
Seal(f) ==
  /\ \A g \in sealed : g.request # f.request
  /\ f.challenge # 0 <=> f.method = "approve"
  /\ f.challenge =< approval.asked
  /\ f.method # "approve" => f.allow
  /\ sealed' = sealed \cup {f}
  /\ UNCHANGED <<attachment, log, phase, stop, connection, requests, closing,
                 revoked, reader, serving, cancelled, pending, taken, approval,
                 allowed, replies, effects>>

-----------------------------------------------------------------------------
(* The reader thread *)

Answer(q, a) == replies' = replies \cup {[request |-> q, answer |-> a]}

\* Listener.accept and the Requests object of the new connection.  The wait
\* for a connection may end just after stop was set.
Accept ==
  /\ reader = "accepting" /\ connection < MaxConnections
  /\ connection' = connection + 1
  /\ requests' = FreshRequests
  /\ reader' = "reading"
  /\ UNCHANGED <<attachment, log, sealed, phase, stop, closing, revoked,
                 serving, cancelled, pending, taken, approval, allowed, replies,
                 effects>>

\* Only the end of the descriptor stands for a cancellation.
LossIsCancel == attachment = "descriptor" /\ ~stop

\* What the reader does when serving raises: Requests is closed, the stream
\* is closed, and a socket listener waits for the next relay.
Drop ==
  /\ requests' = [requests EXCEPT !.closed = TRUE]
  /\ serving' = None
  /\ reader' = IF attachment = "socket" THEN "accepting" ELSE "gone"
  /\ cancelled' = (cancelled \/ LossIsCancel)

\* The relay goes away between requests.
LoseConnection ==
  /\ reader = "reading" /\ serving = None
  /\ Drop
  /\ UNCHANGED <<attachment, log, sealed, phase, stop, connection, closing,
                 revoked, pending, taken, approval, allowed, replies, effects>>

\* listen.authorize and SessionOwner.control_authority.
Authorized(f) ==
  /\ phase = "live" /\ ~stop
  /\ ~cancelled \/ f.method \in {"status", "cancel"}

\* Reading the next frame: the reader of the run, or a recovery listener.
Receptive ==
  \/ phase = "live" /\ reader = "reading" /\ serving = None /\ ~stop
  \/ phase = "recovering"

\* The relay delivers a sealed frame, which is opened and authorized; without
\* authority it is rejected and nothing changes.
Deliver(f) ==
  /\ Receptive
  /\ Authorized(f)
  /\ serving' = [frame |-> f, op |-> None, step |-> "admitted"]
  /\ UNCHANGED <<attachment, log, sealed, phase, stop, connection, requests,
                 closing, revoked, reader, cancelled, pending, taken, approval,
                 allowed, replies, effects>>

At(step) == serving # None /\ serving.step = step

Goto(step) == serving' = [serving EXCEPT !.step = step]

\* A rejection before the handler is entered: the reader goes on.
RejectedBeforeDispatch == serving' = None

IntentFor(o) ==
  [type |-> "intent", op |-> o, kind |-> "owner_control", call |-> None,
   control |-> [binding |-> Binding, request |-> serving.frame.request,
                sequence |-> serving.frame.sequence,
                method |-> serving.frame.method, bytes |-> 1]]

\* Variant with a fault: a request the journal refuses is dispatched all the
\* same when the connection is new.
BeginUnrecorded ==
  /\ At("admitted")
  /\ \E o \in Operations :
       /\ log' = IF Appendable(log, IntentFor(o)) THEN Append(log, IntentFor(o)) ELSE log
       /\ serving' = [serving EXCEPT !.op = o, !.step = "begun"]
  /\ requests' = IF requests.previous = 0 /\ requests.used = 0
       THEN [requests EXCEPT !.previous = serving.frame.sequence - 1]
       ELSE requests
  /\ UNCHANGED <<attachment, sealed, phase, stop, connection, closing, revoked,
                 reader, cancelled, pending, taken, approval, allowed, replies,
                 effects>>

\* dispatch_recorded up to the journalled intent.  The object may be closed
\* between its check and the append, so an intent can follow the end of the
\* run.  A journal error may leave the intent behind; the device is then told
\* of a rejection all the same.
Begin ==
  /\ At("admitted")
  /\ \/ /\ requests.closed \/ \A o \in Operations : ~Appendable(log, IntentFor(o))
        /\ RejectedBeforeDispatch
        /\ UNCHANGED <<attachment, log, requests>>
     \/ \E o \in Operations :
          /\ Appendable(log, IntentFor(o))
          /\ log' = Append(log, IntentFor(o))
          /\ \/ /\ serving' = [serving EXCEPT !.op = o, !.step = "begun"]
                /\ requests' = IF requests.previous = 0 /\ requests.used = 0
                     THEN [requests EXCEPT !.previous = serving.frame.sequence - 1]
                     ELSE requests
             \/ RejectedBeforeDispatch /\ UNCHANGED requests
  /\ UNCHANGED <<attachment, sealed, phase, stop, connection, closing, revoked,
                 reader, cancelled, pending, taken, approval, allowed, replies,
                 effects>>

\* What _dispatch requires of a frame before its handler.
MayEnter(f) == ~requests.closed /\ f.sequence = requests.previous + 1

\* _dispatch up to the handler: the number is consumed first, so that a handler
\* that fails is never entered again.
Enter ==
  /\ At("begun") /\ MayEnter(serving.frame)
  /\ requests' = [requests EXCEPT !.previous = serving.frame.sequence,
                                  !.used = @ + 1]
  /\ Goto("entered")
  /\ UNCHANGED <<attachment, log, sealed, phase, stop, connection, closing,
                 revoked, reader, cancelled, pending, taken, approval, allowed,
                 replies, effects>>

\* Variant with a fault: any approval decides the challenge that is open.
AcceptsOtherChallenge(f) ==
  /\ f.method = "steer" => ~cancelled
  /\ f.method = "approve" => approval.open /\ approval.decision = None

\* What the handlers refuse: Steering.accept and Approvals.decide.
HandlerAccepts(f) ==
  /\ f.method = "steer" => ~cancelled
  /\ f.method = "approve" => approval.open /\ approval.decision = None
                             /\ f.challenge = approval.asked

\* The handler has its effect, although the run's thread may have closed the
\* object since it was entered.
Apply ==
  /\ At("entered") /\ HandlerAccepts(serving.frame)
  /\ cancelled' = (cancelled \/ serving.frame.method = "cancel")
  /\ pending' = IF serving.frame.method = "steer"
                  THEN Append(pending, serving.frame.request) ELSE pending
  /\ approval' = IF serving.frame.method = "approve"
                   THEN [approval EXCEPT !.decision = serving.frame.allow] ELSE approval
  /\ effects' = Append(effects, serving.frame)
  /\ Goto("applied")
  /\ UNCHANGED <<attachment, log, sealed, phase, stop, connection, requests,
                 closing, revoked, reader, taken, allowed, replies>>

\* The deadline or the end of the run is noticed after the handler.
Result ==
  /\ At("applied") /\ ~requests.closed
  /\ Goto("resulted")
  /\ UNCHANGED <<attachment, log, sealed, phase, stop, connection, requests,
                 closing, revoked, reader, cancelled, pending, taken, approval,
                 allowed, replies, effects>>

Completed(o) == [type |-> "outcome", op |-> o, outcome |-> "completed",
                 reconciled |-> FALSE]

\* Variant with a fault: the outcome is not recorded before the receipt.
FinishUnrecorded ==
  /\ At("resulted")
  /\ Goto("finished")
  /\ UNCHANGED <<attachment, log, sealed, phase, stop, connection, requests,
                 closing, revoked, reader, cancelled, pending, taken, approval,
                 allowed, replies, effects>>

\* journal.finish.
Finish ==
  /\ At("resulted")
  /\ Appendable(log, Completed(serving.op))
  /\ log' = Append(log, Completed(serving.op))
  /\ Goto("finished")
  /\ UNCHANGED <<attachment, sealed, phase, stop, connection, requests, closing,
                 revoked, reader, cancelled, pending, taken, approval, allowed,
                 replies, effects>>

\* The receipt, if the authority still stands.
Acknowledge ==
  /\ At("finished") /\ ~requests.closed /\ Authorized(serving.frame)
  /\ Answer(serving.frame.request, "receipt")
  /\ serving' = None
  /\ UNCHANGED <<attachment, log, sealed, phase, stop, connection, requests,
                 closing, revoked, reader, cancelled, pending, taken, approval,
                 allowed, effects>>

\* Serving raises, whether because a check or the handler refused or because
\* the journal failed; what was recorded and applied stays.
Raise ==
  /\ serving # None /\ serving.step # "admitted"
  /\ Drop
  /\ UNCHANGED <<attachment, log, sealed, phase, stop, connection, closing,
                 revoked, pending, taken, approval, allowed, replies, effects>>

\* What the journal knows of a request: Journal.control_observation.
Observed(q) ==
  IF \A i \in Intents(log) : log[i].control.request # q THEN "not_observed"
  ELSE IF \E i \in Intents(log) : log[i].control.request = q
                                    /\ log[i].op \in Open(log) THEN "uncertain"
  ELSE "completed"

\* serve_reconcile, in the run itself and in a recovery listener.
Reconcile(q) ==
  /\ Receptive /\ Observed(q) # "not_observed"
  /\ Answer(q, Observed(q))
  /\ UNCHANGED <<attachment, log, sealed, phase, stop, connection, requests,
                 closing, revoked, reader, serving, cancelled, pending, taken,
                 approval, allowed, effects>>

\* Variant with a fault: a reader that waits for a connection does not notice
\* that the run has stopped.
LeaveUnnoticed ==
  /\ serving = None
  /\ \/ reader = "reading" /\ stop
     \/ reader = "accepting" /\ connection = MaxConnections
  /\ reader' = "gone"
  /\ requests' = [requests EXCEPT !.closed = TRUE]
  /\ UNCHANGED <<attachment, log, sealed, phase, stop, connection, closing,
                 revoked, serving, cancelled, pending, taken, approval, allowed,
                 replies, effects>>

\* The reader leaves: stop is noticed, or the connections are used up.
Leave ==
  /\ serving = None
  /\ \/ reader \in {"accepting", "reading"} /\ stop
     \/ reader = "accepting" /\ connection = MaxConnections
  /\ reader' = "gone"
  /\ requests' = [requests EXCEPT !.closed = TRUE]
  /\ UNCHANGED <<attachment, log, sealed, phase, stop, connection, closing,
                 revoked, serving, cancelled, pending, taken, approval, allowed,
                 replies, effects>>

-----------------------------------------------------------------------------
(* The worker's calls, which the run's own thread serves *)

\* Variant with a fault: the texts are handed out and kept.
TakeAndKeep ==
  /\ phase = "live" /\ ~stop /\ ~cancelled
  /\ taken' = taken \o pending
  /\ UNCHANGED <<attachment, log, sealed, phase, stop, connection, requests,
                 closing, revoked, reader, serving, cancelled, pending,
                 approval, allowed, replies, effects>>

\* run.steering: Steering.take.
Take ==
  /\ phase = "live" /\ ~stop /\ ~cancelled
  /\ taken' = taken \o pending
  /\ pending' = <<>>
  /\ UNCHANGED <<attachment, log, sealed, phase, stop, connection, requests,
                 closing, revoked, reader, serving, cancelled, approval,
                 allowed, replies, effects>>

\* Approvals.require announces a challenge.
Require ==
  /\ phase = "live" /\ ~stop /\ ~cancelled
  /\ ~approval.open /\ approval.asked < MaxChallenges
  /\ approval' = [asked |-> approval.asked + 1, open |-> TRUE, decision |-> None]
  /\ UNCHANGED <<attachment, log, sealed, phase, stop, connection, requests,
                 closing, revoked, reader, serving, cancelled, pending, taken,
                 allowed, replies, effects>>

\* The tool call goes on, is denied, or is given up by the cancelled run.
Resume ==
  /\ approval.open
  /\ cancelled \/ approval.decision # None
  /\ allowed' = IF ~cancelled /\ approval.decision
                  THEN allowed \cup {approval.asked} ELSE allowed
  /\ approval' = [approval EXCEPT !.open = FALSE, !.decision = None]
  /\ UNCHANGED <<attachment, log, sealed, phase, stop, connection, requests,
                 closing, revoked, reader, serving, cancelled, pending, taken,
                 replies, effects>>

-----------------------------------------------------------------------------
(* The run's own thread: the end of listen *)

SetStop ==
  /\ phase = "live" /\ ~stop /\ ~approval.open
  /\ stop' = TRUE
  /\ UNCHANGED <<attachment, log, sealed, phase, connection, requests, closing,
                 revoked, reader, serving, cancelled, pending, taken, approval,
                 allowed, replies, effects>>

\* "requests.closed = True" fetches the object the reader may replace, and
\* then closes it.
FetchRequests ==
  /\ stop /\ closing = None
  /\ closing' = connection
  /\ UNCHANGED <<attachment, log, sealed, phase, stop, connection, requests,
                 revoked, reader, serving, cancelled, pending, taken, approval,
                 allowed, replies, effects>>

\* Variant with a fault: the end of the run only sets the stop event.
CloseNothing ==
  /\ closing # None /\ ~revoked
  /\ revoked' = TRUE
  /\ UNCHANGED <<attachment, log, sealed, phase, stop, connection, requests,
                 closing, reader, serving, cancelled, pending, taken, approval,
                 allowed, replies, effects>>

CloseRequests ==
  /\ closing # None /\ ~revoked
  /\ requests' = IF closing = connection THEN [requests EXCEPT !.closed = TRUE]
                                         ELSE requests
  /\ revoked' = TRUE
  /\ UNCHANGED <<attachment, log, sealed, phase, stop, connection, closing,
                 reader, serving, cancelled, pending, taken, approval, allowed,
                 replies, effects>>

\* thread.join and what follows.
Join ==
  /\ phase = "live" /\ revoked /\ reader = "gone"
  /\ phase' = "ended"
  /\ UNCHANGED <<attachment, log, sealed, stop, connection, requests, closing,
                 revoked, reader, serving, cancelled, pending, taken, approval,
                 allowed, replies, effects>>

\* The process dies; only the journal and what was sealed remain.
Crash ==
  /\ phase = "live"
  /\ phase' = "ended"
  /\ reader' = "gone"
  /\ serving' = None
  /\ requests' = [requests EXCEPT !.closed = TRUE]
  /\ approval' = [approval EXCEPT !.open = FALSE, !.decision = None]
  /\ UNCHANGED <<attachment, log, sealed, stop, connection, closing, revoked,
                 cancelled, pending, taken, allowed, replies, effects>>

\* A recovery listener under a new owner admits reconciliation only.
Recover ==
  /\ phase = "ended"
  /\ phase' = "recovering"
  /\ UNCHANGED <<attachment, log, sealed, stop, connection, requests, closing,
                 revoked, reader, serving, cancelled, pending, taken, approval,
                 allowed, replies, effects>>

\* The reader's own steps; a connection and a frame come from the relay.
Reading ==
  \/ Begin \/ Enter \/ Apply \/ Result \/ Finish \/ Acknowledge \/ Raise \/ Leave

Ending == FetchRequests \/ CloseRequests \/ Join

Next ==
  \/ \E f \in Frame : Seal(f)
  \/ \E f \in sealed : Deliver(f)
  \/ \E q \in Requests : Reconcile(q)
  \/ Reading \/ Accept \/ LoseConnection
  \/ Take \/ Require \/ Resume
  \/ SetStop \/ Ending \/ Crash \/ Recover

Spec == Init /\ [][Next]_vars

\* The reader and the run's thread are scheduled: neither waits for another
\* party inside a step of its own, and "stop" ends the reader's waits.
FairSpec == Spec /\ WF_vars(Reading) /\ WF_vars(Ending)

-----------------------------------------------------------------------------
(* Properties *)

TypeOK ==
  /\ attachment \in Attachments
  /\ log \in Seq(ControlIntent \cup Outcome)
  /\ sealed \subseteq Frame
  /\ phase \in {"live", "ended", "recovering"}
  /\ stop \in BOOLEAN /\ revoked \in BOOLEAN /\ cancelled \in BOOLEAN
  /\ connection \in 0..MaxConnections
  /\ closing \in (0..MaxConnections) \cup {None}
  /\ requests \in [previous : 0..MaxSequence, used : Nat, closed : BOOLEAN]
  /\ reader \in {"accepting", "reading", "gone"}
  /\ serving \in Serving \cup {None}
  /\ pending \in Seq(Requests) /\ taken \in Seq(Requests)
  /\ approval \in [asked : 0..MaxChallenges, open : BOOLEAN,
                  decision : BOOLEAN \cup {None}]
  /\ allowed \subseteq 1..MaxChallenges
  /\ replies \subseteq Reply
  /\ effects \in Seq(Frame)

\* However the relay repeats, delays and reorders frames, and however often it
\* reconnects, effects follow the numbers of the requests: none happens twice,
\* none overtakes another, and no two share a number.
EffectsInOrder ==
  \A i, j \in DOMAIN effects :
    i < j => effects[i].sequence < effects[j].sequence

\* A receipt, or an observation "completed", in the hands of the device means
\* that the effect took place and that the journal says so for good.
AnswersAreTrue ==
  \A a \in replies :
    /\ a.answer \in {"receipt", "completed"} =>
         /\ \E i \in DOMAIN effects : effects[i].request = a.request
         /\ Observed(a.request) = "completed"
    /\ a.answer = "uncertain" => Observed(a.request) # "not_observed"

\* The model is given the accepted texts in the order of their acceptance, each
\* once, and the rest still waits: texts and accepted steering requests match
\* one to one and in order.
SteeringArrivesOnce ==
  LET given == taken \o pending
      Accepts(i, j) == effects[i].method = "steer" /\ effects[i].request = given[j]
  IN  /\ \A i \in DOMAIN effects :
           effects[i].method = "steer" => \E j \in DOMAIN given : Accepts(i, j)
      /\ \A j \in DOMAIN given : \E i \in DOMAIN effects : Accepts(i, j)
      /\ \A i, k \in DOMAIN effects, j, l \in DOMAIN given :
           Accepts(i, j) /\ Accepts(k, l) => (i < k <=> j < l)

\* A tool call goes on only after an approval of its own challenge; a late
\* approval of an earlier challenge decides nothing.
OwnApprovalOnly ==
  \A c \in allowed :
    \E i \in DOMAIN effects :
      effects[i].method = "approve" /\ effects[i].challenge = c /\ effects[i].allow

\* "Shutdown revokes new control dispatch before collecting the reader.  It
\* waits for any synchronous bounded crypto/handler call" (listen): once the
\* run's thread has closed what it fetched, no further handler is entered,
\* although the reader may just have replaced the object; the one already
\* entered may still have its effect, and nothing has an effect once the join
\* has returned.
NoDispatchAfterRevocation ==
  [][/\ revoked /\ At("entered")' => At("entered")
     /\ effects' # effects => phase = "live"]_vars

\* The join at the end of the listening returns.
StopEnds == stop ~> phase # "live"
=============================================================================
