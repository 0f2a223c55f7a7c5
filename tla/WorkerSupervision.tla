-------------------------- MODULE WorkerSupervision --------------------------
(***************************************************************************)
(* The supervision of one worker process (ls/core/agent): its owner runs   *)
(* the event loop of supervise, serves the requests of the broker channel  *)
(* by callbacks on its own thread, and collects the worker; a monitor      *)
(* thread ends the worker's group on cancellation and at the deadline even *)
(* while a callback of the owner stalls.                                   *)
(*                                                                         *)
(* Sources: supervisor.py, worker_lifetime.py, broker_rpc.py (_check,      *)
(* _enter, serve_once).                                                    *)
(*                                                                         *)
(* Abstracted: the contents of the pipes; a request is whole or not.       *)
(* Assumed, as qualify_wait_owner demands: nobody else reaps the worker.   *)
(* Processes that leave the group are not followed, and an interrupt       *)
(* during the teardown is not modelled: the commands that run workers turn *)
(* the signal into the cancellation flag.                                  *)
(***************************************************************************)
EXTENDS Naturals

CONSTANTS
  MaxRequests,      \* requests ever sent, which bounds the run
  None

ASSUME SupervisionAssumption ==
  /\ MaxRequests \in Nat
  /\ None \notin {"monitor", "owner", "cancelled", "timed_out", "output_limit"}

VARIABLES
  worker,      \* "running", "doomed" (signalled), "zombie" or "reaped"
  ending,      \* how it ended: "none", "zero", "nonzero", "killed"
  group,       \* its descendants: "none", "alive" or "doomed"
  cancel,      \* the cancellation flag
  expired,     \* whether the deadline has passed
  monitor,     \* "unstarted", "watching", "killing" or "done"
  noticed,     \* WorkerLifetime.status
  broken,      \* WorkerLifetime.error
  stop,        \* WorkerLifetime._stop
  lock,        \* WorkerLifetime._lock: "monitor", "owner" or None
  owner,       \* where supervise is
  status,      \* status in supervise
  raising,     \* an exception is on its way out of supervise
  outcome,     \* of supervise: a terminal state, "raised" or None
  registered,  \* the broker channel is in the selector
  requests,    \* requests waiting in the channel
  made,        \* requests sent so far
  misfired     \* history: a signal was sent to a group that no longer is ours

process == <<worker, ending, group>>
channel == <<registered, requests, made>>
watch == <<monitor, noticed, broken>>
result == <<status, raising, outcome>>
vars == <<process, cancel, expired, watch, stop, lock, owner, result, channel, misfired>>

OwnerAt == {"starting", "looking", "exited", "selecting", "receiving", "cleared",
            "handling", "handled", "waiting", "closing", "joining", "last",
            "reaping", "finishing", "returned"}
Stopped == {"cancelled", "timed_out", "output_limit"}
Outcomes == Stopped \cup {"completed", "failed", "protocol_error", "raised"}

\* The worker was launched in a group of its own.
Init ==
  /\ worker = "running" /\ ending = "none" /\ group = "none"
  /\ cancel = FALSE /\ expired = FALSE
  /\ monitor = "unstarted" /\ noticed = None /\ broken = FALSE
  /\ stop = FALSE /\ lock = None
  /\ owner = "starting"
  /\ status = None /\ raising = FALSE /\ outcome = None
  /\ registered = TRUE /\ requests = 0 /\ made = 0
  /\ misfired = FALSE

-----------------------------------------------------------------------------
(* The worker and its descendants *)

Exit ==
  /\ worker \in {"running", "doomed"}
  /\ worker' = "zombie"
  /\ \/ ending' \in {"zero", "nonzero"}
     \/ worker = "doomed" /\ ending' = "killed"
  /\ UNCHANGED <<group, cancel, expired, watch, stop, lock, owner, result, channel, misfired>>

Fork ==
  /\ worker = "running" /\ group = "none"
  /\ group' = "alive"
  /\ UNCHANGED <<worker, ending, cancel, expired, watch, stop, lock, owner, result,
                 channel, misfired>>

DescendantsEnd ==
  /\ group # "none"
  /\ group' = "none"
  /\ UNCHANGED <<worker, ending, cancel, expired, watch, stop, lock, owner, result,
                 channel, misfired>>

\* Whoever of the group holds the channel may write to it, before any answer.
Request ==
  /\ worker = "running" \/ group = "alive"
  /\ made < MaxRequests
  /\ made' = made + 1 /\ requests' = requests + 1
  /\ UNCHANGED <<process, cancel, expired, watch, stop, lock, owner, result,
                 registered, misfired>>

Cancel ==
  /\ ~cancel /\ cancel' = TRUE
  /\ UNCHANGED <<process, expired, watch, stop, lock, owner, result, channel, misfired>>

Expire ==
  /\ ~expired /\ expired' = TRUE
  /\ UNCHANGED <<process, cancel, watch, stop, lock, owner, result, channel, misfired>>

-----------------------------------------------------------------------------
(* WorkerLifetime: poll and kill *)

Ended == worker \in {"zombie", "reaped"}

\* kill, first half: under the lock the worker is found not yet reaped.
BeginKill(p) ==
  /\ lock = None
  /\ worker # "reaped"
  /\ lock' = p

\* kill, second half: killpg reaches every process of the group.
SignalGroup ==
  /\ lock' = None
  /\ misfired' = (misfired \/ worker = "reaped")
  /\ worker' = IF worker = "running" THEN "doomed" ELSE worker
  /\ group' = IF group = "alive" THEN "doomed" ELSE group

\* Variant with a fault: the cancellation flag is left to the owner.
NoticeDeadline == IF expired THEN "timed_out" ELSE None

Notice ==
  IF cancel THEN "cancelled" ELSE IF expired THEN "timed_out" ELSE None

\* _watch: a round of the monitor.
Watch ==
  /\ monitor = "watching"
  /\ lock = None
  /\ \/ ~stop /\ Notice # None /\ noticed' = Notice /\ monitor' = "killing"
     \/ ~stop /\ Notice = None /\ Ended /\ monitor' = "killing" /\ UNCHANGED noticed
     \/ stop /\ monitor' = "done" /\ UNCHANGED noticed
  /\ UNCHANGED <<process, broken, cancel, expired, stop, lock, owner, result, channel, misfired>>

\* A round of the monitor raises, in reading the flag for instance.
WatchBreaks ==
  /\ monitor = "watching" /\ ~stop
  /\ broken' = TRUE
  /\ monitor' = "killing"
  /\ UNCHANGED <<process, noticed, cancel, expired, stop, lock, owner, result,
                 channel, misfired>>

MonitorBeginsKill ==
  /\ monitor = "killing"
  /\ BeginKill("monitor")
  /\ UNCHANGED <<process, cancel, expired, watch, stop, owner, result, channel, misfired>>

MonitorSignals ==
  /\ lock = "monitor"
  /\ SignalGroup
  /\ monitor' = "done"
  /\ UNCHANGED <<ending, cancel, expired, noticed, broken, stop, owner, result,
                 channel>>

-----------------------------------------------------------------------------
(* supervise: the loop *)

OwnerOnly == UNCHANGED <<process, cancel, expired, watch, stop, lock, outcome, misfired>>

\* The monitor is started, or no thread can be.
Start ==
  /\ owner = "starting"
  /\ \/ monitor' = "watching" /\ owner' = "looking" /\ UNCHANGED raising
     \/ raising' = TRUE /\ owner' = "closing" /\ UNCHANGED monitor
  /\ UNCHANGED <<process, cancel, expired, noticed, broken, stop, lock, status,
                 outcome, channel, misfired>>

\* What ends the loop: a broken monitor, its status, the flag, the deadline.
MustLeave == broken \/ noticed # None \/ cancel \/ expired

Leave ==
  /\ raising' = broken
  /\ status' = IF broken THEN None ELSE IF noticed # None THEN noticed ELSE Notice
  /\ owner' = "closing"
  /\ OwnerOnly /\ UNCHANGED channel

\* ConnectionError and TimeoutError are taken for what explains them.
BreakOff ==
  /\ status' = Notice
  /\ raising' = (Notice = None)
  /\ owner' = "closing"

\* A callback raises: such an error, or another one.
Raise ==
  \/ BreakOff
  \/ raising' = TRUE /\ owner' = "closing" /\ UNCHANGED status

\* The head of the loop, which calls on_tick while the worker runs.
Look ==
  /\ owner = "looking"
  /\ IF MustLeave THEN Leave
     ELSE /\ lock = None
          /\ \/ Ended /\ owner' = "exited" /\ UNCHANGED <<status, raising>>
             \/ ~Ended /\ owner' = "selecting" /\ UNCHANGED <<status, raising>>
             \/ ~Ended /\ Raise
          /\ OwnerOnly /\ UNCHANGED channel

\* The worker has ended: its descendants go, and the channel is left alone.
LoopBeginsKill ==
  /\ owner = "exited"
  /\ BeginKill("owner")
  /\ UNCHANGED <<process, cancel, expired, watch, stop, owner, result, channel, misfired>>

LoopSignals ==
  /\ owner = "exited" /\ lock = "owner"
  /\ SignalGroup
  /\ registered' = FALSE
  /\ owner' = "selecting"
  /\ UNCHANGED <<ending, cancel, expired, watch, stop, result, requests, made>>

\* Pipes: nothing decisive, more output than allowed, or the end of all of
\* them; the pipes of a group that is gone are at their end.
Select ==
  /\ owner = "selecting"
  /\ \/ owner' = "looking" /\ UNCHANGED <<status, registered>>
     \/ owner' = "closing" /\ status' = "output_limit" /\ UNCHANGED registered
     \/ owner' = "waiting" /\ ~registered /\ UNCHANGED <<status, registered>>
     \/ owner' = "looking" /\ registered /\ requests = 0 /\ registered' = FALSE
        /\ UNCHANGED status
  /\ OwnerOnly /\ UNCHANGED <<raising, requests, made>>

\* Every pipe is at its end, and the worker is waited for.
Wait ==
  /\ owner = "waiting"
  /\ lock = None
  /\ \/ Ended /\ owner' = "closing" /\ UNCHANGED <<status, raising>>
     \/ ~Ended /\ (broken \/ Notice # None) /\ owner' = "closing"
        /\ raising' = broken /\ status' = IF broken THEN None ELSE Notice
     \/ ~Ended /\ Raise
  /\ OwnerOnly /\ UNCHANGED channel

\* KeyboardInterrupt.
Interrupt ==
  /\ owner \in {"looking", "selecting", "receiving", "cleared", "handling",
               "handled", "waiting"}
  /\ status' = "cancelled" /\ owner' = "closing"
  /\ OwnerOnly /\ UNCHANGED <<raising, channel>>

-----------------------------------------------------------------------------
(* supervise: the broker channel, Channel.serve_once *)

\* Channel._check and the check of supervise before and after a callback.
MayServe == ~cancel /\ ~expired /\ ~Ended

\* A request is there: _enter.
Enter ==
  /\ owner = "selecting" /\ registered /\ requests > 0
  /\ lock = None
  /\ IF MayServe THEN owner' = "receiving" /\ UNCHANGED <<status, raising>>
                 ELSE BreakOff
  /\ OwnerOnly /\ UNCHANGED channel

\* The rest of the frame arrives, and is a request of this channel or not,
\* or the peer leaves; authority may have ended too.
Receive ==
  /\ owner = "receiving" /\ lock = None
  /\ MayServe
  /\ requests' = requests - 1
  /\ \/ owner' = "cleared" /\ UNCHANGED <<status, raising>>
     \/ Raise
  /\ OwnerOnly /\ UNCHANGED <<registered, made>>

\* The checks beside a transfer, and after a callback.
BreakOffServing ==
  /\ owner \in {"receiving", "handled"} /\ lock = None
  /\ ~MayServe
  /\ BreakOff
  /\ OwnerOnly /\ UNCHANGED channel

\* The callback begins.
Dispatch ==
  /\ owner = "cleared"
  /\ owner' = "handling"
  /\ OwnerOnly /\ UNCHANGED <<status, raising, channel>>

\* The callback, trusted code that may take any time, returns or raises.
CallbackReturns ==
  /\ owner = "handling"
  /\ \/ owner' = "handled" /\ UNCHANGED <<status, raising>>
     \/ Raise
  /\ OwnerOnly /\ UNCHANGED channel

\* The answer is sent; a peer that does not read holds it up.
Reply ==
  /\ owner = "handled" /\ lock = None
  /\ MayServe
  /\ owner' = "looking"
  /\ OwnerOnly /\ UNCHANGED <<status, raising, channel>>

-----------------------------------------------------------------------------
(* supervise: WorkerLifetime.close and the outcome *)

StopMonitor ==
  /\ owner = "closing"
  /\ stop' = TRUE
  /\ owner' = "joining"
  /\ UNCHANGED <<process, cancel, expired, watch, lock, result, channel, misfired>>

\* Variant with a fault: close does not wait for the monitor.
JoinNobody ==
  /\ owner = "joining"
  /\ owner' = "last"
  /\ OwnerOnly /\ UNCHANGED <<status, raising, channel>>

Join ==
  /\ owner = "joining"
  /\ monitor \in {"unstarted", "done"}
  /\ owner' = "last"
  /\ OwnerOnly /\ UNCHANGED <<status, raising, channel>>

LastBeginsKill ==
  /\ owner = "last"
  /\ BeginKill("owner")
  /\ UNCHANGED <<process, cancel, expired, watch, stop, owner, result, channel, misfired>>

LastSignals ==
  /\ owner = "last" /\ lock = "owner"
  /\ SignalGroup
  /\ owner' = "reaping"
  /\ UNCHANGED <<ending, cancel, expired, watch, stop, result, channel>>

\* process.wait releases the identity of the worker; it takes no lock.
Reap ==
  /\ owner = "reaping"
  /\ worker = "zombie"
  /\ worker' = "reaped"
  /\ owner' = "finishing"
  /\ UNCHANGED <<ending, group, cancel, expired, watch, stop, lock, result, channel, misfired>>

\* Variant with a fault: what the monitor did is not asked.
OwnStatus == status

FinalStatus == IF status # None THEN status ELSE noticed

\* Variant with a fault: the way the worker ended is returned as it is.
ByExitAlone == IF ending = "zero" THEN {"completed", "protocol_error"} ELSE {ending}

\* Without a status the exit decides; an exit with zero still needs a result.
ByExit == IF ending = "zero" THEN {"completed", "protocol_error"} ELSE {"failed"}

Finish ==
  /\ owner = "finishing"
  /\ owner' = "returned"
  /\ outcome' \in IF raising \/ broken THEN {"raised"}
                  ELSE IF FinalStatus # None THEN {FinalStatus} ELSE ByExit
  /\ UNCHANGED <<process, cancel, expired, watch, stop, lock, status, raising,
                 channel, misfired>>

-----------------------------------------------------------------------------
(* Specification *)

Environment ==
  Exit \/ Fork \/ DescendantsEnd \/ Request \/ Cancel \/ Expire \/ Interrupt

Monitor == Watch \/ MonitorBeginsKill \/ MonitorSignals

\* What the owner does without waiting for a peer or for a callback.
Owner ==
  \/ Start \/ Look \/ LoopBeginsKill \/ LoopSignals \/ Select \/ Wait
  \/ Enter \/ BreakOffServing \/ Dispatch
  \/ StopMonitor \/ Join \/ LastBeginsKill \/ LastSignals \/ Reap \/ Finish

Next ==
  \/ Environment \/ Monitor \/ WatchBreaks \/ Owner
  \/ Receive \/ CallbackReturns \/ Reply
  \/ owner = "returned" /\ UNCHANGED vars

\* Threads run; callbacks and peers may stall.
Spec == Init /\ [][Next]_vars /\ WF_vars(Monitor) /\ WF_vars(Owner)

-----------------------------------------------------------------------------
(* Properties *)

\* No request is answered that was not made.
QueueBound == requests \in 0..made /\ made \in 0..MaxRequests

ProcessTypes ==
  /\ worker \in {"running", "doomed", "zombie", "reaped"}
  /\ ending \in {"none", "zero", "nonzero", "killed"}
  /\ group \in {"none", "alive", "doomed"}
  /\ cancel \in BOOLEAN /\ expired \in BOOLEAN
  /\ misfired \in BOOLEAN

WatchTypes ==
  /\ monitor \in {"unstarted", "watching", "killing", "done"}
  /\ noticed \in {"cancelled", "timed_out", None}
  /\ broken \in BOOLEAN /\ stop \in BOOLEAN
  /\ lock \in {"monitor", "owner", None}

OwnerTypes ==
  /\ owner \in OwnerAt
  /\ status \in Stopped \cup {None} /\ raising \in BOOLEAN
  /\ outcome \in Outcomes \cup {None}
  /\ registered \in BOOLEAN

TypeOK == ProcessTypes /\ WatchTypes /\ OwnerTypes /\ QueueBound

\* No signal is sent after the worker was reaped, when its number may belong
\* to a process of somebody else: the two threads kill under one lock, but the
\* reaping takes no lock, and only the order of close keeps them apart.
NoLateSignal == ~misfired

\* Once supervise is over, normally or by an exception, the worker is reaped
\* and its descendants were signalled; and it never takes its own kill for
\* the worker's failure, nor a failure for completion.
OutcomeIsTrue ==
  outcome # None =>
    /\ worker = "reaped" /\ group # "alive"
    /\ outcome \in {"completed", "protocol_error"} => ending = "zero"
    /\ outcome = "failed" => ending = "nonzero"

\* After a cancellation or the deadline the group of the worker is stopped,
\* also when a callback of the owner never returns.
StopsTheGroup ==
  cancel \/ expired ~> worker # "running" /\ group # "alive"
=============================================================================
