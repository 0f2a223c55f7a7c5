------------------------------ MODULE RunProofs ------------------------------
(***************************************************************************)
(* Safety of what one run owns.  Of its supervised worker                  *)
(* (WorkerSupervision), for any number of requests: the types, that no     *)
(* signal is sent to a group that was given up, and that the outcome says  *)
(* what happened to the worker.  Of its retained events (EventBuffer), for *)
(* any texts, limits and readers: the types, that a reader accounts for    *)
(* every number, and that what was given out is durable.                   *)
(***************************************************************************)
EXTENDS WorkerSupervision, EventBuffer, SequenceTheorems, FiniteSetTheorems, TLAPS

\* Where supervise has left its loop, and where the monitor was joined.
Leaving == {"closing", "joining", "last", "reaping", "finishing", "returned"}
Joined == {"last", "reaping", "finishing", "returned"}

\* The lock is held only for a signal, and never by a monitor that was joined.
LockInv ==
  /\ lock = "monitor" => monitor = "killing"
  /\ lock = "owner" => owner \in {"exited", "last"}
  /\ owner = "starting" => monitor = "unstarted"
  /\ owner \in Joined => monitor \in {"unstarted", "done"}

\* The identity of the worker is released only after its end and the last
\* signal, and every signal was sent before.
IdentityInv ==
  /\ worker = "reaped" <=> owner \in {"finishing", "returned"}
  /\ ~misfired

\* A worker that is signalled while it runs leaves a trace outside of it.
Explained ==
  noticed # None \/ broken \/ status # None \/ raising

\* Whoever signals has seen the worker's end or recorded a reason.
ReasonInv ==
  /\ worker \in {"running", "doomed"} <=> ending = "none"
  /\ monitor = "killing" => noticed # None \/ broken \/ Ended
  /\ owner = "exited" => Ended
  /\ owner \in Leaving => status # None \/ raising \/ Ended
  /\ worker = "doomed" \/ ending = "killed" => Explained

\* From the last signal on nothing of the group runs, and nothing starts.
GroupInv ==
  /\ owner \in {"reaping", "finishing", "returned"} => worker # "running" /\ group # "alive"
  /\ outcome # None => owner = "returned"

\* A request is received only while one waits.
QueueInv == owner = "receiving" => requests > 0

Inv ==
  /\ TypeOK /\ LockInv /\ IdentityInv
  /\ ReasonInv /\ GroupInv /\ QueueInv /\ OutcomeIsTrue
-----------------------------------------------------------------------------
\* The initial state satisfies the invariant.
LEMMA InitInv == Init => Inv
<1> SUFFICES ASSUME Init PROVE Inv
  OBVIOUS
<1> USE SupervisionAssumption DEF Init
<1>1. TypeOK
  <2>1. QueueBound
    BY DEF QueueBound
  <2>2. QED
    BY <2>1 DEF TypeOK, ProcessTypes, WatchTypes, OwnerTypes, OwnerAt
<1>2. LockInv /\ IdentityInv
  BY DEF LockInv, IdentityInv, Joined
<1>3. ReasonInv
  BY DEF ReasonInv, Explained, Leaving
<1>4. GroupInv /\ QueueInv /\ OutcomeIsTrue
  BY DEF GroupInv, QueueInv, OutcomeIsTrue
<1>5. QED
  BY <1>1, <1>2, <1>3, <1>4 DEF Inv

\* The queue of the channel: only Request and Receive change it, and only
\* Enter begins to receive.
LEMMA NextQueue ==
  QueueBound /\ QueueInv /\ [Next]_vars => QueueBound' /\ QueueInv'
<1> SUFFICES ASSUME QueueBound, QueueInv, [Next]_vars PROVE QueueBound' /\ QueueInv'
  OBVIOUS
<1> USE SupervisionAssumption DEF QueueBound, QueueInv, channel, result
<1>1. CASE Request
  BY <1>1 DEF Request
<1>2. CASE Receive
  BY <1>2 DEF Receive, Raise, BreakOff
<1>3. CASE Environment
  BY <1>1, <1>3 DEF Environment, Exit, Fork, DescendantsEnd, Cancel, Expire, Interrupt
<1>4. CASE Monitor \/ WatchBreaks
  BY <1>4 DEF Monitor, Watch, WatchBreaks, MonitorBeginsKill, MonitorSignals
<1>5. CASE Owner
  <2>1. CASE Start \/ Look \/ LoopBeginsKill \/ LoopSignals \/ Select \/ Wait
    BY <2>1 DEF Start, Look, Leave, Raise, BreakOff, LoopBeginsKill, LoopSignals,
                Select, Wait
  <2>2. CASE Enter \/ BreakOffServing \/ Dispatch
    BY <2>2 DEF Enter, BreakOffServing, BreakOff, Dispatch
  <2>3. CASE StopMonitor \/ Join \/ LastBeginsKill \/ LastSignals \/ Reap \/ Finish
    BY <2>3 DEF StopMonitor, Join, LastBeginsKill, LastSignals, Reap, Finish
  <2>4. QED
    BY <1>5, <2>1, <2>2, <2>3 DEF Owner
<1>6. CASE CallbackReturns \/ Reply
  BY <1>6 DEF CallbackReturns, Raise, BreakOff, Reply
<1>7. CASE UNCHANGED vars
  BY <1>7 DEF vars
<1>8. QED
  BY <1>1, <1>2, <1>3, <1>4, <1>5, <1>6, <1>7 DEF Next

\* The types of the processes and of time.
LEMMA NextProcessTypes == TypeOK /\ [Next]_vars => ProcessTypes'
<1> SUFFICES ASSUME TypeOK, [Next]_vars PROVE ProcessTypes'
  OBVIOUS
<1> USE SupervisionAssumption DEF TypeOK, ProcessTypes, process
<1>1. CASE Exit
  BY <1>1 DEF Exit
<1>2. CASE Fork
  BY <1>2 DEF Fork
<1>3. CASE DescendantsEnd
  BY <1>3 DEF DescendantsEnd
<1>4. CASE Cancel
  BY <1>4 DEF Cancel
<1>5. CASE Expire
  BY <1>5 DEF Expire
<1>6. CASE MonitorSignals
  BY <1>6 DEF MonitorSignals, SignalGroup
<1>7. CASE LoopSignals
  BY <1>7 DEF LoopSignals, SignalGroup
<1>8. CASE LastSignals
  BY <1>8 DEF LastSignals, SignalGroup
<1>9. CASE Reap
  BY <1>9 DEF Reap
<1>10. CASE Request \/ Interrupt \/ Watch \/ WatchBreaks \/ MonitorBeginsKill
  BY <1>10 DEF Request, Interrupt, Watch, WatchBreaks, MonitorBeginsKill,
     OwnerOnly
<1>11. CASE Start \/ Look \/ LoopBeginsKill \/ Select \/ Wait
  BY <1>11 DEF Start, Look, LoopBeginsKill, Select, Wait, Leave,
     OwnerOnly
<1>12. CASE Enter \/ BreakOffServing \/ Dispatch \/ Receive \/ CallbackReturns
         \/ Reply
  BY <1>12 DEF Enter, BreakOffServing, Dispatch, Receive,
     CallbackReturns, Reply, OwnerOnly
<1>13. CASE StopMonitor \/ Join \/ LastBeginsKill \/ Finish
  BY <1>13 DEF StopMonitor, Join, LastBeginsKill, Finish, OwnerOnly
<1>14. CASE UNCHANGED vars
  BY <1>14 DEF vars
<1>15. QED
  BY <1>1, <1>2, <1>3, <1>4, <1>5, <1>6, <1>7, <1>8, <1>9, <1>10, <1>11,
     <1>12, <1>13, <1>14
     DEF Next, Environment, Monitor, Owner

\* The types of the monitor and of the lock.
LEMMA NextWatchTypes == TypeOK /\ [Next]_vars => WatchTypes'
<1> SUFFICES ASSUME TypeOK, [Next]_vars PROVE WatchTypes'
  OBVIOUS
<1> USE SupervisionAssumption DEF TypeOK, WatchTypes, watch
<1>1. CASE Watch
  BY <1>1 DEF Watch, Notice
<1>2. CASE WatchBreaks
  BY <1>2 DEF WatchBreaks
<1>3. CASE MonitorBeginsKill
  BY <1>3 DEF MonitorBeginsKill, BeginKill
<1>4. CASE MonitorSignals
  BY <1>4 DEF MonitorSignals, SignalGroup
<1>5. CASE Start
  BY <1>5 DEF Start
<1>6. CASE LoopBeginsKill
  BY <1>6 DEF LoopBeginsKill, BeginKill
<1>7. CASE LoopSignals
  BY <1>7 DEF LoopSignals, SignalGroup
<1>8. CASE StopMonitor
  BY <1>8 DEF StopMonitor
<1>9. CASE LastBeginsKill
  BY <1>9 DEF LastBeginsKill, BeginKill
<1>10. CASE LastSignals
  BY <1>10 DEF LastSignals, SignalGroup
<1>11. CASE Exit \/ Fork \/ DescendantsEnd \/ Request \/ Cancel \/ Expire \/
         Interrupt
  BY <1>11 DEF Exit, Fork, DescendantsEnd, Request, Cancel, Expire,
     Interrupt, OwnerOnly
<1>12. CASE Look \/ Select \/ Wait
  BY <1>12 DEF Look, Select, Wait, Leave, OwnerOnly
<1>13. CASE Enter \/ BreakOffServing \/ Dispatch \/ Receive \/ CallbackReturns
         \/ Reply
  BY <1>13 DEF Enter, BreakOffServing, Dispatch, Receive,
     CallbackReturns, Reply, OwnerOnly
<1>14. CASE Join \/ Reap \/ Finish
  BY <1>14 DEF Join, Reap, Finish, OwnerOnly
<1>15. CASE UNCHANGED vars
  BY <1>15 DEF vars
<1>16. QED
  BY <1>1, <1>2, <1>3, <1>4, <1>5, <1>6, <1>7, <1>8, <1>9, <1>10, <1>11,
     <1>12, <1>13, <1>14, <1>15
     DEF Next, Environment, Monitor, Owner

\* The types of the owner and of what it returns.
LEMMA NextOwnerTypes == TypeOK /\ [Next]_vars => OwnerTypes'
<1> SUFFICES ASSUME TypeOK, [Next]_vars PROVE OwnerTypes'
  OBVIOUS
<1> USE SupervisionAssumption DEF TypeOK, WatchTypes, OwnerTypes, OwnerAt, result, channel
<1>1. CASE Interrupt
  BY <1>1 DEF Interrupt, OwnerOnly, Stopped
<1>2. CASE Start
  BY <1>2 DEF Start
<1>3. CASE Look
  BY <1>3 DEF Look, OwnerOnly, Leave, Notice, Raise, BreakOff, Stopped
<1>4. CASE LoopSignals
  BY <1>4 DEF LoopSignals, SignalGroup
<1>5. CASE Select
  BY <1>5 DEF Select, OwnerOnly, Stopped
<1>6. CASE Wait
  BY <1>6 DEF Wait, OwnerOnly, Notice, Raise, BreakOff, Stopped
<1>7. CASE Enter
  BY <1>7 DEF Enter, OwnerOnly, BreakOff, Notice, Stopped
<1>8. CASE BreakOffServing
  BY <1>8 DEF BreakOffServing, OwnerOnly, BreakOff, Notice, Stopped
<1>9. CASE Dispatch
  BY <1>9 DEF Dispatch, OwnerOnly
<1>10. CASE StopMonitor
  BY <1>10 DEF StopMonitor
<1>11. CASE Join
  BY <1>11 DEF Join, OwnerOnly
<1>12. CASE LastSignals
  BY <1>12 DEF LastSignals, SignalGroup
<1>13. CASE Reap
  BY <1>13 DEF Reap
<1>14. CASE Finish
  BY <1>14 DEF Finish, FinalStatus, ByExit, Stopped, Outcomes
<1>15. CASE Receive
  BY <1>15 DEF Receive, OwnerOnly, Raise, BreakOff, Notice, Stopped
<1>16. CASE CallbackReturns
  BY <1>16 DEF CallbackReturns, OwnerOnly, Raise, BreakOff, Notice, Stopped
<1>17. CASE Reply
  BY <1>17 DEF Reply, OwnerOnly
<1>18. CASE Exit \/ Fork \/ DescendantsEnd \/ Request \/ Cancel \/ Expire
  BY <1>18 DEF Exit, Fork, DescendantsEnd, Request, Cancel, Expire
<1>19. CASE Watch \/ WatchBreaks \/ MonitorBeginsKill \/ MonitorSignals \/
         LoopBeginsKill \/ LastBeginsKill
  BY <1>19 DEF Watch, WatchBreaks, MonitorBeginsKill, MonitorSignals,
     LoopBeginsKill, LastBeginsKill
<1>20. CASE UNCHANGED vars
  BY <1>20 DEF vars
<1>21. QED
  BY <1>1, <1>2, <1>3, <1>4, <1>5, <1>6, <1>7, <1>8, <1>9, <1>10, <1>11,
     <1>12, <1>13, <1>14, <1>15, <1>16, <1>17, <1>18, <1>19, <1>20
     DEF Next, Environment, Monitor, Owner

\* Every step preserves the types.
LEMMA NextTypes == TypeOK /\ QueueInv /\ [Next]_vars => TypeOK'
BY NextProcessTypes, NextWatchTypes, NextOwnerTypes, NextQueue DEF TypeOK

\* The lock: a signal is sent by its holder alone, and close joins the monitor.
LEMMA NextLockInv ==
  LockInv /\ [Next]_vars => LockInv'
<1> SUFFICES ASSUME LockInv, [Next]_vars PROVE LockInv'
  OBVIOUS
<1> USE SupervisionAssumption DEF LockInv, Joined, watch, result, channel
<1>1. CASE Interrupt
  BY <1>1 DEF Interrupt, OwnerOnly
<1>2. CASE Watch
  BY <1>2 DEF Watch, Notice
<1>3. CASE WatchBreaks
  BY <1>3 DEF WatchBreaks
<1>4. CASE MonitorBeginsKill
  BY <1>4 DEF MonitorBeginsKill, BeginKill
<1>5. CASE MonitorSignals
  BY <1>5 DEF MonitorSignals, SignalGroup
<1>6. CASE Start
  BY <1>6 DEF Start
<1>7. CASE Look
  BY <1>7 DEF Look, OwnerOnly, Leave, Raise, BreakOff
<1>8. CASE LoopBeginsKill
  BY <1>8 DEF LoopBeginsKill, BeginKill
<1>9. CASE LoopSignals
  BY <1>9 DEF LoopSignals, SignalGroup
<1>10. CASE Select
  BY <1>10 DEF Select, OwnerOnly
<1>11. CASE Wait
  BY <1>11 DEF Wait, OwnerOnly, Raise, BreakOff
<1>12. CASE Enter
  BY <1>12 DEF Enter, OwnerOnly, BreakOff
<1>13. CASE BreakOffServing
  BY <1>13 DEF BreakOffServing, OwnerOnly, BreakOff
<1>14. CASE Dispatch
  BY <1>14 DEF Dispatch, OwnerOnly
<1>15. CASE StopMonitor
  BY <1>15 DEF StopMonitor
<1>16. CASE Join
  BY <1>16 DEF Join, OwnerOnly
<1>17. CASE LastBeginsKill
  BY <1>17 DEF LastBeginsKill, BeginKill
<1>18. CASE LastSignals
  BY <1>18 DEF LastSignals, SignalGroup
<1>19. CASE Reap
  BY <1>19 DEF Reap
<1>20. CASE Finish
  BY <1>20 DEF Finish, FinalStatus, ByExit
<1>21. CASE Receive
  BY <1>21 DEF Receive, OwnerOnly, Raise, BreakOff
<1>22. CASE CallbackReturns
  BY <1>22 DEF CallbackReturns, OwnerOnly, Raise, BreakOff
<1>23. CASE Reply
  BY <1>23 DEF Reply, OwnerOnly
<1>24. CASE Exit \/ Fork \/ DescendantsEnd \/ Request \/ Cancel \/ Expire
  BY <1>24 DEF Exit, Fork, DescendantsEnd, Request, Cancel, Expire
<1>25. CASE UNCHANGED vars
  BY <1>25 DEF vars
<1>26. QED
  BY <1>1, <1>2, <1>3, <1>4, <1>5, <1>6, <1>7, <1>8, <1>9, <1>10, <1>11,
     <1>12, <1>13, <1>14, <1>15, <1>16, <1>17, <1>18, <1>19, <1>20, <1>21,
     <1>22, <1>23, <1>24, <1>25
     DEF Next, Environment, Monitor, Owner

\* The identity of the worker: whoever signals finds it held.
LEMMA NextIdentityInv ==
  LockInv /\ IdentityInv /\ [Next]_vars => IdentityInv'
<1> SUFFICES ASSUME LockInv /\ IdentityInv, [Next]_vars PROVE IdentityInv'
  OBVIOUS
<1> USE SupervisionAssumption DEF LockInv, IdentityInv, Joined, process, result, channel
<1>1. CASE Exit
  BY <1>1 DEF Exit
<1>2. CASE Interrupt
  BY <1>2 DEF Interrupt, OwnerOnly
<1>3. CASE MonitorSignals
  BY <1>3 DEF MonitorSignals, SignalGroup
<1>4. CASE Start
  BY <1>4 DEF Start
<1>5. CASE Look
  BY <1>5 DEF Look, OwnerOnly, Leave, Raise, BreakOff
<1>6. CASE LoopSignals
  BY <1>6 DEF LoopSignals, SignalGroup
<1>7. CASE Select
  BY <1>7 DEF Select, OwnerOnly
<1>8. CASE Wait
  BY <1>8 DEF Wait, OwnerOnly, Raise, BreakOff
<1>9. CASE Enter
  BY <1>9 DEF Enter, OwnerOnly, BreakOff
<1>10. CASE BreakOffServing
  BY <1>10 DEF BreakOffServing, OwnerOnly, BreakOff
<1>11. CASE Dispatch
  BY <1>11 DEF Dispatch, OwnerOnly
<1>12. CASE StopMonitor
  BY <1>12 DEF StopMonitor
<1>13. CASE Join
  BY <1>13 DEF Join, OwnerOnly
<1>14. CASE LastSignals
  BY <1>14 DEF LastSignals, SignalGroup
<1>15. CASE Reap
  BY <1>15 DEF Reap
<1>16. CASE Finish
  BY <1>16 DEF Finish, FinalStatus, ByExit
<1>17. CASE Receive
  BY <1>17 DEF Receive, OwnerOnly, Raise, BreakOff
<1>18. CASE CallbackReturns
  BY <1>18 DEF CallbackReturns, OwnerOnly, Raise, BreakOff
<1>19. CASE Reply
  BY <1>19 DEF Reply, OwnerOnly
<1>20. CASE Fork \/ DescendantsEnd \/ Request \/ Cancel \/ Expire
  BY <1>20 DEF Fork, DescendantsEnd, Request, Cancel, Expire
<1>21. CASE Watch \/ WatchBreaks \/ MonitorBeginsKill
  BY <1>21 DEF Watch, WatchBreaks, MonitorBeginsKill
<1>22. CASE LoopBeginsKill
  BY <1>22 DEF LoopBeginsKill
<1>23. CASE LastBeginsKill
  BY <1>23 DEF LastBeginsKill
<1>24. CASE UNCHANGED vars
  BY <1>24 DEF vars
<1>25. QED
  BY <1>1, <1>2, <1>3, <1>4, <1>5, <1>6, <1>7, <1>8, <1>9, <1>10, <1>11,
     <1>12, <1>13, <1>14, <1>15, <1>16, <1>17, <1>18, <1>19, <1>20, <1>21,
     <1>22, <1>23, <1>24
     DEF Next, Environment, Monitor, Owner

\* The group after the last signal.
LEMMA NextGroupInv ==
  TypeOK /\ IdentityInv /\ GroupInv /\ [Next]_vars => GroupInv'
<1> SUFFICES ASSUME TypeOK /\ IdentityInv /\ GroupInv, [Next]_vars PROVE GroupInv'
  OBVIOUS
<1> USE SupervisionAssumption DEF TypeOK, ProcessTypes, IdentityInv, GroupInv, process, result, channel
<1>1. CASE Exit
  BY <1>1 DEF Exit
<1>2. CASE Fork
  BY <1>2 DEF Fork
<1>3. CASE Interrupt
  BY <1>3 DEF Interrupt, OwnerOnly
<1>4. CASE MonitorSignals
  BY <1>4 DEF MonitorSignals, SignalGroup
<1>5. CASE Start
  BY <1>5 DEF Start
<1>6. CASE Look
  BY <1>6 DEF Look, OwnerOnly, Leave, Raise, BreakOff
<1>7. CASE LoopSignals
  BY <1>7 DEF LoopSignals, SignalGroup
<1>8. CASE Select
  BY <1>8 DEF Select, OwnerOnly
<1>9. CASE Wait
  BY <1>9 DEF Wait, OwnerOnly, Raise, BreakOff
<1>10. CASE Enter
  BY <1>10 DEF Enter, OwnerOnly, BreakOff
<1>11. CASE BreakOffServing
  BY <1>11 DEF BreakOffServing, OwnerOnly, BreakOff
<1>12. CASE Dispatch
  BY <1>12 DEF Dispatch, OwnerOnly
<1>13. CASE StopMonitor
  BY <1>13 DEF StopMonitor
<1>14. CASE Join
  BY <1>14 DEF Join, OwnerOnly
<1>15. CASE LastSignals
  BY <1>15 DEF LastSignals, SignalGroup
<1>16. CASE Reap
  BY <1>16 DEF Reap
<1>17. CASE Finish
  BY <1>17 DEF Finish, FinalStatus, ByExit
<1>18. CASE Receive
  BY <1>18 DEF Receive, OwnerOnly, Raise, BreakOff
<1>19. CASE CallbackReturns
  BY <1>19 DEF CallbackReturns, OwnerOnly, Raise, BreakOff
<1>20. CASE Reply
  BY <1>20 DEF Reply, OwnerOnly
<1>21. CASE DescendantsEnd \/ Request \/ Cancel \/ Expire
  BY <1>21 DEF DescendantsEnd, Request, Cancel, Expire
<1>22. CASE Watch \/ WatchBreaks \/ MonitorBeginsKill
  BY <1>22 DEF Watch, WatchBreaks, MonitorBeginsKill
<1>23. CASE LoopBeginsKill
  BY <1>23 DEF LoopBeginsKill
<1>24. CASE LastBeginsKill
  BY <1>24 DEF LastBeginsKill
<1>25. CASE UNCHANGED vars
  BY <1>25 DEF vars
<1>26. QED
  BY <1>1, <1>2, <1>3, <1>4, <1>5, <1>6, <1>7, <1>8, <1>9, <1>10, <1>11,
     <1>12, <1>13, <1>14, <1>15, <1>16, <1>17, <1>18, <1>19, <1>20, <1>21,
     <1>22, <1>23, <1>24, <1>25
     DEF Next, Environment, Monitor, Owner

\* The reasons: no process of the worker is signalled without one.
LEMMA NextReasonInv ==
  TypeOK /\ LockInv /\ ReasonInv /\ [Next]_vars => ReasonInv'
<1> SUFFICES ASSUME TypeOK /\ LockInv /\ ReasonInv, [Next]_vars PROVE ReasonInv'
  OBVIOUS
<1> USE SupervisionAssumption DEF TypeOK, ProcessTypes, WatchTypes, LockInv, ReasonInv, Explained, Ended,
       Leaving, Stopped, process, watch, result, channel
<1>1. CASE Exit
  BY <1>1 DEF Exit
<1>2. CASE Fork
  BY <1>2 DEF Fork
<1>3. CASE DescendantsEnd
  BY <1>3 DEF DescendantsEnd
<1>4. CASE Request
  BY <1>4 DEF Request
<1>5. CASE Cancel
  BY <1>5 DEF Cancel
<1>6. CASE Expire
  BY <1>6 DEF Expire
<1>7. CASE Interrupt
  BY <1>7 DEF Interrupt, OwnerOnly
<1>8. CASE Watch
  BY <1>8 DEF Watch, Notice
<1>9. CASE WatchBreaks
  BY <1>9 DEF WatchBreaks
<1>10. CASE MonitorBeginsKill
  BY <1>10 DEF MonitorBeginsKill, BeginKill
<1>11. CASE MonitorSignals
  BY <1>11 DEF MonitorSignals, SignalGroup
<1>12. CASE Start
  BY <1>12 DEF Start
<1>13. CASE Look
  BY <1>13 DEF Look, OwnerOnly, MustLeave, Leave, Notice, Raise, BreakOff
<1>14. CASE LoopBeginsKill
  BY <1>14 DEF LoopBeginsKill, BeginKill
<1>15. CASE LoopSignals
  BY <1>15 DEF LoopSignals, SignalGroup
<1>16. CASE Select
  BY <1>16 DEF Select, OwnerOnly
<1>17. CASE Wait
  BY <1>17 DEF Wait, OwnerOnly, MustLeave, Notice, Raise, BreakOff
<1>18. CASE Enter
  BY <1>18 DEF Enter, OwnerOnly, MayServe, BreakOff, Notice
<1>19. CASE BreakOffServing
  BY <1>19 DEF BreakOffServing, OwnerOnly, MayServe, BreakOff, Notice
<1>20. CASE Dispatch
  BY <1>20 DEF Dispatch, OwnerOnly
<1>21. CASE StopMonitor
  BY <1>21 DEF StopMonitor
<1>22. CASE Join
  BY <1>22 DEF Join, OwnerOnly
<1>23. CASE LastBeginsKill
  BY <1>23 DEF LastBeginsKill, BeginKill
<1>24. CASE LastSignals
  BY <1>24 DEF LastSignals, SignalGroup
<1>25. CASE Reap
  BY <1>25 DEF Reap
<1>26. CASE Finish
  BY <1>26 DEF Finish, FinalStatus, ByExit
<1>27. CASE Receive
  <2>1. /\ owner = "receiving" /\ ~Ended
        /\ \/ owner' = "cleared" /\ UNCHANGED <<status, raising>>
           \/ owner' = "closing" /\ (status' # None \/ raising')
    BY <1>27 DEF Receive, MayServe, Raise, BreakOff, Notice
  <2>2. UNCHANGED <<worker, ending, monitor, noticed, broken>>
    BY <1>27 DEF Receive, OwnerOnly
  <2>3. QED
    BY <2>1, <2>2
<1>28. CASE CallbackReturns
  BY <1>28 DEF CallbackReturns, OwnerOnly, Raise, BreakOff, Notice
<1>29. CASE Reply
  BY <1>29 DEF Reply, OwnerOnly
<1>30. CASE UNCHANGED vars
  BY <1>30 DEF vars
<1>31. QED
  BY <1>1, <1>2, <1>3, <1>4, <1>5, <1>6, <1>7, <1>8, <1>9, <1>10, <1>11,
     <1>12, <1>13, <1>14, <1>15, <1>16, <1>17, <1>18, <1>19, <1>20, <1>21,
     <1>22, <1>23, <1>24, <1>25, <1>26, <1>27, <1>28, <1>29, <1>30
     DEF Next, Environment, Monitor, Owner

\* The outcome: nothing of what it says changes afterwards.
LEMMA NextOutcomeIsTrue ==
  TypeOK /\ LockInv /\ IdentityInv /\ ReasonInv /\ GroupInv /\ OutcomeIsTrue /\ [Next]_vars => OutcomeIsTrue'
<1> SUFFICES ASSUME TypeOK /\ LockInv /\ IdentityInv /\ ReasonInv /\ GroupInv /\ OutcomeIsTrue, [Next]_vars PROVE OutcomeIsTrue'
  OBVIOUS
<1> USE SupervisionAssumption DEF OutcomeIsTrue, GroupInv, LockInv, IdentityInv, Joined, process, result
<1>1. CASE Exit
  BY <1>1 DEF Exit
<1>2. CASE Fork
  BY <1>2 DEF Fork
<1>3. CASE DescendantsEnd
  BY <1>3 DEF DescendantsEnd
<1>4. CASE MonitorSignals
  BY <1>4 DEF MonitorSignals, SignalGroup
<1>5. CASE LoopSignals
  BY <1>5 DEF LoopSignals, SignalGroup
<1>6. CASE LastSignals
  BY <1>6 DEF LastSignals, SignalGroup
<1>7. CASE Reap
  BY <1>7 DEF Reap
<1>8. CASE Finish
  <2>1. worker = "reaped" /\ group # "alive" /\ ending # "none"
    BY <1>8 DEF Finish, ReasonInv
  <2>2. outcome' \in {"completed", "protocol_error", "failed"} => ~Explained
    BY <1>8, SupervisionAssumption
       DEF Finish, FinalStatus, ByExit, Explained, TypeOK, WatchTypes, OwnerTypes, Stopped
  <2>3. outcome' \in {"completed", "protocol_error"} => ending = "zero"
    BY <1>8 DEF Finish, FinalStatus, ByExit, TypeOK, WatchTypes, OwnerTypes, Stopped
  <2>4. outcome' = "failed" => ending # "zero"
    BY <1>8 DEF Finish, FinalStatus, ByExit, TypeOK, WatchTypes, OwnerTypes, Stopped
  <2>5. UNCHANGED <<worker, ending, group>>
    BY <1>8 DEF Finish
  <2>6. QED
    BY <2>1, <2>2, <2>3, <2>4, <2>5 DEF ReasonInv, TypeOK, ProcessTypes
<1>9. CASE Request \/ Cancel \/ Expire \/ Interrupt
  BY <1>9 DEF Request, Cancel, Expire, Interrupt, OwnerOnly
<1>10. CASE Watch \/ WatchBreaks \/ MonitorBeginsKill
  BY <1>10 DEF Watch, WatchBreaks, MonitorBeginsKill
<1>11. CASE Start \/ Look \/ LoopBeginsKill \/ Select \/ Wait
  BY <1>11 DEF Start, Look, LoopBeginsKill, Select, Wait, OwnerOnly,
     Leave, Raise, BreakOff
<1>12. CASE Enter \/ BreakOffServing \/ Dispatch \/ Receive \/ CallbackReturns
         \/ Reply
  BY <1>12 DEF Enter, BreakOffServing, Dispatch, Receive,
     CallbackReturns, Reply, OwnerOnly, Raise, BreakOff
<1>13. CASE StopMonitor \/ Join \/ LastBeginsKill
  BY <1>13 DEF StopMonitor, Join, LastBeginsKill, OwnerOnly
<1>14. CASE UNCHANGED vars
  BY <1>14 DEF vars
<1>15. QED
  BY <1>1, <1>2, <1>3, <1>4, <1>5, <1>6, <1>7, <1>8, <1>9, <1>10, <1>11,
     <1>12, <1>13, <1>14
     DEF Next, Environment, Monitor, Owner

\* Every step preserves the invariant.
LEMMA NextInv == Inv /\ [Next]_vars => Inv'
BY NextTypes, NextQueue, NextLockInv, NextIdentityInv, NextGroupInv, NextReasonInv,
   NextOutcomeIsTrue DEF Inv, TypeOK

LEMMA Invariance == Spec => []Inv
<1>1. Init => Inv
  BY InitInv
<1>2. Inv /\ [Next]_vars => Inv'
  BY NextInv
<1>3. QED
  BY <1>1, <1>2, PTL DEF Spec

-----------------------------------------------------------------------------
\* The state of supervise, of its monitor and of the worker is well formed.
THEOREM SupervisionTypes == Spec => []TypeOK
<1>1. Inv => TypeOK
  BY DEF Inv
<1>2. QED
  BY <1>1, Invariance, PTL

\* killpg is never called for a worker that was reaped, whatever the two
\* threads of supervise do at the same time.
THEOREM SignalsStayOwned == Spec => []NoLateSignal
<1>1. Inv => NoLateSignal
  BY DEF Inv, IdentityInv, NoLateSignal
<1>2. QED
  BY <1>1, Invariance, PTL

\* What supervise returns, or raises, leaves nothing of the worker running and
\* takes neither its own kill for a failure nor a failure for completion.
THEOREM OutcomesAreTrue == Spec => []OutcomeIsTrue
<1>1. Inv => OutcomeIsTrue
  BY DEF Inv
<1>2. QED
  BY <1>1, Invariance, PTL

-----------------------------------------------------------------------------
(* The retained events of a run                                            *)

\* The assumptions of EventBuffer on the limits, the texts and Absent.
BufferConstants == BufferAssumption /\ AbsentAssumption

\* The numbers of the events kept follow one another up to the last one.
Consecutive(s) ==
  /\ Len(s.events) =< s.last
  /\ s.last > 0 => s.events # <<>>
  /\ \A i \in 1..Len(s.events) : s.events[i].sequence = s.last - Len(s.events) + i

\* An event is the one that was first published under its number.
Authentic(e) == e.sequence \in 1..Len(published) /\ published[e.sequence] = e.text

Faithful(s) ==
  /\ Consecutive(s) /\ s.last =< Len(published)
  /\ \A i \in 1..Len(s.events) : Authentic(s.events[i])

SnapshotsInv == \A s \in {disk, durable, raw} \ {Absent} : Faithful(s)

\* What is published next continues what was acknowledged last.
BuildingInv ==
  building # Absent =>
    /\ writer = "open" /\ failed
    /\ Consecutive(building) /\ building.events # <<>>
    /\ disk = raw \/ disk = building
    /\ disk = building => building.last = Len(published)
    /\ disk # building =>
         /\ building.last = raw.last + 1 /\ raw.last = Len(published)
         /\ \A i \in 1..(Len(building.events) - 1) : Authentic(building.events[i])

\* A writer that has not failed has acknowledged whatever was published, and
\* nobody publishes before it or after it.
WriterInv ==
  /\ writer \in {"new", "claimed"} =>
       disk = Absent /\ durable = Absent /\ published = <<>> /\ ~failed
  /\ writer = "open" => raw # Absent /\ raw = durable /\ disk # Absent
  /\ writer # "open" => raw = Absent /\ building = Absent /\ view = Absent
  /\ writer = "open" /\ ~failed => disk = raw /\ raw.last = Len(published)
  /\ durable # Absent => disk # Absent /\ durable.last =< disk.last

\* An event that no loss of power takes back.
Kept(e) == Authentic(e) /\ durable # Absent /\ e.sequence =< durable.last

GivenInv ==
  /\ view # Absent => Kept(view)
  /\ \A e \in given : Kept(e)

BufferInv ==
  /\ BufferTypeOK /\ SnapshotsInv /\ BuildingInv /\ WriterInv /\ GivenInv
  /\ ReadersAccountForAll

\* A set of natural numbers has a smallest: intervals are ordered by inclusion.
LEMMA Smallest ==
  ASSUME NEW S \in SUBSET Nat, S # {}
  PROVE  \E m \in S : \A n \in S : m =< n
  <1> DEFINE T == {0..n : n \in S}
  <1>1. T \subseteq FiniteSubsetsOf(Nat)
    <2>1. \A n \in S : IsFiniteSet(0..n) /\ 0..n \subseteq Nat
      BY FS_Interval
    <2>2. QED
      BY <2>1 DEF FiniteSubsetsOf
  <1>2. PICK x \in T : \A y \in T : ~(<<y, x>> \in StrictSubsetOrdering(Nat))
    <2>1. T # {}
      OBVIOUS
    <2>2. IsWellFoundedOn(StrictSubsetOrdering(Nat), FiniteSubsetsOf(Nat))
      BY FS_StrictSubsetOrderingWellFounded
    <2> HIDE DEF T
    <2>3. QED
      BY <1>1, <2>1, <2>2, WFMin
  <1>3. PICK m \in S : x = 0..m
    OBVIOUS
  <1>4. ASSUME NEW n \in S, n < m
        PROVE  FALSE
    <2>1. 0..n \subseteq 0..m /\ 0..n # 0..m
      BY <1>4
    <2>2. <<0..n, 0..m>> \in StrictSubsetOrdering(Nat)
      BY <2>1 DEF StrictSubsetOrdering
    <2>3. QED
      BY <1>2, <1>3, <2>2
  <1>5. QED
    BY <1>4

\* The size of no event, and of one: the fold of SizeOf is one function on the
\* sets of positions, which here are at most one.
LEMMA SizeOfFew ==
  /\ SizeOf(<<>>) = 0
  /\ \A e : Size[e.text] \in Nat => SizeOf(<<e>>) = Size[e.text]
  <1> DEFINE Steps(events, f) ==
               [s \in SUBSET DOMAIN events |->
                 IF s = {} THEN 0
                 ELSE f[s \ {Max(s)}] + Size[events[Max(s)].text]]
             Fold(events) == CHOOSE f : f = Steps(events, f)
  <1>1. ASSUME NEW events PROVE SizeOf(events) = Fold(events)[DOMAIN events]
    BY DEF SizeOf, FoldLeft, MapThenFoldSet
  <1>2. SizeOf(<<>>) = 0
    <2> DEFINE g == [s \in {{}} |-> 0]
    <2>1. DOMAIN <<>> = {} /\ SUBSET DOMAIN <<>> = {{}}
      OBVIOUS
    <2>2. g = Steps(<<>>, g)
      BY <2>1
    <2>3. Fold(<<>>) = Steps(<<>>, Fold(<<>>))
      BY <2>2
    <2> HIDE DEF Fold
    <2>4. Fold(<<>>)[{}] = 0
      BY <2>1, <2>3
    <2>5. QED
      BY <1>1, <2>1, <2>4
  <1>3. ASSUME NEW e, Size[e.text] \in Nat
        PROVE  SizeOf(<<e>>) = Size[e.text]
    <2> DEFINE g == [s \in {{}, {1}} |-> IF s = {} THEN 0 ELSE Size[e.text]]
    <2>1. DOMAIN <<e>> = {1} /\ SUBSET DOMAIN <<e>> = {{}, {1}} /\ <<e>>[1] = e
      OBVIOUS
    <2>2. Max({1}) = 1 /\ {1} \ {1} = {} /\ {1} # {}
      BY DEF Max
    <2>3. g = Steps(<<e>>, g)
      BY <1>3, <2>1, <2>2
    <2>4. Fold(<<e>>) = Steps(<<e>>, Fold(<<e>>))
      BY <2>3
    <2> HIDE DEF Fold
    <2>5. Fold(<<e>>)[{}] = 0
      BY <2>1, <2>4
    <2>6. Fold(<<e>>)[{1}] = Fold(<<e>>)[{}] + Size[e.text]
      BY <2>1, <2>2, <2>4
    <2>7. QED
      BY <1>1, <1>3, <2>1, <2>5, <2>6
  <1>4. QED
    BY <1>2, <1>3

\* What is kept is an end of the events, if the newest alone can be kept.
LEMMA EvictedIsEnd ==
  ASSUME BufferAssumption,
         NEW events \in Seq(Event), events # <<>>,
         Size[events[Len(events)].text] =< MaxSize
  PROVE  \E k \in 1..Len(events) :
           /\ Evicted(events) = SubSeq(events, k, Len(events))
           /\ Fits(SubSeq(events, k, Len(events)))
  <1> DEFINE Rest(i) == SubSeq(events, i, Len(events))
             Fitting == {i \in 1..Len(events) : Fits(Rest(i))}
  <1>1. Len(events) \in Nat \ {0} /\ Len(events) \in 1..Len(events)
    BY EmptySeq
  <1>2. Len(events) \in Fitting
    <2> DEFINE last == events[Len(events)]
    <2>1. last \in Event
      BY <1>1, ElementOfSeq
    <2>2. Rest(Len(events)) = <<last>>
      <3>1. /\ Rest(Len(events)) \in Seq(Event) /\ Len(Rest(Len(events))) = 1
            /\ Rest(Len(events))[1] = last
        BY <1>1, <2>1, SubSeqProperties
      <3>2. <<last>> \in Seq(Event) /\ Len(<<last>>) = 1 /\ <<last>>[1] = last
        BY <2>1
      <3> HIDE DEF Rest, last
      <3>3. \A i \in 1..1 : Rest(Len(events))[i] = <<last>>[i]
        BY <3>1, <3>2
      <3>4. QED
        BY <3>1, <3>2, <3>3, SeqEqual
    <2>3. SizeOf(<<last>>) = Size[last.text] /\ Len(<<last>>) = 1
      <3>1. Size[last.text] \in Nat
        BY <2>1 DEF Event, BufferAssumption
      <3>2. QED
        BY <3>1, SizeOfFew
    <2>4. Fits(<<last>>)
      BY <2>3 DEF Fits, BufferAssumption
    <2> HIDE DEF Rest
    <2>5. QED
      BY <1>1, <2>2, <2>4
  <1>3. PICK m \in Fitting : \A i \in Fitting : m =< i
    <2>1. Fitting \in SUBSET Nat /\ Fitting # {}
      BY <1>2
    <2> HIDE DEF Fitting
    <2>2. QED
      BY <2>1, Smallest
  <1> DEFINE Keep(i) == Fits(Rest(i)) /\ \A j \in 1..(i - 1) : ~Fits(Rest(j))
  <1>4. m \in 1..Len(events) /\ Keep(m)
    <2>1. m \in 1..Len(events) /\ Fits(Rest(m))
      BY <1>3
    <2>2. ASSUME NEW j \in 1..(m - 1) PROVE ~Fits(Rest(j))
      <3>1. j \in 1..Len(events) /\ ~(m =< j)
        BY <1>1, <2>1, <2>2
      <3>2. QED
        BY <1>3, <3>1
    <2>3. QED
      BY <2>1, <2>2
  <1> DEFINE keep == CHOOSE i \in 1..Len(events) : Keep(i)
  <1>5. keep \in 1..Len(events) /\ Keep(keep)
    <2> HIDE DEF Keep
    <2>1. QED
      BY <1>4
  <1>6. Evicted(events) = Rest(keep)
    BY DEF Evicted
  <1> HIDE DEF keep
  <1>7. QED
    BY <1>5, <1>6

\* What one more text makes of a snapshot.
LEMMA WithEventFacts ==
  ASSUME BufferAssumption, NEW s \in Snapshot, NEW t \in Texts,
         Consecutive(s), s.total + Size[t] =< MaxTotal, Size[t] =< MaxSize
  PROVE  LET b == WithEvent(s, t)
         IN  /\ b \in Snapshot /\ Fits(b.events) /\ b.total =< MaxTotal
             /\ Consecutive(b) /\ b.last = s.last + 1 /\ b.events # <<>>
             /\ \A i \in 1..(Len(b.events) - 1) :
                  \E j \in 1..Len(s.events) : b.events[i] = s.events[j]
  <1> DEFINE new == [sequence |-> s.last + 1, text |-> t]
             all == Append(s.events, new)
             b == WithEvent(s, t)
  <1>1. /\ s.last \in Nat /\ s.total \in Nat /\ s.events \in Seq(Event)
        /\ Len(s.events) \in Nat /\ Size[t] \in Nat
        /\ new \in Event /\ new.sequence = s.last + 1
    BY DEF Snapshot, Event, BufferAssumption
  <1> DEFINE n == Len(s.events)
  <1>2. /\ all \in Seq(Event) /\ Len(all) = n + 1 /\ all # <<>>
        /\ all[n + 1] = new /\ \A i \in 1..n : all[i] = s.events[i]
    BY <1>1, AppendProperties, EmptySeq
  <1>3. b = [last |-> s.last + 1, total |-> s.total + Size[t], events |-> Evicted(all)]
    BY DEF WithEvent, NextSequence
  <1> HIDE DEF all, b
  <1>4. all[Len(all)] = new
    BY <1>2
  <1>5. PICK k \in 1..Len(all) :
          Evicted(all) = SubSeq(all, k, Len(all)) /\ Fits(SubSeq(all, k, Len(all)))
    <2>1. Size[all[Len(all)].text] =< MaxSize
      BY <1>4
    <2>2. QED
      BY <1>2, <2>1, EvictedIsEnd
  <1> DEFINE kept == SubSeq(all, k, n + 1)
  <1>6. b.events = kept /\ Fits(kept)
    BY <1>2, <1>3, <1>5
  <1>7. /\ kept \in Seq(Event) /\ Len(kept) = n + 2 - k
        /\ \A i \in 1..(n + 2 - k) : kept[i] = all[k + i - 1]
    <2>1. k \in Int /\ n + 1 \in Int /\ k =< n + 1
      BY <1>1, <1>2, <1>5
    <2>2. \A i \in k..(n + 1) : all[i] \in Event
      BY <1>1, <1>2, <1>5, ElementOfSeq
    <2>3. QED
      BY <2>1, <2>2, SubSeqProperties
  <1> HIDE DEF kept, n
  <1>9. n \in Nat /\ n =< s.last /\ n = Len(s.events) /\ k \in 1..(n + 1)
    BY <1>1, <1>2, <1>5 DEF n, Consecutive
  <1>8. Len(kept) = n + 2 - k
    BY <1>7
  <1>10. b.last = s.last + 1 /\ b.total = s.total + Size[t]
    BY <1>3
  <1> DEFINE p == s.last
             q == b.last
             m == Len(kept)
  <1>11. p \in Nat /\ q = p + 1 /\ m = n + 2 - k /\ n \in Nat /\ k \in Nat
    BY <1>1, <1>8, <1>9, <1>10
  <1>12. ASSUME NEW i \in 1..Len(kept)
         PROVE  kept[i].sequence = b.last - Len(kept) + i
    <2>1. CASE k + i - 1 = n + 1
      <3>1. kept[i] = all[n + 1]
        BY <1>7, <1>8, <2>1
      <3>2. kept[i].sequence = s.last + 1
        BY <1>1, <1>2, <3>1
      <3>3. s.last + 1 = b.last - Len(kept) + i
        <4> HIDE DEF p, q, m
        <4>1. p + 1 = q - m + i
          BY <1>11, <2>1
        <4>2. QED
          BY <4>1 DEF p, q, m
      <3>4. QED
        BY <3>2, <3>3
    <2>2. CASE k + i - 1 # n + 1
      <3>1. k + i - 1 \in 1..n
        BY <1>8, <1>9, <2>2
      <3>2. kept[i] = all[k + i - 1]
        BY <1>7, <1>8
      <3>3. kept[i] = s.events[k + i - 1]
        BY <1>2, <3>1, <3>2 DEF n
      <3>4. kept[i].sequence = s.last - n + (k + i - 1)
        BY <1>9, <3>1, <3>3 DEF Consecutive
      <3>5. s.last - n + (k + i - 1) = b.last - Len(kept) + i
        <4> HIDE DEF p, q, m
        <4>1. i \in Int
          BY DEF m
        <4>2. p - n + (k + i - 1) = q - m + i
          BY <1>11, <4>1
        <4>3. QED
          BY <4>2 DEF p, q, m
      <3>6. QED
        BY <3>4, <3>5
    <2>3. QED
      BY <2>1, <2>2
  <1>13. ASSUME NEW i \in 1..(Len(kept) - 1)
         PROVE  \E j \in 1..n : kept[i] = s.events[j]
    <2>1. k + i - 1 \in 1..n /\ i \in 1..(n + 2 - k)
      BY <1>8, <1>9
    <2>2. kept[i] = s.events[k + i - 1]
      BY <1>2, <1>7, <2>1 DEF n
    <2>3. QED
      BY <2>1, <2>2
  <1>14. kept # <<>> /\ Len(kept) =< b.last
    <2>1. Len(kept) > 0 /\ Len(kept) =< s.last + 1
      BY <1>1, <1>8, <1>9
    <2>2. QED
      BY <1>10, <2>1
  <1>15. Consecutive(b)
    BY <1>6, <1>12, <1>14 DEF Consecutive
  <1>16. b \in Snapshot /\ b.total =< MaxTotal
    BY <1>1, <1>3, <1>6, <1>7 DEF Snapshot
  <1>17. QED
    BY <1>6, <1>9, <1>10, <1>13, <1>14, <1>15, <1>16 DEF n, b

\* A page accounts for the numbers between the cursors, whichever snapshot it is
\* taken from.
LEMMA PageAccounts ==
  ASSUME BufferAssumption, BufferTypeOK, ReadersAccountForAll,
         NEW s \in Snapshot, Faithful(s), NEW r \in Readers, Read(r, s),
         UNCHANGED published
  PROVE  /\ reader' \in [Readers -> Cursor]
         /\ ReadersAccountForAll'
         /\ \A e \in reader'[r].seen \ reader[r].seen :
              e \in Event /\ Authentic(e) /\ e.sequence =< s.last
  <1> DEFINE c == reader[r]
             after == c.after
             first == s.last - Len(s.events) + 1
             cursor == IF after < first - 1 THEN first - 1 ELSE after
             New(n) == {e \in Range(s.events) : e.sequence \in (cursor + 1)..(cursor + n)}
             Later(n) == [after |-> cursor + n, seen |-> c.seen \cup New(n),
                          missed |-> c.missed \cup ((after + 1)..(first - 1))]
  <1>1. /\ reader \in [Readers -> Cursor]
        /\ c.after \in Nat /\ c.seen \subseteq Event /\ c.missed \subseteq Nat \ {0}
        /\ c = [after |-> c.after, seen |-> c.seen, missed |-> c.missed]
    BY DEF BufferTypeOK, Cursor
  <1>2. PICK n \in 0..PageLimit :
          cursor + n =< s.last /\ reader' = [reader EXCEPT ![r] = Later(n)]
    BY DEF Read
  <1>3. after =< s.last
    BY DEF Read
  <1>4. /\ s.last \in Nat /\ s.events \in Seq(Event) /\ Len(s.events) \in Nat
        /\ Len(s.events) =< s.last /\ s.last =< Len(published) /\ Len(published) \in Nat
    BY DEF Snapshot, Faithful, Consecutive, BufferTypeOK
  <1>5. /\ first \in Nat /\ first >= 1 /\ first - 1 =< s.last /\ cursor \in Nat
        /\ cursor >= first - 1 /\ cursor >= after /\ n \in Nat
    <2>1. PageLimit \in Nat
      BY DEF BufferAssumption
    <2>2. QED
      BY <1>1, <1>4, <2>1
  <1>6. ASSUME NEW e \in New(n)
        PROVE  /\ e \in Event /\ Authentic(e) /\ e.sequence =< s.last
               /\ e.sequence \in (cursor + 1)..(cursor + n)
    <2>1. PICK i \in 1..Len(s.events) : e = s.events[i]
      BY <1>4 DEF Range
    <2>2. e \in Event /\ Authentic(e)
      BY <1>4, <2>1, ElementOfSeq DEF Faithful
    <2>3. e.sequence \in (cursor + 1)..(cursor + n)
      OBVIOUS
    <2>4. QED
      BY <1>2, <1>4, <1>5, <2>2, <2>3
  <1>7. ASSUME NEW k \in (cursor + 1)..(cursor + n)
        PROVE  \E e \in New(n) : e.sequence = k
    <2> DEFINE i == k - (first - 1)
    <2>1. i \in 1..Len(s.events) /\ s.last - Len(s.events) + i = k
      <3> DEFINE p == s.last
                 l == Len(s.events)
      <3>1. /\ p \in Nat /\ l \in Nat /\ l =< p /\ first = p - l + 1
            /\ cursor \in Nat /\ cursor >= first - 1 /\ n \in Nat /\ cursor + n =< p
        BY <1>2, <1>4, <1>5
      <3> HIDE DEF p, l, first, cursor
      <3>2. i \in 1..l /\ p - l + i = k
        BY <3>1
      <3>3. QED
        BY <3>2 DEF p, l
    <2> HIDE DEF i
    <2>2. s.events[i].sequence = k
      BY <2>1 DEF Faithful, Consecutive
    <2>3. s.events[i] \in Range(s.events)
      BY <1>4, <2>1 DEF Range
    <2>4. QED
      BY <2>2, <2>3
  <1> HIDE DEF New, cursor, first
  <1> DEFINE d == Later(n)
  <1>8. d \in Cursor
    <2>1. (after + 1)..(first - 1) \subseteq Nat \ {0} /\ cursor + n \in Nat
      BY <1>1, <1>5
    <2>2. New(n) \subseteq Event
      BY <1>6
    <2>3. QED
      BY <1>1, <2>1, <2>2 DEF Cursor
  <1>9. /\ {e.sequence : e \in d.seen} \cup d.missed = 1..d.after
        /\ {e.sequence : e \in d.seen} \cap d.missed = {}
        /\ \A e \in d.seen : Authentic(e)
    <2> DEFINE Numbers(seen) == {e.sequence : e \in seen}
    <2>1. /\ Numbers(c.seen) \cup c.missed = 1..after
          /\ Numbers(c.seen) \cap c.missed = {}
          /\ \A e \in c.seen : e.sequence =< Len(published) /\ published[e.sequence] = e.text
      BY DEF ReadersAccountForAll
    <2>2. Numbers(New(n)) = (cursor + 1)..(cursor + n)
      BY <1>6, <1>7
    <2>3. Numbers(d.seen) = Numbers(c.seen) \cup Numbers(New(n))
      OBVIOUS
    <2>4. ASSUME NEW e \in d.seen PROVE Authentic(e)
      <3>1. CASE e \in c.seen
        <4>1. e.sequence \in Nat \ {0}
          BY <1>1, <3>1 DEF Event
        <4>2. QED
          BY <1>4, <2>1, <3>1, <4>1 DEF Authentic
      <3>2. CASE e \in New(n)
        BY <1>6, <3>2
      <3>3. QED
        BY <3>1, <3>2
    <2> HIDE DEF Numbers
    <2>5. d.missed = c.missed \cup ((after + 1)..(first - 1)) /\ d.after = cursor + n
      OBVIOUS
    <2> HIDE DEF d
    <2>6. cursor = IF after < first - 1 THEN first - 1 ELSE after
      BY DEF cursor
    <2>7. 1..(cursor + n) = (1..after) \cup ((after + 1)..(first - 1))
                              \cup ((cursor + 1)..(cursor + n))
      BY <1>1, <1>5, <2>6
    <2>8. /\ (1..after) \cap ((cursor + 1)..(cursor + n)) = {}
          /\ (1..after) \cap ((after + 1)..(first - 1)) = {}
          /\ ((cursor + 1)..(cursor + n)) \cap ((after + 1)..(first - 1)) = {}
      BY <1>1, <1>5, <2>6
    <2>9. Numbers(d.seen) \cup d.missed = 1..d.after
      BY <2>1, <2>2, <2>3, <2>5, <2>7
    <2>10. Numbers(d.seen) \cap d.missed = {}
      BY <2>1, <2>2, <2>3, <2>5, <2>8
    <2>11. QED
      BY <2>4, <2>9, <2>10 DEF Numbers
  <1>10. d.seen \ c.seen \subseteq New(n)
    OBVIOUS
  <1> HIDE DEF d
  <1>11. reader' = [reader EXCEPT ![r] = d]
    BY <1>2 DEF d
  <1>12. /\ reader' \in [Readers -> Cursor] /\ reader'[r] = d
         /\ \A q \in Readers : q # r => reader'[q] = reader[q]
    BY <1>1, <1>8, <1>11
  <1>13. ReadersAccountForAll'
    <2>1. ASSUME NEW q \in Readers
          PROVE  /\ {e.sequence : e \in reader'[q].seen} \cup reader'[q].missed = 1..reader'[q].after
                 /\ {e.sequence : e \in reader'[q].seen} \cap reader'[q].missed = {}
                 /\ \A e \in reader'[q].seen :
                      e.sequence =< Len(published) /\ published[e.sequence] = e.text
      <3>1. CASE q = r
        BY <1>4, <1>9, <1>12, <3>1 DEF Authentic
      <3>2. CASE q # r
        BY <1>12, <3>2 DEF ReadersAccountForAll
      <3>3. QED
        BY <3>1, <3>2
    <2>2. QED
      BY <2>1 DEF ReadersAccountForAll
  <1>14. QED
    BY <1>6, <1>10, <1>12, <1>13

\* Steps that leave this much alone keep what is said of it.
LEMMA CoreStays ==
  ASSUME BufferInv, UNCHANGED <<disk, durable, writer, raw, failed, building, published>>,
         paused' \in BOOLEAN, reader' \in [Readers -> Cursor],
         ReadersAccountForAll',
         view' \in {view, Absent}, given' \subseteq Event,
         \A e \in given' : Kept(e)
  PROVE  BufferInv'
  <1>1. BufferTypeOK'
    BY DEF BufferInv, BufferTypeOK
  <1>2. SnapshotsInv' /\ BuildingInv'
    BY DEF BufferInv, SnapshotsInv, BuildingInv, Faithful, Consecutive, Authentic
  <1>3. WriterInv'
    BY DEF BufferInv, WriterInv
  <1>4. \A e : Kept(e) => Kept(e)'
    BY DEF Kept, Authentic
  <1>5. GivenInv'
    BY <1>4 DEF BufferInv, GivenInv
  <1>6. QED
    BY <1>1, <1>2, <1>3, <1>5 DEF BufferInv

LEMMA ReadersStay ==
  ASSUME BufferInv, UNCHANGED <<reader, published>>
  PROVE  reader' \in [Readers -> Cursor] /\ ReadersAccountForAll'
  BY DEF BufferInv, BufferTypeOK, ReadersAccountForAll

LEMMA OpenKeeps == ASSUME BufferConstants, BufferInv, Open PROVE BufferInv'
  <1> USE DEF Open
  <1>1. /\ Empty \in Snapshot /\ Fits(Empty.events)
        /\ Empty.total =< MaxTotal
    <2>1. Len(<<>>) = 0 /\ <<>> \in Seq(Event)
      BY EmptySeq
    <2>2. QED
      BY <2>1, SizeOfFew DEF Empty, Snapshot, Fits, BufferConstants,
                             BufferAssumption
  <1>2. published = <<>> /\ Len(published) = 0 /\ building = Absent /\ view = Absent /\ ~failed
    BY DEF BufferInv, WriterInv
  <1>3. Faithful(Empty)'
    BY <1>2 DEF Faithful, Consecutive, Empty
  <1>4. BufferTypeOK'
    BY <1>1, <1>2 DEF BufferInv, BufferTypeOK
  <1>5. SnapshotsInv' /\ BuildingInv'
    BY <1>2, <1>3 DEF SnapshotsInv, BuildingInv
  <1>6. Empty # Absent /\ Empty.last = 0
    BY <1>1 DEF BufferConstants, AbsentAssumption, Empty
  <1>7. WriterInv'
    BY <1>2, <1>6 DEF WriterInv
  <1>8. GivenInv'
    <2>1. given = {}
      BY DEF BufferInv, WriterInv, GivenInv, Kept
    <2>2. QED
      BY <1>2, <2>1 DEF GivenInv
  <1>9. QED
    BY <1>4, <1>5, <1>7, <1>8, ReadersStay DEF BufferInv

LEMMA BeginAppendKeeps ==
  ASSUME BufferConstants, BufferInv, NEW t \in Texts, BeginAppend(t) PROVE BufferInv'
  <1> USE DEF BeginAppend
  <1> DEFINE b == WithEvent(raw, t)
  <1>1. /\ raw \in Snapshot /\ Faithful(raw) /\ raw.last = Len(published)
        /\ disk = raw /\ raw # Absent
    BY DEF BufferInv, SnapshotsInv, WriterInv, BufferTypeOK
  <1>2. /\ b \in Snapshot /\ Fits(b.events) /\ b.total =< MaxTotal
        /\ Consecutive(b) /\ b.last = raw.last + 1 /\ b.events # <<>>
        /\ \A i \in 1..(Len(b.events) - 1) :
             \E j \in 1..Len(raw.events) : b.events[i] = raw.events[j]
    BY <1>1, WithEventFacts DEF BufferConstants, Faithful
  <1> HIDE DEF b
  <1>3. building' = b
    BY DEF b
  <1>4. BufferTypeOK'
    BY <1>2, <1>3 DEF BufferInv, BufferTypeOK
  <1>5. SnapshotsInv'
    BY DEF BufferInv, SnapshotsInv, Faithful, Authentic
  <1>6. BuildingInv'
    <2>1. raw.last \in Nat
      BY <1>1 DEF Snapshot
    <2>2. disk' # building'
      BY <1>1, <1>2, <1>3, <2>1
    <2>3. \A i \in 1..(Len(b.events) - 1) : Authentic(b.events[i])
      BY <1>1, <1>2 DEF Faithful
    <2>4. QED
      BY <1>1, <1>2, <1>3, <2>2, <2>3 DEF BuildingInv, Consecutive, Authentic
  <1>7. WriterInv' /\ GivenInv'
    BY DEF BufferInv, WriterInv, GivenInv, Kept, Authentic
  <1>8. QED
    BY <1>4, <1>5, <1>6, <1>7, ReadersStay DEF BufferInv

\* The newest event of what is published carries the last number.
LEMMA NewestIsLast ==
  ASSUME NEW s \in Snapshot, Consecutive(s), s.events # <<>>
  PROVE  /\ Len(s.events) \in 1..Len(s.events) /\ NewestOf(s) = s.events[Len(s.events)]
         /\ NewestOf(s) \in Event /\ NewestOf(s).sequence = s.last
  <1>1. s.events \in Seq(Event) /\ s.last \in Nat
    BY DEF Snapshot
  <1>2. Len(s.events) \in Nat /\ Len(s.events) \in 1..Len(s.events)
    BY <1>1, EmptySeq
  <1>3. s.events[Len(s.events)].sequence = s.last
    <2> DEFINE n == Len(s.events)
    <2>1. s.events[n].sequence = s.last - n + n
      BY <1>2 DEF Consecutive
    <2>2. s.last - n + n = s.last
      BY <1>1, <1>2
    <2>3. QED
      BY <2>1, <2>2
  <1>4. QED
    BY <1>1, <1>2, <1>3, ElementOfSeq DEF NewestOf

\* What was published stays published.
LEMMA PublishedStays ==
  ASSUME published \in Seq(Texts), NEW t \in Texts, published' = Append(published, t)
  PROVE  /\ published' \in Seq(Texts) /\ Len(published') = Len(published) + 1
         /\ Len(published) \in Nat /\ published'[Len(published) + 1] = t
         /\ \A i \in 1..Len(published) : published'[i] = published[i]
         /\ \A e : Authentic(e) => Authentic(e)'
         /\ \A s \in Snapshot : Faithful(s) => Faithful(s)'
  <1>1. /\ published' \in Seq(Texts) /\ Len(published') = Len(published) + 1
        /\ Len(published) \in Nat /\ published'[Len(published) + 1] = t
        /\ \A i \in 1..Len(published) : published'[i] = published[i]
    BY AppendProperties
  <1>2. \A e : Authentic(e) => Authentic(e)'
    BY <1>1 DEF Authentic
  <1>3. ASSUME NEW s \in Snapshot, Faithful(s) PROVE Faithful(s)'
    <2>1. s.last \in Nat /\ s.last =< Len(published)
      BY <1>3 DEF Faithful, Snapshot
    <2>2. s.last =< Len(published')
      BY <1>1, <2>1
    <2>3. \A i \in 1..Len(s.events) : Authentic(s.events[i])'
      BY <1>2, <1>3 DEF Faithful
    <2>4. Consecutive(s)'
      BY <1>3 DEF Faithful, Consecutive
    <2>5. QED
      BY <2>2, <2>3, <2>4 DEF Faithful
  <1>4. QED
    BY <1>1, <1>2, <1>3


LEMMA ReplaceKeeps == ASSUME BufferConstants, BufferInv, Replace PROVE BufferInv'
  <1> USE DEF Replace
  <1> PICK b, e : b = building /\ e = NewestOf(b)
    OBVIOUS
  <1>1. /\ b \in Snapshot /\ b # Absent /\ writer = "open" /\ failed
        /\ Consecutive(b) /\ b.events # <<>> /\ disk = raw
        /\ b.last = raw.last + 1 /\ raw.last = Len(published)
        /\ \A i \in 1..(Len(b.events) - 1) : Authentic(b.events[i])
    BY DEF BufferInv, BuildingInv, BufferTypeOK
  <1>2. /\ Len(b.events) \in 1..Len(b.events) /\ e = b.events[Len(b.events)]
        /\ e \in Event /\ e.sequence = b.last
    BY <1>1, NewestIsLast
  <1>3. b.last = Len(published) + 1 /\ e.text \in Texts /\ published \in Seq(Texts)
    BY <1>1, <1>2 DEF BufferInv, BufferTypeOK, Event
  <1>4. published' = Append(published, e.text)
    BY <1>3
  <1>5. /\ published' \in Seq(Texts) /\ Len(published') = Len(published) + 1
        /\ Len(published) \in Nat /\ published'[Len(published) + 1] = e.text
        /\ \A i \in 1..Len(published) : published'[i] = published[i]
        /\ \A d : Authentic(d) => Authentic(d)'
        /\ \A s \in Snapshot : Faithful(s) => Faithful(s)'
    BY <1>3, <1>4, PublishedStays
  <1>6. Faithful(b)'
    <2>1. Authentic(e)'
      BY <1>2, <1>3, <1>5 DEF Authentic
    <2>2. ASSUME NEW i \in 1..Len(b.events) PROVE Authentic(b.events[i])'
      <3>1. CASE i = Len(b.events)
        BY <1>2, <2>1, <3>1
      <3>2. CASE i # Len(b.events)
        <4>1. i \in 1..(Len(b.events) - 1)
          BY <1>2, <3>2
        <4>2. Authentic(b.events[i])
          BY <1>1, <4>1
        <4>3. QED
          BY <1>5, <4>2
      <3>3. QED
        BY <3>1, <3>2
    <2>3. Consecutive(b)'
      BY <1>1 DEF Consecutive
    <2>4. b'.last =< Len(published')
      BY <1>3, <1>5
    <2>5. QED
      BY <2>2, <2>3, <2>4 DEF Faithful
  <1>7. BufferTypeOK'
    BY <1>1, <1>5 DEF BufferInv, BufferTypeOK
  <1>8. SnapshotsInv'
    <2>1. \A s \in {durable, raw} \ {Absent} : s \in Snapshot /\ Faithful(s)
      BY DEF BufferInv, SnapshotsInv, BufferTypeOK
    <2>2. \A s \in {durable, raw} \ {Absent} : Faithful(s)'
      BY <1>5, <2>1
    <2>3. disk' = b /\ durable' = durable /\ raw' = raw
      OBVIOUS
    <2> HIDE DEF Replace
    <2>4. \A s \in {b, durable, raw} \ {Absent} : Faithful(s)'
      BY <1>6, <2>2
    <2>5. QED
      BY <2>3, <2>4 DEF SnapshotsInv, Faithful, Consecutive, Authentic
  <1>9. BuildingInv'
    BY <1>1, <1>3, <1>5 DEF BuildingInv, Consecutive
  <1>10. WriterInv'
    <2>1. raw # Absent /\ raw = durable
      BY <1>1 DEF BufferInv, WriterInv
    <2>2. durable.last =< b.last
      BY <1>1, <1>3, <1>5, <2>1
    <2>3. QED
      BY <1>1, <2>1, <2>2 DEF BufferInv, WriterInv
  <1>11. GivenInv'
    <2>1. \A d : Kept(d) => Kept(d)'
      BY <1>5 DEF Kept
    <2>2. QED
      BY <2>1 DEF BufferInv, GivenInv
  <1>12. ReadersAccountForAll'
    <2>1. ASSUME NEW r \in Readers, NEW d \in reader[r].seen
          PROVE  d.sequence =< Len(published') /\ published'[d.sequence] = d.text
      <3>1. d.sequence \in Nat \ {0}
        BY DEF BufferInv, BufferTypeOK, Cursor, Event
      <3>2. d.sequence =< Len(published) /\ published[d.sequence] = d.text
        BY DEF BufferInv, ReadersAccountForAll
      <3>3. d.sequence \in 1..Len(published) /\ d.sequence =< Len(published')
        BY <1>5, <3>1, <3>2
      <3>4. QED
        BY <1>5, <3>2, <3>3
    <2>2. reader' = reader
      OBVIOUS
    <2> HIDE DEF Replace
    <2>3. QED
      BY <2>1, <2>2 DEF BufferInv, ReadersAccountForAll
  <1>13. QED
    BY <1>7, <1>8, <1>9, <1>10, <1>11, <1>12 DEF BufferInv

LEMMA AcknowledgeKeeps == ASSUME BufferConstants, BufferInv, Acknowledge PROVE BufferInv'
  <1> USE DEF Acknowledge
  <1> PICK b, e : b = building /\ e = NewestOf(b)
    OBVIOUS
  <1>1. /\ b \in Snapshot /\ b # Absent /\ disk = b /\ writer = "open"
        /\ Consecutive(b) /\ b.events # <<>> /\ Faithful(b)
        /\ b.last = Len(published)
    BY DEF BufferInv, BuildingInv, SnapshotsInv, BufferTypeOK
  <1>2. /\ Len(b.events) \in 1..Len(b.events) /\ e = b.events[Len(b.events)]
        /\ e \in Event /\ e.sequence = b.last
    BY <1>1, NewestIsLast
  <1>3. Authentic(e)
    BY <1>1, <1>2 DEF Faithful
  <1>4. view' = e
    OBVIOUS
  <1>5. BufferTypeOK'
    BY <1>1, <1>2, <1>4 DEF BufferInv, BufferTypeOK
  <1>6. SnapshotsInv' /\ BuildingInv'
    BY <1>1 DEF SnapshotsInv, BuildingInv, Faithful, Consecutive, Authentic
  <1>7. WriterInv'
    BY <1>1 DEF BufferInv, WriterInv, Snapshot
  <1>8. Kept(e)'
    BY <1>1, <1>2, <1>3 DEF Kept, Authentic, Snapshot
  <1>9. ASSUME NEW d \in given PROVE Kept(d)'
    <2>1. Kept(d) /\ d \in Event
      BY DEF BufferInv, GivenInv, BufferTypeOK
    <2>2. d.sequence \in Nat /\ d.sequence =< Len(published)
      BY <2>1 DEF Kept, Authentic, Event
    <2>3. QED
      BY <1>1, <2>1, <2>2 DEF Kept, Authentic
  <1>10. GivenInv'
    BY <1>4, <1>8, <1>9 DEF GivenInv
  <1>11. QED
    BY <1>5, <1>6, <1>7, <1>10, ReadersStay DEF BufferInv

LEMMA PublicationFailsKeeps ==
  ASSUME BufferConstants, BufferInv, PublicationFails PROVE BufferInv'
  <1> USE DEF PublicationFails
  <1>1. failed /\ writer = "open"
    BY DEF BufferInv, BuildingInv
  <1>2. BufferTypeOK'
    BY DEF BufferInv, BufferTypeOK
  <1>3. SnapshotsInv' /\ BuildingInv'
    BY DEF BufferInv, SnapshotsInv, BuildingInv, Faithful, Consecutive, Authentic
  <1>4. WriterInv' /\ GivenInv'
    BY <1>1 DEF BufferInv, WriterInv, GivenInv, Kept, Authentic
  <1>5. QED
    BY <1>2, <1>3, <1>4, ReadersStay DEF BufferInv

LEMMA DisplayKeeps == ASSUME BufferInv, Display PROVE BufferInv'
  <1> USE DEF Display
  <1>1. given' \subseteq Event /\ \A e \in given' : Kept(e)
    BY DEF BufferInv, GivenInv, BufferTypeOK
  <1>2. paused' \in BOOLEAN
    BY DEF BufferInv, BufferTypeOK
  <1>3. QED
    BY <1>1, <1>2, ReadersStay, CoreStays

LEMMA SwitchDeliveryKeeps == ASSUME BufferInv, SwitchDelivery PROVE BufferInv'
  <1> USE DEF SwitchDelivery
  <1>1. given' \subseteq Event /\ \A e \in given' : Kept(e)
    BY DEF BufferInv, GivenInv, BufferTypeOK
  <1>2. paused' \in BOOLEAN
    BY DEF BufferInv, BufferTypeOK
  <1>3. QED
    BY <1>1, <1>2, ReadersStay, CoreStays

LEMMA ReadFileKeeps ==
  ASSUME BufferConstants, BufferInv, NEW r \in Readers, ReadFile(r) PROVE BufferInv'
  <1> USE DEF ReadFile
  <1>1. given' \subseteq Event /\ (\A e \in given' : Kept(e)) /\ paused' \in BOOLEAN
    BY DEF BufferInv, GivenInv, BufferTypeOK
  <1>2. disk \in Snapshot /\ Faithful(disk)
    BY DEF BufferInv, SnapshotsInv, BufferTypeOK
  <1>3. reader' \in [Readers -> Cursor] /\ ReadersAccountForAll'
    BY <1>2, PageAccounts DEF BufferInv, BufferConstants
  <1>4. QED
    BY <1>1, <1>3, CoreStays

\* What the writer answers with is on the disk for good.
LEMMA ReadLiveKeeps ==
  ASSUME BufferConstants, BufferInv, NEW r \in Readers, ReadLive(r) PROVE BufferInv'
  <1> USE DEF ReadLive
  <1>1. raw \in Snapshot /\ Faithful(raw) /\ raw = durable /\ durable # Absent
    BY DEF BufferInv, SnapshotsInv, WriterInv, BufferTypeOK
  <1>2. /\ reader' \in [Readers -> Cursor] /\ ReadersAccountForAll'
        /\ \A e \in reader'[r].seen \ reader[r].seen :
             e \in Event /\ Authentic(e) /\ e.sequence =< raw.last
    BY <1>1, PageAccounts DEF BufferInv, BufferConstants
  <1>3. given' \subseteq Event /\ \A e \in given' : Kept(e)
    BY <1>1, <1>2 DEF BufferInv, GivenInv, BufferTypeOK, Kept
  <1>4. paused' \in BOOLEAN
    BY DEF BufferInv, BufferTypeOK
  <1>5. QED
    BY <1>2, <1>3, <1>4, CoreStays

LEMMA ClaimKeeps == ASSUME BufferInv, Claim PROVE BufferInv'
  <1> USE DEF Claim
  <1>1. BufferTypeOK'
    BY DEF BufferInv, BufferTypeOK
  <1>2. SnapshotsInv' /\ BuildingInv'
    BY DEF BufferInv, SnapshotsInv, BuildingInv, WriterInv, Faithful, Consecutive, Authentic
  <1>3. WriterInv' /\ GivenInv'
    BY DEF BufferInv, WriterInv, GivenInv, Kept, Authentic
  <1>4. QED
    BY <1>1, <1>2, <1>3, ReadersStay DEF BufferInv

\* The writer is gone and the disk holds what it held, or what was flushed last.
LEMMA GoneKeeps ==
  ASSUME BufferInv, writer' = "gone", raw' = Absent, building' = Absent, view' = Absent,
         disk' \in {disk, durable}, durable' \in {durable, disk'},
         UNCHANGED <<failed, paused, reader, published, given>>
  PROVE  BufferInv'
  <1>1. BufferTypeOK'
    BY DEF BufferInv, BufferTypeOK
  <1>2. SnapshotsInv' /\ BuildingInv'
    BY DEF BufferInv, SnapshotsInv, BuildingInv, Faithful, Consecutive, Authentic
  <1>3. /\ durable # Absent => durable' # Absent /\ durable.last =< durable'.last
        /\ durable' # Absent => disk' # Absent /\ durable'.last =< disk'.last
        /\ durable' # Absent => durable'.last \in Nat
        /\ durable # Absent => durable.last \in Nat
    BY DEF BufferInv, WriterInv, BufferTypeOK, Snapshot
  <1>4. WriterInv'
    BY <1>3 DEF WriterInv
  <1>5. ASSUME NEW d \in given PROVE Kept(d)'
    <2>1. Kept(d) /\ d.sequence \in Nat
      BY DEF BufferInv, GivenInv, BufferTypeOK, Event
    <2>2. QED
      BY <1>3, <2>1 DEF Kept, Authentic
  <1>6. GivenInv'
    BY <1>5 DEF GivenInv
  <1>7. QED
    BY <1>1, <1>2, <1>4, <1>6, ReadersStay DEF BufferInv

LEMMA EndKeeps == ASSUME BufferInv, End PROVE BufferInv'
  BY GoneKeeps DEF End

LEMMA PowerLossKeeps == ASSUME BufferInv, PowerLoss PROVE BufferInv'
  BY GoneKeeps DEF PowerLoss

LEMMA BufferStepKeeps ==
  ASSUME BufferConstants, BufferInv, [BufferNext]_bufferVars PROVE BufferInv'
  <1>1. CASE BufferNext
    BY <1>1, ClaimKeeps, OpenKeeps, BeginAppendKeeps, ReplaceKeeps, AcknowledgeKeeps,
       PublicationFailsKeeps, DisplayKeeps, SwitchDeliveryKeeps, ReadFileKeeps,
       ReadLiveKeeps, EndKeeps, PowerLossKeeps
    DEF BufferNext
  <1>2. CASE UNCHANGED bufferVars
    <2> USE <1>2 DEF bufferVars
    <2>1. given' \subseteq Event /\ (\A e \in given' : Kept(e)) /\ paused' \in BOOLEAN
      BY DEF BufferInv, GivenInv, BufferTypeOK
    <2>2. UNCHANGED <<reader, published>>
      OBVIOUS
    <2>3. reader' \in [Readers -> Cursor] /\ ReadersAccountForAll'
      BY <2>2, ReadersStay
    <2>4. UNCHANGED <<disk, durable, writer, raw, failed, building, published>>
          /\ view' \in {view, Absent}
      OBVIOUS
    <2> QED
      BY <2>1, <2>3, <2>4, CoreStays
  <1>3. QED
    BY <1>1, <1>2

LEMMA BufferInvHolds == BufferSpec => []BufferInv
  <1>1. ASSUME BufferInit PROVE BufferInv
    <2> USE <1>1 DEF BufferInit
    <2>1. BufferTypeOK
      <3>1. <<>> \in Seq(Texts)
        OBVIOUS
      <3>2. \A r \in Readers : reader[r] \in Cursor
        BY DEF Cursor
      <3>3. reader \in [Readers -> Cursor]
        BY <3>2
      <3>4. QED
        BY <3>1, <3>3 DEF BufferTypeOK
    <2>2. SnapshotsInv /\ BuildingInv /\ WriterInv /\ GivenInv
      BY DEF SnapshotsInv, BuildingInv, WriterInv, GivenInv
    <2>3. ReadersAccountForAll
      BY DEF ReadersAccountForAll
    <2>4. QED
      BY <2>1, <2>2, <2>3 DEF BufferInv
  <1>2. BufferInv /\ [BufferNext]_bufferVars => BufferInv'
    <2>1. BufferConstants
      BY BufferAssumption, AbsentAssumption DEF BufferConstants
    <2>2. QED
      BY <2>1, BufferStepKeeps
  <1>3. QED
    BY <1>1, <1>2, PTL DEF BufferSpec

\* The state of the retained events has its type, and what is kept its limits.
THEOREM BufferTypes == BufferSpec => []BufferTypeOK
  <1>1. BufferInv => BufferTypeOK
    BY DEF BufferInv
  <1>2. QED
    BY <1>1, BufferInvHolds, PTL

\* Whatever fails to be published, is evicted or lost, and however a reader
\* alternates between the file and the writer's snapshot (page of
\* event_buffer.py), it has accounted for every number up to its cursor, by the
\* event first published under it or by a reported gap.
THEOREM ReadersAccount == BufferSpec => []ReadersAccountForAll
  <1>1. BufferInv => ReadersAccountForAll
    BY DEF BufferInv
  <1>2. QED
    BY <1>1, BufferInvHolds, PTL

\* What progress displayed, or events.read answered with, is in the file for
\* good: append returns only after the directory was flushed.
THEOREM GivenStaysDurable == BufferSpec => []GivenIsDurable
  <1>1. ASSUME BufferInv PROVE GivenIsDurable
    <2>1. ASSUME NEW e \in given
          PROVE  /\ durable # Absent /\ e.sequence =< durable.last
                 /\ \A i \in DOMAIN durable.events :
                      durable.events[i].sequence = e.sequence => durable.events[i] = e
      <3>1. Kept(e) /\ e \in Event
        BY <1>1 DEF BufferInv, GivenInv, BufferTypeOK
      <3>2. durable \in Snapshot /\ Faithful(durable)
        BY <1>1, <3>1 DEF BufferInv, SnapshotsInv, BufferTypeOK, Kept
      <3>3. durable.events \in Seq(Event)
            /\ DOMAIN durable.events = 1..Len(durable.events)
        BY <3>2 DEF Snapshot
      <3>4. ASSUME NEW i \in 1..Len(durable.events),
                   durable.events[i].sequence = e.sequence
            PROVE  durable.events[i] = e
        <4>1. PICK d \in Event : d = durable.events[i]
          BY <3>3, ElementOfSeq
        <4>2. Authentic(d) /\ Authentic(e) /\ d.sequence = e.sequence
          BY <3>1, <3>2, <3>4, <4>1 DEF Faithful, Kept
        <4>3. d.text = e.text
          BY <4>2 DEF Authentic
        <4>4. d = e
          BY <3>1, <4>2, <4>3 DEF Event
        <4>5. QED
          BY <4>1, <4>4
      <3>5. QED
        BY <3>1, <3>3, <3>4 DEF Kept
    <2>2. QED
      BY <2>1 DEF GivenIsDurable
  <1>2. QED
    BY <1>1, BufferInvHolds, PTL
=============================================================================
