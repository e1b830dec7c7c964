-------------------------- MODULE TaskDaemonProofs --------------------------
(***************************************************************************)
(* Proofs about the task daemon, for any tasks and messages of a scope and *)
(* any number of deaths, failed saves, lost replies, redeliveries and      *)
(* repeated calls: nothing is done twice, answers are true, and a cleanup  *)
(* without error leaves no turn running.                                   *)
(***************************************************************************)
EXTENDS TaskDaemon, FiniteSetTheorems, TLAPS

\* While the daemon is up, the state directory knows every task that its memory
\* knows, and what was saved as an outcome is the task's outcome.
RecordInv ==
  /\ ~up => submitting = None
  /\ submitting # None => task[submitting] = None
  /\ \A t \in Tasks :
       /\ up => /\ task[t] = None <=> savedTask[t] = None
                /\ task[t] \in {"admitted", "running"} => savedTask[t] = "running"
                /\ task[t] \in {"ok", "cancelled"} => savedTask[t] = task[t]
                /\ savedTask[t] \in Outcomes => task[t] = savedTask[t]
       /\ t \in Messaged /\ disposition[t] = None => savedTask[t] = None

\* The worker of a turn is launched once, only after the turn was saved and while it
\* is admitted: a call that comes again finds the turn in the state directory.
LaunchInv ==
  \A t \in Tasks :
    /\ task[t] = "admitted" => t \in Turns /\ launched[t] = 0
    /\ t \in Turns => launched[t] <= 1
    /\ t \in Turns /\ launched[t] > 0 => savedTask[t] # None

\* What SavedNotResubmitted says of a step.
NotResubmitted == \A t \in Commands : savedTask[t] # None => launched'[t] = launched[t]

\* Where an outcome is known, it is the executor's; a cancellation may also be
\* that of a turn that was never launched.
TruthInv ==
  \A t \in Tasks :
    /\ "ok" \in {task[t], savedTask[t], answer[t]} => outcome[t] = "ok"
    /\ t \in Messaged /\ disposition[t] = "ok" => outcome[t] = "ok"
    /\ savedTask[t] = "cancelled" => outcome[t] = "cancelled" \/ (t \in Turns /\ launched[t] = 0)
    /\ answer[t] = "cancelled" /\ t \notin Messaged => savedTask[t] = "cancelled"

\* Only a message's disposition is published, and it is settled once.
MessageInv ==
  \A t \in Messaged :
    /\ published[t] \subseteq {disposition[t]} /\ arrived[t] \subseteq published[t]
    /\ t \in handling => disposition[t] = "accepted"

\* The control file is written before the native steer.
SteerInv ==
  /\ steers <= 1
  /\ steers > 0 => control # None
  /\ steering => control # None /\ steers = 0

\* The session is forgotten only once it is closed, or with an error that the
\* scope or the cleanup reports; a session that is closed has no turn at work.
CleanupInv ==
  /\ cleaning # "no" => up /\ cleaned = "called"
  /\ failed => cleaning = "tasks"
  /\ cleaning = "tasks" => ~session
  /\ up => (session <=> savedSession)
  /\ nativeClosed => \A t \in Turns : ~Working(t)
  /\ ~savedSession => nativeClosed \/ closeError \/ failed \/ cleaned = "error"
  /\ cleaned = "ok" => nativeClosed \/ closeError

IInv == TypeOK /\ RecordInv /\ LaunchInv /\ TruthInv /\ MessageInv /\ SteerInv /\ CleanupInv

-----------------------------------------------------------------------------
(* Every step keeps the invariant, part by part *)

\* What a reply changes for the scope.
LEMMA ReplyKeeps ==
  ASSUME ScopeTypes, NEW t \in Tasks, NEW r, Reply(t, r)
  PROVE  ScopeTypes' /\ \A u \in Tasks : answer'[u] = answer[u] \/ answer'[u] = "rejected"
<1>1. PICK e \in 0..MaxEntries :
        /\ inFlight' = inFlight \ {<<t, e>>}
        /\ pc' = [pc EXCEPT ![t] = IF e = entry /\ pc[t] = "sent" THEN (IF r = "ok" THEN "wait" ELSE "done") ELSE @]
        /\ answer' = [answer EXCEPT ![t] = IF (e = entry /\ pc[t] = "sent") /\ r # "ok" THEN "rejected" ELSE @]
  BY DEF Reply
<1>2. UNCHANGED <<body, entry, arrived, closeError, cleaned>>
  BY DEF Reply
<1>3. inFlight' \subseteq Tasks \X (0..MaxEntries)
  BY <1>1 DEF ScopeTypes
<1>4. pc' \in [Tasks -> {"idle", "sent", "confirm", "wait", "stop", "done"}]
  BY <1>1 DEF ScopeTypes
<1>5. /\ answer' \in [Tasks -> Outcomes \cup {None, "rejected"}]
      /\ \A u \in Tasks : answer'[u] = answer[u] \/ answer'[u] = "rejected"
  BY <1>1 DEF ScopeTypes
<1> QED
  BY <1>2, <1>3, <1>4, <1>5 DEF ScopeTypes

\* A broken connection leaves the caller as it was.
LEMMA HangUpKeeps ==
  ASSUME ScopeTypes, NEW t \in Tasks, HangUp(t)
  PROVE  ScopeTypes' /\ \A u \in Tasks : answer'[u] = answer[u] \/ answer'[u] = "rejected"
<1>1. inFlight' \subseteq inFlight /\ UNCHANGED <<body, entry, pc, answer, arrived, closeError, cleaned>>
  BY DEF HangUp
<1> QED
  BY <1>1 DEF ScopeTypes

\* What the executors keep has its types.
LEMMA StepExecutors == IInv /\ [Next]_vars => ExecutorTypes'
<1> SUFFICES ASSUME IInv, [Next]_vars PROVE ExecutorTypes'
  OBVIOUS
<1>1. ASSUME UNCHANGED vars \/ (\E t \in Tasks : Unstarted(t) \/ Observe(t) \/ GiveUp(t) \/
  Reconstruct(t) \/ EventSaveFails(t) \/ Panics(t) \/ Confirm(t) \/ Poll(t) \/ Await(t) \/
  StopTimeout(t) \/ MessageStopped(t) \/ MessageUnreachable(t) \/ ReplyLost(t) \/ Send(t) \/
  Interrupt(t)) \/ (\E t \in Tasks \ Messaged : Answer(t) \/ AdmitTurn(t) \/ AdmitCommand(t)) \/ (\E
  t \in Messaged : FirstDelivery(t) \/ Redelivery(t) \/ CompleteMessage(t)) \/ SteerNative \/ Steer
  \/ Cleanup \/ CleanupTasks \/ Restart \/ CallCleanup \/ Dies \/ ReEnter
  PROVE UNCHANGED <<accepted, begun, outcome, launched, lost, nativeClosed>>
  <2>1. ASSUME NEW t \in Tasks, Unstarted(t) \/ Observe(t) \/ GiveUp(t) \/ Reconstruct(t) \/
    EventSaveFails(t) \/ Panics(t) \/ Confirm(t) \/ Poll(t)
    PROVE UNCHANGED <<accepted, begun, outcome, launched, lost, nativeClosed>>
    BY <2>1 DEF Unstarted, NoExecutor, TaskOnly, Complete, executors, scope, Saves, SaveFails,
      Fault, Observe, Observed, GiveUp, GivenUp, Reconstruct, EventSaveFails, Panics, Down, disk,
      Confirm, Free, CallerOnly, Ends, ScopeOnly, history, Poll
  <2>2. ASSUME NEW t \in Tasks, Await(t) \/ StopTimeout(t) \/ MessageStopped(t) \/
    MessageUnreachable(t) \/ ReplyLost(t) \/ Send(t) \/ Interrupt(t)
    PROVE UNCHANGED <<accepted, begun, outcome, launched, lost, nativeClosed>>
    BY <2>2 DEF Await, CallerOnly, Ends, ScopeOnly, executors, disk, history, StopTimeout,
      MessageStopped, Free, MessageUnreachable, ReplyLost, Send, Interrupt
  <2>3. ASSUME NEW t \in Tasks \ Messaged, Answer(t) \/ AdmitTurn(t) \/ AdmitCommand(t)
    PROVE UNCHANGED <<accepted, begun, outcome, launched, lost, nativeClosed>>
    BY <2>3 DEF Answer, NoExecutor, Free, Admitted, Arrives, Reply, memory, disk, history,
      executors, AdmitTurn, Saves, SaveFails, Fault, AdmitCommand, HangUp
  <2>4. ASSUME NEW t \in Messaged, FirstDelivery(t) \/ Redelivery(t) \/ CompleteMessage(t)
    PROVE UNCHANGED <<accepted, begun, outcome, launched, lost, nativeClosed>>
    BY <2>4 DEF FirstDelivery, Saves, SaveFails, Free, Admitted, Arrives, MessageOnly, NoCompletion,
      Settle, Fault, executors, Completed, Redelivery, CompleteMessage
  <2>5. ASSUME SteerNative \/ Steer \/ Cleanup \/ CleanupTasks \/ Restart \/ CallCleanup \/ Dies \/
    ReEnter
    PROVE UNCHANGED <<accepted, begun, outcome, launched, lost, nativeClosed>>
    BY <2>5 DEF SteerNative, Saves, SaveFails, executors, scope, Fault, Steer, Unsteered, Cleanup,
      Free, CleanupOnly, CleanupTasks, Joined, Restart, RestoredTasks, Restorable, disk, history,
      CallCleanup, ScopeOnly, Dies, Down, ReEnter
  <2> QED
    BY <1>1, <2>1, <2>2, <2>3, <2>4, <2>5 DEF vars, executors, memory, disk, scope, history
<1> USE DEF IInv, TypeOK, ExecutorTypes, Outcomes, None
<1>2. ASSUME NEW t \in Tasks, WorkerAccepts(t) PROVE ExecutorTypes'
  BY <1>2 DEF WorkerAccepts, Native!Accept, memory, disk, scope, history
<1>3. ASSUME NEW t \in Tasks, WorkerBegins(t) PROVE ExecutorTypes'
  BY <1>3 DEF WorkerBegins, Native!Begin, Working, memory, disk, scope, history
<1>4. ASSUME NEW t \in Tasks, WorkerEnds(t) PROVE ExecutorTypes'
  BY <1>4 DEF WorkerEnds, Native!End, Working, memory, disk, scope, history
<1>5. ASSUME NEW t \in Tasks, WorkerDies(t) PROVE ExecutorTypes'
  BY <1>5 DEF WorkerDies, Fault, Working, memory, disk, scope
<1>6. ASSUME NEW t \in Tasks, Launch(t) PROVE ExecutorTypes'
  BY <1>6 DEF Launch, NoExecutor, TaskOnly, Complete, executors, scope, Saves, SaveFails, Fault
<1>7. ASSUME NEW t \in Tasks \ Messaged, SubmitCommand(t) PROVE ExecutorTypes'
  BY <1>7 DEF SubmitCommand, Free, Admitted, Arrives, disk, scope, history
<1>8. ASSUME DiesClosing PROVE ExecutorTypes'
  BY <1>8 DEF DiesClosing, Fault, Closable, Down, Working, disk
<1>9. ASSUME CleanupPanics PROVE ExecutorTypes'
  BY <1>9 DEF CleanupPanics, Free, SessionCloses, CleanupOnly, Closable, Working
<1>10. ASSUME NEW ok \in BOOLEAN, CleanupSessions(ok) PROVE ExecutorTypes'
  BY <1>10 DEF CleanupSessions, Free, SessionCloses, CleanupOnly, Closable, Working
<1>11. ASSUME NEW ok \in BOOLEAN, CloseSession(ok) PROVE ExecutorTypes'
  BY <1>11 DEF CloseSession, Free, SessionCloses, history, Closable, Working
<1>12. CASE UNCHANGED vars \/ (\E t \in Tasks : Unstarted(t) \/ Observe(t) \/ GiveUp(t) \/
  Reconstruct(t) \/ EventSaveFails(t) \/ Panics(t) \/ Confirm(t) \/ Poll(t) \/ Await(t) \/
  StopTimeout(t) \/ MessageStopped(t) \/ MessageUnreachable(t) \/ ReplyLost(t) \/ Send(t) \/
  Interrupt(t)) \/ (\E t \in Tasks \ Messaged : Answer(t) \/ AdmitTurn(t) \/ AdmitCommand(t)) \/ (\E
  t \in Messaged : FirstDelivery(t) \/ Redelivery(t) \/ CompleteMessage(t)) \/ SteerNative \/ Steer
  \/ Cleanup \/ CleanupTasks \/ Restart \/ CallCleanup \/ Dies \/ ReEnter
  BY <1>1, <1>12
<1> QED
  BY <1>2, <1>3, <1>4, <1>5, <1>6, <1>7, <1>8, <1>9, <1>10, <1>11, <1>12 DEF Next, Executors,
    Daemon, Scope, Environment

\* So has the daemon's memory.
LEMMA StepMemory == IInv /\ [Next]_vars => MemoryTypes'
<1> SUFFICES ASSUME IInv, [Next]_vars PROVE MemoryTypes'
  OBVIOUS
<1>1. ASSUME UNCHANGED vars \/ (\E t \in Tasks : WorkerAccepts(t) \/ WorkerBegins(t) \/
  WorkerEnds(t) \/ WorkerDies(t) \/ Confirm(t) \/ Poll(t) \/ Await(t) \/ StopTimeout(t) \/
  MessageStopped(t) \/ MessageUnreachable(t) \/ ReplyLost(t) \/ Send(t)) \/ (\E t \in Tasks \
  Messaged : Answer(t)) \/ CallCleanup \/ ReEnter
  PROVE UNCHANGED <<up, session, closed, submitting, task, stopping, restored, handling, cleaning,
    failed, steering>>
  <2>1. ASSUME NEW t \in Tasks, WorkerAccepts(t) \/ WorkerBegins(t) \/ WorkerEnds(t) \/
    WorkerDies(t) \/ Confirm(t) \/ Poll(t) \/ Await(t) \/ StopTimeout(t)
    PROVE UNCHANGED <<up, session, closed, submitting, task, stopping, restored, handling, cleaning,
      failed, steering>>
    BY <2>1 DEF WorkerAccepts, Native!Accept, memory, disk, scope, history, WorkerBegins,
      Native!Begin, Working, WorkerEnds, Native!End, WorkerDies, Fault, Confirm, Free, CallerOnly,
      Ends, ScopeOnly, executors, Poll, Await, StopTimeout
  <2>2. ASSUME NEW t \in Tasks, MessageStopped(t) \/ MessageUnreachable(t) \/ ReplyLost(t) \/
    Send(t)
    PROVE UNCHANGED <<up, session, closed, submitting, task, stopping, restored, handling, cleaning,
      failed, steering>>
    BY <2>2 DEF MessageStopped, Free, CallerOnly, Ends, ScopeOnly, executors, disk, history,
      MessageUnreachable, ReplyLost, Send
  <2>3. ASSUME NEW t \in Tasks \ Messaged, Answer(t)
    PROVE UNCHANGED <<up, session, closed, submitting, task, stopping, restored, handling, cleaning,
      failed, steering>>
    BY <2>3 DEF Answer, NoExecutor, Free, Admitted, Arrives, Reply, memory, disk, history, executors
  <2>4. ASSUME CallCleanup \/ ReEnter
    PROVE UNCHANGED <<up, session, closed, submitting, task, stopping, restored, handling, cleaning,
      failed, steering>>
    BY <2>4 DEF CallCleanup, ScopeOnly, executors, disk, history, ReEnter
  <2> QED
    BY <1>1, <2>1, <2>2, <2>3, <2>4 DEF vars, executors, memory, disk, scope, history
<1> USE TasksAreApart, BodiesAndBounds DEF IInv, TypeOK, MemoryTypes, ExecutorTypes, DiskTypes,
  Outcomes, None, Tasks
<1>2. ASSUME NEW t \in Tasks, Launch(t) PROVE MemoryTypes'
  BY <1>2 DEF Launch, NoExecutor, TaskOnly, Complete, executors, scope, Saves, SaveFails, Fault
<1>3. ASSUME NEW t \in Tasks, Unstarted(t) PROVE MemoryTypes'
  BY <1>3 DEF Unstarted, NoExecutor, TaskOnly, Complete, executors, scope, Saves, SaveFails, Fault
<1>4. ASSUME NEW t \in Tasks, Observe(t) PROVE MemoryTypes'
  BY <1>4 DEF Observe, NoExecutor, TaskOnly, Complete, Observed, executors, scope, Saves, SaveFails,
    Fault
<1>5. ASSUME NEW t \in Tasks, GiveUp(t) PROVE MemoryTypes'
  BY <1>5 DEF GiveUp, NoExecutor, TaskOnly, Complete, GivenUp, executors, scope, Saves, SaveFails,
    Fault
<1>6. ASSUME NEW t \in Tasks, Reconstruct(t) PROVE MemoryTypes'
  BY <1>6 DEF Reconstruct, NoExecutor, TaskOnly, Complete, executors, scope, Saves, SaveFails, Fault
<1>7. ASSUME NEW t \in Tasks, EventSaveFails(t) PROVE MemoryTypes'
  BY <1>7 DEF EventSaveFails, SaveFails, NoExecutor, TaskOnly, Fault, executors, scope
<1>8. ASSUME NEW t \in Tasks, Panics(t) PROVE MemoryTypes'
  BY <1>8 DEF Panics, Down, disk
<1>9. ASSUME NEW t \in Tasks, Interrupt(t) PROVE MemoryTypes'
  BY <1>9 DEF Interrupt, Free, CallerOnly, ScopeOnly, executors, disk, history
<1>10. ASSUME NEW t \in Tasks \ Messaged, AdmitTurn(t) PROVE MemoryTypes'
  BY <1>10 DEF AdmitTurn, Saves, SaveFails, NoExecutor, Free, Admitted, Arrives, Reply, Fault,
    executors
<1>11. ASSUME NEW t \in Tasks \ Messaged, SubmitCommand(t) PROVE MemoryTypes'
  BY <1>11 DEF SubmitCommand, Free, Admitted, Arrives, disk, scope, history
<1>12. ASSUME NEW t \in Tasks \ Messaged, AdmitCommand(t) PROVE MemoryTypes'
  BY <1>12 DEF AdmitCommand, Saves, SaveFails, NoExecutor, Reply, HangUp, Fault, executors
<1>13. ASSUME NEW t \in Messaged, FirstDelivery(t) PROVE MemoryTypes'
  BY <1>13 DEF FirstDelivery, Saves, SaveFails, Free, Admitted, Arrives, MessageOnly, NoCompletion,
    Settle, Fault, executors, Completed
<1>14. ASSUME NEW t \in Messaged, Redelivery(t) PROVE MemoryTypes'
  BY <1>14 DEF Redelivery, Saves, SaveFails, Free, MessageOnly, NoCompletion, Completed, Settle,
    Fault, executors
<1>15. ASSUME NEW t \in Messaged, CompleteMessage(t) PROVE MemoryTypes'
  BY <1>15 DEF CompleteMessage, Saves, SaveFails, MessageOnly, NoCompletion, Settle, Fault,
    executors, Completed
<1>16. ASSUME SteerNative PROVE MemoryTypes'
  BY <1>16 DEF SteerNative, Saves, SaveFails, executors, scope, Fault
<1>17. ASSUME Steer PROVE MemoryTypes'
  BY <1>17 DEF Steer, Saves, SaveFails, Unsteered, executors, scope, Fault
<1>18. ASSUME Cleanup PROVE MemoryTypes'
  BY <1>18 DEF Cleanup, Saves, SaveFails, Free, CleanupOnly, Fault
<1>19. ASSUME CleanupTasks PROVE MemoryTypes'
  BY <1>19 DEF CleanupTasks, Saves, SaveFails, Free, CleanupOnly, Joined, Fault
<1>20. ASSUME Restart PROVE MemoryTypes'
  BY <1>20 DEF Restart, RestoredTasks, Restorable, executors, disk, scope, history
<1>21. ASSUME Dies PROVE MemoryTypes'
  BY <1>21 DEF Dies, Fault, Down, disk
<1>22. ASSUME DiesClosing PROVE MemoryTypes'
  BY <1>22 DEF DiesClosing, Fault, Closable, Down, Working, disk
<1>23. ASSUME CleanupPanics PROVE MemoryTypes'
  BY <1>23 DEF CleanupPanics, Free, SessionCloses, CleanupOnly, Closable, Working
<1>24. ASSUME NEW ok \in BOOLEAN, CleanupSessions(ok) PROVE MemoryTypes'
  BY <1>24 DEF CleanupSessions, Free, SessionCloses, CleanupOnly, Closable, Working
<1>25. ASSUME NEW ok \in BOOLEAN, CloseSession(ok) PROVE MemoryTypes'
  BY <1>25 DEF CloseSession, Free, SessionCloses, history, Closable, Working
<1>26. CASE UNCHANGED vars \/ (\E t \in Tasks : WorkerAccepts(t) \/ WorkerBegins(t) \/ WorkerEnds(t)
  \/ WorkerDies(t) \/ Confirm(t) \/ Poll(t) \/ Await(t) \/ StopTimeout(t) \/ MessageStopped(t) \/
  MessageUnreachable(t) \/ ReplyLost(t) \/ Send(t)) \/ (\E t \in Tasks \ Messaged : Answer(t)) \/
  CallCleanup \/ ReEnter
  BY <1>1, <1>26
<1> QED
  BY <1>2, <1>3, <1>4, <1>5, <1>6, <1>7, <1>8, <1>9, <1>10, <1>11, <1>12, <1>13, <1>14, <1>15,
    <1>16, <1>17, <1>18, <1>19, <1>20, <1>21, <1>22, <1>23, <1>24, <1>25, <1>26 DEF Next, Executors,
    Daemon, Scope, Environment

\* So has its state directory.
LEMMA StepDisk == IInv /\ [Next]_vars => DiskTypes'
<1> SUFFICES ASSUME IInv, [Next]_vars PROVE DiskTypes'
  OBVIOUS
<1>1. ASSUME UNCHANGED vars \/ (\E t \in Tasks : WorkerAccepts(t) \/ WorkerBegins(t) \/
  WorkerEnds(t) \/ WorkerDies(t) \/ Panics(t) \/ Confirm(t) \/ Poll(t) \/ Await(t) \/ StopTimeout(t)
  \/ MessageStopped(t) \/ MessageUnreachable(t) \/ ReplyLost(t) \/ Send(t) \/ Interrupt(t)) \/ (\E t
  \in Tasks \ Messaged : Answer(t) \/ SubmitCommand(t)) \/ Restart \/ CallCleanup \/ Dies \/
  DiesClosing \/ ReEnter
  PROVE UNCHANGED <<savedSession, savedClosed, savedTask, disposition, control>>
  <2>1. ASSUME NEW t \in Tasks, WorkerAccepts(t) \/ WorkerBegins(t) \/ WorkerEnds(t) \/
    WorkerDies(t) \/ Panics(t) \/ Confirm(t) \/ Poll(t) \/ Await(t)
    PROVE UNCHANGED <<savedSession, savedClosed, savedTask, disposition, control>>
    BY <2>1 DEF WorkerAccepts, Native!Accept, memory, disk, scope, history, WorkerBegins,
      Native!Begin, Working, WorkerEnds, Native!End, WorkerDies, Fault, Panics, Down, Confirm, Free,
      CallerOnly, Ends, ScopeOnly, executors, Poll, Await
  <2>2. ASSUME NEW t \in Tasks, StopTimeout(t) \/ MessageStopped(t) \/ MessageUnreachable(t) \/
    ReplyLost(t) \/ Send(t) \/ Interrupt(t)
    PROVE UNCHANGED <<savedSession, savedClosed, savedTask, disposition, control>>
    BY <2>2 DEF StopTimeout, CallerOnly, Ends, ScopeOnly, executors, disk, history, MessageStopped,
      Free, MessageUnreachable, ReplyLost, Send, Interrupt
  <2>3. ASSUME NEW t \in Tasks \ Messaged, Answer(t) \/ SubmitCommand(t)
    PROVE UNCHANGED <<savedSession, savedClosed, savedTask, disposition, control>>
    BY <2>3 DEF Answer, NoExecutor, Free, Admitted, Arrives, Reply, memory, disk, history,
      executors, SubmitCommand, scope
  <2>4. ASSUME Restart \/ CallCleanup \/ Dies \/ DiesClosing \/ ReEnter
    PROVE UNCHANGED <<savedSession, savedClosed, savedTask, disposition, control>>
    BY <2>4 DEF Restart, RestoredTasks, Restorable, executors, disk, scope, history, CallCleanup,
      ScopeOnly, Dies, Fault, Down, DiesClosing, Closable, Working, ReEnter
  <2> QED
    BY <1>1, <2>1, <2>2, <2>3, <2>4 DEF vars, executors, memory, disk, scope, history
<1> USE DEF IInv, TypeOK, DiskTypes, MemoryTypes, ExecutorTypes, Outcomes, None
<1>2. ASSUME NEW t \in Tasks, Launch(t) PROVE DiskTypes'
  BY <1>2 DEF Launch, NoExecutor, TaskOnly, Complete, executors, scope, Saves, SaveFails, Fault
<1>3. ASSUME NEW t \in Tasks, Unstarted(t) PROVE DiskTypes'
  BY <1>3 DEF Unstarted, NoExecutor, TaskOnly, Complete, executors, scope, Saves, SaveFails, Fault
<1>4. ASSUME NEW t \in Tasks, Observe(t) PROVE DiskTypes'
  BY <1>4 DEF Observe, NoExecutor, TaskOnly, Complete, Observed, executors, scope, Saves, SaveFails,
    Fault
<1>5. ASSUME NEW t \in Tasks, GiveUp(t) PROVE DiskTypes'
  BY <1>5 DEF GiveUp, NoExecutor, TaskOnly, Complete, GivenUp, executors, scope, Saves, SaveFails,
    Fault
<1>6. ASSUME NEW t \in Tasks, Reconstruct(t) PROVE DiskTypes'
  BY <1>6 DEF Reconstruct, NoExecutor, TaskOnly, Complete, executors, scope, Saves, SaveFails, Fault
<1>7. ASSUME NEW t \in Tasks, EventSaveFails(t) PROVE DiskTypes'
  BY <1>7 DEF EventSaveFails, SaveFails, NoExecutor, TaskOnly, Fault, executors, scope
<1>8. ASSUME NEW t \in Tasks \ Messaged, AdmitTurn(t) PROVE DiskTypes'
  BY <1>8 DEF AdmitTurn, Saves, SaveFails, NoExecutor, Free, Admitted, Arrives, Reply, Fault,
    executors
<1>9. ASSUME NEW t \in Tasks \ Messaged, AdmitCommand(t) PROVE DiskTypes'
  BY <1>9 DEF AdmitCommand, Saves, SaveFails, NoExecutor, Reply, HangUp, Fault, executors
<1>10. ASSUME NEW t \in Messaged, FirstDelivery(t) PROVE DiskTypes'
  BY <1>10 DEF FirstDelivery, Saves, SaveFails, Free, Admitted, Arrives, MessageOnly, NoCompletion,
    Settle, Fault, executors, Completed
<1>11. ASSUME NEW t \in Messaged, Redelivery(t) PROVE DiskTypes'
  BY <1>11 DEF Redelivery, Saves, SaveFails, Free, MessageOnly, NoCompletion, Completed, Settle,
    Fault, executors
<1>12. ASSUME NEW t \in Messaged, CompleteMessage(t) PROVE DiskTypes'
  BY <1>12 DEF CompleteMessage, Saves, SaveFails, MessageOnly, NoCompletion, Settle, Fault,
    executors, Completed
<1>13. ASSUME SteerNative PROVE DiskTypes'
  BY <1>13 DEF SteerNative, Saves, SaveFails, executors, scope, Fault
<1>14. ASSUME Steer PROVE DiskTypes'
  BY <1>14 DEF Steer, Saves, SaveFails, Unsteered, executors, scope, Fault
<1>15. ASSUME Cleanup PROVE DiskTypes'
  BY <1>15 DEF Cleanup, Saves, SaveFails, Free, CleanupOnly, Fault
<1>16. ASSUME CleanupTasks PROVE DiskTypes'
  BY <1>16 DEF CleanupTasks, Saves, SaveFails, Free, CleanupOnly, Joined, Fault
<1>17. ASSUME CleanupPanics PROVE DiskTypes'
  BY <1>17 DEF CleanupPanics, Free, SessionCloses, CleanupOnly, Closable, Working
<1>18. ASSUME NEW ok \in BOOLEAN, CleanupSessions(ok) PROVE DiskTypes'
  BY <1>18 DEF CleanupSessions, Free, SessionCloses, CleanupOnly, Closable, Working
<1>19. ASSUME NEW ok \in BOOLEAN, CloseSession(ok) PROVE DiskTypes'
  BY <1>19 DEF CloseSession, Free, SessionCloses, history, Closable, Working
<1>20. CASE UNCHANGED vars \/ (\E t \in Tasks : WorkerAccepts(t) \/ WorkerBegins(t) \/ WorkerEnds(t)
  \/ WorkerDies(t) \/ Panics(t) \/ Confirm(t) \/ Poll(t) \/ Await(t) \/ StopTimeout(t) \/
  MessageStopped(t) \/ MessageUnreachable(t) \/ ReplyLost(t) \/ Send(t) \/ Interrupt(t)) \/ (\E t
  \in Tasks \ Messaged : Answer(t) \/ SubmitCommand(t)) \/ Restart \/ CallCleanup \/ Dies \/
  DiesClosing \/ ReEnter
  BY <1>1, <1>20
<1> QED
  BY <1>2, <1>3, <1>4, <1>5, <1>6, <1>7, <1>8, <1>9, <1>10, <1>11, <1>12, <1>13, <1>14, <1>15,
    <1>16, <1>17, <1>18, <1>19, <1>20 DEF Next, Executors, Daemon, Scope, Environment

\* So has the scope.
LEMMA StepScope == IInv /\ [Next]_vars => ScopeTypes'
<1> SUFFICES ASSUME IInv, [Next]_vars PROVE ScopeTypes'
  OBVIOUS
<1>1. ASSUME UNCHANGED vars \/ (\E t \in Tasks : WorkerAccepts(t) \/ WorkerBegins(t) \/
  WorkerEnds(t) \/ WorkerDies(t) \/ Launch(t) \/ Unstarted(t) \/ Observe(t) \/ GiveUp(t) \/
  Reconstruct(t) \/ EventSaveFails(t)) \/ (\E t \in Tasks \ Messaged : SubmitCommand(t)) \/
  SteerNative \/ Steer \/ Restart \/ (\E ok \in BOOLEAN : CleanupSessions(ok))
  PROVE UNCHANGED <<body, entry, pc, answer, inFlight, arrived, closeError, cleaned>>
  <2>1. ASSUME NEW t \in Tasks, WorkerAccepts(t) \/ WorkerBegins(t) \/ WorkerEnds(t) \/
    WorkerDies(t) \/ Launch(t) \/ Unstarted(t) \/ Observe(t) \/ GiveUp(t)
    PROVE UNCHANGED <<body, entry, pc, answer, inFlight, arrived, closeError, cleaned>>
    BY <2>1 DEF WorkerAccepts, Native!Accept, memory, disk, scope, history, WorkerBegins,
      Native!Begin, Working, WorkerEnds, Native!End, WorkerDies, Fault, Launch, NoExecutor,
      TaskOnly, Complete, executors, Saves, SaveFails, Unstarted, Observe, Observed, GiveUp, GivenUp
  <2>2. ASSUME NEW t \in Tasks, Reconstruct(t) \/ EventSaveFails(t)
    PROVE UNCHANGED <<body, entry, pc, answer, inFlight, arrived, closeError, cleaned>>
    BY <2>2 DEF Reconstruct, NoExecutor, TaskOnly, Complete, executors, scope, Saves, SaveFails,
      Fault, EventSaveFails
  <2>3. ASSUME NEW t \in Tasks \ Messaged, SubmitCommand(t)
    PROVE UNCHANGED <<body, entry, pc, answer, inFlight, arrived, closeError, cleaned>>
    BY <2>3 DEF SubmitCommand, Free, Admitted, Arrives, disk, scope, history
  <2>4. ASSUME SteerNative \/ Steer \/ Restart
    PROVE UNCHANGED <<body, entry, pc, answer, inFlight, arrived, closeError, cleaned>>
    BY <2>4 DEF SteerNative, Saves, SaveFails, executors, scope, Fault, Steer, Unsteered, Restart,
      RestoredTasks, Restorable, disk, history
  <2>5. ASSUME NEW ok \in BOOLEAN, CleanupSessions(ok)
    PROVE UNCHANGED <<body, entry, pc, answer, inFlight, arrived, closeError, cleaned>>
    BY <2>5 DEF CleanupSessions, Free, SessionCloses, CleanupOnly, Closable, Working
  <2> QED
    BY <1>1, <2>1, <2>2, <2>3, <2>4, <2>5 DEF vars, executors, memory, disk, scope, history
<1> USE BodiesAndBounds DEF IInv, TypeOK, ScopeTypes, MemoryTypes, HistoryTypes, Outcomes, None
<1>2. ASSUME NEW t \in Tasks, Panics(t) PROVE ScopeTypes'
  BY <1>2 DEF Panics, Down, disk
<1>3. ASSUME NEW t \in Tasks, Confirm(t) PROVE ScopeTypes'
  BY <1>3 DEF Confirm, Free, CallerOnly, Ends, ScopeOnly, executors, disk, history
<1>4. ASSUME NEW t \in Tasks, Poll(t) PROVE ScopeTypes'
  BY <1>4 DEF Poll, Free, CallerOnly, Ends, ScopeOnly, executors, disk, history
<1>5. ASSUME NEW t \in Tasks, Await(t) PROVE ScopeTypes'
  BY <1>5 DEF Await, CallerOnly, Ends, ScopeOnly, executors, disk, history
<1>6. ASSUME NEW t \in Tasks, StopTimeout(t) PROVE ScopeTypes'
  BY <1>6 DEF StopTimeout, CallerOnly, Ends, ScopeOnly, executors, disk, history
<1>7. ASSUME NEW t \in Tasks, MessageStopped(t) PROVE ScopeTypes'
  BY <1>7 DEF MessageStopped, Free, CallerOnly, Ends, ScopeOnly, executors, disk, history
<1>8. ASSUME NEW t \in Tasks, MessageUnreachable(t) PROVE ScopeTypes'
  BY <1>8 DEF MessageUnreachable, CallerOnly, Ends, ScopeOnly, executors, disk, history
<1>9. ASSUME NEW t \in Tasks, ReplyLost(t) PROVE ScopeTypes'
  BY <1>9 DEF ReplyLost, CallerOnly, ScopeOnly, executors, disk, history
<1>10. ASSUME NEW t \in Tasks, Send(t) PROVE ScopeTypes'
  BY <1>10 DEF Send, ScopeOnly, executors, disk, history
<1>11. ASSUME NEW t \in Tasks, Interrupt(t) PROVE ScopeTypes'
  BY <1>11 DEF Interrupt, Free, CallerOnly, ScopeOnly, executors, disk, history
<1>12. ASSUME NEW t \in Tasks \ Messaged, Answer(t) PROVE ScopeTypes'
  <2>1. Reply(t, "ok") \/ Reply(t, "error")
    BY <1>12 DEF Answer
  <2>2. ScopeTypes'
    BY <2>1, ReplyKeeps, Zenon DEF IInv, TypeOK
  <2> QED
    BY <2>2
<1>13. ASSUME NEW t \in Tasks \ Messaged, AdmitTurn(t) PROVE ScopeTypes'
  <2>1. Reply(t, "ok") \/ Reply(t, "error")
    BY <1>13 DEF AdmitTurn
  <2>2. ScopeTypes'
    BY <2>1, ReplyKeeps, Zenon DEF IInv, TypeOK
  <2> QED
    BY <2>2
<1>14. ASSUME NEW t \in Tasks \ Messaged, AdmitCommand(t) PROVE ScopeTypes'
  <2>1. Reply(t, "ok") \/ Reply(t, "error") \/ HangUp(t)
    BY <1>14 DEF AdmitCommand
  <2>2. ScopeTypes'
    BY <2>1, ReplyKeeps, HangUpKeeps, Zenon DEF IInv, TypeOK
  <2> QED
    BY <2>2
<1>15. ASSUME NEW t \in Messaged, FirstDelivery(t) PROVE ScopeTypes'
  BY <1>15 DEF FirstDelivery, Saves, SaveFails, Free, Admitted, Arrives, MessageOnly, NoCompletion,
    Settle, Fault, executors, Completed
<1>16. ASSUME NEW t \in Messaged, Redelivery(t) PROVE ScopeTypes'
  BY <1>16 DEF Redelivery, Saves, SaveFails, Free, MessageOnly, NoCompletion, Completed, Settle,
    Fault, executors
<1>17. ASSUME NEW t \in Messaged, CompleteMessage(t) PROVE ScopeTypes'
  BY <1>17 DEF CompleteMessage, Saves, SaveFails, MessageOnly, NoCompletion, Settle, Fault,
    executors, Completed
<1>18. ASSUME Cleanup PROVE ScopeTypes'
  BY <1>18 DEF Cleanup, Saves, SaveFails, Free, CleanupOnly, Fault
<1>19. ASSUME CleanupTasks PROVE ScopeTypes'
  BY <1>19 DEF CleanupTasks, Saves, SaveFails, Free, CleanupOnly, Joined, Fault
<1>20. ASSUME CallCleanup PROVE ScopeTypes'
  BY <1>20 DEF CallCleanup, ScopeOnly, executors, disk, history
<1>21. ASSUME Dies PROVE ScopeTypes'
  BY <1>21 DEF Dies, Fault, Down, disk
<1>22. ASSUME DiesClosing PROVE ScopeTypes'
  BY <1>22 DEF DiesClosing, Fault, Closable, Down, Working, disk
<1>23. ASSUME CleanupPanics PROVE ScopeTypes'
  BY <1>23 DEF CleanupPanics, Free, SessionCloses, CleanupOnly, Closable, Working
<1>24. ASSUME ReEnter PROVE ScopeTypes'
  BY <1>24 DEF ReEnter, ScopeOnly, executors, disk, history
<1>25. ASSUME NEW ok \in BOOLEAN, CloseSession(ok) PROVE ScopeTypes'
  BY <1>25 DEF CloseSession, Free, SessionCloses, history, Closable, Working
<1>26. CASE UNCHANGED vars \/ (\E t \in Tasks : WorkerAccepts(t) \/ WorkerBegins(t) \/ WorkerEnds(t)
  \/ WorkerDies(t) \/ Launch(t) \/ Unstarted(t) \/ Observe(t) \/ GiveUp(t) \/ Reconstruct(t) \/
  EventSaveFails(t)) \/ (\E t \in Tasks \ Messaged : SubmitCommand(t)) \/ SteerNative \/ Steer \/
  Restart \/ (\E ok \in BOOLEAN : CleanupSessions(ok))
  BY <1>1, <1>26
<1> QED
  BY <1>2, <1>3, <1>4, <1>5, <1>6, <1>7, <1>8, <1>9, <1>10, <1>11, <1>12, <1>13, <1>14, <1>15,
    <1>16, <1>17, <1>18, <1>19, <1>20, <1>21, <1>22, <1>23, <1>24, <1>25, <1>26 DEF Next, Executors,
    Daemon, Scope, Environment

\* So has the history.
LEMMA StepHistory == IInv /\ [Next]_vars => HistoryTypes'
<1> SUFFICES ASSUME IInv, [Next]_vars PROVE HistoryTypes'
  OBVIOUS
<1>1. ASSUME UNCHANGED vars \/ (\E t \in Tasks : WorkerAccepts(t) \/ WorkerBegins(t) \/
  WorkerEnds(t) \/ Panics(t) \/ Confirm(t) \/ Poll(t) \/ Await(t) \/ StopTimeout(t) \/
  MessageStopped(t) \/ MessageUnreachable(t) \/ ReplyLost(t) \/ Send(t) \/ Interrupt(t)) \/ (\E t
  \in Tasks \ Messaged : Answer(t) \/ SubmitCommand(t)) \/ Restart \/ CallCleanup \/ CleanupPanics
  \/ ReEnter \/ (\E ok \in BOOLEAN : CleanupSessions(ok) \/ CloseSession(ok))
  PROVE UNCHANGED <<published, steers, faults>>
  <2>1. ASSUME NEW t \in Tasks, WorkerAccepts(t) \/ WorkerBegins(t) \/ WorkerEnds(t) \/ Panics(t) \/
    Confirm(t) \/ Poll(t) \/ Await(t) \/ StopTimeout(t)
    PROVE UNCHANGED <<published, steers, faults>>
    BY <2>1 DEF WorkerAccepts, Native!Accept, memory, disk, scope, history, WorkerBegins,
      Native!Begin, Working, WorkerEnds, Native!End, Panics, Down, Confirm, Free, CallerOnly, Ends,
      ScopeOnly, executors, Poll, Await, StopTimeout
  <2>2. ASSUME NEW t \in Tasks, MessageStopped(t) \/ MessageUnreachable(t) \/ ReplyLost(t) \/
    Send(t) \/ Interrupt(t)
    PROVE UNCHANGED <<published, steers, faults>>
    BY <2>2 DEF MessageStopped, Free, CallerOnly, Ends, ScopeOnly, executors, disk, history,
      MessageUnreachable, ReplyLost, Send, Interrupt
  <2>3. ASSUME NEW t \in Tasks \ Messaged, Answer(t) \/ SubmitCommand(t)
    PROVE UNCHANGED <<published, steers, faults>>
    BY <2>3 DEF Answer, NoExecutor, Free, Admitted, Arrives, Reply, memory, disk, history,
      executors, SubmitCommand, scope
  <2>4. ASSUME Restart \/ CallCleanup \/ CleanupPanics \/ ReEnter
    PROVE UNCHANGED <<published, steers, faults>>
    BY <2>4 DEF Restart, RestoredTasks, Restorable, executors, disk, scope, history, CallCleanup,
      ScopeOnly, CleanupPanics, Free, SessionCloses, CleanupOnly, Closable, Working, ReEnter
  <2>5. ASSUME NEW ok \in BOOLEAN, CleanupSessions(ok) \/ CloseSession(ok)
    PROVE UNCHANGED <<published, steers, faults>>
    BY <2>5 DEF CleanupSessions, Free, SessionCloses, CleanupOnly, Closable, Working, CloseSession,
      history
  <2> QED
    BY <1>1, <2>1, <2>2, <2>3, <2>4, <2>5 DEF vars, executors, memory, disk, scope, history
<1> USE BodiesAndBounds DEF IInv, TypeOK, HistoryTypes, DiskTypes, MemoryTypes, Outcomes, None
<1>2. ASSUME NEW t \in Tasks, WorkerDies(t) PROVE HistoryTypes'
  BY <1>2 DEF WorkerDies, Fault, Working, memory, disk, scope
<1>3. ASSUME NEW t \in Tasks, Launch(t) PROVE HistoryTypes'
  BY <1>3 DEF Launch, NoExecutor, TaskOnly, Complete, executors, scope, Saves, SaveFails, Fault
<1>4. ASSUME NEW t \in Tasks, Unstarted(t) PROVE HistoryTypes'
  BY <1>4 DEF Unstarted, NoExecutor, TaskOnly, Complete, executors, scope, Saves, SaveFails, Fault
<1>5. ASSUME NEW t \in Tasks, Observe(t) PROVE HistoryTypes'
  BY <1>5 DEF Observe, NoExecutor, TaskOnly, Complete, Observed, executors, scope, Saves, SaveFails,
    Fault
<1>6. ASSUME NEW t \in Tasks, GiveUp(t) PROVE HistoryTypes'
  BY <1>6 DEF GiveUp, NoExecutor, TaskOnly, Complete, GivenUp, executors, scope, Saves, SaveFails,
    Fault
<1>7. ASSUME NEW t \in Tasks, Reconstruct(t) PROVE HistoryTypes'
  BY <1>7 DEF Reconstruct, NoExecutor, TaskOnly, Complete, executors, scope, Saves, SaveFails, Fault
<1>8. ASSUME NEW t \in Tasks, EventSaveFails(t) PROVE HistoryTypes'
  BY <1>8 DEF EventSaveFails, SaveFails, NoExecutor, TaskOnly, Fault, executors, scope
<1>9. ASSUME NEW t \in Tasks \ Messaged, AdmitTurn(t) PROVE HistoryTypes'
  BY <1>9 DEF AdmitTurn, Saves, SaveFails, NoExecutor, Free, Admitted, Arrives, Reply, Fault,
    executors
<1>10. ASSUME NEW t \in Tasks \ Messaged, AdmitCommand(t) PROVE HistoryTypes'
  BY <1>10 DEF AdmitCommand, Saves, SaveFails, NoExecutor, Reply, HangUp, Fault, executors
<1>11. ASSUME NEW t \in Messaged, FirstDelivery(t) PROVE HistoryTypes'
  BY <1>11 DEF FirstDelivery, Saves, SaveFails, Free, Admitted, Arrives, MessageOnly, NoCompletion,
    Settle, Fault, executors, Completed
<1>12. ASSUME NEW t \in Messaged, Redelivery(t) PROVE HistoryTypes'
  BY <1>12 DEF Redelivery, Saves, SaveFails, Free, MessageOnly, NoCompletion, Completed, Settle,
    Fault, executors
<1>13. ASSUME NEW t \in Messaged, CompleteMessage(t) PROVE HistoryTypes'
  BY <1>13 DEF CompleteMessage, Saves, SaveFails, MessageOnly, NoCompletion, Settle, Fault,
    executors, Completed
<1>14. ASSUME SteerNative PROVE HistoryTypes'
  BY <1>14 DEF SteerNative, Saves, SaveFails, executors, scope, Fault
<1>15. ASSUME Steer PROVE HistoryTypes'
  BY <1>15 DEF Steer, Saves, SaveFails, Unsteered, executors, scope, Fault
<1>16. ASSUME Cleanup PROVE HistoryTypes'
  BY <1>16 DEF Cleanup, Saves, SaveFails, Free, CleanupOnly, Fault
<1>17. ASSUME CleanupTasks PROVE HistoryTypes'
  BY <1>17 DEF CleanupTasks, Saves, SaveFails, Free, CleanupOnly, Joined, Fault
<1>18. ASSUME Dies PROVE HistoryTypes'
  BY <1>18 DEF Dies, Fault, Down, disk
<1>19. ASSUME DiesClosing PROVE HistoryTypes'
  BY <1>19 DEF DiesClosing, Fault, Closable, Down, Working, disk
<1>20. CASE UNCHANGED vars \/ (\E t \in Tasks : WorkerAccepts(t) \/ WorkerBegins(t) \/ WorkerEnds(t)
  \/ Panics(t) \/ Confirm(t) \/ Poll(t) \/ Await(t) \/ StopTimeout(t) \/ MessageStopped(t) \/
  MessageUnreachable(t) \/ ReplyLost(t) \/ Send(t) \/ Interrupt(t)) \/ (\E t \in Tasks \ Messaged :
  Answer(t) \/ SubmitCommand(t)) \/ Restart \/ CallCleanup \/ CleanupPanics \/ ReEnter \/ (\E ok \in
  BOOLEAN : CleanupSessions(ok) \/ CloseSession(ok))
  BY <1>1, <1>20
<1> QED
  BY <1>2, <1>3, <1>4, <1>5, <1>6, <1>7, <1>8, <1>9, <1>10, <1>11, <1>12, <1>13, <1>14, <1>15,
    <1>16, <1>17, <1>18, <1>19, <1>20 DEF Next, Executors, Daemon, Scope, Environment

\* The daemon's memory and its state directory agree.
LEMMA StepRecord == IInv /\ [Next]_vars => RecordInv'
<1> SUFFICES ASSUME IInv, [Next]_vars PROVE RecordInv'
  OBVIOUS
<1>1. ASSUME UNCHANGED vars \/ (\E t \in Tasks : WorkerAccepts(t) \/ WorkerBegins(t) \/
  WorkerEnds(t) \/ WorkerDies(t) \/ Confirm(t) \/ Poll(t) \/ Await(t) \/ StopTimeout(t) \/
  MessageStopped(t) \/ MessageUnreachable(t) \/ ReplyLost(t) \/ Send(t) \/ Interrupt(t)) \/ (\E t
  \in Tasks \ Messaged : Answer(t)) \/ SteerNative \/ Steer \/ Cleanup \/ CallCleanup \/
  CleanupPanics \/ ReEnter \/ (\E ok \in BOOLEAN : CleanupSessions(ok) \/ CloseSession(ok))
  PROVE UNCHANGED <<up, submitting, task, savedTask, disposition>>
  <2>1. ASSUME NEW t \in Tasks, WorkerAccepts(t) \/ WorkerBegins(t) \/ WorkerEnds(t) \/
    WorkerDies(t) \/ Confirm(t) \/ Poll(t) \/ Await(t) \/ StopTimeout(t)
    PROVE UNCHANGED <<up, submitting, task, savedTask, disposition>>
    BY <2>1 DEF WorkerAccepts, Native!Accept, memory, disk, scope, history, WorkerBegins,
      Native!Begin, Working, WorkerEnds, Native!End, WorkerDies, Fault, Confirm, Free, CallerOnly,
      Ends, ScopeOnly, executors, Poll, Await, StopTimeout
  <2>2. ASSUME NEW t \in Tasks, MessageStopped(t) \/ MessageUnreachable(t) \/ ReplyLost(t) \/
    Send(t) \/ Interrupt(t)
    PROVE UNCHANGED <<up, submitting, task, savedTask, disposition>>
    BY <2>2 DEF MessageStopped, Free, CallerOnly, Ends, ScopeOnly, executors, disk, history,
      MessageUnreachable, ReplyLost, Send, Interrupt
  <2>3. ASSUME NEW t \in Tasks \ Messaged, Answer(t)
    PROVE UNCHANGED <<up, submitting, task, savedTask, disposition>>
    BY <2>3 DEF Answer, NoExecutor, Free, Admitted, Arrives, Reply, memory, disk, history, executors
  <2>4. ASSUME SteerNative \/ Steer \/ Cleanup \/ CallCleanup \/ CleanupPanics \/ ReEnter
    PROVE UNCHANGED <<up, submitting, task, savedTask, disposition>>
    BY <2>4 DEF SteerNative, Saves, SaveFails, executors, scope, Fault, Steer, Unsteered, Cleanup,
      Free, CleanupOnly, CallCleanup, ScopeOnly, disk, history, CleanupPanics, SessionCloses,
      Closable, Working, ReEnter
  <2>5. ASSUME NEW ok \in BOOLEAN, CleanupSessions(ok) \/ CloseSession(ok)
    PROVE UNCHANGED <<up, submitting, task, savedTask, disposition>>
    BY <2>5 DEF CleanupSessions, Free, SessionCloses, CleanupOnly, Closable, Working, CloseSession,
      history
  <2> QED
    BY <1>1, <2>1, <2>2, <2>3, <2>4, <2>5 DEF vars, executors, memory, disk, scope, history
<1> USE TasksAreApart DEF IInv, TypeOK, MemoryTypes, DiskTypes, ExecutorTypes, RecordInv, Outcomes,
  None, Tasks
<1>2. ASSUME NEW t \in Tasks, Launch(t) PROVE RecordInv'
  BY <1>2 DEF Launch, NoExecutor, TaskOnly, Complete, executors, scope, Saves, SaveFails, Fault
<1>3. ASSUME NEW t \in Tasks, Unstarted(t) PROVE RecordInv'
  BY <1>3 DEF Unstarted, NoExecutor, TaskOnly, Complete, executors, scope, Saves, SaveFails, Fault
<1>4. ASSUME NEW t \in Tasks, Observe(t) PROVE RecordInv'
  BY <1>4 DEF Observe, NoExecutor, TaskOnly, Complete, Observed, executors, scope, Saves, SaveFails,
    Fault
<1>5. ASSUME NEW t \in Tasks, GiveUp(t) PROVE RecordInv'
  BY <1>5 DEF GiveUp, NoExecutor, TaskOnly, Complete, GivenUp, executors, scope, Saves, SaveFails,
    Fault
<1>6. ASSUME NEW t \in Tasks, Reconstruct(t) PROVE RecordInv'
  BY <1>6 DEF Reconstruct, NoExecutor, TaskOnly, Complete, executors, scope, Saves, SaveFails, Fault
<1>7. ASSUME NEW t \in Tasks, EventSaveFails(t) PROVE RecordInv'
  BY <1>7 DEF EventSaveFails, SaveFails, NoExecutor, TaskOnly, Fault, executors, scope
<1>8. ASSUME NEW t \in Tasks, Panics(t) PROVE RecordInv'
  BY <1>8 DEF Panics, Down, disk
<1>9. ASSUME NEW t \in Tasks \ Messaged, AdmitTurn(t) PROVE RecordInv'
  BY <1>9 DEF AdmitTurn, Saves, SaveFails, NoExecutor, Free, Admitted, Arrives, Reply, Fault,
    executors
<1>10. ASSUME NEW t \in Tasks \ Messaged, SubmitCommand(t) PROVE RecordInv'
  BY <1>10 DEF SubmitCommand, Free, Admitted, Arrives, disk, scope, history
<1>11. ASSUME NEW t \in Tasks \ Messaged, AdmitCommand(t) PROVE RecordInv'
  BY <1>11 DEF AdmitCommand, Saves, SaveFails, NoExecutor, Reply, HangUp, Fault, executors
<1>12. ASSUME NEW t \in Messaged, FirstDelivery(t) PROVE RecordInv'
  BY <1>12 DEF FirstDelivery, Saves, SaveFails, Free, Admitted, Arrives, MessageOnly, NoCompletion,
    Settle, Fault, executors, Completed
<1>13. ASSUME NEW t \in Messaged, Redelivery(t) PROVE RecordInv'
  BY <1>13 DEF Redelivery, Saves, SaveFails, Free, MessageOnly, NoCompletion, Completed, Settle,
    Fault, executors
<1>14. ASSUME NEW t \in Messaged, CompleteMessage(t) PROVE RecordInv'
  BY <1>14 DEF CompleteMessage, Saves, SaveFails, MessageOnly, NoCompletion, Settle, Fault,
    executors, Completed
<1>15. ASSUME CleanupTasks PROVE RecordInv'
  BY <1>15 DEF CleanupTasks, Saves, SaveFails, Free, CleanupOnly, Joined, Fault
<1>16. ASSUME Restart PROVE RecordInv'
  BY <1>16 DEF Restart, RestoredTasks, Restorable, executors, disk, scope, history
<1>17. ASSUME Dies PROVE RecordInv'
  BY <1>17 DEF Dies, Fault, Down, disk
<1>18. ASSUME DiesClosing PROVE RecordInv'
  BY <1>18 DEF DiesClosing, Fault, Closable, Down, Working, disk
<1>19. CASE UNCHANGED vars \/ (\E t \in Tasks : WorkerAccepts(t) \/ WorkerBegins(t) \/ WorkerEnds(t)
  \/ WorkerDies(t) \/ Confirm(t) \/ Poll(t) \/ Await(t) \/ StopTimeout(t) \/ MessageStopped(t) \/
  MessageUnreachable(t) \/ ReplyLost(t) \/ Send(t) \/ Interrupt(t)) \/ (\E t \in Tasks \ Messaged :
  Answer(t)) \/ SteerNative \/ Steer \/ Cleanup \/ CallCleanup \/ CleanupPanics \/ ReEnter \/ (\E ok
  \in BOOLEAN : CleanupSessions(ok) \/ CloseSession(ok))
  BY <1>1, <1>19
<1> QED
  BY <1>2, <1>3, <1>4, <1>5, <1>6, <1>7, <1>8, <1>9, <1>10, <1>11, <1>12, <1>13, <1>14, <1>15,
    <1>16, <1>17, <1>18, <1>19 DEF Next, Executors, Daemon, Scope, Environment

\* The worker of a turn is launched once.
LEMMA StepLaunch == IInv /\ [Next]_vars => LaunchInv'
<1> SUFFICES ASSUME IInv, [Next]_vars PROVE LaunchInv'
  OBVIOUS
<1>1. ASSUME UNCHANGED vars \/ (\E t \in Tasks : WorkerAccepts(t) \/ WorkerBegins(t) \/
  WorkerEnds(t) \/ WorkerDies(t) \/ Confirm(t) \/ Poll(t) \/ Await(t) \/ StopTimeout(t) \/
  MessageStopped(t) \/ MessageUnreachable(t) \/ ReplyLost(t) \/ Send(t) \/ Interrupt(t)) \/ (\E t
  \in Tasks \ Messaged : Answer(t)) \/ (\E t \in Messaged : Redelivery(t) \/ CompleteMessage(t)) \/
  SteerNative \/ Steer \/ Cleanup \/ CallCleanup \/ CleanupPanics \/ ReEnter \/ (\E ok \in BOOLEAN :
  CleanupSessions(ok) \/ CloseSession(ok))
  PROVE UNCHANGED <<launched, task, savedTask>>
  <2>1. ASSUME NEW t \in Tasks, WorkerAccepts(t) \/ WorkerBegins(t) \/ WorkerEnds(t) \/
    WorkerDies(t) \/ Confirm(t) \/ Poll(t) \/ Await(t) \/ StopTimeout(t)
    PROVE UNCHANGED <<launched, task, savedTask>>
    BY <2>1 DEF WorkerAccepts, Native!Accept, memory, disk, scope, history, WorkerBegins,
      Native!Begin, Working, WorkerEnds, Native!End, WorkerDies, Fault, Confirm, Free, CallerOnly,
      Ends, ScopeOnly, executors, Poll, Await, StopTimeout
  <2>2. ASSUME NEW t \in Tasks, MessageStopped(t) \/ MessageUnreachable(t) \/ ReplyLost(t) \/
    Send(t) \/ Interrupt(t)
    PROVE UNCHANGED <<launched, task, savedTask>>
    BY <2>2 DEF MessageStopped, Free, CallerOnly, Ends, ScopeOnly, executors, disk, history,
      MessageUnreachable, ReplyLost, Send, Interrupt
  <2>3. ASSUME NEW t \in Tasks \ Messaged, Answer(t) PROVE UNCHANGED <<launched, task, savedTask>>
    BY <2>3 DEF Answer, NoExecutor, Free, Admitted, Arrives, Reply, memory, disk, history, executors
  <2>4. ASSUME NEW t \in Messaged, Redelivery(t) \/ CompleteMessage(t)
    PROVE UNCHANGED <<launched, task, savedTask>>
    BY <2>4 DEF Redelivery, Saves, SaveFails, Free, MessageOnly, NoCompletion, Completed, Settle,
      Fault, executors, CompleteMessage
  <2>5. ASSUME SteerNative \/ Steer \/ Cleanup \/ CallCleanup \/ CleanupPanics \/ ReEnter
    PROVE UNCHANGED <<launched, task, savedTask>>
    BY <2>5 DEF SteerNative, Saves, SaveFails, executors, scope, Fault, Steer, Unsteered, Cleanup,
      Free, CleanupOnly, CallCleanup, ScopeOnly, disk, history, CleanupPanics, SessionCloses,
      Closable, Working, ReEnter
  <2>6. ASSUME NEW ok \in BOOLEAN, CleanupSessions(ok) \/ CloseSession(ok)
    PROVE UNCHANGED <<launched, task, savedTask>>
    BY <2>6 DEF CleanupSessions, Free, SessionCloses, CleanupOnly, Closable, Working, CloseSession,
      history
  <2> QED
    BY <1>1, <2>1, <2>2, <2>3, <2>4, <2>5, <2>6 DEF vars, executors, memory, disk, scope, history
<1> USE TasksAreApart DEF IInv, TypeOK, MemoryTypes, DiskTypes, ExecutorTypes, ScopeTypes,
  RecordInv, LaunchInv, Outcomes, None, Tasks
<1>2. ASSUME NEW t \in Tasks, Launch(t) PROVE LaunchInv'
  BY <1>2 DEF Launch, NoExecutor, TaskOnly, Complete, executors, scope, Saves, SaveFails, Fault
<1>3. ASSUME NEW t \in Tasks, Unstarted(t) PROVE LaunchInv'
  BY <1>3 DEF Unstarted, NoExecutor, TaskOnly, Complete, executors, scope, Saves, SaveFails, Fault
<1>4. ASSUME NEW t \in Tasks, Observe(t) PROVE LaunchInv'
  BY <1>4 DEF Observe, NoExecutor, TaskOnly, Complete, Observed, executors, scope, Saves, SaveFails,
    Fault
<1>5. ASSUME NEW t \in Tasks, GiveUp(t) PROVE LaunchInv'
  BY <1>5 DEF GiveUp, NoExecutor, TaskOnly, Complete, GivenUp, executors, scope, Saves, SaveFails,
    Fault
<1>6. ASSUME NEW t \in Tasks, Reconstruct(t) PROVE LaunchInv'
  BY <1>6 DEF Reconstruct, NoExecutor, TaskOnly, Complete, executors, scope, Saves, SaveFails, Fault
<1>7. ASSUME NEW t \in Tasks, EventSaveFails(t) PROVE LaunchInv'
  BY <1>7 DEF EventSaveFails, SaveFails, NoExecutor, TaskOnly, Fault, executors, scope
<1>8. ASSUME NEW t \in Tasks, Panics(t) PROVE LaunchInv'
  BY <1>8 DEF Panics, Down, disk
<1>9. ASSUME NEW t \in Tasks \ Messaged, AdmitTurn(t) PROVE LaunchInv'
  BY <1>9 DEF AdmitTurn, Saves, SaveFails, NoExecutor, Free, Admitted, Arrives, Reply, Fault,
    executors
<1>10. ASSUME NEW t \in Tasks \ Messaged, SubmitCommand(t) PROVE LaunchInv'
  BY <1>10 DEF SubmitCommand, Free, Admitted, Arrives, disk, scope, history
<1>11. ASSUME NEW t \in Tasks \ Messaged, AdmitCommand(t) PROVE LaunchInv'
  BY <1>11 DEF AdmitCommand, Saves, SaveFails, NoExecutor, Reply, HangUp, Fault, executors
<1>12. ASSUME NEW t \in Messaged, FirstDelivery(t) PROVE LaunchInv'
  BY <1>12 DEF FirstDelivery, Saves, SaveFails, Free, Admitted, Arrives, MessageOnly, NoCompletion,
    Settle, Fault, executors, Completed
<1>13. ASSUME CleanupTasks PROVE LaunchInv'
  BY <1>13 DEF CleanupTasks, Saves, SaveFails, Free, CleanupOnly, Joined, Fault
<1>14. ASSUME Restart PROVE LaunchInv'
  BY <1>14 DEF Restart, RestoredTasks, Restorable, executors, disk, scope, history
<1>15. ASSUME Dies PROVE LaunchInv'
  BY <1>15 DEF Dies, Fault, Down, disk
<1>16. ASSUME DiesClosing PROVE LaunchInv'
  BY <1>16 DEF DiesClosing, Fault, Closable, Down, Working, disk
<1>17. CASE UNCHANGED vars \/ (\E t \in Tasks : WorkerAccepts(t) \/ WorkerBegins(t) \/ WorkerEnds(t)
  \/ WorkerDies(t) \/ Confirm(t) \/ Poll(t) \/ Await(t) \/ StopTimeout(t) \/ MessageStopped(t) \/
  MessageUnreachable(t) \/ ReplyLost(t) \/ Send(t) \/ Interrupt(t)) \/ (\E t \in Tasks \ Messaged :
  Answer(t)) \/ (\E t \in Messaged : Redelivery(t) \/ CompleteMessage(t)) \/ SteerNative \/ Steer \/
  Cleanup \/ CallCleanup \/ CleanupPanics \/ ReEnter \/ (\E ok \in BOOLEAN : CleanupSessions(ok) \/
  CloseSession(ok))
  BY <1>1, <1>17
<1> HIDE DEF IInv, TypeOK, RecordInv, LaunchInv, Tasks
<1> QED
  BY <1>2, <1>3, <1>4, <1>5, <1>6, <1>7, <1>8, <1>9, <1>10, <1>11, <1>12, <1>13, <1>14, <1>15,
    <1>16, <1>17 DEF Next, Executors, Daemon, Scope, Environment

\* Outcomes are the executor's.
LEMMA StepTruth == IInv /\ [Next]_vars => TruthInv'
<1> SUFFICES ASSUME IInv, [Next]_vars PROVE TruthInv'
  OBVIOUS
<1>1. ASSUME UNCHANGED vars \/ (\E t \in Tasks : WorkerAccepts(t) \/ WorkerBegins(t) \/
  WorkerDies(t) \/ ReplyLost(t) \/ Send(t) \/ Interrupt(t)) \/ SteerNative \/ Steer \/ Cleanup \/
  CallCleanup \/ CleanupPanics \/ (\E ok \in BOOLEAN : CleanupSessions(ok) \/ CloseSession(ok))
  PROVE UNCHANGED <<task, savedTask, answer, outcome, disposition, launched>>
  <2>1. ASSUME NEW t \in Tasks, WorkerAccepts(t) \/ WorkerBegins(t) \/ WorkerDies(t) \/ ReplyLost(t)
    \/ Send(t) \/ Interrupt(t)
    PROVE UNCHANGED <<task, savedTask, answer, outcome, disposition, launched>>
    BY <2>1 DEF WorkerAccepts, Native!Accept, memory, disk, scope, history, WorkerBegins,
      Native!Begin, Working, WorkerDies, Fault, ReplyLost, CallerOnly, ScopeOnly, executors, Send,
      Interrupt, Free
  <2>2. ASSUME SteerNative \/ Steer \/ Cleanup \/ CallCleanup \/ CleanupPanics
    PROVE UNCHANGED <<task, savedTask, answer, outcome, disposition, launched>>
    BY <2>2 DEF SteerNative, Saves, SaveFails, executors, scope, Fault, Steer, Unsteered, Cleanup,
      Free, CleanupOnly, CallCleanup, ScopeOnly, disk, history, CleanupPanics, SessionCloses,
      Closable, Working
  <2>3. ASSUME NEW ok \in BOOLEAN, CleanupSessions(ok) \/ CloseSession(ok)
    PROVE UNCHANGED <<task, savedTask, answer, outcome, disposition, launched>>
    BY <2>3 DEF CleanupSessions, Free, SessionCloses, CleanupOnly, Closable, Working, CloseSession,
      history
  <2> QED
    BY <1>1, <2>1, <2>2, <2>3 DEF vars, executors, memory, disk, scope, history
<1> USE TasksAreApart DEF IInv, TypeOK, MemoryTypes, DiskTypes, ExecutorTypes, ScopeTypes,
  HistoryTypes, RecordInv, LaunchInv, MessageInv, TruthInv, Outcomes, None, Tasks
<1>2. ASSUME NEW t \in Tasks, WorkerEnds(t) PROVE TruthInv'
  BY <1>2 DEF WorkerEnds, Native!End, Working, memory, disk, scope, history
<1>3. ASSUME NEW t \in Tasks, Launch(t) PROVE TruthInv'
  BY <1>3 DEF Launch, NoExecutor, TaskOnly, Complete, executors, scope, Saves, SaveFails, Fault
<1>4. ASSUME NEW t \in Tasks, Unstarted(t) PROVE TruthInv'
  BY <1>4 DEF Unstarted, NoExecutor, TaskOnly, Complete, executors, scope, Saves, SaveFails, Fault
<1>5. ASSUME NEW t \in Tasks, Observe(t) PROVE TruthInv'
  BY <1>5 DEF Observe, NoExecutor, TaskOnly, Complete, Observed, executors, scope, Saves, SaveFails,
    Fault
<1>6. ASSUME NEW t \in Tasks, GiveUp(t) PROVE TruthInv'
  BY <1>6 DEF GiveUp, NoExecutor, TaskOnly, Complete, GivenUp, executors, scope, Saves, SaveFails,
    Fault
<1>7. ASSUME NEW t \in Tasks, Reconstruct(t) PROVE TruthInv'
  BY <1>7 DEF Reconstruct, NoExecutor, TaskOnly, Complete, executors, scope, Saves, SaveFails, Fault
<1>8. ASSUME NEW t \in Tasks, EventSaveFails(t) PROVE TruthInv'
  BY <1>8 DEF EventSaveFails, SaveFails, NoExecutor, TaskOnly, Fault, executors, scope
<1>9. ASSUME NEW t \in Tasks, Panics(t) PROVE TruthInv'
  BY <1>9 DEF Panics, Down, disk
<1>10. ASSUME NEW t \in Tasks, Confirm(t) PROVE TruthInv'
  BY <1>10 DEF Confirm, Free, CallerOnly, Ends, ScopeOnly, executors, disk, history
<1>11. ASSUME NEW t \in Tasks, Poll(t) PROVE TruthInv'
  BY <1>11 DEF Poll, Free, CallerOnly, Ends, ScopeOnly, executors, disk, history
<1>12. ASSUME NEW t \in Tasks, Await(t) PROVE TruthInv'
  BY <1>12 DEF Await, CallerOnly, Ends, ScopeOnly, executors, disk, history
<1>13. ASSUME NEW t \in Tasks, StopTimeout(t) PROVE TruthInv'
  BY <1>13 DEF StopTimeout, CallerOnly, Ends, ScopeOnly, executors, disk, history
<1>14. ASSUME NEW t \in Tasks, MessageStopped(t) PROVE TruthInv'
  BY <1>14 DEF MessageStopped, Free, CallerOnly, Ends, ScopeOnly, executors, disk, history
<1>15. ASSUME NEW t \in Tasks, MessageUnreachable(t) PROVE TruthInv'
  BY <1>15 DEF MessageUnreachable, CallerOnly, Ends, ScopeOnly, executors, disk, history
<1>16. ASSUME NEW t \in Tasks \ Messaged, Answer(t) PROVE TruthInv'
  <2>1. Reply(t, "ok") \/ Reply(t, "error")
    BY <1>16 DEF Answer
  <2>2. (\A u \in Tasks : answer'[u] = answer[u] \/ answer'[u] = "rejected")
    BY <2>1, ReplyKeeps, Zenon DEF IInv, TypeOK
  <2> QED
    BY <1>16, <2>2 DEF Answer, NoExecutor, memory, disk, executors
<1>17. ASSUME NEW t \in Tasks \ Messaged, AdmitTurn(t) PROVE TruthInv'
  <2>1. Reply(t, "ok") \/ Reply(t, "error")
    BY <1>17 DEF AdmitTurn
  <2>2. (\A u \in Tasks : answer'[u] = answer[u] \/ answer'[u] = "rejected")
    BY <2>1, ReplyKeeps, Zenon DEF IInv, TypeOK
  <2>3. t \in Turns /\ savedTask[t] = None
    BY <1>17 DEF AdmitTurn, Free
  <2>4. \/ UNCHANGED <<task, savedTask>>
        \/ /\ task' = [task EXCEPT ![t] = "admitted"]
           /\ savedTask' = [savedTask EXCEPT ![t] = "running"]
    BY <1>17 DEF AdmitTurn
  <2>5. UNCHANGED <<outcome, launched, disposition>>
    BY <1>17 DEF AdmitTurn, NoExecutor, executors
  <2> QED
    BY <2>2, <2>3, <2>4, <2>5
<1>18. ASSUME NEW t \in Tasks \ Messaged, SubmitCommand(t) PROVE TruthInv'
  BY <1>18 DEF SubmitCommand, Free, Admitted, Arrives, disk, scope, history
<1>19. ASSUME NEW t \in Tasks \ Messaged, AdmitCommand(t) PROVE TruthInv'
  <2>1. Reply(t, "ok") \/ Reply(t, "error") \/ HangUp(t)
    BY <1>19 DEF AdmitCommand
  <2>2. (\A u \in Tasks : answer'[u] = answer[u] \/ answer'[u] = "rejected")
    BY <2>1, ReplyKeeps, HangUpKeeps, Zenon DEF IInv, TypeOK
  <2>3. task[t] = None /\ savedTask[t] = None
    BY <1>19 DEF AdmitCommand
  <2> QED
    BY <1>19, <2>2, <2>3 DEF AdmitCommand, NoExecutor, Saves, SaveFails, Fault, executors
<1>20. ASSUME NEW t \in Messaged, FirstDelivery(t) PROVE TruthInv'
  BY <1>20 DEF FirstDelivery, Saves, SaveFails, Free, Admitted, Arrives, MessageOnly, NoCompletion,
    Settle, Fault, executors, Completed
<1>21. ASSUME NEW t \in Messaged, Redelivery(t) PROVE TruthInv'
  BY <1>21 DEF Redelivery, Saves, SaveFails, Free, MessageOnly, NoCompletion, Completed, Settle,
    Fault, executors
<1>22. ASSUME NEW t \in Messaged, CompleteMessage(t) PROVE TruthInv'
  BY <1>22 DEF CompleteMessage, Saves, SaveFails, MessageOnly, NoCompletion, Settle, Fault,
    executors, Completed
<1>23. ASSUME CleanupTasks PROVE TruthInv'
  BY <1>23 DEF CleanupTasks, Saves, SaveFails, Free, CleanupOnly, Joined, Fault
<1>24. ASSUME Restart PROVE TruthInv'
  BY <1>24 DEF Restart, RestoredTasks, Restorable, executors, disk, scope, history
<1>25. ASSUME Dies PROVE TruthInv'
  BY <1>25 DEF Dies, Fault, Down, disk
<1>26. ASSUME DiesClosing PROVE TruthInv'
  BY <1>26 DEF DiesClosing, Fault, Closable, Down, Working, disk
<1>27. ASSUME ReEnter PROVE TruthInv'
  BY <1>27 DEF ReEnter, ScopeOnly, executors, disk, history
<1>28. CASE UNCHANGED vars \/ (\E t \in Tasks : WorkerAccepts(t) \/ WorkerBegins(t) \/ WorkerDies(t)
  \/ ReplyLost(t) \/ Send(t) \/ Interrupt(t)) \/ SteerNative \/ Steer \/ Cleanup \/ CallCleanup \/
  CleanupPanics \/ (\E ok \in BOOLEAN : CleanupSessions(ok) \/ CloseSession(ok))
  BY <1>1, <1>28
<1> HIDE DEF IInv, TypeOK, RecordInv, LaunchInv, MessageInv, TruthInv, Tasks
<1> QED
  BY <1>2, <1>3, <1>4, <1>5, <1>6, <1>7, <1>8, <1>9, <1>10, <1>11, <1>12, <1>13, <1>14, <1>15,
    <1>16, <1>17, <1>18, <1>19, <1>20, <1>21, <1>22, <1>23, <1>24, <1>25, <1>26, <1>27, <1>28 DEF
    Next, Executors, Daemon, Scope, Environment

\* A message is settled once.
LEMMA StepMessage == IInv /\ [Next]_vars => MessageInv'
<1> SUFFICES ASSUME IInv, [Next]_vars PROVE MessageInv'
  OBVIOUS
<1>1. ASSUME UNCHANGED vars \/ (\E t \in Tasks : WorkerAccepts(t) \/ WorkerBegins(t) \/
  WorkerEnds(t) \/ WorkerDies(t) \/ Launch(t) \/ Unstarted(t) \/ Observe(t) \/ GiveUp(t) \/
  Reconstruct(t) \/ EventSaveFails(t) \/ Confirm(t) \/ Poll(t) \/ Await(t) \/ StopTimeout(t) \/
  MessageStopped(t) \/ MessageUnreachable(t) \/ ReplyLost(t) \/ Send(t) \/ Interrupt(t)) \/ (\E t
  \in Tasks \ Messaged : Answer(t) \/ AdmitTurn(t) \/ SubmitCommand(t) \/ AdmitCommand(t)) \/
  SteerNative \/ Steer \/ Cleanup \/ CleanupTasks \/ Restart \/ CallCleanup \/ CleanupPanics \/ (\E
  ok \in BOOLEAN : CleanupSessions(ok) \/ CloseSession(ok))
  PROVE UNCHANGED <<published, arrived, disposition, handling>>
  <2>1. ASSUME NEW t \in Tasks, WorkerAccepts(t) \/ WorkerBegins(t) \/ WorkerEnds(t) \/
    WorkerDies(t) \/ Launch(t) \/ Unstarted(t) \/ Observe(t) \/ GiveUp(t)
    PROVE UNCHANGED <<published, arrived, disposition, handling>>
    BY <2>1 DEF WorkerAccepts, Native!Accept, memory, disk, scope, history, WorkerBegins,
      Native!Begin, Working, WorkerEnds, Native!End, WorkerDies, Fault, Launch, NoExecutor,
      TaskOnly, Complete, executors, Saves, SaveFails, Unstarted, Observe, Observed, GiveUp, GivenUp
  <2>2. ASSUME NEW t \in Tasks, Reconstruct(t) \/ EventSaveFails(t) \/ Confirm(t) \/ Poll(t) \/
    Await(t) \/ StopTimeout(t) \/ MessageStopped(t) \/ MessageUnreachable(t)
    PROVE UNCHANGED <<published, arrived, disposition, handling>>
    BY <2>2 DEF Reconstruct, NoExecutor, TaskOnly, Complete, executors, scope, Saves, SaveFails,
      Fault, EventSaveFails, Confirm, Free, CallerOnly, Ends, ScopeOnly, disk, history, Poll, Await,
      StopTimeout, MessageStopped, MessageUnreachable
  <2>3. ASSUME NEW t \in Tasks, ReplyLost(t) \/ Send(t) \/ Interrupt(t)
    PROVE UNCHANGED <<published, arrived, disposition, handling>>
    BY <2>3 DEF ReplyLost, CallerOnly, ScopeOnly, executors, disk, history, Send, Interrupt, Free
  <2>4. ASSUME NEW t \in Tasks \ Messaged, Answer(t) \/ AdmitTurn(t) \/ SubmitCommand(t) \/
    AdmitCommand(t)
    PROVE UNCHANGED <<published, arrived, disposition, handling>>
    BY <2>4 DEF Answer, NoExecutor, Free, Admitted, Arrives, Reply, memory, disk, history,
      executors, AdmitTurn, Saves, SaveFails, Fault, SubmitCommand, scope, AdmitCommand, HangUp
  <2>5. ASSUME SteerNative \/ Steer \/ Cleanup \/ CleanupTasks \/ Restart \/ CallCleanup \/
    CleanupPanics
    PROVE UNCHANGED <<published, arrived, disposition, handling>>
    BY <2>5 DEF SteerNative, Saves, SaveFails, executors, scope, Fault, Steer, Unsteered, Cleanup,
      Free, CleanupOnly, CleanupTasks, Joined, Restart, RestoredTasks, Restorable, disk, history,
      CallCleanup, ScopeOnly, CleanupPanics, SessionCloses, Closable, Working
  <2>6. ASSUME NEW ok \in BOOLEAN, CleanupSessions(ok) \/ CloseSession(ok)
    PROVE UNCHANGED <<published, arrived, disposition, handling>>
    BY <2>6 DEF CleanupSessions, Free, SessionCloses, CleanupOnly, Closable, Working, CloseSession,
      history
  <2> QED
    BY <1>1, <2>1, <2>2, <2>3, <2>4, <2>5, <2>6 DEF vars, executors, memory, disk, scope, history
<1> USE DEF IInv, TypeOK, DiskTypes, HistoryTypes, ScopeTypes, MessageInv, Outcomes, None
<1>2. ASSUME NEW t \in Tasks, Panics(t) PROVE MessageInv'
  BY <1>2 DEF Panics, Down, disk
<1>3. ASSUME NEW t \in Messaged, FirstDelivery(t) PROVE MessageInv'
  BY <1>3 DEF FirstDelivery, Saves, SaveFails, Free, Admitted, Arrives, MessageOnly, NoCompletion,
    Settle, Fault, executors, Completed
<1>4. ASSUME NEW t \in Messaged, Redelivery(t) PROVE MessageInv'
  BY <1>4 DEF Redelivery, Saves, SaveFails, Free, MessageOnly, NoCompletion, Completed, Settle,
    Fault, executors
<1>5. ASSUME NEW t \in Messaged, CompleteMessage(t) PROVE MessageInv'
  BY <1>5 DEF CompleteMessage, Saves, SaveFails, MessageOnly, NoCompletion, Settle, Fault,
    executors, Completed
<1>6. ASSUME Dies PROVE MessageInv'
  BY <1>6 DEF Dies, Fault, Down, disk
<1>7. ASSUME DiesClosing PROVE MessageInv'
  BY <1>7 DEF DiesClosing, Fault, Closable, Down, Working, disk
<1>8. ASSUME ReEnter PROVE MessageInv'
  BY <1>8 DEF ReEnter, ScopeOnly, executors, disk, history
<1>9. CASE UNCHANGED vars \/ (\E t \in Tasks : WorkerAccepts(t) \/ WorkerBegins(t) \/ WorkerEnds(t)
  \/ WorkerDies(t) \/ Launch(t) \/ Unstarted(t) \/ Observe(t) \/ GiveUp(t) \/ Reconstruct(t) \/
  EventSaveFails(t) \/ Confirm(t) \/ Poll(t) \/ Await(t) \/ StopTimeout(t) \/ MessageStopped(t) \/
  MessageUnreachable(t) \/ ReplyLost(t) \/ Send(t) \/ Interrupt(t)) \/ (\E t \in Tasks \ Messaged :
  Answer(t) \/ AdmitTurn(t) \/ SubmitCommand(t) \/ AdmitCommand(t)) \/ SteerNative \/ Steer \/
  Cleanup \/ CleanupTasks \/ Restart \/ CallCleanup \/ CleanupPanics \/ (\E ok \in BOOLEAN :
  CleanupSessions(ok) \/ CloseSession(ok))
  BY <1>1, <1>9
<1> QED
  BY <1>2, <1>3, <1>4, <1>5, <1>6, <1>7, <1>8, <1>9 DEF Next, Executors, Daemon, Scope, Environment

\* The steering reaches the native session once.
LEMMA StepSteer == IInv /\ [Next]_vars => SteerInv'
<1> SUFFICES ASSUME IInv, [Next]_vars PROVE SteerInv'
  OBVIOUS
<1>1. ASSUME UNCHANGED vars \/ (\E t \in Tasks : WorkerAccepts(t) \/ WorkerBegins(t) \/
  WorkerEnds(t) \/ WorkerDies(t) \/ Launch(t) \/ Unstarted(t) \/ Observe(t) \/ GiveUp(t) \/
  Reconstruct(t) \/ EventSaveFails(t) \/ Confirm(t) \/ Poll(t) \/ Await(t) \/ StopTimeout(t) \/
  MessageStopped(t) \/ MessageUnreachable(t) \/ ReplyLost(t) \/ Send(t) \/ Interrupt(t)) \/ (\E t
  \in Tasks \ Messaged : Answer(t) \/ AdmitTurn(t) \/ SubmitCommand(t) \/ AdmitCommand(t)) \/ (\E t
  \in Messaged : FirstDelivery(t) \/ Redelivery(t) \/ CompleteMessage(t)) \/ Cleanup \/ CleanupTasks
  \/ Restart \/ CallCleanup \/ CleanupPanics \/ ReEnter \/ (\E ok \in BOOLEAN : CleanupSessions(ok)
  \/ CloseSession(ok))
  PROVE UNCHANGED <<steers, control, steering>>
  <2>1. ASSUME NEW t \in Tasks, WorkerAccepts(t) \/ WorkerBegins(t) \/ WorkerEnds(t) \/
    WorkerDies(t) \/ Launch(t) \/ Unstarted(t) \/ Observe(t) \/ GiveUp(t)
    PROVE UNCHANGED <<steers, control, steering>>
    BY <2>1 DEF WorkerAccepts, Native!Accept, memory, disk, scope, history, WorkerBegins,
      Native!Begin, Working, WorkerEnds, Native!End, WorkerDies, Fault, Launch, NoExecutor,
      TaskOnly, Complete, executors, Saves, SaveFails, Unstarted, Observe, Observed, GiveUp, GivenUp
  <2>2. ASSUME NEW t \in Tasks, Reconstruct(t) \/ EventSaveFails(t) \/ Confirm(t) \/ Poll(t) \/
    Await(t) \/ StopTimeout(t) \/ MessageStopped(t) \/ MessageUnreachable(t)
    PROVE UNCHANGED <<steers, control, steering>>
    BY <2>2 DEF Reconstruct, NoExecutor, TaskOnly, Complete, executors, scope, Saves, SaveFails,
      Fault, EventSaveFails, Confirm, Free, CallerOnly, Ends, ScopeOnly, disk, history, Poll, Await,
      StopTimeout, MessageStopped, MessageUnreachable
  <2>3. ASSUME NEW t \in Tasks, ReplyLost(t) \/ Send(t) \/ Interrupt(t)
    PROVE UNCHANGED <<steers, control, steering>>
    BY <2>3 DEF ReplyLost, CallerOnly, ScopeOnly, executors, disk, history, Send, Interrupt, Free
  <2>4. ASSUME NEW t \in Tasks \ Messaged, Answer(t) \/ AdmitTurn(t) \/ SubmitCommand(t) \/
    AdmitCommand(t)
    PROVE UNCHANGED <<steers, control, steering>>
    BY <2>4 DEF Answer, NoExecutor, Free, Admitted, Arrives, Reply, memory, disk, history,
      executors, AdmitTurn, Saves, SaveFails, Fault, SubmitCommand, scope, AdmitCommand, HangUp
  <2>5. ASSUME NEW t \in Messaged, FirstDelivery(t) \/ Redelivery(t) \/ CompleteMessage(t)
    PROVE UNCHANGED <<steers, control, steering>>
    BY <2>5 DEF FirstDelivery, Saves, SaveFails, Free, Admitted, Arrives, MessageOnly, NoCompletion,
      Settle, Fault, executors, Completed, Redelivery, CompleteMessage
  <2>6. ASSUME Cleanup \/ CleanupTasks \/ Restart \/ CallCleanup \/ CleanupPanics \/ ReEnter
    PROVE UNCHANGED <<steers, control, steering>>
    BY <2>6 DEF Cleanup, Saves, SaveFails, Free, CleanupOnly, Fault, CleanupTasks, Joined, Restart,
      RestoredTasks, Restorable, executors, disk, scope, history, CallCleanup, ScopeOnly,
      CleanupPanics, SessionCloses, Closable, Working, ReEnter
  <2>7. ASSUME NEW ok \in BOOLEAN, CleanupSessions(ok) \/ CloseSession(ok)
    PROVE UNCHANGED <<steers, control, steering>>
    BY <2>7 DEF CleanupSessions, Free, SessionCloses, CleanupOnly, Closable, Working, CloseSession,
      history
  <2> QED
    BY <1>1, <2>1, <2>2, <2>3, <2>4, <2>5, <2>6, <2>7 DEF vars, executors, memory, disk, scope,
      history
<1> USE DEF IInv, TypeOK, HistoryTypes, MemoryTypes, SteerInv, None
<1>2. ASSUME NEW t \in Tasks, Panics(t) PROVE SteerInv'
  BY <1>2 DEF Panics, Down, disk
<1>3. ASSUME SteerNative PROVE SteerInv'
  BY <1>3 DEF SteerNative, Saves, SaveFails, executors, scope, Fault
<1>4. ASSUME Steer PROVE SteerInv'
  BY <1>4 DEF Steer, Saves, SaveFails, Unsteered, executors, scope, Fault
<1>5. ASSUME Dies PROVE SteerInv'
  BY <1>5 DEF Dies, Fault, Down, disk
<1>6. ASSUME DiesClosing PROVE SteerInv'
  BY <1>6 DEF DiesClosing, Fault, Closable, Down, Working, disk
<1>7. CASE UNCHANGED vars \/ (\E t \in Tasks : WorkerAccepts(t) \/ WorkerBegins(t) \/ WorkerEnds(t)
  \/ WorkerDies(t) \/ Launch(t) \/ Unstarted(t) \/ Observe(t) \/ GiveUp(t) \/ Reconstruct(t) \/
  EventSaveFails(t) \/ Confirm(t) \/ Poll(t) \/ Await(t) \/ StopTimeout(t) \/ MessageStopped(t) \/
  MessageUnreachable(t) \/ ReplyLost(t) \/ Send(t) \/ Interrupt(t)) \/ (\E t \in Tasks \ Messaged :
  Answer(t) \/ AdmitTurn(t) \/ SubmitCommand(t) \/ AdmitCommand(t)) \/ (\E t \in Messaged :
  FirstDelivery(t) \/ Redelivery(t) \/ CompleteMessage(t)) \/ Cleanup \/ CleanupTasks \/ Restart \/
  CallCleanup \/ CleanupPanics \/ ReEnter \/ (\E ok \in BOOLEAN : CleanupSessions(ok) \/
  CloseSession(ok))
  BY <1>1, <1>7
<1> QED
  BY <1>2, <1>3, <1>4, <1>5, <1>6, <1>7 DEF Next, Executors, Daemon, Scope, Environment

\* A forgotten session is closed, or its error is reported.
LEMMA StepCleanup == IInv /\ [Next]_vars => CleanupInv'
<1> SUFFICES ASSUME IInv, [Next]_vars PROVE CleanupInv'
  OBVIOUS
<1>1. ASSUME UNCHANGED vars \/ (\E t \in Tasks : WorkerBegins(t) \/ Launch(t) \/ Unstarted(t) \/
  Observe(t) \/ GiveUp(t) \/ Reconstruct(t) \/ EventSaveFails(t) \/ Confirm(t) \/ Poll(t) \/
  Await(t) \/ StopTimeout(t) \/ MessageStopped(t) \/ MessageUnreachable(t) \/ ReplyLost(t) \/
  Send(t) \/ Interrupt(t)) \/ (\E t \in Tasks \ Messaged : Answer(t) \/ AdmitTurn(t) \/
  SubmitCommand(t) \/ AdmitCommand(t)) \/ (\E t \in Messaged : FirstDelivery(t) \/ Redelivery(t) \/
  CompleteMessage(t)) \/ SteerNative \/ Steer \/ ReEnter
  PROVE UNCHANGED <<cleaning, up, cleaned, failed, session, savedSession, nativeClosed, closeError,
    accepted, outcome, lost>>
  <2>1. ASSUME NEW t \in Tasks, WorkerBegins(t) \/ Launch(t) \/ Unstarted(t) \/ Observe(t) \/
    GiveUp(t) \/ Reconstruct(t) \/ EventSaveFails(t) \/ Confirm(t)
    PROVE UNCHANGED <<cleaning, up, cleaned, failed, session, savedSession, nativeClosed,
      closeError, accepted, outcome, lost>>
    BY <2>1 DEF WorkerBegins, Native!Begin, Working, memory, disk, scope, history, Launch,
      NoExecutor, TaskOnly, Complete, executors, Saves, SaveFails, Fault, Unstarted, Observe,
      Observed, GiveUp, GivenUp, Reconstruct, EventSaveFails, Confirm, Free, CallerOnly, Ends,
      ScopeOnly
  <2>2. ASSUME NEW t \in Tasks, Poll(t) \/ Await(t) \/ StopTimeout(t) \/ MessageStopped(t) \/
    MessageUnreachable(t) \/ ReplyLost(t) \/ Send(t) \/ Interrupt(t)
    PROVE UNCHANGED <<cleaning, up, cleaned, failed, session, savedSession, nativeClosed,
      closeError, accepted, outcome, lost>>
    BY <2>2 DEF Poll, Free, CallerOnly, Ends, ScopeOnly, executors, disk, history, Await,
      StopTimeout, MessageStopped, MessageUnreachable, ReplyLost, Send, Interrupt
  <2>3. ASSUME NEW t \in Tasks \ Messaged, Answer(t) \/ AdmitTurn(t) \/ SubmitCommand(t) \/
    AdmitCommand(t)
    PROVE UNCHANGED <<cleaning, up, cleaned, failed, session, savedSession, nativeClosed,
      closeError, accepted, outcome, lost>>
    BY <2>3 DEF Answer, NoExecutor, Free, Admitted, Arrives, Reply, memory, disk, history,
      executors, AdmitTurn, Saves, SaveFails, Fault, SubmitCommand, scope, AdmitCommand, HangUp
  <2>4. ASSUME NEW t \in Messaged, FirstDelivery(t) \/ Redelivery(t) \/ CompleteMessage(t)
    PROVE UNCHANGED <<cleaning, up, cleaned, failed, session, savedSession, nativeClosed,
      closeError, accepted, outcome, lost>>
    BY <2>4 DEF FirstDelivery, Saves, SaveFails, Free, Admitted, Arrives, MessageOnly, NoCompletion,
      Settle, Fault, executors, Completed, Redelivery, CompleteMessage
  <2>5. ASSUME SteerNative \/ Steer \/ ReEnter
    PROVE UNCHANGED <<cleaning, up, cleaned, failed, session, savedSession, nativeClosed,
      closeError, accepted, outcome, lost>>
    BY <2>5 DEF SteerNative, Saves, SaveFails, executors, scope, Fault, Steer, Unsteered, ReEnter,
      ScopeOnly, disk, history
  <2> QED
    BY <1>1, <2>1, <2>2, <2>3, <2>4, <2>5 DEF vars, executors, memory, disk, scope, history
<1> USE TasksAreApart DEF IInv, TypeOK, MemoryTypes, DiskTypes, ExecutorTypes, ScopeTypes,
  CleanupInv, Working, None
<1>2. ASSUME NEW t \in Tasks, WorkerAccepts(t) PROVE CleanupInv'
  BY <1>2 DEF WorkerAccepts, Native!Accept, memory, disk, scope, history
<1>3. ASSUME NEW t \in Tasks, WorkerEnds(t) PROVE CleanupInv'
  BY <1>3 DEF WorkerEnds, Native!End, Working, memory, disk, scope, history
<1>4. ASSUME NEW t \in Tasks, WorkerDies(t) PROVE CleanupInv'
  BY <1>4 DEF WorkerDies, Fault, Working, memory, disk, scope
<1>5. ASSUME NEW t \in Tasks, Panics(t) PROVE CleanupInv'
  BY <1>5 DEF Panics, Down, disk
<1>6. ASSUME Cleanup PROVE CleanupInv'
  BY <1>6 DEF Cleanup, Saves, SaveFails, Free, CleanupOnly, Fault
<1>7. ASSUME CleanupTasks PROVE CleanupInv'
  BY <1>7 DEF CleanupTasks, Saves, SaveFails, Free, CleanupOnly, Joined, Fault
<1>8. ASSUME Restart PROVE CleanupInv'
  BY <1>8 DEF Restart, RestoredTasks, Restorable, executors, disk, scope, history
<1>9. ASSUME CallCleanup PROVE CleanupInv'
  BY <1>9 DEF CallCleanup, ScopeOnly, executors, disk, history
<1>10. ASSUME Dies PROVE CleanupInv'
  BY <1>10 DEF Dies, Fault, Down, disk
<1>11. ASSUME DiesClosing PROVE CleanupInv'
  BY <1>11 DEF DiesClosing, Fault, Closable, Down, Working, disk
<1>12. ASSUME CleanupPanics PROVE CleanupInv'
  BY <1>12 DEF CleanupPanics, Free, SessionCloses, CleanupOnly, Closable, Working
<1>13. ASSUME NEW ok \in BOOLEAN, CleanupSessions(ok) PROVE CleanupInv'
  BY <1>13 DEF CleanupSessions, Free, SessionCloses, CleanupOnly, Closable, Working
<1>14. ASSUME NEW ok \in BOOLEAN, CloseSession(ok) PROVE CleanupInv'
  BY <1>14 DEF CloseSession, Free, SessionCloses, history, Closable, Working
<1>15. CASE UNCHANGED vars \/ (\E t \in Tasks : WorkerBegins(t) \/ Launch(t) \/ Unstarted(t) \/
  Observe(t) \/ GiveUp(t) \/ Reconstruct(t) \/ EventSaveFails(t) \/ Confirm(t) \/ Poll(t) \/
  Await(t) \/ StopTimeout(t) \/ MessageStopped(t) \/ MessageUnreachable(t) \/ ReplyLost(t) \/
  Send(t) \/ Interrupt(t)) \/ (\E t \in Tasks \ Messaged : Answer(t) \/ AdmitTurn(t) \/
  SubmitCommand(t) \/ AdmitCommand(t)) \/ (\E t \in Messaged : FirstDelivery(t) \/ Redelivery(t) \/
  CompleteMessage(t)) \/ SteerNative \/ Steer \/ ReEnter
  BY <1>1, <1>15
<1> QED
  BY <1>2, <1>3, <1>4, <1>5, <1>6, <1>7, <1>8, <1>9, <1>10, <1>11, <1>12, <1>13, <1>14, <1>15 DEF
    Next, Executors, Daemon, Scope, Environment

\* A command whose task was saved is not submitted again.
LEMMA StepSubmission == IInv /\ [Next]_vars => NotResubmitted
<1> SUFFICES ASSUME IInv, [Next]_vars PROVE NotResubmitted
  OBVIOUS
<1>1. ASSUME UNCHANGED vars \/ (\E t \in Tasks : WorkerAccepts(t) \/ WorkerBegins(t) \/
  WorkerEnds(t) \/ WorkerDies(t) \/ Unstarted(t) \/ Observe(t) \/ GiveUp(t) \/ Reconstruct(t) \/
  EventSaveFails(t) \/ Panics(t) \/ Confirm(t) \/ Poll(t) \/ Await(t) \/ StopTimeout(t) \/
  MessageStopped(t) \/ MessageUnreachable(t) \/ ReplyLost(t) \/ Send(t) \/ Interrupt(t)) \/ (\E t
  \in Tasks \ Messaged : Answer(t) \/ AdmitTurn(t) \/ AdmitCommand(t)) \/ (\E t \in Messaged :
  FirstDelivery(t) \/ Redelivery(t) \/ CompleteMessage(t)) \/ SteerNative \/ Steer \/ Cleanup \/
  CleanupTasks \/ Restart \/ CallCleanup \/ Dies \/ DiesClosing \/ CleanupPanics \/ ReEnter \/ (\E
  ok \in BOOLEAN : CleanupSessions(ok) \/ CloseSession(ok))
  PROVE UNCHANGED <<launched>>
  <2>1. ASSUME NEW t \in Tasks, WorkerAccepts(t) \/ WorkerBegins(t) \/ WorkerEnds(t) \/
    WorkerDies(t) \/ Unstarted(t) \/ Observe(t) \/ GiveUp(t) \/ Reconstruct(t)
    PROVE UNCHANGED <<launched>>
    BY <2>1 DEF WorkerAccepts, Native!Accept, memory, disk, scope, history, WorkerBegins,
      Native!Begin, Working, WorkerEnds, Native!End, WorkerDies, Fault, Unstarted, NoExecutor,
      TaskOnly, Complete, executors, Saves, SaveFails, Observe, Observed, GiveUp, GivenUp,
      Reconstruct
  <2>2. ASSUME NEW t \in Tasks, EventSaveFails(t) \/ Panics(t) \/ Confirm(t) \/ Poll(t) \/ Await(t)
    \/ StopTimeout(t) \/ MessageStopped(t) \/ MessageUnreachable(t)
    PROVE UNCHANGED <<launched>>
    BY <2>2 DEF EventSaveFails, SaveFails, NoExecutor, TaskOnly, Fault, executors, scope, Panics,
      Down, disk, Confirm, Free, CallerOnly, Ends, ScopeOnly, history, Poll, Await, StopTimeout,
      MessageStopped, MessageUnreachable
  <2>3. ASSUME NEW t \in Tasks, ReplyLost(t) \/ Send(t) \/ Interrupt(t) PROVE UNCHANGED <<launched>>
    BY <2>3 DEF ReplyLost, CallerOnly, ScopeOnly, executors, disk, history, Send, Interrupt, Free
  <2>4. ASSUME NEW t \in Tasks \ Messaged, Answer(t) \/ AdmitTurn(t) \/ AdmitCommand(t)
    PROVE UNCHANGED <<launched>>
    BY <2>4 DEF Answer, NoExecutor, Free, Admitted, Arrives, Reply, memory, disk, history,
      executors, AdmitTurn, Saves, SaveFails, Fault, AdmitCommand, HangUp
  <2>5. ASSUME NEW t \in Messaged, FirstDelivery(t) \/ Redelivery(t) \/ CompleteMessage(t)
    PROVE UNCHANGED <<launched>>
    BY <2>5 DEF FirstDelivery, Saves, SaveFails, Free, Admitted, Arrives, MessageOnly, NoCompletion,
      Settle, Fault, executors, Completed, Redelivery, CompleteMessage
  <2>6. ASSUME SteerNative \/ Steer \/ Cleanup \/ CleanupTasks \/ Restart \/ CallCleanup \/ Dies \/
    DiesClosing
    PROVE UNCHANGED <<launched>>
    BY <2>6 DEF SteerNative, Saves, SaveFails, executors, scope, Fault, Steer, Unsteered, Cleanup,
      Free, CleanupOnly, CleanupTasks, Joined, Restart, RestoredTasks, Restorable, disk, history,
      CallCleanup, ScopeOnly, Dies, Down, DiesClosing, Closable, Working
  <2>7. ASSUME CleanupPanics \/ ReEnter PROVE UNCHANGED <<launched>>
    BY <2>7 DEF CleanupPanics, Free, SessionCloses, CleanupOnly, Closable, Working, ReEnter,
      ScopeOnly, executors, disk, history
  <2>8. ASSUME NEW ok \in BOOLEAN, CleanupSessions(ok) \/ CloseSession(ok)
    PROVE UNCHANGED <<launched>>
    BY <2>8 DEF CleanupSessions, Free, SessionCloses, CleanupOnly, Closable, Working, CloseSession,
      history
  <2> QED
    BY <1>1, <2>1, <2>2, <2>3, <2>4, <2>5, <2>6, <2>7, <2>8 DEF vars, executors, memory, disk,
      scope, history
<1> USE TasksAreApart DEF IInv, TypeOK, MemoryTypes, DiskTypes, ExecutorTypes, RecordInv, LaunchInv,
  Outcomes, None, Tasks
<1>2. ASSUME NEW t \in Tasks, Launch(t) PROVE NotResubmitted
  BY <1>2 DEF Launch, NoExecutor, TaskOnly, Complete, executors, scope, Saves, SaveFails, Fault,
    NotResubmitted
<1>3. ASSUME NEW t \in Tasks \ Messaged, SubmitCommand(t) PROVE NotResubmitted
  BY <1>3 DEF SubmitCommand, Free, Admitted, Arrives, disk, scope, history, NotResubmitted
<1>4. CASE UNCHANGED vars \/ (\E t \in Tasks : WorkerAccepts(t) \/ WorkerBegins(t) \/ WorkerEnds(t)
  \/ WorkerDies(t) \/ Unstarted(t) \/ Observe(t) \/ GiveUp(t) \/ Reconstruct(t) \/ EventSaveFails(t)
  \/ Panics(t) \/ Confirm(t) \/ Poll(t) \/ Await(t) \/ StopTimeout(t) \/ MessageStopped(t) \/
  MessageUnreachable(t) \/ ReplyLost(t) \/ Send(t) \/ Interrupt(t)) \/ (\E t \in Tasks \ Messaged :
  Answer(t) \/ AdmitTurn(t) \/ AdmitCommand(t)) \/ (\E t \in Messaged : FirstDelivery(t) \/
  Redelivery(t) \/ CompleteMessage(t)) \/ SteerNative \/ Steer \/ Cleanup \/ CleanupTasks \/ Restart
  \/ CallCleanup \/ Dies \/ DiesClosing \/ CleanupPanics \/ ReEnter \/ (\E ok \in BOOLEAN :
  CleanupSessions(ok) \/ CloseSession(ok))
  BY <1>1, <1>4 DEF NotResubmitted
<1> QED
  BY <1>2, <1>3, <1>4 DEF Next, Executors, Daemon, Scope, Environment

-----------------------------------------------------------------------------
(* The invariant holds *)

\* It holds in a scope that has only created its session.
LEMMA StartIInv == Init => IInv
<1> SUFFICES ASSUME Init PROVE IInv
  OBVIOUS
<1> USE DEF Init, Native!Init, None
<1>1. TypeOK
  <2>1. ExecutorTypes
    <3>1. accepted \in [Tasks -> {"request", None}] /\ outcome \in [Tasks -> Outcomes \cup {None}]
      OBVIOUS
    <3>2. begun \in [Tasks -> 0..1] /\ launched \in [Tasks -> Nat]
      OBVIOUS
    <3> QED
      BY <3>1, <3>2 DEF ExecutorTypes
  <2>2. MemoryTypes
    BY DEF MemoryTypes
  <2>3. DiskTypes
    BY DEF DiskTypes
  <2>4. ScopeTypes
    <3>1. entry \in 0..MaxEntries /\ inFlight \subseteq Tasks \X (0..MaxEntries)
      BY BodiesAndBounds
    <3>2. arrived \in [Messaged -> SUBSET Outcomes]
      OBVIOUS
    <3> QED
      BY <3>1, <3>2 DEF ScopeTypes
  <2>5. HistoryTypes
    BY BodiesAndBounds DEF HistoryTypes
  <2> QED
    BY <2>1, <2>2, <2>3, <2>4, <2>5 DEF TypeOK
<1>2. RecordInv /\ LaunchInv
  BY DEF RecordInv, LaunchInv, Outcomes, Tasks
<1>3. TruthInv /\ MessageInv /\ SteerInv
  BY DEF TruthInv, MessageInv, SteerInv
<1>4. CleanupInv
  BY DEF CleanupInv
<1> QED
  BY <1>1, <1>2, <1>3, <1>4 DEF IInv

\* Every step keeps it.
LEMMA StepIInv == IInv /\ [Next]_vars => IInv'
BY StepExecutors, StepMemory, StepDisk, StepScope, StepHistory, StepRecord, StepLaunch, StepTruth,
  StepMessage, StepSteer, StepCleanup
  DEF IInv, TypeOK

\* So it always holds.
LEMMA AlwaysIInv == Spec => []IInv
BY StartIInv, StepIInv, PTL DEF Spec

-----------------------------------------------------------------------------
(* What follows from it *)

\* Executors, memory, state directory, scope and history always have their types.
THEOREM TypeCorrect == Spec => []TypeOK
<1>1. IInv => TypeOK
  BY DEF IInv
<1> QED
  BY <1>1, AlwaysIInv, PTL

\* However often a call or a message comes again and the daemon dies: a turn is
\* submitted once, no message has two outcomes, and the steering reaches the native
\* session at most once.
THEOREM OnceOnly == Spec => []NothingTwice
<1>1. ASSUME IInv PROVE NothingTwice
  <2>1. ASSUME NEW t \in Messaged PROVE Cardinality(published[t]) <= 1
    <3>1. published[t] = {} \/ published[t] = {disposition[t]}
      BY <1>1 DEF IInv, MessageInv
    <3>2. Cardinality({}) = 0 /\ Cardinality({disposition[t]}) = 1
      BY FS_EmptySet, FS_Singleton
    <3> QED
      BY <3>1, <3>2
  <2>2. \A t \in Turns : launched[t] <= 1
    BY <1>1 DEF IInv, LaunchInv, Tasks
  <2>3. steers <= 1
    BY <1>1 DEF IInv, SteerInv
  <2> QED
    BY <2>1, <2>2, <2>3 DEF NothingTwice
<1> QED
  BY <1>1, AlwaysIInv, PTL

\* A command whose task the state directory knows is not submitted again, by no
\* repeated call and by no restored daemon.
THEOREM SubmittedOnce == Spec => SavedNotResubmitted
<1>1. IInv /\ [Next]_vars => [NotResubmitted]_vars
  BY StepSubmission
<1>2. NotResubmitted <=> \A t \in Commands : savedTask[t] # None => launched'[t] = launched[t]
  BY DEF NotResubmitted
<1> QED
  BY <1>1, <1>2, AlwaysIInv, PTL DEF Spec, SavedNotResubmitted

\* What the scope is told of a task is what happened: a success was one, and a
\* cancelled task ended so or was never launched.
THEOREM TrueAnswers == Spec => []AnswersAreTrue
<1>1. IInv => AnswersAreTrue
  BY DEF IInv, TruthInv, AnswersAreTrue
<1> QED
  BY <1>1, AlwaysIInv, PTL

\* A cleanup without error leaves no turn at work and none that could still be
\* accepted, in spite of restarts and of calls that arrive late.
THEOREM CleanupIsComplete == Spec => []CleanupStopsTurns
<1>1. IInv => CleanupStopsTurns
  BY DEF IInv, CleanupInv, CleanupStopsTurns
<1> QED
  BY <1>1, AlwaysIInv, PTL
=============================================================================
