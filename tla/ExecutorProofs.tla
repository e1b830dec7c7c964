--------------------------- MODULE ExecutorProofs ---------------------------
(***************************************************************************)
(* Proofs about the independent executors, for any callers, operations and *)
(* sessions, any number of deaths and any plan of submissions: the files   *)
(* and locks implement Operation, and the safety properties of Executor.   *)
(***************************************************************************)
EXTENDS Executor, FiniteSetTheorems, TLAPS

\* Where a worker owns its operation, has its session, has not started yet.
Owning  == WorkerPlaces \ {None, "claim", "gone"}
Holding == Owning \ {"enter"}
Early   == {"startup", "setup", "fork", "save", "run"}
Late    == {"unlink", "release"}

\* What a worker's place says of its operation.
KindInv ==
  \A c \in Callers :
    /\ at[c] \in {"enter", "setup", "fork", "save", "leave", "close", "unlink"} => Op(c) \notin Commands
    /\ at[c] \in {"fork", "save", "run", "native", "leave"} => Op(c) \notin Closes
    /\ at[c] \in {"run", "native"} => Op(c) \notin Forks
    /\ at[c] = "close" => Op(c) \in Closes
    /\ at[c] = "fork" => ParentOf[Session(c)] # None
    /\ at[c] \in {"leave", "publish"} => outcome[c] # None
    /\ pc[c] \in {"look", "stop"} => Op(c) \in Closes
    /\ pc[c] = "stop" => target[c] \in Ops
    /\ pc[c] \in {"idle", "look", "stop"} => at[c] = None

\* The lock of an operation is held by its worker, by nobody else.
LeaseInv ==
  /\ \A c \in Callers : at[c] \in Owning => lease[Op(c)] = c
  /\ \A o \in Ops : lease[o] # None => at[lease[o]] \in Owning /\ Op(lease[o]) = o

\* How far the files of an operation are, by where its owner is.
ProgressInv ==
  /\ \A c \in Callers :
       /\ at[c] \in {"enter", "accept"} => request[Op(c)] = None
       /\ at[c] \in Owning \ {"enter", "accept"} => request[Op(c)] # None
       /\ at[c] \in Owning \ Late => result[Op(c)] = None
       /\ at[c] \in Late => result[Op(c)] # None
       /\ at[c] \in Early => starts[Op(c)] = {}
  /\ \A o \in Ops :
       /\ request[o] = None => result[o] = None /\ starts[o] = {}
       /\ starts[o] # {} => \E c \in Callers : starts[o] = {c}

\* An accepted operation has a result, an owner, or an owner that died.
OwnerInv ==
  \A o \in Ops : request[o] # None =>
    \E c \in accepter : Op(c) = o /\ (result[o] # None \/ lease[o] = c \/ c \in dead)

\* The lock of a session is held by whoever works on it or forks from it.
SessionInv ==
  \A c \in Callers :
    /\ at[c] \in Holding /\ Op(c) \notin Commands => sessionLease[Session(c)] = c
    /\ at[c] = "fork" => /\ sessionLease[ParentOf[Session(c)]] = c
                         /\ ParentOf[Session(c)] # Session(c)

\* A turn runs on its session's checkpoint, which is never replaced.
ConversationInv ==
  /\ \A c \in Callers :
       /\ at[c] = "fork" => native[Session(c)] = None
       /\ at[c] = "save" => /\ conversation[c] # None
                            /\ native[Session(c)] \in {None, conversation[c]}
       /\ at[c] \in {"run", "native"} /\ Op(c) \in Turns =>
            conversation[c] # None /\ native[Session(c)] = conversation[c]
  /\ \A o \in Turns : ran[o] # None => ran[o] = native[SessionOf[o]]

\* A closed session admits closes only, and a close that succeeded closed it.
ClosedInv ==
  /\ \A c \in Callers :
       /\ at[c] \in Holding /\ Op(c) \in Turns \cup Forks => closed[Session(c)] = None
       /\ at[c] = "publish" /\ Op(c) \in Closes /\ outcome[c] = "ok" => closed[Session(c)] # None
       /\ answer[c] = "ok" /\ Op(c) \in Closes => closed[Session(c)] # None
  /\ \A o \in Closes : result[o] = "ok" => closed[SessionOf[o]] # None

\* What a caller knows when it has an answer.
AnswerInv ==
  \A c \in Callers :
    /\ answer[c] # None => pc[c] = "done"
    /\ pc[c] = "drain" => result[Op(c)] # None
    /\ answer[c] \in Outcomes /\ Op(c) \in Turns /\ cancelled[c] = "no" =>
         result[Op(c)] # None /\ seen[c] = events[Op(c)]

IInv ==
  /\ TypeOK /\ KindInv /\ LeaseInv /\ ProgressInv /\ OwnerInv /\ SessionInv /\ ConversationInv
  /\ ClosedInv /\ AnswerInv /\ PanicMeansLoss

-----------------------------------------------------------------------------
(* What the proofs use of the constants *)

\* A worker's operation, its inputs and its session are of their kinds.
LEMMA JobTypes ==
  ASSUME TypeOK, NEW c \in Callers
  PROVE  /\ Op(c) \in Ops /\ Input(c) \in Inputs
         /\ Op(c) \notin Commands => Session(c) \in Sessions
BY SessionsAreGiven DEF TypeOK, WorkerTypes, Op, Input, Session, Ops

\* Nobody changes what a caller submits.
LEMMA JobFixed ==
  [Next]_vars => /\ UNCHANGED job
                 /\ \A c \in Callers : Op(c)' = Op(c) /\ Session(c)' = Session(c) /\ Input(c)' = Input(c)
<1>1. ASSUME NEW c \in Callers, Claim(c) \/ Enter(c) \/ Accept(c) \/ Startup(c) \/ Setup(c) \/
  Fork(c) \/ Save(c) \/ Run(c)
  PROVE UNCHANGED job
  BY <1>1 DEF Claim, Enter, Accept, Startup, Setup, Fork, Save, Run, files, locks, callers, history
<1>2. ASSUME NEW c \in Callers, Emit(c) \/ NativeEnds(c) \/ Leave(c) \/ CloseNative(c) \/ Publish(c)
  \/ Unlink(c) \/ Release(c) \/ Dies(c)
  PROVE UNCHANGED job
  BY <1>2 DEF Emit, NativeEnds, Leave, CloseNative, Publish, Unlink, Release, Dies, files, locks,
    workers, callers, history
<1>3. ASSUME NEW c \in Callers, Submit(c) \/ CloseLooks(c) \/ CloseCancels(c) \/ CloseGoesOn(c) \/
  StartupReply(c) \/ StartupTimeout(c) \/ ReadEvents(c) \/ Check(c)
  PROVE UNCHANGED job
  BY <1>3 DEF Submit, CloseLooks, CloseCancels, CloseGoesOn, StartupReply, StartupTimeout,
    ReadEvents, Check, workers
<1>4. ASSUME NEW c \in Callers, Drain(c) \/ AssertOwner(c) \/ Cancel(c) \/ TellTurn(c) \/ GiveUp(c)
  PROVE UNCHANGED job
  BY <1>4 DEF Drain, AssertOwner, Cancel, TellTurn, GiveUp, workers
<1>5. [Next]_vars => UNCHANGED job
  BY <1>1, <1>2, <1>3, <1>4 DEF Next, Worker, Caller, Environment, vars, workers
<1> QED
  BY <1>5 DEF Op, Session, Input

-----------------------------------------------------------------------------
(* Every step keeps the invariant, part by part *)

\* The files keep their types.
LEMMA StepFiles == IInv /\ [Next]_vars => FileTypes'
<1> SUFFICES ASSUME IInv, [Next]_vars PROVE FileTypes'
  OBVIOUS
<1>1. ASSUME UNCHANGED vars \/ \E c \in Callers : Claim(c) \/ Startup(c) \/ Setup(c) \/ Fork(c) \/
  Run(c) \/ NativeEnds(c) \/ Leave(c) \/ Release(c) \/ Dies(c) \/ Submit(c) \/ CloseLooks(c) \/
  CloseCancels(c) \/ CloseGoesOn(c) \/ StartupReply(c) \/ StartupTimeout(c) \/ ReadEvents(c) \/
  Check(c) \/ Drain(c) \/ AssertOwner(c) \/ Cancel(c) \/ TellTurn(c) \/ GiveUp(c)
  PROVE UNCHANGED <<files>>
  <2>1. ASSUME NEW c \in Callers, Claim(c) \/ Startup(c) \/ Setup(c) \/ Fork(c) \/ Run(c) \/
    NativeEnds(c)
    PROVE UNCHANGED <<files>>
    BY <2>1 DEF Claim, Ends, New, AfterClaim, files, callers, history, Startup, locks, Setup, Steps,
      Fails, ParentIdle, Fork, Run, NativeEnds
  <2>2. ASSUME NEW c \in Callers, Leave(c) \/ Release(c) \/ Dies(c) PROVE UNCHANGED <<files>>
    BY <2>2 DEF Leave, Steps, Saved, files, locks, callers, history, Release, Ends, Dies
  <2>3. ASSUME NEW c \in Callers, Submit(c) \/ CloseLooks(c) \/ CloseCancels(c) \/ CloseGoesOn(c) \/
    StartupReply(c) \/ StartupTimeout(c)
    PROVE UNCHANGED <<files>>
    BY <2>3 DEF Submit, Goes, Launched, CallerOnly, files, locks, history, CloseLooks, Answers,
      CloseCancels, Stopped, CloseGoesOn, StartupReply, NotStarted, workers, StartupTimeout
  <2>4. ASSUME NEW c \in Callers, ReadEvents(c) \/ Check(c) \/ Drain(c) \/ AssertOwner(c) \/
    Cancel(c) \/ TellTurn(c)
    PROVE UNCHANGED <<files>>
    BY <2>4 DEF ReadEvents, Goes, CallerOnly, files, locks, workers, history, Check, Drain, Answers,
      Answered, AssertOwner, Abandoned, Cancel, TellTurn, Stopped
  <2>5. ASSUME NEW c \in Callers, GiveUp(c) PROVE UNCHANGED <<files>>
    BY <2>5 DEF GiveUp, Answers, CallerOnly, files, locks, workers, history
  <2> QED
    BY <1>1, <2>1, <2>2, <2>3, <2>4, <2>5 DEF vars, files, locks, workers, callers, history
<1> USE BoundsAreNumbers DEF IInv, TypeOK, FileTypes, WorkerTypes, Outcomes, None
<1> \A d \in Callers : Op(d) \in Ops /\ Op(d)' = Op(d)
  BY JobTypes, JobFixed
<1> \A d \in Callers : Session(d)' = Session(d) /\ (Op(d) \notin Commands => Session(d) \in Sessions)
  BY JobTypes, JobFixed
<1> \A d \in Callers : Input(d) \in Inputs
  BY JobTypes
<1>2. ASSUME NEW c \in Callers, Enter(c) PROVE FileTypes'
  BY <1>2 DEF Enter, Ends, callers, history
<1>3. ASSUME NEW c \in Callers, Accept(c) PROVE FileTypes'
  BY <1>3 DEF Accept, Steps, locks, callers
<1>4. ASSUME NEW c \in Callers, Save(c) PROVE FileTypes'
  BY <1>4 DEF Save, Steps, Fails, locks, callers, history
<1>5. ASSUME NEW c \in Callers, Emit(c) PROVE FileTypes'
  BY <1>5 DEF Emit, locks, workers, callers, history
<1>6. ASSUME NEW c \in Callers, CloseNative(c) PROVE FileTypes'
  BY <1>6 DEF CloseNative, Steps, Saved, Closure, locks, callers, history
<1>7. ASSUME NEW c \in Callers, Publish(c) PROVE FileTypes'
  BY <1>7 DEF Publish, Steps, locks, callers, history
<1>8. ASSUME NEW c \in Callers, Unlink(c) PROVE FileTypes'
  BY <1>8 DEF Unlink, Steps, locks, callers, history
<1>9. CASE UNCHANGED vars \/ \E c \in Callers : Claim(c) \/ Startup(c) \/ Setup(c) \/ Fork(c) \/
  Run(c) \/ NativeEnds(c) \/ Leave(c) \/ Release(c) \/ Dies(c) \/ Submit(c) \/ CloseLooks(c) \/
  CloseCancels(c) \/ CloseGoesOn(c) \/ StartupReply(c) \/ StartupTimeout(c) \/ ReadEvents(c) \/
  Check(c) \/ Drain(c) \/ AssertOwner(c) \/ Cancel(c) \/ TellTurn(c) \/ GiveUp(c)
  BY <1>1, <1>9 DEF files
<1> QED
  BY <1>2, <1>3, <1>4, <1>5, <1>6, <1>7, <1>8, <1>9 DEF Next, Worker, Caller, Environment

\* So do the locks.
LEMMA StepLocks == IInv /\ [Next]_vars => LockTypes'
<1> SUFFICES ASSUME IInv, [Next]_vars PROVE LockTypes'
  OBVIOUS
<1>1. ASSUME UNCHANGED vars \/ \E c \in Callers : Accept(c) \/ Startup(c) \/ Save(c) \/ Run(c) \/
  Emit(c) \/ NativeEnds(c) \/ Leave(c) \/ CloseNative(c) \/ Publish(c) \/ Unlink(c) \/ Submit(c) \/
  CloseLooks(c) \/ CloseCancels(c) \/ CloseGoesOn(c) \/ StartupReply(c) \/ StartupTimeout(c) \/
  ReadEvents(c) \/ Check(c) \/ Drain(c) \/ AssertOwner(c) \/ Cancel(c) \/ TellTurn(c) \/ GiveUp(c)
  PROVE UNCHANGED <<locks>>
  <2>1. ASSUME NEW c \in Callers, Accept(c) \/ Startup(c) \/ Save(c) \/ Run(c) \/ Emit(c) \/
    NativeEnds(c)
    PROVE UNCHANGED <<locks>>
    BY <2>1 DEF Accept, Steps, locks, callers, Startup, files, history, Save, Fails, Run, Emit,
      workers, NativeEnds
  <2>2. ASSUME NEW c \in Callers, Leave(c) \/ CloseNative(c) \/ Publish(c) \/ Unlink(c)
    PROVE UNCHANGED <<locks>>
    BY <2>2 DEF Leave, Steps, Saved, files, locks, callers, history, CloseNative, Closure, Publish,
      Unlink
  <2>3. ASSUME NEW c \in Callers, Submit(c) \/ CloseLooks(c) \/ CloseCancels(c) \/ CloseGoesOn(c) \/
    StartupReply(c) \/ StartupTimeout(c)
    PROVE UNCHANGED <<locks>>
    BY <2>3 DEF Submit, Goes, Launched, CallerOnly, files, locks, history, CloseLooks, Answers,
      CloseCancels, Stopped, CloseGoesOn, StartupReply, NotStarted, workers, StartupTimeout
  <2>4. ASSUME NEW c \in Callers, ReadEvents(c) \/ Check(c) \/ Drain(c) \/ AssertOwner(c) \/
    Cancel(c) \/ TellTurn(c)
    PROVE UNCHANGED <<locks>>
    BY <2>4 DEF ReadEvents, Goes, CallerOnly, files, locks, workers, history, Check, Drain, Answers,
      Answered, AssertOwner, Abandoned, Cancel, TellTurn, Stopped
  <2>5. ASSUME NEW c \in Callers, GiveUp(c) PROVE UNCHANGED <<locks>>
    BY <2>5 DEF GiveUp, Answers, CallerOnly, files, locks, workers, history
  <2> QED
    BY <1>1, <2>1, <2>2, <2>3, <2>4, <2>5 DEF vars, files, locks, workers, callers, history
<1> USE DEF IInv, TypeOK, LockTypes, WorkerTypes, None
<1> \A d \in Callers : Op(d) \in Ops /\ Op(d)' = Op(d)
  BY JobTypes, JobFixed
<1> \A d \in Callers : Session(d)' = Session(d) /\ (Op(d) \notin Commands => Session(d) \in Sessions)
  BY JobTypes, JobFixed
<1>2. ASSUME NEW c \in Callers, Claim(c) PROVE LockTypes'
  BY <1>2 DEF Claim, Ends, New, AfterClaim, files, callers, history
<1>3. ASSUME NEW c \in Callers, Enter(c) PROVE LockTypes'
  BY <1>3 DEF Enter, Ends, callers, history
<1>4. ASSUME NEW c \in Callers, Setup(c) PROVE LockTypes'
  BY <1>4 DEF Setup, Steps, Fails, ParentIdle, files, locks, callers, history
<1>5. ASSUME NEW c \in Callers, Fork(c) PROVE LockTypes'
  BY <1>5 DEF Fork, files, callers, history
<1>6. ASSUME NEW c \in Callers, Release(c) PROVE LockTypes'
  BY <1>6 DEF Release, Ends, files, callers, history
<1>7. ASSUME NEW c \in Callers, Dies(c) PROVE LockTypes'
  BY <1>7 DEF Dies, Ends, files, callers
<1>8. CASE UNCHANGED vars \/ \E c \in Callers : Accept(c) \/ Startup(c) \/ Save(c) \/ Run(c) \/
  Emit(c) \/ NativeEnds(c) \/ Leave(c) \/ CloseNative(c) \/ Publish(c) \/ Unlink(c) \/ Submit(c) \/
  CloseLooks(c) \/ CloseCancels(c) \/ CloseGoesOn(c) \/ StartupReply(c) \/ StartupTimeout(c) \/
  ReadEvents(c) \/ Check(c) \/ Drain(c) \/ AssertOwner(c) \/ Cancel(c) \/ TellTurn(c) \/ GiveUp(c)
  BY <1>1, <1>8 DEF locks
<1> QED
  BY <1>2, <1>3, <1>4, <1>5, <1>6, <1>7, <1>8 DEF Next, Worker, Caller, Environment

\* So do the workers.
LEMMA StepWorkers == IInv /\ [Next]_vars => WorkerTypes'
<1> SUFFICES ASSUME IInv, [Next]_vars PROVE WorkerTypes'
  OBVIOUS
<1>1. ASSUME UNCHANGED vars \/ \E c \in Callers : Emit(c) \/ StartupReply(c) \/ StartupTimeout(c) \/
  ReadEvents(c) \/ Check(c) \/ Drain(c) \/ AssertOwner(c) \/ Cancel(c) \/ GiveUp(c)
  PROVE UNCHANGED <<workers>>
  <2>1. ASSUME NEW c \in Callers, Emit(c) PROVE UNCHANGED <<workers>>
    BY <2>1 DEF Emit, locks, workers, callers, history
  <2>2. ASSUME NEW c \in Callers, StartupReply(c) \/ StartupTimeout(c) \/ ReadEvents(c) \/ Check(c)
    \/ Drain(c) \/ AssertOwner(c)
    PROVE UNCHANGED <<workers>>
    BY <2>2 DEF StartupReply, Goes, NotStarted, Answers, CallerOnly, files, locks, workers, history,
      StartupTimeout, ReadEvents, Check, Drain, Answered, AssertOwner, Abandoned
  <2>3. ASSUME NEW c \in Callers, Cancel(c) \/ GiveUp(c) PROVE UNCHANGED <<workers>>
    BY <2>3 DEF Cancel, CallerOnly, files, locks, workers, history, GiveUp, Answers
  <2> QED
    BY <1>1, <2>1, <2>2, <2>3 DEF vars, files, locks, workers, callers, history
<1> USE DEF IInv, TypeOK, WorkerTypes, WorkerPlaces, Outcomes, KindInv, None
<1> \A d \in Callers : Op(d) \in Ops /\ Op(d)' = Op(d)
  BY JobTypes, JobFixed
<1> \A d \in Callers : Session(d)' = Session(d) /\ (Op(d) \notin Commands => Session(d) \in Sessions)
  BY JobTypes, JobFixed
<1>2. ASSUME NEW c \in Callers, Claim(c) PROVE WorkerTypes'
  BY <1>2 DEF Claim, Ends, New, AfterClaim, files, callers, history
<1>3. ASSUME NEW c \in Callers, Enter(c) PROVE WorkerTypes'
  BY <1>3 DEF Enter, Ends, callers, history
<1>4. ASSUME NEW c \in Callers, Accept(c) PROVE WorkerTypes'
  BY <1>4 DEF Accept, Steps, locks, callers
<1>5. ASSUME NEW c \in Callers, Startup(c) PROVE WorkerTypes'
  BY <1>5 DEF Startup, files, locks, callers, history
<1>6. ASSUME NEW c \in Callers, Setup(c) PROVE WorkerTypes'
  <2>1. conversation' \in [Callers -> Ops \cup Sessions \cup {None}]
    BY <1>6 DEF FileTypes, Setup
  <2>2. at' \in [Callers -> WorkerPlaces] /\ outcome' \in [Callers -> Outcomes \cup {None}] /\ reply' = reply
    BY <1>6 DEF Setup, Steps, Fails, ParentIdle
  <2> QED
    BY <1>6, <2>1, <2>2 DEF Setup
<1>7. ASSUME NEW c \in Callers, Fork(c) PROVE WorkerTypes'
  BY <1>7 DEF Fork, files, callers, history
<1>8. ASSUME NEW c \in Callers, Save(c) PROVE WorkerTypes'
  BY <1>8 DEF Save, Steps, Fails, locks, callers, history
<1>9. ASSUME NEW c \in Callers, Run(c) PROVE WorkerTypes'
  BY <1>9 DEF Run, Steps, files, locks, callers
<1>10. ASSUME NEW c \in Callers, NativeEnds(c) PROVE WorkerTypes'
  BY <1>10 DEF NativeEnds, Steps, files, locks, callers, history
<1>11. ASSUME NEW c \in Callers, Leave(c) PROVE WorkerTypes'
  BY <1>11 DEF Leave, Steps, Saved, files, locks, callers, history
<1>12. ASSUME NEW c \in Callers, CloseNative(c) PROVE WorkerTypes'
  BY <1>12 DEF CloseNative, Steps, Saved, Closure, locks, callers, history
<1>13. ASSUME NEW c \in Callers, Publish(c) PROVE WorkerTypes'
  BY <1>13 DEF Publish, Steps, locks, callers, history
<1>14. ASSUME NEW c \in Callers, Unlink(c) PROVE WorkerTypes'
  BY <1>14 DEF Unlink, Steps, locks, callers, history
<1>15. ASSUME NEW c \in Callers, Release(c) PROVE WorkerTypes'
  BY <1>15 DEF Release, Ends, files, callers, history
<1>16. ASSUME NEW c \in Callers, Dies(c) PROVE WorkerTypes'
  BY <1>16 DEF Dies, Ends, files, callers
<1>17. ASSUME NEW c \in Callers, Submit(c) PROVE WorkerTypes'
  BY <1>17 DEF Submit, Goes, Launched, CallerOnly, files, locks, history
<1>18. ASSUME NEW c \in Callers, CloseLooks(c) PROVE WorkerTypes'
  BY <1>18 DEF CloseLooks, Goes, Launched, Answers, CallerOnly, files, locks, history
<1>19. ASSUME NEW c \in Callers, CloseCancels(c) PROVE WorkerTypes'
  <2>1. stopped' \in [Callers -> BOOLEAN]
    BY <1>19 DEF CloseCancels, Stopped
  <2> QED
    BY <1>19, <2>1 DEF CloseCancels
<1>20. ASSUME NEW c \in Callers, CloseGoesOn(c) PROVE WorkerTypes'
  BY <1>20 DEF CloseGoesOn, Answers, Goes, Launched, CallerOnly, files, locks, history
<1>21. ASSUME NEW c \in Callers, TellTurn(c) PROVE WorkerTypes'
  BY <1>21 DEF TellTurn, Stopped, CallerOnly, files, locks, history
<1>22. CASE UNCHANGED vars \/ \E c \in Callers : Emit(c) \/ StartupReply(c) \/ StartupTimeout(c) \/
  ReadEvents(c) \/ Check(c) \/ Drain(c) \/ AssertOwner(c) \/ Cancel(c) \/ GiveUp(c)
  BY <1>1, <1>22 DEF workers
<1> QED
  BY <1>2, <1>3, <1>4, <1>5, <1>6, <1>7, <1>8, <1>9, <1>10, <1>11, <1>12, <1>13, <1>14, <1>15,
    <1>16, <1>17, <1>18, <1>19, <1>20, <1>21, <1>22 DEF Next, Worker, Caller, Environment

\* So do the callers.
LEMMA StepCallers == IInv /\ [Next]_vars => CallerTypes'
<1> SUFFICES ASSUME IInv, [Next]_vars PROVE CallerTypes'
  OBVIOUS
<1>1. ASSUME UNCHANGED vars \/ \E c \in Callers : Claim(c) \/ Enter(c) \/ Accept(c) \/ Startup(c) \/
  Setup(c) \/ Fork(c) \/ Save(c) \/ Run(c) \/ Emit(c) \/ NativeEnds(c) \/ Leave(c) \/ CloseNative(c)
  \/ Publish(c) \/ Unlink(c) \/ Release(c) \/ Dies(c)
  PROVE UNCHANGED <<callers>>
  <2>1. ASSUME NEW c \in Callers, Claim(c) \/ Enter(c) \/ Accept(c) \/ Startup(c) \/ Setup(c) \/
    Fork(c)
    PROVE UNCHANGED <<callers>>
    BY <2>1 DEF Claim, Ends, New, AfterClaim, files, callers, history, Enter, Accept, Steps, locks,
      Startup, Setup, Fails, ParentIdle, Fork
  <2>2. ASSUME NEW c \in Callers, Save(c) \/ Run(c) \/ Emit(c) \/ NativeEnds(c) \/ Leave(c) \/
    CloseNative(c)
    PROVE UNCHANGED <<callers>>
    BY <2>2 DEF Save, Steps, Fails, locks, callers, history, Run, files, Emit, workers, NativeEnds,
      Leave, Saved, CloseNative, Closure
  <2>3. ASSUME NEW c \in Callers, Publish(c) \/ Unlink(c) \/ Release(c) \/ Dies(c)
    PROVE UNCHANGED <<callers>>
    BY <2>3 DEF Publish, Steps, locks, callers, history, Unlink, Release, Ends, files, Dies
  <2> QED
    BY <1>1, <2>1, <2>2, <2>3 DEF vars, files, locks, workers, callers, history
<1> USE DEF IInv, TypeOK, CallerTypes, FileTypes, CallerPlaces, Outcomes, KindInv, None
<1> \A d \in Callers : Op(d) \in Ops /\ Op(d)' = Op(d)
  BY JobTypes, JobFixed
<1> \A d \in Callers : Session(d)' = Session(d) /\ (Op(d) \notin Commands => Session(d) \in Sessions)
  BY JobTypes, JobFixed
<1> \A d \in Callers : pc[d] \in {"look", "stop"} => Session(d) \in Sessions
  BY KindsAreApart
<1>2. ASSUME NEW c \in Callers, Submit(c) PROVE CallerTypes'
  BY <1>2 DEF Submit, Goes, Launched, CallerOnly, files, locks, history
<1>3. ASSUME NEW c \in Callers, CloseLooks(c) PROVE CallerTypes'
  BY <1>3 DEF CloseLooks, Goes, Launched, Answers, CallerOnly, files, locks, history
<1>4. ASSUME NEW c \in Callers, CloseCancels(c) PROVE CallerTypes'
  BY <1>4 DEF CloseCancels, Answers, Stopped, CallerOnly, files, locks, history
<1>5. ASSUME NEW c \in Callers, CloseGoesOn(c) PROVE CallerTypes'
  BY <1>5 DEF CloseGoesOn, Answers, Goes, Launched, CallerOnly, files, locks, history
<1>6. ASSUME NEW c \in Callers, StartupReply(c) PROVE CallerTypes'
  BY <1>6 DEF StartupReply, Goes, NotStarted, Answers, CallerOnly, files, locks, workers, history
<1>7. ASSUME NEW c \in Callers, StartupTimeout(c) PROVE CallerTypes'
  BY <1>7 DEF StartupTimeout, Goes, NotStarted, Answers, CallerOnly, files, locks, workers, history
<1>8. ASSUME NEW c \in Callers, ReadEvents(c) PROVE CallerTypes'
  BY <1>8 DEF ReadEvents, Goes, CallerOnly, files, locks, workers, history
<1>9. ASSUME NEW c \in Callers, Check(c) PROVE CallerTypes'
  BY <1>9 DEF Check, Goes, CallerOnly, files, locks, workers, history
<1>10. ASSUME NEW c \in Callers, Drain(c) PROVE CallerTypes'
  BY <1>10 DEF Drain, Answers, Answered, CallerOnly, files, locks, workers, history
<1>11. ASSUME NEW c \in Callers, AssertOwner(c) PROVE CallerTypes'
  BY <1>11 DEF AssertOwner, Goes, Answers, Abandoned, CallerOnly, files, locks, workers, history
<1>12. ASSUME NEW c \in Callers, Cancel(c) PROVE CallerTypes'
  BY <1>12 DEF Cancel, CallerOnly, files, locks, workers, history
<1>13. ASSUME NEW c \in Callers, TellTurn(c) PROVE CallerTypes'
  BY <1>13 DEF TellTurn, Stopped, CallerOnly, files, locks, history
<1>14. ASSUME NEW c \in Callers, GiveUp(c) PROVE CallerTypes'
  BY <1>14 DEF GiveUp, Answers, CallerOnly, files, locks, workers, history
<1>15. CASE UNCHANGED vars \/ \E c \in Callers : Claim(c) \/ Enter(c) \/ Accept(c) \/ Startup(c) \/
  Setup(c) \/ Fork(c) \/ Save(c) \/ Run(c) \/ Emit(c) \/ NativeEnds(c) \/ Leave(c) \/ CloseNative(c)
  \/ Publish(c) \/ Unlink(c) \/ Release(c) \/ Dies(c)
  BY <1>1, <1>15 DEF callers
<1> QED
  BY <1>2, <1>3, <1>4, <1>5, <1>6, <1>7, <1>8, <1>9, <1>10, <1>11, <1>12, <1>13, <1>14, <1>15 DEF
    Next, Worker, Caller, Environment

\* So does the history.
LEMMA StepHistory == IInv /\ [Next]_vars => HistoryTypes'
<1> SUFFICES ASSUME IInv, [Next]_vars PROVE HistoryTypes'
  OBVIOUS
<1>1. ASSUME UNCHANGED vars \/ \E c \in Callers : Claim(c) \/ Enter(c) \/ Startup(c) \/ Setup(c) \/
  Fork(c) \/ Save(c) \/ Emit(c) \/ NativeEnds(c) \/ Leave(c) \/ CloseNative(c) \/ Publish(c) \/
  Unlink(c) \/ Release(c) \/ Submit(c) \/ CloseLooks(c) \/ CloseCancels(c) \/ CloseGoesOn(c) \/
  StartupReply(c) \/ StartupTimeout(c) \/ ReadEvents(c) \/ Check(c) \/ Drain(c) \/ AssertOwner(c) \/
  Cancel(c) \/ TellTurn(c) \/ GiveUp(c)
  PROVE UNCHANGED <<history>>
  <2>1. ASSUME NEW c \in Callers, Claim(c) \/ Enter(c) \/ Startup(c) \/ Setup(c) \/ Fork(c) \/
    Save(c)
    PROVE UNCHANGED <<history>>
    BY <2>1 DEF Claim, Ends, New, AfterClaim, files, callers, history, Enter, Startup, locks, Setup,
      Steps, Fails, ParentIdle, Fork, Save
  <2>2. ASSUME NEW c \in Callers, Emit(c) \/ NativeEnds(c) \/ Leave(c) \/ CloseNative(c) \/
    Publish(c) \/ Unlink(c)
    PROVE UNCHANGED <<history>>
    BY <2>2 DEF Emit, locks, workers, callers, history, NativeEnds, Steps, files, Leave, Saved,
      CloseNative, Closure, Publish, Unlink
  <2>3. ASSUME NEW c \in Callers, Release(c) PROVE UNCHANGED <<history>>
    BY <2>3 DEF Release, Ends, files, callers, history
  <2>4. ASSUME NEW c \in Callers, Submit(c) \/ CloseLooks(c) \/ CloseCancels(c) \/ CloseGoesOn(c) \/
    StartupReply(c) \/ StartupTimeout(c)
    PROVE UNCHANGED <<history>>
    BY <2>4 DEF Submit, Goes, Launched, CallerOnly, files, locks, history, CloseLooks, Answers,
      CloseCancels, Stopped, CloseGoesOn, StartupReply, NotStarted, workers, StartupTimeout
  <2>5. ASSUME NEW c \in Callers, ReadEvents(c) \/ Check(c) \/ Drain(c) \/ AssertOwner(c) \/
    Cancel(c) \/ TellTurn(c)
    PROVE UNCHANGED <<history>>
    BY <2>5 DEF ReadEvents, Goes, CallerOnly, files, locks, workers, history, Check, Drain, Answers,
      Answered, AssertOwner, Abandoned, Cancel, TellTurn, Stopped
  <2>6. ASSUME NEW c \in Callers, GiveUp(c) PROVE UNCHANGED <<history>>
    BY <2>6 DEF GiveUp, Answers, CallerOnly, files, locks, workers, history
  <2> QED
    BY <1>1, <2>1, <2>2, <2>3, <2>4, <2>5, <2>6 DEF vars, files, locks, workers, callers, history
<1> USE DEF IInv, TypeOK, HistoryTypes, WorkerTypes, None
<1> \A d \in Callers : Op(d) \in Ops /\ Op(d)' = Op(d)
  BY JobTypes, JobFixed
<1> \A d \in Callers : Session(d)' = Session(d) /\ (Op(d) \notin Commands => Session(d) \in Sessions)
  BY JobTypes, JobFixed
<1>2. ASSUME NEW c \in Callers, Accept(c) PROVE HistoryTypes'
  BY <1>2 DEF Accept, Steps, locks, callers
<1>3. ASSUME NEW c \in Callers, Run(c) PROVE HistoryTypes'
  BY <1>3 DEF Run, Steps, files, locks, callers
<1>4. ASSUME NEW c \in Callers, Dies(c) PROVE HistoryTypes'
  BY <1>4 DEF Dies, Ends, files, callers
<1>5. CASE UNCHANGED vars \/ \E c \in Callers : Claim(c) \/ Enter(c) \/ Startup(c) \/ Setup(c) \/
  Fork(c) \/ Save(c) \/ Emit(c) \/ NativeEnds(c) \/ Leave(c) \/ CloseNative(c) \/ Publish(c) \/
  Unlink(c) \/ Release(c) \/ Submit(c) \/ CloseLooks(c) \/ CloseCancels(c) \/ CloseGoesOn(c) \/
  StartupReply(c) \/ StartupTimeout(c) \/ ReadEvents(c) \/ Check(c) \/ Drain(c) \/ AssertOwner(c) \/
  Cancel(c) \/ TellTurn(c) \/ GiveUp(c)
  BY <1>1, <1>5 DEF history
<1> QED
  BY <1>2, <1>3, <1>4, <1>5 DEF Next, Worker, Caller, Environment

\* Workers and callers are where their kind of operation lets them be.
LEMMA StepKind == IInv /\ [Next]_vars => KindInv'
<1> SUFFICES ASSUME IInv, [Next]_vars PROVE KindInv'
  OBVIOUS
<1>1. ASSUME UNCHANGED vars \/ \E c \in Callers : Emit(c) \/ Cancel(c) \/ TellTurn(c)
  PROVE UNCHANGED <<job, at, outcome, pc, target>>
  <2>1. ASSUME NEW c \in Callers, Emit(c) PROVE UNCHANGED <<job, at, outcome, pc, target>>
    BY <2>1 DEF Emit, locks, workers, callers, history
  <2>2. ASSUME NEW c \in Callers, Cancel(c) \/ TellTurn(c)
    PROVE UNCHANGED <<job, at, outcome, pc, target>>
    BY <2>2 DEF Cancel, CallerOnly, files, locks, workers, history, TellTurn, Stopped
  <2> QED
    BY <1>1, <2>1, <2>2 DEF vars, files, locks, workers, callers, history
<1> USE KindsAreApart, SessionsAreGiven DEF IInv, TypeOK, WorkerTypes, CallerTypes, KindInv,
  WorkerPlaces, Ops, Outcomes, None
<1> \A d \in Callers : Op(d) \in Ops /\ Op(d)' = Op(d)
  BY JobTypes, JobFixed
<1> \A d \in Callers : Session(d)' = Session(d) /\ (Op(d) \notin Commands => Session(d) \in Sessions)
  BY JobTypes, JobFixed
<1> \A d \in Callers : pc[d] \in {"look", "stop"} => Session(d) \in Sessions
  BY KindsAreApart
<1>2. ASSUME NEW c \in Callers, Claim(c) PROVE KindInv'
  BY <1>2 DEF Claim, Ends, New, AfterClaim, files, callers, history
<1>3. ASSUME NEW c \in Callers, Enter(c) PROVE KindInv'
  BY <1>3 DEF Enter, Ends, callers, history
<1>4. ASSUME NEW c \in Callers, Accept(c) PROVE KindInv'
  BY <1>4 DEF Accept, Steps, locks, callers
<1>5. ASSUME NEW c \in Callers, Startup(c) PROVE KindInv'
  BY <1>5 DEF Startup, files, locks, callers, history
<1>6. ASSUME NEW c \in Callers, Setup(c) PROVE KindInv'
  BY <1>6 DEF Setup, Steps, Fails, ParentIdle, files, locks, callers, history
<1>7. ASSUME NEW c \in Callers, Fork(c) PROVE KindInv'
  BY <1>7 DEF Fork, files, callers, history
<1>8. ASSUME NEW c \in Callers, Save(c) PROVE KindInv'
  BY <1>8 DEF Save, Steps, Fails, locks, callers, history
<1>9. ASSUME NEW c \in Callers, Run(c) PROVE KindInv'
  BY <1>9 DEF Run, Steps, files, locks, callers
<1>10. ASSUME NEW c \in Callers, NativeEnds(c) PROVE KindInv'
  BY <1>10 DEF NativeEnds, Steps, files, locks, callers, history
<1>11. ASSUME NEW c \in Callers, Leave(c) PROVE KindInv'
  BY <1>11 DEF Leave, Steps, Saved, files, locks, callers, history
<1>12. ASSUME NEW c \in Callers, CloseNative(c) PROVE KindInv'
  BY <1>12 DEF CloseNative, Steps, Saved, Closure, locks, callers, history
<1>13. ASSUME NEW c \in Callers, Publish(c) PROVE KindInv'
  BY <1>13 DEF Publish, Steps, locks, callers, history
<1>14. ASSUME NEW c \in Callers, Unlink(c) PROVE KindInv'
  BY <1>14 DEF Unlink, Steps, locks, callers, history
<1>15. ASSUME NEW c \in Callers, Release(c) PROVE KindInv'
  BY <1>15 DEF Release, Ends, files, callers, history
<1>16. ASSUME NEW c \in Callers, Dies(c) PROVE KindInv'
  BY <1>16 DEF Dies, Ends, files, callers
<1>17. ASSUME NEW c \in Callers, Submit(c) PROVE KindInv'
  BY <1>17 DEF Submit, Goes, Launched, CallerOnly, files, locks, history
<1>18. ASSUME NEW c \in Callers, CloseLooks(c) PROVE KindInv'
  BY <1>18 DEF CloseLooks, Goes, Launched, Answers, CallerOnly, FileTypes, files, locks, history
<1>19. ASSUME NEW c \in Callers, CloseCancels(c) PROVE KindInv'
  BY <1>19 DEF CloseCancels, Answers, Stopped, CallerOnly, files, locks, history
<1>20. ASSUME NEW c \in Callers, CloseGoesOn(c) PROVE KindInv'
  BY <1>20 DEF CloseGoesOn, Answers, Goes, Launched, CallerOnly, files, locks, history
<1>21. ASSUME NEW c \in Callers, StartupReply(c) PROVE KindInv'
  BY <1>21 DEF StartupReply, Goes, NotStarted, Answers, CallerOnly, files, locks, workers, history
<1>22. ASSUME NEW c \in Callers, StartupTimeout(c) PROVE KindInv'
  BY <1>22 DEF StartupTimeout, Goes, NotStarted, Answers, CallerOnly, files, locks, workers, history
<1>23. ASSUME NEW c \in Callers, ReadEvents(c) PROVE KindInv'
  BY <1>23 DEF ReadEvents, Goes, CallerOnly, files, locks, workers, history
<1>24. ASSUME NEW c \in Callers, Check(c) PROVE KindInv'
  BY <1>24 DEF Check, Goes, CallerOnly, files, locks, workers, history
<1>25. ASSUME NEW c \in Callers, Drain(c) PROVE KindInv'
  BY <1>25 DEF Drain, Answers, Answered, CallerOnly, files, locks, workers, history
<1>26. ASSUME NEW c \in Callers, AssertOwner(c) PROVE KindInv'
  BY <1>26 DEF AssertOwner, Goes, Answers, Abandoned, CallerOnly, files, locks, workers, history
<1>27. ASSUME NEW c \in Callers, GiveUp(c) PROVE KindInv'
  BY <1>27 DEF GiveUp, Answers, CallerOnly, files, locks, workers, history
<1>28. CASE UNCHANGED vars \/ \E c \in Callers : Emit(c) \/ Cancel(c) \/ TellTurn(c)
  BY <1>1, <1>28
<1> QED
  BY <1>2, <1>3, <1>4, <1>5, <1>6, <1>7, <1>8, <1>9, <1>10, <1>11, <1>12, <1>13, <1>14, <1>15,
    <1>16, <1>17, <1>18, <1>19, <1>20, <1>21, <1>22, <1>23, <1>24, <1>25, <1>26, <1>27, <1>28 DEF
    Next, Worker, Caller, Environment

\* The lock of an operation is its worker's.
LEMMA StepLease == IInv /\ [Next]_vars => LeaseInv'
<1> SUFFICES ASSUME IInv, [Next]_vars PROVE LeaseInv'
  OBVIOUS
<1>1. ASSUME UNCHANGED vars \/ \E c \in Callers : Emit(c) \/ CloseCancels(c) \/ StartupReply(c) \/
  StartupTimeout(c) \/ ReadEvents(c) \/ Check(c) \/ Drain(c) \/ AssertOwner(c) \/ Cancel(c) \/
  TellTurn(c) \/ GiveUp(c)
  PROVE UNCHANGED <<job, at, lease>>
  <2>1. ASSUME NEW c \in Callers, Emit(c) PROVE UNCHANGED <<job, at, lease>>
    BY <2>1 DEF Emit, locks, workers, callers, history
  <2>2. ASSUME NEW c \in Callers, CloseCancels(c) \/ StartupReply(c) \/ StartupTimeout(c) \/
    ReadEvents(c) \/ Check(c) \/ Drain(c)
    PROVE UNCHANGED <<job, at, lease>>
    BY <2>2 DEF CloseCancels, Answers, Stopped, CallerOnly, files, locks, history, StartupReply,
      Goes, NotStarted, workers, StartupTimeout, ReadEvents, Check, Drain, Answered
  <2>3. ASSUME NEW c \in Callers, AssertOwner(c) \/ Cancel(c) \/ TellTurn(c) \/ GiveUp(c)
    PROVE UNCHANGED <<job, at, lease>>
    BY <2>3 DEF AssertOwner, Goes, Answers, Abandoned, CallerOnly, files, locks, workers, history,
      Cancel, TellTurn, Stopped, GiveUp
  <2> QED
    BY <1>1, <2>1, <2>2, <2>3 DEF vars, files, locks, workers, callers, history
<1> USE KindsAreApart DEF IInv, TypeOK, WorkerTypes, LockTypes, KindInv, LeaseInv, Owning,
  WorkerPlaces, None
<1> \A d \in Callers : Op(d) \in Ops /\ Op(d)' = Op(d)
  BY JobTypes, JobFixed
<1> \A d \in Callers : Session(d)' = Session(d) /\ (Op(d) \notin Commands => Session(d) \in Sessions)
  BY JobTypes, JobFixed
<1>2. ASSUME NEW c \in Callers, Claim(c) PROVE LeaseInv'
  BY <1>2 DEF Claim, Ends, New, AfterClaim, files, callers, history
<1>3. ASSUME NEW c \in Callers, Enter(c) PROVE LeaseInv'
  BY <1>3 DEF Enter, Ends, callers, history
<1>4. ASSUME NEW c \in Callers, Accept(c) PROVE LeaseInv'
  BY <1>4 DEF Accept, Steps, locks, callers
<1>5. ASSUME NEW c \in Callers, Startup(c) PROVE LeaseInv'
  BY <1>5 DEF Startup, files, locks, callers, history
<1>6. ASSUME NEW c \in Callers, Setup(c) PROVE LeaseInv'
  BY <1>6 DEF Setup, Steps, Fails, ParentIdle, files, locks, callers, history
<1>7. ASSUME NEW c \in Callers, Fork(c) PROVE LeaseInv'
  BY <1>7 DEF Fork, files, callers, history
<1>8. ASSUME NEW c \in Callers, Save(c) PROVE LeaseInv'
  BY <1>8 DEF Save, Steps, Fails, locks, callers, history
<1>9. ASSUME NEW c \in Callers, Run(c) PROVE LeaseInv'
  BY <1>9 DEF Run, Steps, files, locks, callers
<1>10. ASSUME NEW c \in Callers, NativeEnds(c) PROVE LeaseInv'
  BY <1>10 DEF NativeEnds, Steps, files, locks, callers, history
<1>11. ASSUME NEW c \in Callers, Leave(c) PROVE LeaseInv'
  BY <1>11 DEF Leave, Steps, Saved, files, locks, callers, history
<1>12. ASSUME NEW c \in Callers, CloseNative(c) PROVE LeaseInv'
  BY <1>12 DEF CloseNative, Steps, Saved, Closure, locks, callers, history
<1>13. ASSUME NEW c \in Callers, Publish(c) PROVE LeaseInv'
  BY <1>13 DEF Publish, Steps, locks, callers, history
<1>14. ASSUME NEW c \in Callers, Unlink(c) PROVE LeaseInv'
  BY <1>14 DEF Unlink, Steps, locks, callers, history
<1>15. ASSUME NEW c \in Callers, Release(c) PROVE LeaseInv'
  BY <1>15 DEF Release, Ends, files, callers, history
<1>16. ASSUME NEW c \in Callers, Dies(c) PROVE LeaseInv'
  BY <1>16 DEF Dies, Ends, files, callers
<1>17. ASSUME NEW c \in Callers, Submit(c) PROVE LeaseInv'
  BY <1>17 DEF Submit, Goes, Launched, CallerOnly, files, locks, history
<1>18. ASSUME NEW c \in Callers, CloseLooks(c) PROVE LeaseInv'
  BY <1>18 DEF CloseLooks, Goes, Launched, Answers, CallerOnly, files, locks, history
<1>19. ASSUME NEW c \in Callers, CloseGoesOn(c) PROVE LeaseInv'
  BY <1>19 DEF CloseGoesOn, Answers, Goes, Launched, CallerOnly, files, locks, history
<1>20. CASE UNCHANGED vars \/ \E c \in Callers : Emit(c) \/ CloseCancels(c) \/ StartupReply(c) \/
  StartupTimeout(c) \/ ReadEvents(c) \/ Check(c) \/ Drain(c) \/ AssertOwner(c) \/ Cancel(c) \/
  TellTurn(c) \/ GiveUp(c)
  BY <1>1, <1>20
<1> QED
  BY <1>2, <1>3, <1>4, <1>5, <1>6, <1>7, <1>8, <1>9, <1>10, <1>11, <1>12, <1>13, <1>14, <1>15,
    <1>16, <1>17, <1>18, <1>19, <1>20 DEF Next, Worker, Caller, Environment

\* The files of an operation are as far as its owner.
LEMMA StepProgress == IInv /\ [Next]_vars => ProgressInv'
<1> SUFFICES ASSUME IInv, [Next]_vars PROVE ProgressInv'
  OBVIOUS
<1>1. ASSUME UNCHANGED vars \/ \E c \in Callers : Emit(c) \/ CloseCancels(c) \/ StartupReply(c) \/
  StartupTimeout(c) \/ ReadEvents(c) \/ Check(c) \/ Drain(c) \/ AssertOwner(c) \/ Cancel(c) \/
  TellTurn(c) \/ GiveUp(c)
  PROVE UNCHANGED <<job, at, request, result, starts>>
  <2>1. ASSUME NEW c \in Callers, Emit(c) PROVE UNCHANGED <<job, at, request, result, starts>>
    BY <2>1 DEF Emit, locks, workers, callers, history
  <2>2. ASSUME NEW c \in Callers, CloseCancels(c) \/ StartupReply(c) \/ StartupTimeout(c) \/
    ReadEvents(c) \/ Check(c) \/ Drain(c)
    PROVE UNCHANGED <<job, at, request, result, starts>>
    BY <2>2 DEF CloseCancels, Answers, Stopped, CallerOnly, files, locks, history, StartupReply,
      Goes, NotStarted, workers, StartupTimeout, ReadEvents, Check, Drain, Answered
  <2>3. ASSUME NEW c \in Callers, AssertOwner(c) \/ Cancel(c) \/ TellTurn(c) \/ GiveUp(c)
    PROVE UNCHANGED <<job, at, request, result, starts>>
    BY <2>3 DEF AssertOwner, Goes, Answers, Abandoned, CallerOnly, files, locks, workers, history,
      Cancel, TellTurn, Stopped, GiveUp
  <2> QED
    BY <1>1, <2>1, <2>2, <2>3 DEF vars, files, locks, workers, callers, history
<1> USE DEF IInv, TypeOK, WorkerTypes, LeaseInv, ProgressInv, Owning, Late, Early, WorkerPlaces,
  None
<1> \A d \in Callers : Op(d) \in Ops /\ Op(d)' = Op(d)
  BY JobTypes, JobFixed
<1> \A d \in Callers : Session(d)' = Session(d) /\ (Op(d) \notin Commands => Session(d) \in Sessions)
  BY JobTypes, JobFixed
<1>2. ASSUME NEW c \in Callers, Claim(c) PROVE ProgressInv'
  BY <1>2 DEF Claim, Ends, New, AfterClaim, files, callers, history
<1>3. ASSUME NEW c \in Callers, Enter(c) PROVE ProgressInv'
  BY <1>3 DEF Enter, Ends, callers, history
<1>4. ASSUME NEW c \in Callers, Accept(c) PROVE ProgressInv'
  <2> Input(c) # None
    BY JobTypes, KindsAreApart
  <2> QED
    BY <1>4 DEF Accept, Steps, FileTypes, locks
<1>5. ASSUME NEW c \in Callers, Startup(c) PROVE ProgressInv'
  BY <1>5 DEF Startup, files, locks, callers, history
<1>6. ASSUME NEW c \in Callers, Setup(c) PROVE ProgressInv'
  BY <1>6 DEF Setup, Steps, Fails, ParentIdle, files, locks, callers, history
<1>7. ASSUME NEW c \in Callers, Fork(c) PROVE ProgressInv'
  BY <1>7 DEF Fork, files, callers, history
<1>8. ASSUME NEW c \in Callers, Save(c) PROVE ProgressInv'
  BY <1>8 DEF Save, Steps, Fails, locks, callers, history
<1>9. ASSUME NEW c \in Callers, Run(c) PROVE ProgressInv'
  BY <1>9 DEF Run, Steps, HistoryTypes, files, locks, callers
<1>10. ASSUME NEW c \in Callers, NativeEnds(c) PROVE ProgressInv'
  BY <1>10 DEF NativeEnds, Steps, files, locks, callers, history
<1>11. ASSUME NEW c \in Callers, Leave(c) PROVE ProgressInv'
  BY <1>11 DEF Leave, Steps, Saved, files, locks, callers, history
<1>12. ASSUME NEW c \in Callers, CloseNative(c) PROVE ProgressInv'
  BY <1>12 DEF CloseNative, Steps, Saved, Closure, locks, callers, history
<1>13. ASSUME NEW c \in Callers, Publish(c) PROVE ProgressInv'
  BY <1>13 DEF Publish, Steps, FileTypes, KindInv, locks, callers, history
<1>14. ASSUME NEW c \in Callers, Unlink(c) PROVE ProgressInv'
  BY <1>14 DEF Unlink, Steps, locks, callers, history
<1>15. ASSUME NEW c \in Callers, Release(c) PROVE ProgressInv'
  BY <1>15 DEF Release, Ends, files, callers, history
<1>16. ASSUME NEW c \in Callers, Dies(c) PROVE ProgressInv'
  BY <1>16 DEF Dies, Ends, files, callers
<1>17. ASSUME NEW c \in Callers, Submit(c) PROVE ProgressInv'
  BY <1>17 DEF Submit, Goes, Launched, CallerOnly, files, locks, history
<1>18. ASSUME NEW c \in Callers, CloseLooks(c) PROVE ProgressInv'
  BY <1>18 DEF CloseLooks, Goes, Launched, Answers, CallerOnly, files, locks, history
<1>19. ASSUME NEW c \in Callers, CloseGoesOn(c) PROVE ProgressInv'
  BY <1>19 DEF CloseGoesOn, Answers, Goes, Launched, CallerOnly, files, locks, history
<1>20. CASE UNCHANGED vars \/ \E c \in Callers : Emit(c) \/ CloseCancels(c) \/ StartupReply(c) \/
  StartupTimeout(c) \/ ReadEvents(c) \/ Check(c) \/ Drain(c) \/ AssertOwner(c) \/ Cancel(c) \/
  TellTurn(c) \/ GiveUp(c)
  BY <1>1, <1>20
<1> QED
  BY <1>2, <1>3, <1>4, <1>5, <1>6, <1>7, <1>8, <1>9, <1>10, <1>11, <1>12, <1>13, <1>14, <1>15,
    <1>16, <1>17, <1>18, <1>19, <1>20 DEF Next, Worker, Caller, Environment

\* An accepted operation without a result has an owner or lost it.
LEMMA StepOwner == IInv /\ [Next]_vars => OwnerInv'
<1> SUFFICES ASSUME IInv, [Next]_vars PROVE OwnerInv'
  OBVIOUS
<1>1. ASSUME UNCHANGED vars \/ \E c \in Callers : Startup(c) \/ Setup(c) \/ Fork(c) \/ Save(c) \/
  Run(c) \/ Emit(c) \/ NativeEnds(c) \/ Leave(c) \/ CloseNative(c) \/ Unlink(c) \/ Submit(c) \/
  CloseLooks(c) \/ CloseCancels(c) \/ CloseGoesOn(c) \/ StartupReply(c) \/ StartupTimeout(c) \/
  ReadEvents(c) \/ Check(c) \/ Drain(c) \/ AssertOwner(c) \/ Cancel(c) \/ TellTurn(c) \/ GiveUp(c)
  PROVE UNCHANGED <<job, request, result, lease, accepter, dead>>
  <2>1. ASSUME NEW c \in Callers, Startup(c) \/ Setup(c) \/ Fork(c) \/ Save(c) \/ Run(c) \/ Emit(c)
    PROVE UNCHANGED <<job, request, result, lease, accepter, dead>>
    BY <2>1 DEF Startup, files, locks, callers, history, Setup, Steps, Fails, ParentIdle, Fork,
      Save, Run, Emit, workers
  <2>2. ASSUME NEW c \in Callers, NativeEnds(c) \/ Leave(c) \/ CloseNative(c) \/ Unlink(c)
    PROVE UNCHANGED <<job, request, result, lease, accepter, dead>>
    BY <2>2 DEF NativeEnds, Steps, files, locks, callers, history, Leave, Saved, CloseNative,
      Closure, Unlink
  <2>3. ASSUME NEW c \in Callers, Submit(c) \/ CloseLooks(c) \/ CloseCancels(c) \/ CloseGoesOn(c) \/
    StartupReply(c) \/ StartupTimeout(c)
    PROVE UNCHANGED <<job, request, result, lease, accepter, dead>>
    BY <2>3 DEF Submit, Goes, Launched, CallerOnly, files, locks, history, CloseLooks, Answers,
      CloseCancels, Stopped, CloseGoesOn, StartupReply, NotStarted, workers, StartupTimeout
  <2>4. ASSUME NEW c \in Callers, ReadEvents(c) \/ Check(c) \/ Drain(c) \/ AssertOwner(c) \/
    Cancel(c) \/ TellTurn(c)
    PROVE UNCHANGED <<job, request, result, lease, accepter, dead>>
    BY <2>4 DEF ReadEvents, Goes, CallerOnly, files, locks, workers, history, Check, Drain, Answers,
      Answered, AssertOwner, Abandoned, Cancel, TellTurn, Stopped
  <2>5. ASSUME NEW c \in Callers, GiveUp(c)
    PROVE UNCHANGED <<job, request, result, lease, accepter, dead>>
    BY <2>5 DEF GiveUp, Answers, CallerOnly, files, locks, workers, history
  <2> QED
    BY <1>1, <2>1, <2>2, <2>3, <2>4, <2>5 DEF vars, files, locks, workers, callers, history
<1> USE KindsAreApart DEF IInv, TypeOK, WorkerTypes, FileTypes, LockTypes, HistoryTypes, KindInv,
  LeaseInv, ProgressInv, OwnerInv, Owning, Late, Early, WorkerPlaces, None
<1> \A d \in Callers : Op(d) \in Ops /\ Op(d)' = Op(d)
  BY JobTypes, JobFixed
<1> \A d \in Callers : Session(d)' = Session(d) /\ (Op(d) \notin Commands => Session(d) \in Sessions)
  BY JobTypes, JobFixed
<1>2. ASSUME NEW c \in Callers, Claim(c) PROVE OwnerInv'
  BY <1>2 DEF Claim, Ends, New, AfterClaim, files, callers, history
<1>3. ASSUME NEW c \in Callers, Enter(c) PROVE OwnerInv'
  BY <1>3 DEF Enter, Ends, callers, history
<1>4. ASSUME NEW c \in Callers, Accept(c) PROVE OwnerInv'
  BY <1>4 DEF Accept, Steps, locks, callers
<1>5. ASSUME NEW c \in Callers, Publish(c) PROVE OwnerInv'
  BY <1>5 DEF Publish, Steps, locks, callers, history
<1>6. ASSUME NEW c \in Callers, Release(c) PROVE OwnerInv'
  BY <1>6 DEF Release, Ends, files, callers, history
<1>7. ASSUME NEW c \in Callers, Dies(c) PROVE OwnerInv'
  BY <1>7 DEF Dies, Ends, files, callers
<1>8. CASE UNCHANGED vars \/ \E c \in Callers : Startup(c) \/ Setup(c) \/ Fork(c) \/ Save(c) \/
  Run(c) \/ Emit(c) \/ NativeEnds(c) \/ Leave(c) \/ CloseNative(c) \/ Unlink(c) \/ Submit(c) \/
  CloseLooks(c) \/ CloseCancels(c) \/ CloseGoesOn(c) \/ StartupReply(c) \/ StartupTimeout(c) \/
  ReadEvents(c) \/ Check(c) \/ Drain(c) \/ AssertOwner(c) \/ Cancel(c) \/ TellTurn(c) \/ GiveUp(c)
  BY <1>1, <1>8
<1> QED
  BY <1>2, <1>3, <1>4, <1>5, <1>6, <1>7, <1>8 DEF Next, Worker, Caller, Environment

\* The lock of a session is held by whoever works on it.
LEMMA StepSession == IInv /\ [Next]_vars => SessionInv'
<1> SUFFICES ASSUME IInv, [Next]_vars PROVE SessionInv'
  OBVIOUS
<1>1. ASSUME UNCHANGED vars \/ \E c \in Callers : Emit(c) \/ CloseCancels(c) \/ StartupReply(c) \/
  StartupTimeout(c) \/ ReadEvents(c) \/ Check(c) \/ Drain(c) \/ AssertOwner(c) \/ Cancel(c) \/
  TellTurn(c) \/ GiveUp(c)
  PROVE UNCHANGED <<job, at, sessionLease>>
  <2>1. ASSUME NEW c \in Callers, Emit(c) PROVE UNCHANGED <<job, at, sessionLease>>
    BY <2>1 DEF Emit, locks, workers, callers, history
  <2>2. ASSUME NEW c \in Callers, CloseCancels(c) \/ StartupReply(c) \/ StartupTimeout(c) \/
    ReadEvents(c) \/ Check(c) \/ Drain(c)
    PROVE UNCHANGED <<job, at, sessionLease>>
    BY <2>2 DEF CloseCancels, Answers, Stopped, CallerOnly, files, locks, history, StartupReply,
      Goes, NotStarted, workers, StartupTimeout, ReadEvents, Check, Drain, Answered
  <2>3. ASSUME NEW c \in Callers, AssertOwner(c) \/ Cancel(c) \/ TellTurn(c) \/ GiveUp(c)
    PROVE UNCHANGED <<job, at, sessionLease>>
    BY <2>3 DEF AssertOwner, Goes, Answers, Abandoned, CallerOnly, files, locks, workers, history,
      Cancel, TellTurn, Stopped, GiveUp
  <2> QED
    BY <1>1, <2>1, <2>2, <2>3 DEF vars, files, locks, workers, callers, history
<1> USE KindsAreApart DEF IInv, TypeOK, WorkerTypes, LockTypes, KindInv, SessionInv, Owning,
  Holding, WorkerPlaces, None
<1> \A d \in Callers : Op(d) \in Ops /\ Op(d)' = Op(d)
  BY JobTypes, JobFixed
<1> \A d \in Callers : Session(d)' = Session(d) /\ (Op(d) \notin Commands => Session(d) \in Sessions)
  BY JobTypes, JobFixed
<1> \A s \in Sessions : ParentOf[s] # None => ParentOf[s] \in Sessions
  BY SessionsAreGiven
<1>2. ASSUME NEW c \in Callers, Claim(c) PROVE SessionInv'
  BY <1>2 DEF Claim, Ends, New, AfterClaim, files, callers, history
<1>3. ASSUME NEW c \in Callers, Enter(c) PROVE SessionInv'
  BY <1>3 DEF Enter, Ends, Admitted, callers, history
<1>4. ASSUME NEW c \in Callers, Accept(c) PROVE SessionInv'
  BY <1>4 DEF Accept, Steps, locks, callers
<1>5. ASSUME NEW c \in Callers, Startup(c) PROVE SessionInv'
  BY <1>5 DEF Startup, files, locks, callers, history
<1>6. ASSUME NEW c \in Callers, Setup(c) PROVE SessionInv'
  BY <1>6 DEF Setup, Steps, Fails, ParentIdle, files, locks, callers, history
<1>7. ASSUME NEW c \in Callers, Fork(c) PROVE SessionInv'
  BY <1>7 DEF Fork, files, callers, history
<1>8. ASSUME NEW c \in Callers, Save(c) PROVE SessionInv'
  BY <1>8 DEF Save, Steps, Fails, locks, callers, history
<1>9. ASSUME NEW c \in Callers, Run(c) PROVE SessionInv'
  BY <1>9 DEF Run, Steps, files, locks, callers
<1>10. ASSUME NEW c \in Callers, NativeEnds(c) PROVE SessionInv'
  BY <1>10 DEF NativeEnds, Steps, files, locks, callers, history
<1>11. ASSUME NEW c \in Callers, Leave(c) PROVE SessionInv'
  BY <1>11 DEF Leave, Steps, Saved, files, locks, callers, history
<1>12. ASSUME NEW c \in Callers, CloseNative(c) PROVE SessionInv'
  BY <1>12 DEF CloseNative, Steps, Saved, Closure, locks, callers, history
<1>13. ASSUME NEW c \in Callers, Publish(c) PROVE SessionInv'
  BY <1>13 DEF Publish, Steps, locks, callers, history
<1>14. ASSUME NEW c \in Callers, Unlink(c) PROVE SessionInv'
  BY <1>14 DEF Unlink, Steps, locks, callers, history
<1>15. ASSUME NEW c \in Callers, Release(c) PROVE SessionInv'
  BY <1>15 DEF Release, Ends, files, callers, history
<1>16. ASSUME NEW c \in Callers, Dies(c) PROVE SessionInv'
  BY <1>16 DEF Dies, Ends, files, callers
<1>17. ASSUME NEW c \in Callers, Submit(c) PROVE SessionInv'
  BY <1>17 DEF Submit, Goes, Launched, CallerOnly, files, locks, history
<1>18. ASSUME NEW c \in Callers, CloseLooks(c) PROVE SessionInv'
  BY <1>18 DEF CloseLooks, Goes, Launched, Answers, CallerOnly, files, locks, history
<1>19. ASSUME NEW c \in Callers, CloseGoesOn(c) PROVE SessionInv'
  BY <1>19 DEF CloseGoesOn, Answers, Goes, Launched, CallerOnly, files, locks, history
<1>20. CASE UNCHANGED vars \/ \E c \in Callers : Emit(c) \/ CloseCancels(c) \/ StartupReply(c) \/
  StartupTimeout(c) \/ ReadEvents(c) \/ Check(c) \/ Drain(c) \/ AssertOwner(c) \/ Cancel(c) \/
  TellTurn(c) \/ GiveUp(c)
  BY <1>1, <1>20
<1> QED
  BY <1>2, <1>3, <1>4, <1>5, <1>6, <1>7, <1>8, <1>9, <1>10, <1>11, <1>12, <1>13, <1>14, <1>15,
    <1>16, <1>17, <1>18, <1>19, <1>20 DEF Next, Worker, Caller, Environment

\* A turn runs on the conversation of the checkpoint.
LEMMA StepConversation == IInv /\ [Next]_vars => ConversationInv'
<1> SUFFICES ASSUME IInv, [Next]_vars PROVE ConversationInv'
  OBVIOUS
<1>1. ASSUME UNCHANGED vars \/ \E c \in Callers : Emit(c) \/ CloseCancels(c) \/ StartupReply(c) \/
  StartupTimeout(c) \/ ReadEvents(c) \/ Check(c) \/ Drain(c) \/ AssertOwner(c) \/ Cancel(c) \/
  TellTurn(c) \/ GiveUp(c)
  PROVE UNCHANGED <<job, at, conversation, native, ran>>
  <2>1. ASSUME NEW c \in Callers, Emit(c) PROVE UNCHANGED <<job, at, conversation, native, ran>>
    BY <2>1 DEF Emit, locks, workers, callers, history
  <2>2. ASSUME NEW c \in Callers, CloseCancels(c) \/ StartupReply(c) \/ StartupTimeout(c) \/
    ReadEvents(c) \/ Check(c) \/ Drain(c)
    PROVE UNCHANGED <<job, at, conversation, native, ran>>
    BY <2>2 DEF CloseCancels, Answers, Stopped, CallerOnly, files, locks, history, StartupReply,
      Goes, NotStarted, workers, StartupTimeout, ReadEvents, Check, Drain, Answered
  <2>3. ASSUME NEW c \in Callers, AssertOwner(c) \/ Cancel(c) \/ TellTurn(c) \/ GiveUp(c)
    PROVE UNCHANGED <<job, at, conversation, native, ran>>
    BY <2>3 DEF AssertOwner, Goes, Answers, Abandoned, CallerOnly, files, locks, workers, history,
      Cancel, TellTurn, Stopped, GiveUp
  <2> QED
    BY <1>1, <2>1, <2>2, <2>3 DEF vars, files, locks, workers, callers, history
<1> USE KindsAreApart DEF IInv, TypeOK, WorkerTypes, FileTypes, HistoryTypes, KindInv, SessionInv,
  ConversationInv, Owning, Holding, WorkerPlaces, Ops, None
<1> \A d \in Callers : Op(d) \in Ops /\ Op(d)' = Op(d)
  BY JobTypes, JobFixed
<1> \A d \in Callers : Session(d)' = Session(d) /\ (Op(d) \notin Commands => Session(d) \in Sessions)
  BY JobTypes, JobFixed
<1> \A d \in Callers : Session(d) = SessionOf[Op(d)]
  BY DEF Session
<1>2. ASSUME NEW c \in Callers, Claim(c) PROVE ConversationInv'
  BY <1>2 DEF Claim, Ends, New, AfterClaim, files, callers, history
<1>3. ASSUME NEW c \in Callers, Enter(c) PROVE ConversationInv'
  BY <1>3 DEF Enter, Ends, callers, history
<1>4. ASSUME NEW c \in Callers, Accept(c) PROVE ConversationInv'
  BY <1>4 DEF Accept, Steps, locks, callers
<1>5. ASSUME NEW c \in Callers, Startup(c) PROVE ConversationInv'
  BY <1>5 DEF Startup, files, locks, callers, history
<1>6. ASSUME NEW c \in Callers, Setup(c) PROVE ConversationInv'
  BY <1>6 DEF Setup, Steps, Fails, ParentIdle, files, locks, callers, history
<1>7. ASSUME NEW c \in Callers, Fork(c) PROVE ConversationInv'
  BY <1>7 DEF Fork, files, callers, history
<1>8. ASSUME NEW c \in Callers, Save(c) PROVE ConversationInv'
  <2> DEFINE Uses(d) == at[d] \in {"fork", "save"} \/ (at[d] \in {"run", "native"} /\ Op(d) \in Turns)
  <2>1. ASSUME NEW d \in Callers, d # c, Uses(d) PROVE Session(d) # Session(c)
    BY <1>8, <2>1 DEF Save
  <2>2. conversation[c] # None /\ native[Session(c)] \in {None, conversation[c]} /\ Session(c) \in Sessions
    BY <1>8 DEF Save
  <2>3. \A s \in Sessions : native'[s] = native[s] \/ (s = Session(c) /\ native'[s] = conversation[c])
    BY <1>8 DEF Save
  <2>4. UNCHANGED <<conversation, ran>> /\ \A d \in Callers : d # c => at'[d] = at[d]
    BY <1>8 DEF Save, Steps, Fails, history
  <2>5. at'[c] = "leave" \/ (at'[c] = "run" /\ native'[Session(c)] = conversation[c])
    BY <1>8 DEF Save, Steps, Fails
  <2>6. ASSUME NEW d \in Callers, d # c, Uses(d) PROVE native'[Session(d)] = native[Session(d)]
    BY <2>1, <2>3, <2>6
  <2>7. \A o \in Turns : ran[o] # None => ran[o] = native'[SessionOf[o]]
    BY <2>2, <2>3, SessionsAreGiven
  <2> QED
    BY <2>2, <2>4, <2>5, <2>6, <2>7
<1>9. ASSUME NEW c \in Callers, Run(c) PROVE ConversationInv'
  BY <1>9 DEF Run, Steps, files, locks, callers
<1>10. ASSUME NEW c \in Callers, NativeEnds(c) PROVE ConversationInv'
  BY <1>10 DEF NativeEnds, Steps, files, locks, callers, history
<1>11. ASSUME NEW c \in Callers, Leave(c) PROVE ConversationInv'
  BY <1>11 DEF Leave, Steps, Saved, files, locks, callers, history
<1>12. ASSUME NEW c \in Callers, CloseNative(c) PROVE ConversationInv'
  BY <1>12 DEF CloseNative, Steps, Saved, Closure, locks, callers, history
<1>13. ASSUME NEW c \in Callers, Publish(c) PROVE ConversationInv'
  BY <1>13 DEF Publish, Steps, locks, callers, history
<1>14. ASSUME NEW c \in Callers, Unlink(c) PROVE ConversationInv'
  BY <1>14 DEF Unlink, Steps, locks, callers, history
<1>15. ASSUME NEW c \in Callers, Release(c) PROVE ConversationInv'
  BY <1>15 DEF Release, Ends, files, callers, history
<1>16. ASSUME NEW c \in Callers, Dies(c) PROVE ConversationInv'
  BY <1>16 DEF Dies, Ends, files, callers
<1>17. ASSUME NEW c \in Callers, Submit(c) PROVE ConversationInv'
  BY <1>17 DEF Submit, Goes, Launched, CallerOnly, files, locks, history
<1>18. ASSUME NEW c \in Callers, CloseLooks(c) PROVE ConversationInv'
  BY <1>18 DEF CloseLooks, Goes, Launched, Answers, CallerOnly, files, locks, history
<1>19. ASSUME NEW c \in Callers, CloseGoesOn(c) PROVE ConversationInv'
  BY <1>19 DEF CloseGoesOn, Answers, Goes, Launched, CallerOnly, files, locks, history
<1>20. CASE UNCHANGED vars \/ \E c \in Callers : Emit(c) \/ CloseCancels(c) \/ StartupReply(c) \/
  StartupTimeout(c) \/ ReadEvents(c) \/ Check(c) \/ Drain(c) \/ AssertOwner(c) \/ Cancel(c) \/
  TellTurn(c) \/ GiveUp(c)
  BY <1>1, <1>20
<1> QED
  BY <1>2, <1>3, <1>4, <1>5, <1>6, <1>7, <1>8, <1>9, <1>10, <1>11, <1>12, <1>13, <1>14, <1>15,
    <1>16, <1>17, <1>18, <1>19, <1>20 DEF Next, Worker, Caller, Environment

\* A closed session admits closes only.
LEMMA StepClosed == IInv /\ [Next]_vars => ClosedInv'
<1> SUFFICES ASSUME IInv, [Next]_vars PROVE ClosedInv'
  OBVIOUS
<1>1. ASSUME UNCHANGED vars \/ \E c \in Callers : Emit(c) \/ ReadEvents(c) \/ Check(c) \/ Cancel(c)
  \/ TellTurn(c)
  PROVE UNCHANGED <<job, at, closed, outcome, answer, result>>
  <2>1. ASSUME NEW c \in Callers, Emit(c)
    PROVE UNCHANGED <<job, at, closed, outcome, answer, result>>
    BY <2>1 DEF Emit, locks, workers, callers, history
  <2>2. ASSUME NEW c \in Callers, ReadEvents(c) \/ Check(c) \/ Cancel(c) \/ TellTurn(c)
    PROVE UNCHANGED <<job, at, closed, outcome, answer, result>>
    BY <2>2 DEF ReadEvents, Goes, CallerOnly, files, locks, workers, history, Check, Cancel,
      TellTurn, Stopped
  <2> QED
    BY <1>1, <2>1, <2>2 DEF vars, files, locks, workers, callers, history
<1> USE KindsAreApart DEF IInv, TypeOK, WorkerTypes, FileTypes, CallerTypes, KindInv, SessionInv,
  LeaseInv, ProgressInv, ClosedInv, AnswerInv, Owning, Holding, WorkerPlaces, Ops, Outcomes, None
<1> \A d \in Callers : Op(d) \in Ops /\ Op(d)' = Op(d)
  BY JobTypes, JobFixed
<1> \A d \in Callers : Session(d)' = Session(d) /\ (Op(d) \notin Commands => Session(d) \in Sessions)
  BY JobTypes, JobFixed
<1> \A d \in Callers : Session(d) = SessionOf[Op(d)]
  BY DEF Session
<1>2. ASSUME NEW c \in Callers, Claim(c) PROVE ClosedInv'
  BY <1>2 DEF Claim, Ends, New, AfterClaim, files, callers, history
<1>3. ASSUME NEW c \in Callers, Enter(c) PROVE ClosedInv'
  BY <1>3 DEF Enter, Ends, Admitted, callers, history
<1>4. ASSUME NEW c \in Callers, Accept(c) PROVE ClosedInv'
  BY <1>4 DEF Accept, Steps, locks, callers
<1>5. ASSUME NEW c \in Callers, Startup(c) PROVE ClosedInv'
  BY <1>5 DEF Startup, files, locks, callers, history
<1>6. ASSUME NEW c \in Callers, Setup(c) PROVE ClosedInv'
  BY <1>6 DEF Setup, Steps, Fails, ParentIdle, files, locks, callers, history
<1>7. ASSUME NEW c \in Callers, Fork(c) PROVE ClosedInv'
  BY <1>7 DEF Fork, files, callers, history
<1>8. ASSUME NEW c \in Callers, Save(c) PROVE ClosedInv'
  BY <1>8 DEF Save, Steps, Fails, locks, callers, history
<1>9. ASSUME NEW c \in Callers, Run(c) PROVE ClosedInv'
  BY <1>9 DEF Run, Steps, files, locks, callers
<1>10. ASSUME NEW c \in Callers, NativeEnds(c) PROVE ClosedInv'
  BY <1>10 DEF NativeEnds, Steps, files, locks, callers, history
<1>11. ASSUME NEW c \in Callers, Leave(c) PROVE ClosedInv'
  BY <1>11 DEF Leave, Steps, Saved, files, locks, callers, history
<1>12. ASSUME NEW c \in Callers, CloseNative(c) PROVE ClosedInv'
  <2>1. ASSUME NEW d \in Callers, at[d] \in Holding, Op(d) \in Turns \cup Forks PROVE Session(d) # Session(c)
    BY <1>12, <2>1 DEF CloseNative
  <2>2. closed' \in [Sessions -> {None, "ok", "error"}] /\ \A s \in Sessions : closed'[s] = closed[s] \/ (s = Session(c) /\ closed'[s] # None)
    BY <1>12 DEF CloseNative, Closure
  <2>3. at[c] \in Holding /\ at' = [at EXCEPT ![c] = "publish"] /\ UNCHANGED <<answer, result>>
    BY <1>12 DEF CloseNative, Steps, callers
  <2>4. outcome' \in [Callers -> Outcomes \cup {None}] /\ \A d \in Callers : d # c => outcome'[d] = outcome[d]
    BY <1>12 DEF CloseNative, Saved
  <2>5. outcome'[c] = "ok" => closed'[Session(c)] # None
    BY <1>12 DEF CloseNative, Saved, Closure
  <2>6. \A d \in Callers : (at[d] \in Holding /\ Op(d) \in Turns \cup Forks => closed[Session(d)] = None)'
    BY <2>1, <2>2, <2>3
  <2>7. \A d \in Callers : (at[d] = "publish" /\ Op(d) \in Closes /\ outcome[d] = "ok" => closed[Session(d)] # None)'
    BY <2>2, <2>3, <2>4, <2>5
  <2>8. \A d \in Callers : (answer[d] = "ok" /\ Op(d) \in Closes => closed[Session(d)] # None)'
    BY <2>2, <2>3
  <2>9. \A o \in Closes : (result[o] = "ok" => closed[SessionOf[o]] # None)'
    BY <2>2, <2>3, SessionsAreGiven
  <2> QED
    BY <2>6, <2>7, <2>8, <2>9
<1>13. ASSUME NEW c \in Callers, Publish(c) PROVE ClosedInv'
  BY <1>13 DEF Publish, Steps, locks, callers, history
<1>14. ASSUME NEW c \in Callers, Unlink(c) PROVE ClosedInv'
  BY <1>14 DEF Unlink, Steps, locks, callers, history
<1>15. ASSUME NEW c \in Callers, Release(c) PROVE ClosedInv'
  BY <1>15 DEF Release, Ends, files, callers, history
<1>16. ASSUME NEW c \in Callers, Dies(c) PROVE ClosedInv'
  BY <1>16 DEF Dies, Ends, files, callers
<1>17. ASSUME NEW c \in Callers, Submit(c) PROVE ClosedInv'
  BY <1>17 DEF Submit, Goes, Launched, CallerOnly, files, locks, history
<1>18. ASSUME NEW c \in Callers, CloseLooks(c) PROVE ClosedInv'
  BY <1>18 DEF CloseLooks, Goes, Launched, Answers, CallerOnly, files, locks, history
<1>19. ASSUME NEW c \in Callers, CloseCancels(c) PROVE ClosedInv'
  BY <1>19 DEF CloseCancels, Answers, Stopped, CallerOnly, files, locks, history
<1>20. ASSUME NEW c \in Callers, CloseGoesOn(c) PROVE ClosedInv'
  BY <1>20 DEF CloseGoesOn, Answers, Goes, Launched, CallerOnly, files, locks, history
<1>21. ASSUME NEW c \in Callers, StartupReply(c) PROVE ClosedInv'
  BY <1>21 DEF StartupReply, Goes, NotStarted, Answers, CallerOnly, files, locks, workers, history
<1>22. ASSUME NEW c \in Callers, StartupTimeout(c) PROVE ClosedInv'
  BY <1>22 DEF StartupTimeout, Goes, NotStarted, Answers, CallerOnly, files, locks, workers, history
<1>23. ASSUME NEW c \in Callers, Drain(c) PROVE ClosedInv'
  BY <1>23 DEF Drain, Answers, Answered, CallerOnly, files, locks, workers, history
<1>24. ASSUME NEW c \in Callers, AssertOwner(c) PROVE ClosedInv'
  BY <1>24 DEF AssertOwner, Goes, Answers, Abandoned, CallerOnly, files, locks, workers, history
<1>25. ASSUME NEW c \in Callers, GiveUp(c) PROVE ClosedInv'
  BY <1>25 DEF GiveUp, Answers, CallerOnly, files, locks, workers, history
<1>26. CASE UNCHANGED vars \/ \E c \in Callers : Emit(c) \/ ReadEvents(c) \/ Check(c) \/ Cancel(c)
  \/ TellTurn(c)
  BY <1>1, <1>26
<1> QED
  BY <1>2, <1>3, <1>4, <1>5, <1>6, <1>7, <1>8, <1>9, <1>10, <1>11, <1>12, <1>13, <1>14, <1>15,
    <1>16, <1>17, <1>18, <1>19, <1>20, <1>21, <1>22, <1>23, <1>24, <1>25, <1>26 DEF Next, Worker,
    Caller, Environment

\* An answer is final.
LEMMA StepAnswer == IInv /\ [Next]_vars => AnswerInv'
<1> SUFFICES ASSUME IInv, [Next]_vars PROVE AnswerInv'
  OBVIOUS
<1>1. ASSUME UNCHANGED vars \/ \E c \in Callers : Claim(c) \/ Enter(c) \/ Accept(c) \/ Startup(c) \/
  Setup(c) \/ Fork(c) \/ Save(c) \/ Run(c) \/ NativeEnds(c) \/ Leave(c) \/ CloseNative(c) \/
  Unlink(c) \/ Release(c) \/ Dies(c)
  PROVE UNCHANGED <<job, answer, pc, result, cancelled, seen, events>>
  <2>1. ASSUME NEW c \in Callers, Claim(c) \/ Enter(c) \/ Accept(c) \/ Startup(c) \/ Setup(c) \/
    Fork(c)
    PROVE UNCHANGED <<job, answer, pc, result, cancelled, seen, events>>
    BY <2>1 DEF Claim, Ends, New, AfterClaim, files, callers, history, Enter, Accept, Steps, locks,
      Startup, Setup, Fails, ParentIdle, Fork
  <2>2. ASSUME NEW c \in Callers, Save(c) \/ Run(c) \/ NativeEnds(c) \/ Leave(c) \/ CloseNative(c)
    \/ Unlink(c)
    PROVE UNCHANGED <<job, answer, pc, result, cancelled, seen, events>>
    BY <2>2 DEF Save, Steps, Fails, locks, callers, history, Run, files, NativeEnds, Leave, Saved,
      CloseNative, Closure, Unlink
  <2>3. ASSUME NEW c \in Callers, Release(c) \/ Dies(c)
    PROVE UNCHANGED <<job, answer, pc, result, cancelled, seen, events>>
    BY <2>3 DEF Release, Ends, files, callers, history, Dies
  <2> QED
    BY <1>1, <2>1, <2>2, <2>3 DEF vars, files, locks, workers, callers, history
<1> USE KindsAreApart DEF IInv, TypeOK, WorkerTypes, FileTypes, CallerTypes, KindInv, ProgressInv,
  AnswerInv, Owning, Late, WorkerPlaces, CallerPlaces, Outcomes, None
<1> \A d \in Callers : Op(d) \in Ops /\ Op(d)' = Op(d)
  BY JobTypes, JobFixed
<1> \A d \in Callers : Session(d)' = Session(d) /\ (Op(d) \notin Commands => Session(d) \in Sessions)
  BY JobTypes, JobFixed
<1>2. ASSUME NEW c \in Callers, Emit(c) PROVE AnswerInv'
  BY <1>2 DEF Emit, locks, workers, callers, history
<1>3. ASSUME NEW c \in Callers, Publish(c) PROVE AnswerInv'
  BY <1>3 DEF Publish, Steps, locks, callers, history
<1>4. ASSUME NEW c \in Callers, Submit(c) PROVE AnswerInv'
  BY <1>4 DEF Submit, Goes, Launched, CallerOnly, files, locks, history
<1>5. ASSUME NEW c \in Callers, CloseLooks(c) PROVE AnswerInv'
  BY <1>5 DEF CloseLooks, Goes, Launched, Answers, CallerOnly, files, locks, history
<1>6. ASSUME NEW c \in Callers, CloseCancels(c) PROVE AnswerInv'
  BY <1>6 DEF CloseCancels, Answers, Stopped, CallerOnly, files, locks, history
<1>7. ASSUME NEW c \in Callers, CloseGoesOn(c) PROVE AnswerInv'
  BY <1>7 DEF CloseGoesOn, Answers, Goes, Launched, CallerOnly, files, locks, history
<1>8. ASSUME NEW c \in Callers, StartupReply(c) PROVE AnswerInv'
  BY <1>8 DEF StartupReply, Goes, NotStarted, Answers, CallerOnly, files, locks, workers, history
<1>9. ASSUME NEW c \in Callers, StartupTimeout(c) PROVE AnswerInv'
  BY <1>9 DEF StartupTimeout, Goes, NotStarted, Answers, CallerOnly, files, locks, workers, history
<1>10. ASSUME NEW c \in Callers, ReadEvents(c) PROVE AnswerInv'
  BY <1>10 DEF ReadEvents, Goes, CallerOnly, files, locks, workers, history
<1>11. ASSUME NEW c \in Callers, Check(c) PROVE AnswerInv'
  BY <1>11 DEF Check, Goes, CallerOnly, files, locks, workers, history
<1>12. ASSUME NEW c \in Callers, Drain(c) PROVE AnswerInv'
  BY <1>12 DEF Drain, Answers, Answered, CallerOnly, files, locks, workers, history
<1>13. ASSUME NEW c \in Callers, AssertOwner(c) PROVE AnswerInv'
  BY <1>13 DEF AssertOwner, Goes, Answers, Abandoned, CallerOnly, files, locks, workers, history
<1>14. ASSUME NEW c \in Callers, Cancel(c) PROVE AnswerInv'
  BY <1>14 DEF Cancel, CallerOnly, files, locks, workers, history
<1>15. ASSUME NEW c \in Callers, GiveUp(c) PROVE AnswerInv'
  BY <1>15 DEF GiveUp, Answers, CallerOnly, files, locks, workers, history
<1>16. ASSUME NEW c \in Callers, TellTurn(c) PROVE AnswerInv'
  BY <1>16 DEF TellTurn, Stopped, CallerOnly, files, locks, history
<1>17. CASE UNCHANGED vars \/ \E c \in Callers : Claim(c) \/ Enter(c) \/ Accept(c) \/ Startup(c) \/
  Setup(c) \/ Fork(c) \/ Save(c) \/ Run(c) \/ NativeEnds(c) \/ Leave(c) \/ CloseNative(c) \/
  Unlink(c) \/ Release(c) \/ Dies(c)
  BY <1>1, <1>17
<1> QED
  BY <1>2, <1>3, <1>4, <1>5, <1>6, <1>7, <1>8, <1>9, <1>10, <1>11, <1>12, <1>13, <1>14, <1>15,
    <1>16, <1>17 DEF Next, Worker, Caller, Environment

\* An operation that lost its owner has none ever after, and no result.
LEMMA OrphanStays == IInv /\ [Next]_vars => \A o \in Ops : Orphan(o) => Orphan(o)'
<1> SUFFICES ASSUME IInv, [Next]_vars, NEW o \in Ops, Orphan(o) PROVE Orphan(o)'
  OBVIOUS
<1> USE DEF Orphan
<1> \A d \in Callers : Op(d) \in Ops
  BY JobTypes DEF IInv
<1>1. \A d \in Callers : Op(d) = o => at[d] \notin Owning
  BY KindsAreApart DEF IInv, LeaseInv, Owning, WorkerPlaces, None
<1> USE <1>1 DEF IInv, TypeOK, FileTypes, LockTypes, Owning, WorkerPlaces, None
<1>2. ASSUME NEW c \in Callers, Claim(c) PROVE Orphan(o)'
  BY <1>2 DEF Claim, New, Ends, files
<1>3. ASSUME NEW c \in Callers, Enter(c) PROVE Orphan(o)'
  BY <1>3 DEF Enter, Ends
<1>4. ASSUME NEW c \in Callers, Accept(c) PROVE Orphan(o)'
  BY <1>4 DEF Accept, Steps, locks
<1>5. ASSUME NEW c \in Callers, Publish(c) PROVE Orphan(o)'
  BY <1>5 DEF Publish, Steps, locks
<1>6. ASSUME NEW c \in Callers, Release(c) \/ Dies(c) PROVE Orphan(o)'
  BY <1>6 DEF Release, Dies, Ends, files
<1>7. ASSUME NEW c \in Callers, Startup(c) \/ Setup(c) \/ Fork(c) \/ Save(c) \/ Run(c) \/ Emit(c)
  PROVE Orphan(o)'
  BY <1>7 DEF Startup, Setup, Fork, Save, Run, Emit, Steps, Fails, files, locks
<1>8. ASSUME NEW c \in Callers, NativeEnds(c) \/ Leave(c) \/ CloseNative(c) \/ Unlink(c)
  PROVE Orphan(o)'
  BY <1>8 DEF NativeEnds, Leave, CloseNative, Unlink, Steps, files, locks
<1>9. ASSUME NEW c \in Callers, Caller(c) \/ Submit(c) \/ StartupTimeout(c) \/ Cancel(c) \/ GiveUp(c)
  PROVE Orphan(o)'
  <2>1. CallerOnly
    BY <1>9 DEF Caller, CloseLooks, CloseCancels, CloseGoesOn, StartupReply, ReadEvents, Check,
      Drain, AssertOwner, TellTurn, Submit, StartupTimeout, Cancel, GiveUp
  <2> QED
    BY <2>1 DEF CallerOnly, files, locks
<1>10. CASE UNCHANGED vars
  BY <1>10 DEF vars, files, locks
<1> QED
  BY <1>2, <1>3, <1>4, <1>5, <1>6, <1>7, <1>8, <1>9, <1>10 DEF Next, Worker, Environment

\* Acceptances and deaths are not undone.
LEMMA LossStays == [Next]_vars => accepter \subseteq accepter' /\ dead \subseteq dead'
<1> SUFFICES ASSUME [Next]_vars PROVE accepter \subseteq accepter' /\ dead \subseteq dead'
  OBVIOUS
<1>1. ASSUME NEW c \in Callers, Worker(c) PROVE accepter \subseteq accepter' /\ dead \subseteq dead'
  BY <1>1 DEF Worker, Claim, Enter, Accept, Startup, Setup, Fork, Save, Run, Emit, NativeEnds,
    Leave, CloseNative, Publish, Unlink, Release, history
<1>2. ASSUME NEW c \in Callers, Caller(c) PROVE accepter \subseteq accepter' /\ dead \subseteq dead'
  BY <1>2 DEF Caller, CloseLooks, CloseCancels, CloseGoesOn, StartupReply, ReadEvents, Check,
    Drain, AssertOwner, TellTurn, CallerOnly, history
<1>3. ASSUME NEW c \in Callers, Environment(c) PROVE accepter \subseteq accepter' /\ dead \subseteq dead'
  BY <1>3 DEF Environment, Submit, StartupTimeout, Cancel, GiveUp, Dies, CallerOnly, history
<1>4. CASE UNCHANGED vars
  BY <1>4 DEF vars, history
<1> QED
  BY <1>1, <1>2, <1>3, <1>4 DEF Next

\* A caller panics over an orphan, and what it had to stop is settled by then.
LEMMA NewPanic ==
  ASSUME IInv, [Next]_vars, NEW d \in Callers, answer'[d] = "panic"
  PROVE  /\ target'[d] = target[d]
         /\ answer[d] = "panic" \/ \E o \in Ops : o \in {Op(d), target[d]} /\ Orphan(o)
<1> DEFINE Goal == /\ target'[d] = target[d]
                   /\ answer[d] = "panic" \/ \E o \in Ops : o \in {Op(d), target[d]} /\ Orphan(o)
<1> Op(d) \in Ops
  BY JobTypes DEF IInv
<1> USE DEF IInv, TypeOK, CallerTypes
<1>1. ASSUME NEW c \in Callers, Worker(c) \/ Dies(c) PROVE Goal
  <2>1. UNCHANGED <<target, answer>>
    BY <1>1 DEF Worker, Dies, Claim, Enter, Accept, Startup, Setup, Fork, Save, Run, Emit,
      NativeEnds, Leave, CloseNative, Publish, Unlink, Release, callers
  <2> QED
    BY <2>1
<1>2. ASSUME NEW c \in Callers, Submit(c) \/ ReadEvents(c) \/ Check(c) \/ Cancel(c) \/ TellTurn(c)
  PROVE Goal
  <2>1. UNCHANGED <<target, answer>>
    BY <1>2 DEF Submit, ReadEvents, Check, Cancel, TellTurn, Goes, Launched
  <2> QED
    BY <2>1
<1>3. ASSUME NEW c \in Callers, CloseLooks(c) PROVE Goal
  <2>1. pc[c] = "look" /\ closed[Session(c)] # "panic"
    BY <1>3, JobTypes, KindsAreApart DEF CloseLooks, FileTypes, KindInv, Outcomes, None
  <2>2. answer[c] # "panic"
    BY <2>1 DEF AnswerInv, None
  <2> QED
    BY <1>3, <2>1, <2>2 DEF CloseLooks, Goes, Launched, Answers
<1>4. ASSUME NEW c \in Callers, CloseCancels(c) PROVE Goal
  BY <1>4 DEF CloseCancels, Answers, KindInv
<1>5. ASSUME NEW c \in Callers, CloseGoesOn(c) PROVE Goal
  BY <1>5 DEF CloseGoesOn, Goes, Launched, Answers
<1>6. ASSUME NEW c \in Callers, StartupReply(c) \/ StartupTimeout(c) PROVE Goal
  BY <1>6 DEF StartupReply, StartupTimeout, NotStarted, Goes, Answers
<1>7. ASSUME NEW c \in Callers, Drain(c) PROVE Goal
  <2>1. Answered(c, result[Op(c)]) # "panic"
    BY JobTypes DEF Answered, FileTypes, Outcomes, None
  <2> QED
    BY <1>7, <2>1 DEF Drain, Answers
<1>8. ASSUME NEW c \in Callers, AssertOwner(c) \/ GiveUp(c) PROVE Goal
  BY <1>8 DEF AssertOwner, GiveUp, Abandoned, Goes, Answers
<1>9. CASE UNCHANGED vars
  BY <1>9 DEF vars, callers
<1> QED
  BY <1>1, <1>2, <1>3, <1>4, <1>5, <1>6, <1>7, <1>8, <1>9 DEF Next, Caller, Environment

\* A panic is evidence of a lost owner.
LEMMA StepPanic == IInv /\ [Next]_vars => PanicMeansLoss'
<1> SUFFICES ASSUME IInv, [Next]_vars, NEW c \in Callers, answer'[c] = "panic"
             PROVE  \E d \in accepter' \cap dead' : Op(d)' \in {Op(c)', target'[c]} /\ Orphan(Op(d))'
  BY DEF PanicMeansLoss
<1>1. PICK o \in Ops : o \in {Op(c), target[c]} /\ Orphan(o) /\ \E d \in accepter \cap dead : Op(d) = o
  <2>1. CASE answer[c] = "panic"
    BY <2>1, JobTypes DEF IInv, PanicMeansLoss, TypeOK, HistoryTypes
  <2>2. CASE \E o \in Ops : o \in {Op(c), target[c]} /\ Orphan(o)
    BY <2>2, KindsAreApart DEF IInv, TypeOK, HistoryTypes, OwnerInv, Orphan
  <2> QED
    BY <2>1, <2>2, NewPanic
<1>2. PICK d \in accepter \cap dead : Op(d) = o
  BY <1>1
<1>3. d \in accepter' \cap dead' /\ d \in Callers
  BY LossStays DEF IInv, TypeOK, HistoryTypes
<1>4. Op(d)' = o /\ Op(c)' = Op(c) /\ target'[c] = target[c]
  BY <1>2, <1>3, JobFixed, NewPanic
<1>5. Orphan(o)'
  BY <1>1, OrphanStays
<1> QED
  BY <1>1, <1>3, <1>4, <1>5 DEF Orphan

-----------------------------------------------------------------------------
(* The invariant holds *)

\* It holds when nothing has been launched.
LEMMA StartIInv == Init => IInv
<1> SUFFICES ASSUME Init PROVE IInv
  OBVIOUS
<1> USE DEF Init, None
<1>1. FileTypes
  BY BoundsAreNumbers DEF FileTypes, Outcomes
<1>2. LockTypes /\ WorkerTypes /\ CallerTypes /\ HistoryTypes
  BY BoundsAreNumbers DEF LockTypes, WorkerTypes, WorkerPlaces, CallerTypes, CallerPlaces, HistoryTypes
<1>3. TypeOK
  BY <1>1, <1>2 DEF TypeOK
<1>4. \A c \in Callers : Op(c) \in Ops
  BY <1>3, JobTypes
<1>5. KindInv /\ SessionInv /\ AnswerInv /\ PanicMeansLoss
  BY DEF KindInv, SessionInv, Holding, Owning, AnswerInv, PanicMeansLoss, Outcomes
<1>6. LeaseInv /\ ProgressInv /\ OwnerInv
  BY <1>4 DEF LeaseInv, ProgressInv, OwnerInv, Owning, Early, Late
<1>7. ConversationInv /\ ClosedInv
  BY <1>4, SessionsAreGiven DEF ConversationInv, ClosedInv, Holding, Owning, Ops
<1> QED
  BY <1>3, <1>5, <1>6, <1>7 DEF IInv

\* Every step keeps it.
LEMMA StepIInv == IInv /\ [Next]_vars => IInv'
BY StepFiles, StepLocks, StepWorkers, StepCallers, StepHistory, StepKind, StepLease, StepProgress,
  StepOwner, StepSession, StepConversation, StepClosed, StepAnswer, StepPanic
  DEF IInv, TypeOK

\* So it always holds.
LEMMA AlwaysIInv == Spec => []IInv
BY StartIInv, StepIInv, PTL DEF Spec

-----------------------------------------------------------------------------
(* What follows from it *)

\* Files, locks, workers, callers and history always have their types.
THEOREM TypeCorrect == Spec => []TypeOK
<1>1. IInv => TypeOK
  BY DEF IInv
<1> QED
  BY <1>1, AlwaysIInv, PTL

\* Whoever uses a session's conversation holds its lock.
LEMMA UsersHoldTheLock ==
  ASSUME IInv, NEW s \in Sessions
  PROVE  Using(s) \subseteq {sessionLease[s]}
BY DEF IInv, SessionInv, Using, Holding, Owning, WorkerPlaces, None

\* No two live workers use a session, as their turn or as the parent of a fork,
\* and all turns of a session run on one native conversation: the locks that
\* Enter and Setup take, and the checkpoint that is saved before the turn.
THEOREM ConversationIsShared == Spec => []OneConversation
<1>1. ASSUME IInv PROVE OneConversation
  <2>1. ASSUME NEW s \in Sessions PROVE Cardinality(Using(s)) <= 1
    <3>1. Using(s) \subseteq {sessionLease[s]}
      BY <1>1, UsersHoldTheLock
    <3>2. Using(s) = {} \/ Using(s) = {sessionLease[s]}
      BY <3>1
    <3>3. Cardinality({}) = 0 /\ Cardinality({sessionLease[s]}) = 1
      BY FS_EmptySet, FS_Singleton
    <3> QED
      BY <3>2, <3>3
  <2>2. \A o \in Turns : ran[o] # None => ran[o] = native[SessionOf[o]]
    BY <1>1 DEF IInv, ConversationInv
  <2> QED
    BY <2>1, <2>2 DEF OneConversation
<1> QED
  BY <1>1, AlwaysIInv, PTL

\* A panic of an observer is always the loss of an owner: some worker that had
\* accepted an operation died.
THEOREM PanicIsLoss == Spec => []PanicMeansLoss
<1>1. IInv => PanicMeansLoss
  BY DEF IInv
<1> QED
  BY <1>1, AlwaysIInv, PTL

\* Whoever has a turn's result has all its events: the worker appends them before
\* it writes the result, and Wait reads them once more after it saw the result.
THEOREM NoEventMissed == Spec => []EventsComplete
<1>1. IInv => EventsComplete
  BY DEF IInv, AnswerInv, EventsComplete
<1> QED
  BY <1>1, AlwaysIInv, PTL

\* After a successful close the session stays closed and no turn runs on it.
THEOREM ClosedForGood == Spec => []CloseIsFinal
<1>1. IInv => CloseIsFinal
  BY DEF IInv, ClosedInv, CloseIsFinal, Holding, Owning, WorkerPlaces, None
<1> QED
  BY <1>1, AlwaysIInv, PTL

-----------------------------------------------------------------------------
(* Executor implements Operation *)

\* Only Accept, Run and Publish change what Operation sees.
LEMMA AgreedFrame ==
  ASSUME [Next]_vars
  PROVE  \/ UNCHANGED <<request, result, starts>>
         \/ \E c \in Callers : Accept(c) \/ Run(c) \/ Publish(c)
<1>1. ASSUME NEW c \in Callers, Claim(c) \/ Enter(c) \/ Startup(c) \/ Setup(c) \/ Fork(c) \/ Save(c)
  \/ Emit(c)
  PROVE UNCHANGED <<request, result, starts>>
  BY <1>1 DEF Claim, Ends, New, AfterClaim, files, callers, history, Enter, Startup, locks, Setup,
    Steps, Fails, ParentIdle, Fork, Save, Emit, workers
<1>2. ASSUME NEW c \in Callers, NativeEnds(c) \/ Leave(c) \/ CloseNative(c) \/ Unlink(c) \/
  Release(c) \/ Dies(c) \/ Submit(c)
  PROVE UNCHANGED <<request, result, starts>>
  BY <1>2 DEF NativeEnds, Steps, files, locks, callers, history, Leave, Saved, CloseNative, Closure,
    Unlink, Release, Ends, Dies, Submit, Goes, Launched, CallerOnly
<1>3. ASSUME NEW c \in Callers, CloseLooks(c) \/ CloseCancels(c) \/ CloseGoesOn(c) \/
  StartupReply(c) \/ StartupTimeout(c) \/ ReadEvents(c) \/ Check(c)
  PROVE UNCHANGED <<request, result, starts>>
  BY <1>3 DEF CloseLooks, Goes, Launched, Answers, CallerOnly, files, locks, history, CloseCancels,
    Stopped, CloseGoesOn, StartupReply, NotStarted, workers, StartupTimeout, ReadEvents, Check
<1>4. ASSUME NEW c \in Callers, Drain(c) \/ AssertOwner(c) \/ Cancel(c) \/ TellTurn(c) \/ GiveUp(c)
  PROVE UNCHANGED <<request, result, starts>>
  BY <1>4 DEF Drain, Answers, Answered, CallerOnly, files, locks, workers, history, AssertOwner,
    Goes, Abandoned, Cancel, TellTurn, Stopped, GiveUp
<1> QED
  BY <1>1, <1>2, <1>3, <1>4 DEF Next, Worker, Caller, Environment, vars, files, history

\* The inputs are recorded once: the owner of an operation without a request
\* writes it.
LEMMA AcceptAgrees ==
  ASSUME IInv, NEW c \in Callers, Accept(c)
  PROVE  Agreed!Next
<1>1. Op(c) \in Ops /\ Input(c) \in Inputs
  BY JobTypes DEF IInv
<1>2. request[Op(c)] = None
  BY DEF IInv, ProgressInv, Accept
<1>3. request' = [request EXCEPT ![Op(c)] = Input(c)] /\ UNCHANGED <<result, starts>>
  BY DEF Accept
<1>4. Agreed!Accept(Op(c), Input(c))
  BY <1>2, <1>3 DEF Agreed!Accept
<1> QED
  BY <1>1, <1>4 DEF Agreed!Next

\* Native work starts at most once, after the acceptance and before the result.
LEMMA RunAgrees ==
  ASSUME IInv, NEW c \in Callers, Run(c)
  PROVE  Agreed!Next
<1>1. Op(c) \in Ops
  BY JobTypes DEF IInv
<1>2. request[Op(c)] # None /\ result[Op(c)] = None /\ starts[Op(c)] = {}
  BY DEF IInv, ProgressInv, Run, Owning, Late, Early, WorkerPlaces, None
<1>3. starts' = [starts EXCEPT ![Op(c)] = {c}] /\ UNCHANGED <<request, result>>
  BY <1>2 DEF Run, files
<1>4. starts \in [Ops -> SUBSET Callers]
  BY DEF IInv, TypeOK, HistoryTypes
<1>5. Cardinality({}) = 0 /\ Cardinality({c}) = 1
  BY FS_EmptySet, FS_Singleton
<1> DEFINE begun == [o \in Ops |-> Cardinality(starts[o])]
<1>6. begun[Op(c)] = 0
  BY <1>1, <1>2, <1>5
<1>7. begun' = [begun EXCEPT ![Op(c)] = 1]
  BY <1>1, <1>3, <1>4, <1>5
<1>8. Agreed!Begin(Op(c))
  BY <1>2, <1>3, <1>6, <1>7 DEF Agreed!Begin
<1> QED
  BY <1>1, <1>8 DEF Agreed!Next

\* The result is final: its owner finds none and leaves one.
LEMMA PublishAgrees ==
  ASSUME IInv, NEW c \in Callers, Publish(c)
  PROVE  Agreed!Next
<1>1. Op(c) \in Ops /\ outcome[c] \in Outcomes
  BY JobTypes DEF IInv, TypeOK, WorkerTypes, KindInv, Publish
<1>2. request[Op(c)] # None /\ result[Op(c)] = None
  BY DEF IInv, ProgressInv, Publish, Owning, Late, WorkerPlaces, None
<1>3. result' = [result EXCEPT ![Op(c)] = outcome[c]] /\ UNCHANGED <<request, starts>>
  BY DEF Publish, history
<1>4. Agreed!End(Op(c), outcome[c])
  BY <1>2, <1>3 DEF Agreed!End
<1> QED
  BY <1>1, <1>4 DEF Agreed!Next

\* Whoever submits an operation again and whoever dies: it is accepted once, its
\* native work starts at most once, it has one final result, and an operation
\* whose owner is lost is never run again.
THEOREM Implements == Spec => ImplementsOperation
<1>1. Init => Agreed!Init
  BY FS_EmptySet DEF Init, Agreed!Init
<1>2. ASSUME IInv, [Next]_vars PROVE [Agreed!Next]_Agreed!operationVars
  BY <1>2, AgreedFrame, AcceptAgrees, RunAgrees, PublishAgrees DEF Agreed!operationVars
<1> QED
  BY <1>1, <1>2, AlwaysIInv, PTL DEF Spec, ImplementsOperation, Agreed!Spec
=============================================================================
