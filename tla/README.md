# Verification of gimbal's workflow engine

gimbal runs workflows written as ordinary Go functions.  A workflow opens scopes,
creates agent sessions, asks them for typed results, runs commands and talks to
humans.  Everything it does is recorded in a journal, and when the process dies
the same function is entered again with the same run ID: what was recorded is
answered from the journal, the rest goes on.  This directory models the parts
that have to get that right, from the journal up to the scopes of a workflow,
and the executors and the daemon that do its work in other processes, checks them
with TLC and proves, with TLAPS, the safety of the run store, the sessions, the
conversations, the scopes, the executors and the daemon.

## 1. The system

| component | state | operations | talks to |
|---|---|---|---|
| **run store** `runstore/directory` | segment files, the ready marker, the lock; in memory the records, what is committed, the backlog, the poison error | Create, Open, Append, EnsureNode, Flush, Close, the 250 ms timer | the file system; every component above it |
| **sessions** `session.go` | native session, running turn, turn and generation counters, create error, closed | NewSession, Generate, Fork, Steer, create, adoptNative, stopNative | the harness adapter; the journal; the scope that owns it |
| **recording and replay** `run_recording.go`, `replay.go`, `event_persistence.go` | the facts read at entry, the first recording error | recordFact, prepareAction, finishAction, outcome, hasFact | the run store |
| **scopes** `scope.go` | ended, ctx, owned sessions, services, values, child scopes, queued messages | begin, adopt, end, finish | sessions, services, loops |
| **runs** `run.go` | live scopes and turns, the root cancellation, the aggregate close error | Run, CancelScope, CancelTurn, Steer by id, finish | all of the above, operators |
| **interactive generations** `interactive.go` | accepted inputs with dispositions, an interactionState per occurrence, the owner of each address | Interactive, SubmitInteractive, CancelTurn's Stop, closeInteractionInputs | sessions, the journal, humans |
| **planner loops** `loop.go`, **groups and iteration** `group.go`, `iterate.go` | tasks, queued messages, children | Tasks, SteerLoop, Go, Wait, Iterate | scopes, sessions |
| **services, commands, supervision** `service*.go`, `command.go`, `supervise*.go` | processes and how they ended, spooled output, looks | Service, RunCommand, Check, supervise | scopes, sessions |
| **executors** `internal/executor`, `internal/agentexecutor`, `internal/commandexecutor` | request, result, event and checkpoint files, a lock per operation and per session, worker processes | Launch, Claim, Accept, run, Wait, Cancel, Close | the daemon, commands, harness adapters |
| **task daemon, effects client** `internal/taskdaemon`, `internal/effects`, `remote_execution.go` | sessions, tasks, messages and controls, in memory and in its state directory | turn, process, interrupt, steer, close, cleanup, messages, restore; Call, Wait, ConfirmStarted, Await | executors, scopes |
| **messaging, orchestration, secrets, environments** `backend/...`, `internal/environments` | queued messages, claims, stores | send, acknowledge, claim, release | executors |
| **hosting, conversations, observation** `internal/host`, `internal/conversation`, `internal/observation` | saved invocations, requests, projections | re-enter at startup, start, archive | runs |
| adapters, built-in agent, web, code generation, command line | their own protocols | | outside the engine |

`PROJECT.json` lists them all with what is and is not modelled.

What is hard here is what no unit test reaches: a flush that syncs without the
lock while appends go on; a death, or a power loss, at any step between an
intent, the native call and its outcome; a creation that returns after the
teardown; a steer in flight while its turn returns; an input accepted between the
owner's look at its queue and its wait; a stop that races the answer; a service
that exits while it is stopped; a worker that dies between accepting an operation
and doing it; a daemon that restarts between saving a task and launching it.  The
hazards in `PROJECT.json` name these at their lines.  Correct means:

- the **store** never takes back what a reader saw or an appender was promised,
  always accepts what it wrote, and lets nobody wait for ever;
- a **session** never calls the harness without a recorded intent, never repeats
  a completed call, releases every native session once, and gives a re-entered
  workflow the results it had (which it does not always: section 6);
- a **conversation** delivers each message one way, starts nothing after a
  Finish, drops no answer, and leaves no accepted input unaccounted for;
- a **scope** ends when it is cancelled, takes every service down with it, in
  order, reports what failed, and does not let one killed task end a loop;
- an **executor** accepts an operation once, starts it once and gives it one
  result, whoever submits it again and whoever dies;
- the **daemon** does nothing twice, whoever calls again and however often it
  restarts, never reports a success or a cancellation that did not happen, and
  answers every call.

## 2. Plan

1. `Journal`, `RunStore`, `RunStoreProofs`: done.
2. `Session`, `SessionProofs`, `SessionNativeProofs`, `SessionConversationProofs`: done;
   `ReplayAgrees` stays model-checked (section 5).  `Interactive`, `InteractiveProofs`: done.
3. `Scopes` (scopes, groups, iteration, planner loops, services), `ScopesProofs`: done.
4. `Operation`, `Executor`, `TaskDaemon` (executors, daemon, effects client) with
   `ExecutorProofs` and `TaskDaemonProofs`: done.
5. Not begun: the file store under the daemon's messages, orchestration and secrets
   (claims and their release), conversations and hosting (re-entry at startup).

`Session` and `Interactive` use a journal as one atomic sequence; `Journal` is the
contract they rely on and the one `RunStore` is shown to implement.  In the same
way `Operation` is the contract `Executor` implements, and `TaskDaemon` is built on
the actions of `Operation`, not on those of `Executor`.

## 3. The models

### RunStore and Journal

`RunStore` models `runstore/directory/directory.go`.  `disk`, `tail`, `segs`,
`stable` and `dirStable` are the files and what survives a power loss; `log`,
`committed`, `pending`, `poison` and `synced` are the handle; `fl` is the flush
that holds `flushMu`.  One action per critical section: `CallAppend`, `Block`
(waiting for room), `Install` or `InstallFailed` (validate, write, install under
`mu`), then `FlushBegin` (snapshot under `mu`), `SyncFile` per file without `mu`,
`FlushEnd` or `FlushFailed`.  `Create`, `Open` with its truncation of a torn frame
and its own first flush, the timer, `Close` (mark, join the timer, last flush,
unlock), `Die` at any point, also inside a write, and `LosePower`, which keeps any
prefix of what was not stable.  A failed write, of an Append or of EnsureNode's
node, leaves the handle poisoned.
`published` is the longest prefix a Read could have returned.

`Journal` is the contract of `runstore.Run`: what readers see only grows, no record
ID or unique key twice, acknowledged facts are in it.

### Session

`Session` models session.go with the parts of scope.go, run.go, run_recording.go
and replay.go it calls.  Callers are goroutines of the workflow body; `pc` follows
one call through Generate, create or Fork with a step at every point where a lock
is dropped, a fact is appended or the adapter is called.  The journal keeps the
facts that are read back (intent, outcome, native-binding, SessionClosed,
RunEnded); an Append may fail and may then have left its fact or not.  `Reenter`
is the death of the process and the entry of the next, which sees the first
`loaded` facts as `r.replay`.  What is read back is read by place: `SavedOutcomes`,
`Bindings` and `Failing` are sets of places of the journal and `Latest` the last of
one, so that no definition folds over the journal.  `sent` and `returned` are histories of native calls
and of results.  The adapter's answers are constants: valid, undecodable, invalid,
error, the retried provider error, cancelled, uncertain; for creation valid,
rejected, failed, uncertain.  Teardown (`CloseMark`, `CloseStop`, `CloseEvent`)
runs beside the callers, as `context.AfterFunc` makes it.

### Interactive

`Interactive` models interactive.go with the parts of session.go it uses.  The
workflow calls Interactive again after an agent end and returns after a human end
or an error.  `order` and `disp` are the inbox, `saved` the committed
interactionState of each occurrence, `state` the loop's copy, `queue` the inputs
the loop read before it started steering.  What pendingInput and the loops over it
return are sets of inputs here; their order is that of `order`, so `First` is the
input a loop takes next and `InOrder` the sequence it appends to a transcript.  `Accept` is `acceptInput` (also for the
Stop of CancelTurn); the owner is idle (`TakeFinish`, `Park`, `TakeStop`,
`TakeConfigure`, `StartTurn`), or has a turn (`LookRunning`, `Assign`,
`SteerBegin`, `SteerEnd`), or settles it (`SettleInput`, a commit of its own, then
`Settle`, `SettleUnresolved` or `SettleFailed`).  The generation beside it goes
begun, running, native, returned, done.  `Locked` says where `interactionMu` is
held across steps.  `CloseInputs` marks what is left when the scope ends.
`Reenter` is a death, perhaps inside the adapter's Steer.

The session under it is one turn per message: `restoreInteraction` gives a turn its
position back, and retries are `Session`'s subject.  A commit succeeds or the
process dies: after a failed commit the store refuses everything, which leaves the
same journal.

### Scopes

`Scopes` models the tree of scopes of a run: scope.go with group.go, iterate.go,
loop.go, service.go, the cancellations of run.go and command.go's wait.  A shape
(`tree`) gives every scope its parent, its kind (nested, item, group, task, loop),
the calls its body makes and the services it starts; `MCScopes` has four.  `at`
follows each body through `Open`, `Begin`, its calls, `Return` and `Finish`; `tear`
follows `stopOwnedWork`, which runs in the AfterFunc of the scope's ctx beside it:
mark ended, end the children, remote cleanup, stop the services in reverse, release
`finish`.  A child is in its parent's list from `Attach` on but has a ctx only from
`Begin` on.  Errors are sets of what errors.Is can find in them, so that
errors.Join is a union; what a killed child returns depends on the call it was in.
For a service, `proc` is the process, `wait` its wait goroutine (`Classify` and
`Report` under the service's lock) and `stop` the stop; it may exit by itself at
any step, starting it may fail before there is a process, and stopping it may fail.
An operator kills a scope or sends a message to
a planner at any step; `record` is what the Steer records of a loop say of a message.

### Operation and Executor

`Operation` is what README.md of the repository promises of the independent
executors: an operation is accepted once with one input, native work begins at most
once and only then, and it ends with one result.

`Executor` models the processes that keep it.  A caller launches a worker
(`Submit`), which takes the operation's lock or leaves (`Claim`), takes its
session's lock for a turn, fork or close (`Enter`), writes the request (`Accept`),
tells its caller (`Startup`), prepares the native session (`Setup`, `Fork`, `Save`),
runs (`Run`, `Emit`, `NativeEnds`), publishes the result and releases its locks, in
that order, one file or lock per step, and may die at each.  The caller waits for
the startup reply or gives up after two minutes, reads events and result by polling
and asks whether the owner is alive (`AssertOwner`, which panics when the operation
is accepted, unlocked and without a result).  A close first cancels the active
operation.  `Plans` is what the two callers submit: the same operation twice, with the
same or other input, or two operations that meet on a session.  Two closes under
different identities may both be admitted, and the second writes closed.json again
(agent.go:682, session.go:850, daemon.go:423): an "ok" there may become "error", but
a session once closed stays closed, which is what `CloseIsFinal` says.

### TaskDaemon

`TaskDaemon` models the daemon between a scope's calls and the executors.  The
executors are `accepted`, `begun`, `outcome`, moved by the actions of `Operation`; a
worker may be lost.  `task`, `session`, `closed` and the rest of the memory go with
`Dies`; `savedTask`, `savedSession`, `disposition` and `control` are the state
directory, which `Restart` reads as `restore` does.  A turn is admitted and saved,
then launched, then observed (`AdmitTurn`, `Launch`, `Observe`, `Complete`); a
command is submitted while the daemon's lock is held and saved after that
(`SubmitCommand`, `AdmitCommand`); a turn by message has a disposition and a published
event (`FirstDelivery`, `Redelivery`, `Settle`).  A save may fail.  A close of the
session may be cut in two by a death (`DiesClosing`).  The scope's side is effects:
`Send`, `ReplyLost`, `Confirm` (ConfirmStarted), `Poll`, `Interrupt`, `StopTimeout`
(the bounded wait after a cancellation), `Await` for messages, then closing the session
and cleanup, which may begin while callers still wait.

The same work reaches the daemon again in two ways.  `ReEnter` is a workflow that dies
in the scope's body and is entered again: identities come from the journal's nodes, so
what it has no outcome of is sent again under its old identity (command.go:185-235),
while calls of the entry before may still be on their way; `inFlight` therefore carries
the entry, `Answer` is `existingTask` for a task the daemon knows, and a task it does not
know is admitted again.  For a command that can happen after it was submitted, because
process.go:104 submits and :120 saves: then a second submission reaches the executor,
and that the command still runs once is the executor's doing (`Operation`, checked and
proved of `Executor`).  What the daemon itself keeps is `SavedNotResubmitted`.
`Redelivery` is a message that comes again, sent again by the re-entered workflow or read
again by a transport that restarts; it is possible, never certain.

## 4. The runs

| run | shows |
|---|---|
| `store_safety` | the safety properties of the store and the refinement of `Journal` |
| `store_progress` | `AppendReturns`, `CloseEnds` with a backlog limit of one |
| `session_shared` | two goroutines, one session: creation, turns, steers, kills and teardown interleave; a cancelled run ends |
| `session_fork` | a fork that returns during the teardown |
| `session_restart` | a death at every step and a store that may fail at any Append; replayed verdicts stay the same |
| `interactive` | two messages, a Stop, a Finish, a model change, one death or cancellation, every answer of turn and steer |
| `scopes` | four shapes of workflow with services, failing calls, kills and messages; every cancelled scope ends |
| `executor` | two callers, turns, a fork, two closes and a command, a death and a cancellation; the refinement of `Operation`; every caller is answered |
| `daemon` | a turn, a command or a turn by message with two faults and a re-entered workflow; every call is answered |
| `session_resolved`, `killed_child`, `daemon_restore` | disagreements of section 6 |

**Bounds.**  `store_safety`: two appenders and the timer are the three parties that
can meet a flush; three batches give a repeated fact, a batch that repeats part of
another and two rival outcomes; segments of two frames, four frames and a backlog
of two make a flush span two files, a second file begin during a flush, and an appender wait;
one death or power loss puts every state before a re-open.  `store_progress` uses a
limit of one so that every second Append waits.  `session_shared`: a third
Generate per session adds only repetitions, and the safety properties also hold
with three (3.3 million states).  `session_restart`: one re-entry, since the second
process starts from whatever journal the first left; two Generates, so that the second
is numbered by what the first did; a retried provider error, an unresolved turn, and
creations that fail (2.4 million states).  `session_resolved` has two re-entries, since
an unresolved outcome of the first process, resolved by the second, is read by the third.
Without failing Appends `ReplayAgrees` also holds with every answer of turn and creation
and an operator's kill for one Generate over two re-entries and for two over one, and
with `valid`, `protocol`, `undecodable` and `uncertain` for two over two.  `interactive`: at most
three of the five inputs in a behaviour and one fault; the safety properties also
hold with all five inputs and two faults (9.5 million states).  Two messages are
needed, one to prompt a turn and one to steer into it, and two occurrences share
the inbox.  `scopes`: two siblings are what a group, a loop or an iteration needs to
disturb one another; two services show the order of stopping, in one scope and in
nested ones; one kill reaches every scope at every step, next to failures that
cancel on their own.  `executor`: two workers can meet on an operation or on a
session, and nothing in the protocol counts them; one death leaves every
intermediate state of the files to the other worker.  `daemon`: two faults are a
death and a second one, or a failed save and the death after it; a third changes no
more than the second, since a restored daemon starts from the files alone.  One
re-entry makes every call and message come twice, at every state of its task.  The three
bodies have one task each (1.2 million states): tasks meet only in the daemon's lock,
which is one step except while a command is submitted, and in the cleanup.  The safety
theorems hold for bodies of any tasks; `EveryTaskAnswered` and `CleanupStopsTurns` also
hold with `Bodies = {{"t", "k"}}` and no fault or re-entry (351,040 states).  The type
invariants of `Session`, `Interactive`, `Scopes`, `Executor` and `TaskDaemon` hold within the
same bounds, as do `UncertainEndsWithItsTurn`, `UncertainCreationHolds` (one
process) and the store's proved `AcknowledgedIsPublished` and `OpenAccepts`; adding
them to a cfg only costs time.

Deadlock is not checked for the store and for conversations: a store nobody uses
and an owner that waits for a human may stop.

**Fairness.**  Goroutines go on.  A native turn or creation is certain to return
only once its ctx is done, as harness.go demands of adapters; the adapter's Steer
returns.  Strong fairness stands for Go's mutexes, which hand over to a starving
waiter, and for the select between the timer's tick and its stop.  Nothing forces
a human to write, a caller to Append or Close, or a write to fail.  In `Scopes`
the bodies, teardowns and wait goroutines go on, and a call returns once its ctx is
done; nothing obliges a service to exit, an operator to kill or a body to return.
In `Executor` workers and callers go on until they die; in `TaskDaemon` executors,
daemon and scope do, and nothing obliges a dead daemon to be restarted: a call then
fails and a message waits.  Nor does anything oblige a message to be delivered, or
delivered again after its result was not saved or its completion not published
(messaging.go:234-236): the transports of the repository decline to
(messaging-river/main.go:145-147, messaging-filesystem/main.go:87,
messaging-http/main.go:216-260).  `EveryTaskAnswered` is therefore about calls, and about
messages whose completion reached the bus; other messages may wait for ever.

**Properties worth knowing.**  `ImageIsDisk`: an Open that does not cut a torn frame off
appends behind it.  `CommittedIsStable`: counting bytes or records at
the end of a flush instead of its beginning would commit what was never synced.
`BacklogIsExact`: the same for the backlog.  `ReleasedOnce`: late admission and
teardown agree on who closes.  `SteerSettlesFirst`: why
`deliveryMu` exists.  `RepeatIsAnnounced`: a turn that may have run is only sent
again with the adapter told so.  `AssignedOnce`: prompt or steer, never both, over
deaths.  `ReplyIsKept`: a Stop that loses the race against the answer does not discard it.
`ControlsTakeEffect`: no lost wakeup.  `ServiceFailureSurfaces`: an exit seen before
the stop stays a failure.  `ServicesStopLast`: no child scope or later service loses
a service it may use.  `CancelledScopesEnd`: teardown, join, stop and the calls never
wait for each other in a circle.  `PanicMeansLoss`: looking at lock and result one
after the other never takes a finished worker for a lost one.  `CloseIsFinal`: a turn
launched before a close and admitted after it does not run, also when a second close
follows.  `ReplayAgrees`: a Generate that is replayed says what it said before, unless its
session had an answer refused as invalid, a turn killed, an outcome unresolved or a creation fail by
then (`Astray`), which are the cases of section 6.  `ResultsReused` has no exceptions and
is refuted.  `NothingTwice`: turns, outcomes of messages and steers, over restarts,
redeliveries and calls that come again.  `SavedNotResubmitted`: the same of commands,
once they are saved.  `AnswersAreTrue`: a timeout is never
reported as a cancellation.

Every property has a mutant of the code it is about, an operator next to the
definition it changes, under which TLC finds the property violated.

## 5. The proofs

Each proof module holds one inductive invariant `IInv`, a lemma per conjunct that
every step keeps it, and the theorems that follow.  A lemma has a step per action
that can disturb its conjunct; the other actions are shown once to leave its
variables alone.  The bounds on stops, deaths and faults are any numbers in the
theorems, and the sets of callers, operations, sessions and answers are arbitrary.

### RunStoreProofs

`RunStoreProofs` proves, for any goroutines, batches and limits and any number of
deaths and power losses: `Typing`, `CommittedFramesAreStable`, `ReadsStay`,
`AcknowledgedFactsStay`, `OpenAcceptsWhatAppendWrote`, `MemoryImageIsDisk` (`ImageIsDisk`),
`BacklogStaysExact`, and `StoreImplementsJournal`, that every step of the store is
a step of `Journal` or leaves it unchanged.

Assumptions: the goroutines are distinct (`ThreadsDistinct`), the limits are
positive numbers (`BoundsAreNat`), and no batch is empty or carries a
node-created fact (`BatchesAreFacts`), which only EnsureNode writes.

None of the properties is inductive alone.  `IInv` adds: an unborn run has left
nothing (`FreshInv`); which goroutine can be inside which handle (`CallsInv`);
segments fill in order (`SegmentsInv`); every frame a running flush will commit is
in a file it covers, and in stable storage once that file was synced (`FlushInv`),
which is what makes `CommittedIsStable` survive a flush without the lock; committed
frames are published and their directory entries synced (`CommitInv`); published
frames are stable (`PublishedInv`), so no power loss takes them; the batch of a
goroutine that flushes is on disk within the flush's snapshot (`BatchInv`), so what
it acknowledges is published; a flush subtracts what it commits (`BacklogInv`).
One lemma per conjunct shows that every step keeps it; `Waits` groups the steps
that move only a goroutine, `WriteFrameEffect`, `PartWriteEffect` and
`LosePowerEffect` say once what those steps do.

### SessionProofs

Proved: `TypeCorrect`, `IntentIsFirst` (`IntentFirst`), `SettledIsNotRepeated`
(`CompletedNotRepeated`), `RepeatsAreAnnounced` (`RepeatIsAnnounced`) and
`SteersSettleFirst` (`SteerSettlesFirst`), for any goroutines and forks, any subset of
the adapter's answers, with and without failing Appends, over any number of
re-entries.  Assumptions: the answers are among those harness.go defines
(`AnswersAreKnown`), the switches are switches (`FlagsAreKnown`), the limits are
numbers (`AttemptsAreNat`), the main session is not a fork (`MainIsNoBranch`).

That a settled call is not repeated spans processes: the call was made by one, its
outcome is read by another, and in between any Append may have failed or left its
fact.  The invariant says where each is.  An intent is in the journal before its call
(`IntentInv`), and a call of an earlier process has its intent in the part that this
process loaded (`SentInv`), so it finds it and sets reconstructing.  An outcome that
settles is its node's last (`LastInv`), so looking at the latest one is enough.
Outcomes this process wrote belong to ordinals it has counted (`CountedInv`), so an
ordinal that is handed out anew and has no loaded outcome is unsettled; a create or a
turn under way is counted and unsettled (`FreshInv`), and no two goroutines are on the
same one (`ApartInv`).  A session whose steer is on its way has a running turn, whose
caller has not recorded its outcome (`RunningInv`).  `CallInv` says what a caller's
place means for its nodes, `CloseInv` the same of the teardown, and `JournalInv` that a
recorded native session exists, which a re-entry relies on.

### SessionNativeProofs

Proved: `NativesAreReleased`, that `ReleasedOnce` holds as long as no process has died,
under the assumptions of `SessionProofs`, for any goroutines, forks, answers and
failures.  The hypothesis is the code's: after a re-entry the property is refuted
(section 6), because a SessionClosed of an earlier process suppresses the close.

First, for any process, who may write a session's native session: who makes a session
is alone with it, and who creates its native session is alone in a turn of it, although
running is cleared twice (`AloneInv`); so whoever opens a native session finds none, and
a turn has one (`NativeInv`, `BornInv`).  Then, for the first process, who closes: the
sessions the teardown has still to mark are exactly the open ones, each once
(`UnmarkedInv`); every native session is with the call that opened it or with exactly
one session (`HeldInv`); that of a session that is marked closed was closed once, unless
the teardown or a call that came late is about to close it, never both (`ReleaseInv`).
When Run returns the body has joined its goroutines and the teardown is over
(`JoinInv`), so nobody is about to.

### SessionConversationProofs

Proved: `MainConversationSurvives`, that over any number of re-entries all turns of the
session NewSession makes go to one native session, whatever is forked from it, fails or
is cancelled; and from it `ConversationSurvives`, that `ResumesConversation` holds of
runs without forks (`Branches = {}`).  A fork has no such promise (section 6).

The argument is about what the journal says.  A creation whose outcomes are all valid
names its native session to every later process, one that was answered otherwise is
passed over by all of them, and a creation is only answered when all before it were
passed over (`OrderInv`); so there is at most one `Conversation`, the session that was
bound or the first that was made.  All bindings name one native session, and a process
whose session has none restores it (`BindingInv`).  The one who creates knows that there
is no binding, that all earlier creations were passed over unless it will not be
admitted, and what was recorded of its own answer (`CreatorInv`); before that answer
nothing was said (`NothingSaid`), so it cannot contradict an earlier one.  A session with
a native session has that of the conversation, or is not used any more because a
recording or a creation failed or it was closed (`MainInv`), so a turn is only sent to it
(`TurnInv`, `SentToInv`).  `CalmStep` covers the steps that leave all this alone.

### InteractiveProofs

Proved: `TypeCorrect`, `MessagesAreAssignedOnce` (`AssignedOnce`), `FinishStopsTurns`
(`FinishPreventsTurns`), `TranscriptsAreInOrder` (`TranscriptInOrder`), `NothingIsLost`
(`NothingLost`), `RepliesAreKept` (`ReplyIsKept`) and `DoubtEndsTheInteraction`
(`UncertainEndsWithItsTurn`), for any sets of messages, controls and answers, any number
of inputs, occurrences, deaths and cancellations.  Assumptions: answers are among those
the code distinguishes and the bounds are numbers (`AnswersAreKnown`), an input is of one
kind (`InputsAreApart`).

The argument is about what a commit may do.  Every action that commits an
interactionState is shown once (`EveryCommit`) to consume only pending inputs, to change
the active input and the transcript only in one of a few ways (`Takes`, `Sound`), and to
leave the other occurrences alone; the parts of the invariant are then shown to survive
any such commit.  Those parts: an input is consumed by one occurrence (`ConsumedInv`) and
occurrences are used up in order, an unfinished one being the last (`OccurrenceInv`); the
loop's copy is the committed state, or differs from it only in the ways that
`SettleInput` leaves behind (`StateInv`); a turn under way belongs to the active input
(`TurnInv`) and its answer is the recorded outcome (`AnswerInv`), so a repeated turn
gives the same reply; what the owner still has to look at is pending (`QueueInv`); a
message that was or may have been steered is no longer pending and was never prompted
(`SteeredInv`), only messages are ever in doubt (`ControlInv`), and one in doubt keeps
its occurrence from being over (`DoubtInv`); a Finish is the last input (`FinishInv`);
after the scope's end nothing is left open (`ClosedInv`); an input that is let go has its
reply shown (`ReplyInv`); a transcript shows consumed messages only, each before its
reply (`TranscriptInv`).

### ScopesProofs

Proved: `TypeCorrect`, `FailuresSurface` (`ServiceFailureSurfaces`), `ServicesEnd`
(`NoServiceOutlivesScope`), `StopOrder` (`ServicesStopLast`), `LoopsSurvive`
(`KilledTaskSparesLoop`) and `MessagesAreRecorded` (`MessageRecorded`), for any shape of
workflow, any services and messages and any number of kills.  Assumptions: the shapes are
trees in which a loop holds tasks and a group plain scopes, which is all that Tasks and Go
open (`TreesAreTrees`; it gives the ancestors of a scope, so that no proof needs an
induction over the tree), and the bound is a number and Root a scope
(`BoundsAreNumbers`).

The order of teardown is the hard part, because a scope can be opened, begun and given
services while what encloses it is being torn down.  Bodies nest: the parent of a scope at
work is in the call that opened it (`BodyInv`).  A teardown cancels what was begun, and
what it meets before that was met by the parent's teardown (`TearInv`), so a scope begins
with a ctx that is done or with a parent that is alive.  A scope is among its parent's
children unless the parent had ended by then (`ChildInv`).  Call a scope linked if this
holds all the way up: then every teardown above comes by it.  A scope whose ctx is not
done is linked, and so is every scope that has started a service (`LinkInv`), because
Service asks ctx.Err() first.  A teardown that has come to its own services has torn down
everything linked below (`InsideFirst`): a new link is made only under a parent that is
alive, by scope.child, and a scope without a place in the tree has nothing below.

Of services: a body is in one Service call at a time (`CallInv`), a scope has its own
services and each once (`AdoptInv`), a wait classifies before it reports and is done
before a stop succeeds (`ProcessInv`), a refused service is stopped by its own call
(`RefusedInv`), the adopted ones by the teardown in order (`StopInv`), and finish finds
what they left behind (`EndInv`).  A loop whose error has a kill has a ctx that is done
(`KillInv`); a message waits in the queue of a loop that has not ended (`MessageInv`).

### ExecutorProofs

Proved: `TypeCorrect`, `Implements` (`ImplementsOperation`), `ConversationIsShared`
(`OneConversation`), `PanicIsLoss` (`PanicMeansLoss`), `NoEventMissed`
(`EventsComplete`) and `ClosedForGood` (`CloseIsFinal`).  Assumptions: operations of
different kinds are different (`KindsAreApart`), every turn, fork and close has a session,
a fork's session has a parent and plans submit known operations (`SessionsAreGiven`),
the bounds are numbers (`BoundsAreNumbers`).

The locks carry the argument.  An operation's lock is held by the worker that is
between its claim and its release and by nobody else (`LeaseInv`), so how far its files
are is known from where that worker is (`ProgressInv`): no request before acceptance,
no start before the run, no result before publication.  With this every step that
writes a request, a start or a result is the step of `Operation` it should be.  An
accepted operation has a result, a living owner or a dead one (`OwnerInv`); an orphan
stays one, since a claim only takes what was never accepted (`OrphanStays`).  A
session's lock is held by whoever works on it or forks from it (`SessionInv`), so the
checkpoint is written once and turns run on it (`ConversationInv`), and after a close
nobody is past the admission (`ClosedInv`).  `AnswerInv` follows the observer: it drains
only when the result is there, and events come before the result.

### TaskDaemonProofs

Proved: `TypeCorrect`, `OnceOnly` (`NothingTwice`), `SubmittedOnce`
(`SavedNotResubmitted`), `TrueAnswers` (`AnswersAreTrue`) and `CleanupIsComplete`
(`CleanupStopsTurns`), for any tasks, any number of re-entries and any number of faults.  Assumptions: turns and commands are
different tasks and messages are turns (`TasksAreApart`), bodies consist of tasks and
steers and the bounds are numbers (`BodiesAndBounds`).

While the daemon is up its memory and its state directory agree on which tasks exist,
and a saved outcome is the task's (`RecordInv`).  A turn is launched only after it was
saved and while it is admitted, which a restored or repeated turn never is again
(`LaunchInv`); a command is submitted only while the daemon does not know it, so not once
it is saved; a message is settled and published, and a steer applied, once
(`MessageInv`, `SteerInv`).  "ok" in any place is the executor's outcome, and
"cancelled" in a saved task is the executor's or that of a turn never launched
(`TruthInv`).  Once the native session is closed no turn is at work, and a cleanup
without error has closed it (`CleanupInv`), also when a restarted daemon does it.

### Only model-checked

Liveness of all modules, which is out of this prover's reach.  `ReplayAgrees` of
`Session`, which compares what two processes computed from one journal attempt by
attempt, an induction over the attempts of a Generate.  `ReleasedOnce` is
proved for the first process of a run and `ResumesConversation` without forks, which is
where they hold and where the runs check them.

## 6. Where code and words disagree

Three are runs with their counterexamples:

- `session_resolved`: the outcome that resolves an unresolved turn is unmarshalled over
  it (replay.go:70), and the old error text survives; the Generate that returned the
  resolved result fails in the process after, although skills/gimbal-runs/SKILL.md:318
  says that completed results are reused.
- `killed_child`: a child that is killed while it waits for a command returns an
  error without the kill in it (command.go:322), so the group cancels the siblings
  (group.go:83), which its comment excludes.
- `daemon_restore`: closing a session removes its file whatever Close returned,
  while a turn on it is saved as unfinished (daemon.go:377-382); after a death every
  restore fails at persistence.go:166.

The others are properties of the modules that TLC refutes when a cfg checks them:

- `ForkNotRepeated` (`Session`; `Branches = {"fork"}`, one caller, one re-entry):
  Fork does not look for a saved outcome, so a re-entry forks again, and the second
  binding is a conflict that stops the run's recording.
- `ResumesConversation` (`Branches = {"fork"}`, one caller, one re-entry): a fork of a
  session that never ran creates its own native session with its first turn; when the
  body is re-entered NewSession has already restored the source's, so the same Fork
  copies that one (session.go:949-969) and the fork's turns go on in a conversation
  they were not in.
- `ResultsReused` (`MCSessionResolved.cfg` with `Answers = {"valid", "undecodable"}`): a
  saved answer that does not decode comes back as the bare error of validate
  (session.go:415-418), so a Generate that succeeded after asking again fails when it is
  replayed.
- `ReplayAgrees` without `Astray` (`MaxGens = 2`): besides the two above, a Generate that
  failed returns a result when it is replayed, after a rejected creation that was tried
  again (`CreateAnswers = {"valid", "rejected"}`) and for a killed turn whose native
  result was recorded (`Cancels = {"turn"}`).
- `UncertainCreationHolds` (`CreateAnswers = {"valid", "uncertain"}`, one re-entry):
  the create error is only in memory, so the next process creates again what may
  already exist, against session.go:59-60.
- `ReleasedOnce` (`Cancels = {"scope"}`, one re-entry): a SessionClosed of an earlier
  process keeps a later one from closing the native session it went on using
  (session.go:835), against run.go:136-137.
- `OneTurnAtATime` (two callers, `MaxGens = 3`): running is cleared twice by one turn
  (session.go:400 and 542), so a second native turn can start beside the first.
- `TeardownNeverPanics` (`Trees <- MCGroup`): a child is attached to its group before
  it has a ctx; a sibling's failure in between makes the teardown end it, and
  remoteCleanup reads the missing ctx (scope.go:309, remote_execution.go:36).
- `KilledTaskNeverPanics` (`Scopes`): a task killed between the beginning of its scope
  and its store (loop.go:126) panics in store instead of being a failed task.
- `EveryMessageRecorded` (`Scopes`): the teardown of a killed loop empties its queue
  without the record that loop.go:88-91 promises (scope.go:285).
- `CleanupStopsWork` (`TaskDaemon`): a command is submitted before it is saved
  (process.go:104), so a death or a failed save leaves it running after cleanup.
- `CancelledMeansStopped` (`TaskDaemon`): the handler of an interrupting message waits
  until the task is done, and a task that was given up as uncertain is done
  (messaging.go:170-199).

Seen in `Interactive` and not stated as properties: an interruption recorded before
a death is replayed as a plain error and fails the conversation; a message that was
steered in, but whose turn then failed, is marked unprocessed when the scope ends
(interactive.go:558); after a cancellation a message that was never sent can be
shown as delivered, because `generationDelivered` still belongs to the generation
before (interactive.go:259); a re-entry between ScopeEnded and RunEnded waits for
input that its closed inbox refuses.

## 7. Not modelled

Where a definition leaves out part of the code it models:

- `Interactive`: a turn whose outcome was unresolved and then resolved is replayed with
  its reply, not with the error that survives in the code (`session_resolved` shows
  that); it takes two deaths, and no property of conversations depends on it.
  `EndScope` waits for `Open = {}`, which is what one pass of closeInteractionInputs
  leaves, since nothing is accepted during it.
- `Scopes`: Iterate on an ended scope panics (iterate.go:14-17), here the step is
  disabled; a command that produces outputs fails its scope as a service does when it
  fails or they cannot be published (command.go:346-355), here it only returns its error; the scope's `mu` is not a lock of its own, since no step keeps
  it while it waits.
- `Executor`: only callers of turns cancel; Fork, Close and commands end by themselves or
  with their worker.  `Submit` does not refuse a caller that reconstructs: it launches
  more often than the code, which every property survives.
- `TaskDaemon`: deadlines of turns, commands by message, and a workflow that dies while
  it cleans up.

Event stamping, usage, prompts and output schemas, values of scopes, plans and their
validation, blobs of the store, log files and observation carry data that no decision
modelled here reads.  Of the daemon: creating and forking sessions, services, secrets,
files and retention; of the executors: steering through the socket,
ConfigureSession and the vacuum of directories that ended seven days ago.  Supervision
ends in a Steer, which `Session` has; when it looks is decided by text and an external
classifier.  The message store, orchestration and secrets, conversations and hosting
are next in the plan.  Adapters and the built-in agent drive external programs; the
models take from them what the engine may rely on.  Web, command line, generators and
linters hold no shared protocol state.  Most of the repository's lines are in those
last groups.
