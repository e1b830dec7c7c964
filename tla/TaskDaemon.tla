----------------------------- MODULE TaskDaemon -----------------------------
(***************************************************************************)
(* The task daemon (internal/taskdaemon) between a workflow's scope        *)
(* (internal/effects) and the independent executors: it admits tasks by    *)
(* their identity, saves them, submits them, observes them, and after a    *)
(* death restores them from its state directory.  Calls and replies may be *)
(* lost or late, messages may be delivered again, a save may fail, the     *)
(* daemon or an executor's owner may die, and the workflow may die and be  *)
(* entered again: it then sends the calls it has no result of again, under *)
(* their old identities.                                                   *)
(*                                                                         *)
(* Abstractions.  One run, one scope, one session.  An executor is what    *)
(* Operation says, and its worker is launched in a step of its own.  A     *)
(* handler that holds the daemon's lock is one step, except where another  *)
(* process works in between.  Events are only a save that may fail.  The   *)
(* session is closed and the scope cleaned up by call, where a panic of    *)
(* the handler only breaks the connection.  Not here: services, secrets,   *)
(* files, forks, commands by message, deadlines, retention (five minutes   *)
(* after the release), and a workflow that dies while it cleans up.        *)
(***************************************************************************)
EXTENDS Naturals, FiniteSets

CONSTANTS
  Turns, Commands,  \* tasks
  Messaged,         \* the turns that are sent as messages
  Bodies,           \* what a scope may start: sets of tasks, with or without a steer
  MaxFaults,        \* bound: deaths of the daemon or a worker, and failed saves
  MaxEntries,       \* bound: how often the workflow is entered again
  MaxSteers         \* bound: native deliveries of the one steering message

None == "none"
Tasks == Turns \cup Commands
Outcomes == {"ok", "error", "cancelled", "uncertain"}

ASSUME TasksAreApart ==
  Turns \cap Commands = {} /\ Messaged \subseteq Turns /\ None \notin Tasks /\ "steer" \notin Tasks
ASSUME BodiesAndBounds ==
  /\ Bodies \subseteq SUBSET (Tasks \cup {"steer"})
  /\ MaxFaults \in Nat /\ MaxEntries \in Nat /\ MaxSteers \in Nat

VARIABLES
  \* the executors
  accepted, begun, outcome,
  launched,       \* tasks a worker was launched for: how often
  lost,           \* accepted tasks whose owner died
  nativeClosed,   \* the executor closed the session
  \* the daemon's memory
  up,
  session,        \* the session is known
  closed,         \* the scope is closed
  submitting,     \* the command whose admission holds the daemon's lock
  task,           \* None, "admitted", "running" or how it ended
  stopping,       \* tasks whose cancel was called
  restored,       \* tasks under reconstruction
  handling,       \* messages a handler is busy with
  cleaning,       \* the cleanup call: "no", "sessions", "tasks"
  failed,         \* the cleanup call met an error
  \* the daemon's state directory
  savedSession, savedClosed, savedTask,
  disposition,    \* of a message: None, "accepted" or its result
  control,        \* of the steering message: None, "accepted", "settled"
  steering,       \* memory: a handler is at the native steer
  \* the scope
  body,           \* what it may start
  entry,          \* how often the workflow was entered again
  pc, answer,
  inFlight,       \* calls on their way to the daemon, and messages on the bus, with their entry
  arrived,        \* completions of a message on the bus, since it was sent last
  closeError,     \* closing the session failed
  cleaned,        \* the scope's cleanup call, and how it ended
  \* history and bounds
  published, steers, faults

executors == <<accepted, begun, outcome, launched, lost, nativeClosed>>
memory    == <<up, session, closed, submitting, task, stopping, restored, handling, cleaning, failed, steering>>
disk      == <<savedSession, savedClosed, savedTask, disposition, control>>
scope     == <<body, entry, pc, answer, inFlight, arrived, closeError, cleaned>>
history   == <<published, steers, faults>>
vars      == <<executors, memory, disk, scope, history>>

Native == INSTANCE Operation WITH Ops <- Tasks, Inputs <- {"request"}, Absent <- None

ExecutorTypes ==
  /\ accepted \in [Tasks -> {"request", None}] /\ begun \in [Tasks -> 0..1]
  /\ outcome \in [Tasks -> Outcomes \cup {None}]
  /\ launched \in [Tasks -> Nat] /\ lost \subseteq Tasks /\ nativeClosed \in BOOLEAN

MemoryTypes ==
  /\ up \in BOOLEAN /\ session \in BOOLEAN /\ closed \in BOOLEAN
  /\ submitting \in Commands \cup {None}
  /\ task \in [Tasks -> Outcomes \cup {None, "admitted", "running"}]
  /\ stopping \subseteq Tasks /\ restored \subseteq Tasks /\ handling \subseteq Messaged
  /\ cleaning \in {"no", "sessions", "tasks"} /\ failed \in BOOLEAN /\ steering \in BOOLEAN

DiskTypes ==
  /\ savedSession \in BOOLEAN /\ savedClosed \in BOOLEAN
  /\ savedTask \in [Tasks -> Outcomes \cup {None, "running"}]
  /\ disposition \in [Messaged -> Outcomes \cup {None, "accepted"}]
  /\ control \in {None, "accepted", "settled"}

ScopeTypes ==
  /\ body \in Bodies
  /\ pc \in [Tasks -> {"idle", "sent", "confirm", "wait", "stop", "done"}]
  /\ answer \in [Tasks -> Outcomes \cup {None, "rejected"}]
  /\ entry \in 0..MaxEntries /\ inFlight \subseteq Tasks \X (0..MaxEntries)
  /\ arrived \in [Messaged -> SUBSET Outcomes]
  /\ closeError \in BOOLEAN /\ cleaned \in {"no", "called", "ok", "error"}

HistoryTypes ==
  /\ published \in [Messaged -> SUBSET Outcomes]
  /\ steers \in Nat /\ faults \in 0..MaxFaults

TypeOK == ExecutorTypes /\ MemoryTypes /\ DiskTypes /\ ScopeTypes /\ HistoryTypes

\* The scope has created its session.
Init ==
  /\ Native!Init
  /\ launched = [t \in Tasks |-> 0] /\ lost = {} /\ nativeClosed = FALSE
  /\ up = TRUE /\ session = TRUE /\ closed = FALSE /\ submitting = None /\ task = [t \in Tasks |-> None]
  /\ stopping = {} /\ restored = {} /\ handling = {} /\ cleaning = "no" /\ failed = FALSE
  /\ savedSession = TRUE /\ savedClosed = FALSE /\ savedTask = [t \in Tasks |-> None]
  /\ disposition = [t \in Messaged |-> None] /\ control = None /\ steering = FALSE
  /\ body \in Bodies /\ pc = [t \in Tasks |-> "idle"] /\ answer = [t \in Tasks |-> None]
  /\ entry = 0 /\ inFlight = {} /\ arrived = [t \in Messaged |-> {}] /\ closeError = FALSE /\ cleaned = "no"
  /\ published = [t \in Messaged |-> {}]
  /\ steers = 0 /\ faults = 0

\* writeState either saves or fails.
Saves == UNCHANGED faults

Fault == faults < MaxFaults /\ faults' = faults + 1

SaveFails == Fault

(***************************************************************************)
(* The executors.                                                          *)
(***************************************************************************)

Working(t) == accepted[t] # None /\ outcome[t] = None /\ t \notin lost

\* A launched worker is admitted by its locks and by the session's closure.
WorkerAccepts(t) ==
  /\ launched[t] > 0 /\ (t \in Turns => ~nativeClosed)
  /\ Native!Accept(t, "request")
  /\ UNCHANGED <<launched, lost, nativeClosed, memory, disk, scope, history>>

WorkerBegins(t) ==
  /\ Working(t) /\ Native!Begin(t)
  /\ UNCHANGED <<launched, lost, nativeClosed, memory, disk, scope, history>>

\* An operator may cancel it at the executor.
WorkerEnds(t) ==
  /\ Working(t)
  /\ \E r \in {"ok", "error", "cancelled"} : Native!End(t, r)
  /\ UNCHANGED <<launched, lost, nativeClosed, memory, disk, scope, history>>

WorkerDies(t) ==
  /\ Working(t) /\ Fault
  /\ lost' = lost \cup {t}
  /\ UNCHANGED <<accepted, begun, outcome, launched, nativeClosed, memory, disk, scope, published, steers>>

(***************************************************************************)
(* The daemon: admission.                                                  *)
(***************************************************************************)

NoExecutor == UNCHANGED executors

\* The daemon runs and its lock is free.
Free == up /\ submitting = None

\* admit, and for a turn its session.
Admitted(t) == ~closed /\ (t \in Turns => session)

\* A call of the task is on its way, of this entry of the workflow or an earlier one.
Arrives(t) == \E e \in 0..MaxEntries : <<t, e>> \in inFlight

\* What the caller that still waits for the reply gets.
Reply(t, r) ==
  /\ \E e \in 0..MaxEntries :
       LET waits == e = entry /\ pc[t] = "sent" IN
       /\ <<t, e>> \in inFlight /\ inFlight' = inFlight \ {<<t, e>>}
       /\ pc' = [pc EXCEPT ![t] = IF waits THEN (IF r = "ok" THEN "wait" ELSE "done") ELSE @]
       /\ answer' = [answer EXCEPT ![t] = IF waits /\ r # "ok" THEN "rejected" ELSE @]
  /\ UNCHANGED <<body, entry, arrived, closeError, cleaned>>

\* A handler that panics only breaks the connection.
HangUp(t) ==
  /\ \E e \in 0..MaxEntries : <<t, e>> \in inFlight /\ inFlight' = inFlight \ {<<t, e>>}
  /\ UNCHANGED <<body, entry, pc, answer, arrived, closeError, cleaned>>

\* existingTask for a call that comes again, and a refusal.
Answer(t) ==
  /\ Free /\ Arrives(t)
  /\ \/ task[t] # None /\ Reply(t, "ok")
     \/ task[t] = None /\ ~Admitted(t) /\ Reply(t, "error")
  /\ NoExecutor /\ UNCHANGED <<memory, disk, history>>

\* turnEvents: saved before it is run.
AdmitTurn(t) ==
  /\ Free /\ Arrives(t) /\ t \in Turns /\ task[t] = None /\ Admitted(t)
  /\ \/ /\ Saves
        /\ task' = [task EXCEPT ![t] = "admitted"] /\ savedTask' = [savedTask EXCEPT ![t] = "running"]
        /\ Reply(t, "ok")
     \/ SaveFails /\ Reply(t, "error") /\ UNCHANGED <<task, savedTask>>
  /\ NoExecutor
  /\ UNCHANGED <<up, session, closed, submitting, stopping, restored, handling, cleaning, failed, steering,
                 savedSession, savedClosed, disposition, control, published, steers>>

\* Mutant: a command is not looked up before it is submitted.
SubmitBlindly(t) ==
  /\ Free /\ Arrives(t) /\ t \in Commands /\ Admitted(t)
  /\ launched' = [launched EXCEPT ![t] = @ + 1]
  /\ submitting' = t
  /\ UNCHANGED <<accepted, begun, outcome, lost, nativeClosed, up, session, closed, task, stopping, restored,
                 handling, cleaning, failed, steering, disk, scope, history>>

\* process: submitted under the daemon's lock, saved once the executor accepted it.
SubmitCommand(t) ==
  /\ Free /\ Arrives(t) /\ t \in Commands /\ task[t] = None /\ Admitted(t)
  /\ launched' = [launched EXCEPT ![t] = @ + 1]
  /\ submitting' = t
  /\ UNCHANGED <<accepted, begun, outcome, lost, nativeClosed, up, session, closed, task, stopping, restored,
                 handling, cleaning, failed, steering, disk, scope, history>>

\* Submit fails, or returns the operation, accepted now or by an earlier call; it
\* panics when the operation lost its owner.
AdmitCommand(t) ==
  /\ up /\ submitting = t
  /\ submitting' = None
  /\ \/ /\ accepted[t] # None /\ t \notin lost /\ Saves
        /\ task' = [task EXCEPT ![t] = "running"] /\ savedTask' = [savedTask EXCEPT ![t] = "running"]
        /\ Reply(t, "ok")
     \/ accepted[t] # None /\ t \notin lost /\ SaveFails /\ Reply(t, "error") /\ UNCHANGED <<task, savedTask>>
     \/ accepted[t] = None /\ Saves /\ Reply(t, "error") /\ UNCHANGED <<task, savedTask>>
     \/ t \in lost /\ Saves /\ HangUp(t) /\ UNCHANGED <<task, savedTask>>
  /\ NoExecutor
  /\ UNCHANGED <<up, session, closed, stopping, restored, handling, cleaning, failed, steering,
                 savedSession, savedClosed, disposition, control, published, steers>>

(***************************************************************************)
(* The daemon: a task.                                                     *)
(***************************************************************************)

TaskOnly ==
  UNCHANGED <<up, session, closed, submitting, stopping, restored, handling, cleaning, failed, steering,
              savedSession, savedClosed, disposition, control, scope, published, steers>>

\* completeTask: what could not be saved is uncertain.
Complete(t, r) ==
  \/ /\ Saves
     /\ task' = [task EXCEPT ![t] = r] /\ savedTask' = [savedTask EXCEPT ![t] = r]
  \/ /\ SaveFails
     /\ task' = [task EXCEPT ![t] = "uncertain"] /\ UNCHANGED savedTask

\* RunTurn on the executor: not once the turn's ctx is done.
Launch(t) ==
  /\ up /\ task[t] = "admitted"
  /\ \/ /\ t \in stopping /\ Complete(t, "cancelled") /\ NoExecutor
     \/ /\ t \notin stopping
        /\ launched' = [launched EXCEPT ![t] = @ + 1]
        /\ task' = [task EXCEPT ![t] = "running"]
        /\ UNCHANGED <<accepted, begun, outcome, lost, nativeClosed, savedTask, faults>>
  /\ TaskOnly

\* The executor refused the worker, or did not answer in two minutes.
Unstarted(t) ==
  /\ up /\ task[t] = "running" /\ t \in Turns \ restored /\ accepted[t] = None
  /\ Complete(t, "error")
  /\ NoExecutor /\ TaskOnly

\* After a cancel, an error that is no cancellation leaves open what the turn does;
\* so does a cancel that could not be delivered to a restored turn.
Observed(t) ==
  IF t \notin Turns \cap stopping THEN {outcome[t]}
  ELSE IF t \in restored THEN {outcome[t], "uncertain"}
  ELSE {IF outcome[t] = "error" THEN "uncertain" ELSE outcome[t]}

Observe(t) ==
  /\ up /\ task[t] = "running" /\ outcome[t] # None
  /\ \E r \in Observed(t) : Complete(t, r)
  /\ NoExecutor /\ TaskOnly

\* Mutant: a cancel that was delivered is taken for the end of the turn.
GivenUpAsCancelled == "cancelled"

GivenUp == "uncertain"

\* A cancelled turn has thirty seconds to end.
GiveUp(t) ==
  /\ up /\ task[t] = "running" /\ t \in (Turns \cap stopping) \ restored /\ accepted[t] # None /\ outcome[t] = None
  /\ Complete(t, GivenUp)
  /\ NoExecutor /\ TaskOnly

\* An event that cannot be saved ends the turn for the daemon.
EventSaveFails(t) ==
  /\ up /\ task[t] = "running" /\ t \in Turns \ stopping /\ begun[t] = 1 /\ outcome[t] = None
  /\ SaveFails
  /\ task' = [task EXCEPT ![t] = "error"] /\ savedTask' = [savedTask EXCEPT ![t] = "error"]
  /\ NoExecutor /\ TaskOnly

\* runTurn under reconstruction: without request.json nothing is known of the turn.
Reconstruct(t) ==
  /\ up /\ task[t] = "running" /\ t \in restored /\ accepted[t] = None
  /\ Complete(t, "uncertain")
  /\ NoExecutor /\ TaskOnly

(***************************************************************************)
(* The daemon: messages and steering.                                      *)
(***************************************************************************)

MessageOnly ==
  UNCHANGED <<executors, up, session, closed, submitting, stopping, restored, cleaning, failed, steering,
              savedSession, savedClosed, control, body, entry, pc, answer, inFlight, closeError, cleaned, steers>>

NoCompletion == UNCHANGED <<published, arrived>>

\* The completed event, on the bus.
Completed(t, r) ==
  /\ published' = [published EXCEPT ![t] = @ \cup {r}]
  /\ arrived' = [arrived EXCEPT ![t] = @ \cup {r}]

\* The completed event may not reach the bus.
Settle(t, r) ==
  /\ disposition' = [disposition EXCEPT ![t] = r]
  /\ Completed(t, r) \/ NoCompletion

\* A message is delivered for the first time.
FirstDelivery(t) ==
  /\ Free /\ Arrives(t) /\ disposition[t] = None
  /\ \/ SaveFails /\ UNCHANGED <<task, savedTask, disposition, handling>> /\ NoCompletion
     \/ /\ Saves /\ disposition' = [disposition EXCEPT ![t] = "accepted"]
        /\ UNCHANGED <<task, savedTask, handling>> /\ NoCompletion
     \/ /\ Saves /\ Admitted(t)
        /\ disposition' = [disposition EXCEPT ![t] = "accepted"]
        /\ task' = [task EXCEPT ![t] = "admitted"] /\ savedTask' = [savedTask EXCEPT ![t] = "running"]
        /\ handling' = handling \cup {t} /\ NoCompletion
     \/ /\ SaveFails /\ Admitted(t)
        /\ Settle(t, "error") /\ UNCHANGED <<task, savedTask, handling>>
     \/ /\ Saves /\ ~Admitted(t)
        /\ Settle(t, "error") /\ UNCHANGED <<task, savedTask, handling>>
  /\ MessageOnly

\* It may be delivered again, by a transport that starts anew or because it was
\* sent again: what was accepted is observed, never run.
Redelivery(t) ==
  /\ Free /\ disposition[t] # None /\ t \notin handling
  /\ \/ /\ disposition[t] \in Outcomes
        /\ Completed(t, disposition[t])
        /\ UNCHANGED <<disposition, handling, task, savedTask, faults>>
     \/ /\ disposition[t] = "accepted" /\ task[t] # None
        /\ handling' = handling \cup {t}
        /\ UNCHANGED <<disposition, task, savedTask, faults>> /\ NoCompletion
     \/ /\ disposition[t] = "accepted" /\ task[t] = None
        /\ \/ Saves /\ Settle(t, "uncertain")
           \/ SaveFails /\ UNCHANGED disposition /\ NoCompletion
        /\ UNCHANGED <<handling, task, savedTask>>
  /\ MessageOnly

CompleteMessage(t) ==
  /\ up /\ t \in handling /\ task[t] \in Outcomes
  /\ handling' = handling \ {t}
  /\ \/ Saves /\ Settle(t, task[t])
     \/ SaveFails /\ UNCHANGED disposition /\ NoCompletion
  /\ UNCHANGED <<task, savedTask>> /\ MessageOnly

Unsteered == control = None

\* The control file is written before the native steer and after it.
Steer ==
  /\ "steer" \in body /\ up /\ ~steering /\ Unsteered /\ session /\ steers < MaxSteers
  /\ \/ Saves /\ control' = "accepted" /\ steering' = TRUE
     \/ SaveFails /\ UNCHANGED <<control, steering>>
  /\ UNCHANGED <<executors, up, session, closed, submitting, task, stopping, restored, handling, cleaning, failed,
                 savedSession, savedClosed, savedTask, disposition, scope, published, steers>>

SteerNative ==
  /\ up /\ steering
  /\ steering' = FALSE /\ steers' = steers + 1
  /\ \/ Saves /\ control' = "settled"
     \/ SaveFails /\ UNCHANGED control
  /\ UNCHANGED <<executors, up, session, closed, submitting, task, stopping, restored, handling, cleaning, failed,
                 savedSession, savedClosed, savedTask, disposition, scope, published>>

(***************************************************************************)
(* The daemon: the session, the scope's cleanup, death and restart.        *)
(***************************************************************************)

\* Mutant: the turn that runs is not waited for.
ClosesAtOnce(ok) ==
  /\ session' = FALSE /\ savedSession' = FALSE
  /\ nativeClosed' = (nativeClosed \/ ok)

\* No turn runs, and the last one did not lose its owner.
Closable == \A t \in Turns : ~Working(t) /\ t \notin lost

\* adapter.Close returns once no turn runs, fails or panics; the daemon forgets the
\* session however it ended.
SessionCloses(ok) ==
  /\ session' = FALSE /\ savedSession' = FALSE
  /\ ok => Closable
  /\ nativeClosed' = (nativeClosed \/ ok)

CloseSession(ok) ==
  /\ Free /\ session /\ cleaned = "no"
  /\ SessionCloses(ok)
  /\ closeError' = ~ok
  /\ UNCHANGED <<accepted, begun, outcome, launched, lost, up, closed, submitting, task, stopping, restored,
                 handling, cleaning, failed, steering, savedClosed, savedTask, disposition, control,
                 body, entry, pc, answer, inFlight, arrived, cleaned, history>>

CleanupOnly ==
  UNCHANGED <<accepted, begun, outcome, launched, lost, up, submitting, task, restored, handling, steering,
              disposition, control, body, entry, pc, answer, inFlight, arrived, closeError, published, steers>>

\* cleanupNative: the scope is closed and its tasks are cancelled.
Cleanup ==
  /\ Free /\ cleaned = "called" /\ cleaning = "no"
  /\ closed' = TRUE
  /\ \/ /\ Saves /\ savedClosed' = TRUE /\ cleaning' = "sessions"
        /\ stopping' = stopping \cup {t \in Tasks : task[t] \in {"admitted", "running"}}
        /\ UNCHANGED cleaned
     \/ SaveFails /\ cleaned' = "error" /\ UNCHANGED <<savedClosed, cleaning, stopping>>
  /\ UNCHANGED <<nativeClosed, session, failed, savedSession, savedTask>> /\ CleanupOnly

CleanupSessions(ok) ==
  /\ Free /\ cleaning = "sessions"
  /\ cleaning' = "tasks"
  /\ IF session
       THEN SessionCloses(ok) /\ failed' = ~ok
       ELSE ok /\ UNCHANGED <<session, savedSession, nativeClosed, failed>>
  /\ UNCHANGED <<closed, stopping, savedClosed, savedTask, cleaned, faults>> /\ CleanupOnly

\* The cleanup meets a turn without an owner and panics.
CleanupPanics ==
  /\ Free /\ cleaning = "sessions" /\ session /\ Turns \cap lost # {}
  /\ SessionCloses(FALSE)
  /\ cleaning' = "no" /\ cleaned' = "error"
  /\ UNCHANGED <<closed, stopping, failed, savedClosed, savedTask, faults>> /\ CleanupOnly

Joined == \A t \in Tasks : task[t] \notin {"admitted", "running"}

\* Every task has ended, and its release is saved; or the thirty seconds are over.
CleanupTasks ==
  /\ Free /\ cleaning = "tasks"
  /\ cleaning' = "no" /\ failed' = FALSE
  /\ \/ /\ Joined /\ Saves
        /\ savedTask' = [t \in Tasks |-> IF task[t] # None THEN task[t] ELSE savedTask[t]]
        /\ cleaned' = IF failed THEN "error" ELSE "ok"
     \/ /\ Joined /\ SaveFails /\ cleaned' = "error" /\ UNCHANGED savedTask
     \/ /\ ~Joined /\ Saves /\ cleaned' = "error" /\ UNCHANGED savedTask
  /\ UNCHANGED <<nativeClosed, session, closed, stopping, savedSession, savedClosed>> /\ CleanupOnly

\* What a death takes: calls on their way fail, and so does the cleanup call.
Down ==
  /\ up' = FALSE /\ session' = FALSE /\ closed' = FALSE /\ submitting' = None
  /\ task' = [t \in Tasks |-> None]
  /\ stopping' = {} /\ restored' = {} /\ handling' = {} /\ steering' = FALSE
  /\ cleaning' = "no" /\ failed' = FALSE
  /\ inFlight' = {c \in inFlight : c[1] \in Messaged}
  /\ cleaned' = IF cleaned = "called" THEN "error" ELSE cleaned
  /\ UNCHANGED <<accepted, begun, outcome, launched, lost, disk, body, entry, pc, answer, arrived, published, steers>>

Dies == up /\ Fault /\ Down /\ UNCHANGED <<nativeClosed, closeError>>

\* It dies after adapter.Close returned and before it forgets the session.
DiesClosing ==
  /\ up /\ Fault /\ session /\ Closable
  /\ \/ cleaned = "no" /\ closeError' = TRUE
     \/ cleaning = "sessions" /\ UNCHANGED closeError
  /\ nativeClosed' = TRUE
  /\ Down

\* The goroutine that observes an operation without an owner panics (AssertOwner).
Panics(t) ==
  /\ up /\ t \in lost /\ task[t] = "running"
  /\ Down /\ UNCHANGED <<nativeClosed, closeError, faults>>

\* restore fails on an accepted turn whose session is not saved; with an operation
\* that lost its owner the recovery panics.
Restorable ==
  /\ \A t \in Turns : savedTask[t] = "running" => savedSession
  /\ \A t \in lost : savedTask[t] # "running"

\* Mutant: what was saved is run as if it were new.
RestoredAsNew == [t \in Tasks |-> IF savedTask[t] = "running" /\ t \in Turns THEN "admitted" ELSE savedTask[t]]

RestoredTasks == savedTask

Restart ==
  /\ ~up /\ Restorable
  /\ up' = TRUE /\ session' = savedSession /\ closed' = savedClosed
  /\ task' = RestoredTasks /\ restored' = {t \in Tasks : savedTask[t] = "running"}
  /\ UNCHANGED <<executors, submitting, stopping, handling, cleaning, failed, steering, disk, scope, history>>

(***************************************************************************)
(* The scope (effects.Call, ConfirmStarted, Wait, Cleanup).                *)
(***************************************************************************)

ScopeOnly == UNCHANGED <<executors, disk, history, body, up, session, closed, submitting, task, restored, handling,
                         cleaning, failed, steering, closeError>>

\* A caller is answered, or goes on waiting in another way.
CallerOnly == UNCHANGED <<entry, inFlight, arrived, cleaned>> /\ ScopeOnly

Ends(t, a) == pc' = [pc EXCEPT ![t] = "done"] /\ answer' = [answer EXCEPT ![t] = a]

Send(t) ==
  /\ t \in body /\ pc[t] = "idle" /\ cleaned = "no"
  /\ pc' = [pc EXCEPT ![t] = IF t \in Messaged THEN "wait" ELSE "sent"]
  /\ inFlight' = IF up \/ t \in Messaged THEN inFlight \cup {<<t, entry>>} ELSE inFlight
  /\ UNCHANGED <<stopping, entry, answer, arrived, cleaned>> /\ ScopeOnly

\* The workflow dies in the scope's body and is entered again.  What its journal
\* has no outcome of is sent again, and a turn whose outcome is unresolved.
ReEnter ==
  /\ cleaned = "no" /\ entry < MaxEntries
  /\ entry' = entry + 1
  /\ \E known \in SUBSET {t \in Tasks : pc[t] = "done" /\ ~(t \in Turns /\ answer[t] = "uncertain")} :
       /\ pc' = [t \in Tasks |-> IF t \in known THEN "done" ELSE "idle"]
       /\ answer' = [t \in Tasks |-> IF t \in known THEN answer[t] ELSE None]
       /\ arrived' = [t \in Messaged |-> IF t \in known THEN arrived[t] ELSE {}]
  /\ UNCHANGED <<stopping, inFlight, cleaned>> /\ ScopeOnly

\* The connection breaks; the call may still arrive.
ReplyLost(t) ==
  /\ pc[t] = "sent"
  /\ pc' = [pc EXCEPT ![t] = "confirm"]
  /\ UNCHANGED <<stopping, answer>> /\ CallerOnly

\* Mutant: the confirmation has no limit.
ConfirmForever(t) ==
  /\ pc[t] = "confirm" /\ Free /\ task[t] # None
  /\ pc' = [pc EXCEPT ![t] = "wait"]
  /\ UNCHANGED <<stopping, answer>> /\ CallerOnly

\* ConfirmStarted: it is read whether the call arrived, for fifteen seconds.
Confirm(t) ==
  /\ pc[t] = "confirm"
  /\ \/ Free /\ task[t] # None /\ pc' = [pc EXCEPT ![t] = "wait"] /\ UNCHANGED answer
     \/ ~(Free /\ task[t] # None) /\ Ends(t, "uncertain")
  /\ UNCHANGED stopping /\ CallerOnly

\* Wait: a result, a task the daemon does not know, or no daemon.
Poll(t) ==
  /\ pc[t] \in {"wait", "stop"} /\ t \notin Messaged
  /\ \/ Free /\ task[t] \in Outcomes /\ Ends(t, task[t])
     \/ Free /\ task[t] = None /\ Ends(t, "uncertain")
     \/ ~up /\ Ends(t, "uncertain")
  /\ UNCHANGED stopping /\ CallerOnly

\* The workflow's ctx is done: an interrupt, and ten seconds for the result.  The
\* bus delivers the interrupt of a message after the message.
Interrupt(t) ==
  /\ pc[t] = "wait" /\ Free
  /\ IF t \in Messaged THEN disposition[t] # None ELSE task[t] # None
  /\ stopping' = stopping \cup {u \in {t} : task[u] # None}
  /\ pc' = [pc EXCEPT ![t] = "stop"]
  /\ UNCHANGED answer /\ CallerOnly

StopTimeout(t) ==
  /\ pc[t] = "stop" /\ Ends(t, "uncertain")
  /\ UNCHANGED stopping /\ CallerOnly

\* The interrupt's handler returns once the task is done, however it ended; a
\* caller whose interrupt fails is not sure.
MessageStopped(t) ==
  /\ pc[t] = "stop" /\ t \in Messaged /\ Free /\ task[t] \notin {"admitted", "running"}
  /\ Ends(t, "cancelled")
  /\ UNCHANGED stopping /\ CallerOnly

MessageUnreachable(t) ==
  /\ pc[t] = "wait" /\ t \in Messaged /\ ~up
  /\ Ends(t, "uncertain")
  /\ UNCHANGED stopping /\ CallerOnly

Await(t) ==
  /\ pc[t] = "wait" /\ t \in Messaged
  /\ \E r \in arrived[t] : Ends(t, r)
  /\ UNCHANGED stopping /\ CallerOnly

\* The scope ends, perhaps beside its body.
CallCleanup ==
  /\ cleaned = "no"
  /\ cleaned' = IF up THEN "called" ELSE "error"
  /\ UNCHANGED <<stopping, entry, pc, answer, inFlight, arrived>> /\ ScopeOnly

(***************************************************************************)
(* The specification.                                                      *)
(***************************************************************************)

Executors == \E t \in Tasks : WorkerAccepts(t) \/ WorkerBegins(t) \/ WorkerEnds(t)

Daemon ==
  \/ \E t \in Tasks \ Messaged : Answer(t) \/ AdmitTurn(t) \/ SubmitCommand(t) \/ AdmitCommand(t)
  \/ \E t \in Tasks : Launch(t) \/ Unstarted(t) \/ Observe(t) \/ GiveUp(t) \/ Reconstruct(t) \/ Panics(t)
  \/ \E t \in Messaged : CompleteMessage(t)
  \/ SteerNative \/ Cleanup \/ CleanupPanics \/ CleanupTasks
  \/ \E ok \in BOOLEAN : CleanupSessions(ok)
  \/ Restart

Scope ==
  \E t \in Tasks :
    Confirm(t) \/ Poll(t) \/ Await(t) \/ StopTimeout(t) \/ MessageStopped(t) \/ (<<t, entry>> \notin inFlight /\ ReplyLost(t))

\* What nothing forces.
Environment ==
  \/ \E t \in Tasks :
       \/ Send(t) \/ (<<t, entry>> \in inFlight /\ ReplyLost(t)) \/ Interrupt(t) \/ MessageUnreachable(t)
       \/ WorkerDies(t) \/ EventSaveFails(t)
  \/ \E t \in Messaged : FirstDelivery(t) \/ Redelivery(t)
  \/ ReEnter \/ Steer \/ CallCleanup \/ Dies \/ DiesClosing
  \/ \E ok \in BOOLEAN : CloseSession(ok)

Terminated == cleaned \in {"ok", "error"}

Next == Executors \/ Daemon \/ Scope \/ Environment \/ (Terminated /\ UNCHANGED vars)

Spec == Init /\ [][Next]_vars

\* Processes run, timers expire and native work ends.  Nobody has to start a dead daemon
\* again, and no transport has to deliver a message, let alone again.
FairSpec == Spec /\ WF_vars(Executors \/ (up /\ Daemon) \/ Scope)

(***************************************************************************)
(* Properties.                                                             *)
(***************************************************************************)

\* A task reported as successful was, and a task reported as cancelled ended so
\* or never started, whatever was lost or saved late on the way.
AnswersAreTrue ==
  \A t \in Tasks :
    /\ answer[t] = "ok" => outcome[t] = "ok"
    /\ answer[t] = "cancelled" /\ t \notin Messaged => outcome[t] = "cancelled" \/ launched[t] = 0

\* The same of messages: not so, the interrupt's handler only waits until the
\* task is done, and a task that is given up as uncertain is done.
CancelledMeansStopped == \A t \in Tasks : answer[t] = "cancelled" => ~Working(t)

\* After a cleanup without error no turn of the scope runs or is started: not one
\* a restored daemon knows nothing of, and not one whose call arrives late.
CleanupStopsTurns == cleaned = "ok" /\ ~closeError => \A t \in Turns : ~Working(t)

\* The same of commands: not so, a command is submitted before it is saved.
CleanupStopsWork == cleaned = "ok" /\ ~closeError => \A t \in Tasks : ~Working(t)

\* Nothing is done twice, by a call or a message that comes again or by a daemon
\* that restores it: a turn is submitted once, no message has two outcomes, and
\* the steering reaches the native session once (README.md: "The model
\* assignment is never blindly resubmitted"; messaging.go: "Duplicate admission
\* IDs and returned outcomes survive worker restart").
NothingTwice ==
  /\ \A t \in Turns : launched[t] <= 1
  /\ \A t \in Messaged : Cardinality(published[t]) <= 1
  /\ steers <= 1

\* A command whose task was saved is not submitted again, whoever calls again and
\* however often the daemon died.  Only a submission whose task was not saved, by a
\* failed save or a death, is followed by another one, and it is the executor that
\* then keeps the command from running twice (Operation).
SavedNotResubmitted ==
  [][\A t \in Commands : savedTask[t] # None => launched'[t] = launched[t]]_vars

\* Every call is answered, if only with uncertainty, and every message whose
\* completion reached the bus; a message that was not delivered, or whose result
\* was not saved or not published, may wait for ever.
EveryTaskAnswered ==
  []<>(\A t \in Tasks : pc[t] \in {"idle", "done"} \/ (t \in Messaged /\ arrived[t] = {}))

\* A daemon that is restarted takes up its accepted turns (cmd/gimbal/daemon.go:
\* "Accepted workflows and agent turns resume from durable execution records
\* after restart").
AcceptedTurnsResume == ~up /\ lost = {} => Restorable
=============================================================================
