------------------------------ MODULE Executor ------------------------------
(***************************************************************************)
(* The independent executors (internal/executor, internal/agentexecutor,   *)
(* internal/commandexecutor): a caller launches a worker process for an    *)
(* operation and observes files; the worker owns the operation by a file   *)
(* lock, and a turn its session by another, and may die at any step.       *)
(*                                                                         *)
(* Abstractions.  Every caller launches one worker, so a worker has its    *)
(* caller's name.  Inputs are model values.  A native conversation is      *)
(* known by the operation that created it, or by its session if that was   *)
(* before.  A file write is one step (Write renames a synced file).        *)
(* Socket calls that fail are retried by polling files, so the socket is   *)
(* only the delivery of a cancel; a deadline is a cancel too.  A worker    *)
(* that returns before it accepts, for a file it cannot write, is one that *)
(* dies there.  Not here: steering, ConfigureSession, and the vacuum of    *)
(* operations that ended seven days ago.                                   *)
(***************************************************************************)
EXTENDS Naturals, FiniteSets

CONSTANTS
  Callers,
  Turns, Forks, Closes, Commands,  \* operations, by kind
  Sessions,
  SessionOf,     \* the session of a turn, fork or close
  ParentOf,      \* the session another was forked from, or None
  Inputs,
  Plans,         \* what the callers submit, <<operation, inputs>> of each, and
                 \* the sessions that turns ran on before
  MaxEvents,     \* bound: events of a turn
  MaxDeaths,     \* bound: workers that die
  MaxCancels     \* bound: callers whose ctx is cancelled

None == "none"
Ops == Turns \cup Forks \cup Closes \cup Commands
Outcomes == {"ok", "error", "cancelled", "uncertain"}

ASSUME KindsAreApart ==
  /\ Turns \cap Forks = {} /\ Turns \cap Closes = {} /\ Turns \cap Commands = {}
  /\ Forks \cap Closes = {} /\ Forks \cap Commands = {} /\ Closes \cap Commands = {}
  /\ None \notin Ops \cup Inputs \cup Sessions \cup Callers
ASSUME SessionsAreGiven ==
  /\ SessionOf \in [Turns \cup Forks \cup Closes -> Sessions]
  /\ ParentOf \in [Sessions -> Sessions \cup {None}]
  /\ \A f \in Forks : ParentOf[SessionOf[f]] # None
  /\ Plans \subseteq [job : [Callers -> Ops \X Inputs], old : SUBSET Sessions]
ASSUME BoundsAreNumbers == MaxEvents \in Nat /\ MaxDeaths \in Nat /\ MaxCancels \in Nat

VARIABLES
  \* files
  request, result, \* of an operation
  events,          \* of an operation: how many lines
  active, closed,  \* of a session
  native,          \* of a session: the checkpoint's conversation
  \* locks, held by a worker
  lease, sessionLease,
  \* a worker
  at, job,
  conversation,    \* the native session it has open
  outcome,
  stopped,         \* its ctx is done
  reply,           \* the startup pipe
  \* a caller
  pc, target, seen, cancelled, answer,
  \* history and bounds
  starts,          \* workers that started an operation's native work
  ran,             \* the conversation an operation ran on
  accepter,        \* workers that accepted
  dead

files   == <<request, result, events, active, closed, native>>
locks   == <<lease, sessionLease>>
workers == <<at, job, conversation, outcome, stopped, reply>>
callers == <<pc, target, seen, cancelled, answer>>
history == <<starts, ran, accepter, dead>>
vars    == <<files, locks, workers, callers, history>>

Op(c)      == job[c][1]
Input(c)   == job[c][2]
Session(c) == SessionOf[Op(c)]

WorkerPlaces ==
  {None, "claim", "enter", "accept", "startup", "setup", "fork", "save", "run", "native", "leave", "close",
   "publish", "unlink", "release", "gone"}
CallerPlaces == {"idle", "look", "stop", "startup", "read", "check", "assert", "drain", "done"}

FileTypes ==
  /\ request \in [Ops -> Inputs \cup {None}]
  /\ result \in [Ops -> Outcomes \cup {None}]
  /\ events \in [Ops -> 0..MaxEvents]
  /\ active \in [Sessions -> Ops \cup {None}]
  /\ closed \in [Sessions -> {None, "ok", "error"}]
  /\ native \in [Sessions -> Ops \cup Sessions \cup {None}]

LockTypes ==
  /\ lease \in [Ops -> Callers \cup {None}]
  /\ sessionLease \in [Sessions -> Callers \cup {None}]

WorkerTypes ==
  /\ at \in [Callers -> WorkerPlaces]
  /\ \E p \in Plans : job = p.job
  /\ conversation \in [Callers -> Ops \cup Sessions \cup {None}]
  /\ outcome \in [Callers -> Outcomes \cup {None}]
  /\ stopped \in [Callers -> BOOLEAN]
  /\ reply \in [Callers -> {None, "descriptor", "rejected", "eof"}]

CallerTypes ==
  /\ pc \in [Callers -> CallerPlaces]
  /\ target \in [Callers -> Ops \cup {None}]
  /\ seen \in [Callers -> 0..MaxEvents]
  /\ cancelled \in [Callers -> {"no", "yes", "told"}]
  /\ answer \in [Callers -> Outcomes \cup {None, "refused", "timeout", "panic"}]

HistoryTypes ==
  /\ starts \in [Ops -> SUBSET Callers] /\ ran \in [Ops -> Ops \cup Sessions \cup {None}]
  /\ accepter \subseteq Callers /\ dead \subseteq Callers

TypeOK == FileTypes /\ LockTypes /\ WorkerTypes /\ CallerTypes /\ HistoryTypes

Init ==
  /\ request = [o \in Ops |-> None] /\ result = [o \in Ops |-> None] /\ events = [o \in Ops |-> 0]
  /\ active = [s \in Sessions |-> None] /\ closed = [s \in Sessions |-> None]
  /\ \E p \in Plans : job = p.job /\ native = [s \in Sessions |-> IF s \in p.old THEN s ELSE None]
  /\ lease = [o \in Ops |-> None] /\ sessionLease = [s \in Sessions |-> None]
  /\ at = [c \in Callers |-> None]
  /\ conversation = [c \in Callers |-> None] /\ outcome = [c \in Callers |-> None]
  /\ stopped = [c \in Callers |-> FALSE] /\ reply = [c \in Callers |-> None]
  /\ pc = [c \in Callers |-> "idle"] /\ seen = [c \in Callers |-> 0]
  /\ cancelled = [c \in Callers |-> "no"] /\ target = [c \in Callers |-> None] /\ answer = [c \in Callers |-> None]
  /\ starts = [o \in Ops |-> {}] /\ ran = [o \in Ops |-> None]
  /\ accepter = {} /\ dead = {}

(***************************************************************************)
(* A worker.                                                               *)
(***************************************************************************)

\* The process ends: its locks are free, the startup pipe is closed.
Ends(c, r) ==
  /\ at' = [at EXCEPT ![c] = "gone"]
  /\ reply' = [reply EXCEPT ![c] = IF @ = None THEN r ELSE @]
  /\ lease' = [o \in Ops |-> IF lease[o] = c THEN None ELSE lease[o]]
  /\ sessionLease' = [s \in Sessions |-> IF sessionLease[s] = c THEN None ELSE sessionLease[s]]

Steps(c, p) == at' = [at EXCEPT ![c] = p] /\ UNCHANGED <<reply, locks>>

\* AssertOwner, Claim: accepted, without a result, and the lock is free.
Orphan(o) == request[o] # None /\ result[o] = None /\ lease[o] = None

\* Mutant: the lock is enough.
UnownedIsNew(o) == lease[o] = None

New(o) == request[o] = None /\ lease[o] = None

AfterClaim(o) == IF o \in Commands THEN "accept" ELSE "enter"

\* Claim, once the operation's lock is tried; without request.json it is tried again.
Claim(c) ==
  LET o == Op(c) IN
  /\ at[c] = "claim"
  /\ \/ /\ New(o)
        /\ lease' = [lease EXCEPT ![o] = c]
        /\ at' = [at EXCEPT ![c] = AfterClaim(o)]
        /\ UNCHANGED <<reply, sessionLease>>
     \/ /\ request[o] # None
        /\ Ends(c, IF request[o] # Input(c) THEN "rejected"
                   ELSE IF Orphan(o) THEN "eof" ELSE "descriptor")
  /\ UNCHANGED <<files, job, conversation, outcome, stopped, callers, history>>

\* Mutant: closed.json is not looked at.
AdmittedAlways(c) == TRUE

Admitted(c) == closed[Session(c)] = None \/ Op(c) \in Closes

\* The session's lock, the turn it last ran, and whether it is closed; active.json
\* is written under the lock, before the operation is accepted.
Enter(c) ==
  LET s == Session(c) IN
  /\ at[c] = "enter"
  /\ IF sessionLease[s] # None THEN Ends(c, "rejected") /\ UNCHANGED active
     ELSE IF active[s] # None /\ Orphan(active[s]) THEN Ends(c, "eof") /\ UNCHANGED active
     ELSE IF ~Admitted(c) THEN Ends(c, "rejected") /\ UNCHANGED active
     ELSE /\ sessionLease' = [sessionLease EXCEPT ![s] = c]
          /\ active' = [active EXCEPT ![s] = Op(c)]
          /\ at' = [at EXCEPT ![c] = "accept"]
          /\ UNCHANGED <<reply, lease>>
  /\ UNCHANGED <<request, result, events, closed, native, job, conversation, outcome, stopped, callers, history>>

Accept(c) ==
  /\ at[c] = "accept"
  /\ request' = [request EXCEPT ![Op(c)] = Input(c)]
  /\ accepter' = accepter \cup {c}
  /\ Steps(c, "startup")
  /\ UNCHANGED <<result, events, active, closed, native, job, conversation, outcome, stopped, callers, starts, ran, dead>>

Startup(c) ==
  /\ at[c] = "startup"
  /\ reply' = [reply EXCEPT ![c] = "descriptor"]
  /\ at' = [at EXCEPT ![c] = IF Op(c) \in Commands THEN "run" ELSE "setup"]
  /\ UNCHANGED <<files, locks, job, conversation, outcome, stopped, callers, history>>

\* An error is saved as a cancellation if the worker's ctx is done by then.
Saved(c, r) == IF r = "error" /\ stopped[c] THEN "cancelled" ELSE r

Fails(c, p) == outcome' = [outcome EXCEPT ![c] = "error"] /\ Steps(c, p)

\* Mutant: the parent's lock is not asked for.
ParentIdleAlways(c) == TRUE

ParentIdle(c) == sessionLease[ParentOf[Session(c)]] = None

\* The native session: the checkpoint's, the parent's fork, or a new one.
Setup(c) ==
  LET s == Session(c) IN
  /\ at[c] = "setup"
  /\ \/ /\ native[s] # None
        /\ conversation' = [conversation EXCEPT ![c] = native[s]]
        /\ Steps(c, IF Op(c) \in Closes THEN "close" ELSE "save") /\ UNCHANGED outcome
     \/ /\ native[s] = None /\ Op(c) \in Closes
        /\ Steps(c, "close") /\ UNCHANGED <<conversation, outcome>>
     \/ /\ native[s] = None /\ Op(c) \notin Closes /\ ParentOf[s] = None
        /\ conversation' = [conversation EXCEPT ![c] = Op(c)]
        /\ Steps(c, "save") /\ UNCHANGED outcome
     \/ /\ native[s] = None /\ Op(c) \notin Closes /\ ParentOf[s] # None
        /\ IF ParentIdle(c)
             THEN /\ sessionLease' = [sessionLease EXCEPT ![ParentOf[s]] = c]
                  /\ at' = [at EXCEPT ![c] = "fork"]
                  /\ UNCHANGED <<conversation, outcome, reply, lease>>
             ELSE Fails(c, "leave") /\ UNCHANGED conversation
     \/ /\ native[s] # None \/ Op(c) \notin Closes
        /\ Fails(c, IF Op(c) \in Closes THEN "close" ELSE "leave") /\ UNCHANGED conversation
  /\ UNCHANGED <<files, job, stopped, callers, history>>

\* With the parent's lock: its conversation is loaded and forked.
Fork(c) ==
  LET p == ParentOf[Session(c)] IN
  /\ at[c] = "fork"
  /\ \/ /\ native[p] # None
        /\ conversation' = [conversation EXCEPT ![c] = Op(c)]
        /\ at' = [at EXCEPT ![c] = "save"] /\ UNCHANGED outcome
     \/ /\ outcome' = [outcome EXCEPT ![c] = "error"]
        /\ at' = [at EXCEPT ![c] = "leave"] /\ UNCHANGED conversation
  /\ sessionLease' = [sessionLease EXCEPT ![p] = None]
  /\ UNCHANGED <<files, lease, job, stopped, reply, callers, history>>

\* SaveSession comes before the turn.
Save(c) ==
  LET s == Session(c) IN
  /\ at[c] = "save"
  /\ \/ /\ native' = [native EXCEPT ![s] = conversation[c]]
        /\ Steps(c, IF Op(c) \in Forks THEN "leave" ELSE "run")
        /\ outcome' = [outcome EXCEPT ![c] = IF Op(c) \in Forks THEN "ok" ELSE @]
     \/ Fails(c, "leave") /\ UNCHANGED native
  /\ UNCHANGED <<request, result, events, active, closed, job, conversation, stopped, callers, history>>

\* RunTurn, or the command's process.
Run(c) ==
  /\ at[c] = "run"
  /\ starts' = [starts EXCEPT ![Op(c)] = @ \cup {c}]
  /\ ran' = [ran EXCEPT ![Op(c)] = conversation[c]]
  /\ Steps(c, "native")
  /\ UNCHANGED <<files, job, conversation, outcome, stopped, callers, accepter, dead>>

Emit(c) ==
  /\ at[c] = "native" /\ Op(c) \in Turns /\ events[Op(c)] < MaxEvents
  /\ events' = [events EXCEPT ![Op(c)] = @ + 1]
  /\ UNCHANGED <<request, result, active, closed, native, locks, workers, callers, history>>

NativeEnds(c) ==
  /\ at[c] = "native"
  /\ \E r \in IF Op(c) \in Turns THEN {"ok", "error", "uncertain"}
             ELSE IF stopped[c] THEN {"cancelled"} ELSE {"ok", "error"} :
       outcome' = [outcome EXCEPT ![c] = r]
  /\ Steps(c, IF Op(c) \in Commands THEN "publish" ELSE "leave")
  /\ UNCHANGED <<files, job, conversation, stopped, callers, history>>

\* The native session is saved and detached, or closed if there is no checkpoint.
Leave(c) ==
  /\ at[c] = "leave"
  /\ conversation' = [conversation EXCEPT ![c] = None]
  /\ \E r \in {outcome[c]} \cup (IF outcome[c] = "ok" THEN {"error"} ELSE {}) :
       outcome' = [outcome EXCEPT ![c] = Saved(c, r)]
  /\ Steps(c, "publish")
  /\ UNCHANGED <<files, job, stopped, callers, history>>

Closure(r) == IF r = "ok" THEN "ok" ELSE "error"

\* A close releases the native session; closed.json says how that went, unless
\* it cannot be written.
CloseNative(c) ==
  /\ at[c] = "close"
  /\ conversation' = [conversation EXCEPT ![c] = None]
  /\ \/ \E r \in IF outcome[c] # None THEN {outcome[c]}
                ELSE {"ok"} \cup (IF conversation[c] # None THEN {"error"} ELSE {}) :
          /\ outcome' = [outcome EXCEPT ![c] = Saved(c, r)]
          /\ closed' = [closed EXCEPT ![Session(c)] = Closure(Saved(c, r))]
     \/ outcome' = [outcome EXCEPT ![c] = Saved(c, "error")] /\ UNCHANGED closed
  /\ Steps(c, "publish")
  /\ UNCHANGED <<request, result, events, active, native, job, stopped, callers, history>>

Publish(c) ==
  /\ at[c] = "publish"
  /\ result' = [result EXCEPT ![Op(c)] = outcome[c]]
  /\ Steps(c, IF Op(c) \in Commands THEN "release" ELSE "unlink")
  /\ UNCHANGED <<request, events, active, closed, native, job, conversation, outcome, stopped, callers, history>>

Unlink(c) ==
  /\ at[c] = "unlink"
  /\ active' = [active EXCEPT ![Session(c)] = None]
  /\ Steps(c, "release")
  /\ UNCHANGED <<request, result, events, closed, native, job, conversation, outcome, stopped, callers, history>>

Release(c) ==
  /\ at[c] = "release"
  /\ Ends(c, "eof")
  /\ UNCHANGED <<files, job, conversation, outcome, stopped, callers, history>>

Dies(c) ==
  /\ at[c] \notin {None, "gone"} /\ Cardinality(dead) < MaxDeaths
  /\ dead' = dead \cup {c}
  /\ Ends(c, "eof")
  /\ UNCHANGED <<files, job, conversation, outcome, stopped, callers, starts, ran, accepter>>

(***************************************************************************)
(* A caller.                                                               *)
(***************************************************************************)

CallerOnly == UNCHANGED <<files, locks, history>>

Goes(c, p) == pc' = [pc EXCEPT ![c] = p] /\ UNCHANGED answer

Answers(c, a) == pc' = [pc EXCEPT ![c] = "done"] /\ answer' = [answer EXCEPT ![c] = a]

\* Launch: the worker is on its way.
Launched(c) == at' = [at EXCEPT ![c] = "claim"] /\ Goes(c, "startup")

Submit(c) ==
  /\ pc[c] = "idle"
  /\ IF Op(c) \in Closes THEN Goes(c, "look") /\ UNCHANGED at ELSE Launched(c)
  /\ UNCHANGED <<job, conversation, outcome, stopped, reply, target, seen, cancelled>> /\ CallerOnly

\* Adapter.Close: the saved closure, else the turn that runs is looked up.
CloseLooks(c) ==
  LET s == Session(c)
      o == active[s]
  IN /\ pc[c] = "look"
     /\ IF closed[s] # None
          THEN Answers(c, closed[s]) /\ UNCHANGED <<at, target>>
          ELSE IF o # None /\ request[o] # None /\ result[o] = None
          THEN Goes(c, "stop") /\ target' = [target EXCEPT ![c] = o] /\ UNCHANGED at
          ELSE Launched(c) /\ UNCHANGED target
     /\ UNCHANGED <<job, conversation, outcome, stopped, reply, seen, cancelled>> /\ CallerOnly

\* A cancel control reaches the owner of o, if it has one.
Stopped(o) == [w \in Callers |-> stopped[w] \/ (lease[o] = w /\ at[w] # "release")]

CloseCancels(c) ==
  /\ pc[c] = "stop" /\ result[target[c]] = None
  /\ IF Orphan(target[c])
       THEN Answers(c, "panic") /\ UNCHANGED stopped
       ELSE \/ stopped' = Stopped(target[c]) /\ stopped' # stopped /\ UNCHANGED <<pc, answer>>
            \/ Answers(c, "error") /\ UNCHANGED stopped  \* the call failed, the owner lives
  /\ UNCHANGED <<at, job, conversation, outcome, reply, target, seen, cancelled>> /\ CallerOnly

\* It waits for the turn's result; an error of the turn is the close's.
CloseGoesOn(c) ==
  /\ pc[c] = "stop" /\ result[target[c]] # None
  /\ IF result[target[c]] \in {"error", "uncertain"}
       THEN Answers(c, result[target[c]]) /\ UNCHANGED at
       ELSE Launched(c)
  /\ UNCHANGED <<job, conversation, outcome, stopped, reply, target, seen, cancelled>> /\ CallerOnly

\* Launch failed: an operation that was accepted with these inputs is observed.
NotStarted(c, a) ==
  LET o == Op(c) IN
  IF request[o] = Input(c)
    THEN IF Orphan(o) THEN Answers(c, "panic") ELSE Goes(c, "read")
    ELSE Answers(c, a)

StartupReply(c) ==
  /\ pc[c] = "startup" /\ reply[c] # None
  /\ IF reply[c] = "descriptor" THEN Goes(c, "read") ELSE NotStarted(c, "refused")
  /\ UNCHANGED <<workers, target, seen, cancelled>> /\ CallerOnly

\* Two minutes have passed.
StartupTimeout(c) ==
  /\ pc[c] = "startup" /\ reply[c] = None
  /\ NotStarted(c, "timeout")
  /\ UNCHANGED <<workers, target, seen, cancelled>> /\ CallerOnly

\* Wait: events, then the result, then the events that came before it.
ReadEvents(c) ==
  /\ pc[c] = "read"
  /\ seen' = [seen EXCEPT ![c] = events[Op(c)]]
  /\ Goes(c, "check")
  /\ UNCHANGED <<workers, target, cancelled>> /\ CallerOnly

Check(c) ==
  /\ pc[c] = "check"
  /\ Goes(c, IF result[Op(c)] # None THEN "drain" ELSE "assert")
  /\ UNCHANGED <<workers, target, seen, cancelled>> /\ CallerOnly

\* RunTurn after its ctx was cancelled: an error that is not a cancellation
\* leaves open whether the native turn has stopped.
Answered(c, r) == IF cancelled[c] # "no" /\ r = "error" THEN "uncertain" ELSE r

\* Mutant: the events read before the result are taken for all of them.
DrainNothing(c) ==
  /\ pc[c] = "drain"
  /\ Answers(c, Answered(c, result[Op(c)]))
  /\ UNCHANGED <<workers, target, seen, cancelled>> /\ CallerOnly

\* The result is there, and all the events were written before it.
Drain(c) ==
  /\ pc[c] = "drain"
  /\ seen' = [seen EXCEPT ![c] = events[Op(c)]]
  /\ Answers(c, Answered(c, result[Op(c)]))
  /\ UNCHANGED <<workers, target, cancelled>> /\ CallerOnly

\* Mutant: the result is not looked for again once the lock is held.
AbandonedByLock(o) == request[o] # None /\ lease[o] = None

Abandoned(o) == Orphan(o)

\* Mutant: a poll that fails is only tried again.
PollAgain(c) ==
  /\ pc[c] = "assert" /\ cancelled[c] # "yes"
  /\ Goes(c, "read")
  /\ UNCHANGED <<workers, target, seen, cancelled>> /\ CallerOnly

\* executor.Wait; a poll that finds nothing new is not a step.  AssertOwner looks
\* for the result again once it holds the lock.
AssertOwner(c) ==
  LET o == Op(c) IN
  /\ pc[c] = "assert" /\ cancelled[c] # "yes"
  /\ \/ Abandoned(o) /\ Answers(c, "panic")
     \/ ~Abandoned(o) /\ (result[o] # None \/ events[o] > seen[c]) /\ Goes(c, "read")
  /\ UNCHANGED <<workers, target, seen, cancelled>> /\ CallerOnly

\* The workflow's ctx is done; the turn is told, and given time to end.
Cancel(c) ==
  /\ pc[c] \in {"startup", "read", "check", "assert", "drain"} /\ Op(c) \in Turns /\ cancelled[c] = "no"
  /\ Cardinality({x \in Callers : cancelled[x] # "no"}) < MaxCancels
  /\ cancelled' = [cancelled EXCEPT ![c] = "yes"]
  /\ UNCHANGED <<workers, pc, target, seen, answer>> /\ CallerOnly

TellTurn(c) ==
  /\ pc[c] = "assert" /\ cancelled[c] = "yes"
  /\ cancelled' = [cancelled EXCEPT ![c] = "told"]
  /\ stopped' = Stopped(Op(c))
  /\ UNCHANGED <<at, job, conversation, outcome, reply, pc, target, seen, answer>> /\ CallerOnly

GiveUp(c) ==
  /\ pc[c] = "assert" /\ cancelled[c] = "told" /\ result[Op(c)] = None
  /\ Answers(c, "uncertain")
  /\ UNCHANGED <<workers, target, seen, cancelled>> /\ CallerOnly

(***************************************************************************)
(* The specification.                                                      *)
(***************************************************************************)

Worker(c) ==
  \/ Claim(c) \/ Enter(c) \/ Accept(c) \/ Startup(c) \/ Setup(c) \/ Fork(c) \/ Save(c)
  \/ Run(c) \/ Emit(c) \/ NativeEnds(c) \/ Leave(c) \/ CloseNative(c) \/ Publish(c) \/ Unlink(c) \/ Release(c)

Caller(c) ==
  \/ CloseLooks(c) \/ CloseCancels(c) \/ CloseGoesOn(c) \/ StartupReply(c) \/ ReadEvents(c) \/ Check(c)
  \/ Drain(c) \/ AssertOwner(c) \/ TellTurn(c)

\* What nothing forces: submissions, cancellations, time running out and deaths.
Environment(c) ==
  Submit(c) \/ StartupTimeout(c) \/ Cancel(c) \/ GiveUp(c) \/ Dies(c)

Terminated == \A c \in Callers : pc[c] = "done" /\ at[c] \in {None, "gone"}

Next ==
  \/ \E c \in Callers : Worker(c) \/ Caller(c) \/ Environment(c)
  \/ Terminated /\ UNCHANGED vars

Spec == Init /\ [][Next]_vars

\* Processes run and native work ends.
FairSpec == Spec /\ WF_vars(\E c \in Callers : Worker(c) \/ Caller(c))

(***************************************************************************)
(* Properties.                                                             *)
(***************************************************************************)

Agreed == INSTANCE Operation WITH
  Absent <- None, accepted <- request, outcome <- result, begun <- [o \in Ops |-> Cardinality(starts[o])]

\* The files, locks and processes keep what the executors promise about an
\* operation, whoever submits it again and whoever dies: one acceptance, one
\* start, one final result (README.md, "Gimbal never automatically resubmits it").
ImplementsOperation == Agreed!Spec

\* The live workers that use a session's native conversation, as their turn or as
\* the parent of a fork.
Using(s) ==
  {c \in Callers :
     \/ at[c] \in {"setup", "fork", "save", "run", "native", "leave", "close"} /\ Op(c) \notin Commands /\ Session(c) = s
     \/ at[c] = "fork" /\ ParentOf[Session(c)] = s}

\* A session is one conversation with one user at a time: no two live workers use
\* it, and all its turns run on the conversation that the checkpoint held before
\* the first of them started.
OneConversation ==
  /\ \A s \in Sessions : Cardinality(Using(s)) <= 1
  /\ \A o, p \in Turns : ran[o] # None /\ ran[p] # None /\ SessionOf[o] = SessionOf[p] => ran[o] = ran[p]

\* An observer panics only over an operation whose owner is lost for good: a worker
\* that had accepted it, its own or the one its close had to stop, died, and the
\* operation never gets another owner or a result.  A result that is late, a closed
\* socket or a released lock is no evidence of that.
PanicMeansLoss ==
  \A c \in Callers : answer[c] = "panic" =>
    \E d \in accepter \cap dead : Op(d) \in {Op(c), target[c]} /\ Orphan(Op(d))

\* A caller that has a turn's result has every event of the turn.
EventsComplete ==
  \A c \in Callers : answer[c] \in Outcomes /\ Op(c) \in Turns /\ cancelled[c] = "no" =>
    seen[c] = events[Op(c)]

\* A close that succeeds leaves the session closed: no turn runs on it, not even
\* one that was launched before the close and admitted late.  (A close under
\* another identity may still replace a saved "ok" by its own error.)
CloseIsFinal ==
  \A c \in Callers : answer[c] = "ok" /\ Op(c) \in Closes =>
    /\ closed[Session(c)] # None
    /\ ~\E w \in Callers : at[w] \in {"run", "native"} /\ Op(w) \in Turns /\ Session(w) = Session(c)

\* Whoever submits or observes gets an answer.
EveryCallerAnswered == []<>(\A c \in Callers : pc[c] \in {"idle", "done"})
=============================================================================
