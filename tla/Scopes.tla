------------------------------- MODULE Scopes -------------------------------
(***************************************************************************)
(* The tree of scopes of one run (scope.go), the ways a workflow body      *)
(* opens them (Scope, Group, Iterate, PromiseLoop), the services a scope   *)
(* owns (service.go) and the operator's controls that reach a live scope   *)
(* by its key (CancelScope and SteerLoop in run.go).                       *)
(*                                                                         *)
(* A scope's body is one goroutine.  Besides it run: the AfterFunc of each *)
(* scope whose ctx is done, which tears the scope down, the wait goroutine *)
(* of each service, and the operator.  Every step is a stretch between two *)
(* places where another of them can come in.                               *)
(*                                                                         *)
(* Abstractions.  An error is the set of what errors.Is and errors.AsType  *)
(* find in it, so that errors.Join is a union.  A turn and a command are   *)
(* one blocking call each; sessions are module Session.  The caller of     *)
(* Group only calls Go and Wait until Wait returns.  Each scope of the     *)
(* tree is opened at most once, and each service is started at most once.  *)
(* Values, prompts, plans and the record of lifecycle events are left out, *)
(* as are remote services: the task environment stops those.               *)
(***************************************************************************)
EXTENDS Naturals, Sequences, FiniteSets, SequencesExt

CONSTANTS
  Scopes, Services,
  Messages,    \* what an operator may send to a planner
  Root,
  Trees,       \* the shapes of workflow that are explored
  MaxKills     \* bound: scopes the operator cancels

None == "none"
Kinds == {"root", "scope", "item", "group", "loop", "task"}
Places == {"none", "admitted", "created", "store", "open", "child", "command", "turn", "service", "wait",
           "returned", "ended"}
Causes == {"plain", "killed", "svc"}
Tags == {"err", "canceled", "killed", "svc", "cleanup"}

\* A shape: each scope's kind, its ancestors (itself included) and the calls its
\* body makes, and the scope that starts a service.  A scope other than Root
\* without a parent, or a service without an owner, takes no part.  Nothing is above
\* itself, and Go and Tasks are the only ways to open what a group and a loop hold.
ASSUME TreesAreTrees ==
  \A t \in Trees :
    /\ t.parent \in [Scopes -> Scopes \cup {None}] /\ t.kind \in [Scopes -> Kinds]
    /\ t.calls \in [Scopes -> SUBSET {"command", "turn"}]
    /\ t.owner \in [Services -> Scopes \cup {None}] /\ t.above \in [Scopes -> SUBSET Scopes]
    /\ t.parent[Root] = None /\ t.kind[Root] = "root"
    /\ \A s \in Scopes : t.above[s] = {s} \cup (IF t.parent[s] = None THEN {} ELSE t.above[t.parent[s]])
    /\ \A s \in Scopes : \A x \in t.above[s] \ {s} : \E c \in t.above[s] : t.parent[c] = x
    /\ \A s \in Scopes : t.parent[s] # None =>
         /\ s \notin t.above[t.parent[s]]
         /\ t.kind[s] = "task" <=> t.kind[t.parent[s]] = "loop"
         /\ t.kind[t.parent[s]] = "group" => t.kind[s] = "scope"
ASSUME BoundsAreNumbers == MaxKills \in Nat /\ Root \in Scopes /\ None \notin Scopes

VARIABLES
  tree,        \* the shape of this run
  \* a scope
  at,          \* where its body is
  cause,       \* context.Cause of its ctx, None while the ctx is not done
  ended, live, \* s.ended; it is in run.scopes
  children,    \* those its teardown ends
  tear,        \* how far stopOwnedWork has come
  err,         \* open: what the last call returned; then the body's error, then the scope's
  serviceErr, endErr,
  services,    \* in the order they were adopted
  dispatching, queue,
  record,      \* what its Steer records say of a message
  \* a service
  call,        \* where the Service call is
  proc,        \* the process group
  stopping, wait, verdict,
  stop,        \* how far stop has come
  crashed,     \* what the process panicked of
  \* history and bounds
  cut,         \* scopes whose ctx was done before their body returned
  aborted,     \* the child whose error cancelled the group
  killed,      \* scopes an operator's kill reached
  kills

scopeVars   == <<at, cause, ended, live, children, tear, err, serviceErr, endErr>>
serviceVars == <<services, call, proc, stopping, wait, verdict, stop>>
loopVars    == <<dispatching, queue, record>>
history     == <<cut, aborted, killed, kills>>
vars        == <<tree, scopeVars, serviceVars, loopVars, crashed, history>>

Parent(s) == tree.parent[s]
Kind(s)   == tree.kind[s]
Owner(v)  == tree.owner[v]

Started   == {v \in Services : call[v] # "none"}

Begun(s)  == at[s] \notin {"none", "admitted", "created"}
Done(s)   == cause[s] # None  \* ctx.Done()

BodyTypes ==
  /\ at \in [Scopes -> Places]
  /\ cause \in [Scopes -> Causes \cup {None}]
  /\ err \in [Scopes -> SUBSET Tags]

TearTypes ==
  /\ ended \in [Scopes -> BOOLEAN] /\ live \in [Scopes -> BOOLEAN]
  /\ children \in [Scopes -> SUBSET Scopes]
  /\ tear \in [Scopes -> {"idle", "children", "services", "done"}]
  /\ serviceErr \in [Scopes -> BOOLEAN] /\ endErr \in [Scopes -> BOOLEAN]

ServiceTypes ==
  /\ services \in [Scopes -> Seq(Services)]
  /\ call \in [Services -> {"none", "started", "refused", "polling", "returned"}]
  /\ proc \in [Services -> {"none", "up", "down"}]
  /\ stopping \in [Services -> BOOLEAN]
  /\ wait \in [Services -> {"none", "running", "classified", "reported", "done"}]
  /\ verdict \in [Services -> {None, "unexpected", "intended"}]
  /\ stop \in [Services -> {"none", "signalled", "stopped", "failed"}]

LoopTypes ==
  /\ dispatching \in [Scopes -> BOOLEAN]
  /\ queue \in [Scopes -> SUBSET Messages]
  /\ record \in [Scopes -> [Messages -> {None, "waiting", "landed", "dropped"}]]

HistoryTypes ==
  /\ crashed \in {None, "unbegun", "store"}
  /\ cut \subseteq Scopes /\ aborted \in [Scopes -> Scopes \cup {None}]
  /\ killed \subseteq Scopes /\ kills \in 0..MaxKills

TypeOK == tree \in Trees /\ BodyTypes /\ TearTypes /\ ServiceTypes /\ LoopTypes /\ HistoryTypes

Init ==
  /\ tree \in Trees
  /\ at = [s \in Scopes |-> IF s = Root THEN "open" ELSE "none"]
  /\ cause = [s \in Scopes |-> None]
  /\ ended = [s \in Scopes |-> FALSE]
  /\ live = [s \in Scopes |-> s = Root]
  /\ children = [s \in Scopes |-> {}]
  /\ tear = [s \in Scopes |-> "idle"]
  /\ err = [s \in Scopes |-> {}]
  /\ serviceErr = [s \in Scopes |-> FALSE]
  /\ endErr = [s \in Scopes |-> FALSE]
  /\ services = [s \in Scopes |-> <<>>]
  /\ dispatching = [s \in Scopes |-> FALSE]
  /\ queue = [s \in Scopes |-> {}]
  /\ call = [v \in Services |-> "none"]
  /\ proc = [v \in Services |-> "none"]
  /\ stopping = [v \in Services |-> FALSE]
  /\ wait = [v \in Services |-> "none"]
  /\ verdict = [v \in Services |-> None]
  /\ stop = [v \in Services |-> "none"]
  /\ record = [s \in Scopes |-> [m \in Messages |-> None]]
  /\ crashed = None
  /\ cut = {} /\ aborted = [s \in Scopes |-> None] /\ killed = {} /\ kills = 0

(***************************************************************************)
(* Cancellation.                                                           *)
(***************************************************************************)

\* cancel(c): the ctx of s and every ctx derived from it, if not done before.
Cancelled(s, c) ==
  [x \in Scopes |-> IF s \in tree.above[x] /\ Begun(x) /\ ~Done(x) THEN c ELSE cause[x]]

\* endedError and Generate report ctx's error with its cause.
CauseError(s) ==
  {"canceled"} \cup (IF cause[s] \in {"killed", "svc"} THEN {cause[s]} ELSE {})

\* failService: the first failure is kept, and cancels the scope.
FailService(s) ==
  /\ serviceErr' = [serviceErr EXCEPT ![s] = TRUE]
  /\ cause' = IF serviceErr[s] THEN cause ELSE Cancelled(s, "svc")

(***************************************************************************)
(* The body of a scope.                                                    *)
(***************************************************************************)

\* Bodies the workflow writes; those of a group and a loop are gimbal's own.
Running(s) == at[s] = "open" /\ Kind(s) \notin {"group", "loop"}

\* Scope, Group and Tasks ask current(ctx) first.
Open(s, c) ==
  /\ Running(s) /\ at[c] = "none" /\ Parent(c) = s /\ Kind(c) \in {"scope", "group", "loop"}
  /\ IF ended[s]
       THEN err' = [err EXCEPT ![s] = CauseError(s)] /\ UNCHANGED at
       ELSE at' = [at EXCEPT ![s] = "child", ![c] = "admitted"] /\ UNCHANGED err
  /\ UNCHANGED <<cause, ended, live, children, tear, serviceErr, endErr>>

\* Iterate looks at ctx before each item.
OpenItem(s, c) ==
  /\ Running(s) /\ at[c] = "none" /\ Parent(c) = s /\ Kind(c) = "item"
  /\ ~ended[s] /\ ~Done(s)
  /\ at' = [at EXCEPT ![s] = "child", ![c] = "admitted"]
  /\ UNCHANGED <<cause, ended, live, children, tear, err, serviceErr, endErr>>

\* scope.child.  A scope that has ended no longer looks at its children.
Attached(c) ==
  children' = IF ended[Parent(c)] THEN children ELSE [children EXCEPT ![Parent(c)] = @ \cup {c}]

Attach(c) ==
  /\ at[c] = "admitted"
  /\ at' = [at EXCEPT ![c] = "created"]
  /\ Attached(c)
  /\ dispatching' = [dispatching EXCEPT ![c] = Kind(c) = "loop"]
  /\ UNCHANGED <<cause, ended, live, tear, err, serviceErr, endErr>>

\* begin: the ctx, derived from the parent's, and the entry in run.scopes.
Begin(c) ==
  /\ at[c] = "created"
  /\ at' = [at EXCEPT ![c] = IF Kind(c) = "task" THEN "store" ELSE "open"]
  /\ cause' = [cause EXCEPT ![c] = cause[Parent(c)]]
  /\ live' = [live EXCEPT ![c] = TRUE]
  /\ UNCHANGED <<ended, children, tear, err, serviceErr, endErr>>

\* RunCommand and Generate.  With a ctx that is done they return at once.
StartCall(s, k) ==
  /\ Running(s) /\ k \in tree.calls[s]
  /\ IF ended[s] \/ Done(s)
       THEN /\ err' = [err EXCEPT ![s] = IF ended[s] \/ k = "turn" THEN CauseError(s) ELSE {"canceled"}]
            /\ UNCHANGED at
       ELSE at' = [at EXCEPT ![s] = k] /\ UNCHANGED err
  /\ UNCHANGED <<cause, ended, live, children, tear, serviceErr, endErr>>

\* A command's error is ctx.Err() alone, a turn's has the cause as well.
CommandError(s) == {"canceled"}

CallReturns(s) ==
  /\ at[s] \in {"command", "turn"} /\ Kind(s) # "loop"
  /\ at' = [at EXCEPT ![s] = "open"]
  /\ \/ \E e \in {{}, {"err"}} : err' = [err EXCEPT ![s] = e]
     \/ Done(s) /\ err' = [err EXCEPT ![s] = IF at[s] = "turn" THEN CauseError(s) ELSE CommandError(s)]
  /\ UNCHANGED <<cause, ended, live, children, tear, serviceErr, endErr>>

\* The body returns nil or what its last call returned.  The bodies that Iterate
\* and Tasks wrap around the workflow's do not return its error.
BodyErrors(s) ==
  IF Kind(s) = "item" THEN {{}}
  ELSE IF Kind(s) = "task" THEN {IF cause[s] = "killed" THEN {"killed"} ELSE {}}
  ELSE {{}, err[s]}

Returned(s, e) ==
  /\ at' = [at EXCEPT ![s] = "returned"]
  /\ err' = [err EXCEPT ![s] = e]
  /\ cut' = IF Done(s) THEN cut \cup {s} ELSE cut

Return(s) ==
  /\ Running(s)
  /\ \E e \in BodyErrors(s) : Returned(s, e)
  /\ UNCHANGED <<cause, ended, live, children, tear, serviceErr, endErr>>

(***************************************************************************)
(* Groups.                                                                 *)
(***************************************************************************)

\* Go adds the child whether or not the group has ended; its goroutine begins it.
Go(g, c) ==
  /\ at[g] = "open" /\ Kind(g) = "group" /\ Parent(c) = g /\ at[c] = "none"
  /\ at' = [at EXCEPT ![c] = "created"]
  /\ Attached(c)
  /\ UNCHANGED <<cause, ended, live, tear, err, serviceErr, endErr>>

Wait(g) ==
  /\ at[g] = "open" /\ Kind(g) = "group"
  /\ at' = [at EXCEPT ![g] = "wait"]
  /\ UNCHANGED <<cause, ended, live, children, tear, err, serviceErr, endErr>>

Joined(g) ==
  /\ at[g] = "wait" /\ Kind(g) = "group"
  /\ \A c \in Scopes : Parent(c) = g => at[c] \in {"none", "ended"}
  /\ Returned(g, err[g])
  /\ UNCHANGED <<cause, ended, live, children, tear, serviceErr, endErr>>

(***************************************************************************)
(* Teardown: end, once, by whoever comes first: the AfterFunc of a ctx     *)
(* that is done, the parent's teardown, or the scope's own finish.         *)
(***************************************************************************)

EndCalled(s) ==
  \/ Begun(s) /\ Done(s)
  \/ at[s] = "returned"
  \/ Parent(s) # None /\ tear[Parent(s)] = "children" /\ s \in children[Parent(s)]

\* Under s.mu the scope takes nothing more and its services are told; then its
\* ctx, which only a body that has returned finds not done yet, is cancelled.
TearStart(s) ==
  /\ tear[s] = "idle" /\ EndCalled(s)
  /\ tear' = [tear EXCEPT ![s] = "children"]
  /\ cause' = IF Begun(s) THEN Cancelled(s, "plain") ELSE cause
  /\ ended' = [ended EXCEPT ![s] = TRUE]
  /\ live' = [live EXCEPT ![s] = FALSE]
  /\ stopping' = [v \in Services |-> stopping[v] \/ v \in ToSet(services[s])]
  /\ queue' = [queue EXCEPT ![s] = {}]
  /\ UNCHANGED <<at, children, err, serviceErr, endErr>>
  /\ UNCHANGED <<services, call, proc, wait, verdict, stop, dispatching, record>>

\* The children are torn down, then sessions and remote work.  A scope that
\* was not begun has no ctx to look the environment up in.
ChildrenDone(s) == \A c \in children[s] : tear[c] = "done"

TearWork(s) ==
  /\ tear[s] = "children" /\ ChildrenDone(s) /\ Begun(s)
  /\ tear' = [tear EXCEPT ![s] = "services"]
  /\ endErr' = [endErr EXCEPT ![s] = \E c \in children[s] : endErr[c]]
  /\ UNCHANGED <<at, cause, ended, live, children, err, serviceErr>>

TearPanics(s) ==
  /\ tear[s] = "children" /\ ChildrenDone(s) /\ ~Begun(s)
  /\ crashed' = "unbegun"

TearDone(s) ==
  /\ tear[s] = "services"
  /\ \A v \in ToSet(services[s]) : stop[v] \in {"stopped", "failed"}
  /\ tear' = [tear EXCEPT ![s] = "done"]
  /\ endErr' = [endErr EXCEPT ![s] = @ \/ \E v \in ToSet(services[s]) : stop[v] = "failed"]
  /\ UNCHANGED <<at, cause, ended, live, children, err, serviceErr>>

\* finish: the scope's error.
ScopeError(s) ==
  (IF serviceErr[s] /\ (err[s] = {} \/ "canceled" \in err[s]) THEN {"svc"}
   ELSE err[s] \cup (IF serviceErr[s] THEN {"svc"} ELSE {}))
  \cup (IF endErr[s] THEN {"cleanup"} ELSE {})

\* A mutant of TaskEndsLoop: a killed task is an error like any other.
TaskErrorEndsLoop(l, e) == e # {}

\* A loop goes on after a task that was killed alone.
TaskEndsLoop(l, e) == e # {} /\ (Done(l) \/ "killed" \notin e)

\* finish has returned to the caller of Run, Scope, Group's Wait or Tasks.
Finish(s) ==
  /\ at[s] = "returned" /\ tear[s] = "done" /\ Kind(s) \in {"root", "scope", "group", "loop"}
  /\ Parent(s) # None => Kind(Parent(s)) # "group"
  /\ err' = [x \in Scopes |-> IF x \in {s, Parent(s)} THEN ScopeError(s) ELSE err[x]]
  /\ at' = [x \in Scopes |-> IF x = s THEN "ended" ELSE IF x = Parent(s) THEN "open" ELSE at[x]]
  /\ UNCHANGED <<cause, ended, live, children, tear, serviceErr, endErr>>

\* A child of a group: the first error is the group's, and unless it is a kill
\* it cancels the others.
AbortsGroup(e) == e # {} /\ "killed" \notin e

FinishChild(s) ==
  LET e == ScopeError(s)
      g == Parent(s)
  IN /\ at[s] = "returned" /\ tear[s] = "done" /\ g # None /\ Kind(g) = "group"
     /\ err' = [err EXCEPT ![s] = e, ![g] = IF @ = {} THEN e ELSE @]
     /\ at' = [at EXCEPT ![s] = "ended"]
     /\ cause' = IF AbortsGroup(e) THEN Cancelled(g, "plain") ELSE cause
     /\ aborted' = IF AbortsGroup(e) /\ ~Done(g) THEN [aborted EXCEPT ![g] = s] ELSE aborted
     /\ UNCHANGED <<ended, live, children, tear, serviceErr, endErr>>

\* Iterate has no error to return: an item's error fails the enclosing scope.
FinishItem(s) ==
  LET e == ScopeError(s)
      p == Parent(s)
  IN /\ at[s] = "returned" /\ tear[s] = "done" /\ Kind(s) = "item"
     /\ err' = [err EXCEPT ![s] = e, ![p] = {}]
     /\ at' = [at EXCEPT ![s] = "ended", ![p] = "open"]
     /\ IF e # {} THEN FailService(p) ELSE UNCHANGED <<cause, serviceErr>>
     /\ UNCHANGED <<ended, live, children, tear, endErr>>

FinishTask(s) ==
  LET e == ScopeError(s)
      l == Parent(s)
  IN /\ at[s] = "returned" /\ tear[s] = "done" /\ Kind(s) = "task"
     /\ err' = [err EXCEPT ![s] = e, ![l] = IF TaskEndsLoop(l, e) THEN e ELSE {}]
     /\ at' = [at EXCEPT ![s] = "ended", ![l] = IF TaskEndsLoop(l, e) THEN "wait" ELSE "open"]
     /\ UNCHANGED <<cause, ended, live, children, tear, serviceErr, endErr>>

(***************************************************************************)
(* Planner loops.                                                          *)
(***************************************************************************)

\* The messages in a loop's queue are recorded as r.
Recorded(l, r) == [m \in Messages |-> IF m \in queue[l] THEN r ELSE record[l][m]]

\* planNext: it returns early when the planner cannot be reached; otherwise the
\* messages that waited are in the prompt, then the planner runs.
PlanNext(l) ==
  /\ at[l] = "open" /\ Kind(l) = "loop"
  /\ \/ /\ at' = [at EXCEPT ![l] = "wait"]
        /\ err' = [err EXCEPT ![l] = IF ended[l] THEN CauseError(l) ELSE {"err"}]
        /\ UNCHANGED <<queue, record>>
     \/ /\ ~ended[l]
        /\ at' = [at EXCEPT ![l] = "turn"] /\ UNCHANGED err
        /\ record' = [record EXCEPT ![l] = Recorded(l, "landed")]
        /\ queue' = [queue EXCEPT ![l] = {}]
  /\ UNCHANGED <<cause, ended, live, children, tear, serviceErr, endErr, dispatching>>

\* The planner failed, was cancelled or ended dispatch; recordPlan asks current(ctx).
PlanEnds(l) ==
  /\ at[l] = "turn" /\ Kind(l) = "loop"
  /\ at' = [at EXCEPT ![l] = "wait"]
  /\ \/ ~ended[l] /\ \E e \in {{}, {"err"}} : err' = [err EXCEPT ![l] = e]
     \/ Done(l) /\ err' = [err EXCEPT ![l] = CauseError(l)]
  /\ UNCHANGED <<cause, ended, live, children, tear, serviceErr, endErr>>

\* A task of the plan.
PlanTask(l, c) ==
  /\ at[l] = "turn" /\ ~ended[l] /\ Kind(c) = "task" /\ Parent(c) = l /\ at[c] = "none"
  /\ at' = [at EXCEPT ![l] = "child", ![c] = "created"]
  /\ Attached(c)
  /\ UNCHANGED <<cause, ended, live, tear, err, serviceErr, endErr>>

\* The first thing a task's body does is to store the task; store panics in a
\* scope that has ended.
StoreTask(c) ==
  /\ at[c] = "store"
  /\ IF ended[c]
       THEN crashed' = "store" /\ UNCHANGED at
       ELSE at' = [at EXCEPT ![c] = "open"] /\ UNCHANGED crashed
  /\ UNCHANGED <<cause, ended, live, children, tear, err, serviceErr, endErr>>

\* The deferred endLoop: current(ctx), then endDispatch.
EndLoop(l) ==
  /\ at[l] = "wait" /\ Kind(l) = "loop"
  /\ IF ended[l]
       THEN UNCHANGED loopVars
       ELSE /\ dispatching' = [dispatching EXCEPT ![l] = FALSE]
            /\ record' = [record EXCEPT ![l] = Recorded(l, "dropped")]
            /\ queue' = [queue EXCEPT ![l] = {}]
  /\ Returned(l, err[l])
  /\ UNCHANGED <<cause, ended, live, children, tear, serviceErr, endErr>>

\* A mutant of Reachable: endDispatch is not looked at.
ReachableUntilEnded(l) == ~ended[l]

\* queueMessage reports whether the message will be read.
Reachable(l) == dispatching[l] /\ ~ended[l]

SteerLoop(l, m) ==
  /\ live[l] /\ Kind(l) = "loop" /\ record[l][m] = None /\ Reachable(l)
  /\ queue' = [queue EXCEPT ![l] = @ \cup {m}]
  /\ record' = [record EXCEPT ![l][m] = "waiting"]
  /\ UNCHANGED dispatching

\* The operator's kill of a live scope.
CancelScope(s) ==
  /\ live[s] /\ kills < MaxKills
  /\ kills' = kills + 1
  /\ cause' = Cancelled(s, "killed")
  /\ killed' = killed \cup {x \in Scopes : s \in tree.above[x] /\ Begun(x) /\ ~Done(x)}
  /\ UNCHANGED <<at, ended, live, children, tear, err, serviceErr, endErr, cut, aborted>>

(***************************************************************************)
(* Services.                                                               *)
(***************************************************************************)

\* A mutant of MayStart: ctx.Err() is not asked.
MayStartUnlessEnded(s) == ~ended[s]

\* Service: current(ctx) and ctx.Err(), then the process is started, or fails to.
MayStart(s) == ~ended[s] /\ ~Done(s)

StartService(s, v) ==
  /\ Running(s) /\ Owner(v) = s /\ call[v] = "none"
  /\ \/ /\ MayStart(s)
        /\ at' = [at EXCEPT ![s] = "service"]
        /\ call' = [call EXCEPT ![v] = "started"] /\ proc' = [proc EXCEPT ![v] = "up"]
        /\ UNCHANGED err
     \/ /\ err' = [err EXCEPT ![s] = IF MayStart(s) THEN {"err"}
                                    ELSE IF ended[s] THEN CauseError(s) ELSE {"canceled"}]
        /\ UNCHANGED <<at, call, proc>>
  /\ UNCHANGED <<cause, ended, live, children, tear, serviceErr, endErr>>
  /\ UNCHANGED <<services, stopping, wait, verdict, stop>>

\* A mutant of Adopts: a scope that has ended takes the service.
AdoptsAlways(s) == Begun(s)

\* adoptService, and the wait goroutine.  A service the scope no longer takes is
\* stopped by the call itself, beside that goroutine.
Adopts(s) == ~ended[s]

AdoptService(v) ==
  /\ call[v] = "started"
  /\ IF Adopts(Owner(v))
       THEN /\ services' = [services EXCEPT ![Owner(v)] = Append(@, v)]
            /\ call' = [call EXCEPT ![v] = "polling"]
       ELSE call' = [call EXCEPT ![v] = "refused"] /\ UNCHANGED services
  /\ wait' = [wait EXCEPT ![v] = "running"]
  /\ UNCHANGED <<proc, stopping, verdict, stop>>

\* The Service call returns to the body.
ServiceReturns(v, e) ==
  /\ call' = [call EXCEPT ![v] = "returned"]
  /\ at' = [at EXCEPT ![Owner(v)] = "open"]
  /\ err' = [err EXCEPT ![Owner(v)] = e]
  /\ UNCHANGED <<ended, live, children, tear, endErr>>
  /\ UNCHANGED <<services, proc, stopping, wait, verdict, stop>>

\* The readiness file is there, and its outputs are published or are not.
ServiceReady(v) ==
  /\ call[v] = "polling"
  /\ \/ ServiceReturns(v, {}) /\ UNCHANGED <<cause, serviceErr>>
     \/ ServiceReturns(v, {"err"}) /\ FailService(Owner(v))

\* It exited before, or ctx is done.
ServiceUnready(v) ==
  /\ call[v] = "polling"
  /\ \/ wait[v] = "done" /\ ServiceReturns(v, {"err"})
     \/ Done(Owner(v)) /\ ServiceReturns(v, {"canceled"})
  /\ UNCHANGED <<cause, serviceErr>>

ServiceRefused(v) ==
  /\ call[v] = "refused" /\ stop[v] \in {"stopped", "failed"}
  /\ ServiceReturns(v, {"err"}) /\ UNCHANGED <<cause, serviceErr>>

ServiceExits(v) ==
  /\ proc[v] = "up"
  /\ proc' = [proc EXCEPT ![v] = "down"]
  /\ UNCHANGED <<services, call, stopping, wait, verdict, stop>>

\* wait, under the service's mutex: was the exit asked for?
Classify(v) ==
  /\ wait[v] = "running" /\ proc[v] = "down"
  /\ wait' = [wait EXCEPT ![v] = "classified"]
  /\ verdict' = [verdict EXCEPT ![v] = IF stopping[v] THEN "intended" ELSE "unexpected"]
  /\ UNCHANGED <<services, call, proc, stopping, stop>>

\* A mutant of Report: stopping is read again, and relabels the exit.
ReportUnlessStopping(v) ==
  /\ wait[v] = "classified"
  /\ wait' = [wait EXCEPT ![v] = "reported"]
  /\ IF verdict[v] = "unexpected" /\ ~stopping[v]
       THEN FailService(Owner(v)) ELSE UNCHANGED <<cause, serviceErr>>
  /\ UNCHANGED <<at, ended, live, children, tear, err, endErr>>
  /\ UNCHANGED <<services, call, proc, stopping, verdict, stop>>

\* Then the failure is installed, before it is recorded.
Report(v) ==
  /\ wait[v] = "classified"
  /\ wait' = [wait EXCEPT ![v] = "reported"]
  /\ IF verdict[v] = "unexpected" THEN FailService(Owner(v)) ELSE UNCHANGED <<cause, serviceErr>>
  /\ UNCHANGED <<at, ended, live, children, tear, err, endErr>>
  /\ UNCHANGED <<services, call, proc, stopping, verdict, stop>>

\* close(done)
WaitDone(v) ==
  /\ wait[v] = "reported"
  /\ wait' = [wait EXCEPT ![v] = "done"]
  /\ UNCHANGED <<services, call, proc, stopping, verdict, stop>>

\* A scope stops its services from the last to the first.
StopCalled(v) ==
  LET s == Owner(v) IN
  \/ call[v] = "refused"
  \/ /\ tear[s] = "services" /\ v \in ToSet(services[s])
     /\ \A i, j \in DOMAIN services[s] :
          services[s][i] = v /\ i < j => stop[services[s][j]] \in {"stopped", "failed"}

StopService(v) ==
  /\ v \in Started /\ stop[v] = "none" /\ StopCalled(v)
  /\ stop' = [stop EXCEPT ![v] = "signalled"]
  /\ stopping' = [stopping EXCEPT ![v] = TRUE]
  /\ UNCHANGED <<services, call, proc, wait, verdict>>

\* A mutant of StopEnds: no deadline.
StopEndsWithExit(v) ==
  /\ stop[v] = "signalled" /\ wait[v] = "done"
  /\ stop' = [stop EXCEPT ![v] = "stopped"]
  /\ UNCHANGED <<services, call, proc, stopping, wait, verdict>>

\* awaitBoundary: wait is done within the grace, or SIGKILL was needed, and that
\* is an error whether or not it helped.
StopEnds(v) ==
  /\ stop[v] = "signalled"
  /\ \/ wait[v] = "done" /\ stop' = [stop EXCEPT ![v] = "stopped"]
     \/ stop' = [stop EXCEPT ![v] = "failed"]
  /\ UNCHANGED <<services, call, proc, stopping, wait, verdict>>

(***************************************************************************)
(* The specification.                                                      *)
(***************************************************************************)

ScopeOnly == UNCHANGED <<serviceVars, loopVars, crashed, history>>

\* Steps the workflow's author decides on.
Workflow(s) ==
  \/ /\ \/ \E c \in Scopes : Open(s, c) \/ OpenItem(s, c) \/ Go(s, c)
        \/ \E k \in {"command", "turn"} : StartCall(s, k)
        \/ CallReturns(s) \/ Wait(s)
     /\ ScopeOnly
  \/ Return(s) /\ UNCHANGED <<serviceVars, loopVars, crashed, aborted, killed, kills>>
  \/ \E v \in Services : StartService(s, v) /\ UNCHANGED <<loopVars, crashed, history>>

\* Steps of the package in the body's goroutine.
Body(s) ==
  \/ Attach(s) /\ UNCHANGED <<serviceVars, queue, record, crashed, history>>
  \/ (Begin(s) \/ Finish(s) \/ FinishItem(s) \/ FinishTask(s)) /\ ScopeOnly
  \/ FinishChild(s) /\ UNCHANGED <<serviceVars, loopVars, crashed, cut, killed, kills>>
  \/ Joined(s) /\ UNCHANGED <<serviceVars, loopVars, crashed, aborted, killed, kills>>
  \/ PlanNext(s) /\ UNCHANGED <<serviceVars, crashed, history>>
  \/ StoreTask(s) /\ UNCHANGED <<serviceVars, loopVars, history>>
  \/ EndLoop(s) /\ UNCHANGED <<serviceVars, crashed, aborted, killed, kills>>

Planner(l) == (PlanEnds(l) \/ \E c \in Scopes : PlanTask(l, c)) /\ ScopeOnly

Tear(s) ==
  \/ TearStart(s) /\ UNCHANGED <<crashed, history>>
  \/ (TearWork(s) \/ TearDone(s)) /\ ScopeOnly
  \/ TearPanics(s) /\ UNCHANGED <<scopeVars, serviceVars, loopVars, history>>

\* Steps of a service's own goroutine and of the call that starts it.
ServiceStep(v) ==
  /\ \/ (AdoptService(v) \/ Classify(v) \/ WaitDone(v)) /\ UNCHANGED scopeVars
     \/ ServiceUnready(v) \/ ServiceRefused(v) \/ Report(v)
  /\ UNCHANGED <<loopVars, crashed, history>>

Stopping(v) ==
  (StopService(v) \/ StopEnds(v)) /\ UNCHANGED <<scopeVars, loopVars, crashed, history>>

Process(v) ==
  /\ ServiceReady(v) \/ (ServiceExits(v) /\ UNCHANGED scopeVars)
  /\ UNCHANGED <<loopVars, crashed, history>>

Operator(s) ==
  \/ CancelScope(s) /\ UNCHANGED <<serviceVars, loopVars, crashed>>
  \/ \E m \in Messages : SteerLoop(s, m) /\ UNCHANGED <<scopeVars, serviceVars, crashed, history>>

Terminated == at[Root] = "ended" \/ crashed # None

Next ==
  /\ UNCHANGED tree
  /\ \/ /\ crashed = None
        /\ \/ \E s \in Scopes : Workflow(s) \/ Body(s) \/ Planner(s) \/ Tear(s) \/ Operator(s)
           \/ \E v \in Services : ServiceStep(v) \/ Stopping(v) \/ Process(v)
     \/ Terminated /\ UNCHANGED vars

Spec == Init /\ [][Next]_vars

\* Steps that are bound to come: the package's goroutines run, and a workflow
\* and a harness follow a ctx that is done: calls return, bodies return, every
\* group is waited for.
Bound ==
  /\ crashed = None /\ UNCHANGED tree
  /\ \/ \E s \in Scopes :
          \/ Body(s) \/ Tear(s)
          \/ Done(s) /\ (Planner(s) \/ ((CallReturns(s) \/ Wait(s)) /\ ScopeOnly))
          \/ /\ Done(s) /\ Return(s)
             /\ UNCHANGED <<serviceVars, loopVars, crashed, aborted, killed, kills>>
     \/ \E v \in Services : ServiceStep(v) \/ Stopping(v)

FairSpec == Spec /\ WF_vars(Bound)

(***************************************************************************)
(* Properties.                                                             *)
(***************************************************************************)

\* A required service that exited by itself fails its scope (service.go, "Once
\* wait observed the exit first, shutdown cannot relabel it as intentional").  Of a
\* service the scope had refused and could not stop, only its Service call says so.
ServiceFailureSurfaces ==
  \A v \in Started :
    at[Owner(v)] = "ended" /\ verdict[v] = "unexpected" /\ (stop[v] = "failed" => v \in ToSet(services[Owner(v)])) =>
      err[Owner(v)] \cap {"svc", "cleanup"} # {}

\* No process a scope started is left when the scope has ended, unless stopping
\* it failed, and the scope's error says so of a service it had adopted.
NoServiceOutlivesScope ==
  \A v \in Started : at[Owner(v)] = "ended" /\ proc[v] = "up" =>
    /\ stop[v] = "failed"
    /\ v \in ToSet(services[Owner(v)]) => "cleanup" \in err[Owner(v)]

\* When a service is stopped, those its scope started after it and those of the
\* scopes inside have been stopped: nothing loses a service it may still use.
ServicesStopLast ==
  \A v, w \in Started :
    /\ stop[v] # "none" /\ call[v] # "refused" /\ v # w
    /\ w \in ToSet(services[Owner(w)]) /\ v \in ToSet(services[Owner(v)])
    /\ Owner(v) \in tree.above[Owner(w)]
    /\ Owner(v) = Owner(w) =>
         \E i, j \in DOMAIN services[Owner(v)] : i < j /\ services[Owner(v)][i] = v /\ services[Owner(v)][j] = w
    => stop[w] \in {"stopped", "failed"}

\* A kill of one task does not end the loop (loop.go, "a failed task, not a
\* broken loop"): a loop fails with a kill only if its own ctx was done.
KilledTaskSparesLoop ==
  \A l \in Scopes : Kind(l) = "loop" /\ at[l] = "ended" /\ "killed" \in err[l] => l \in cut

\* A message that a loop accepted is recorded as landed or as dropped by the time the
\* loop has ended, if its ctx was not done before its body returned.
MessageRecorded ==
  \A l \in Scopes : Kind(l) = "loop" /\ at[l] = "ended" /\ l \notin cut =>
    \A m \in Messages : record[l][m] # "waiting"

\* A scope whose ctx is done ends: teardown, join and calls never wait for each
\* other in a circle.  (Done and ended stay so.)
CancelledScopesEnd ==
  []<>(\A s \in Scopes : Done(s) => at[s] = "ended" \/ crashed # None)

\* group.go: "A child killed by an operator ... is gone, not an abort: its
\* siblings run on".
KilledChildSparesSiblings ==
  \A g \in Scopes : aborted[g] \in killed => err[aborted[g]] \cap {"err", "svc", "cleanup"} # {}

\* loop.go: "every message has one record saying whether it reached a decision".
EveryMessageRecorded ==
  \A l \in Scopes : Kind(l) = "loop" /\ at[l] = "ended" => \A m \in Messages : record[l][m] # "waiting"

\* group.go: "Wait joins every child, ends the group scope, and returns that
\* first error": cancelling a group is not a panic.
TeardownNeverPanics == crashed # "unbegun"

\* loop.go: "A kill of the task alone is a failed task, not a broken loop".
KilledTaskNeverPanics == crashed # "store"
====
