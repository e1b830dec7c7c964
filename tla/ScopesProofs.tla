---------------------------- MODULE ScopesProofs ----------------------------
(***************************************************************************)
(* The safety of the scopes of a run, for any shape of workflow, any       *)
(* services and messages and any number of kills: what a service's exit    *)
(* and stop mean for its scope, the order of teardown, and what a loop     *)
(* does with killed tasks and with messages.                               *)
(***************************************************************************)
EXTENDS Scopes, TLAPS

-----------------------------------------------------------------------------
(* The inductive invariant *)

\* Between its parent's call and its end.
Active(s) == at[s] \notin {"none", "ended"}

\* The parent of an active scope is in the call that opened it, or is a group that is
\* not joined yet; only a group has several active children.
BodyInv ==
  /\ Begun(Root)
  /\ \A c \in Scopes : Active(c) /\ c # Root =>
       /\ Parent(c) # None
       /\ IF Kind(Parent(c)) = "group" THEN at[Parent(c)] \in {"open", "wait"} ELSE at[Parent(c)] = "child"
  /\ \A c, d \in Scopes :
       Active(c) /\ Active(d) /\ c # Root /\ d # Root /\ Parent(c) = Parent(d) /\ Kind(Parent(c)) # "group" => c = d

\* A teardown has cancelled the ctx of what was begun.  What is torn down before it
\* was begun is torn down by its parent.
TearInv ==
  /\ \A s \in Scopes : ended[s] <=> tear[s] # "idle"
  /\ \A s \in Scopes : Begun(s) /\ ended[s] => Done(s)
  /\ \A s \in Scopes : ~Begun(s) => ~Done(s)
  /\ \A s \in Scopes : ~Begun(s) /\ ended[s] => Parent(s) # None /\ ended[Parent(s)]
  /\ \A s \in Scopes : at[s] \in {"none", "admitted"} => ~ended[s]

\* A scope is among its parent's children from scope.child on, unless the parent's
\* teardown was over with its list by then.
ChildInv ==
  /\ \A p \in Scopes : \A c \in children[p] : Parent(c) = p /\ at[c] \notin {"none", "admitted"} /\ Begun(p)
  /\ \A c \in Scopes : at[c] \notin {"none", "admitted"} /\ c # Root =>
       c \in children[Parent(c)] \/ ended[Parent(c)]

\* Every teardown above the scope comes by it.
Linked(s) == \A z \in tree.above[s] : Parent(z) # None => z \in children[Parent(z)]

\* A scope whose ctx is not done is linked, and so is one that has a service.
LinkInv ==
  /\ \A s \in Scopes : Begun(s) /\ ~Done(s) => Linked(s)
  /\ \A v \in Started : Owner(v) \in Scopes /\ Begun(Owner(v)) /\ Linked(Owner(v))

\* A teardown comes to its own services when those below are torn down.
InsideFirst ==
  \A s, x \in Scopes :
    s \in tree.above[x] /\ s # x /\ Linked(x) /\ tear[s] \in {"services", "done"} => tear[x] = "done"

InCall(v) == call[v] \in {"started", "refused", "polling"}
Adopted(v) == v \in ToSet(services[Owner(v)])
Settled(v) == stop[v] \in {"stopped", "failed"}

\* A body is in one Service call at a time.
CallInv ==
  /\ \A v \in Services : InCall(v) => at[Owner(v)] = "service"
  /\ \A v, w \in Services : InCall(v) /\ InCall(w) /\ Owner(v) = Owner(w) => v = w

\* A scope has its own services, each once.
AdoptInv ==
  /\ \A s \in Scopes : \A i \in DOMAIN services[s] :
       Owner(services[s][i]) = s /\ call[services[s][i]] \in {"polling", "returned"}
  /\ \A s \in Scopes : \A i, j \in DOMAIN services[s] : services[s][i] = services[s][j] => i = j
  /\ \A v \in Services : call[v] = "polling" => Adopted(v)

\* The process, the wait goroutine and the stop of a service.
ProcessInv ==
  \A v \in Services :
    /\ call[v] \in {"none", "started"} => wait[v] = "none" /\ stop[v] = "none"
    /\ call[v] = "none" => proc[v] = "none"
    /\ wait[v] \in {"none", "running"} => verdict[v] = None
    /\ wait[v] \in {"classified", "reported", "done"} => proc[v] = "down"
    /\ stop[v] # "none" => stopping[v]
    /\ stop[v] = "stopped" => wait[v] = "done"
    /\ wait[v] \in {"reported", "done"} /\ verdict[v] = "unexpected" => serviceErr[Owner(v)]

\* A service that was refused is stopped by its call.
RefusedInv ==
  \A v \in Services :
    /\ call[v] = "returned" /\ ~Adopted(v) => Settled(v)
    /\ call[v] = "refused" => ~Adopted(v)

\* Adopted services are stopped by the teardown, from the last to the first.
StopInv ==
  /\ \A s \in Scopes : \A i \in DOMAIN services[s] : stop[services[s][i]] # "none" =>
       /\ tear[s] \in {"services", "done"}
       /\ \A j \in DOMAIN services[s] : i < j => Settled(services[s][j])
  /\ \A s \in Scopes : tear[s] = "done" => \A i \in DOMAIN services[s] :
       /\ Settled(services[s][i])
       /\ stop[services[s][i]] = "failed" => endErr[s]

\* A scope's error says what happened to its services.
EndInv ==
  \A s \in Scopes : at[s] = "ended" =>
    /\ tear[s] = "done"
    /\ \A i \in DOMAIN services[s] : stop[services[s][i]] = "failed" => "cleanup" \in err[s]
    /\ \A v \in Services : Owner(v) = s /\ stop[v] = "stopped" /\ verdict[v] = "unexpected" => "svc" \in err[s]

Over(l) == at[l] \in {"returned", "ended"}

\* A loop has the error of a kill only if it was killed itself.
KillInv ==
  \A l \in Scopes : Kind(l) = "loop" /\ "killed" \in err[l] => IF Over(l) THEN l \in cut ELSE Done(l)

\* A message waits in the queue until it is read, dropped, or the loop is torn down.
MessageInv ==
  \A l \in Scopes : Kind(l) = "loop" =>
    /\ \A m \in Messages : record[l][m] = "waiting" /\ ~ended[l] => m \in queue[l]
    /\ Over(l) /\ l \notin cut => ~dispatching[l] /\ \A m \in Messages : record[l][m] # "waiting"

IInv ==
  /\ TypeOK /\ BodyInv /\ TearInv /\ ChildInv /\ LinkInv /\ InsideFirst
  /\ CallInv /\ AdoptInv /\ ProcessInv /\ RefusedInv /\ StopInv /\ EndInv /\ KillInv /\ MessageInv

-----------------------------------------------------------------------------
(* The shape of the workflow, cancellation and errors *)

LEMMA Shape ==
  ASSUME tree \in Trees
  PROVE  /\ Root \in Scopes /\ None \notin Scopes /\ Parent(Root) = None /\ Kind(Root) = "root"
         /\ \A s \in Scopes : Parent(s) \in Scopes \cup {None} /\ Kind(s) \in Kinds
         /\ \A v \in Services : Owner(v) \in Scopes \cup {None}
         /\ \A s \in Scopes : s \in tree.above[s] /\ tree.above[s] \subseteq Scopes
         /\ \A s \in Scopes : Parent(s) # None =>
              /\ tree.above[s] = {s} \cup tree.above[Parent(s)] /\ s \notin tree.above[Parent(s)]
              /\ Parent(s) # s
              /\ Kind(s) = "task" <=> Kind(Parent(s)) = "loop"
              /\ Kind(Parent(s)) = "group" => Kind(s) = "scope"
         /\ \A s \in Scopes : Parent(s) = None => tree.above[s] = {s}
         /\ \A x \in Scopes : \A s \in tree.above[x] \ {x} : \E c \in tree.above[x] : Parent(c) = s
<1> DEFINE t == tree
<1>1. /\ t.parent \in [Scopes -> Scopes \cup {None}] /\ t.kind \in [Scopes -> Kinds]
      /\ t.owner \in [Services -> Scopes \cup {None}] /\ t.above \in [Scopes -> SUBSET Scopes]
      /\ t.parent[Root] = None /\ t.kind[Root] = "root"
  BY TreesAreTrees
<1>2. \A s \in Scopes : t.above[s] = {s} \cup (IF t.parent[s] = None THEN {} ELSE t.above[t.parent[s]])
  BY TreesAreTrees
<1>3. \A s \in Scopes : t.parent[s] # None =>
         /\ s \notin t.above[t.parent[s]]
         /\ t.kind[s] = "task" <=> t.kind[t.parent[s]] = "loop"
         /\ t.kind[t.parent[s]] = "group" => t.kind[s] = "scope"
  BY TreesAreTrees
<1>4. \A s \in Scopes : \A x \in t.above[s] \ {s} : \E c \in t.above[s] : t.parent[c] = x
  BY TreesAreTrees
<1>5. \A s \in Scopes : s \in t.above[s]
  BY <1>2
<1>6. Root \in Scopes /\ None \notin Scopes
  BY BoundsAreNumbers
<1>7. \A s \in Scopes : t.parent[s] # None => t.parent[s] # s
  BY <1>3, <1>5
<1>8. \A s \in Scopes : t.above[s] \subseteq Scopes
  BY <1>1
<1> QED
  BY <1>1, <1>2, <1>3, <1>4, <1>5, <1>6, <1>7, <1>8 DEF Parent, Kind, Owner

\* A cancellation reaches what was begun below and was not done before.
LEMMA CancelEffect ==
  ASSUME tree \in Trees, BodyTypes, NEW s \in Scopes, NEW k \in Causes
  PROVE  /\ Cancelled(s, k) \in [Scopes -> Causes \cup {None}]
         /\ \A x \in Scopes : cause[x] # None \/ ~Begun(x) => Cancelled(s, k)[x] = cause[x]
         /\ \A x \in Scopes : Begun(x) /\ s \in tree.above[x] => Cancelled(s, k)[x] # None
         /\ Begun(s) => Cancelled(s, k)[s] # None
<1>1. s \in tree.above[s]
  BY Shape
<1> QED
  BY <1>1 DEF Cancelled, BodyTypes, Done, None, Causes

\* What an error may hold.
LEMMA Errors ==
  ASSUME BodyTypes, TearTypes, NEW s \in Scopes
  PROVE  /\ CauseError(s) \subseteq Tags /\ ScopeError(s) \subseteq Tags
         /\ "killed" \in CauseError(s) => Done(s)
         /\ "killed" \in ScopeError(s) => "killed" \in err[s]
         /\ serviceErr[s] => "svc" \in ScopeError(s)
         /\ endErr[s] => "cleanup" \in ScopeError(s)
  BY DEF BodyTypes, TearTypes, CauseError, ScopeError, Tags, Done, None

LEMMA KnownErrors ==
  /\ {} \in SUBSET Tags /\ {"err"} \in SUBSET Tags /\ {"canceled"} \in SUBSET Tags /\ {"killed"} \in SUBSET Tags
  /\ "plain" \in Causes /\ "killed" \in Causes /\ "svc" \in Causes
  BY DEF Tags, Causes

\* Who is at work has a parent or an owner.
LEMMA Opened ==
  ASSUME IInv
  PROVE  /\ \A s \in Scopes : Active(s) /\ s # Root => Parent(s) \in Scopes
         /\ \A s \in Scopes : ~Begun(s) => s # Root
         /\ \A s \in Scopes : at[s] \in {"admitted", "created"} => Parent(s) \in Scopes
         /\ \A v \in Services : call[v] # "none" \/ wait[v] # "none" \/ stop[v] # "none" =>
              call[v] # "none" /\ Owner(v) \in Scopes
<1>1. TypeOK /\ BodyInv /\ LinkInv /\ ProcessInv
  BY DEF IInv
<1>2. \A s \in Scopes : ~Begun(s) => s # Root
  BY <1>1 DEF BodyInv
<1>3. \A s \in Scopes : Active(s) /\ s # Root => Parent(s) \in Scopes
  BY <1>1, Shape DEF BodyInv, TypeOK
<1>4. \A s \in Scopes : at[s] \in {"admitted", "created"} => Parent(s) \in Scopes
  BY <1>2, <1>3 DEF Begun, Active
<1>5. \A v \in Services : call[v] # "none" \/ wait[v] # "none" \/ stop[v] # "none" =>
        call[v] # "none" /\ Owner(v) \in Scopes
  BY <1>1 DEF LinkInv, ProcessInv, Started
<1> QED
  BY <1>2, <1>3, <1>4, <1>5

LEMMA InService ==
  ASSUME IInv, NEW v \in Services, InCall(v)
  PROVE  Owner(v) \in Scopes /\ at[Owner(v)] = "service" /\ Begun(Owner(v)) /\ v \in Started
<1>1. v \in Started /\ Owner(v) \in Scopes
  BY Opened DEF InCall, Started
<1>2. at[Owner(v)] = "service"
  BY DEF IInv, CallInv
<1> QED
  BY <1>1, <1>2 DEF Begun

LEMMA FailEffect ==
  ASSUME TypeOK, NEW s \in Scopes, FailService(s)
  PROVE  /\ \A x \in Scopes : Done(x) \/ ~Begun(x) => cause'[x] = cause[x]
         /\ serviceErr' = [serviceErr EXCEPT ![s] = TRUE]
  BY CancelEffect, KnownErrors DEF FailService, TypeOK, Done

\* An item is opened by a scope.
LEMMA ItemEffect ==
  ASSUME IInv, NEW s \in Scopes, FinishItem(s)
  PROVE  /\ Parent(s) \in Scopes
         /\ \A x \in Scopes : Done(x) \/ ~Begun(x) => cause'[x] = cause[x]
         /\ \A x \in Scopes : serviceErr[x] => serviceErr'[x]
<1>1. Parent(s) \in Scopes
  BY Opened, Shape DEF FinishItem, Active, IInv, TypeOK
<1>2. FailService(Parent(s)) \/ UNCHANGED <<cause, serviceErr>>
  BY DEF FinishItem
<1>3. TypeOK /\ serviceErr \in [Scopes -> BOOLEAN]
  BY DEF IInv, TypeOK, TearTypes
<1> QED
  BY <1>1, <1>2, <1>3, FailEffect

\* The exit of a service fails its scope.
LEMMA ReportEffect ==
  ASSUME IInv, NEW v \in Services, Report(v)
  PROVE  /\ Owner(v) \in Scopes
         /\ \A x \in Scopes : Done(x) \/ ~Begun(x) => cause'[x] = cause[x]
         /\ \A x \in Scopes : serviceErr[x] => serviceErr'[x]
         /\ verdict[v] = "unexpected" => serviceErr'[Owner(v)]
<1>1. Owner(v) \in Scopes
  BY Opened DEF Report
<1>2. IF verdict[v] = "unexpected" THEN FailService(Owner(v)) ELSE UNCHANGED <<cause, serviceErr>>
  BY DEF Report
<1>3. TypeOK /\ serviceErr \in [Scopes -> BOOLEAN]
  BY DEF IInv, TypeOK, TearTypes
<1> QED
  BY <1>1, <1>2, <1>3, FailEffect

\* So do outputs that cannot be published.
LEMMA ReadyEffect ==
  ASSUME IInv, NEW v \in Services, ServiceReady(v)
  PROVE  /\ Owner(v) \in Scopes /\ at[Owner(v)] = "service"
         /\ \A x \in Scopes : Done(x) \/ ~Begun(x) => cause'[x] = cause[x]
         /\ \A x \in Scopes : serviceErr[x] => serviceErr'[x]
         /\ \E e \in {{}, {"err"}} : ServiceReturns(v, e)
<1>1. Owner(v) \in Scopes /\ at[Owner(v)] = "service"
  BY InService DEF ServiceReady, InCall
<1>2. FailService(Owner(v)) \/ UNCHANGED <<cause, serviceErr>>
  BY DEF ServiceReady
<1>3. TypeOK /\ serviceErr \in [Scopes -> BOOLEAN]
  BY DEF IInv, TypeOK, TearTypes
<1>4. \E e \in {{}, {"err"}} : ServiceReturns(v, e)
  BY DEF ServiceReady
<1> QED
  BY <1>1, <1>2, <1>3, <1>4, FailEffect

-----------------------------------------------------------------------------
(* What a step can do to a body and to a ctx *)

\* A body that has begun has begun for good, it begins with its parent's cause, it
\* stays in a Service call until that returns, and it ends for good.
AtMoves ==
  \A x \in Scopes :
    /\ Begun(x) => Begun(x)'
    /\ Begun(x)' /\ ~Begun(x) =>
         at[x] = "created" /\ cause'[x] = cause[Parent(x)] /\ UNCHANGED <<ended, children, call>>
    /\ at[x] \notin {"none", "admitted"} => at'[x] \notin {"none", "admitted"}
    /\ at[x] = "ended" => at'[x] = "ended"
    /\ at[x] = "service" => at'[x] = "service" \/ call' # call

\* A cause stays, and nothing but a ctx has one.
CauseMoves ==
  \A x \in Scopes : (Done(x) => cause'[x] = cause[x]) /\ (~Begun(x)' => cause'[x] = cause[x])

\* A scope that is about to begin has a parent at work.
LEMMA ParentBegun ==
  ASSUME IInv, NEW s \in Scopes, at[s] \in {"admitted", "created"}
  PROVE  Parent(s) \in Scopes /\ Begun(Parent(s)) /\ Parent(s) # s
<1>1. Parent(s) \in Scopes /\ s # Root /\ Active(s)
  BY Opened DEF Active, Begun
<1>2. Begun(Parent(s))
  BY <1>1 DEF IInv, BodyInv, Begun
<1> QED
  BY <1>1, <1>2, Shape DEF IInv, TypeOK

\* No step but the start of a teardown disturbs TearInv.
LEMMA TearKept ==
  ASSUME IInv, tree' = tree, AtMoves, CauseMoves, ended' = ended,
         \A s \in Scopes : tear'[s] = "idle" <=> tear[s] = "idle"
  PROVE  TearInv'
<1>1. TearInv /\ TypeOK
  BY DEF IInv
<1>2. ASSUME NEW s \in Scopes, Begun(s)', ended[s] PROVE cause'[s] # None
  <2>1. CASE Begun(s)
    BY <1>1, <1>2, <2>1 DEF TearInv, CauseMoves, Done
  <2>2. CASE ~Begun(s)
    <3>1. at[s] = "created" /\ cause'[s] = cause[Parent(s)]
      BY <1>2, <2>2 DEF AtMoves
    <3>2. Parent(s) \in Scopes /\ Begun(Parent(s)) /\ ended[Parent(s)]
      BY <1>1, <1>2, <2>2, <3>1, ParentBegun DEF TearInv
    <3> QED
      BY <1>1, <3>1, <3>2 DEF TearInv, Done
  <2> QED
    BY <2>1, <2>2
<1>3. ASSUME NEW s \in Scopes, ~Begun(s)' PROVE ~Begun(s) /\ cause'[s] = None
  BY <1>1, <1>3 DEF TearInv, AtMoves, CauseMoves, Done
<1>4. ASSUME NEW s \in Scopes, ~Begun(s)', ended[s] PROVE Parent(s) # None /\ ended[Parent(s)]
  BY <1>1, <1>3, <1>4 DEF TearInv
<1>5. ASSUME NEW s \in Scopes, at'[s] \in {"none", "admitted"} PROVE ~ended[s]
  BY <1>1, <1>5 DEF TearInv, AtMoves
<1>6. \A s \in Scopes : ended[s] <=> tear'[s] # "idle"
  BY <1>1 DEF TearInv
<1> QED
  BY <1>2, <1>3, <1>4, <1>5, <1>6 DEF TearInv, Parent, Done

LEMMA TearStarts ==
  ASSUME IInv, tree' = tree, NEW s \in Scopes, TearStart(s)
  PROVE  TearInv'
<1>1. TearInv /\ TypeOK /\ ChildInv /\ ended \in [Scopes -> BOOLEAN]
      /\ tear \in [Scopes -> {"idle", "children", "services", "done"}]
  BY DEF IInv, TypeOK, TearTypes
<1>2. /\ tear' = [tear EXCEPT ![s] = "children"] /\ ended' = [ended EXCEPT ![s] = TRUE] /\ at' = at
      /\ cause' = IF Begun(s) THEN Cancelled(s, "plain") ELSE cause
  BY DEF TearStart
<1>3. \A x \in Scopes : Begun(x)' <=> Begun(x)
  BY <1>2 DEF Begun
<1>4. /\ \A x \in Scopes : Done(x) \/ ~Begun(x) => cause'[x] = cause[x]
      /\ Begun(s) => cause'[s] # None
  BY <1>1, <1>2, CancelEffect, KnownErrors DEF TypeOK, Done
<1>5. ~Begun(s) => Parent(s) \in Scopes /\ tear[Parent(s)] = "children" /\ s \in children[Parent(s)]
  BY <1>1, Shape DEF TearStart, EndCalled, Begun, TypeOK
<1>6. ~Begun(s) => ended[Parent(s)] /\ at[s] \notin {"none", "admitted"}
  BY <1>1, <1>5 DEF TearInv, ChildInv
<1>7. at[s] \notin {"none", "admitted"}
  BY <1>6 DEF Begun
<1>8. \A x \in Scopes : ended'[x] <=> tear'[x] # "idle"
  BY <1>1, <1>2 DEF TearInv
<1>9. ASSUME NEW x \in Scopes
      PROVE  /\ Begun(x) /\ ended'[x] => cause'[x] # None
             /\ ~Begun(x) => cause'[x] = None
             /\ ~Begun(x) /\ ended'[x] => Parent(x) # None /\ ended'[Parent(x)]
             /\ at[x] \in {"none", "admitted"} => ~ended'[x]
  <2>1. CASE x = s
    <3>1. ~Begun(s) => Parent(s) # None /\ ended'[Parent(s)]
      BY <1>1, <1>2, <1>5, <1>6, Shape DEF TypeOK
    <3> QED
      BY <1>1, <1>4, <1>7, <2>1, <3>1 DEF TearInv, Done
  <2>2. CASE x # s
    <3>1. ended'[x] = ended[x]
      BY <1>1, <1>2, <2>2
    <3>2. \A y \in Scopes : ended[y] => ended'[y]
      BY <1>1, <1>2
    <3>3. ~Begun(x) /\ ended[x] => Parent(x) \in Scopes /\ ended[Parent(x)]
      BY <1>1, Shape DEF TearInv, TypeOK
    <3>4. /\ Begun(x) /\ ended[x] => Done(x)
          /\ ~Begun(x) => ~Done(x)
          /\ at[x] \in {"none", "admitted"} => ~ended[x]
      BY <1>1 DEF TearInv
    <3> QED
      BY <1>4, <3>1, <3>2, <3>3, <3>4, Shape, <1>1 DEF Done, TypeOK
  <2> QED
    BY <2>1, <2>2
<1> QED
  BY <1>2, <1>3, <1>8, <1>9 DEF TearInv, Parent, Done

\* What is linked stays so while children are only added.
LEMMA LinkedStays ==
  ASSUME IInv, tree' = tree, \A p \in Scopes : children[p] \subseteq children'[p]
  PROVE  \A x \in Scopes : Linked(x) => Linked(x)'
<1> SUFFICES ASSUME NEW x \in Scopes, Linked(x), NEW z \in tree.above[x], Parent(z) # None
             PROVE  z \in children'[Parent(z)]
  BY DEF Linked, Parent
<1>1. z \in Scopes /\ Parent(z) \in Scopes
  BY Shape DEF IInv, TypeOK
<1> QED
  BY <1>1 DEF Linked

\* A scope that has a linked parent that has it is linked.
LEMMA LinkedBelow ==
  ASSUME IInv, NEW s \in Scopes, Parent(s) \in Scopes
  PROVE  Linked(s) <=> Linked(Parent(s)) /\ s \in children[Parent(s)]
<1>1. tree.above[s] = {s} \cup tree.above[Parent(s)] /\ Parent(s) # None
  BY Shape DEF IInv, TypeOK
<1> QED
  BY <1>1 DEF Linked

\* A scope begins linked, or with a ctx that is done.
LEMMA LinkKept ==
  ASSUME IInv, tree' = tree, AtMoves, CauseMoves, \A p \in Scopes : children[p] \subseteq children'[p],
         \A v \in Started' : v \in Started \/ (Owner(v) \in Scopes /\ Begun(Owner(v)) /\ Linked(Owner(v)))
  PROVE  LinkInv'
<1>1. LinkInv /\ TearInv /\ ChildInv /\ TypeOK
  BY DEF IInv
<1>2. \A x \in Scopes : Linked(x) => Linked(x)'
  BY LinkedStays
<1>3. ASSUME NEW s \in Scopes, Begun(s)', ~Done(s)' PROVE Linked(s)'
  <2>1. CASE Begun(s)
    <3>1. ~Done(s)
      BY <1>3 DEF CauseMoves, Done
    <3> QED
      BY <1>1, <1>2, <2>1, <3>1 DEF LinkInv
  <2>2. CASE ~Begun(s)
    <3>1. at[s] = "created" /\ cause'[s] = cause[Parent(s)]
      BY <1>3, <2>2 DEF AtMoves
    <3>2. Parent(s) \in Scopes /\ Begun(Parent(s)) /\ ~Done(Parent(s)) /\ s # Root
      BY <1>3, <3>1, ParentBegun, Opened, <2>2 DEF Done
    <3>3. Linked(Parent(s)) /\ s \in children[Parent(s)]
      BY <1>1, <3>1, <3>2 DEF LinkInv, TearInv, ChildInv
    <3> QED
      BY <1>2, <3>2, <3>3, LinkedBelow
  <2> QED
    BY <2>1, <2>2
<1>4. ASSUME NEW v \in Started' PROVE Owner(v) \in Scopes /\ Begun(Owner(v)) /\ Linked(Owner(v))
  BY <1>1 DEF LinkInv
<1>5. \A x \in Scopes : Begun(x) /\ Linked(x) => Begun(x)' /\ Linked(x)'
  BY <1>2 DEF AtMoves
<1>6. ASSUME NEW v \in Started' PROVE (Owner(v) \in Scopes /\ Begun(Owner(v)) /\ Linked(Owner(v)))'
  <2>1. PICK s \in Scopes : s = Owner(v) /\ Begun(s) /\ Linked(s)
    BY <1>4 DEF Owner
  <2>2. Begun(s)' /\ Linked(s)' /\ Owner(v)' = s
    BY <1>5, <2>1 DEF Owner
  <2> QED
    BY <2>2 DEF Begun, Linked
<1> QED
  BY <1>3, <1>6 DEF LinkInv

LEMMA InsideKept ==
  ASSUME IInv, tree' = tree, children' = children,
         \A s \in Scopes : tear'[s] \in {"services", "done"} => tear[s] \in {"services", "done"},
         \A s \in Scopes : tear[s] = "done" => tear'[s] = "done"
  PROVE  InsideFirst'
<1>1. \A x \in Scopes : Linked(x)' => Linked(x)
  BY DEF Linked, Parent
<1> QED
  BY <1>1 DEF IInv, InsideFirst

\* A teardown comes to its services when its children are torn down, and they came to
\* theirs when what is below them was.
LEMMA InsideWork ==
  ASSUME IInv, tree' = tree, NEW s \in Scopes, TearWork(s)
  PROVE  InsideFirst'
<1>1. /\ tear \in [Scopes -> {"idle", "children", "services", "done"}] /\ tear[s] = "children"
      /\ tear' = [tear EXCEPT ![s] = "services"] /\ children' = children
      /\ \A c \in children[s] : tear[c] = "done"
  BY DEF IInv, TypeOK, TearTypes, TearWork, ChildrenDone
<1>2. InsideFirst /\ TypeOK
  BY DEF IInv
<1> SUFFICES ASSUME NEW y \in Scopes, NEW x \in Scopes, y \in tree.above[x], y # x, Linked(x)',
                    tear'[y] \in {"services", "done"}
             PROVE  tear'[x] = "done"
  BY DEF InsideFirst
<1>3. Linked(x)
  BY <1>1 DEF Linked, Parent
<1>4. tear[x] = "done"
  <2>1. CASE y # s
    BY <1>1, <1>2, <1>3, <2>1 DEF InsideFirst
  <2>2. CASE y = s
    <3>1. PICK c \in tree.above[x] : Parent(c) = s
      BY <1>2, <2>2, Shape DEF TypeOK
    <3>2. c \in Scopes /\ c \in children[s]
      BY <1>2, <1>3, <3>1, Shape DEF Linked, TypeOK
    <3> QED
      BY <1>1, <1>2, <1>3, <3>1, <3>2 DEF InsideFirst
  <2> QED
    BY <2>1, <2>2
<1> QED
  BY <1>1, <1>4

\* A scope is attached only while everything above it is alive.
LEMMA InsideAttach ==
  ASSUME IInv, tree' = tree, tear' = tear, NEW c \in Scopes, at[c] \in {"none", "admitted"},
         Parent(c) \in Scopes, Attached(c)
  PROVE  InsideFirst'
<1> DEFINE p == Parent(c)
<1>1. InsideFirst /\ TypeOK /\ TearInv /\ ChildInv /\ children \in [Scopes -> SUBSET Scopes]
  BY DEF IInv, TypeOK, TearTypes
<1>2. CASE ended[p]
  <2>1. children' = children
    BY <1>2 DEF Attached
  <2> QED
    BY <2>1, InsideKept
<1>3. CASE ~ended[p]
  <2>1. children' = [children EXCEPT ![p] = @ \cup {c}]
    BY <1>3 DEF Attached
  <2>2. /\ \A q \in Scopes : q # p => children'[q] = children[q]
        /\ children'[p] = children[p] \cup {c}
    BY <1>1, <2>1
  <2>3. tear[p] = "idle"
    BY <1>1, <1>3 DEF TearInv, TypeOK, TearTypes
  <2> SUFFICES ASSUME NEW s \in Scopes, NEW x \in Scopes, s \in tree.above[x], s # x, Linked(x)',
                      tear[s] \in {"services", "done"}
               PROVE  tear[x] = "done"
    BY DEF InsideFirst
  <2>4. \A z \in tree.above[x] : Parent(z) # None => z \in children'[Parent(z)]
    BY DEF Linked, Parent
  <2>5. \A z \in tree.above[x] : z \in Scopes /\ (Parent(z) # None => Parent(z) \in Scopes)
    BY <1>1, Shape DEF TypeOK
  <2>6. CASE Linked(x)
    BY <1>1, <2>6 DEF InsideFirst
  <2>7. CASE ~Linked(x)
    <3>1. c \in tree.above[x]
      BY <2>2, <2>4, <2>5, <2>7 DEF Linked
    <3>2. CASE x = c
      <4>1. /\ tree.above[c] = {c} \cup tree.above[p] /\ c \notin tree.above[p]
            /\ s \in tree.above[p]
        BY <1>1, <3>2, Shape DEF TypeOK
      <4>2. ASSUME NEW z \in tree.above[p], Parent(z) # None PROVE z \in children[Parent(z)]
        BY <2>2, <2>4, <2>5, <3>2, <4>1, <4>2
      <4>3. Linked(p)
        BY <4>2 DEF Linked
      <4> QED
        BY <1>1, <2>3, <4>1, <4>3 DEF InsideFirst
    <3>3. CASE x # c
      <4>1. PICK d \in tree.above[x] : Parent(d) = c
        BY <1>1, <3>1, <3>3, Shape DEF TypeOK
      <4>2. c # p /\ c # None
        BY <1>1, Shape DEF TypeOK
      <4>3. d \in children[c]
        BY <2>2, <2>4, <4>1, <4>2
      <4> QED
        BY <1>1, <4>3 DEF ChildInv, Begun
    <3> QED
      BY <3>2, <3>3
  <2> QED
    BY <2>6, <2>7
<1> QED
  BY <1>2, <1>3

-----------------------------------------------------------------------------
(* Services *)

\* A scope that takes a service has stopped none.
LEMMA AdoptEffect ==
  ASSUME IInv, NEW v \in Services, AdoptService(v)
  PROVE  /\ Owner(v) \in Scopes /\ at[Owner(v)] = "service" /\ ~Adopted(v)
         /\ call[v] = "started" /\ stop[v] = "none" /\ wait[v] = "none" /\ verdict[v] = None /\ stopping' = stopping
         /\ Adopts(Owner(v)) =>
              /\ tear[Owner(v)] = "idle" /\ call' = [call EXCEPT ![v] = "polling"]
              /\ \A i \in DOMAIN services[Owner(v)] : i \in DOMAIN services'[Owner(v)]
                                                    /\ services'[Owner(v)][i] = services[Owner(v)][i]
              /\ \A i \in DOMAIN services'[Owner(v)] : i \in DOMAIN services[Owner(v)] \/ services'[Owner(v)][i] = v
              /\ \A i, j \in DOMAIN services'[Owner(v)] : services'[Owner(v)][i] = services'[Owner(v)][j] => i = j
              /\ \E i \in DOMAIN services'[Owner(v)] : services'[Owner(v)][i] = v
              /\ \A s \in Scopes : s # Owner(v) => services'[s] = services[s]
         /\ ~Adopts(Owner(v)) => services' = services /\ call' = [call EXCEPT ![v] = "refused"]
<1> DEFINE o == Owner(v)
           q == services[o]
<1>1. TypeOK /\ AdoptInv /\ TearInv /\ ProcessInv
  BY DEF IInv
<1>2. call[v] = "started" /\ o \in Scopes /\ at[o] = "service"
  BY InService DEF AdoptService, InCall
<1>3. services \in [Scopes -> Seq(Services)] /\ q \in Seq(Services)
  BY <1>1, <1>2 DEF TypeOK, ServiceTypes
<1>4. ~Adopted(v)
  BY <1>1, <1>2 DEF AdoptInv, Adopted, ToSet
<1>5. stop[v] = "none" /\ wait[v] = "none" /\ verdict[v] = None
  BY <1>1, <1>2 DEF ProcessInv
<1>6. ASSUME Adopts(o)
      PROVE  /\ tear[o] = "idle" /\ call' = [call EXCEPT ![v] = "polling"]
             /\ \A i \in DOMAIN q : i \in DOMAIN services'[o] /\ services'[o][i] = q[i]
             /\ \A i \in DOMAIN services'[o] : i \in DOMAIN q \/ services'[o][i] = v
             /\ \A i, j \in DOMAIN services'[o] : services'[o][i] = services'[o][j] => i = j
             /\ \E i \in DOMAIN services'[o] : services'[o][i] = v
             /\ \A s \in Scopes : s # o => services'[s] = services[s]
  <2>1. services' = [services EXCEPT ![o] = Append(q, v)] /\ call' = [call EXCEPT ![v] = "polling"]
        /\ ~ended[o]
    BY <1>6 DEF AdoptService, Adopts
  <2>2. services'[o] = Append(q, v) /\ \A s \in Scopes : s # o => services'[s] = services[s]
    BY <1>2, <1>3, <2>1
  <2>3. /\ DOMAIN q = 1..Len(q) /\ Len(q) \in Nat /\ DOMAIN services'[o] = 1..(Len(q) + 1)
        /\ services'[o][Len(q) + 1] = v /\ \A i \in 1..Len(q) : services'[o][i] = q[i]
    BY <1>3, <2>2
  <2>4. tear[o] = "idle"
    BY <1>1, <1>2, <2>1 DEF TearInv
  <2>5. \A i \in DOMAIN q : q[i] # v
    BY <1>4 DEF Adopted, ToSet
  <2>6. \A i, j \in DOMAIN q : q[i] = q[j] => i = j
    BY <1>1, <1>2 DEF AdoptInv
  <2>7. \A i \in DOMAIN services'[o] : i \in DOMAIN q \/ i = Len(q) + 1
    BY <2>3
  <2>8. \A i, j \in DOMAIN services'[o] : services'[o][i] = services'[o][j] => i = j
    BY <2>3, <2>5, <2>6, <2>7
  <2> QED
    BY <2>1, <2>2, <2>3, <2>4, <2>7, <2>8
<1>7. stopping' = stopping /\ (~Adopts(o) => services' = services /\ call' = [call EXCEPT ![v] = "refused"])
  BY DEF AdoptService
<1> QED
  BY <1>2, <1>4, <1>5, <1>6, <1>7

\* The places where a Service call returns.
LEMMA CallReturned ==
  ASSUME IInv, tree' = tree, NEW v \in Services, NEW e, InCall(v), ServiceReturns(v, e)
  PROVE  CallInv' /\ AdoptInv'
<1>1. TypeOK /\ CallInv /\ AdoptInv
  BY DEF IInv
<1>2. /\ call' = [call EXCEPT ![v] = "returned"] /\ at' = [at EXCEPT ![Owner(v)] = "open"]
      /\ services' = services
  BY DEF ServiceReturns
<1>3. call \in [Services -> {"none", "started", "refused", "polling", "returned"}] /\ at \in [Scopes -> Places]
  BY <1>1 DEF TypeOK, ServiceTypes, BodyTypes
<1>4. \A w \in Services : InCall(w)' => InCall(w) /\ w # v
  BY <1>2, <1>3 DEF InCall
<1>5. ASSUME NEW w \in Services, InCall(w)' PROVE at'[Owner(w)] = "service"
  <2>1. InCall(w) /\ Owner(w) # Owner(v)
    BY <1>1, <1>4, <1>5 DEF CallInv
  <2>2. Owner(w) \in Scopes /\ at[Owner(w)] = "service"
    BY <2>1, InService
  <2> QED
    BY <1>2, <1>3, <2>1, <2>2
<1>6. CallInv'
  BY <1>1, <1>4, <1>5 DEF CallInv, Owner
<1>7. /\ \A w \in Services : call[w] \in {"polling", "returned"} => call'[w] \in {"polling", "returned"}
      /\ \A w \in Services : call'[w] = "polling" => call[w] = "polling"
  BY <1>2, <1>3
<1>8. \A s \in Scopes : \A i \in DOMAIN services[s] : services[s][i] \in Services
  BY <1>1 DEF TypeOK, ServiceTypes
<1>9. AdoptInv'
  BY <1>1, <1>2, <1>7, <1>8 DEF AdoptInv, Adopted, Owner
<1> QED
  BY <1>6, <1>9

\* A body that starts a service was in no other Service call.
LEMMA StartEffect ==
  ASSUME IInv, tree' = tree, NEW s \in Scopes, NEW v \in Services, StartService(s, v)
  PROVE  CallInv' /\ AdoptInv'
<1>1. TypeOK /\ CallInv /\ AdoptInv
  BY DEF IInv
<1>2. call \in [Services -> {"none", "started", "refused", "polling", "returned"}] /\ at \in [Scopes -> Places]
  BY <1>1 DEF TypeOK, ServiceTypes, BodyTypes
<1>3. services' = services /\ Owner(v) = s /\ at[s] = "open" /\ call[v] = "none"
  BY DEF StartService, Running
<1>4. CASE call' = [call EXCEPT ![v] = "started"] /\ at' = [at EXCEPT ![s] = "service"]
  <2>1. call' = [call EXCEPT ![v] = "started"] /\ at' = [at EXCEPT ![s] = "service"]
    BY <1>4
  <2>2. \A w \in Services : InCall(w)' => w = v \/ InCall(w)
    BY <1>2, <2>1 DEF InCall
  <2>3. \A w \in Services : InCall(w) => Owner(w) \in Scopes /\ at[Owner(w)] = "service" /\ Owner(w) # s
    BY <1>3, InService
  <2>4. \A w \in Services : InCall(w)' => at'[Owner(w)] = "service"
    BY <1>2, <1>3, <2>1, <2>2, <2>3
  <2>5. \A w, x \in Services : InCall(w)' /\ InCall(x)' /\ Owner(w) = Owner(x) => w = x
    BY <1>1, <1>3, <2>2, <2>3 DEF CallInv
  <2>6. CallInv'
    BY <2>4, <2>5 DEF CallInv, Owner
  <2>7. \A w \in Services : w # v => call'[w] = call[w]
    BY <1>2, <2>1
  <2>8. \A y \in Scopes : \A i \in DOMAIN services[y] : services[y][i] \in Services /\ services[y][i] # v
    BY <1>1, <1>3 DEF TypeOK, ServiceTypes, AdoptInv
  <2>9. call'[v] = "started"
    BY <1>2, <2>1
  <2>10. AdoptInv'
    BY <1>1, <1>3, <2>7, <2>8, <2>9 DEF AdoptInv, Adopted, Owner
  <2> QED
    BY <2>6, <2>10
<1>5. CASE call' = call /\ at' = at
  BY <1>1, <1>3, <1>5 DEF CallInv, InCall, AdoptInv, Adopted, Owner
<1> QED
  BY <1>4, <1>5 DEF StartService

LEMMA AdoptKept ==
  ASSUME IInv, tree' = tree, NEW v \in Services, AdoptService(v), at' = at
  PROVE  CallInv' /\ AdoptInv'
<1>1. TypeOK /\ CallInv /\ AdoptInv
  BY DEF IInv
<1>2. call \in [Services -> {"none", "started", "refused", "polling", "returned"}]
  BY <1>1 DEF TypeOK, ServiceTypes
<1>3. Owner(v) \in Scopes /\ call[v] = "started" /\ InCall(v)
  BY AdoptEffect DEF InCall
<1>4. \A w \in Services : w # v => call'[w] = call[w]
  BY <1>2, AdoptEffect
<1>5. \A w \in Services : InCall(w)' => InCall(w)
  BY <1>3, <1>4 DEF InCall
<1>6. CallInv'
  BY <1>1, <1>5 DEF CallInv, Owner
<1>7. \A s \in Scopes : \A i \in DOMAIN services[s] : services[s][i] \in Services /\ services[s][i] # v
  BY <1>1, <1>3 DEF TypeOK, ServiceTypes, AdoptInv
<1>8. CASE Adopts(Owner(v))
  <2> DEFINE o == Owner(v)
  <2>1. /\ \A i \in DOMAIN services[o] : i \in DOMAIN services'[o] /\ services'[o][i] = services[o][i]
        /\ \A i \in DOMAIN services'[o] : i \in DOMAIN services[o] \/ services'[o][i] = v
        /\ \A i, j \in DOMAIN services'[o] : services'[o][i] = services'[o][j] => i = j
        /\ \E i \in DOMAIN services'[o] : services'[o][i] = v
        /\ \A s \in Scopes : s # o => services'[s] = services[s]
        /\ call'[v] = "polling"
    BY <1>2, <1>8, AdoptEffect
  <2>2. ASSUME NEW s \in Scopes, NEW i \in DOMAIN services'[s]
        PROVE  Owner(services'[s][i]) = s /\ call'[services'[s][i]] \in {"polling", "returned"}
    <3>1. CASE s = o /\ services'[s][i] = v
      BY <2>1, <3>1
    <3>2. CASE ~(s = o /\ services'[s][i] = v)
      <4>1. i \in DOMAIN services[s] /\ services'[s][i] = services[s][i]
        BY <2>1, <2>2, <3>2
      <4> QED
        BY <1>1, <1>4, <1>7, <4>1 DEF AdoptInv
    <3> QED
      BY <3>1, <3>2
  <2>3. \A s \in Scopes : \A i, j \in DOMAIN services'[s] : services'[s][i] = services'[s][j] => i = j
    BY <1>1, <2>1 DEF AdoptInv
  <2>4. ASSUME NEW w \in Services, call'[w] = "polling" PROVE \E i \in DOMAIN services'[Owner(w)] : services'[Owner(w)][i] = w
    <3>1. CASE w = v
      BY <2>1, <3>1
    <3>2. CASE w # v
      <4>1. call[w] = "polling"
        BY <1>4, <2>4, <3>2
      <4>2. Owner(w) \in Scopes /\ \E i \in DOMAIN services[Owner(w)] : services[Owner(w)][i] = w
        BY <1>1, <4>1, InService DEF AdoptInv, Adopted, ToSet, InCall
      <4> QED
        BY <2>1, <4>2
    <3> QED
      BY <3>1, <3>2
  <2> QED
    BY <1>6, <2>2, <2>3, <2>4 DEF AdoptInv, Adopted, ToSet, Owner
<1>9. CASE ~Adopts(Owner(v))
  <2>1. services' = services /\ call'[v] = "refused"
    BY <1>2, <1>9, AdoptEffect
  <2>2. \A w \in Services : call'[w] = "polling" => call[w] = "polling"
    BY <1>4, <2>1
  <2> QED
    BY <1>1, <1>4, <1>6, <1>7, <2>1, <2>2 DEF AdoptInv, Adopted, Owner
<1> QED
  BY <1>8, <1>9

\* A body in a Service call leaves it only when the call returns.
LEMMA CallKept ==
  ASSUME IInv, tree' = tree, AtMoves, call' = call, services' = services
  PROVE  CallInv' /\ AdoptInv'
<1>1. CallInv /\ AdoptInv
  BY DEF IInv
<1>2. \A v \in Services : InCall(v) => Owner(v) \in Scopes /\ at[Owner(v)] = "service"
  BY InService
<1>3. \A v \in Services : InCall(v) => at'[Owner(v)] = "service"
  BY <1>2 DEF AtMoves
<1> QED
  BY <1>1, <1>3 DEF CallInv, InCall, AdoptInv, Adopted, Owner

LEMMA ToSetAdopt ==
  ASSUME IInv, tree' = tree, NEW v \in Services, AdoptService(v), NEW w \in Services, w # v, Owner(w) \in Scopes
  PROVE  Adopted(w)' <=> Adopted(w)
<1>1. CASE Adopts(Owner(v))
  <2>1. CASE Owner(w) = Owner(v)
    <3>1. /\ \A i \in DOMAIN services[Owner(v)] : i \in DOMAIN services'[Owner(v)]
                                                 /\ services'[Owner(v)][i] = services[Owner(v)][i]
          /\ \A i \in DOMAIN services'[Owner(v)] : i \in DOMAIN services[Owner(v)] \/ services'[Owner(v)][i] = v
      BY <1>1, AdoptEffect
    <3>2. Owner(w)' = Owner(v)
      BY <2>1 DEF Owner
    <3> QED
      BY <2>1, <3>1, <3>2 DEF Adopted, ToSet
  <2>2. CASE Owner(w) # Owner(v)
    BY <1>1, <2>2, AdoptEffect DEF Adopted, ToSet, Owner
  <2> QED
    BY <2>1, <2>2
<1>2. CASE ~Adopts(Owner(v))
  BY <1>2, AdoptEffect DEF Adopted, Owner
<1> QED
  BY <1>1, <1>2

LEMMA StopCall ==
  ASSUME IInv, NEW v \in Services, StopService(v)
  PROVE  /\ Owner(v) \in Scopes /\ call[v] \in {"refused", "polling", "returned"}
         /\ Adopted(v) => call[v] # "refused" /\ tear[Owner(v)] = "services"
<1>1. Owner(v) \in Scopes /\ stop[v] = "none"
  BY Opened DEF StopService, Started
<1>2. Adopted(v) => call[v] \in {"polling", "returned"}
  <2>1. ASSUME Adopted(v) PROVE \E i \in DOMAIN services[Owner(v)] : services[Owner(v)][i] = v
    BY <2>1 DEF Adopted, ToSet
  <2> QED
    BY <1>1, <2>1 DEF IInv, AdoptInv
<1>3. call[v] = "refused" \/ (tear[Owner(v)] = "services" /\ Adopted(v))
  BY DEF StopService, StopCalled, Adopted
<1> QED
  BY <1>1, <1>2, <1>3

\* What a scope has taken.
LEMMA Taken ==
  ASSUME IInv, NEW s \in Scopes, NEW i \in DOMAIN services[s]
  PROVE  services[s][i] \in Services /\ Owner(services[s][i]) = s /\ Adopted(services[s][i])
<1>1. services[s][i] \in Services
  BY DEF IInv, TypeOK, ServiceTypes
<1>2. Owner(services[s][i]) = s
  BY DEF IInv, AdoptInv
<1> QED
  BY <1>1, <1>2 DEF Adopted, ToSet

\* A body ends in finish, with the error that finish makes, and keeps it.
EndMoves ==
  \A x \in Scopes :
    /\ at[x] = "ended" => err'[x] = err[x]
    /\ at'[x] = "ended" /\ at[x] # "ended" =>
         tear[x] = "done" /\ err'[x] = ScopeError(x) /\ UNCHANGED <<tear, services, stop, verdict>>

-----------------------------------------------------------------------------
(* Loops *)

\* A task returns to its loop, and ends it with a kill only if the loop's ctx is done.
LEMMA TaskBack ==
  ASSUME IInv, tree' = tree, NEW s \in Scopes, FinishTask(s)
  PROVE  /\ Parent(s) \in Scopes /\ Kind(s) # "loop" /\ at'[s] = "ended" /\ at'[Parent(s)] \in {"wait", "open"}
         /\ "killed" \in err'[Parent(s)] => Done(Parent(s))
         /\ \A x \in Scopes \ {s, Parent(s)} : at'[x] = at[x] /\ err'[x] = err[x]
<1> DEFINE l == Parent(s)
           e == ScopeError(s)
<1>1. /\ at \in [Scopes -> Places] /\ err \in [Scopes -> SUBSET Tags] /\ tree \in Trees
      /\ Active(s) /\ Kind(s) = "task"
  BY DEF IInv, TypeOK, BodyTypes, FinishTask, Active
<1>2. s # Root
  BY <1>1, Shape
<1>3. l \in Scopes /\ l # s
  BY <1>1, <1>2, Opened, Shape DEF IInv, TypeOK
<1>4. /\ at' = [at EXCEPT ![s] = "ended", ![l] = IF TaskEndsLoop(l, e) THEN "wait" ELSE "open"]
      /\ err' = [err EXCEPT ![s] = e, ![l] = IF TaskEndsLoop(l, e) THEN e ELSE {}]
  BY DEF FinishTask
<1>5. at'[l] \in {"wait", "open"} /\ at'[s] = "ended" /\ err'[l] = IF TaskEndsLoop(l, e) THEN e ELSE {}
  BY <1>1, <1>3, <1>4
<1>6. \A x \in Scopes \ {s, l} : at'[x] = at[x] /\ err'[x] = err[x]
  BY <1>1, <1>4
<1>7. "killed" \in err'[l] => Done(l)
  BY <1>5 DEF TaskEndsLoop
<1> QED
  BY <1>1, <1>3, <1>5, <1>6, <1>7

\* No loop is over, and nothing of its messages changed.
LEMMA MessageKept ==
  ASSUME IInv, tree' = tree, UNCHANGED <<cut, ended, queue, record, dispatching>>,
         \A x \in Scopes : Kind(x) = "loop" /\ Over(x)' => Over(x)
  PROVE  MessageInv'
  BY DEF IInv, MessageInv, Kind

-----------------------------------------------------------------------------
(* Every step keeps the invariant, part by part *)

\* A body keeps to its places.
LEMMA StepAt == IInv /\ [Next]_vars => at' \in [Scopes -> Places]
<1> SUFFICES ASSUME IInv, [Next]_vars PROVE at' \in [Scopes -> Places]
  OBVIOUS
<1>0. tree' = tree
  BY DEF Next, vars
<1>1. ASSUME UNCHANGED vars \/ (\E s \in Scopes : (TearStart(s) /\ UNCHANGED <<crashed, history>>)
  \/ ((TearWork(s) \/ TearDone(s)) /\ ScopeOnly) \/ (TearPanics(s) /\ UNCHANGED <<scopeVars,
  serviceVars, loopVars, history>>) \/ (CancelScope(s) /\ UNCHANGED <<serviceVars, loopVars,
  crashed>>)) \/ (\E s \in Scopes : \E m \in Messages : (SteerLoop(s, m) /\ UNCHANGED <<scopeVars,
  serviceVars, crashed, history>>)) \/ (\E v \in Services : ((AdoptService(v) \/ Classify(v) \/
  WaitDone(v) \/ ServiceExits(v)) /\ UNCHANGED scopeVars /\ UNCHANGED <<loopVars, crashed,
  history>>) \/ (Report(v) /\ UNCHANGED <<loopVars, crashed, history>>) \/ ((StopService(v) \/
  StopEnds(v)) /\ UNCHANGED <<scopeVars, loopVars, crashed, history>>))
  PROVE UNCHANGED <<at>>
  <2>1. ASSUME NEW s \in Scopes, ((TearWork(s) \/ TearDone(s)) /\ ScopeOnly) \/ (TearStart(s) /\
    UNCHANGED <<crashed, history>>) \/ (TearPanics(s) /\ UNCHANGED <<scopeVars, serviceVars,
    loopVars, history>>) \/ (CancelScope(s) /\ UNCHANGED <<serviceVars, loopVars, crashed>>)
    PROVE UNCHANGED <<at>>
    BY <2>1 DEF TearWork, ScopeOnly, serviceVars, loopVars, history, TearDone, TearStart,
      TearPanics, scopeVars, CancelScope
  <2>2. ASSUME NEW s \in Scopes, NEW m \in Messages, (SteerLoop(s, m) /\ UNCHANGED <<scopeVars,
    serviceVars, crashed, history>>)
    PROVE UNCHANGED <<at>>
    BY <2>2 DEF SteerLoop, scopeVars, serviceVars, history
  <2>3. ASSUME NEW v \in Services, (Report(v) /\ UNCHANGED <<loopVars, crashed, history>>) \/
    ((StopService(v) \/ StopEnds(v)) /\ UNCHANGED <<scopeVars, loopVars, crashed, history>>) \/
    ((AdoptService(v) \/ Classify(v) \/ WaitDone(v) \/ ServiceExits(v)) /\ UNCHANGED scopeVars /\
    UNCHANGED <<loopVars, crashed, history>>)
    PROVE UNCHANGED <<at>>
    BY <2>3 DEF Report, loopVars, history, FailService, StopService, scopeVars, StopEnds,
      AdoptService, Classify, WaitDone, ServiceExits
  <2> QED
    BY <1>1, <2>1, <2>2, <2>3 DEF vars, scopeVars, serviceVars, loopVars, history
<1> USE <1>0 DEF IInv, TypeOK, BodyTypes, TearTypes, Places
<1>2. ASSUME NEW s \in Scopes, NEW c \in Scopes, Open(s, c), ScopeOnly
  PROVE at' \in [Scopes -> Places]
  BY <1>2 DEF Open, ScopeOnly, serviceVars, loopVars, history, Running
<1>3. ASSUME NEW s \in Scopes, NEW c \in Scopes, OpenItem(s, c), ScopeOnly
  PROVE at' \in [Scopes -> Places]
  BY <1>3 DEF OpenItem, ScopeOnly, serviceVars, loopVars, history, Running
<1>4. ASSUME NEW s \in Scopes, NEW c \in Scopes, Go(s, c), ScopeOnly
  PROVE at' \in [Scopes -> Places]
  BY <1>4 DEF Go, ScopeOnly, serviceVars, loopVars, history, Attached
<1>5. ASSUME NEW s \in Scopes, NEW k \in {"command", "turn"}, StartCall(s, k), ScopeOnly
  PROVE at' \in [Scopes -> Places]
  BY <1>5 DEF StartCall, ScopeOnly, serviceVars, loopVars, history, Running
<1>6. ASSUME NEW s \in Scopes, CallReturns(s), ScopeOnly PROVE at' \in [Scopes -> Places]
  BY <1>6 DEF CallReturns, ScopeOnly, serviceVars, loopVars, history
<1>7. ASSUME NEW s \in Scopes, Wait(s), ScopeOnly PROVE at' \in [Scopes -> Places]
  BY <1>7 DEF Wait, ScopeOnly, serviceVars, loopVars, history
<1>8. ASSUME NEW s \in Scopes, Return(s), UNCHANGED <<serviceVars, loopVars, crashed, aborted,
  killed, kills>>
  PROVE at' \in [Scopes -> Places]
  BY <1>8 DEF Return, serviceVars, loopVars, Running, Returned
<1>9. ASSUME NEW s \in Scopes, NEW v \in Services, StartService(s, v), UNCHANGED <<loopVars,
  crashed, history>>
  PROVE at' \in [Scopes -> Places]
  BY <1>9 DEF StartService, loopVars, history, Running
<1>10. ASSUME NEW s \in Scopes, Attach(s), UNCHANGED <<serviceVars, queue, record, crashed,
  history>>
  PROVE at' \in [Scopes -> Places]
  BY <1>10 DEF Attach, serviceVars, history, Attached
<1>11. ASSUME NEW s \in Scopes, Begin(s), ScopeOnly PROVE at' \in [Scopes -> Places]
  BY <1>11 DEF Begin, ScopeOnly, serviceVars, loopVars, history
<1>12. ASSUME NEW s \in Scopes, Finish(s), ScopeOnly PROVE at' \in [Scopes -> Places]
  BY <1>12 DEF Finish, ScopeOnly, serviceVars, loopVars, history
<1>13. ASSUME NEW s \in Scopes, FinishItem(s), ScopeOnly PROVE at' \in [Scopes -> Places]
  BY <1>13 DEF FinishItem, ScopeOnly, serviceVars, loopVars, history, FailService
<1>14. ASSUME NEW s \in Scopes, FinishTask(s), ScopeOnly PROVE at' \in [Scopes -> Places]
  BY <1>14 DEF FinishTask, ScopeOnly, serviceVars, loopVars, history
<1>15. ASSUME NEW s \in Scopes, FinishChild(s), UNCHANGED <<serviceVars, loopVars, crashed, cut,
  killed, kills>>
  PROVE at' \in [Scopes -> Places]
  BY <1>15 DEF FinishChild, serviceVars, loopVars
<1>16. ASSUME NEW s \in Scopes, Joined(s), UNCHANGED <<serviceVars, loopVars, crashed, aborted,
  killed, kills>>
  PROVE at' \in [Scopes -> Places]
  BY <1>16 DEF Joined, serviceVars, loopVars, Returned
<1>17. ASSUME NEW s \in Scopes, PlanNext(s), UNCHANGED <<serviceVars, crashed, history>>
  PROVE at' \in [Scopes -> Places]
  BY <1>17 DEF PlanNext, serviceVars, history
<1>18. ASSUME NEW s \in Scopes, StoreTask(s), UNCHANGED <<serviceVars, loopVars, history>>
  PROVE at' \in [Scopes -> Places]
  BY <1>18 DEF StoreTask, serviceVars, loopVars, history
<1>19. ASSUME NEW s \in Scopes, EndLoop(s), UNCHANGED <<serviceVars, crashed, aborted, killed,
  kills>>
  PROVE at' \in [Scopes -> Places]
  BY <1>19 DEF EndLoop, serviceVars, loopVars, Returned
<1>20. ASSUME NEW s \in Scopes, PlanEnds(s), ScopeOnly PROVE at' \in [Scopes -> Places]
  BY <1>20 DEF PlanEnds, ScopeOnly, serviceVars, loopVars, history
<1>21. ASSUME NEW s \in Scopes, NEW c \in Scopes, PlanTask(s, c), ScopeOnly
  PROVE at' \in [Scopes -> Places]
  BY <1>21 DEF PlanTask, ScopeOnly, serviceVars, loopVars, history, Attached
<1>22. ASSUME NEW v \in Services, ServiceUnready(v), UNCHANGED <<loopVars, crashed, history>>
  PROVE at' \in [Scopes -> Places]
  BY <1>22 DEF ServiceUnready, loopVars, history, ServiceReturns
<1>23. ASSUME NEW v \in Services, ServiceRefused(v), UNCHANGED <<loopVars, crashed, history>>
  PROVE at' \in [Scopes -> Places]
  BY <1>23 DEF ServiceRefused, loopVars, history, ServiceReturns
<1>24. ASSUME NEW v \in Services, ServiceReady(v), UNCHANGED <<loopVars, crashed, history>>
  PROVE at' \in [Scopes -> Places]
  BY <1>24 DEF ServiceReady, loopVars, history, ServiceReturns, FailService
<1>25. CASE UNCHANGED vars \/ (\E s \in Scopes : (TearStart(s) /\ UNCHANGED <<crashed, history>>) \/
  ((TearWork(s) \/ TearDone(s)) /\ ScopeOnly) \/ (TearPanics(s) /\ UNCHANGED <<scopeVars,
  serviceVars, loopVars, history>>) \/ (CancelScope(s) /\ UNCHANGED <<serviceVars, loopVars,
  crashed>>)) \/ (\E s \in Scopes : \E m \in Messages : (SteerLoop(s, m) /\ UNCHANGED <<scopeVars,
  serviceVars, crashed, history>>)) \/ (\E v \in Services : ((AdoptService(v) \/ Classify(v) \/
  WaitDone(v) \/ ServiceExits(v)) /\ UNCHANGED scopeVars /\ UNCHANGED <<loopVars, crashed,
  history>>) \/ (Report(v) /\ UNCHANGED <<loopVars, crashed, history>>) \/ ((StopService(v) \/
  StopEnds(v)) /\ UNCHANGED <<scopeVars, loopVars, crashed, history>>))
  BY <1>1, <1>25
<1> HIDE DEF IInv, TypeOK, BodyTypes, TearTypes, Places
<1> QED
  BY <1>2, <1>3, <1>4, <1>5, <1>6, <1>7, <1>8, <1>9, <1>10, <1>11, <1>12, <1>13, <1>14, <1>15,
    <1>16, <1>17, <1>18, <1>19, <1>20, <1>21, <1>22, <1>23, <1>24, <1>25 DEF Next, Workflow, Body,
    Planner, Tear, Operator, ServiceStep, Stopping, Process

\* Causes keep their types.
LEMMA StepCause == IInv /\ [Next]_vars => cause' \in [Scopes -> Causes \cup {None}]
<1> SUFFICES ASSUME IInv, [Next]_vars PROVE cause' \in [Scopes -> Causes \cup {None}]
  OBVIOUS
<1>0. tree' = tree
  BY DEF Next, vars
<1>1. ASSUME UNCHANGED vars \/ (\E s \in Scopes : \E c \in Scopes : ((Open(s, c) \/ OpenItem(s, c)
  \/ Go(s, c) \/ PlanTask(s, c)) /\ ScopeOnly)) \/ (\E s \in Scopes : \E k \in {"command", "turn"} :
  (StartCall(s, k) /\ ScopeOnly)) \/ (\E s \in Scopes : ((CallReturns(s) \/ Wait(s) \/ Finish(s) \/
  FinishTask(s) \/ PlanEnds(s) \/ TearWork(s) \/ TearDone(s)) /\ ScopeOnly) \/ ((Return(s) \/
  Joined(s)) /\ UNCHANGED <<serviceVars, loopVars, crashed, aborted, killed, kills>>) \/ (Attach(s)
  /\ UNCHANGED <<serviceVars, queue, record, crashed, history>>) \/ (PlanNext(s) /\ UNCHANGED
  <<serviceVars, crashed, history>>) \/ (StoreTask(s) /\ UNCHANGED <<serviceVars, loopVars,
  history>>) \/ (EndLoop(s) /\ UNCHANGED <<serviceVars, crashed, aborted, killed, kills>>) \/
  (TearPanics(s) /\ UNCHANGED <<scopeVars, serviceVars, loopVars, history>>)) \/ (\E s \in Scopes :
  \E v \in Services : (StartService(s, v) /\ UNCHANGED <<loopVars, crashed, history>>)) \/ (\E s \in
  Scopes : \E m \in Messages : (SteerLoop(s, m) /\ UNCHANGED <<scopeVars, serviceVars, crashed,
  history>>)) \/ (\E v \in Services : ((AdoptService(v) \/ Classify(v) \/ WaitDone(v) \/
  ServiceExits(v)) /\ UNCHANGED scopeVars /\ UNCHANGED <<loopVars, crashed, history>>) \/
  ((ServiceUnready(v) \/ ServiceRefused(v)) /\ UNCHANGED <<loopVars, crashed, history>>) \/
  ((StopService(v) \/ StopEnds(v)) /\ UNCHANGED <<scopeVars, loopVars, crashed, history>>))
  PROVE UNCHANGED <<cause>>
  <2>1. ASSUME NEW s \in Scopes, NEW c \in Scopes, ((Open(s, c) \/ OpenItem(s, c) \/ Go(s, c) \/
    PlanTask(s, c)) /\ ScopeOnly)
    PROVE UNCHANGED <<cause>>
    BY <2>1 DEF Open, ScopeOnly, serviceVars, loopVars, history, Running, OpenItem, Go, Attached,
      PlanTask
  <2>2. ASSUME NEW s \in Scopes, NEW k \in {"command", "turn"}, (StartCall(s, k) /\ ScopeOnly)
    PROVE UNCHANGED <<cause>>
    BY <2>2 DEF StartCall, ScopeOnly, serviceVars, loopVars, history, Running
  <2>3. ASSUME NEW s \in Scopes, ((CallReturns(s) \/ Wait(s) \/ Finish(s) \/ FinishTask(s) \/
    PlanEnds(s) \/ TearWork(s) \/ TearDone(s)) /\ ScopeOnly) \/ (TearPanics(s) /\ UNCHANGED
    <<scopeVars, serviceVars, loopVars, history>>) \/ (EndLoop(s) /\ UNCHANGED <<serviceVars,
    crashed, aborted, killed, kills>>)
    PROVE UNCHANGED <<cause>>
    BY <2>3 DEF CallReturns, ScopeOnly, serviceVars, loopVars, history, Wait, Finish, FinishTask,
      PlanEnds, TearWork, TearDone, TearPanics, scopeVars, EndLoop, Returned
  <2>4. ASSUME NEW s \in Scopes, (PlanNext(s) /\ UNCHANGED <<serviceVars, crashed, history>>) \/
    ((Return(s) \/ Joined(s)) /\ UNCHANGED <<serviceVars, loopVars, crashed, aborted, killed,
    kills>>) \/ (StoreTask(s) /\ UNCHANGED <<serviceVars, loopVars, history>>) \/ (Attach(s) /\
    UNCHANGED <<serviceVars, queue, record, crashed, history>>)
    PROVE UNCHANGED <<cause>>
    BY <2>4 DEF PlanNext, serviceVars, history, Return, loopVars, Running, Returned, Joined,
      StoreTask, Attach, Attached
  <2>5. ASSUME NEW s \in Scopes, NEW v \in Services, (StartService(s, v) /\ UNCHANGED <<loopVars,
    crashed, history>>)
    PROVE UNCHANGED <<cause>>
    BY <2>5 DEF StartService, loopVars, history, Running
  <2>6. ASSUME NEW s \in Scopes, NEW m \in Messages, (SteerLoop(s, m) /\ UNCHANGED <<scopeVars,
    serviceVars, crashed, history>>)
    PROVE UNCHANGED <<cause>>
    BY <2>6 DEF SteerLoop, scopeVars, serviceVars, history
  <2>7. ASSUME NEW v \in Services, ((ServiceUnready(v) \/ ServiceRefused(v)) /\ UNCHANGED
    <<loopVars, crashed, history>>) \/ ((StopService(v) \/ StopEnds(v)) /\ UNCHANGED <<scopeVars,
    loopVars, crashed, history>>) \/ ((AdoptService(v) \/ Classify(v) \/ WaitDone(v) \/
    ServiceExits(v)) /\ UNCHANGED scopeVars /\ UNCHANGED <<loopVars, crashed, history>>)
    PROVE UNCHANGED <<cause>>
    BY <2>7 DEF ServiceUnready, loopVars, history, ServiceReturns, ServiceRefused, StopService,
      scopeVars, StopEnds, AdoptService, Classify, WaitDone, ServiceExits
  <2> QED
    BY <1>1, <2>1, <2>2, <2>3, <2>4, <2>5, <2>6, <2>7 DEF vars, scopeVars, serviceVars, loopVars,
      history
<1> USE <1>0, Opened, Shape, CancelEffect, KnownErrors DEF IInv, TypeOK, BodyTypes, TearTypes
<1>2. ASSUME NEW s \in Scopes, Begin(s), ScopeOnly PROVE cause' \in [Scopes -> Causes \cup {None}]
  BY <1>2 DEF Begin, ScopeOnly, serviceVars, loopVars, history, Parent
<1>3. ASSUME NEW s \in Scopes, FinishItem(s), ScopeOnly
  PROVE cause' \in [Scopes -> Causes \cup {None}]
  <2>1. Parent(s) \in Scopes
    BY <1>3 DEF FinishItem, Active
  <2>2. cause' = IF ScopeError(s) # {} THEN (IF serviceErr[Parent(s)] THEN cause ELSE Cancelled(Parent(s), "svc")) ELSE cause
    BY <1>3 DEF FinishItem, FailService
  <2> QED
    BY <2>1, <2>2
<1>4. ASSUME NEW s \in Scopes, FinishChild(s), UNCHANGED <<serviceVars, loopVars, crashed, cut,
  killed, kills>>
  PROVE cause' \in [Scopes -> Causes \cup {None}]
  BY <1>4 DEF FinishChild, serviceVars, loopVars, Parent
<1>5. ASSUME NEW s \in Scopes, TearStart(s), UNCHANGED <<crashed, history>>
  PROVE cause' \in [Scopes -> Causes \cup {None}]
  BY <1>5 DEF TearStart, history
<1>6. ASSUME NEW s \in Scopes, CancelScope(s), UNCHANGED <<serviceVars, loopVars, crashed>>
  PROVE cause' \in [Scopes -> Causes \cup {None}]
  BY <1>6 DEF CancelScope, serviceVars, loopVars
<1>7. ASSUME NEW v \in Services, Report(v), UNCHANGED <<loopVars, crashed, history>>
  PROVE cause' \in [Scopes -> Causes \cup {None}]
  BY <1>7 DEF Report, loopVars, history, FailService
<1>8. ASSUME NEW v \in Services, ServiceReady(v), UNCHANGED <<loopVars, crashed, history>>
  PROVE cause' \in [Scopes -> Causes \cup {None}]
  BY <1>8 DEF ServiceReady, loopVars, history, ServiceReturns, FailService
<1>9. CASE UNCHANGED vars \/ (\E s \in Scopes : \E c \in Scopes : ((Open(s, c) \/ OpenItem(s, c) \/
  Go(s, c) \/ PlanTask(s, c)) /\ ScopeOnly)) \/ (\E s \in Scopes : \E k \in {"command", "turn"} :
  (StartCall(s, k) /\ ScopeOnly)) \/ (\E s \in Scopes : ((CallReturns(s) \/ Wait(s) \/ Finish(s) \/
  FinishTask(s) \/ PlanEnds(s) \/ TearWork(s) \/ TearDone(s)) /\ ScopeOnly) \/ ((Return(s) \/
  Joined(s)) /\ UNCHANGED <<serviceVars, loopVars, crashed, aborted, killed, kills>>) \/ (Attach(s)
  /\ UNCHANGED <<serviceVars, queue, record, crashed, history>>) \/ (PlanNext(s) /\ UNCHANGED
  <<serviceVars, crashed, history>>) \/ (StoreTask(s) /\ UNCHANGED <<serviceVars, loopVars,
  history>>) \/ (EndLoop(s) /\ UNCHANGED <<serviceVars, crashed, aborted, killed, kills>>) \/
  (TearPanics(s) /\ UNCHANGED <<scopeVars, serviceVars, loopVars, history>>)) \/ (\E s \in Scopes :
  \E v \in Services : (StartService(s, v) /\ UNCHANGED <<loopVars, crashed, history>>)) \/ (\E s \in
  Scopes : \E m \in Messages : (SteerLoop(s, m) /\ UNCHANGED <<scopeVars, serviceVars, crashed,
  history>>)) \/ (\E v \in Services : ((AdoptService(v) \/ Classify(v) \/ WaitDone(v) \/
  ServiceExits(v)) /\ UNCHANGED scopeVars /\ UNCHANGED <<loopVars, crashed, history>>) \/
  ((ServiceUnready(v) \/ ServiceRefused(v)) /\ UNCHANGED <<loopVars, crashed, history>>) \/
  ((StopService(v) \/ StopEnds(v)) /\ UNCHANGED <<scopeVars, loopVars, crashed, history>>))
  BY <1>1, <1>9
<1> HIDE DEF IInv, TypeOK, BodyTypes, TearTypes
<1> QED
  BY <1>2, <1>3, <1>4, <1>5, <1>6, <1>7, <1>8, <1>9 DEF Next, Workflow, Body, Planner, Tear,
    Operator, ServiceStep, Stopping, Process

\* Errors keep their types.
LEMMA StepErr == IInv /\ [Next]_vars => err' \in [Scopes -> SUBSET Tags]
<1> SUFFICES ASSUME IInv, [Next]_vars PROVE err' \in [Scopes -> SUBSET Tags]
  OBVIOUS
<1>0. tree' = tree
  BY DEF Next, vars
<1>1. ASSUME UNCHANGED vars \/ (\E s \in Scopes : \E c \in Scopes : ((OpenItem(s, c) \/ Go(s, c) \/
  PlanTask(s, c)) /\ ScopeOnly)) \/ (\E s \in Scopes : ((Wait(s) \/ Begin(s) \/ TearWork(s) \/
  TearDone(s)) /\ ScopeOnly) \/ (Attach(s) /\ UNCHANGED <<serviceVars, queue, record, crashed,
  history>>) \/ (StoreTask(s) /\ UNCHANGED <<serviceVars, loopVars, history>>) \/ (TearStart(s) /\
  UNCHANGED <<crashed, history>>) \/ (TearPanics(s) /\ UNCHANGED <<scopeVars, serviceVars, loopVars,
  history>>) \/ (CancelScope(s) /\ UNCHANGED <<serviceVars, loopVars, crashed>>)) \/ (\E s \in
  Scopes : \E m \in Messages : (SteerLoop(s, m) /\ UNCHANGED <<scopeVars, serviceVars, crashed,
  history>>)) \/ (\E v \in Services : ((AdoptService(v) \/ Classify(v) \/ WaitDone(v) \/
  ServiceExits(v)) /\ UNCHANGED scopeVars /\ UNCHANGED <<loopVars, crashed, history>>) \/ (Report(v)
  /\ UNCHANGED <<loopVars, crashed, history>>) \/ ((StopService(v) \/ StopEnds(v)) /\ UNCHANGED
  <<scopeVars, loopVars, crashed, history>>))
  PROVE UNCHANGED <<err>>
  <2>1. ASSUME NEW s \in Scopes, NEW c \in Scopes, ((OpenItem(s, c) \/ Go(s, c) \/ PlanTask(s, c))
    /\ ScopeOnly)
    PROVE UNCHANGED <<err>>
    BY <2>1 DEF OpenItem, ScopeOnly, serviceVars, loopVars, history, Running, Go, Attached, PlanTask
  <2>2. ASSUME NEW s \in Scopes, ((Wait(s) \/ Begin(s) \/ TearWork(s) \/ TearDone(s)) /\ ScopeOnly)
    \/ (TearStart(s) /\ UNCHANGED <<crashed, history>>) \/ (TearPanics(s) /\ UNCHANGED <<scopeVars,
    serviceVars, loopVars, history>>) \/ (CancelScope(s) /\ UNCHANGED <<serviceVars, loopVars,
    crashed>>) \/ (StoreTask(s) /\ UNCHANGED <<serviceVars, loopVars, history>>) \/ (Attach(s) /\
    UNCHANGED <<serviceVars, queue, record, crashed, history>>)
    PROVE UNCHANGED <<err>>
    BY <2>2 DEF Wait, ScopeOnly, serviceVars, loopVars, history, Begin, TearWork, TearDone,
      TearStart, TearPanics, scopeVars, CancelScope, StoreTask, Attach, Attached
  <2>3. ASSUME NEW s \in Scopes, NEW m \in Messages, (SteerLoop(s, m) /\ UNCHANGED <<scopeVars,
    serviceVars, crashed, history>>)
    PROVE UNCHANGED <<err>>
    BY <2>3 DEF SteerLoop, scopeVars, serviceVars, history
  <2>4. ASSUME NEW v \in Services, (Report(v) /\ UNCHANGED <<loopVars, crashed, history>>) \/
    ((StopService(v) \/ StopEnds(v)) /\ UNCHANGED <<scopeVars, loopVars, crashed, history>>) \/
    ((AdoptService(v) \/ Classify(v) \/ WaitDone(v) \/ ServiceExits(v)) /\ UNCHANGED scopeVars /\
    UNCHANGED <<loopVars, crashed, history>>)
    PROVE UNCHANGED <<err>>
    BY <2>4 DEF Report, loopVars, history, FailService, StopService, scopeVars, StopEnds,
      AdoptService, Classify, WaitDone, ServiceExits
  <2> QED
    BY <1>1, <2>1, <2>2, <2>3, <2>4 DEF vars, scopeVars, serviceVars, loopVars, history
<1> USE <1>0, Errors, KnownErrors DEF IInv, TypeOK, BodyTypes, TearTypes
<1>2. ASSUME NEW s \in Scopes, NEW c \in Scopes, Open(s, c), ScopeOnly
  PROVE err' \in [Scopes -> SUBSET Tags]
  BY <1>2 DEF Open, ScopeOnly, serviceVars, loopVars, history, Running
<1>3. ASSUME NEW s \in Scopes, NEW k \in {"command", "turn"}, StartCall(s, k), ScopeOnly
  PROVE err' \in [Scopes -> SUBSET Tags]
  BY <1>3 DEF StartCall, ScopeOnly, serviceVars, loopVars, history, Running
<1>4. ASSUME NEW s \in Scopes, CallReturns(s), ScopeOnly PROVE err' \in [Scopes -> SUBSET Tags]
  BY <1>4 DEF CallReturns, ScopeOnly, serviceVars, loopVars, history, CommandError
<1>5. ASSUME NEW s \in Scopes, Return(s), UNCHANGED <<serviceVars, loopVars, crashed, aborted,
  killed, kills>>
  PROVE err' \in [Scopes -> SUBSET Tags]
  BY <1>5 DEF Return, serviceVars, loopVars, Running, Returned, BodyErrors
<1>6. ASSUME NEW s \in Scopes, NEW v \in Services, StartService(s, v), UNCHANGED <<loopVars,
  crashed, history>>
  PROVE err' \in [Scopes -> SUBSET Tags]
  BY <1>6 DEF StartService, loopVars, history, Running
<1>7. ASSUME NEW s \in Scopes, Finish(s), ScopeOnly PROVE err' \in [Scopes -> SUBSET Tags]
  BY <1>7 DEF Finish, ScopeOnly, serviceVars, loopVars, history
<1>8. ASSUME NEW s \in Scopes, FinishItem(s), ScopeOnly PROVE err' \in [Scopes -> SUBSET Tags]
  BY <1>8 DEF FinishItem, ScopeOnly, serviceVars, loopVars, history, FailService
<1>9. ASSUME NEW s \in Scopes, FinishTask(s), ScopeOnly PROVE err' \in [Scopes -> SUBSET Tags]
  BY <1>9 DEF FinishTask, ScopeOnly, serviceVars, loopVars, history
<1>10. ASSUME NEW s \in Scopes, FinishChild(s), UNCHANGED <<serviceVars, loopVars, crashed, cut,
  killed, kills>>
  PROVE err' \in [Scopes -> SUBSET Tags]
  BY <1>10 DEF FinishChild, serviceVars, loopVars
<1>11. ASSUME NEW s \in Scopes, Joined(s), UNCHANGED <<serviceVars, loopVars, crashed, aborted,
  killed, kills>>
  PROVE err' \in [Scopes -> SUBSET Tags]
  BY <1>11 DEF Joined, serviceVars, loopVars, Returned
<1>12. ASSUME NEW s \in Scopes, PlanNext(s), UNCHANGED <<serviceVars, crashed, history>>
  PROVE err' \in [Scopes -> SUBSET Tags]
  BY <1>12 DEF PlanNext, serviceVars, history
<1>13. ASSUME NEW s \in Scopes, EndLoop(s), UNCHANGED <<serviceVars, crashed, aborted, killed,
  kills>>
  PROVE err' \in [Scopes -> SUBSET Tags]
  BY <1>13 DEF EndLoop, serviceVars, loopVars, Returned
<1>14. ASSUME NEW s \in Scopes, PlanEnds(s), ScopeOnly PROVE err' \in [Scopes -> SUBSET Tags]
  BY <1>14 DEF PlanEnds, ScopeOnly, serviceVars, loopVars, history
<1>15. ASSUME NEW v \in Services, ServiceUnready(v), UNCHANGED <<loopVars, crashed, history>>
  PROVE err' \in [Scopes -> SUBSET Tags]
  BY <1>15 DEF ServiceUnready, loopVars, history, ServiceReturns
<1>16. ASSUME NEW v \in Services, ServiceRefused(v), UNCHANGED <<loopVars, crashed, history>>
  PROVE err' \in [Scopes -> SUBSET Tags]
  BY <1>16 DEF ServiceRefused, loopVars, history, ServiceReturns
<1>17. ASSUME NEW v \in Services, ServiceReady(v), UNCHANGED <<loopVars, crashed, history>>
  PROVE err' \in [Scopes -> SUBSET Tags]
  BY <1>17 DEF ServiceReady, loopVars, history, ServiceReturns, FailService
<1>18. CASE UNCHANGED vars \/ (\E s \in Scopes : \E c \in Scopes : ((OpenItem(s, c) \/ Go(s, c) \/
  PlanTask(s, c)) /\ ScopeOnly)) \/ (\E s \in Scopes : ((Wait(s) \/ Begin(s) \/ TearWork(s) \/
  TearDone(s)) /\ ScopeOnly) \/ (Attach(s) /\ UNCHANGED <<serviceVars, queue, record, crashed,
  history>>) \/ (StoreTask(s) /\ UNCHANGED <<serviceVars, loopVars, history>>) \/ (TearStart(s) /\
  UNCHANGED <<crashed, history>>) \/ (TearPanics(s) /\ UNCHANGED <<scopeVars, serviceVars, loopVars,
  history>>) \/ (CancelScope(s) /\ UNCHANGED <<serviceVars, loopVars, crashed>>)) \/ (\E s \in
  Scopes : \E m \in Messages : (SteerLoop(s, m) /\ UNCHANGED <<scopeVars, serviceVars, crashed,
  history>>)) \/ (\E v \in Services : ((AdoptService(v) \/ Classify(v) \/ WaitDone(v) \/
  ServiceExits(v)) /\ UNCHANGED scopeVars /\ UNCHANGED <<loopVars, crashed, history>>) \/ (Report(v)
  /\ UNCHANGED <<loopVars, crashed, history>>) \/ ((StopService(v) \/ StopEnds(v)) /\ UNCHANGED
  <<scopeVars, loopVars, crashed, history>>))
  BY <1>1, <1>18
<1> HIDE DEF IInv, TypeOK, BodyTypes, TearTypes
<1> QED
  BY <1>2, <1>3, <1>4, <1>5, <1>6, <1>7, <1>8, <1>9, <1>10, <1>11, <1>12, <1>13, <1>14, <1>15,
    <1>16, <1>17, <1>18 DEF Next, Workflow, Body, Planner, Tear, Operator, ServiceStep, Stopping,
    Process

\* So does the rest of a scope.
LEMMA StepTearTypes == IInv /\ [Next]_vars => TearTypes'
<1> SUFFICES ASSUME IInv, [Next]_vars PROVE TearTypes'
  OBVIOUS
<1>0. tree' = tree
  BY DEF Next, vars
<1>1. ASSUME UNCHANGED vars \/ (\E s \in Scopes : \E c \in Scopes : ((Open(s, c) \/ OpenItem(s, c))
  /\ ScopeOnly)) \/ (\E s \in Scopes : \E k \in {"command", "turn"} : (StartCall(s, k) /\
  ScopeOnly)) \/ (\E s \in Scopes : ((CallReturns(s) \/ Wait(s) \/ Finish(s) \/ FinishTask(s) \/
  PlanEnds(s)) /\ ScopeOnly) \/ ((Return(s) \/ Joined(s)) /\ UNCHANGED <<serviceVars, loopVars,
  crashed, aborted, killed, kills>>) \/ (FinishChild(s) /\ UNCHANGED <<serviceVars, loopVars,
  crashed, cut, killed, kills>>) \/ (PlanNext(s) /\ UNCHANGED <<serviceVars, crashed, history>>) \/
  (StoreTask(s) /\ UNCHANGED <<serviceVars, loopVars, history>>) \/ (EndLoop(s) /\ UNCHANGED
  <<serviceVars, crashed, aborted, killed, kills>>) \/ (TearPanics(s) /\ UNCHANGED <<scopeVars,
  serviceVars, loopVars, history>>) \/ (CancelScope(s) /\ UNCHANGED <<serviceVars, loopVars,
  crashed>>)) \/ (\E s \in Scopes : \E v \in Services : (StartService(s, v) /\ UNCHANGED <<loopVars,
  crashed, history>>)) \/ (\E s \in Scopes : \E m \in Messages : (SteerLoop(s, m) /\ UNCHANGED
  <<scopeVars, serviceVars, crashed, history>>)) \/ (\E v \in Services : ((AdoptService(v) \/
  Classify(v) \/ WaitDone(v) \/ ServiceExits(v)) /\ UNCHANGED scopeVars /\ UNCHANGED <<loopVars,
  crashed, history>>) \/ ((ServiceUnready(v) \/ ServiceRefused(v)) /\ UNCHANGED <<loopVars, crashed,
  history>>) \/ ((StopService(v) \/ StopEnds(v)) /\ UNCHANGED <<scopeVars, loopVars, crashed,
  history>>))
  PROVE UNCHANGED <<ended, live, children, tear, serviceErr, endErr>>
  <2>1. ASSUME NEW s \in Scopes, NEW c \in Scopes, ((Open(s, c) \/ OpenItem(s, c)) /\ ScopeOnly)
    PROVE UNCHANGED <<ended, live, children, tear, serviceErr, endErr>>
    BY <2>1 DEF Open, ScopeOnly, serviceVars, loopVars, history, Running, OpenItem
  <2>2. ASSUME NEW s \in Scopes, NEW k \in {"command", "turn"}, (StartCall(s, k) /\ ScopeOnly)
    PROVE UNCHANGED <<ended, live, children, tear, serviceErr, endErr>>
    BY <2>2 DEF StartCall, ScopeOnly, serviceVars, loopVars, history, Running
  <2>3. ASSUME NEW s \in Scopes, ((CallReturns(s) \/ Wait(s) \/ Finish(s) \/ FinishTask(s) \/
    PlanEnds(s)) /\ ScopeOnly) \/ (TearPanics(s) /\ UNCHANGED <<scopeVars, serviceVars, loopVars,
    history>>) \/ (EndLoop(s) /\ UNCHANGED <<serviceVars, crashed, aborted, killed, kills>>) \/
    (PlanNext(s) /\ UNCHANGED <<serviceVars, crashed, history>>) \/ (Return(s) /\ UNCHANGED
    <<serviceVars, loopVars, crashed, aborted, killed, kills>>)
    PROVE UNCHANGED <<ended, live, children, tear, serviceErr, endErr>>
    BY <2>3 DEF CallReturns, ScopeOnly, serviceVars, loopVars, history, Wait, Finish, FinishTask,
      PlanEnds, TearPanics, scopeVars, EndLoop, Returned, PlanNext, Return, Running
  <2>4. ASSUME NEW s \in Scopes, (Joined(s) /\ UNCHANGED <<serviceVars, loopVars, crashed, aborted,
    killed, kills>>) \/ (FinishChild(s) /\ UNCHANGED <<serviceVars, loopVars, crashed, cut, killed,
    kills>>) \/ (CancelScope(s) /\ UNCHANGED <<serviceVars, loopVars, crashed>>) \/ (StoreTask(s) /\
    UNCHANGED <<serviceVars, loopVars, history>>)
    PROVE UNCHANGED <<ended, live, children, tear, serviceErr, endErr>>
    BY <2>4 DEF Joined, serviceVars, loopVars, Returned, FinishChild, CancelScope, StoreTask,
      history
  <2>5. ASSUME NEW s \in Scopes, NEW v \in Services, (StartService(s, v) /\ UNCHANGED <<loopVars,
    crashed, history>>)
    PROVE UNCHANGED <<ended, live, children, tear, serviceErr, endErr>>
    BY <2>5 DEF StartService, loopVars, history, Running
  <2>6. ASSUME NEW s \in Scopes, NEW m \in Messages, (SteerLoop(s, m) /\ UNCHANGED <<scopeVars,
    serviceVars, crashed, history>>)
    PROVE UNCHANGED <<ended, live, children, tear, serviceErr, endErr>>
    BY <2>6 DEF SteerLoop, scopeVars, serviceVars, history
  <2>7. ASSUME NEW v \in Services, ((ServiceUnready(v) \/ ServiceRefused(v)) /\ UNCHANGED
    <<loopVars, crashed, history>>) \/ ((StopService(v) \/ StopEnds(v)) /\ UNCHANGED <<scopeVars,
    loopVars, crashed, history>>) \/ ((AdoptService(v) \/ Classify(v) \/ WaitDone(v) \/
    ServiceExits(v)) /\ UNCHANGED scopeVars /\ UNCHANGED <<loopVars, crashed, history>>)
    PROVE UNCHANGED <<ended, live, children, tear, serviceErr, endErr>>
    BY <2>7 DEF ServiceUnready, loopVars, history, ServiceReturns, ServiceRefused, StopService,
      scopeVars, StopEnds, AdoptService, Classify, WaitDone, ServiceExits
  <2> QED
    BY <1>1, <2>1, <2>2, <2>3, <2>4, <2>5, <2>6, <2>7 DEF vars, scopeVars, serviceVars, loopVars,
      history
<1> USE <1>0 DEF IInv, TypeOK, TearTypes, Attached
<1>2. ASSUME NEW s \in Scopes, NEW c \in Scopes, Go(s, c), ScopeOnly PROVE TearTypes'
  BY <1>2 DEF Go, ScopeOnly, serviceVars, loopVars, history, Attached
<1>3. ASSUME NEW s \in Scopes, Attach(s), UNCHANGED <<serviceVars, queue, record, crashed, history>>
  PROVE TearTypes'
  BY <1>3 DEF Attach, serviceVars, history, Attached
<1>4. ASSUME NEW s \in Scopes, Begin(s), ScopeOnly PROVE TearTypes'
  BY <1>4 DEF Begin, ScopeOnly, serviceVars, loopVars, history
<1>5. ASSUME NEW s \in Scopes, FinishItem(s), ScopeOnly PROVE TearTypes'
  BY <1>5 DEF FinishItem, ScopeOnly, serviceVars, loopVars, history, FailService
<1>6. ASSUME NEW s \in Scopes, NEW c \in Scopes, PlanTask(s, c), ScopeOnly PROVE TearTypes'
  BY <1>6 DEF PlanTask, ScopeOnly, serviceVars, loopVars, history, Attached
<1>7. ASSUME NEW s \in Scopes, TearStart(s), UNCHANGED <<crashed, history>> PROVE TearTypes'
  BY <1>7 DEF TearStart, history
<1>8. ASSUME NEW s \in Scopes, TearWork(s), ScopeOnly PROVE TearTypes'
  BY <1>8 DEF TearWork, ScopeOnly, serviceVars, loopVars, history
<1>9. ASSUME NEW s \in Scopes, TearDone(s), ScopeOnly PROVE TearTypes'
  BY <1>9 DEF TearDone, ScopeOnly, serviceVars, loopVars, history
<1>10. ASSUME NEW v \in Services, Report(v), UNCHANGED <<loopVars, crashed, history>>
  PROVE TearTypes'
  BY <1>10 DEF Report, loopVars, history, FailService
<1>11. ASSUME NEW v \in Services, ServiceReady(v), UNCHANGED <<loopVars, crashed, history>>
  PROVE TearTypes'
  BY <1>11 DEF ServiceReady, loopVars, history, ServiceReturns, FailService
<1>12. CASE UNCHANGED vars \/ (\E s \in Scopes : \E c \in Scopes : ((Open(s, c) \/ OpenItem(s, c))
  /\ ScopeOnly)) \/ (\E s \in Scopes : \E k \in {"command", "turn"} : (StartCall(s, k) /\
  ScopeOnly)) \/ (\E s \in Scopes : ((CallReturns(s) \/ Wait(s) \/ Finish(s) \/ FinishTask(s) \/
  PlanEnds(s)) /\ ScopeOnly) \/ ((Return(s) \/ Joined(s)) /\ UNCHANGED <<serviceVars, loopVars,
  crashed, aborted, killed, kills>>) \/ (FinishChild(s) /\ UNCHANGED <<serviceVars, loopVars,
  crashed, cut, killed, kills>>) \/ (PlanNext(s) /\ UNCHANGED <<serviceVars, crashed, history>>) \/
  (StoreTask(s) /\ UNCHANGED <<serviceVars, loopVars, history>>) \/ (EndLoop(s) /\ UNCHANGED
  <<serviceVars, crashed, aborted, killed, kills>>) \/ (TearPanics(s) /\ UNCHANGED <<scopeVars,
  serviceVars, loopVars, history>>) \/ (CancelScope(s) /\ UNCHANGED <<serviceVars, loopVars,
  crashed>>)) \/ (\E s \in Scopes : \E v \in Services : (StartService(s, v) /\ UNCHANGED <<loopVars,
  crashed, history>>)) \/ (\E s \in Scopes : \E m \in Messages : (SteerLoop(s, m) /\ UNCHANGED
  <<scopeVars, serviceVars, crashed, history>>)) \/ (\E v \in Services : ((AdoptService(v) \/
  Classify(v) \/ WaitDone(v) \/ ServiceExits(v)) /\ UNCHANGED scopeVars /\ UNCHANGED <<loopVars,
  crashed, history>>) \/ ((ServiceUnready(v) \/ ServiceRefused(v)) /\ UNCHANGED <<loopVars, crashed,
  history>>) \/ ((StopService(v) \/ StopEnds(v)) /\ UNCHANGED <<scopeVars, loopVars, crashed,
  history>>))
  BY <1>1, <1>12
<1> HIDE DEF IInv, TypeOK, TearTypes, Attached
<1> QED
  BY <1>2, <1>3, <1>4, <1>5, <1>6, <1>7, <1>8, <1>9, <1>10, <1>11, <1>12 DEF Next, Workflow, Body,
    Planner, Tear, Operator, ServiceStep, Stopping, Process

\* Services keep their types.
LEMMA StepServiceTypes == IInv /\ [Next]_vars => ServiceTypes'
<1> SUFFICES ASSUME IInv, [Next]_vars PROVE ServiceTypes'
  OBVIOUS
<1>0. tree' = tree
  BY DEF Next, vars
<1>1. ASSUME UNCHANGED vars \/ (\E s \in Scopes : \E c \in Scopes : ((Open(s, c) \/ OpenItem(s, c)
  \/ Go(s, c) \/ PlanTask(s, c)) /\ ScopeOnly)) \/ (\E s \in Scopes : \E k \in {"command", "turn"} :
  (StartCall(s, k) /\ ScopeOnly)) \/ (\E s \in Scopes : ((CallReturns(s) \/ Wait(s) \/ Begin(s) \/
  Finish(s) \/ FinishItem(s) \/ FinishTask(s) \/ PlanEnds(s) \/ TearWork(s) \/ TearDone(s)) /\
  ScopeOnly) \/ ((Return(s) \/ Joined(s)) /\ UNCHANGED <<serviceVars, loopVars, crashed, aborted,
  killed, kills>>) \/ (Attach(s) /\ UNCHANGED <<serviceVars, queue, record, crashed, history>>) \/
  (FinishChild(s) /\ UNCHANGED <<serviceVars, loopVars, crashed, cut, killed, kills>>) \/
  (PlanNext(s) /\ UNCHANGED <<serviceVars, crashed, history>>) \/ (StoreTask(s) /\ UNCHANGED
  <<serviceVars, loopVars, history>>) \/ (EndLoop(s) /\ UNCHANGED <<serviceVars, crashed, aborted,
  killed, kills>>) \/ (TearPanics(s) /\ UNCHANGED <<scopeVars, serviceVars, loopVars, history>>) \/
  (CancelScope(s) /\ UNCHANGED <<serviceVars, loopVars, crashed>>)) \/ (\E s \in Scopes : \E m \in
  Messages : (SteerLoop(s, m) /\ UNCHANGED <<scopeVars, serviceVars, crashed, history>>))
  PROVE UNCHANGED <<services, call, proc, stopping, wait, verdict, stop>>
  <2>1. ASSUME NEW s \in Scopes, NEW c \in Scopes, ((Open(s, c) \/ OpenItem(s, c) \/ Go(s, c) \/
    PlanTask(s, c)) /\ ScopeOnly)
    PROVE UNCHANGED <<services, call, proc, stopping, wait, verdict, stop>>
    BY <2>1 DEF Open, ScopeOnly, serviceVars, loopVars, history, Running, OpenItem, Go, Attached,
      PlanTask
  <2>2. ASSUME NEW s \in Scopes, NEW k \in {"command", "turn"}, (StartCall(s, k) /\ ScopeOnly)
    PROVE UNCHANGED <<services, call, proc, stopping, wait, verdict, stop>>
    BY <2>2 DEF StartCall, ScopeOnly, serviceVars, loopVars, history, Running
  <2>3. ASSUME NEW s \in Scopes, ((CallReturns(s) \/ Wait(s) \/ Begin(s) \/ Finish(s) \/
    FinishItem(s) \/ FinishTask(s) \/ PlanEnds(s) \/ TearWork(s) \/ TearDone(s)) /\ ScopeOnly)
    PROVE UNCHANGED <<services, call, proc, stopping, wait, verdict, stop>>
    BY <2>3 DEF CallReturns, ScopeOnly, serviceVars, loopVars, history, Wait, Begin, Finish,
      FinishItem, FailService, FinishTask, PlanEnds, TearWork, TearDone
  <2>4. ASSUME NEW s \in Scopes, (TearPanics(s) /\ UNCHANGED <<scopeVars, serviceVars, loopVars,
    history>>) \/ (EndLoop(s) /\ UNCHANGED <<serviceVars, crashed, aborted, killed, kills>>) \/
    (PlanNext(s) /\ UNCHANGED <<serviceVars, crashed, history>>) \/ ((Return(s) \/ Joined(s)) /\
    UNCHANGED <<serviceVars, loopVars, crashed, aborted, killed, kills>>) \/ (FinishChild(s) /\
    UNCHANGED <<serviceVars, loopVars, crashed, cut, killed, kills>>) \/ (CancelScope(s) /\
    UNCHANGED <<serviceVars, loopVars, crashed>>) \/ (StoreTask(s) /\ UNCHANGED <<serviceVars,
    loopVars, history>>) \/ (Attach(s) /\ UNCHANGED <<serviceVars, queue, record, crashed,
    history>>)
    PROVE UNCHANGED <<services, call, proc, stopping, wait, verdict, stop>>
    BY <2>4 DEF TearPanics, scopeVars, serviceVars, loopVars, history, EndLoop, Returned, PlanNext,
      Return, Running, Joined, FinishChild, CancelScope, StoreTask, Attach, Attached
  <2>5. ASSUME NEW s \in Scopes, NEW m \in Messages, (SteerLoop(s, m) /\ UNCHANGED <<scopeVars,
    serviceVars, crashed, history>>)
    PROVE UNCHANGED <<services, call, proc, stopping, wait, verdict, stop>>
    BY <2>5 DEF SteerLoop, scopeVars, serviceVars, history
  <2> QED
    BY <1>1, <2>1, <2>2, <2>3, <2>4, <2>5 DEF vars, scopeVars, serviceVars, loopVars, history
<1> USE <1>0, Opened DEF IInv, TypeOK, ServiceTypes
<1>2. ASSUME NEW s \in Scopes, NEW v \in Services, StartService(s, v), UNCHANGED <<loopVars,
  crashed, history>>
  PROVE ServiceTypes'
  <2>1. CASE MayStart(s)
    BY <1>2, <2>1 DEF StartService
  <2>2. CASE ~(MayStart(s))
    BY <1>2, <2>2 DEF StartService
  <2> QED
    BY <2>1, <2>2
<1>3. ASSUME NEW s \in Scopes, TearStart(s), UNCHANGED <<crashed, history>> PROVE ServiceTypes'
  BY <1>3 DEF TearStart, history
<1>4. ASSUME NEW v \in Services, AdoptService(v), UNCHANGED scopeVars, UNCHANGED <<loopVars,
  crashed, history>>
  PROVE ServiceTypes'
  <2>1. CASE Adopts(Owner(v))
    <3>1. Owner(v) \in Scopes
      BY <1>4 DEF AdoptService
    <3>2. Append(services[Owner(v)], v) \in Seq(Services)
      BY <3>1
    <3> QED
      BY <1>4, <2>1, <3>1, <3>2 DEF AdoptService
  <2>2. CASE ~(Adopts(Owner(v)))
    BY <1>4, <2>2 DEF AdoptService
  <2> QED
    BY <2>1, <2>2
<1>5. ASSUME NEW v \in Services, Classify(v), UNCHANGED scopeVars, UNCHANGED <<loopVars, crashed,
  history>>
  PROVE ServiceTypes'
  BY <1>5 DEF Classify, scopeVars, loopVars, history
<1>6. ASSUME NEW v \in Services, WaitDone(v), UNCHANGED scopeVars, UNCHANGED <<loopVars, crashed,
  history>>
  PROVE ServiceTypes'
  BY <1>6 DEF WaitDone, scopeVars, loopVars, history
<1>7. ASSUME NEW v \in Services, ServiceUnready(v), UNCHANGED <<loopVars, crashed, history>>
  PROVE ServiceTypes'
  BY <1>7 DEF ServiceUnready, loopVars, history, ServiceReturns
<1>8. ASSUME NEW v \in Services, ServiceRefused(v), UNCHANGED <<loopVars, crashed, history>>
  PROVE ServiceTypes'
  BY <1>8 DEF ServiceRefused, loopVars, history, ServiceReturns
<1>9. ASSUME NEW v \in Services, Report(v), UNCHANGED <<loopVars, crashed, history>>
  PROVE ServiceTypes'
  BY <1>9 DEF Report, loopVars, history, FailService
<1>10. ASSUME NEW v \in Services, StopService(v), UNCHANGED <<scopeVars, loopVars, crashed,
  history>>
  PROVE ServiceTypes'
  BY <1>10 DEF StopService, scopeVars, loopVars, history
<1>11. ASSUME NEW v \in Services, StopEnds(v), UNCHANGED <<scopeVars, loopVars, crashed, history>>
  PROVE ServiceTypes'
  BY <1>11 DEF StopEnds, scopeVars, loopVars, history
<1>12. ASSUME NEW v \in Services, ServiceReady(v), UNCHANGED <<loopVars, crashed, history>>
  PROVE ServiceTypes'
  BY <1>12 DEF ServiceReady, loopVars, history, ServiceReturns, FailService
<1>13. ASSUME NEW v \in Services, ServiceExits(v), UNCHANGED scopeVars, UNCHANGED <<loopVars,
  crashed, history>>
  PROVE ServiceTypes'
  BY <1>13 DEF ServiceExits, scopeVars, loopVars, history
<1>14. CASE UNCHANGED vars \/ (\E s \in Scopes : \E c \in Scopes : ((Open(s, c) \/ OpenItem(s, c) \/
  Go(s, c) \/ PlanTask(s, c)) /\ ScopeOnly)) \/ (\E s \in Scopes : \E k \in {"command", "turn"} :
  (StartCall(s, k) /\ ScopeOnly)) \/ (\E s \in Scopes : ((CallReturns(s) \/ Wait(s) \/ Begin(s) \/
  Finish(s) \/ FinishItem(s) \/ FinishTask(s) \/ PlanEnds(s) \/ TearWork(s) \/ TearDone(s)) /\
  ScopeOnly) \/ ((Return(s) \/ Joined(s)) /\ UNCHANGED <<serviceVars, loopVars, crashed, aborted,
  killed, kills>>) \/ (Attach(s) /\ UNCHANGED <<serviceVars, queue, record, crashed, history>>) \/
  (FinishChild(s) /\ UNCHANGED <<serviceVars, loopVars, crashed, cut, killed, kills>>) \/
  (PlanNext(s) /\ UNCHANGED <<serviceVars, crashed, history>>) \/ (StoreTask(s) /\ UNCHANGED
  <<serviceVars, loopVars, history>>) \/ (EndLoop(s) /\ UNCHANGED <<serviceVars, crashed, aborted,
  killed, kills>>) \/ (TearPanics(s) /\ UNCHANGED <<scopeVars, serviceVars, loopVars, history>>) \/
  (CancelScope(s) /\ UNCHANGED <<serviceVars, loopVars, crashed>>)) \/ (\E s \in Scopes : \E m \in
  Messages : (SteerLoop(s, m) /\ UNCHANGED <<scopeVars, serviceVars, crashed, history>>))
  BY <1>1, <1>14
<1> HIDE DEF IInv, TypeOK, ServiceTypes
<1> QED
  BY <1>2, <1>3, <1>4, <1>5, <1>6, <1>7, <1>8, <1>9, <1>10, <1>11, <1>12, <1>13, <1>14 DEF Next,
    Workflow, Body, Planner, Tear, Operator, ServiceStep, Stopping, Process

\* Loops keep their types.
LEMMA StepLoopTypes == IInv /\ [Next]_vars => LoopTypes'
<1> SUFFICES ASSUME IInv, [Next]_vars PROVE LoopTypes'
  OBVIOUS
<1>0. tree' = tree
  BY DEF Next, vars
<1>1. ASSUME UNCHANGED vars \/ (\E s \in Scopes : \E c \in Scopes : ((Open(s, c) \/ OpenItem(s, c)
  \/ Go(s, c) \/ PlanTask(s, c)) /\ ScopeOnly)) \/ (\E s \in Scopes : \E k \in {"command", "turn"} :
  (StartCall(s, k) /\ ScopeOnly)) \/ (\E s \in Scopes : ((CallReturns(s) \/ Wait(s) \/ Begin(s) \/
  Finish(s) \/ FinishItem(s) \/ FinishTask(s) \/ PlanEnds(s) \/ TearWork(s) \/ TearDone(s)) /\
  ScopeOnly) \/ ((Return(s) \/ Joined(s)) /\ UNCHANGED <<serviceVars, loopVars, crashed, aborted,
  killed, kills>>) \/ (FinishChild(s) /\ UNCHANGED <<serviceVars, loopVars, crashed, cut, killed,
  kills>>) \/ (StoreTask(s) /\ UNCHANGED <<serviceVars, loopVars, history>>) \/ (TearPanics(s) /\
  UNCHANGED <<scopeVars, serviceVars, loopVars, history>>) \/ (CancelScope(s) /\ UNCHANGED
  <<serviceVars, loopVars, crashed>>)) \/ (\E s \in Scopes : \E v \in Services : (StartService(s, v)
  /\ UNCHANGED <<loopVars, crashed, history>>)) \/ (\E v \in Services : ((AdoptService(v) \/
  Classify(v) \/ WaitDone(v) \/ ServiceExits(v)) /\ UNCHANGED scopeVars /\ UNCHANGED <<loopVars,
  crashed, history>>) \/ ((ServiceUnready(v) \/ ServiceRefused(v) \/ Report(v) \/ ServiceReady(v))
  /\ UNCHANGED <<loopVars, crashed, history>>) \/ ((StopService(v) \/ StopEnds(v)) /\ UNCHANGED
  <<scopeVars, loopVars, crashed, history>>))
  PROVE UNCHANGED <<dispatching, queue, record>>
  <2>1. ASSUME NEW s \in Scopes, NEW c \in Scopes, ((Open(s, c) \/ OpenItem(s, c) \/ Go(s, c) \/
    PlanTask(s, c)) /\ ScopeOnly)
    PROVE UNCHANGED <<dispatching, queue, record>>
    BY <2>1 DEF Open, ScopeOnly, serviceVars, loopVars, history, Running, OpenItem, Go, Attached,
      PlanTask
  <2>2. ASSUME NEW s \in Scopes, NEW k \in {"command", "turn"}, (StartCall(s, k) /\ ScopeOnly)
    PROVE UNCHANGED <<dispatching, queue, record>>
    BY <2>2 DEF StartCall, ScopeOnly, serviceVars, loopVars, history, Running
  <2>3. ASSUME NEW s \in Scopes, ((CallReturns(s) \/ Wait(s) \/ Begin(s) \/ Finish(s) \/
    FinishItem(s) \/ FinishTask(s) \/ PlanEnds(s) \/ TearWork(s) \/ TearDone(s)) /\ ScopeOnly)
    PROVE UNCHANGED <<dispatching, queue, record>>
    BY <2>3 DEF CallReturns, ScopeOnly, serviceVars, loopVars, history, Wait, Begin, Finish,
      FinishItem, FailService, FinishTask, PlanEnds, TearWork, TearDone
  <2>4. ASSUME NEW s \in Scopes, (TearPanics(s) /\ UNCHANGED <<scopeVars, serviceVars, loopVars,
    history>>) \/ ((Return(s) \/ Joined(s)) /\ UNCHANGED <<serviceVars, loopVars, crashed, aborted,
    killed, kills>>) \/ (FinishChild(s) /\ UNCHANGED <<serviceVars, loopVars, crashed, cut, killed,
    kills>>) \/ (CancelScope(s) /\ UNCHANGED <<serviceVars, loopVars, crashed>>) \/ (StoreTask(s) /\
    UNCHANGED <<serviceVars, loopVars, history>>)
    PROVE UNCHANGED <<dispatching, queue, record>>
    BY <2>4 DEF TearPanics, scopeVars, serviceVars, loopVars, history, Return, Running, Returned,
      Joined, FinishChild, CancelScope, StoreTask
  <2>5. ASSUME NEW s \in Scopes, NEW v \in Services, (StartService(s, v) /\ UNCHANGED <<loopVars,
    crashed, history>>)
    PROVE UNCHANGED <<dispatching, queue, record>>
    BY <2>5 DEF StartService, loopVars, history, Running
  <2>6. ASSUME NEW v \in Services, ((ServiceUnready(v) \/ ServiceRefused(v) \/ Report(v) \/
    ServiceReady(v)) /\ UNCHANGED <<loopVars, crashed, history>>) \/ ((StopService(v) \/
    StopEnds(v)) /\ UNCHANGED <<scopeVars, loopVars, crashed, history>>) \/ ((AdoptService(v) \/
    Classify(v) \/ WaitDone(v)) /\ UNCHANGED scopeVars /\ UNCHANGED <<loopVars, crashed, history>>)
    PROVE UNCHANGED <<dispatching, queue, record>>
    BY <2>6 DEF ServiceUnready, loopVars, history, ServiceReturns, ServiceRefused, Report,
      FailService, ServiceReady, StopService, scopeVars, StopEnds, AdoptService, Classify, WaitDone
  <2>7. ASSUME NEW v \in Services, (ServiceExits(v) /\ UNCHANGED scopeVars /\ UNCHANGED <<loopVars,
    crashed, history>>)
    PROVE UNCHANGED <<dispatching, queue, record>>
    BY <2>7 DEF ServiceExits, scopeVars, loopVars, history
  <2> QED
    BY <1>1, <2>1, <2>2, <2>3, <2>4, <2>5, <2>6, <2>7 DEF vars, scopeVars, serviceVars, loopVars,
      history
<1> USE <1>0 DEF IInv, TypeOK, LoopTypes, Recorded
<1>2. ASSUME NEW s \in Scopes, Attach(s), UNCHANGED <<serviceVars, queue, record, crashed, history>>
  PROVE LoopTypes'
  BY <1>2 DEF Attach, serviceVars, history, Attached
<1>3. ASSUME NEW s \in Scopes, PlanNext(s), UNCHANGED <<serviceVars, crashed, history>>
  PROVE LoopTypes'
  <2>1. CASE ended[s]
    BY <1>3, <2>1 DEF PlanNext
  <2>2. CASE ~(ended[s])
    BY <1>3, <2>2 DEF PlanNext
  <2> QED
    BY <2>1, <2>2
<1>4. ASSUME NEW s \in Scopes, EndLoop(s), UNCHANGED <<serviceVars, crashed, aborted, killed,
  kills>>
  PROVE LoopTypes'
  <2>1. CASE ended[s]
    BY <1>4, <2>1 DEF EndLoop, loopVars
  <2>2. CASE ~(ended[s])
    <3>1. record' = [record EXCEPT ![s] = Recorded(s, "dropped")] /\ queue' = [queue EXCEPT ![s] = {}]
          /\ dispatching' = [dispatching EXCEPT ![s] = FALSE]
      BY <1>4, <2>2 DEF EndLoop
    <3>2. Recorded(s, "dropped") \in [Messages -> {None, "waiting", "landed", "dropped"}]
      OBVIOUS
    <3> QED
      BY <3>1, <3>2
  <2> QED
    BY <2>1, <2>2
<1>5. ASSUME NEW s \in Scopes, TearStart(s), UNCHANGED <<crashed, history>> PROVE LoopTypes'
  BY <1>5 DEF TearStart, history
<1>6. ASSUME NEW s \in Scopes, NEW m \in Messages, SteerLoop(s, m), UNCHANGED <<scopeVars,
  serviceVars, crashed, history>>
  PROVE LoopTypes'
  BY <1>6 DEF SteerLoop, scopeVars, serviceVars, history
<1>7. CASE UNCHANGED vars \/ (\E s \in Scopes : \E c \in Scopes : ((Open(s, c) \/ OpenItem(s, c) \/
  Go(s, c) \/ PlanTask(s, c)) /\ ScopeOnly)) \/ (\E s \in Scopes : \E k \in {"command", "turn"} :
  (StartCall(s, k) /\ ScopeOnly)) \/ (\E s \in Scopes : ((CallReturns(s) \/ Wait(s) \/ Begin(s) \/
  Finish(s) \/ FinishItem(s) \/ FinishTask(s) \/ PlanEnds(s) \/ TearWork(s) \/ TearDone(s)) /\
  ScopeOnly) \/ ((Return(s) \/ Joined(s)) /\ UNCHANGED <<serviceVars, loopVars, crashed, aborted,
  killed, kills>>) \/ (FinishChild(s) /\ UNCHANGED <<serviceVars, loopVars, crashed, cut, killed,
  kills>>) \/ (StoreTask(s) /\ UNCHANGED <<serviceVars, loopVars, history>>) \/ (TearPanics(s) /\
  UNCHANGED <<scopeVars, serviceVars, loopVars, history>>) \/ (CancelScope(s) /\ UNCHANGED
  <<serviceVars, loopVars, crashed>>)) \/ (\E s \in Scopes : \E v \in Services : (StartService(s, v)
  /\ UNCHANGED <<loopVars, crashed, history>>)) \/ (\E v \in Services : ((AdoptService(v) \/
  Classify(v) \/ WaitDone(v) \/ ServiceExits(v)) /\ UNCHANGED scopeVars /\ UNCHANGED <<loopVars,
  crashed, history>>) \/ ((ServiceUnready(v) \/ ServiceRefused(v) \/ Report(v) \/ ServiceReady(v))
  /\ UNCHANGED <<loopVars, crashed, history>>) \/ ((StopService(v) \/ StopEnds(v)) /\ UNCHANGED
  <<scopeVars, loopVars, crashed, history>>))
  BY <1>1, <1>7
<1> HIDE DEF IInv, TypeOK, LoopTypes, Recorded
<1> QED
  BY <1>2, <1>3, <1>4, <1>5, <1>6, <1>7 DEF Next, Workflow, Body, Planner, Tear, Operator,
    ServiceStep, Stopping, Process

\* So does the history.
LEMMA StepHistoryTypes == IInv /\ [Next]_vars => HistoryTypes'
<1> SUFFICES ASSUME IInv, [Next]_vars PROVE HistoryTypes'
  OBVIOUS
<1>0. tree' = tree
  BY DEF Next, vars
<1>1. ASSUME UNCHANGED vars \/ (\E s \in Scopes : \E c \in Scopes : ((Open(s, c) \/ OpenItem(s, c)
  \/ Go(s, c) \/ PlanTask(s, c)) /\ ScopeOnly)) \/ (\E s \in Scopes : \E k \in {"command", "turn"} :
  (StartCall(s, k) /\ ScopeOnly)) \/ (\E s \in Scopes : ((CallReturns(s) \/ Wait(s) \/ Begin(s) \/
  Finish(s) \/ FinishItem(s) \/ FinishTask(s) \/ PlanEnds(s) \/ TearWork(s) \/ TearDone(s)) /\
  ScopeOnly) \/ (Attach(s) /\ UNCHANGED <<serviceVars, queue, record, crashed, history>>) \/
  (PlanNext(s) /\ UNCHANGED <<serviceVars, crashed, history>>) \/ (TearStart(s) /\ UNCHANGED
  <<crashed, history>>)) \/ (\E s \in Scopes : \E v \in Services : (StartService(s, v) /\ UNCHANGED
  <<loopVars, crashed, history>>)) \/ (\E s \in Scopes : \E m \in Messages : (SteerLoop(s, m) /\
  UNCHANGED <<scopeVars, serviceVars, crashed, history>>)) \/ (\E v \in Services : ((AdoptService(v)
  \/ Classify(v) \/ WaitDone(v) \/ ServiceExits(v)) /\ UNCHANGED scopeVars /\ UNCHANGED <<loopVars,
  crashed, history>>) \/ ((ServiceUnready(v) \/ ServiceRefused(v) \/ Report(v) \/ ServiceReady(v))
  /\ UNCHANGED <<loopVars, crashed, history>>) \/ ((StopService(v) \/ StopEnds(v)) /\ UNCHANGED
  <<scopeVars, loopVars, crashed, history>>))
  PROVE UNCHANGED <<crashed, cut, aborted, killed, kills>>
  <2>1. ASSUME NEW s \in Scopes, NEW c \in Scopes, ((Open(s, c) \/ OpenItem(s, c) \/ Go(s, c) \/
    PlanTask(s, c)) /\ ScopeOnly)
    PROVE UNCHANGED <<crashed, cut, aborted, killed, kills>>
    BY <2>1 DEF Open, ScopeOnly, serviceVars, loopVars, history, Running, OpenItem, Go, Attached,
      PlanTask
  <2>2. ASSUME NEW s \in Scopes, NEW k \in {"command", "turn"}, (StartCall(s, k) /\ ScopeOnly)
    PROVE UNCHANGED <<crashed, cut, aborted, killed, kills>>
    BY <2>2 DEF StartCall, ScopeOnly, serviceVars, loopVars, history, Running
  <2>3. ASSUME NEW s \in Scopes, ((CallReturns(s) \/ Wait(s) \/ Begin(s) \/ Finish(s) \/
    FinishItem(s) \/ FinishTask(s) \/ PlanEnds(s) \/ TearWork(s) \/ TearDone(s)) /\ ScopeOnly)
    PROVE UNCHANGED <<crashed, cut, aborted, killed, kills>>
    BY <2>3 DEF CallReturns, ScopeOnly, serviceVars, loopVars, history, Wait, Begin, Finish,
      FinishItem, FailService, FinishTask, PlanEnds, TearWork, TearDone
  <2>4. ASSUME NEW s \in Scopes, (TearStart(s) /\ UNCHANGED <<crashed, history>>) \/ (PlanNext(s) /\
    UNCHANGED <<serviceVars, crashed, history>>) \/ (Attach(s) /\ UNCHANGED <<serviceVars, queue,
    record, crashed, history>>)
    PROVE UNCHANGED <<crashed, cut, aborted, killed, kills>>
    BY <2>4 DEF TearStart, history, PlanNext, serviceVars, Attach, Attached
  <2>5. ASSUME NEW s \in Scopes, NEW v \in Services, (StartService(s, v) /\ UNCHANGED <<loopVars,
    crashed, history>>)
    PROVE UNCHANGED <<crashed, cut, aborted, killed, kills>>
    BY <2>5 DEF StartService, loopVars, history, Running
  <2>6. ASSUME NEW s \in Scopes, NEW m \in Messages, (SteerLoop(s, m) /\ UNCHANGED <<scopeVars,
    serviceVars, crashed, history>>)
    PROVE UNCHANGED <<crashed, cut, aborted, killed, kills>>
    BY <2>6 DEF SteerLoop, scopeVars, serviceVars, history
  <2>7. ASSUME NEW v \in Services, ((ServiceUnready(v) \/ ServiceRefused(v) \/ Report(v) \/
    ServiceReady(v)) /\ UNCHANGED <<loopVars, crashed, history>>) \/ ((StopService(v) \/
    StopEnds(v)) /\ UNCHANGED <<scopeVars, loopVars, crashed, history>>) \/ ((AdoptService(v) \/
    Classify(v) \/ WaitDone(v)) /\ UNCHANGED scopeVars /\ UNCHANGED <<loopVars, crashed, history>>)
    PROVE UNCHANGED <<crashed, cut, aborted, killed, kills>>
    BY <2>7 DEF ServiceUnready, loopVars, history, ServiceReturns, ServiceRefused, Report,
      FailService, ServiceReady, StopService, scopeVars, StopEnds, AdoptService, Classify, WaitDone
  <2>8. ASSUME NEW v \in Services, (ServiceExits(v) /\ UNCHANGED scopeVars /\ UNCHANGED <<loopVars,
    crashed, history>>)
    PROVE UNCHANGED <<crashed, cut, aborted, killed, kills>>
    BY <2>8 DEF ServiceExits, scopeVars, loopVars, history
  <2> QED
    BY <1>1, <2>1, <2>2, <2>3, <2>4, <2>5, <2>6, <2>7, <2>8 DEF vars, scopeVars, serviceVars,
      loopVars, history
<1> USE <1>0, BoundsAreNumbers, Shape DEF IInv, TypeOK, HistoryTypes
<1>2. ASSUME NEW s \in Scopes, Return(s), UNCHANGED <<serviceVars, loopVars, crashed, aborted,
  killed, kills>>
  PROVE HistoryTypes'
  BY <1>2 DEF Return, serviceVars, loopVars, Running, Returned
<1>3. ASSUME NEW s \in Scopes, FinishChild(s), UNCHANGED <<serviceVars, loopVars, crashed, cut,
  killed, kills>>
  PROVE HistoryTypes'
  BY <1>3 DEF FinishChild, serviceVars, loopVars, AbortsGroup, Parent
<1>4. ASSUME NEW s \in Scopes, Joined(s), UNCHANGED <<serviceVars, loopVars, crashed, aborted,
  killed, kills>>
  PROVE HistoryTypes'
  BY <1>4 DEF Joined, serviceVars, loopVars, Returned
<1>5. ASSUME NEW s \in Scopes, StoreTask(s), UNCHANGED <<serviceVars, loopVars, history>>
  PROVE HistoryTypes'
  BY <1>5 DEF StoreTask, serviceVars, loopVars, history
<1>6. ASSUME NEW s \in Scopes, EndLoop(s), UNCHANGED <<serviceVars, crashed, aborted, killed,
  kills>>
  PROVE HistoryTypes'
  BY <1>6 DEF EndLoop, serviceVars, loopVars, Returned
<1>7. ASSUME NEW s \in Scopes, TearPanics(s), UNCHANGED <<scopeVars, serviceVars, loopVars,
  history>>
  PROVE HistoryTypes'
  BY <1>7 DEF TearPanics, scopeVars, serviceVars, loopVars, history
<1>8. ASSUME NEW s \in Scopes, CancelScope(s), UNCHANGED <<serviceVars, loopVars, crashed>>
  PROVE HistoryTypes'
  BY <1>8 DEF CancelScope, serviceVars, loopVars
<1>9. CASE UNCHANGED vars \/ (\E s \in Scopes : \E c \in Scopes : ((Open(s, c) \/ OpenItem(s, c) \/
  Go(s, c) \/ PlanTask(s, c)) /\ ScopeOnly)) \/ (\E s \in Scopes : \E k \in {"command", "turn"} :
  (StartCall(s, k) /\ ScopeOnly)) \/ (\E s \in Scopes : ((CallReturns(s) \/ Wait(s) \/ Begin(s) \/
  Finish(s) \/ FinishItem(s) \/ FinishTask(s) \/ PlanEnds(s) \/ TearWork(s) \/ TearDone(s)) /\
  ScopeOnly) \/ (Attach(s) /\ UNCHANGED <<serviceVars, queue, record, crashed, history>>) \/
  (PlanNext(s) /\ UNCHANGED <<serviceVars, crashed, history>>) \/ (TearStart(s) /\ UNCHANGED
  <<crashed, history>>)) \/ (\E s \in Scopes : \E v \in Services : (StartService(s, v) /\ UNCHANGED
  <<loopVars, crashed, history>>)) \/ (\E s \in Scopes : \E m \in Messages : (SteerLoop(s, m) /\
  UNCHANGED <<scopeVars, serviceVars, crashed, history>>)) \/ (\E v \in Services : ((AdoptService(v)
  \/ Classify(v) \/ WaitDone(v) \/ ServiceExits(v)) /\ UNCHANGED scopeVars /\ UNCHANGED <<loopVars,
  crashed, history>>) \/ ((ServiceUnready(v) \/ ServiceRefused(v) \/ Report(v) \/ ServiceReady(v))
  /\ UNCHANGED <<loopVars, crashed, history>>) \/ ((StopService(v) \/ StopEnds(v)) /\ UNCHANGED
  <<scopeVars, loopVars, crashed, history>>))
  BY <1>1, <1>9
<1> HIDE DEF IInv, TypeOK, HistoryTypes
<1> QED
  BY <1>2, <1>3, <1>4, <1>5, <1>6, <1>7, <1>8, <1>9 DEF Next, Workflow, Body, Planner, Tear,
    Operator, ServiceStep, Stopping, Process

\* Bodies nest.
LEMMA StepBody == IInv /\ [Next]_vars => BodyInv'
<1> SUFFICES ASSUME IInv, [Next]_vars PROVE BodyInv'
  OBVIOUS
<1>0. tree' = tree
  BY DEF Next, vars
<1>1. ASSUME UNCHANGED vars \/ (\E s \in Scopes : (TearStart(s) /\ UNCHANGED <<crashed, history>>)
  \/ ((TearWork(s) \/ TearDone(s)) /\ ScopeOnly) \/ (TearPanics(s) /\ UNCHANGED <<scopeVars,
  serviceVars, loopVars, history>>) \/ (CancelScope(s) /\ UNCHANGED <<serviceVars, loopVars,
  crashed>>)) \/ (\E s \in Scopes : \E m \in Messages : (SteerLoop(s, m) /\ UNCHANGED <<scopeVars,
  serviceVars, crashed, history>>)) \/ (\E v \in Services : ((AdoptService(v) \/ Classify(v) \/
  WaitDone(v) \/ ServiceExits(v)) /\ UNCHANGED scopeVars /\ UNCHANGED <<loopVars, crashed,
  history>>) \/ (Report(v) /\ UNCHANGED <<loopVars, crashed, history>>) \/ ((StopService(v) \/
  StopEnds(v)) /\ UNCHANGED <<scopeVars, loopVars, crashed, history>>))
  PROVE UNCHANGED <<at>>
  <2>1. ASSUME NEW s \in Scopes, ((TearWork(s) \/ TearDone(s)) /\ ScopeOnly) \/ (TearStart(s) /\
    UNCHANGED <<crashed, history>>) \/ (TearPanics(s) /\ UNCHANGED <<scopeVars, serviceVars,
    loopVars, history>>) \/ (CancelScope(s) /\ UNCHANGED <<serviceVars, loopVars, crashed>>)
    PROVE UNCHANGED <<at>>
    BY <2>1 DEF TearWork, ScopeOnly, serviceVars, loopVars, history, TearDone, TearStart,
      TearPanics, scopeVars, CancelScope
  <2>2. ASSUME NEW s \in Scopes, NEW m \in Messages, (SteerLoop(s, m) /\ UNCHANGED <<scopeVars,
    serviceVars, crashed, history>>)
    PROVE UNCHANGED <<at>>
    BY <2>2 DEF SteerLoop, scopeVars, serviceVars, history
  <2>3. ASSUME NEW v \in Services, (Report(v) /\ UNCHANGED <<loopVars, crashed, history>>) \/
    ((StopService(v) \/ StopEnds(v)) /\ UNCHANGED <<scopeVars, loopVars, crashed, history>>) \/
    ((AdoptService(v) \/ Classify(v) \/ WaitDone(v) \/ ServiceExits(v)) /\ UNCHANGED scopeVars /\
    UNCHANGED <<loopVars, crashed, history>>)
    PROVE UNCHANGED <<at>>
    BY <2>3 DEF Report, loopVars, history, FailService, StopService, scopeVars, StopEnds,
      AdoptService, Classify, WaitDone, ServiceExits
  <2> QED
    BY <1>1, <2>1, <2>2, <2>3 DEF vars, scopeVars, serviceVars, loopVars, history
<1> USE <1>0, Shape DEF IInv, TypeOK, BodyTypes, BodyInv, Active, Begun, Parent, Kind
<1>2. ASSUME NEW s \in Scopes, NEW c \in Scopes, Open(s, c), ScopeOnly PROVE BodyInv'
  BY <1>2 DEF Open, ScopeOnly, serviceVars, loopVars, history, Running
<1>3. ASSUME NEW s \in Scopes, NEW c \in Scopes, OpenItem(s, c), ScopeOnly PROVE BodyInv'
  BY <1>3 DEF OpenItem, ScopeOnly, serviceVars, loopVars, history, Running
<1>4. ASSUME NEW s \in Scopes, NEW c \in Scopes, Go(s, c), ScopeOnly PROVE BodyInv'
  BY <1>4 DEF Go, ScopeOnly, serviceVars, loopVars, history, Attached
<1>5. ASSUME NEW s \in Scopes, NEW k \in {"command", "turn"}, StartCall(s, k), ScopeOnly
  PROVE BodyInv'
  BY <1>5 DEF StartCall, ScopeOnly, serviceVars, loopVars, history, Running
<1>6. ASSUME NEW s \in Scopes, CallReturns(s), ScopeOnly PROVE BodyInv'
  BY <1>6 DEF CallReturns, ScopeOnly, serviceVars, loopVars, history
<1>7. ASSUME NEW s \in Scopes, Wait(s), ScopeOnly PROVE BodyInv'
  BY <1>7 DEF Wait, ScopeOnly, serviceVars, loopVars, history
<1>8. ASSUME NEW s \in Scopes, Return(s), UNCHANGED <<serviceVars, loopVars, crashed, aborted,
  killed, kills>>
  PROVE BodyInv'
  BY <1>8 DEF Return, serviceVars, loopVars, Running, Returned
<1>9. ASSUME NEW s \in Scopes, NEW v \in Services, StartService(s, v), UNCHANGED <<loopVars,
  crashed, history>>
  PROVE BodyInv'
  BY <1>9 DEF StartService, loopVars, history, Running
<1>10. ASSUME NEW s \in Scopes, Attach(s), UNCHANGED <<serviceVars, queue, record, crashed,
  history>>
  PROVE BodyInv'
  BY <1>10 DEF Attach, serviceVars, history, Attached
<1>11. ASSUME NEW s \in Scopes, Begin(s), ScopeOnly PROVE BodyInv'
  BY <1>11 DEF Begin, ScopeOnly, serviceVars, loopVars, history
<1>12. ASSUME NEW s \in Scopes, Finish(s), ScopeOnly PROVE BodyInv'
  BY <1>12 DEF Finish, ScopeOnly, serviceVars, loopVars, history
<1>13. ASSUME NEW s \in Scopes, FinishItem(s), ScopeOnly PROVE BodyInv'
  BY <1>13 DEF FinishItem, ScopeOnly, serviceVars, loopVars, history, FailService
<1>14. ASSUME NEW s \in Scopes, FinishTask(s), ScopeOnly PROVE BodyInv'
  BY <1>14 DEF FinishTask, ScopeOnly, serviceVars, loopVars, history
<1>15. ASSUME NEW s \in Scopes, FinishChild(s), UNCHANGED <<serviceVars, loopVars, crashed, cut,
  killed, kills>>
  PROVE BodyInv'
  BY <1>15 DEF FinishChild, serviceVars, loopVars
<1>16. ASSUME NEW s \in Scopes, Joined(s), UNCHANGED <<serviceVars, loopVars, crashed, aborted,
  killed, kills>>
  PROVE BodyInv'
  BY <1>16 DEF Joined, serviceVars, loopVars, Returned
<1>17. ASSUME NEW s \in Scopes, PlanNext(s), UNCHANGED <<serviceVars, crashed, history>>
  PROVE BodyInv'
  BY <1>17 DEF PlanNext, serviceVars, history
<1>18. ASSUME NEW s \in Scopes, StoreTask(s), UNCHANGED <<serviceVars, loopVars, history>>
  PROVE BodyInv'
  BY <1>18 DEF StoreTask, serviceVars, loopVars, history
<1>19. ASSUME NEW s \in Scopes, EndLoop(s), UNCHANGED <<serviceVars, crashed, aborted, killed,
  kills>>
  PROVE BodyInv'
  BY <1>19 DEF EndLoop, serviceVars, loopVars, Returned
<1>20. ASSUME NEW s \in Scopes, PlanEnds(s), ScopeOnly PROVE BodyInv'
  BY <1>20 DEF PlanEnds, ScopeOnly, serviceVars, loopVars, history
<1>21. ASSUME NEW s \in Scopes, NEW c \in Scopes, PlanTask(s, c), ScopeOnly PROVE BodyInv'
  BY <1>21 DEF PlanTask, ScopeOnly, serviceVars, loopVars, history, Attached
<1>22. ASSUME NEW v \in Services, ServiceUnready(v), UNCHANGED <<loopVars, crashed, history>>
  PROVE BodyInv'
  BY <1>22, InService DEF ServiceUnready, loopVars, history, ServiceReturns, InCall
<1>23. ASSUME NEW v \in Services, ServiceRefused(v), UNCHANGED <<loopVars, crashed, history>>
  PROVE BodyInv'
  BY <1>23, InService DEF ServiceRefused, loopVars, history, ServiceReturns, InCall
<1>24. ASSUME NEW v \in Services, ServiceReady(v), UNCHANGED <<loopVars, crashed, history>>
  PROVE BodyInv'
  BY <1>24, InService DEF ServiceReady, loopVars, history, ServiceReturns, FailService, InCall
<1>25. CASE UNCHANGED vars \/ (\E s \in Scopes : (TearStart(s) /\ UNCHANGED <<crashed, history>>) \/
  ((TearWork(s) \/ TearDone(s)) /\ ScopeOnly) \/ (TearPanics(s) /\ UNCHANGED <<scopeVars,
  serviceVars, loopVars, history>>) \/ (CancelScope(s) /\ UNCHANGED <<serviceVars, loopVars,
  crashed>>)) \/ (\E s \in Scopes : \E m \in Messages : (SteerLoop(s, m) /\ UNCHANGED <<scopeVars,
  serviceVars, crashed, history>>)) \/ (\E v \in Services : ((AdoptService(v) \/ Classify(v) \/
  WaitDone(v) \/ ServiceExits(v)) /\ UNCHANGED scopeVars /\ UNCHANGED <<loopVars, crashed,
  history>>) \/ (Report(v) /\ UNCHANGED <<loopVars, crashed, history>>) \/ ((StopService(v) \/
  StopEnds(v)) /\ UNCHANGED <<scopeVars, loopVars, crashed, history>>))
  BY <1>1, <1>25
<1> HIDE DEF IInv, TypeOK, BodyTypes, BodyInv, Active, Begun, Parent, Kind
<1> QED
  BY <1>2, <1>3, <1>4, <1>5, <1>6, <1>7, <1>8, <1>9, <1>10, <1>11, <1>12, <1>13, <1>14, <1>15,
    <1>16, <1>17, <1>18, <1>19, <1>20, <1>21, <1>22, <1>23, <1>24, <1>25 DEF Next, Workflow, Body,
    Planner, Tear, Operator, ServiceStep, Stopping, Process

\* No body goes back.
LEMMA StepAtMoves == IInv /\ [Next]_vars => AtMoves
<1> SUFFICES ASSUME IInv, [Next]_vars PROVE AtMoves
  OBVIOUS
<1>0. tree' = tree
  BY DEF Next, vars
<1>1. ASSUME UNCHANGED vars \/ (\E s \in Scopes : (TearStart(s) /\ UNCHANGED <<crashed, history>>)
  \/ ((TearWork(s) \/ TearDone(s)) /\ ScopeOnly) \/ (TearPanics(s) /\ UNCHANGED <<scopeVars,
  serviceVars, loopVars, history>>) \/ (CancelScope(s) /\ UNCHANGED <<serviceVars, loopVars,
  crashed>>)) \/ (\E s \in Scopes : \E m \in Messages : (SteerLoop(s, m) /\ UNCHANGED <<scopeVars,
  serviceVars, crashed, history>>)) \/ (\E v \in Services : ((AdoptService(v) \/ Classify(v) \/
  WaitDone(v) \/ ServiceExits(v)) /\ UNCHANGED scopeVars /\ UNCHANGED <<loopVars, crashed,
  history>>) \/ (Report(v) /\ UNCHANGED <<loopVars, crashed, history>>) \/ ((StopService(v) \/
  StopEnds(v)) /\ UNCHANGED <<scopeVars, loopVars, crashed, history>>))
  PROVE UNCHANGED <<at>>
  <2>1. ASSUME NEW s \in Scopes, ((TearWork(s) \/ TearDone(s)) /\ ScopeOnly) \/ (TearStart(s) /\
    UNCHANGED <<crashed, history>>) \/ (TearPanics(s) /\ UNCHANGED <<scopeVars, serviceVars,
    loopVars, history>>) \/ (CancelScope(s) /\ UNCHANGED <<serviceVars, loopVars, crashed>>)
    PROVE UNCHANGED <<at>>
    BY <2>1 DEF TearWork, ScopeOnly, serviceVars, loopVars, history, TearDone, TearStart,
      TearPanics, scopeVars, CancelScope
  <2>2. ASSUME NEW s \in Scopes, NEW m \in Messages, (SteerLoop(s, m) /\ UNCHANGED <<scopeVars,
    serviceVars, crashed, history>>)
    PROVE UNCHANGED <<at>>
    BY <2>2 DEF SteerLoop, scopeVars, serviceVars, history
  <2>3. ASSUME NEW v \in Services, (Report(v) /\ UNCHANGED <<loopVars, crashed, history>>) \/
    ((StopService(v) \/ StopEnds(v)) /\ UNCHANGED <<scopeVars, loopVars, crashed, history>>) \/
    ((AdoptService(v) \/ Classify(v) \/ WaitDone(v) \/ ServiceExits(v)) /\ UNCHANGED scopeVars /\
    UNCHANGED <<loopVars, crashed, history>>)
    PROVE UNCHANGED <<at>>
    BY <2>3 DEF Report, loopVars, history, FailService, StopService, scopeVars, StopEnds,
      AdoptService, Classify, WaitDone, ServiceExits
  <2> QED
    BY <1>1, <2>1, <2>2, <2>3 DEF vars, scopeVars, serviceVars, loopVars, history
<1> USE <1>0, Shape DEF IInv, TypeOK, BodyTypes, BodyInv, AtMoves, Begun, Active, Parent, Kind
<1>2. ASSUME NEW s \in Scopes, NEW c \in Scopes, Open(s, c), ScopeOnly PROVE AtMoves
  BY <1>2 DEF Open, ScopeOnly, serviceVars, loopVars, history, Running
<1>3. ASSUME NEW s \in Scopes, NEW c \in Scopes, OpenItem(s, c), ScopeOnly PROVE AtMoves
  BY <1>3 DEF OpenItem, ScopeOnly, serviceVars, loopVars, history, Running
<1>4. ASSUME NEW s \in Scopes, NEW c \in Scopes, Go(s, c), ScopeOnly PROVE AtMoves
  BY <1>4 DEF Go, ScopeOnly, serviceVars, loopVars, history, Attached
<1>5. ASSUME NEW s \in Scopes, NEW k \in {"command", "turn"}, StartCall(s, k), ScopeOnly
  PROVE AtMoves
  BY <1>5 DEF StartCall, ScopeOnly, serviceVars, loopVars, history, Running
<1>6. ASSUME NEW s \in Scopes, CallReturns(s), ScopeOnly PROVE AtMoves
  BY <1>6 DEF CallReturns, ScopeOnly, serviceVars, loopVars, history
<1>7. ASSUME NEW s \in Scopes, Wait(s), ScopeOnly PROVE AtMoves
  BY <1>7 DEF Wait, ScopeOnly, serviceVars, loopVars, history
<1>8. ASSUME NEW s \in Scopes, Return(s), UNCHANGED <<serviceVars, loopVars, crashed, aborted,
  killed, kills>>
  PROVE AtMoves
  BY <1>8 DEF Return, serviceVars, loopVars, Running, Returned
<1>9. ASSUME NEW s \in Scopes, NEW v \in Services, StartService(s, v), UNCHANGED <<loopVars,
  crashed, history>>
  PROVE AtMoves
  BY <1>9 DEF StartService, loopVars, history, Running
<1>10. ASSUME NEW s \in Scopes, Attach(s), UNCHANGED <<serviceVars, queue, record, crashed,
  history>>
  PROVE AtMoves
  BY <1>10 DEF Attach, serviceVars, history, Attached
<1>11. ASSUME NEW s \in Scopes, Begin(s), ScopeOnly PROVE AtMoves
  BY <1>11 DEF Begin, ScopeOnly, serviceVars, loopVars, history
<1>12. ASSUME NEW s \in Scopes, Finish(s), ScopeOnly PROVE AtMoves
  BY <1>12 DEF Finish, ScopeOnly, serviceVars, loopVars, history
<1>13. ASSUME NEW s \in Scopes, FinishItem(s), ScopeOnly PROVE AtMoves
  BY <1>13 DEF FinishItem, ScopeOnly, serviceVars, loopVars, history, FailService
<1>14. ASSUME NEW s \in Scopes, FinishTask(s), ScopeOnly PROVE AtMoves
  BY <1>14 DEF FinishTask, ScopeOnly, serviceVars, loopVars, history
<1>15. ASSUME NEW s \in Scopes, FinishChild(s), UNCHANGED <<serviceVars, loopVars, crashed, cut,
  killed, kills>>
  PROVE AtMoves
  BY <1>15 DEF FinishChild, serviceVars, loopVars
<1>16. ASSUME NEW s \in Scopes, Joined(s), UNCHANGED <<serviceVars, loopVars, crashed, aborted,
  killed, kills>>
  PROVE AtMoves
  BY <1>16 DEF Joined, serviceVars, loopVars, Returned
<1>17. ASSUME NEW s \in Scopes, PlanNext(s), UNCHANGED <<serviceVars, crashed, history>>
  PROVE AtMoves
  BY <1>17 DEF PlanNext, serviceVars, history
<1>18. ASSUME NEW s \in Scopes, StoreTask(s), UNCHANGED <<serviceVars, loopVars, history>>
  PROVE AtMoves
  BY <1>18 DEF StoreTask, serviceVars, loopVars, history
<1>19. ASSUME NEW s \in Scopes, EndLoop(s), UNCHANGED <<serviceVars, crashed, aborted, killed,
  kills>>
  PROVE AtMoves
  BY <1>19 DEF EndLoop, serviceVars, loopVars, Returned
<1>20. ASSUME NEW s \in Scopes, PlanEnds(s), ScopeOnly PROVE AtMoves
  BY <1>20 DEF PlanEnds, ScopeOnly, serviceVars, loopVars, history
<1>21. ASSUME NEW s \in Scopes, NEW c \in Scopes, PlanTask(s, c), ScopeOnly PROVE AtMoves
  BY <1>21 DEF PlanTask, ScopeOnly, serviceVars, loopVars, history, Attached
<1>22. ASSUME NEW v \in Services, ServiceUnready(v), UNCHANGED <<loopVars, crashed, history>>
  PROVE AtMoves
  <2>1. /\ InCall(v) /\ call' = [call EXCEPT ![v] = "returned"] /\ at' = [at EXCEPT ![Owner(v)] = "open"]
    BY <1>22 DEF ServiceUnready, ServiceReturns, InCall
  <2>2. call' # call
    <3>1. call'[v] = "returned" /\ call[v] # "returned"
      BY <2>1 DEF InCall, ServiceTypes
    <3> QED
      BY <3>1
  <2>3. Owner(v) \in Scopes /\ at[Owner(v)] = "service"
    BY <2>1, InService
  <2> QED
    BY <2>1, <2>2, <2>3
<1>23. ASSUME NEW v \in Services, ServiceRefused(v), UNCHANGED <<loopVars, crashed, history>>
  PROVE AtMoves
  <2>1. /\ InCall(v) /\ call' = [call EXCEPT ![v] = "returned"] /\ at' = [at EXCEPT ![Owner(v)] = "open"]
    BY <1>23 DEF ServiceRefused, ServiceReturns, InCall
  <2>2. call' # call
    <3>1. call'[v] = "returned" /\ call[v] # "returned"
      BY <2>1 DEF InCall, ServiceTypes
    <3> QED
      BY <3>1
  <2>3. Owner(v) \in Scopes /\ at[Owner(v)] = "service"
    BY <2>1, InService
  <2> QED
    BY <2>1, <2>2, <2>3
<1>24. ASSUME NEW v \in Services, ServiceReady(v), UNCHANGED <<loopVars, crashed, history>>
  PROVE AtMoves
  <2>1. /\ InCall(v) /\ call' = [call EXCEPT ![v] = "returned"] /\ at' = [at EXCEPT ![Owner(v)] = "open"]
    BY <1>24 DEF ServiceReady, ServiceReturns, InCall
  <2>2. call' # call
    <3>1. call'[v] = "returned" /\ call[v] # "returned"
      BY <2>1 DEF InCall, ServiceTypes
    <3> QED
      BY <3>1
  <2>3. Owner(v) \in Scopes /\ at[Owner(v)] = "service"
    BY <2>1, InService
  <2> QED
    BY <2>1, <2>2, <2>3
<1>25. CASE UNCHANGED vars \/ (\E s \in Scopes : (TearStart(s) /\ UNCHANGED <<crashed, history>>) \/
  ((TearWork(s) \/ TearDone(s)) /\ ScopeOnly) \/ (TearPanics(s) /\ UNCHANGED <<scopeVars,
  serviceVars, loopVars, history>>) \/ (CancelScope(s) /\ UNCHANGED <<serviceVars, loopVars,
  crashed>>)) \/ (\E s \in Scopes : \E m \in Messages : (SteerLoop(s, m) /\ UNCHANGED <<scopeVars,
  serviceVars, crashed, history>>)) \/ (\E v \in Services : ((AdoptService(v) \/ Classify(v) \/
  WaitDone(v) \/ ServiceExits(v)) /\ UNCHANGED scopeVars /\ UNCHANGED <<loopVars, crashed,
  history>>) \/ (Report(v) /\ UNCHANGED <<loopVars, crashed, history>>) \/ ((StopService(v) \/
  StopEnds(v)) /\ UNCHANGED <<scopeVars, loopVars, crashed, history>>))
  BY <1>1, <1>25
<1> HIDE DEF IInv, TypeOK, BodyTypes, BodyInv, AtMoves, Begun, Active, Parent, Kind
<1> QED
  BY <1>2, <1>3, <1>4, <1>5, <1>6, <1>7, <1>8, <1>9, <1>10, <1>11, <1>12, <1>13, <1>14, <1>15,
    <1>16, <1>17, <1>18, <1>19, <1>20, <1>21, <1>22, <1>23, <1>24, <1>25 DEF Next, Workflow, Body,
    Planner, Tear, Operator, ServiceStep, Stopping, Process

\* No ctx is revived.
LEMMA StepCauseMoves == IInv /\ [Next]_vars => CauseMoves
<1> SUFFICES ASSUME IInv, [Next]_vars PROVE CauseMoves
  OBVIOUS
<1>0. tree' = tree
  BY DEF Next, vars
<1>1. ASSUME UNCHANGED vars \/ (\E s \in Scopes : \E c \in Scopes : ((Open(s, c) \/ OpenItem(s, c)
  \/ Go(s, c) \/ PlanTask(s, c)) /\ ScopeOnly)) \/ (\E s \in Scopes : \E k \in {"command", "turn"} :
  (StartCall(s, k) /\ ScopeOnly)) \/ (\E s \in Scopes : ((CallReturns(s) \/ Wait(s) \/ Finish(s) \/
  FinishTask(s) \/ PlanEnds(s) \/ TearWork(s) \/ TearDone(s)) /\ ScopeOnly) \/ ((Return(s) \/
  Joined(s)) /\ UNCHANGED <<serviceVars, loopVars, crashed, aborted, killed, kills>>) \/ (Attach(s)
  /\ UNCHANGED <<serviceVars, queue, record, crashed, history>>) \/ (PlanNext(s) /\ UNCHANGED
  <<serviceVars, crashed, history>>) \/ (StoreTask(s) /\ UNCHANGED <<serviceVars, loopVars,
  history>>) \/ (EndLoop(s) /\ UNCHANGED <<serviceVars, crashed, aborted, killed, kills>>) \/
  (TearPanics(s) /\ UNCHANGED <<scopeVars, serviceVars, loopVars, history>>)) \/ (\E s \in Scopes :
  \E v \in Services : (StartService(s, v) /\ UNCHANGED <<loopVars, crashed, history>>)) \/ (\E s \in
  Scopes : \E m \in Messages : (SteerLoop(s, m) /\ UNCHANGED <<scopeVars, serviceVars, crashed,
  history>>)) \/ (\E v \in Services : ((AdoptService(v) \/ Classify(v) \/ WaitDone(v) \/
  ServiceExits(v)) /\ UNCHANGED scopeVars /\ UNCHANGED <<loopVars, crashed, history>>) \/
  ((ServiceUnready(v) \/ ServiceRefused(v)) /\ UNCHANGED <<loopVars, crashed, history>>) \/
  ((StopService(v) \/ StopEnds(v)) /\ UNCHANGED <<scopeVars, loopVars, crashed, history>>))
  PROVE UNCHANGED <<cause>>
  <2>1. ASSUME NEW s \in Scopes, NEW c \in Scopes, ((Open(s, c) \/ OpenItem(s, c) \/ Go(s, c) \/
    PlanTask(s, c)) /\ ScopeOnly)
    PROVE UNCHANGED <<cause>>
    BY <2>1 DEF Open, ScopeOnly, serviceVars, loopVars, history, Running, OpenItem, Go, Attached,
      PlanTask
  <2>2. ASSUME NEW s \in Scopes, NEW k \in {"command", "turn"}, (StartCall(s, k) /\ ScopeOnly)
    PROVE UNCHANGED <<cause>>
    BY <2>2 DEF StartCall, ScopeOnly, serviceVars, loopVars, history, Running
  <2>3. ASSUME NEW s \in Scopes, ((CallReturns(s) \/ Wait(s) \/ Finish(s) \/ FinishTask(s) \/
    PlanEnds(s) \/ TearWork(s) \/ TearDone(s)) /\ ScopeOnly) \/ (TearPanics(s) /\ UNCHANGED
    <<scopeVars, serviceVars, loopVars, history>>) \/ (EndLoop(s) /\ UNCHANGED <<serviceVars,
    crashed, aborted, killed, kills>>)
    PROVE UNCHANGED <<cause>>
    BY <2>3 DEF CallReturns, ScopeOnly, serviceVars, loopVars, history, Wait, Finish, FinishTask,
      PlanEnds, TearWork, TearDone, TearPanics, scopeVars, EndLoop, Returned
  <2>4. ASSUME NEW s \in Scopes, (PlanNext(s) /\ UNCHANGED <<serviceVars, crashed, history>>) \/
    ((Return(s) \/ Joined(s)) /\ UNCHANGED <<serviceVars, loopVars, crashed, aborted, killed,
    kills>>) \/ (StoreTask(s) /\ UNCHANGED <<serviceVars, loopVars, history>>) \/ (Attach(s) /\
    UNCHANGED <<serviceVars, queue, record, crashed, history>>)
    PROVE UNCHANGED <<cause>>
    BY <2>4 DEF PlanNext, serviceVars, history, Return, loopVars, Running, Returned, Joined,
      StoreTask, Attach, Attached
  <2>5. ASSUME NEW s \in Scopes, NEW v \in Services, (StartService(s, v) /\ UNCHANGED <<loopVars,
    crashed, history>>)
    PROVE UNCHANGED <<cause>>
    BY <2>5 DEF StartService, loopVars, history, Running
  <2>6. ASSUME NEW s \in Scopes, NEW m \in Messages, (SteerLoop(s, m) /\ UNCHANGED <<scopeVars,
    serviceVars, crashed, history>>)
    PROVE UNCHANGED <<cause>>
    BY <2>6 DEF SteerLoop, scopeVars, serviceVars, history
  <2>7. ASSUME NEW v \in Services, ((ServiceUnready(v) \/ ServiceRefused(v)) /\ UNCHANGED
    <<loopVars, crashed, history>>) \/ ((StopService(v) \/ StopEnds(v)) /\ UNCHANGED <<scopeVars,
    loopVars, crashed, history>>) \/ ((AdoptService(v) \/ Classify(v) \/ WaitDone(v) \/
    ServiceExits(v)) /\ UNCHANGED scopeVars /\ UNCHANGED <<loopVars, crashed, history>>)
    PROVE UNCHANGED <<cause>>
    BY <2>7 DEF ServiceUnready, loopVars, history, ServiceReturns, ServiceRefused, StopService,
      scopeVars, StopEnds, AdoptService, Classify, WaitDone, ServiceExits
  <2> QED
    BY <1>1, <2>1, <2>2, <2>3, <2>4, <2>5, <2>6, <2>7 DEF vars, scopeVars, serviceVars, loopVars,
      history
<1> USE <1>0, Shape, CancelEffect, KnownErrors DEF IInv, TypeOK, BodyTypes, TearInv, CauseMoves,
  Done
<1>a. AtMoves
  BY StepAtMoves
<1> USE <1>a DEF AtMoves
<1>2. ASSUME NEW s \in Scopes, Begin(s), ScopeOnly PROVE CauseMoves
  <2>1. cause' = [cause EXCEPT ![s] = cause[Parent(s)]] /\ ~Begun(s) /\ Begun(s)'
    BY <1>2 DEF Begin, Begun
  <2> QED
    BY <2>1
<1>3. ASSUME NEW s \in Scopes, FinishItem(s), ScopeOnly PROVE CauseMoves
  BY <1>3, ItemEffect DEF ScopeOnly, serviceVars, loopVars, history
<1>4. ASSUME NEW s \in Scopes, FinishChild(s), UNCHANGED <<serviceVars, loopVars, crashed, cut,
  killed, kills>>
  PROVE CauseMoves
  BY <1>4 DEF FinishChild, serviceVars, loopVars
<1>5. ASSUME NEW s \in Scopes, TearStart(s), UNCHANGED <<crashed, history>> PROVE CauseMoves
  BY <1>5 DEF TearStart, history
<1>6. ASSUME NEW s \in Scopes, CancelScope(s), UNCHANGED <<serviceVars, loopVars, crashed>>
  PROVE CauseMoves
  BY <1>6 DEF CancelScope, serviceVars, loopVars
<1>7. ASSUME NEW v \in Services, Report(v), UNCHANGED <<loopVars, crashed, history>>
  PROVE CauseMoves
  BY <1>7, ReportEffect DEF loopVars, history
<1>8. ASSUME NEW v \in Services, ServiceReady(v), UNCHANGED <<loopVars, crashed, history>>
  PROVE CauseMoves
  BY <1>8, ReadyEffect DEF loopVars, history
<1>9. CASE UNCHANGED vars \/ (\E s \in Scopes : \E c \in Scopes : ((Open(s, c) \/ OpenItem(s, c) \/
  Go(s, c) \/ PlanTask(s, c)) /\ ScopeOnly)) \/ (\E s \in Scopes : \E k \in {"command", "turn"} :
  (StartCall(s, k) /\ ScopeOnly)) \/ (\E s \in Scopes : ((CallReturns(s) \/ Wait(s) \/ Finish(s) \/
  FinishTask(s) \/ PlanEnds(s) \/ TearWork(s) \/ TearDone(s)) /\ ScopeOnly) \/ ((Return(s) \/
  Joined(s)) /\ UNCHANGED <<serviceVars, loopVars, crashed, aborted, killed, kills>>) \/ (Attach(s)
  /\ UNCHANGED <<serviceVars, queue, record, crashed, history>>) \/ (PlanNext(s) /\ UNCHANGED
  <<serviceVars, crashed, history>>) \/ (StoreTask(s) /\ UNCHANGED <<serviceVars, loopVars,
  history>>) \/ (EndLoop(s) /\ UNCHANGED <<serviceVars, crashed, aborted, killed, kills>>) \/
  (TearPanics(s) /\ UNCHANGED <<scopeVars, serviceVars, loopVars, history>>)) \/ (\E s \in Scopes :
  \E v \in Services : (StartService(s, v) /\ UNCHANGED <<loopVars, crashed, history>>)) \/ (\E s \in
  Scopes : \E m \in Messages : (SteerLoop(s, m) /\ UNCHANGED <<scopeVars, serviceVars, crashed,
  history>>)) \/ (\E v \in Services : ((AdoptService(v) \/ Classify(v) \/ WaitDone(v) \/
  ServiceExits(v)) /\ UNCHANGED scopeVars /\ UNCHANGED <<loopVars, crashed, history>>) \/
  ((ServiceUnready(v) \/ ServiceRefused(v)) /\ UNCHANGED <<loopVars, crashed, history>>) \/
  ((StopService(v) \/ StopEnds(v)) /\ UNCHANGED <<scopeVars, loopVars, crashed, history>>))
  BY <1>1, <1>9
<1> HIDE DEF IInv, TypeOK, BodyTypes, TearInv, CauseMoves, Done
<1> QED
  BY <1>2, <1>3, <1>4, <1>5, <1>6, <1>7, <1>8, <1>9 DEF Next, Workflow, Body, Planner, Tear,
    Operator, ServiceStep, Stopping, Process

\* A teardown cancels.
LEMMA StepTear == IInv /\ [Next]_vars => TearInv'
<1> SUFFICES ASSUME IInv, [Next]_vars PROVE TearInv'
  OBVIOUS
<1>0. tree' = tree
  BY DEF Next, vars
<1>1. ASSUME UNCHANGED vars \/ (\E s \in Scopes : \E c \in Scopes : ((Open(s, c) \/ OpenItem(s, c)
  \/ Go(s, c) \/ PlanTask(s, c)) /\ ScopeOnly)) \/ (\E s \in Scopes : \E k \in {"command", "turn"} :
  (StartCall(s, k) /\ ScopeOnly)) \/ (\E s \in Scopes : ((CallReturns(s) \/ Wait(s) \/ Begin(s) \/
  Finish(s) \/ FinishItem(s) \/ FinishTask(s) \/ PlanEnds(s)) /\ ScopeOnly) \/ ((Return(s) \/
  Joined(s)) /\ UNCHANGED <<serviceVars, loopVars, crashed, aborted, killed, kills>>) \/ (Attach(s)
  /\ UNCHANGED <<serviceVars, queue, record, crashed, history>>) \/ (FinishChild(s) /\ UNCHANGED
  <<serviceVars, loopVars, crashed, cut, killed, kills>>) \/ (PlanNext(s) /\ UNCHANGED
  <<serviceVars, crashed, history>>) \/ (StoreTask(s) /\ UNCHANGED <<serviceVars, loopVars,
  history>>) \/ (EndLoop(s) /\ UNCHANGED <<serviceVars, crashed, aborted, killed, kills>>) \/
  (TearPanics(s) /\ UNCHANGED <<scopeVars, serviceVars, loopVars, history>>) \/ (CancelScope(s) /\
  UNCHANGED <<serviceVars, loopVars, crashed>>)) \/ (\E s \in Scopes : \E v \in Services :
  (StartService(s, v) /\ UNCHANGED <<loopVars, crashed, history>>)) \/ (\E s \in Scopes : \E m \in
  Messages : (SteerLoop(s, m) /\ UNCHANGED <<scopeVars, serviceVars, crashed, history>>)) \/ (\E v
  \in Services : ((AdoptService(v) \/ Classify(v) \/ WaitDone(v) \/ ServiceExits(v)) /\ UNCHANGED
  scopeVars /\ UNCHANGED <<loopVars, crashed, history>>) \/ ((ServiceUnready(v) \/ ServiceRefused(v)
  \/ Report(v) \/ ServiceReady(v)) /\ UNCHANGED <<loopVars, crashed, history>>) \/ ((StopService(v)
  \/ StopEnds(v)) /\ UNCHANGED <<scopeVars, loopVars, crashed, history>>))
  PROVE UNCHANGED <<ended, tear>>
  <2>1. ASSUME NEW s \in Scopes, NEW c \in Scopes, ((Open(s, c) \/ OpenItem(s, c) \/ Go(s, c) \/
    PlanTask(s, c)) /\ ScopeOnly)
    PROVE UNCHANGED <<ended, tear>>
    BY <2>1 DEF Open, ScopeOnly, serviceVars, loopVars, history, Running, OpenItem, Go, Attached,
      PlanTask
  <2>2. ASSUME NEW s \in Scopes, NEW k \in {"command", "turn"}, (StartCall(s, k) /\ ScopeOnly)
    PROVE UNCHANGED <<ended, tear>>
    BY <2>2 DEF StartCall, ScopeOnly, serviceVars, loopVars, history, Running
  <2>3. ASSUME NEW s \in Scopes, ((CallReturns(s) \/ Wait(s) \/ Begin(s) \/ Finish(s) \/
    FinishItem(s) \/ FinishTask(s) \/ PlanEnds(s)) /\ ScopeOnly) \/ (TearPanics(s) /\ UNCHANGED
    <<scopeVars, serviceVars, loopVars, history>>) \/ (EndLoop(s) /\ UNCHANGED <<serviceVars,
    crashed, aborted, killed, kills>>)
    PROVE UNCHANGED <<ended, tear>>
    BY <2>3 DEF CallReturns, ScopeOnly, serviceVars, loopVars, history, Wait, Begin, Finish,
      FinishItem, FailService, FinishTask, PlanEnds, TearPanics, scopeVars, EndLoop, Returned
  <2>4. ASSUME NEW s \in Scopes, (PlanNext(s) /\ UNCHANGED <<serviceVars, crashed, history>>) \/
    ((Return(s) \/ Joined(s)) /\ UNCHANGED <<serviceVars, loopVars, crashed, aborted, killed,
    kills>>) \/ (FinishChild(s) /\ UNCHANGED <<serviceVars, loopVars, crashed, cut, killed, kills>>)
    \/ (CancelScope(s) /\ UNCHANGED <<serviceVars, loopVars, crashed>>) \/ (StoreTask(s) /\
    UNCHANGED <<serviceVars, loopVars, history>>) \/ (Attach(s) /\ UNCHANGED <<serviceVars, queue,
    record, crashed, history>>)
    PROVE UNCHANGED <<ended, tear>>
    BY <2>4 DEF PlanNext, serviceVars, history, Return, loopVars, Running, Returned, Joined,
      FinishChild, CancelScope, StoreTask, Attach, Attached
  <2>5. ASSUME NEW s \in Scopes, NEW v \in Services, (StartService(s, v) /\ UNCHANGED <<loopVars,
    crashed, history>>)
    PROVE UNCHANGED <<ended, tear>>
    BY <2>5 DEF StartService, loopVars, history, Running
  <2>6. ASSUME NEW s \in Scopes, NEW m \in Messages, (SteerLoop(s, m) /\ UNCHANGED <<scopeVars,
    serviceVars, crashed, history>>)
    PROVE UNCHANGED <<ended, tear>>
    BY <2>6 DEF SteerLoop, scopeVars, serviceVars, history
  <2>7. ASSUME NEW v \in Services, ((ServiceUnready(v) \/ ServiceRefused(v) \/ Report(v) \/
    ServiceReady(v)) /\ UNCHANGED <<loopVars, crashed, history>>) \/ ((StopService(v) \/
    StopEnds(v)) /\ UNCHANGED <<scopeVars, loopVars, crashed, history>>) \/ ((AdoptService(v) \/
    Classify(v) \/ WaitDone(v)) /\ UNCHANGED scopeVars /\ UNCHANGED <<loopVars, crashed, history>>)
    PROVE UNCHANGED <<ended, tear>>
    BY <2>7 DEF ServiceUnready, loopVars, history, ServiceReturns, ServiceRefused, Report,
      FailService, ServiceReady, StopService, scopeVars, StopEnds, AdoptService, Classify, WaitDone
  <2>8. ASSUME NEW v \in Services, (ServiceExits(v) /\ UNCHANGED scopeVars /\ UNCHANGED <<loopVars,
    crashed, history>>)
    PROVE UNCHANGED <<ended, tear>>
    BY <2>8 DEF ServiceExits, scopeVars, loopVars, history
  <2> QED
    BY <1>1, <2>1, <2>2, <2>3, <2>4, <2>5, <2>6, <2>7, <2>8 DEF vars, scopeVars, serviceVars,
      loopVars, history
<1> USE <1>0
<1>a. AtMoves /\ CauseMoves
  BY StepAtMoves, StepCauseMoves
<1> USE <1>a
<1>2. ASSUME NEW s \in Scopes, TearStart(s), UNCHANGED <<crashed, history>> PROVE TearInv'
  BY <1>2, TearStarts
<1>3. ASSUME NEW s \in Scopes, TearWork(s), ScopeOnly PROVE TearInv'
  <2>1. ended' = ended /\ \A x \in Scopes : tear'[x] = "idle" <=> tear[x] = "idle"
    BY <1>3 DEF TearWork, IInv, TypeOK, TearTypes
  <2> QED
    BY <2>1, TearKept
<1>4. ASSUME NEW s \in Scopes, TearDone(s), ScopeOnly PROVE TearInv'
  <2>1. ended' = ended /\ \A x \in Scopes : tear'[x] = "idle" <=> tear[x] = "idle"
    BY <1>4 DEF TearDone, IInv, TypeOK, TearTypes
  <2> QED
    BY <2>1, TearKept
<1>5. CASE UNCHANGED vars \/ (\E s \in Scopes : \E c \in Scopes : ((Open(s, c) \/ OpenItem(s, c) \/
  Go(s, c) \/ PlanTask(s, c)) /\ ScopeOnly)) \/ (\E s \in Scopes : \E k \in {"command", "turn"} :
  (StartCall(s, k) /\ ScopeOnly)) \/ (\E s \in Scopes : ((CallReturns(s) \/ Wait(s) \/ Begin(s) \/
  Finish(s) \/ FinishItem(s) \/ FinishTask(s) \/ PlanEnds(s)) /\ ScopeOnly) \/ ((Return(s) \/
  Joined(s)) /\ UNCHANGED <<serviceVars, loopVars, crashed, aborted, killed, kills>>) \/ (Attach(s)
  /\ UNCHANGED <<serviceVars, queue, record, crashed, history>>) \/ (FinishChild(s) /\ UNCHANGED
  <<serviceVars, loopVars, crashed, cut, killed, kills>>) \/ (PlanNext(s) /\ UNCHANGED
  <<serviceVars, crashed, history>>) \/ (StoreTask(s) /\ UNCHANGED <<serviceVars, loopVars,
  history>>) \/ (EndLoop(s) /\ UNCHANGED <<serviceVars, crashed, aborted, killed, kills>>) \/
  (TearPanics(s) /\ UNCHANGED <<scopeVars, serviceVars, loopVars, history>>) \/ (CancelScope(s) /\
  UNCHANGED <<serviceVars, loopVars, crashed>>)) \/ (\E s \in Scopes : \E v \in Services :
  (StartService(s, v) /\ UNCHANGED <<loopVars, crashed, history>>)) \/ (\E s \in Scopes : \E m \in
  Messages : (SteerLoop(s, m) /\ UNCHANGED <<scopeVars, serviceVars, crashed, history>>)) \/ (\E v
  \in Services : ((AdoptService(v) \/ Classify(v) \/ WaitDone(v) \/ ServiceExits(v)) /\ UNCHANGED
  scopeVars /\ UNCHANGED <<loopVars, crashed, history>>) \/ ((ServiceUnready(v) \/ ServiceRefused(v)
  \/ Report(v) \/ ServiceReady(v)) /\ UNCHANGED <<loopVars, crashed, history>>) \/ ((StopService(v)
  \/ StopEnds(v)) /\ UNCHANGED <<scopeVars, loopVars, crashed, history>>))
  <2>1. UNCHANGED <<ended, tear>>
    BY <1>1, <1>5
  <2> QED
    BY <2>1, TearKept
<1> QED
  BY <1>2, <1>3, <1>4, <1>5 DEF Next, Workflow, Body, Planner, Tear, Operator, ServiceStep,
    Stopping, Process

\* Children are attached.
LEMMA StepChild == IInv /\ [Next]_vars => ChildInv'
<1> SUFFICES ASSUME IInv, [Next]_vars PROVE ChildInv'
  OBVIOUS
<1>0. tree' = tree
  BY DEF Next, vars
<1>1. ASSUME UNCHANGED vars \/ (\E s \in Scopes : ((TearWork(s) \/ TearDone(s)) /\ ScopeOnly) \/
  (TearPanics(s) /\ UNCHANGED <<scopeVars, serviceVars, loopVars, history>>) \/ (CancelScope(s) /\
  UNCHANGED <<serviceVars, loopVars, crashed>>)) \/ (\E s \in Scopes : \E m \in Messages :
  (SteerLoop(s, m) /\ UNCHANGED <<scopeVars, serviceVars, crashed, history>>)) \/ (\E v \in Services
  : ((AdoptService(v) \/ Classify(v) \/ WaitDone(v) \/ ServiceExits(v)) /\ UNCHANGED scopeVars /\
  UNCHANGED <<loopVars, crashed, history>>) \/ (Report(v) /\ UNCHANGED <<loopVars, crashed,
  history>>) \/ ((StopService(v) \/ StopEnds(v)) /\ UNCHANGED <<scopeVars, loopVars, crashed,
  history>>))
  PROVE UNCHANGED <<at, ended, children>>
  <2>1. ASSUME NEW s \in Scopes, ((TearWork(s) \/ TearDone(s)) /\ ScopeOnly) \/ (TearPanics(s) /\
    UNCHANGED <<scopeVars, serviceVars, loopVars, history>>) \/ (CancelScope(s) /\ UNCHANGED
    <<serviceVars, loopVars, crashed>>)
    PROVE UNCHANGED <<at, ended, children>>
    BY <2>1 DEF TearWork, ScopeOnly, serviceVars, loopVars, history, TearDone, TearPanics,
      scopeVars, CancelScope
  <2>2. ASSUME NEW s \in Scopes, NEW m \in Messages, (SteerLoop(s, m) /\ UNCHANGED <<scopeVars,
    serviceVars, crashed, history>>)
    PROVE UNCHANGED <<at, ended, children>>
    BY <2>2 DEF SteerLoop, scopeVars, serviceVars, history
  <2>3. ASSUME NEW v \in Services, (Report(v) /\ UNCHANGED <<loopVars, crashed, history>>) \/
    ((StopService(v) \/ StopEnds(v)) /\ UNCHANGED <<scopeVars, loopVars, crashed, history>>) \/
    ((AdoptService(v) \/ Classify(v) \/ WaitDone(v) \/ ServiceExits(v)) /\ UNCHANGED scopeVars /\
    UNCHANGED <<loopVars, crashed, history>>)
    PROVE UNCHANGED <<at, ended, children>>
    BY <2>3 DEF Report, loopVars, history, FailService, StopService, scopeVars, StopEnds,
      AdoptService, Classify, WaitDone, ServiceExits
  <2> QED
    BY <1>1, <2>1, <2>2, <2>3 DEF vars, scopeVars, serviceVars, loopVars, history
<1> USE <1>0, Shape DEF IInv, TypeOK, BodyTypes, TearTypes, ChildInv, BodyInv, Begun, Active, Parent
<1>2. ASSUME NEW s \in Scopes, NEW c \in Scopes, Open(s, c), ScopeOnly PROVE ChildInv'
  BY <1>2 DEF Open, ScopeOnly, serviceVars, loopVars, history, Running
<1>3. ASSUME NEW s \in Scopes, NEW c \in Scopes, OpenItem(s, c), ScopeOnly PROVE ChildInv'
  BY <1>3 DEF OpenItem, ScopeOnly, serviceVars, loopVars, history, Running
<1>4. ASSUME NEW s \in Scopes, NEW c \in Scopes, Go(s, c), ScopeOnly PROVE ChildInv'
  BY <1>4 DEF Go, ScopeOnly, serviceVars, loopVars, history, Attached
<1>5. ASSUME NEW s \in Scopes, NEW k \in {"command", "turn"}, StartCall(s, k), ScopeOnly
  PROVE ChildInv'
  BY <1>5 DEF StartCall, ScopeOnly, serviceVars, loopVars, history, Running
<1>6. ASSUME NEW s \in Scopes, CallReturns(s), ScopeOnly PROVE ChildInv'
  BY <1>6 DEF CallReturns, ScopeOnly, serviceVars, loopVars, history
<1>7. ASSUME NEW s \in Scopes, Wait(s), ScopeOnly PROVE ChildInv'
  BY <1>7 DEF Wait, ScopeOnly, serviceVars, loopVars, history
<1>8. ASSUME NEW s \in Scopes, Return(s), UNCHANGED <<serviceVars, loopVars, crashed, aborted,
  killed, kills>>
  PROVE ChildInv'
  BY <1>8 DEF Return, serviceVars, loopVars, Running, Returned
<1>9. ASSUME NEW s \in Scopes, NEW v \in Services, StartService(s, v), UNCHANGED <<loopVars,
  crashed, history>>
  PROVE ChildInv'
  BY <1>9 DEF StartService, loopVars, history, Running
<1>10. ASSUME NEW s \in Scopes, Attach(s), UNCHANGED <<serviceVars, queue, record, crashed,
  history>>
  PROVE ChildInv'
  BY <1>10 DEF Attach, serviceVars, history, Attached
<1>11. ASSUME NEW s \in Scopes, Begin(s), ScopeOnly PROVE ChildInv'
  BY <1>11 DEF Begin, ScopeOnly, serviceVars, loopVars, history
<1>12. ASSUME NEW s \in Scopes, Finish(s), ScopeOnly PROVE ChildInv'
  BY <1>12 DEF Finish, ScopeOnly, serviceVars, loopVars, history
<1>13. ASSUME NEW s \in Scopes, FinishItem(s), ScopeOnly PROVE ChildInv'
  BY <1>13 DEF FinishItem, ScopeOnly, serviceVars, loopVars, history, FailService
<1>14. ASSUME NEW s \in Scopes, FinishTask(s), ScopeOnly PROVE ChildInv'
  BY <1>14 DEF FinishTask, ScopeOnly, serviceVars, loopVars, history
<1>15. ASSUME NEW s \in Scopes, FinishChild(s), UNCHANGED <<serviceVars, loopVars, crashed, cut,
  killed, kills>>
  PROVE ChildInv'
  BY <1>15 DEF FinishChild, serviceVars, loopVars
<1>16. ASSUME NEW s \in Scopes, Joined(s), UNCHANGED <<serviceVars, loopVars, crashed, aborted,
  killed, kills>>
  PROVE ChildInv'
  BY <1>16 DEF Joined, serviceVars, loopVars, Returned
<1>17. ASSUME NEW s \in Scopes, PlanNext(s), UNCHANGED <<serviceVars, crashed, history>>
  PROVE ChildInv'
  BY <1>17 DEF PlanNext, serviceVars, history
<1>18. ASSUME NEW s \in Scopes, StoreTask(s), UNCHANGED <<serviceVars, loopVars, history>>
  PROVE ChildInv'
  BY <1>18 DEF StoreTask, serviceVars, loopVars, history
<1>19. ASSUME NEW s \in Scopes, EndLoop(s), UNCHANGED <<serviceVars, crashed, aborted, killed,
  kills>>
  PROVE ChildInv'
  BY <1>19 DEF EndLoop, serviceVars, loopVars, Returned
<1>20. ASSUME NEW s \in Scopes, PlanEnds(s), ScopeOnly PROVE ChildInv'
  BY <1>20 DEF PlanEnds, ScopeOnly, serviceVars, loopVars, history
<1>21. ASSUME NEW s \in Scopes, NEW c \in Scopes, PlanTask(s, c), ScopeOnly PROVE ChildInv'
  BY <1>21 DEF PlanTask, ScopeOnly, serviceVars, loopVars, history, Attached
<1>22. ASSUME NEW s \in Scopes, TearStart(s), UNCHANGED <<crashed, history>> PROVE ChildInv'
  BY <1>22 DEF TearStart, history
<1>23. ASSUME NEW v \in Services, ServiceUnready(v), UNCHANGED <<loopVars, crashed, history>>
  PROVE ChildInv'
  BY <1>23, InService DEF ServiceUnready, loopVars, history, ServiceReturns, InCall
<1>24. ASSUME NEW v \in Services, ServiceRefused(v), UNCHANGED <<loopVars, crashed, history>>
  PROVE ChildInv'
  BY <1>24, InService DEF ServiceRefused, loopVars, history, ServiceReturns, InCall
<1>25. ASSUME NEW v \in Services, ServiceReady(v), UNCHANGED <<loopVars, crashed, history>>
  PROVE ChildInv'
  BY <1>25, InService DEF ServiceReady, loopVars, history, ServiceReturns, FailService, InCall
<1>26. CASE UNCHANGED vars \/ (\E s \in Scopes : ((TearWork(s) \/ TearDone(s)) /\ ScopeOnly) \/
  (TearPanics(s) /\ UNCHANGED <<scopeVars, serviceVars, loopVars, history>>) \/ (CancelScope(s) /\
  UNCHANGED <<serviceVars, loopVars, crashed>>)) \/ (\E s \in Scopes : \E m \in Messages :
  (SteerLoop(s, m) /\ UNCHANGED <<scopeVars, serviceVars, crashed, history>>)) \/ (\E v \in Services
  : ((AdoptService(v) \/ Classify(v) \/ WaitDone(v) \/ ServiceExits(v)) /\ UNCHANGED scopeVars /\
  UNCHANGED <<loopVars, crashed, history>>) \/ (Report(v) /\ UNCHANGED <<loopVars, crashed,
  history>>) \/ ((StopService(v) \/ StopEnds(v)) /\ UNCHANGED <<scopeVars, loopVars, crashed,
  history>>))
  BY <1>1, <1>26
<1> HIDE DEF IInv, TypeOK, BodyTypes, TearTypes, ChildInv, BodyInv, Begun, Active, Parent
<1> QED
  BY <1>2, <1>3, <1>4, <1>5, <1>6, <1>7, <1>8, <1>9, <1>10, <1>11, <1>12, <1>13, <1>14, <1>15,
    <1>16, <1>17, <1>18, <1>19, <1>20, <1>21, <1>22, <1>23, <1>24, <1>25, <1>26 DEF Next, Workflow,
    Body, Planner, Tear, Operator, ServiceStep, Stopping, Process

\* What lives is linked.
LEMMA StepLink == IInv /\ [Next]_vars => LinkInv'
<1> SUFFICES ASSUME IInv, [Next]_vars PROVE LinkInv'
  OBVIOUS
<1>0. tree' = tree
  BY DEF Next, vars
<1>1. ASSUME UNCHANGED vars \/ (\E s \in Scopes : \E c \in Scopes : ((Open(s, c) \/ OpenItem(s, c))
  /\ ScopeOnly)) \/ (\E s \in Scopes : \E k \in {"command", "turn"} : (StartCall(s, k) /\
  ScopeOnly)) \/ (\E s \in Scopes : ((CallReturns(s) \/ Wait(s) \/ Begin(s) \/ Finish(s) \/
  FinishItem(s) \/ FinishTask(s) \/ PlanEnds(s) \/ TearWork(s) \/ TearDone(s)) /\ ScopeOnly) \/
  ((Return(s) \/ Joined(s)) /\ UNCHANGED <<serviceVars, loopVars, crashed, aborted, killed, kills>>)
  \/ (FinishChild(s) /\ UNCHANGED <<serviceVars, loopVars, crashed, cut, killed, kills>>) \/
  (PlanNext(s) /\ UNCHANGED <<serviceVars, crashed, history>>) \/ (StoreTask(s) /\ UNCHANGED
  <<serviceVars, loopVars, history>>) \/ (EndLoop(s) /\ UNCHANGED <<serviceVars, crashed, aborted,
  killed, kills>>) \/ (TearStart(s) /\ UNCHANGED <<crashed, history>>) \/ (TearPanics(s) /\
  UNCHANGED <<scopeVars, serviceVars, loopVars, history>>) \/ (CancelScope(s) /\ UNCHANGED
  <<serviceVars, loopVars, crashed>>)) \/ (\E s \in Scopes : \E m \in Messages : (SteerLoop(s, m) /\
  UNCHANGED <<scopeVars, serviceVars, crashed, history>>)) \/ (\E v \in Services : ((Classify(v) \/
  WaitDone(v) \/ ServiceExits(v)) /\ UNCHANGED scopeVars /\ UNCHANGED <<loopVars, crashed,
  history>>) \/ (Report(v) /\ UNCHANGED <<loopVars, crashed, history>>) \/ ((StopService(v) \/
  StopEnds(v)) /\ UNCHANGED <<scopeVars, loopVars, crashed, history>>))
  PROVE UNCHANGED <<children, call>>
  <2>1. ASSUME NEW s \in Scopes, NEW c \in Scopes, ((Open(s, c) \/ OpenItem(s, c)) /\ ScopeOnly)
    PROVE UNCHANGED <<children, call>>
    BY <2>1 DEF Open, ScopeOnly, serviceVars, loopVars, history, Running, OpenItem
  <2>2. ASSUME NEW s \in Scopes, NEW k \in {"command", "turn"}, (StartCall(s, k) /\ ScopeOnly)
    PROVE UNCHANGED <<children, call>>
    BY <2>2 DEF StartCall, ScopeOnly, serviceVars, loopVars, history, Running
  <2>3. ASSUME NEW s \in Scopes, ((CallReturns(s) \/ Wait(s) \/ Begin(s) \/ Finish(s) \/
    FinishItem(s) \/ FinishTask(s) \/ PlanEnds(s) \/ TearWork(s) \/ TearDone(s)) /\ ScopeOnly)
    PROVE UNCHANGED <<children, call>>
    BY <2>3 DEF CallReturns, ScopeOnly, serviceVars, loopVars, history, Wait, Begin, Finish,
      FinishItem, FailService, FinishTask, PlanEnds, TearWork, TearDone
  <2>4. ASSUME NEW s \in Scopes, (TearStart(s) /\ UNCHANGED <<crashed, history>>) \/ (TearPanics(s)
    /\ UNCHANGED <<scopeVars, serviceVars, loopVars, history>>) \/ (EndLoop(s) /\ UNCHANGED
    <<serviceVars, crashed, aborted, killed, kills>>) \/ (PlanNext(s) /\ UNCHANGED <<serviceVars,
    crashed, history>>) \/ ((Return(s) \/ Joined(s)) /\ UNCHANGED <<serviceVars, loopVars, crashed,
    aborted, killed, kills>>) \/ (FinishChild(s) /\ UNCHANGED <<serviceVars, loopVars, crashed, cut,
    killed, kills>>) \/ (CancelScope(s) /\ UNCHANGED <<serviceVars, loopVars, crashed>>) \/
    (StoreTask(s) /\ UNCHANGED <<serviceVars, loopVars, history>>)
    PROVE UNCHANGED <<children, call>>
    BY <2>4 DEF TearStart, history, TearPanics, scopeVars, serviceVars, loopVars, EndLoop, Returned,
      PlanNext, Return, Running, Joined, FinishChild, CancelScope, StoreTask
  <2>5. ASSUME NEW s \in Scopes, NEW m \in Messages, (SteerLoop(s, m) /\ UNCHANGED <<scopeVars,
    serviceVars, crashed, history>>)
    PROVE UNCHANGED <<children, call>>
    BY <2>5 DEF SteerLoop, scopeVars, serviceVars, history
  <2>6. ASSUME NEW v \in Services, (Report(v) /\ UNCHANGED <<loopVars, crashed, history>>) \/
    ((StopService(v) \/ StopEnds(v)) /\ UNCHANGED <<scopeVars, loopVars, crashed, history>>) \/
    ((Classify(v) \/ WaitDone(v) \/ ServiceExits(v)) /\ UNCHANGED scopeVars /\ UNCHANGED <<loopVars,
    crashed, history>>)
    PROVE UNCHANGED <<children, call>>
    BY <2>6 DEF Report, loopVars, history, FailService, StopService, scopeVars, StopEnds, Classify,
      WaitDone, ServiceExits
  <2> QED
    BY <1>1, <2>1, <2>2, <2>3, <2>4, <2>5, <2>6 DEF vars, scopeVars, serviceVars, loopVars, history
<1> USE <1>0
<1>a. AtMoves /\ CauseMoves
  BY StepAtMoves, StepCauseMoves
<1> USE <1>a
<1>2. ASSUME NEW s \in Scopes, NEW c \in Scopes, Go(s, c), ScopeOnly PROVE LinkInv'
  <2>1. Started' = Started /\ \A p \in Scopes : children[p] \subseteq children'[p]
    BY <1>2 DEF Go, Attached, IInv, TypeOK, TearTypes, Started, ScopeOnly, serviceVars
  <2> QED
    BY <2>1, LinkKept
<1>3. ASSUME NEW s \in Scopes, NEW v \in Services, StartService(s, v), UNCHANGED <<loopVars,
  crashed, history>>
  PROVE LinkInv'
  <2>1. children' = children
    BY <1>3 DEF StartService
  <2>2. CASE MayStart(s) /\ call' = [call EXCEPT ![v] = "started"]
    <3>1. Owner(v) = s /\ Begun(s) /\ ~Done(s) /\ call' = [call EXCEPT ![v] = "started"]
      BY <1>3, <2>2 DEF StartService, MayStart, Running, Begun
    <3>2. Linked(s)
      BY <3>1 DEF IInv, LinkInv
    <3>3. \A w \in Started' : w \in Started \/ w = v
      BY <3>1 DEF Started, IInv, TypeOK, ServiceTypes
    <3> QED
      BY <2>1, <3>1, <3>2, <3>3, LinkKept
  <2>3. CASE call' = call
    <3>1. Started' = Started
      BY <2>3 DEF Started
    <3> QED
      BY <2>1, <3>1, LinkKept
  <2> QED
    BY <1>3, <2>2, <2>3 DEF StartService
<1>4. ASSUME NEW s \in Scopes, Attach(s), UNCHANGED <<serviceVars, queue, record, crashed, history>>
  PROVE LinkInv'
  <2>1. Started' = Started /\ \A p \in Scopes : children[p] \subseteq children'[p]
    BY <1>4 DEF Attach, Attached, IInv, TypeOK, TearTypes, Started, ScopeOnly, serviceVars
  <2> QED
    BY <2>1, LinkKept
<1>5. ASSUME NEW s \in Scopes, NEW c \in Scopes, PlanTask(s, c), ScopeOnly PROVE LinkInv'
  <2>1. Started' = Started /\ \A p \in Scopes : children[p] \subseteq children'[p]
    BY <1>5 DEF PlanTask, Attached, IInv, TypeOK, TearTypes, Started, ScopeOnly, serviceVars
  <2> QED
    BY <2>1, LinkKept
<1>6. ASSUME NEW v \in Services, AdoptService(v), UNCHANGED scopeVars, UNCHANGED <<loopVars,
  crashed, history>>
  PROVE LinkInv'
  <2>1. /\ \A w \in Services : call[w] = "none" <=> call'[w] = "none"
        /\ children' = children
    BY <1>6 DEF AdoptService, ServiceReturns, scopeVars, IInv, TypeOK, ServiceTypes
  <2>2. Started' = Started
    BY <2>1 DEF Started
  <2> QED
    BY <2>1, <2>2, LinkKept
<1>7. ASSUME NEW v \in Services, ServiceUnready(v), UNCHANGED <<loopVars, crashed, history>>
  PROVE LinkInv'
  <2>1. /\ \A w \in Services : call[w] = "none" <=> call'[w] = "none"
        /\ children' = children
    BY <1>7 DEF ServiceUnready, ServiceReturns, scopeVars, IInv, TypeOK, ServiceTypes
  <2>2. Started' = Started
    BY <2>1 DEF Started
  <2> QED
    BY <2>1, <2>2, LinkKept
<1>8. ASSUME NEW v \in Services, ServiceRefused(v), UNCHANGED <<loopVars, crashed, history>>
  PROVE LinkInv'
  <2>1. /\ \A w \in Services : call[w] = "none" <=> call'[w] = "none"
        /\ children' = children
    BY <1>8 DEF ServiceRefused, ServiceReturns, scopeVars, IInv, TypeOK, ServiceTypes
  <2>2. Started' = Started
    BY <2>1 DEF Started
  <2> QED
    BY <2>1, <2>2, LinkKept
<1>9. ASSUME NEW v \in Services, ServiceReady(v), UNCHANGED <<loopVars, crashed, history>>
  PROVE LinkInv'
  <2>1. /\ \A w \in Services : call[w] = "none" <=> call'[w] = "none"
        /\ children' = children
    BY <1>9 DEF ServiceReady, ServiceReturns, scopeVars, IInv, TypeOK, ServiceTypes
  <2>2. Started' = Started
    BY <2>1 DEF Started
  <2> QED
    BY <2>1, <2>2, LinkKept
<1>10. CASE UNCHANGED vars \/ (\E s \in Scopes : \E c \in Scopes : ((Open(s, c) \/ OpenItem(s, c))
  /\ ScopeOnly)) \/ (\E s \in Scopes : \E k \in {"command", "turn"} : (StartCall(s, k) /\
  ScopeOnly)) \/ (\E s \in Scopes : ((CallReturns(s) \/ Wait(s) \/ Begin(s) \/ Finish(s) \/
  FinishItem(s) \/ FinishTask(s) \/ PlanEnds(s) \/ TearWork(s) \/ TearDone(s)) /\ ScopeOnly) \/
  ((Return(s) \/ Joined(s)) /\ UNCHANGED <<serviceVars, loopVars, crashed, aborted, killed, kills>>)
  \/ (FinishChild(s) /\ UNCHANGED <<serviceVars, loopVars, crashed, cut, killed, kills>>) \/
  (PlanNext(s) /\ UNCHANGED <<serviceVars, crashed, history>>) \/ (StoreTask(s) /\ UNCHANGED
  <<serviceVars, loopVars, history>>) \/ (EndLoop(s) /\ UNCHANGED <<serviceVars, crashed, aborted,
  killed, kills>>) \/ (TearStart(s) /\ UNCHANGED <<crashed, history>>) \/ (TearPanics(s) /\
  UNCHANGED <<scopeVars, serviceVars, loopVars, history>>) \/ (CancelScope(s) /\ UNCHANGED
  <<serviceVars, loopVars, crashed>>)) \/ (\E s \in Scopes : \E m \in Messages : (SteerLoop(s, m) /\
  UNCHANGED <<scopeVars, serviceVars, crashed, history>>)) \/ (\E v \in Services : ((Classify(v) \/
  WaitDone(v) \/ ServiceExits(v)) /\ UNCHANGED scopeVars /\ UNCHANGED <<loopVars, crashed,
  history>>) \/ (Report(v) /\ UNCHANGED <<loopVars, crashed, history>>) \/ ((StopService(v) \/
  StopEnds(v)) /\ UNCHANGED <<scopeVars, loopVars, crashed, history>>))
  <2>1. UNCHANGED <<children, call>>
    BY <1>1, <1>10
  <2> QED
    BY <2>1, LinkKept DEF Started
<1> QED
  BY <1>2, <1>3, <1>4, <1>5, <1>6, <1>7, <1>8, <1>9, <1>10 DEF Next, Workflow, Body, Planner, Tear,
    Operator, ServiceStep, Stopping, Process

\* Teardown goes from the inside out.
LEMMA StepInside == IInv /\ [Next]_vars => InsideFirst'
<1> SUFFICES ASSUME IInv, [Next]_vars PROVE InsideFirst'
  OBVIOUS
<1>0. tree' = tree
  BY DEF Next, vars
<1>1. ASSUME UNCHANGED vars \/ (\E s \in Scopes : \E c \in Scopes : ((Open(s, c) \/ OpenItem(s, c))
  /\ ScopeOnly)) \/ (\E s \in Scopes : \E k \in {"command", "turn"} : (StartCall(s, k) /\
  ScopeOnly)) \/ (\E s \in Scopes : ((CallReturns(s) \/ Wait(s) \/ Begin(s) \/ Finish(s) \/
  FinishItem(s) \/ FinishTask(s) \/ PlanEnds(s)) /\ ScopeOnly) \/ ((Return(s) \/ Joined(s)) /\
  UNCHANGED <<serviceVars, loopVars, crashed, aborted, killed, kills>>) \/ (FinishChild(s) /\
  UNCHANGED <<serviceVars, loopVars, crashed, cut, killed, kills>>) \/ (PlanNext(s) /\ UNCHANGED
  <<serviceVars, crashed, history>>) \/ (StoreTask(s) /\ UNCHANGED <<serviceVars, loopVars,
  history>>) \/ (EndLoop(s) /\ UNCHANGED <<serviceVars, crashed, aborted, killed, kills>>) \/
  (TearPanics(s) /\ UNCHANGED <<scopeVars, serviceVars, loopVars, history>>) \/ (CancelScope(s) /\
  UNCHANGED <<serviceVars, loopVars, crashed>>)) \/ (\E s \in Scopes : \E v \in Services :
  (StartService(s, v) /\ UNCHANGED <<loopVars, crashed, history>>)) \/ (\E s \in Scopes : \E m \in
  Messages : (SteerLoop(s, m) /\ UNCHANGED <<scopeVars, serviceVars, crashed, history>>)) \/ (\E v
  \in Services : ((AdoptService(v) \/ Classify(v) \/ WaitDone(v) \/ ServiceExits(v)) /\ UNCHANGED
  scopeVars /\ UNCHANGED <<loopVars, crashed, history>>) \/ ((ServiceUnready(v) \/ ServiceRefused(v)
  \/ Report(v) \/ ServiceReady(v)) /\ UNCHANGED <<loopVars, crashed, history>>) \/ ((StopService(v)
  \/ StopEnds(v)) /\ UNCHANGED <<scopeVars, loopVars, crashed, history>>))
  PROVE UNCHANGED <<children, tear>>
  <2>1. ASSUME NEW s \in Scopes, NEW c \in Scopes, ((Open(s, c) \/ OpenItem(s, c)) /\ ScopeOnly)
    PROVE UNCHANGED <<children, tear>>
    BY <2>1 DEF Open, ScopeOnly, serviceVars, loopVars, history, Running, OpenItem
  <2>2. ASSUME NEW s \in Scopes, NEW k \in {"command", "turn"}, (StartCall(s, k) /\ ScopeOnly)
    PROVE UNCHANGED <<children, tear>>
    BY <2>2 DEF StartCall, ScopeOnly, serviceVars, loopVars, history, Running
  <2>3. ASSUME NEW s \in Scopes, ((CallReturns(s) \/ Wait(s) \/ Begin(s) \/ Finish(s) \/
    FinishItem(s) \/ FinishTask(s) \/ PlanEnds(s)) /\ ScopeOnly) \/ (TearPanics(s) /\ UNCHANGED
    <<scopeVars, serviceVars, loopVars, history>>) \/ (EndLoop(s) /\ UNCHANGED <<serviceVars,
    crashed, aborted, killed, kills>>)
    PROVE UNCHANGED <<children, tear>>
    BY <2>3 DEF CallReturns, ScopeOnly, serviceVars, loopVars, history, Wait, Begin, Finish,
      FinishItem, FailService, FinishTask, PlanEnds, TearPanics, scopeVars, EndLoop, Returned
  <2>4. ASSUME NEW s \in Scopes, (PlanNext(s) /\ UNCHANGED <<serviceVars, crashed, history>>) \/
    ((Return(s) \/ Joined(s)) /\ UNCHANGED <<serviceVars, loopVars, crashed, aborted, killed,
    kills>>) \/ (FinishChild(s) /\ UNCHANGED <<serviceVars, loopVars, crashed, cut, killed, kills>>)
    \/ (CancelScope(s) /\ UNCHANGED <<serviceVars, loopVars, crashed>>) \/ (StoreTask(s) /\
    UNCHANGED <<serviceVars, loopVars, history>>)
    PROVE UNCHANGED <<children, tear>>
    BY <2>4 DEF PlanNext, serviceVars, history, Return, loopVars, Running, Returned, Joined,
      FinishChild, CancelScope, StoreTask
  <2>5. ASSUME NEW s \in Scopes, NEW v \in Services, (StartService(s, v) /\ UNCHANGED <<loopVars,
    crashed, history>>)
    PROVE UNCHANGED <<children, tear>>
    BY <2>5 DEF StartService, loopVars, history, Running
  <2>6. ASSUME NEW s \in Scopes, NEW m \in Messages, (SteerLoop(s, m) /\ UNCHANGED <<scopeVars,
    serviceVars, crashed, history>>)
    PROVE UNCHANGED <<children, tear>>
    BY <2>6 DEF SteerLoop, scopeVars, serviceVars, history
  <2>7. ASSUME NEW v \in Services, ((ServiceUnready(v) \/ ServiceRefused(v) \/ Report(v) \/
    ServiceReady(v)) /\ UNCHANGED <<loopVars, crashed, history>>) \/ ((StopService(v) \/
    StopEnds(v)) /\ UNCHANGED <<scopeVars, loopVars, crashed, history>>) \/ ((AdoptService(v) \/
    Classify(v) \/ WaitDone(v)) /\ UNCHANGED scopeVars /\ UNCHANGED <<loopVars, crashed, history>>)
    PROVE UNCHANGED <<children, tear>>
    BY <2>7 DEF ServiceUnready, loopVars, history, ServiceReturns, ServiceRefused, Report,
      FailService, ServiceReady, StopService, scopeVars, StopEnds, AdoptService, Classify, WaitDone
  <2>8. ASSUME NEW v \in Services, (ServiceExits(v) /\ UNCHANGED scopeVars /\ UNCHANGED <<loopVars,
    crashed, history>>)
    PROVE UNCHANGED <<children, tear>>
    BY <2>8 DEF ServiceExits, scopeVars, loopVars, history
  <2> QED
    BY <1>1, <2>1, <2>2, <2>3, <2>4, <2>5, <2>6, <2>7, <2>8 DEF vars, scopeVars, serviceVars,
      loopVars, history
<1> USE <1>0
<1>2. ASSUME NEW s \in Scopes, NEW c \in Scopes, Go(s, c), ScopeOnly PROVE InsideFirst'
  <2>1. Attached(c) /\ tear' = tear /\ at[c] \in {"none", "admitted"}
    BY <1>2 DEF Go
  <2>2. Parent(c) \in Scopes
    BY <1>2, Opened DEF Go
  <2> QED
    BY <2>1, <2>2, InsideAttach
<1>3. ASSUME NEW s \in Scopes, Attach(s), UNCHANGED <<serviceVars, queue, record, crashed, history>>
  PROVE InsideFirst'
  <2>1. Attached(s) /\ tear' = tear /\ at[s] \in {"none", "admitted"}
    BY <1>3 DEF Attach
  <2>2. Parent(s) \in Scopes
    BY <1>3, Opened DEF Attach
  <2> QED
    BY <2>1, <2>2, InsideAttach
<1>4. ASSUME NEW s \in Scopes, NEW c \in Scopes, PlanTask(s, c), ScopeOnly PROVE InsideFirst'
  <2>1. Attached(c) /\ tear' = tear /\ at[c] \in {"none", "admitted"}
    BY <1>4 DEF PlanTask
  <2>2. Parent(c) \in Scopes
    BY <1>4, Opened DEF PlanTask
  <2> QED
    BY <2>1, <2>2, InsideAttach
<1>5. ASSUME NEW s \in Scopes, TearStart(s), UNCHANGED <<crashed, history>> PROVE InsideFirst'
  <2>1. /\ children' = children
        /\ \A x \in Scopes : tear'[x] \in {"services", "done"} => tear[x] \in {"services", "done"}
        /\ \A x \in Scopes : tear[x] = "done" => tear'[x] = "done"
    BY <1>5 DEF TearStart, IInv, TypeOK, TearTypes
  <2> QED
    BY <2>1, InsideKept
<1>6. ASSUME NEW s \in Scopes, TearWork(s), ScopeOnly PROVE InsideFirst'
  BY <1>6, InsideWork
<1>7. ASSUME NEW s \in Scopes, TearDone(s), ScopeOnly PROVE InsideFirst'
  <2>1. /\ children' = children
        /\ \A x \in Scopes : tear'[x] \in {"services", "done"} => tear[x] \in {"services", "done"}
        /\ \A x \in Scopes : tear[x] = "done" => tear'[x] = "done"
    BY <1>7 DEF TearDone, IInv, TypeOK, TearTypes
  <2> QED
    BY <2>1, InsideKept
<1>8. CASE UNCHANGED vars \/ (\E s \in Scopes : \E c \in Scopes : ((Open(s, c) \/ OpenItem(s, c)) /\
  ScopeOnly)) \/ (\E s \in Scopes : \E k \in {"command", "turn"} : (StartCall(s, k) /\ ScopeOnly))
  \/ (\E s \in Scopes : ((CallReturns(s) \/ Wait(s) \/ Begin(s) \/ Finish(s) \/ FinishItem(s) \/
  FinishTask(s) \/ PlanEnds(s)) /\ ScopeOnly) \/ ((Return(s) \/ Joined(s)) /\ UNCHANGED
  <<serviceVars, loopVars, crashed, aborted, killed, kills>>) \/ (FinishChild(s) /\ UNCHANGED
  <<serviceVars, loopVars, crashed, cut, killed, kills>>) \/ (PlanNext(s) /\ UNCHANGED
  <<serviceVars, crashed, history>>) \/ (StoreTask(s) /\ UNCHANGED <<serviceVars, loopVars,
  history>>) \/ (EndLoop(s) /\ UNCHANGED <<serviceVars, crashed, aborted, killed, kills>>) \/
  (TearPanics(s) /\ UNCHANGED <<scopeVars, serviceVars, loopVars, history>>) \/ (CancelScope(s) /\
  UNCHANGED <<serviceVars, loopVars, crashed>>)) \/ (\E s \in Scopes : \E v \in Services :
  (StartService(s, v) /\ UNCHANGED <<loopVars, crashed, history>>)) \/ (\E s \in Scopes : \E m \in
  Messages : (SteerLoop(s, m) /\ UNCHANGED <<scopeVars, serviceVars, crashed, history>>)) \/ (\E v
  \in Services : ((AdoptService(v) \/ Classify(v) \/ WaitDone(v) \/ ServiceExits(v)) /\ UNCHANGED
  scopeVars /\ UNCHANGED <<loopVars, crashed, history>>) \/ ((ServiceUnready(v) \/ ServiceRefused(v)
  \/ Report(v) \/ ServiceReady(v)) /\ UNCHANGED <<loopVars, crashed, history>>) \/ ((StopService(v)
  \/ StopEnds(v)) /\ UNCHANGED <<scopeVars, loopVars, crashed, history>>))
  <2>1. UNCHANGED <<children, tear>>
    BY <1>1, <1>8
  <2> QED
    BY <2>1, InsideKept
<1> QED
  BY <1>2, <1>3, <1>4, <1>5, <1>6, <1>7, <1>8 DEF Next, Workflow, Body, Planner, Tear, Operator,
    ServiceStep, Stopping, Process

\* One Service call at a time, and services are taken once.
LEMMA StepCall == IInv /\ [Next]_vars => CallInv' /\ AdoptInv'
<1> SUFFICES ASSUME IInv, [Next]_vars PROVE CallInv' /\ AdoptInv'
  OBVIOUS
<1>0. tree' = tree
  BY DEF Next, vars
<1>1. ASSUME UNCHANGED vars \/ (\E s \in Scopes : \E c \in Scopes : ((Open(s, c) \/ OpenItem(s, c)
  \/ Go(s, c) \/ PlanTask(s, c)) /\ ScopeOnly)) \/ (\E s \in Scopes : \E k \in {"command", "turn"} :
  (StartCall(s, k) /\ ScopeOnly)) \/ (\E s \in Scopes : ((CallReturns(s) \/ Wait(s) \/ Begin(s) \/
  Finish(s) \/ FinishItem(s) \/ FinishTask(s) \/ PlanEnds(s) \/ TearWork(s) \/ TearDone(s)) /\
  ScopeOnly) \/ ((Return(s) \/ Joined(s)) /\ UNCHANGED <<serviceVars, loopVars, crashed, aborted,
  killed, kills>>) \/ (Attach(s) /\ UNCHANGED <<serviceVars, queue, record, crashed, history>>) \/
  (FinishChild(s) /\ UNCHANGED <<serviceVars, loopVars, crashed, cut, killed, kills>>) \/
  (PlanNext(s) /\ UNCHANGED <<serviceVars, crashed, history>>) \/ (StoreTask(s) /\ UNCHANGED
  <<serviceVars, loopVars, history>>) \/ (EndLoop(s) /\ UNCHANGED <<serviceVars, crashed, aborted,
  killed, kills>>) \/ (TearStart(s) /\ UNCHANGED <<crashed, history>>) \/ (TearPanics(s) /\
  UNCHANGED <<scopeVars, serviceVars, loopVars, history>>) \/ (CancelScope(s) /\ UNCHANGED
  <<serviceVars, loopVars, crashed>>)) \/ (\E s \in Scopes : \E m \in Messages : (SteerLoop(s, m) /\
  UNCHANGED <<scopeVars, serviceVars, crashed, history>>)) \/ (\E v \in Services : ((Classify(v) \/
  WaitDone(v) \/ ServiceExits(v)) /\ UNCHANGED scopeVars /\ UNCHANGED <<loopVars, crashed,
  history>>) \/ (Report(v) /\ UNCHANGED <<loopVars, crashed, history>>) \/ ((StopService(v) \/
  StopEnds(v)) /\ UNCHANGED <<scopeVars, loopVars, crashed, history>>))
  PROVE UNCHANGED <<services, call>>
  <2>1. ASSUME NEW s \in Scopes, NEW c \in Scopes, ((Open(s, c) \/ OpenItem(s, c) \/ Go(s, c) \/
    PlanTask(s, c)) /\ ScopeOnly)
    PROVE UNCHANGED <<services, call>>
    BY <2>1 DEF Open, ScopeOnly, serviceVars, loopVars, history, Running, OpenItem, Go, Attached,
      PlanTask
  <2>2. ASSUME NEW s \in Scopes, NEW k \in {"command", "turn"}, (StartCall(s, k) /\ ScopeOnly)
    PROVE UNCHANGED <<services, call>>
    BY <2>2 DEF StartCall, ScopeOnly, serviceVars, loopVars, history, Running
  <2>3. ASSUME NEW s \in Scopes, ((CallReturns(s) \/ Wait(s) \/ Begin(s) \/ Finish(s) \/
    FinishItem(s) \/ FinishTask(s) \/ PlanEnds(s) \/ TearWork(s) \/ TearDone(s)) /\ ScopeOnly)
    PROVE UNCHANGED <<services, call>>
    BY <2>3 DEF CallReturns, ScopeOnly, serviceVars, loopVars, history, Wait, Begin, Finish,
      FinishItem, FailService, FinishTask, PlanEnds, TearWork, TearDone
  <2>4. ASSUME NEW s \in Scopes, (TearStart(s) /\ UNCHANGED <<crashed, history>>) \/ (TearPanics(s)
    /\ UNCHANGED <<scopeVars, serviceVars, loopVars, history>>) \/ (EndLoop(s) /\ UNCHANGED
    <<serviceVars, crashed, aborted, killed, kills>>) \/ (PlanNext(s) /\ UNCHANGED <<serviceVars,
    crashed, history>>) \/ ((Return(s) \/ Joined(s)) /\ UNCHANGED <<serviceVars, loopVars, crashed,
    aborted, killed, kills>>) \/ (FinishChild(s) /\ UNCHANGED <<serviceVars, loopVars, crashed, cut,
    killed, kills>>) \/ (CancelScope(s) /\ UNCHANGED <<serviceVars, loopVars, crashed>>) \/
    (StoreTask(s) /\ UNCHANGED <<serviceVars, loopVars, history>>)
    PROVE UNCHANGED <<services, call>>
    BY <2>4 DEF TearStart, history, TearPanics, scopeVars, serviceVars, loopVars, EndLoop, Returned,
      PlanNext, Return, Running, Joined, FinishChild, CancelScope, StoreTask
  <2>5. ASSUME NEW s \in Scopes, (Attach(s) /\ UNCHANGED <<serviceVars, queue, record, crashed,
    history>>)
    PROVE UNCHANGED <<services, call>>
    BY <2>5 DEF Attach, serviceVars, history, Attached
  <2>6. ASSUME NEW s \in Scopes, NEW m \in Messages, (SteerLoop(s, m) /\ UNCHANGED <<scopeVars,
    serviceVars, crashed, history>>)
    PROVE UNCHANGED <<services, call>>
    BY <2>6 DEF SteerLoop, scopeVars, serviceVars, history
  <2>7. ASSUME NEW v \in Services, (Report(v) /\ UNCHANGED <<loopVars, crashed, history>>) \/
    ((StopService(v) \/ StopEnds(v)) /\ UNCHANGED <<scopeVars, loopVars, crashed, history>>) \/
    ((Classify(v) \/ WaitDone(v) \/ ServiceExits(v)) /\ UNCHANGED scopeVars /\ UNCHANGED <<loopVars,
    crashed, history>>)
    PROVE UNCHANGED <<services, call>>
    BY <2>7 DEF Report, loopVars, history, FailService, StopService, scopeVars, StopEnds, Classify,
      WaitDone, ServiceExits
  <2> QED
    BY <1>1, <2>1, <2>2, <2>3, <2>4, <2>5, <2>6, <2>7 DEF vars, scopeVars, serviceVars, loopVars,
      history
<1> USE <1>0
<1>a. AtMoves /\ CauseMoves
  BY StepAtMoves, StepCauseMoves
<1> USE <1>a
<1>2. ASSUME NEW s \in Scopes, NEW v \in Services, StartService(s, v), UNCHANGED <<loopVars,
  crashed, history>>
  PROVE CallInv' /\ AdoptInv'
  BY <1>2, StartEffect
<1>3. ASSUME NEW v \in Services, AdoptService(v), UNCHANGED scopeVars, UNCHANGED <<loopVars,
  crashed, history>>
  PROVE CallInv' /\ AdoptInv'
  BY <1>3, AdoptKept DEF scopeVars
<1>4. ASSUME NEW v \in Services, ServiceUnready(v), UNCHANGED <<loopVars, crashed, history>>
  PROVE CallInv' /\ AdoptInv'
  <2>1. InCall(v) /\ \E e \in SUBSET Tags : ServiceReturns(v, e)
    BY <1>4, KnownErrors DEF ServiceUnready, InCall
  <2> QED
    BY <2>1, CallReturned
<1>5. ASSUME NEW v \in Services, ServiceRefused(v), UNCHANGED <<loopVars, crashed, history>>
  PROVE CallInv' /\ AdoptInv'
  <2>1. InCall(v) /\ \E e \in SUBSET Tags : ServiceReturns(v, e)
    BY <1>5, KnownErrors DEF ServiceRefused, InCall
  <2> QED
    BY <2>1, CallReturned
<1>6. ASSUME NEW v \in Services, ServiceReady(v), UNCHANGED <<loopVars, crashed, history>>
  PROVE CallInv' /\ AdoptInv'
  <2>1. InCall(v) /\ \E e \in SUBSET Tags : ServiceReturns(v, e)
    BY <1>6, KnownErrors DEF ServiceReady, InCall
  <2> QED
    BY <2>1, CallReturned
<1>7. CASE UNCHANGED vars \/ (\E s \in Scopes : \E c \in Scopes : ((Open(s, c) \/ OpenItem(s, c) \/
  Go(s, c) \/ PlanTask(s, c)) /\ ScopeOnly)) \/ (\E s \in Scopes : \E k \in {"command", "turn"} :
  (StartCall(s, k) /\ ScopeOnly)) \/ (\E s \in Scopes : ((CallReturns(s) \/ Wait(s) \/ Begin(s) \/
  Finish(s) \/ FinishItem(s) \/ FinishTask(s) \/ PlanEnds(s) \/ TearWork(s) \/ TearDone(s)) /\
  ScopeOnly) \/ ((Return(s) \/ Joined(s)) /\ UNCHANGED <<serviceVars, loopVars, crashed, aborted,
  killed, kills>>) \/ (Attach(s) /\ UNCHANGED <<serviceVars, queue, record, crashed, history>>) \/
  (FinishChild(s) /\ UNCHANGED <<serviceVars, loopVars, crashed, cut, killed, kills>>) \/
  (PlanNext(s) /\ UNCHANGED <<serviceVars, crashed, history>>) \/ (StoreTask(s) /\ UNCHANGED
  <<serviceVars, loopVars, history>>) \/ (EndLoop(s) /\ UNCHANGED <<serviceVars, crashed, aborted,
  killed, kills>>) \/ (TearStart(s) /\ UNCHANGED <<crashed, history>>) \/ (TearPanics(s) /\
  UNCHANGED <<scopeVars, serviceVars, loopVars, history>>) \/ (CancelScope(s) /\ UNCHANGED
  <<serviceVars, loopVars, crashed>>)) \/ (\E s \in Scopes : \E m \in Messages : (SteerLoop(s, m) /\
  UNCHANGED <<scopeVars, serviceVars, crashed, history>>)) \/ (\E v \in Services : ((Classify(v) \/
  WaitDone(v) \/ ServiceExits(v)) /\ UNCHANGED scopeVars /\ UNCHANGED <<loopVars, crashed,
  history>>) \/ (Report(v) /\ UNCHANGED <<loopVars, crashed, history>>) \/ ((StopService(v) \/
  StopEnds(v)) /\ UNCHANGED <<scopeVars, loopVars, crashed, history>>))
  <2>1. UNCHANGED <<services, call>>
    BY <1>1, <1>7
  <2> QED
    BY <2>1, CallKept
<1> QED
  BY <1>2, <1>3, <1>4, <1>5, <1>6, <1>7 DEF Next, Workflow, Body, Planner, Tear, Operator,
    ServiceStep, Stopping, Process

\* What a wait and a stop have seen.
LEMMA StepProcess == IInv /\ [Next]_vars => ProcessInv'
<1> SUFFICES ASSUME IInv, [Next]_vars PROVE ProcessInv'
  OBVIOUS
<1>0. tree' = tree
  BY DEF Next, vars
<1>1. ASSUME UNCHANGED vars \/ (\E s \in Scopes : \E c \in Scopes : ((Open(s, c) \/ OpenItem(s, c)
  \/ Go(s, c) \/ PlanTask(s, c)) /\ ScopeOnly)) \/ (\E s \in Scopes : \E k \in {"command", "turn"} :
  (StartCall(s, k) /\ ScopeOnly)) \/ (\E s \in Scopes : ((CallReturns(s) \/ Wait(s) \/ Begin(s) \/
  Finish(s) \/ FinishTask(s) \/ PlanEnds(s) \/ TearWork(s) \/ TearDone(s)) /\ ScopeOnly) \/
  ((Return(s) \/ Joined(s)) /\ UNCHANGED <<serviceVars, loopVars, crashed, aborted, killed, kills>>)
  \/ (Attach(s) /\ UNCHANGED <<serviceVars, queue, record, crashed, history>>) \/ (FinishChild(s) /\
  UNCHANGED <<serviceVars, loopVars, crashed, cut, killed, kills>>) \/ (PlanNext(s) /\ UNCHANGED
  <<serviceVars, crashed, history>>) \/ (StoreTask(s) /\ UNCHANGED <<serviceVars, loopVars,
  history>>) \/ (EndLoop(s) /\ UNCHANGED <<serviceVars, crashed, aborted, killed, kills>>) \/
  (TearPanics(s) /\ UNCHANGED <<scopeVars, serviceVars, loopVars, history>>) \/ (CancelScope(s) /\
  UNCHANGED <<serviceVars, loopVars, crashed>>)) \/ (\E s \in Scopes : \E m \in Messages :
  (SteerLoop(s, m) /\ UNCHANGED <<scopeVars, serviceVars, crashed, history>>))
  PROVE UNCHANGED <<call, proc, wait, verdict, stop, stopping, serviceErr>>
  <2>1. ASSUME NEW s \in Scopes, NEW c \in Scopes, ((Open(s, c) \/ OpenItem(s, c) \/ Go(s, c) \/
    PlanTask(s, c)) /\ ScopeOnly)
    PROVE UNCHANGED <<call, proc, wait, verdict, stop, stopping, serviceErr>>
    BY <2>1 DEF Open, ScopeOnly, serviceVars, loopVars, history, Running, OpenItem, Go, Attached,
      PlanTask
  <2>2. ASSUME NEW s \in Scopes, NEW k \in {"command", "turn"}, (StartCall(s, k) /\ ScopeOnly)
    PROVE UNCHANGED <<call, proc, wait, verdict, stop, stopping, serviceErr>>
    BY <2>2 DEF StartCall, ScopeOnly, serviceVars, loopVars, history, Running
  <2>3. ASSUME NEW s \in Scopes, ((CallReturns(s) \/ Wait(s) \/ Begin(s) \/ Finish(s) \/
    FinishTask(s) \/ PlanEnds(s) \/ TearWork(s) \/ TearDone(s)) /\ ScopeOnly) \/ (TearPanics(s) /\
    UNCHANGED <<scopeVars, serviceVars, loopVars, history>>)
    PROVE UNCHANGED <<call, proc, wait, verdict, stop, stopping, serviceErr>>
    BY <2>3 DEF CallReturns, ScopeOnly, serviceVars, loopVars, history, Wait, Begin, Finish,
      FinishTask, PlanEnds, TearWork, TearDone, TearPanics, scopeVars
  <2>4. ASSUME NEW s \in Scopes, (EndLoop(s) /\ UNCHANGED <<serviceVars, crashed, aborted, killed,
    kills>>) \/ (PlanNext(s) /\ UNCHANGED <<serviceVars, crashed, history>>) \/ ((Return(s) \/
    Joined(s)) /\ UNCHANGED <<serviceVars, loopVars, crashed, aborted, killed, kills>>) \/
    (FinishChild(s) /\ UNCHANGED <<serviceVars, loopVars, crashed, cut, killed, kills>>) \/
    (CancelScope(s) /\ UNCHANGED <<serviceVars, loopVars, crashed>>) \/ (StoreTask(s) /\ UNCHANGED
    <<serviceVars, loopVars, history>>) \/ (Attach(s) /\ UNCHANGED <<serviceVars, queue, record,
    crashed, history>>)
    PROVE UNCHANGED <<call, proc, wait, verdict, stop, stopping, serviceErr>>
    BY <2>4 DEF EndLoop, serviceVars, loopVars, Returned, PlanNext, history, Return, Running,
      Joined, FinishChild, CancelScope, StoreTask, Attach, Attached
  <2>5. ASSUME NEW s \in Scopes, NEW m \in Messages, (SteerLoop(s, m) /\ UNCHANGED <<scopeVars,
    serviceVars, crashed, history>>)
    PROVE UNCHANGED <<call, proc, wait, verdict, stop, stopping, serviceErr>>
    BY <2>5 DEF SteerLoop, scopeVars, serviceVars, history
  <2> QED
    BY <1>1, <2>1, <2>2, <2>3, <2>4, <2>5 DEF vars, scopeVars, serviceVars, loopVars, history
<1> USE <1>0, Opened DEF IInv, TypeOK, ServiceTypes, TearTypes, ProcessInv, Owner
<1>2. ASSUME NEW s \in Scopes, NEW v \in Services, StartService(s, v), UNCHANGED <<loopVars,
  crashed, history>>
  PROVE ProcessInv'
  BY <1>2 DEF StartService, loopVars, history, Running
<1>3. ASSUME NEW s \in Scopes, FinishItem(s), ScopeOnly PROVE ProcessInv'
  BY <1>3, ItemEffect DEF FinishItem, ScopeOnly, serviceVars, loopVars, history, FailService
<1>4. ASSUME NEW s \in Scopes, TearStart(s), UNCHANGED <<crashed, history>> PROVE ProcessInv'
  BY <1>4 DEF TearStart, history
<1>5. ASSUME NEW v \in Services, AdoptService(v), UNCHANGED scopeVars, UNCHANGED <<loopVars,
  crashed, history>>
  PROVE ProcessInv'
  BY <1>5, AdoptEffect DEF AdoptService, scopeVars, loopVars, history
<1>6. ASSUME NEW v \in Services, Classify(v), UNCHANGED scopeVars, UNCHANGED <<loopVars, crashed,
  history>>
  PROVE ProcessInv'
  BY <1>6 DEF Classify, scopeVars, loopVars, history
<1>7. ASSUME NEW v \in Services, WaitDone(v), UNCHANGED scopeVars, UNCHANGED <<loopVars, crashed,
  history>>
  PROVE ProcessInv'
  BY <1>7 DEF WaitDone, scopeVars, loopVars, history
<1>8. ASSUME NEW v \in Services, ServiceUnready(v), UNCHANGED <<loopVars, crashed, history>>
  PROVE ProcessInv'
  BY <1>8 DEF ServiceUnready, loopVars, history, ServiceReturns
<1>9. ASSUME NEW v \in Services, ServiceRefused(v), UNCHANGED <<loopVars, crashed, history>>
  PROVE ProcessInv'
  BY <1>9 DEF ServiceRefused, loopVars, history, ServiceReturns
<1>10. ASSUME NEW v \in Services, Report(v), UNCHANGED <<loopVars, crashed, history>>
  PROVE ProcessInv'
  <2>1. /\ wait[v] = "classified" /\ wait' = [wait EXCEPT ![v] = "reported"]
        /\ UNCHANGED <<call, proc, stopping, verdict, stop>>
    BY <1>10 DEF Report
  <2>2. /\ \A x \in Scopes : serviceErr[x] => serviceErr'[x]
        /\ verdict[v] = "unexpected" => serviceErr'[Owner(v)]
    BY <1>10, ReportEffect
  <2>3. ASSUME NEW w \in Services, wait'[w] \in {"reported", "done"}, verdict[w] = "unexpected"
        PROVE  serviceErr'[Owner(w)]
    <3>1. CASE w = v
      BY <2>2, <2>3, <3>1
    <3>2. CASE w # v
      <4>1. wait[w] \in {"reported", "done"} /\ Owner(w) \in Scopes
        BY <2>1, <2>3, <3>2
      <4> QED
        BY <2>2, <2>3, <4>1
    <3> QED
      BY <3>1, <3>2
  <2> QED
    BY <2>1, <2>3
<1>11. ASSUME NEW v \in Services, StopService(v), UNCHANGED <<scopeVars, loopVars, crashed,
  history>>
  PROVE ProcessInv'
  <2>1. call[v] \in {"refused", "polling", "returned"}
    BY <1>11, StopCall
  <2> QED
    BY <1>11, <2>1 DEF StopService, scopeVars
<1>12. ASSUME NEW v \in Services, StopEnds(v), UNCHANGED <<scopeVars, loopVars, crashed, history>>
  PROVE ProcessInv'
  BY <1>12 DEF StopEnds, scopeVars, loopVars, history
<1>13. ASSUME NEW v \in Services, ServiceReady(v), UNCHANGED <<loopVars, crashed, history>>
  PROVE ProcessInv'
  <2>1. /\ call[v] = "polling" /\ call' = [call EXCEPT ![v] = "returned"]
        /\ UNCHANGED <<proc, stopping, wait, verdict, stop>>
    BY <1>13 DEF ServiceReady, ServiceReturns
  <2>2. \A x \in Scopes : serviceErr[x] => serviceErr'[x]
    BY <1>13, ReadyEffect
  <2>3. \A w \in Services : wait[w] # "none" => Owner(w) \in Scopes
    BY Opened
  <2>4. \A w \in Services : wait[w] \in {"reported", "done"} /\ verdict[w] = "unexpected" => serviceErr'[Owner(w)]
    BY <2>2, <2>3
  <2> QED
    BY <2>1, <2>4
<1>14. ASSUME NEW v \in Services, ServiceExits(v), UNCHANGED scopeVars, UNCHANGED <<loopVars,
  crashed, history>>
  PROVE ProcessInv'
  BY <1>14 DEF ServiceExits, scopeVars, loopVars, history
<1>15. CASE UNCHANGED vars \/ (\E s \in Scopes : \E c \in Scopes : ((Open(s, c) \/ OpenItem(s, c) \/
  Go(s, c) \/ PlanTask(s, c)) /\ ScopeOnly)) \/ (\E s \in Scopes : \E k \in {"command", "turn"} :
  (StartCall(s, k) /\ ScopeOnly)) \/ (\E s \in Scopes : ((CallReturns(s) \/ Wait(s) \/ Begin(s) \/
  Finish(s) \/ FinishTask(s) \/ PlanEnds(s) \/ TearWork(s) \/ TearDone(s)) /\ ScopeOnly) \/
  ((Return(s) \/ Joined(s)) /\ UNCHANGED <<serviceVars, loopVars, crashed, aborted, killed, kills>>)
  \/ (Attach(s) /\ UNCHANGED <<serviceVars, queue, record, crashed, history>>) \/ (FinishChild(s) /\
  UNCHANGED <<serviceVars, loopVars, crashed, cut, killed, kills>>) \/ (PlanNext(s) /\ UNCHANGED
  <<serviceVars, crashed, history>>) \/ (StoreTask(s) /\ UNCHANGED <<serviceVars, loopVars,
  history>>) \/ (EndLoop(s) /\ UNCHANGED <<serviceVars, crashed, aborted, killed, kills>>) \/
  (TearPanics(s) /\ UNCHANGED <<scopeVars, serviceVars, loopVars, history>>) \/ (CancelScope(s) /\
  UNCHANGED <<serviceVars, loopVars, crashed>>)) \/ (\E s \in Scopes : \E m \in Messages :
  (SteerLoop(s, m) /\ UNCHANGED <<scopeVars, serviceVars, crashed, history>>))
  BY <1>1, <1>15
<1> HIDE DEF IInv, TypeOK, ServiceTypes, TearTypes, ProcessInv, Owner
<1> QED
  BY <1>2, <1>3, <1>4, <1>5, <1>6, <1>7, <1>8, <1>9, <1>10, <1>11, <1>12, <1>13, <1>14, <1>15 DEF
    Next, Workflow, Body, Planner, Tear, Operator, ServiceStep, Stopping, Process

\* A call stops what its scope refused.
LEMMA StepRefused == IInv /\ [Next]_vars => RefusedInv'
<1> SUFFICES ASSUME IInv, [Next]_vars PROVE RefusedInv'
  OBVIOUS
<1>0. tree' = tree
  BY DEF Next, vars
<1>1. ASSUME UNCHANGED vars \/ (\E s \in Scopes : \E c \in Scopes : ((Open(s, c) \/ OpenItem(s, c)
  \/ Go(s, c) \/ PlanTask(s, c)) /\ ScopeOnly)) \/ (\E s \in Scopes : \E k \in {"command", "turn"} :
  (StartCall(s, k) /\ ScopeOnly)) \/ (\E s \in Scopes : ((CallReturns(s) \/ Wait(s) \/ Begin(s) \/
  Finish(s) \/ FinishItem(s) \/ FinishTask(s) \/ PlanEnds(s) \/ TearWork(s) \/ TearDone(s)) /\
  ScopeOnly) \/ ((Return(s) \/ Joined(s)) /\ UNCHANGED <<serviceVars, loopVars, crashed, aborted,
  killed, kills>>) \/ (Attach(s) /\ UNCHANGED <<serviceVars, queue, record, crashed, history>>) \/
  (FinishChild(s) /\ UNCHANGED <<serviceVars, loopVars, crashed, cut, killed, kills>>) \/
  (PlanNext(s) /\ UNCHANGED <<serviceVars, crashed, history>>) \/ (StoreTask(s) /\ UNCHANGED
  <<serviceVars, loopVars, history>>) \/ (EndLoop(s) /\ UNCHANGED <<serviceVars, crashed, aborted,
  killed, kills>>) \/ (TearPanics(s) /\ UNCHANGED <<scopeVars, serviceVars, loopVars, history>>) \/
  (CancelScope(s) /\ UNCHANGED <<serviceVars, loopVars, crashed>>)) \/ (\E s \in Scopes : \E m \in
  Messages : (SteerLoop(s, m) /\ UNCHANGED <<scopeVars, serviceVars, crashed, history>>)) \/ (\E v
  \in Services : ((WaitDone(v) \/ ServiceExits(v)) /\ UNCHANGED scopeVars /\ UNCHANGED <<loopVars,
  crashed, history>>) \/ (Report(v) /\ UNCHANGED <<loopVars, crashed, history>>))
  PROVE UNCHANGED <<services, call, stopping, verdict, stop>>
  <2>1. ASSUME NEW s \in Scopes, NEW c \in Scopes, ((Open(s, c) \/ OpenItem(s, c) \/ Go(s, c) \/
    PlanTask(s, c)) /\ ScopeOnly)
    PROVE UNCHANGED <<services, call, stopping, verdict, stop>>
    BY <2>1 DEF Open, ScopeOnly, serviceVars, loopVars, history, Running, OpenItem, Go, Attached,
      PlanTask
  <2>2. ASSUME NEW s \in Scopes, NEW k \in {"command", "turn"}, (StartCall(s, k) /\ ScopeOnly)
    PROVE UNCHANGED <<services, call, stopping, verdict, stop>>
    BY <2>2 DEF StartCall, ScopeOnly, serviceVars, loopVars, history, Running
  <2>3. ASSUME NEW s \in Scopes, ((CallReturns(s) \/ Wait(s) \/ Begin(s) \/ Finish(s) \/
    FinishItem(s) \/ FinishTask(s) \/ PlanEnds(s) \/ TearWork(s) \/ TearDone(s)) /\ ScopeOnly)
    PROVE UNCHANGED <<services, call, stopping, verdict, stop>>
    BY <2>3 DEF CallReturns, ScopeOnly, serviceVars, loopVars, history, Wait, Begin, Finish,
      FinishItem, FailService, FinishTask, PlanEnds, TearWork, TearDone
  <2>4. ASSUME NEW s \in Scopes, (TearPanics(s) /\ UNCHANGED <<scopeVars, serviceVars, loopVars,
    history>>) \/ (EndLoop(s) /\ UNCHANGED <<serviceVars, crashed, aborted, killed, kills>>) \/
    (PlanNext(s) /\ UNCHANGED <<serviceVars, crashed, history>>) \/ ((Return(s) \/ Joined(s)) /\
    UNCHANGED <<serviceVars, loopVars, crashed, aborted, killed, kills>>) \/ (FinishChild(s) /\
    UNCHANGED <<serviceVars, loopVars, crashed, cut, killed, kills>>) \/ (CancelScope(s) /\
    UNCHANGED <<serviceVars, loopVars, crashed>>) \/ (StoreTask(s) /\ UNCHANGED <<serviceVars,
    loopVars, history>>) \/ (Attach(s) /\ UNCHANGED <<serviceVars, queue, record, crashed,
    history>>)
    PROVE UNCHANGED <<services, call, stopping, verdict, stop>>
    BY <2>4 DEF TearPanics, scopeVars, serviceVars, loopVars, history, EndLoop, Returned, PlanNext,
      Return, Running, Joined, FinishChild, CancelScope, StoreTask, Attach, Attached
  <2>5. ASSUME NEW s \in Scopes, NEW m \in Messages, (SteerLoop(s, m) /\ UNCHANGED <<scopeVars,
    serviceVars, crashed, history>>)
    PROVE UNCHANGED <<services, call, stopping, verdict, stop>>
    BY <2>5 DEF SteerLoop, scopeVars, serviceVars, history
  <2>6. ASSUME NEW v \in Services, (Report(v) /\ UNCHANGED <<loopVars, crashed, history>>) \/
    ((WaitDone(v) \/ ServiceExits(v)) /\ UNCHANGED scopeVars /\ UNCHANGED <<loopVars, crashed,
    history>>)
    PROVE UNCHANGED <<services, call, stopping, verdict, stop>>
    BY <2>6 DEF Report, loopVars, history, FailService, WaitDone, scopeVars, ServiceExits
  <2> QED
    BY <1>1, <2>1, <2>2, <2>3, <2>4, <2>5, <2>6 DEF vars, scopeVars, serviceVars, loopVars, history
<1> USE <1>0 DEF IInv, TypeOK, ServiceTypes, RefusedInv, ProcessInv, Settled
<1>2. ASSUME NEW s \in Scopes, NEW v \in Services, StartService(s, v), UNCHANGED <<loopVars,
  crashed, history>>
  PROVE RefusedInv'
  <2>1. \A w \in Services : Adopted(w)' <=> Adopted(w)
    BY <1>2 DEF StartService, Adopted, Owner
  <2>2. /\ stopping' = stopping /\ verdict' = verdict /\ stop' = stop
        /\ \A w \in Services : call'[w] = call[w] \/ call'[w] = "started"
    BY <1>2 DEF StartService
  <2> QED
    BY <2>1, <2>2
<1>3. ASSUME NEW s \in Scopes, TearStart(s), UNCHANGED <<crashed, history>> PROVE RefusedInv'
  <2>1. \A w \in Services : Adopted(w)' <=> Adopted(w)
    BY <1>3 DEF TearStart, Adopted, Owner
  <2>2. /\ call' = call /\ verdict' = verdict /\ stop' = stop
        /\ \A w \in Services : stopping[w] => stopping'[w]
    BY <1>3 DEF TearStart
  <2> QED
    BY <2>1, <2>2
<1>4. ASSUME NEW v \in Services, AdoptService(v), UNCHANGED scopeVars, UNCHANGED <<loopVars,
  crashed, history>>
  PROVE RefusedInv'
  <2>1. \A w \in Services : w # v => call'[w] = call[w] /\ stopping'[w] = stopping[w]
    <3>1. CASE Adopts(Owner(v))
      BY <1>4, <3>1, AdoptEffect
    <3>2. CASE ~Adopts(Owner(v))
      BY <1>4, <3>2, AdoptEffect
    <3> QED
      BY <3>1, <3>2
  <2>2. verdict' = verdict /\ stop' = stop /\ verdict[v] = None /\ call'[v] \in {"polling", "refused"}
    BY <1>4, AdoptEffect DEF AdoptService
  <2>3. \A w \in Services : w # v /\ Owner(w) \in Scopes => (Adopted(w)' <=> Adopted(w))
    BY <1>4, AdoptEffect, ToSetAdopt
  <2>4. call'[v] = "refused" => ~Adopted(v)'
    BY <1>4, AdoptEffect DEF Adopted, Owner
  <2>5. \A w \in Services : call[w] # "none" => Owner(w) \in Scopes
    BY Opened
  <2> QED
    BY <2>1, <2>2, <2>3, <2>4, <2>5 DEF None
<1>5. ASSUME NEW v \in Services, Classify(v), UNCHANGED scopeVars, UNCHANGED <<loopVars, crashed,
  history>>
  PROVE RefusedInv'
  <2>1. \A w \in Services : Adopted(w)' <=> Adopted(w)
    BY <1>5 DEF Classify, Adopted, Owner
  <2>2. /\ call' = call /\ stopping' = stopping /\ stop' = stop /\ wait[v] = "running"
        /\ verdict' = [verdict EXCEPT ![v] = IF stopping[v] THEN "intended" ELSE "unexpected"]
    BY <1>5 DEF Classify
  <2> QED
    BY <2>1, <2>2
<1>6. ASSUME NEW v \in Services, ServiceUnready(v), UNCHANGED <<loopVars, crashed, history>>
  PROVE RefusedInv'
  <2>1. \A w \in Services : Adopted(w)' <=> Adopted(w)
    BY <1>6 DEF ServiceUnready, Adopted, Owner, ServiceReturns, FailService
  <2>2. /\ stopping' = stopping /\ verdict' = verdict /\ stop' = stop
        /\ call[v] = "polling" /\ call' = [call EXCEPT ![v] = "returned"]
    BY <1>6 DEF ServiceUnready, ServiceReturns, FailService
  <2>3. Adopted(v)
    BY <2>2 DEF AdoptInv
  <2> QED
    BY <2>1, <2>2, <2>3
<1>7. ASSUME NEW v \in Services, ServiceRefused(v), UNCHANGED <<loopVars, crashed, history>>
  PROVE RefusedInv'
  <2>1. \A w \in Services : Adopted(w)' <=> Adopted(w)
    BY <1>7 DEF ServiceRefused, Adopted, Owner, ServiceReturns, FailService
  <2>2. /\ stopping' = stopping /\ verdict' = verdict /\ stop' = stop
        /\ call[v] = "refused" /\ call' = [call EXCEPT ![v] = "returned"] /\ stop[v] \in {"stopped", "failed"}
    BY <1>7 DEF ServiceRefused, ServiceReturns, FailService
  <2> QED
    BY <2>1, <2>2
<1>8. ASSUME NEW v \in Services, StopService(v), UNCHANGED <<scopeVars, loopVars, crashed, history>>
  PROVE RefusedInv'
  <2>1. \A w \in Services : Adopted(w)' <=> Adopted(w)
    BY <1>8 DEF StopService, Adopted, Owner
  <2>2. /\ call' = call /\ verdict' = verdict /\ stop' = [stop EXCEPT ![v] = "signalled"]
        /\ stopping' = [stopping EXCEPT ![v] = TRUE] /\ stop[v] = "none"
    BY <1>8 DEF StopService
  <2> QED
    BY <2>1, <2>2
<1>9. ASSUME NEW v \in Services, StopEnds(v), UNCHANGED <<scopeVars, loopVars, crashed, history>>
  PROVE RefusedInv'
  <2>1. \A w \in Services : Adopted(w)' <=> Adopted(w)
    BY <1>9 DEF StopEnds, Adopted, Owner
  <2>2. /\ call' = call /\ verdict' = verdict /\ stopping' = stopping
        /\ \E x \in {"stopped", "failed"} : stop' = [stop EXCEPT ![v] = x]
    BY <1>9 DEF StopEnds
  <2> QED
    BY <2>1, <2>2
<1>10. ASSUME NEW v \in Services, ServiceReady(v), UNCHANGED <<loopVars, crashed, history>>
  PROVE RefusedInv'
  <2>1. \A w \in Services : Adopted(w)' <=> Adopted(w)
    BY <1>10 DEF ServiceReady, Adopted, Owner, ServiceReturns, FailService
  <2>2. /\ stopping' = stopping /\ verdict' = verdict /\ stop' = stop
        /\ call[v] = "polling" /\ call' = [call EXCEPT ![v] = "returned"]
    BY <1>10 DEF ServiceReady, ServiceReturns, FailService
  <2>3. Adopted(v)
    BY <2>2 DEF AdoptInv
  <2> QED
    BY <2>1, <2>2, <2>3
<1>11. CASE UNCHANGED vars \/ (\E s \in Scopes : \E c \in Scopes : ((Open(s, c) \/ OpenItem(s, c) \/
  Go(s, c) \/ PlanTask(s, c)) /\ ScopeOnly)) \/ (\E s \in Scopes : \E k \in {"command", "turn"} :
  (StartCall(s, k) /\ ScopeOnly)) \/ (\E s \in Scopes : ((CallReturns(s) \/ Wait(s) \/ Begin(s) \/
  Finish(s) \/ FinishItem(s) \/ FinishTask(s) \/ PlanEnds(s) \/ TearWork(s) \/ TearDone(s)) /\
  ScopeOnly) \/ ((Return(s) \/ Joined(s)) /\ UNCHANGED <<serviceVars, loopVars, crashed, aborted,
  killed, kills>>) \/ (Attach(s) /\ UNCHANGED <<serviceVars, queue, record, crashed, history>>) \/
  (FinishChild(s) /\ UNCHANGED <<serviceVars, loopVars, crashed, cut, killed, kills>>) \/
  (PlanNext(s) /\ UNCHANGED <<serviceVars, crashed, history>>) \/ (StoreTask(s) /\ UNCHANGED
  <<serviceVars, loopVars, history>>) \/ (EndLoop(s) /\ UNCHANGED <<serviceVars, crashed, aborted,
  killed, kills>>) \/ (TearPanics(s) /\ UNCHANGED <<scopeVars, serviceVars, loopVars, history>>) \/
  (CancelScope(s) /\ UNCHANGED <<serviceVars, loopVars, crashed>>)) \/ (\E s \in Scopes : \E m \in
  Messages : (SteerLoop(s, m) /\ UNCHANGED <<scopeVars, serviceVars, crashed, history>>)) \/ (\E v
  \in Services : ((WaitDone(v) \/ ServiceExits(v)) /\ UNCHANGED scopeVars /\ UNCHANGED <<loopVars,
  crashed, history>>) \/ (Report(v) /\ UNCHANGED <<loopVars, crashed, history>>))
  <2>1. UNCHANGED <<services, call, stopping, verdict, stop>>
    BY <1>1, <1>11
  <2> QED
    BY <2>1 DEF Adopted, Owner
<1> HIDE DEF IInv, TypeOK, ServiceTypes, RefusedInv, ProcessInv, Settled
<1> QED
  BY <1>2, <1>3, <1>4, <1>5, <1>6, <1>7, <1>8, <1>9, <1>10, <1>11 DEF Next, Workflow, Body, Planner,
    Tear, Operator, ServiceStep, Stopping, Process

\* A scope ends in finish.
LEMMA StepEndMoves == IInv /\ [Next]_vars => EndMoves
<1> SUFFICES ASSUME IInv, [Next]_vars PROVE EndMoves
  OBVIOUS
<1>0. tree' = tree
  BY DEF Next, vars
<1>1. ASSUME UNCHANGED vars \/ (\E s \in Scopes : (TearStart(s) /\ UNCHANGED <<crashed, history>>)
  \/ ((TearWork(s) \/ TearDone(s)) /\ ScopeOnly) \/ (TearPanics(s) /\ UNCHANGED <<scopeVars,
  serviceVars, loopVars, history>>) \/ (CancelScope(s) /\ UNCHANGED <<serviceVars, loopVars,
  crashed>>)) \/ (\E s \in Scopes : \E m \in Messages : (SteerLoop(s, m) /\ UNCHANGED <<scopeVars,
  serviceVars, crashed, history>>)) \/ (\E v \in Services : ((AdoptService(v) \/ Classify(v) \/
  WaitDone(v) \/ ServiceExits(v)) /\ UNCHANGED scopeVars /\ UNCHANGED <<loopVars, crashed,
  history>>) \/ (Report(v) /\ UNCHANGED <<loopVars, crashed, history>>) \/ ((StopService(v) \/
  StopEnds(v)) /\ UNCHANGED <<scopeVars, loopVars, crashed, history>>))
  PROVE UNCHANGED <<at, err>>
  <2>1. ASSUME NEW s \in Scopes, ((TearWork(s) \/ TearDone(s)) /\ ScopeOnly) \/ (TearStart(s) /\
    UNCHANGED <<crashed, history>>) \/ (TearPanics(s) /\ UNCHANGED <<scopeVars, serviceVars,
    loopVars, history>>) \/ (CancelScope(s) /\ UNCHANGED <<serviceVars, loopVars, crashed>>)
    PROVE UNCHANGED <<at, err>>
    BY <2>1 DEF TearWork, ScopeOnly, serviceVars, loopVars, history, TearDone, TearStart,
      TearPanics, scopeVars, CancelScope
  <2>2. ASSUME NEW s \in Scopes, NEW m \in Messages, (SteerLoop(s, m) /\ UNCHANGED <<scopeVars,
    serviceVars, crashed, history>>)
    PROVE UNCHANGED <<at, err>>
    BY <2>2 DEF SteerLoop, scopeVars, serviceVars, history
  <2>3. ASSUME NEW v \in Services, (Report(v) /\ UNCHANGED <<loopVars, crashed, history>>) \/
    ((StopService(v) \/ StopEnds(v)) /\ UNCHANGED <<scopeVars, loopVars, crashed, history>>) \/
    ((AdoptService(v) \/ Classify(v) \/ WaitDone(v) \/ ServiceExits(v)) /\ UNCHANGED scopeVars /\
    UNCHANGED <<loopVars, crashed, history>>)
    PROVE UNCHANGED <<at, err>>
    BY <2>3 DEF Report, loopVars, history, FailService, StopService, scopeVars, StopEnds,
      AdoptService, Classify, WaitDone, ServiceExits
  <2> QED
    BY <1>1, <2>1, <2>2, <2>3 DEF vars, scopeVars, serviceVars, loopVars, history
<1> USE <1>0, Shape DEF IInv, TypeOK, BodyTypes, BodyInv, EndMoves, Active, Begun, Parent, Kind
<1>2. ASSUME NEW s \in Scopes, NEW c \in Scopes, Open(s, c), ScopeOnly PROVE EndMoves
  BY <1>2 DEF Open, ScopeOnly, serviceVars, loopVars, history, Running
<1>3. ASSUME NEW s \in Scopes, NEW c \in Scopes, OpenItem(s, c), ScopeOnly PROVE EndMoves
  BY <1>3 DEF OpenItem, ScopeOnly, serviceVars, loopVars, history, Running
<1>4. ASSUME NEW s \in Scopes, NEW c \in Scopes, Go(s, c), ScopeOnly PROVE EndMoves
  BY <1>4 DEF Go, ScopeOnly, serviceVars, loopVars, history, Attached
<1>5. ASSUME NEW s \in Scopes, NEW k \in {"command", "turn"}, StartCall(s, k), ScopeOnly
  PROVE EndMoves
  BY <1>5 DEF StartCall, ScopeOnly, serviceVars, loopVars, history, Running
<1>6. ASSUME NEW s \in Scopes, CallReturns(s), ScopeOnly PROVE EndMoves
  BY <1>6 DEF CallReturns, ScopeOnly, serviceVars, loopVars, history
<1>7. ASSUME NEW s \in Scopes, Wait(s), ScopeOnly PROVE EndMoves
  BY <1>7 DEF Wait, ScopeOnly, serviceVars, loopVars, history
<1>8. ASSUME NEW s \in Scopes, Return(s), UNCHANGED <<serviceVars, loopVars, crashed, aborted,
  killed, kills>>
  PROVE EndMoves
  BY <1>8 DEF Return, serviceVars, loopVars, Running, Returned
<1>9. ASSUME NEW s \in Scopes, NEW v \in Services, StartService(s, v), UNCHANGED <<loopVars,
  crashed, history>>
  PROVE EndMoves
  BY <1>9 DEF StartService, loopVars, history, Running
<1>10. ASSUME NEW s \in Scopes, Attach(s), UNCHANGED <<serviceVars, queue, record, crashed,
  history>>
  PROVE EndMoves
  BY <1>10 DEF Attach, serviceVars, history, Attached
<1>11. ASSUME NEW s \in Scopes, Begin(s), ScopeOnly PROVE EndMoves
  BY <1>11 DEF Begin, ScopeOnly, serviceVars, loopVars, history
<1>12. ASSUME NEW s \in Scopes, Finish(s), ScopeOnly PROVE EndMoves
  BY <1>12 DEF Finish, ScopeOnly, serviceVars, loopVars, history
<1>13. ASSUME NEW s \in Scopes, FinishItem(s), ScopeOnly PROVE EndMoves
  BY <1>13 DEF FinishItem, ScopeOnly, serviceVars, loopVars, history, FailService
<1>14. ASSUME NEW s \in Scopes, FinishTask(s), ScopeOnly PROVE EndMoves
  BY <1>14 DEF FinishTask, ScopeOnly, serviceVars, loopVars, history
<1>15. ASSUME NEW s \in Scopes, FinishChild(s), UNCHANGED <<serviceVars, loopVars, crashed, cut,
  killed, kills>>
  PROVE EndMoves
  BY <1>15 DEF FinishChild, serviceVars, loopVars
<1>16. ASSUME NEW s \in Scopes, Joined(s), UNCHANGED <<serviceVars, loopVars, crashed, aborted,
  killed, kills>>
  PROVE EndMoves
  BY <1>16 DEF Joined, serviceVars, loopVars, Returned
<1>17. ASSUME NEW s \in Scopes, PlanNext(s), UNCHANGED <<serviceVars, crashed, history>>
  PROVE EndMoves
  BY <1>17 DEF PlanNext, serviceVars, history
<1>18. ASSUME NEW s \in Scopes, StoreTask(s), UNCHANGED <<serviceVars, loopVars, history>>
  PROVE EndMoves
  BY <1>18 DEF StoreTask, serviceVars, loopVars, history
<1>19. ASSUME NEW s \in Scopes, EndLoop(s), UNCHANGED <<serviceVars, crashed, aborted, killed,
  kills>>
  PROVE EndMoves
  BY <1>19 DEF EndLoop, serviceVars, loopVars, Returned
<1>20. ASSUME NEW s \in Scopes, PlanEnds(s), ScopeOnly PROVE EndMoves
  BY <1>20 DEF PlanEnds, ScopeOnly, serviceVars, loopVars, history
<1>21. ASSUME NEW s \in Scopes, NEW c \in Scopes, PlanTask(s, c), ScopeOnly PROVE EndMoves
  BY <1>21 DEF PlanTask, ScopeOnly, serviceVars, loopVars, history, Attached
<1>22. ASSUME NEW v \in Services, ServiceUnready(v), UNCHANGED <<loopVars, crashed, history>>
  PROVE EndMoves
  BY <1>22, InService DEF ServiceUnready, loopVars, history, ServiceReturns, InCall
<1>23. ASSUME NEW v \in Services, ServiceRefused(v), UNCHANGED <<loopVars, crashed, history>>
  PROVE EndMoves
  BY <1>23, InService DEF ServiceRefused, loopVars, history, ServiceReturns, InCall
<1>24. ASSUME NEW v \in Services, ServiceReady(v), UNCHANGED <<loopVars, crashed, history>>
  PROVE EndMoves
  BY <1>24, InService DEF ServiceReady, loopVars, history, ServiceReturns, FailService, InCall
<1>25. CASE UNCHANGED vars \/ (\E s \in Scopes : (TearStart(s) /\ UNCHANGED <<crashed, history>>) \/
  ((TearWork(s) \/ TearDone(s)) /\ ScopeOnly) \/ (TearPanics(s) /\ UNCHANGED <<scopeVars,
  serviceVars, loopVars, history>>) \/ (CancelScope(s) /\ UNCHANGED <<serviceVars, loopVars,
  crashed>>)) \/ (\E s \in Scopes : \E m \in Messages : (SteerLoop(s, m) /\ UNCHANGED <<scopeVars,
  serviceVars, crashed, history>>)) \/ (\E v \in Services : ((AdoptService(v) \/ Classify(v) \/
  WaitDone(v) \/ ServiceExits(v)) /\ UNCHANGED scopeVars /\ UNCHANGED <<loopVars, crashed,
  history>>) \/ (Report(v) /\ UNCHANGED <<loopVars, crashed, history>>) \/ ((StopService(v) \/
  StopEnds(v)) /\ UNCHANGED <<scopeVars, loopVars, crashed, history>>))
  BY <1>1, <1>25
<1> HIDE DEF IInv, TypeOK, BodyTypes, BodyInv, EndMoves, Active, Begun, Parent, Kind
<1> QED
  BY <1>2, <1>3, <1>4, <1>5, <1>6, <1>7, <1>8, <1>9, <1>10, <1>11, <1>12, <1>13, <1>14, <1>15,
    <1>16, <1>17, <1>18, <1>19, <1>20, <1>21, <1>22, <1>23, <1>24, <1>25 DEF Next, Workflow, Body,
    Planner, Tear, Operator, ServiceStep, Stopping, Process

\* Services are stopped in order.
LEMMA StepStop == IInv /\ [Next]_vars => StopInv'
<1> SUFFICES ASSUME IInv, [Next]_vars PROVE StopInv'
  OBVIOUS
<1>0. tree' = tree
  BY DEF Next, vars
<1>1. ASSUME UNCHANGED vars \/ (\E s \in Scopes : \E c \in Scopes : ((Open(s, c) \/ OpenItem(s, c)
  \/ Go(s, c) \/ PlanTask(s, c)) /\ ScopeOnly)) \/ (\E s \in Scopes : \E k \in {"command", "turn"} :
  (StartCall(s, k) /\ ScopeOnly)) \/ (\E s \in Scopes : ((CallReturns(s) \/ Wait(s) \/ Begin(s) \/
  Finish(s) \/ FinishItem(s) \/ FinishTask(s) \/ PlanEnds(s)) /\ ScopeOnly) \/ ((Return(s) \/
  Joined(s)) /\ UNCHANGED <<serviceVars, loopVars, crashed, aborted, killed, kills>>) \/ (Attach(s)
  /\ UNCHANGED <<serviceVars, queue, record, crashed, history>>) \/ (FinishChild(s) /\ UNCHANGED
  <<serviceVars, loopVars, crashed, cut, killed, kills>>) \/ (PlanNext(s) /\ UNCHANGED
  <<serviceVars, crashed, history>>) \/ (StoreTask(s) /\ UNCHANGED <<serviceVars, loopVars,
  history>>) \/ (EndLoop(s) /\ UNCHANGED <<serviceVars, crashed, aborted, killed, kills>>) \/
  (TearPanics(s) /\ UNCHANGED <<scopeVars, serviceVars, loopVars, history>>) \/ (CancelScope(s) /\
  UNCHANGED <<serviceVars, loopVars, crashed>>)) \/ (\E s \in Scopes : \E v \in Services :
  (StartService(s, v) /\ UNCHANGED <<loopVars, crashed, history>>)) \/ (\E s \in Scopes : \E m \in
  Messages : (SteerLoop(s, m) /\ UNCHANGED <<scopeVars, serviceVars, crashed, history>>)) \/ (\E v
  \in Services : ((Classify(v) \/ WaitDone(v) \/ ServiceExits(v)) /\ UNCHANGED scopeVars /\
  UNCHANGED <<loopVars, crashed, history>>) \/ ((ServiceUnready(v) \/ ServiceRefused(v) \/ Report(v)
  \/ ServiceReady(v)) /\ UNCHANGED <<loopVars, crashed, history>>))
  PROVE UNCHANGED <<services, stop, tear, endErr>>
  <2>1. ASSUME NEW s \in Scopes, NEW c \in Scopes, ((Open(s, c) \/ OpenItem(s, c) \/ Go(s, c) \/
    PlanTask(s, c)) /\ ScopeOnly)
    PROVE UNCHANGED <<services, stop, tear, endErr>>
    BY <2>1 DEF Open, ScopeOnly, serviceVars, loopVars, history, Running, OpenItem, Go, Attached,
      PlanTask
  <2>2. ASSUME NEW s \in Scopes, NEW k \in {"command", "turn"}, (StartCall(s, k) /\ ScopeOnly)
    PROVE UNCHANGED <<services, stop, tear, endErr>>
    BY <2>2 DEF StartCall, ScopeOnly, serviceVars, loopVars, history, Running
  <2>3. ASSUME NEW s \in Scopes, ((CallReturns(s) \/ Wait(s) \/ Begin(s) \/ Finish(s) \/
    FinishItem(s) \/ FinishTask(s) \/ PlanEnds(s)) /\ ScopeOnly) \/ (TearPanics(s) /\ UNCHANGED
    <<scopeVars, serviceVars, loopVars, history>>) \/ (EndLoop(s) /\ UNCHANGED <<serviceVars,
    crashed, aborted, killed, kills>>)
    PROVE UNCHANGED <<services, stop, tear, endErr>>
    BY <2>3 DEF CallReturns, ScopeOnly, serviceVars, loopVars, history, Wait, Begin, Finish,
      FinishItem, FailService, FinishTask, PlanEnds, TearPanics, scopeVars, EndLoop, Returned
  <2>4. ASSUME NEW s \in Scopes, (PlanNext(s) /\ UNCHANGED <<serviceVars, crashed, history>>) \/
    ((Return(s) \/ Joined(s)) /\ UNCHANGED <<serviceVars, loopVars, crashed, aborted, killed,
    kills>>) \/ (FinishChild(s) /\ UNCHANGED <<serviceVars, loopVars, crashed, cut, killed, kills>>)
    \/ (CancelScope(s) /\ UNCHANGED <<serviceVars, loopVars, crashed>>) \/ (StoreTask(s) /\
    UNCHANGED <<serviceVars, loopVars, history>>) \/ (Attach(s) /\ UNCHANGED <<serviceVars, queue,
    record, crashed, history>>)
    PROVE UNCHANGED <<services, stop, tear, endErr>>
    BY <2>4 DEF PlanNext, serviceVars, history, Return, loopVars, Running, Returned, Joined,
      FinishChild, CancelScope, StoreTask, Attach, Attached
  <2>5. ASSUME NEW s \in Scopes, NEW v \in Services, (StartService(s, v) /\ UNCHANGED <<loopVars,
    crashed, history>>)
    PROVE UNCHANGED <<services, stop, tear, endErr>>
    BY <2>5 DEF StartService, loopVars, history, Running
  <2>6. ASSUME NEW s \in Scopes, NEW m \in Messages, (SteerLoop(s, m) /\ UNCHANGED <<scopeVars,
    serviceVars, crashed, history>>)
    PROVE UNCHANGED <<services, stop, tear, endErr>>
    BY <2>6 DEF SteerLoop, scopeVars, serviceVars, history
  <2>7. ASSUME NEW v \in Services, ((ServiceUnready(v) \/ ServiceRefused(v) \/ Report(v) \/
    ServiceReady(v)) /\ UNCHANGED <<loopVars, crashed, history>>) \/ ((Classify(v) \/ WaitDone(v) \/
    ServiceExits(v)) /\ UNCHANGED scopeVars /\ UNCHANGED <<loopVars, crashed, history>>)
    PROVE UNCHANGED <<services, stop, tear, endErr>>
    BY <2>7 DEF ServiceUnready, loopVars, history, ServiceReturns, ServiceRefused, Report,
      FailService, ServiceReady, Classify, scopeVars, WaitDone, ServiceExits
  <2> QED
    BY <1>1, <2>1, <2>2, <2>3, <2>4, <2>5, <2>6, <2>7 DEF vars, scopeVars, serviceVars, loopVars,
      history
<1> USE <1>0, Taken DEF IInv, TypeOK, ServiceTypes, TearTypes, StopInv, Settled
<1>2. ASSUME NEW s \in Scopes, TearStart(s), UNCHANGED <<crashed, history>> PROVE StopInv'
  BY <1>2 DEF TearStart, history
<1>3. ASSUME NEW s \in Scopes, TearWork(s), ScopeOnly PROVE StopInv'
  BY <1>3 DEF TearWork, ScopeOnly, serviceVars, loopVars, history
<1>4. ASSUME NEW s \in Scopes, TearDone(s), ScopeOnly PROVE StopInv'
  <2>1. /\ tear[s] = "services" /\ tear' = [tear EXCEPT ![s] = "done"] /\ UNCHANGED <<services, stop>>
        /\ endErr' = [endErr EXCEPT ![s] = endErr[s] \/ \E v \in ToSet(services[s]) : stop[v] = "failed"]
        /\ \A v \in ToSet(services[s]) : stop[v] \in {"stopped", "failed"}
    BY <1>4 DEF TearDone, ScopeOnly, serviceVars
  <2>2. \A i \in DOMAIN services[s] : services[s][i] \in ToSet(services[s])
    BY DEF ToSet
  <2>3. ASSUME NEW i \in DOMAIN services[s]
        PROVE  /\ stop[services[s][i]] \in {"stopped", "failed"}
               /\ stop[services[s][i]] = "failed" => endErr'[s]
    <3>1. stop[services[s][i]] \in {"stopped", "failed"}
      BY <2>1, <2>2
    <3>2. endErr'[s] = (endErr[s] \/ \E v \in ToSet(services[s]) : stop[v] = "failed")
      BY <2>1
    <3> QED
      BY <2>2, <3>1, <3>2
  <2>4. tear'[s] = "done" /\ \A x \in Scopes : x # s => tear'[x] = tear[x] /\ endErr'[x] = endErr[x]
    BY <2>1
  <2> QED
    BY <2>1, <2>3, <2>4
<1>5. ASSUME NEW v \in Services, AdoptService(v), UNCHANGED scopeVars, UNCHANGED <<loopVars,
  crashed, history>>
  PROVE StopInv'
  <2>1. UNCHANGED <<stop, tear, endErr>> /\ stop[v] = "none"
    BY <1>5, AdoptEffect DEF AdoptService, scopeVars
  <2>2. CASE Adopts(Owner(v))
    <3> DEFINE o == Owner(v)
    <3>1. /\ o \in Scopes /\ tear[o] = "idle"
          /\ \A i \in DOMAIN services'[o] : i \in DOMAIN services[o] \/ services'[o][i] = v
          /\ \A i \in DOMAIN services[o] : services'[o][i] = services[o][i]
          /\ \A s \in Scopes : s # o => services'[s] = services[s]
      BY <1>5, <2>2, AdoptEffect
    <3>2. \A i \in DOMAIN services[o] : stop[services[o][i]] = "none"
      BY <3>1
    <3>3. ASSUME NEW i \in DOMAIN services'[o] PROVE stop[services'[o][i]] = "none"
      <4>1. CASE i \in DOMAIN services[o]
        <5>1. services'[o][i] = services[o][i] /\ stop[services[o][i]] = "none"
          BY <3>1, <3>2, <4>1
        <5> QED
          BY <5>1
      <4>2. CASE i \notin DOMAIN services[o]
        <5>1. services'[o][i] = v
          BY <3>1, <4>2
        <5> QED
          BY <2>1, <5>1
      <4> QED
        BY <4>1, <4>2
    <3>4. ASSUME NEW s \in Scopes PROVE (s = o => tear[s] = "idle") /\ (s # o => services'[s] = services[s])
      BY <3>1
    <3>5. ASSUME NEW s \in Scopes, NEW i \in DOMAIN services'[s], stop[services'[s][i]] # "none"
          PROVE  /\ tear[s] \in {"services", "done"}
                 /\ \A j \in DOMAIN services'[s] : i < j => stop[services'[s][j]] \in {"stopped", "failed"}
      <4>1. s # o
        BY <3>3, <3>5
      <4>2. services'[s] = services[s]
        BY <3>4, <4>1
      <4> QED
        BY <3>5, <4>2
    <3>6. ASSUME NEW s \in Scopes, tear[s] = "done", NEW i \in DOMAIN services'[s]
          PROVE  /\ stop[services'[s][i]] \in {"stopped", "failed"}
                 /\ stop[services'[s][i]] = "failed" => endErr[s]
      <4>1. services'[s] = services[s]
        BY <3>4, <3>6
      <4> QED
        BY <3>6, <4>1
    <3> QED
      BY <2>1, <3>5, <3>6
  <2>3. CASE ~Adopts(Owner(v))
    BY <1>5, <2>1, <2>3, AdoptEffect
  <2> QED
    BY <2>2, <2>3
<1>6. ASSUME NEW v \in Services, StopService(v), UNCHANGED <<scopeVars, loopVars, crashed, history>>
  PROVE StopInv'
  <2>1. stop[v] = "none" /\ stop' = [stop EXCEPT ![v] = "signalled"] /\ UNCHANGED <<services, tear, endErr>>
    BY <1>6 DEF StopService, scopeVars
  <2>2. ASSUME NEW s \in Scopes, NEW i \in DOMAIN services[s], services[s][i] = v
        PROVE  /\ tear[s] = "services"
               /\ \A j \in DOMAIN services[s] : i < j => stop[services[s][j]] \in {"stopped", "failed"}
    <3>1. Owner(v) = s /\ Adopted(v)
      BY <2>2
    <3>2. call[v] # "refused" /\ tear[s] = "services"
      BY <1>6, <3>1, StopCall
    <3> QED
      BY <1>6, <2>2, <3>1, <3>2 DEF StopService, StopCalled
  <2> QED
    BY <2>1, <2>2
<1>7. ASSUME NEW v \in Services, StopEnds(v), UNCHANGED <<scopeVars, loopVars, crashed, history>>
  PROVE StopInv'
  <2>1. /\ UNCHANGED <<services, tear, endErr>> /\ stop[v] = "signalled" /\ stop'[v] \in {"stopped", "failed"}
        /\ \A w \in Services : w # v => stop'[w] = stop[w]
    BY <1>7 DEF StopEnds, scopeVars
  <2>2. ASSUME NEW s \in Scopes, tear[s] = "done", NEW i \in DOMAIN services[s] PROVE services[s][i] # v
    BY <2>1, <2>2
  <2>3. \A w \in Services : (stop'[w] # "none" => stop[w] # "none") /\ (Settled(w) => Settled(w)')
    BY <2>1
  <2> QED
    BY <2>1, <2>2, <2>3
<1>8. CASE UNCHANGED vars \/ (\E s \in Scopes : \E c \in Scopes : ((Open(s, c) \/ OpenItem(s, c) \/
  Go(s, c) \/ PlanTask(s, c)) /\ ScopeOnly)) \/ (\E s \in Scopes : \E k \in {"command", "turn"} :
  (StartCall(s, k) /\ ScopeOnly)) \/ (\E s \in Scopes : ((CallReturns(s) \/ Wait(s) \/ Begin(s) \/
  Finish(s) \/ FinishItem(s) \/ FinishTask(s) \/ PlanEnds(s)) /\ ScopeOnly) \/ ((Return(s) \/
  Joined(s)) /\ UNCHANGED <<serviceVars, loopVars, crashed, aborted, killed, kills>>) \/ (Attach(s)
  /\ UNCHANGED <<serviceVars, queue, record, crashed, history>>) \/ (FinishChild(s) /\ UNCHANGED
  <<serviceVars, loopVars, crashed, cut, killed, kills>>) \/ (PlanNext(s) /\ UNCHANGED
  <<serviceVars, crashed, history>>) \/ (StoreTask(s) /\ UNCHANGED <<serviceVars, loopVars,
  history>>) \/ (EndLoop(s) /\ UNCHANGED <<serviceVars, crashed, aborted, killed, kills>>) \/
  (TearPanics(s) /\ UNCHANGED <<scopeVars, serviceVars, loopVars, history>>) \/ (CancelScope(s) /\
  UNCHANGED <<serviceVars, loopVars, crashed>>)) \/ (\E s \in Scopes : \E v \in Services :
  (StartService(s, v) /\ UNCHANGED <<loopVars, crashed, history>>)) \/ (\E s \in Scopes : \E m \in
  Messages : (SteerLoop(s, m) /\ UNCHANGED <<scopeVars, serviceVars, crashed, history>>)) \/ (\E v
  \in Services : ((Classify(v) \/ WaitDone(v) \/ ServiceExits(v)) /\ UNCHANGED scopeVars /\
  UNCHANGED <<loopVars, crashed, history>>) \/ ((ServiceUnready(v) \/ ServiceRefused(v) \/ Report(v)
  \/ ServiceReady(v)) /\ UNCHANGED <<loopVars, crashed, history>>))
  BY <1>1, <1>8
<1> HIDE DEF IInv, TypeOK, ServiceTypes, TearTypes, StopInv, Settled
<1> QED
  BY <1>2, <1>3, <1>4, <1>5, <1>6, <1>7, <1>8 DEF Next, Workflow, Body, Planner, Tear, Operator,
    ServiceStep, Stopping, Process

\* When its scope has ended, stopping a service has come to an end.
LEMMA SettledAtEnd ==
  ASSUME IInv, NEW v \in Services, call[v] # "none", Owner(v) \in Scopes, at[Owner(v)] = "ended"
  PROVE  Settled(v)
<1>1. call \in [Services -> {"none", "started", "refused", "polling", "returned"}]
  BY DEF IInv, TypeOK, ServiceTypes
<1>2. call[v] = "returned"
  BY <1>1 DEF IInv, CallInv, InCall
<1>3. CASE Adopted(v)
  <2>1. PICK i \in DOMAIN services[Owner(v)] : services[Owner(v)][i] = v
    BY <1>3 DEF Adopted, ToSet
  <2> QED
    BY <2>1 DEF IInv, EndInv, StopInv
<1>4. CASE ~Adopted(v)
  BY <1>2, <1>4 DEF IInv, RefusedInv
<1> QED
  BY <1>3, <1>4

\* The error tells.
LEMMA StepEnd == IInv /\ [Next]_vars => EndInv'
<1> SUFFICES ASSUME IInv, [Next]_vars PROVE EndInv'
  OBVIOUS
<1>0. tree' = tree
  BY DEF Next, vars
<1>1. ASSUME UNCHANGED vars \/ (\E s \in Scopes : \E c \in Scopes : ((Open(s, c) \/ OpenItem(s, c)
  \/ Go(s, c) \/ PlanTask(s, c)) /\ ScopeOnly)) \/ (\E s \in Scopes : \E k \in {"command", "turn"} :
  (StartCall(s, k) /\ ScopeOnly)) \/ (\E s \in Scopes : ((CallReturns(s) \/ Wait(s) \/ Begin(s) \/
  Finish(s) \/ FinishItem(s) \/ FinishTask(s) \/ PlanEnds(s)) /\ ScopeOnly) \/ ((Return(s) \/
  Joined(s)) /\ UNCHANGED <<serviceVars, loopVars, crashed, aborted, killed, kills>>) \/ (Attach(s)
  /\ UNCHANGED <<serviceVars, queue, record, crashed, history>>) \/ (FinishChild(s) /\ UNCHANGED
  <<serviceVars, loopVars, crashed, cut, killed, kills>>) \/ (PlanNext(s) /\ UNCHANGED
  <<serviceVars, crashed, history>>) \/ (StoreTask(s) /\ UNCHANGED <<serviceVars, loopVars,
  history>>) \/ (EndLoop(s) /\ UNCHANGED <<serviceVars, crashed, aborted, killed, kills>>) \/
  (TearPanics(s) /\ UNCHANGED <<scopeVars, serviceVars, loopVars, history>>) \/ (CancelScope(s) /\
  UNCHANGED <<serviceVars, loopVars, crashed>>)) \/ (\E s \in Scopes : \E v \in Services :
  (StartService(s, v) /\ UNCHANGED <<loopVars, crashed, history>>)) \/ (\E s \in Scopes : \E m \in
  Messages : (SteerLoop(s, m) /\ UNCHANGED <<scopeVars, serviceVars, crashed, history>>)) \/ (\E v
  \in Services : ((WaitDone(v) \/ ServiceExits(v)) /\ UNCHANGED scopeVars /\ UNCHANGED <<loopVars,
  crashed, history>>) \/ ((ServiceUnready(v) \/ ServiceRefused(v) \/ Report(v) \/ ServiceReady(v))
  /\ UNCHANGED <<loopVars, crashed, history>>))
  PROVE UNCHANGED <<services, stop, tear, verdict>>
  <2>1. ASSUME NEW s \in Scopes, NEW c \in Scopes, ((Open(s, c) \/ OpenItem(s, c) \/ Go(s, c) \/
    PlanTask(s, c)) /\ ScopeOnly)
    PROVE UNCHANGED <<services, stop, tear, verdict>>
    BY <2>1 DEF Open, ScopeOnly, serviceVars, loopVars, history, Running, OpenItem, Go, Attached,
      PlanTask
  <2>2. ASSUME NEW s \in Scopes, NEW k \in {"command", "turn"}, (StartCall(s, k) /\ ScopeOnly)
    PROVE UNCHANGED <<services, stop, tear, verdict>>
    BY <2>2 DEF StartCall, ScopeOnly, serviceVars, loopVars, history, Running
  <2>3. ASSUME NEW s \in Scopes, ((CallReturns(s) \/ Wait(s) \/ Begin(s) \/ Finish(s) \/
    FinishItem(s) \/ FinishTask(s) \/ PlanEnds(s)) /\ ScopeOnly) \/ (TearPanics(s) /\ UNCHANGED
    <<scopeVars, serviceVars, loopVars, history>>) \/ (EndLoop(s) /\ UNCHANGED <<serviceVars,
    crashed, aborted, killed, kills>>)
    PROVE UNCHANGED <<services, stop, tear, verdict>>
    BY <2>3 DEF CallReturns, ScopeOnly, serviceVars, loopVars, history, Wait, Begin, Finish,
      FinishItem, FailService, FinishTask, PlanEnds, TearPanics, scopeVars, EndLoop, Returned
  <2>4. ASSUME NEW s \in Scopes, (PlanNext(s) /\ UNCHANGED <<serviceVars, crashed, history>>) \/
    ((Return(s) \/ Joined(s)) /\ UNCHANGED <<serviceVars, loopVars, crashed, aborted, killed,
    kills>>) \/ (FinishChild(s) /\ UNCHANGED <<serviceVars, loopVars, crashed, cut, killed, kills>>)
    \/ (CancelScope(s) /\ UNCHANGED <<serviceVars, loopVars, crashed>>) \/ (StoreTask(s) /\
    UNCHANGED <<serviceVars, loopVars, history>>) \/ (Attach(s) /\ UNCHANGED <<serviceVars, queue,
    record, crashed, history>>)
    PROVE UNCHANGED <<services, stop, tear, verdict>>
    BY <2>4 DEF PlanNext, serviceVars, history, Return, loopVars, Running, Returned, Joined,
      FinishChild, CancelScope, StoreTask, Attach, Attached
  <2>5. ASSUME NEW s \in Scopes, NEW v \in Services, (StartService(s, v) /\ UNCHANGED <<loopVars,
    crashed, history>>)
    PROVE UNCHANGED <<services, stop, tear, verdict>>
    BY <2>5 DEF StartService, loopVars, history, Running
  <2>6. ASSUME NEW s \in Scopes, NEW m \in Messages, (SteerLoop(s, m) /\ UNCHANGED <<scopeVars,
    serviceVars, crashed, history>>)
    PROVE UNCHANGED <<services, stop, tear, verdict>>
    BY <2>6 DEF SteerLoop, scopeVars, serviceVars, history
  <2>7. ASSUME NEW v \in Services, ((ServiceUnready(v) \/ ServiceRefused(v) \/ Report(v) \/
    ServiceReady(v)) /\ UNCHANGED <<loopVars, crashed, history>>) \/ ((WaitDone(v) \/
    ServiceExits(v)) /\ UNCHANGED scopeVars /\ UNCHANGED <<loopVars, crashed, history>>)
    PROVE UNCHANGED <<services, stop, tear, verdict>>
    BY <2>7 DEF ServiceUnready, loopVars, history, ServiceReturns, ServiceRefused, Report,
      FailService, ServiceReady, WaitDone, scopeVars, ServiceExits
  <2> QED
    BY <1>1, <2>1, <2>2, <2>3, <2>4, <2>5, <2>6, <2>7 DEF vars, scopeVars, serviceVars, loopVars,
      history
<1> USE <1>0, Taken, Errors DEF IInv, TypeOK, TearTypes, BodyTypes, ServiceTypes, StopInv,
  ProcessInv, EndInv, Settled, Owner
<1>a. AtMoves /\ EndMoves
  BY StepAtMoves, StepEndMoves
<1> USE <1>a DEF AtMoves, EndMoves
<1>2. ASSUME NEW s \in Scopes, TearStart(s), UNCHANGED <<crashed, history>> PROVE EndInv'
  BY <1>2 DEF TearStart, history
<1>3. ASSUME NEW s \in Scopes, TearWork(s), ScopeOnly PROVE EndInv'
  BY <1>3 DEF TearWork, ScopeOnly, serviceVars, loopVars, history
<1>4. ASSUME NEW s \in Scopes, TearDone(s), ScopeOnly PROVE EndInv'
  BY <1>4 DEF TearDone, ScopeOnly, serviceVars, loopVars, history
<1>5. ASSUME NEW v \in Services, AdoptService(v), UNCHANGED scopeVars, UNCHANGED <<loopVars,
  crashed, history>>
  PROVE EndInv'
  <2>1. UNCHANGED <<at, stop, tear, verdict, err>>
    BY <1>5 DEF AdoptService, scopeVars
  <2>2. ASSUME NEW s \in Scopes, at[s] = "ended" PROVE services'[s] = services[s]
    <3> HIDE DEF IInv, TypeOK, TearTypes, BodyTypes, ServiceTypes, StopInv, ProcessInv, EndInv, Settled, Owner
    <3>1. Owner(v) # s
      BY <1>5, <2>2, AdoptEffect
    <3>2. CASE Adopts(Owner(v))
      BY <1>5, <3>1, <3>2, AdoptEffect
    <3>3. CASE ~Adopts(Owner(v))
      BY <1>5, <3>3, AdoptEffect
    <3> QED
      BY <3>2, <3>3
  <2> QED
    BY <2>1, <2>2
<1>6. ASSUME NEW v \in Services, Classify(v), UNCHANGED scopeVars, UNCHANGED <<loopVars, crashed,
  history>>
  PROVE EndInv'
  BY <1>6 DEF Classify, scopeVars, loopVars, history
<1>7. ASSUME NEW v \in Services, StopService(v), UNCHANGED <<scopeVars, loopVars, crashed, history>>
  PROVE EndInv'
  BY <1>7 DEF StopService, scopeVars, loopVars, history
<1>8. ASSUME NEW v \in Services, StopEnds(v), UNCHANGED <<scopeVars, loopVars, crashed, history>>
  PROVE EndInv'
  <2>1. /\ UNCHANGED <<at, tear, err, services, verdict>> /\ stop[v] = "signalled"
        /\ \A w \in Services : w # v => stop'[w] = stop[w]
    BY <1>8 DEF StopEnds, scopeVars
  <2>2. call[v] # "none" /\ Owner(v) \in Scopes
    BY <2>1, Opened
  <2>3. at[Owner(v)] # "ended"
    BY <2>1, <2>2, SettledAtEnd
  <2>4. \A s \in Scopes : at[s] = "ended" => \A i \in DOMAIN services[s] : stop'[services[s][i]] = stop[services[s][i]]
    BY <2>1, <2>3
  <2> QED
    BY <2>1, <2>3, <2>4 DEF Owner
<1>9. CASE UNCHANGED vars \/ (\E s \in Scopes : \E c \in Scopes : ((Open(s, c) \/ OpenItem(s, c) \/
  Go(s, c) \/ PlanTask(s, c)) /\ ScopeOnly)) \/ (\E s \in Scopes : \E k \in {"command", "turn"} :
  (StartCall(s, k) /\ ScopeOnly)) \/ (\E s \in Scopes : ((CallReturns(s) \/ Wait(s) \/ Begin(s) \/
  Finish(s) \/ FinishItem(s) \/ FinishTask(s) \/ PlanEnds(s)) /\ ScopeOnly) \/ ((Return(s) \/
  Joined(s)) /\ UNCHANGED <<serviceVars, loopVars, crashed, aborted, killed, kills>>) \/ (Attach(s)
  /\ UNCHANGED <<serviceVars, queue, record, crashed, history>>) \/ (FinishChild(s) /\ UNCHANGED
  <<serviceVars, loopVars, crashed, cut, killed, kills>>) \/ (PlanNext(s) /\ UNCHANGED
  <<serviceVars, crashed, history>>) \/ (StoreTask(s) /\ UNCHANGED <<serviceVars, loopVars,
  history>>) \/ (EndLoop(s) /\ UNCHANGED <<serviceVars, crashed, aborted, killed, kills>>) \/
  (TearPanics(s) /\ UNCHANGED <<scopeVars, serviceVars, loopVars, history>>) \/ (CancelScope(s) /\
  UNCHANGED <<serviceVars, loopVars, crashed>>)) \/ (\E s \in Scopes : \E v \in Services :
  (StartService(s, v) /\ UNCHANGED <<loopVars, crashed, history>>)) \/ (\E s \in Scopes : \E m \in
  Messages : (SteerLoop(s, m) /\ UNCHANGED <<scopeVars, serviceVars, crashed, history>>)) \/ (\E v
  \in Services : ((WaitDone(v) \/ ServiceExits(v)) /\ UNCHANGED scopeVars /\ UNCHANGED <<loopVars,
  crashed, history>>) \/ ((ServiceUnready(v) \/ ServiceRefused(v) \/ Report(v) \/ ServiceReady(v))
  /\ UNCHANGED <<loopVars, crashed, history>>))
  BY <1>1, <1>9
<1> HIDE DEF IInv, TypeOK, TearTypes, BodyTypes, ServiceTypes, StopInv, ProcessInv, EndInv, Settled, Owner
<1> QED
  BY <1>2, <1>3, <1>4, <1>5, <1>6, <1>7, <1>8, <1>9 DEF Next, Workflow, Body, Planner, Tear,
    Operator, ServiceStep, Stopping, Process

\* A loop outlives its tasks.
LEMMA StepKill == IInv /\ [Next]_vars => KillInv'
<1> SUFFICES ASSUME IInv, [Next]_vars PROVE KillInv'
  OBVIOUS
<1>0. tree' = tree
  BY DEF Next, vars
<1>1. ASSUME UNCHANGED vars \/ (\E s \in Scopes : ((TearWork(s) \/ TearDone(s)) /\ ScopeOnly) \/
  (TearPanics(s) /\ UNCHANGED <<scopeVars, serviceVars, loopVars, history>>)) \/ (\E s \in Scopes :
  \E m \in Messages : (SteerLoop(s, m) /\ UNCHANGED <<scopeVars, serviceVars, crashed, history>>))
  \/ (\E v \in Services : ((AdoptService(v) \/ Classify(v) \/ WaitDone(v) \/ ServiceExits(v)) /\
  UNCHANGED scopeVars /\ UNCHANGED <<loopVars, crashed, history>>) \/ ((StopService(v) \/
  StopEnds(v)) /\ UNCHANGED <<scopeVars, loopVars, crashed, history>>))
  PROVE UNCHANGED <<at, err, cut, cause>>
  <2>1. ASSUME NEW s \in Scopes, ((TearWork(s) \/ TearDone(s)) /\ ScopeOnly) \/ (TearPanics(s) /\
    UNCHANGED <<scopeVars, serviceVars, loopVars, history>>)
    PROVE UNCHANGED <<at, err, cut, cause>>
    BY <2>1 DEF TearWork, ScopeOnly, serviceVars, loopVars, history, TearDone, TearPanics, scopeVars
  <2>2. ASSUME NEW s \in Scopes, NEW m \in Messages, (SteerLoop(s, m) /\ UNCHANGED <<scopeVars,
    serviceVars, crashed, history>>)
    PROVE UNCHANGED <<at, err, cut, cause>>
    BY <2>2 DEF SteerLoop, scopeVars, serviceVars, history
  <2>3. ASSUME NEW v \in Services, ((StopService(v) \/ StopEnds(v)) /\ UNCHANGED <<scopeVars,
    loopVars, crashed, history>>) \/ ((AdoptService(v) \/ Classify(v) \/ WaitDone(v) \/
    ServiceExits(v)) /\ UNCHANGED scopeVars /\ UNCHANGED <<loopVars, crashed, history>>)
    PROVE UNCHANGED <<at, err, cut, cause>>
    BY <2>3 DEF StopService, scopeVars, loopVars, history, StopEnds, AdoptService, Classify,
      WaitDone, ServiceExits
  <2> QED
    BY <1>1, <2>1, <2>2, <2>3 DEF vars, scopeVars, serviceVars, loopVars, history
<1> USE <1>0, Shape, Errors, Opened DEF IInv, TypeOK, BodyTypes, TearTypes, KillInv, Kind, Over,
  Done, Parent
<1>a. CauseMoves /\ AtMoves
  BY StepCauseMoves, StepAtMoves
<1> USE <1>a DEF CauseMoves
<1>2. ASSUME NEW s \in Scopes, NEW c \in Scopes, Open(s, c), ScopeOnly PROVE KillInv'
  BY <1>2 DEF Open, ScopeOnly, serviceVars, loopVars, history, Running
<1>3. ASSUME NEW s \in Scopes, NEW c \in Scopes, OpenItem(s, c), ScopeOnly PROVE KillInv'
  BY <1>3 DEF OpenItem, ScopeOnly, serviceVars, loopVars, history, Running
<1>4. ASSUME NEW s \in Scopes, NEW c \in Scopes, Go(s, c), ScopeOnly PROVE KillInv'
  BY <1>4 DEF Go, ScopeOnly, serviceVars, loopVars, history, Attached
<1>5. ASSUME NEW s \in Scopes, NEW k \in {"command", "turn"}, StartCall(s, k), ScopeOnly
  PROVE KillInv'
  BY <1>5 DEF StartCall, ScopeOnly, serviceVars, loopVars, history, Running
<1>6. ASSUME NEW s \in Scopes, CallReturns(s), ScopeOnly PROVE KillInv'
  BY <1>6 DEF CallReturns, ScopeOnly, serviceVars, loopVars, history
<1>7. ASSUME NEW s \in Scopes, Wait(s), ScopeOnly PROVE KillInv'
  BY <1>7 DEF Wait, ScopeOnly, serviceVars, loopVars, history
<1>8. ASSUME NEW s \in Scopes, Return(s), UNCHANGED <<serviceVars, loopVars, crashed, aborted,
  killed, kills>>
  PROVE KillInv'
  BY <1>8 DEF Return, serviceVars, loopVars, Running, Returned
<1>9. ASSUME NEW s \in Scopes, NEW v \in Services, StartService(s, v), UNCHANGED <<loopVars,
  crashed, history>>
  PROVE KillInv'
  BY <1>9 DEF StartService, loopVars, history, Running
<1>10. ASSUME NEW s \in Scopes, Attach(s), UNCHANGED <<serviceVars, queue, record, crashed,
  history>>
  PROVE KillInv'
  BY <1>10 DEF Attach, serviceVars, history, Attached
<1>11. ASSUME NEW s \in Scopes, Begin(s), ScopeOnly PROVE KillInv'
  BY <1>11 DEF Begin, ScopeOnly, serviceVars, loopVars, history
<1>12. ASSUME NEW s \in Scopes, Finish(s), ScopeOnly PROVE KillInv'
  BY <1>12 DEF Finish, ScopeOnly, serviceVars, loopVars, history
<1>13. ASSUME NEW s \in Scopes, FinishItem(s), ScopeOnly PROVE KillInv'
  BY <1>13 DEF FinishItem, ScopeOnly, serviceVars, loopVars, history, FailService
<1>14. ASSUME NEW s \in Scopes, FinishTask(s), ScopeOnly PROVE KillInv'
  <2>1. /\ cut' = cut /\ at'[s] = "ended" /\ Kind(s) # "loop" /\ at'[Parent(s)] \in {"wait", "open"}
        /\ \A x \in Scopes \ {s, Parent(s)} : at'[x] = at[x] /\ err'[x] = err[x]
        /\ "killed" \in err'[Parent(s)] => Done(Parent(s))
    BY <1>14, TaskBack DEF ScopeOnly, history
  <2>2. \A x \in Scopes : Done(x) => Done(x)'
    BY DEF CauseMoves
  <2> QED
    BY <2>1, <2>2
<1>15. ASSUME NEW s \in Scopes, FinishChild(s), UNCHANGED <<serviceVars, loopVars, crashed, cut,
  killed, kills>>
  PROVE KillInv'
  BY <1>15 DEF FinishChild, serviceVars, loopVars
<1>16. ASSUME NEW s \in Scopes, Joined(s), UNCHANGED <<serviceVars, loopVars, crashed, aborted,
  killed, kills>>
  PROVE KillInv'
  BY <1>16 DEF Joined, serviceVars, loopVars, Returned
<1>17. ASSUME NEW s \in Scopes, PlanNext(s), UNCHANGED <<serviceVars, crashed, history>>
  PROVE KillInv'
  BY <1>17 DEF PlanNext, serviceVars, history
<1>18. ASSUME NEW s \in Scopes, StoreTask(s), UNCHANGED <<serviceVars, loopVars, history>>
  PROVE KillInv'
  BY <1>18 DEF StoreTask, serviceVars, loopVars, history
<1>19. ASSUME NEW s \in Scopes, EndLoop(s), UNCHANGED <<serviceVars, crashed, aborted, killed,
  kills>>
  PROVE KillInv'
  BY <1>19 DEF EndLoop, serviceVars, loopVars, Returned
<1>20. ASSUME NEW s \in Scopes, PlanEnds(s), ScopeOnly PROVE KillInv'
  BY <1>20 DEF PlanEnds, ScopeOnly, serviceVars, loopVars, history
<1>21. ASSUME NEW s \in Scopes, NEW c \in Scopes, PlanTask(s, c), ScopeOnly PROVE KillInv'
  BY <1>21 DEF PlanTask, ScopeOnly, serviceVars, loopVars, history, Attached
<1>22. ASSUME NEW s \in Scopes, TearStart(s), UNCHANGED <<crashed, history>> PROVE KillInv'
  BY <1>22 DEF TearStart, history
<1>23. ASSUME NEW s \in Scopes, CancelScope(s), UNCHANGED <<serviceVars, loopVars, crashed>>
  PROVE KillInv'
  BY <1>23 DEF CancelScope, serviceVars, loopVars
<1>24. ASSUME NEW v \in Services, ServiceUnready(v), UNCHANGED <<loopVars, crashed, history>>
  PROVE KillInv'
  BY <1>24 DEF ServiceUnready, loopVars, history, ServiceReturns
<1>25. ASSUME NEW v \in Services, ServiceRefused(v), UNCHANGED <<loopVars, crashed, history>>
  PROVE KillInv'
  BY <1>25 DEF ServiceRefused, loopVars, history, ServiceReturns
<1>26. ASSUME NEW v \in Services, Report(v), UNCHANGED <<loopVars, crashed, history>> PROVE KillInv'
  BY <1>26 DEF Report, loopVars, history, FailService
<1>27. ASSUME NEW v \in Services, ServiceReady(v), UNCHANGED <<loopVars, crashed, history>>
  PROVE KillInv'
  BY <1>27 DEF ServiceReady, loopVars, history, ServiceReturns, FailService
<1>28. CASE UNCHANGED vars \/ (\E s \in Scopes : ((TearWork(s) \/ TearDone(s)) /\ ScopeOnly) \/
  (TearPanics(s) /\ UNCHANGED <<scopeVars, serviceVars, loopVars, history>>)) \/ (\E s \in Scopes :
  \E m \in Messages : (SteerLoop(s, m) /\ UNCHANGED <<scopeVars, serviceVars, crashed, history>>))
  \/ (\E v \in Services : ((AdoptService(v) \/ Classify(v) \/ WaitDone(v) \/ ServiceExits(v)) /\
  UNCHANGED scopeVars /\ UNCHANGED <<loopVars, crashed, history>>) \/ ((StopService(v) \/
  StopEnds(v)) /\ UNCHANGED <<scopeVars, loopVars, crashed, history>>))
  BY <1>1, <1>28
<1> HIDE DEF IInv, TypeOK, BodyTypes, TearTypes, KillInv, Kind, Over, Done, Parent
<1> QED
  BY <1>2, <1>3, <1>4, <1>5, <1>6, <1>7, <1>8, <1>9, <1>10, <1>11, <1>12, <1>13, <1>14, <1>15,
    <1>16, <1>17, <1>18, <1>19, <1>20, <1>21, <1>22, <1>23, <1>24, <1>25, <1>26, <1>27, <1>28 DEF
    Next, Workflow, Body, Planner, Tear, Operator, ServiceStep, Stopping, Process

\* Messages wait in the queue.
LEMMA StepMessage == IInv /\ [Next]_vars => MessageInv'
<1> SUFFICES ASSUME IInv, [Next]_vars PROVE MessageInv'
  OBVIOUS
<1>0. tree' = tree
  BY DEF Next, vars
<1>1. ASSUME UNCHANGED vars \/ (\E s \in Scopes : ((TearWork(s) \/ TearDone(s)) /\ ScopeOnly) \/
  (TearPanics(s) /\ UNCHANGED <<scopeVars, serviceVars, loopVars, history>>) \/ (CancelScope(s) /\
  UNCHANGED <<serviceVars, loopVars, crashed>>)) \/ (\E v \in Services : ((AdoptService(v) \/
  Classify(v) \/ WaitDone(v) \/ ServiceExits(v)) /\ UNCHANGED scopeVars /\ UNCHANGED <<loopVars,
  crashed, history>>) \/ (Report(v) /\ UNCHANGED <<loopVars, crashed, history>>) \/ ((StopService(v)
  \/ StopEnds(v)) /\ UNCHANGED <<scopeVars, loopVars, crashed, history>>))
  PROVE UNCHANGED <<at, cut, ended, queue, record, dispatching>>
  <2>1. ASSUME NEW s \in Scopes, ((TearWork(s) \/ TearDone(s)) /\ ScopeOnly) \/ (TearPanics(s) /\
    UNCHANGED <<scopeVars, serviceVars, loopVars, history>>) \/ (CancelScope(s) /\ UNCHANGED
    <<serviceVars, loopVars, crashed>>)
    PROVE UNCHANGED <<at, cut, ended, queue, record, dispatching>>
    BY <2>1 DEF TearWork, ScopeOnly, serviceVars, loopVars, history, TearDone, TearPanics,
      scopeVars, CancelScope
  <2>2. ASSUME NEW v \in Services, (Report(v) /\ UNCHANGED <<loopVars, crashed, history>>) \/
    ((StopService(v) \/ StopEnds(v)) /\ UNCHANGED <<scopeVars, loopVars, crashed, history>>) \/
    ((AdoptService(v) \/ Classify(v) \/ WaitDone(v) \/ ServiceExits(v)) /\ UNCHANGED scopeVars /\
    UNCHANGED <<loopVars, crashed, history>>)
    PROVE UNCHANGED <<at, cut, ended, queue, record, dispatching>>
    BY <2>2 DEF Report, loopVars, history, FailService, StopService, scopeVars, StopEnds,
      AdoptService, Classify, WaitDone, ServiceExits
  <2> QED
    BY <1>1, <2>1, <2>2 DEF vars, scopeVars, serviceVars, loopVars, history
<1> USE <1>0, Shape DEF IInv, TypeOK, BodyTypes, TearTypes, LoopTypes, HistoryTypes, MessageInv,
  Kind, Over, Recorded
<1>2. ASSUME NEW s \in Scopes, NEW c \in Scopes, Open(s, c), ScopeOnly PROVE MessageInv'
  <2>1. UNCHANGED <<cut, ended, queue, record, dispatching>>
    BY <1>2 DEF Open, ScopeOnly, loopVars, history
  <2>2. \A x \in Scopes : Over(x)' => Over(x)
    <3>1. CASE ended[s]
      BY <1>2, <3>1 DEF Open
    <3>2. CASE ~(ended[s])
      <4>1. at' = [at EXCEPT ![s] = "child", ![c] = "admitted"]
        BY <1>2, <3>2 DEF Open
      <4>2. \A x \in Scopes : at'[x] = at[x] \/ at'[x] \in {"child", "admitted"}
        BY <4>1
      <4> QED
        BY <4>2
    <3> QED
      BY <3>1, <3>2
  <2> QED
    BY <2>1, <2>2, MessageKept
<1>3. ASSUME NEW s \in Scopes, NEW c \in Scopes, OpenItem(s, c), ScopeOnly PROVE MessageInv'
  BY <1>3 DEF OpenItem, ScopeOnly, serviceVars, loopVars, history, Running
<1>4. ASSUME NEW s \in Scopes, NEW c \in Scopes, Go(s, c), ScopeOnly PROVE MessageInv'
  BY <1>4 DEF Go, ScopeOnly, serviceVars, loopVars, history, Attached
<1>5. ASSUME NEW s \in Scopes, NEW k \in {"command", "turn"}, StartCall(s, k), ScopeOnly
  PROVE MessageInv'
  BY <1>5 DEF StartCall, ScopeOnly, serviceVars, loopVars, history, Running
<1>6. ASSUME NEW s \in Scopes, CallReturns(s), ScopeOnly PROVE MessageInv'
  BY <1>6 DEF CallReturns, ScopeOnly, serviceVars, loopVars, history
<1>7. ASSUME NEW s \in Scopes, Wait(s), ScopeOnly PROVE MessageInv'
  BY <1>7 DEF Wait, ScopeOnly, serviceVars, loopVars, history
<1>8. ASSUME NEW s \in Scopes, Return(s), UNCHANGED <<serviceVars, loopVars, crashed, aborted,
  killed, kills>>
  PROVE MessageInv'
  BY <1>8 DEF Return, serviceVars, loopVars, Running, Returned
<1>9. ASSUME NEW s \in Scopes, NEW v \in Services, StartService(s, v), UNCHANGED <<loopVars,
  crashed, history>>
  PROVE MessageInv'
  BY <1>9 DEF StartService, loopVars, history, Running
<1>10. ASSUME NEW s \in Scopes, Attach(s), UNCHANGED <<serviceVars, queue, record, crashed,
  history>>
  PROVE MessageInv'
  BY <1>10 DEF Attach, serviceVars, history, Attached
<1>11. ASSUME NEW s \in Scopes, Begin(s), ScopeOnly PROVE MessageInv'
  BY <1>11 DEF Begin, ScopeOnly, serviceVars, loopVars, history
<1>12. ASSUME NEW s \in Scopes, Finish(s), ScopeOnly PROVE MessageInv'
  BY <1>12 DEF Finish, ScopeOnly, serviceVars, loopVars, history
<1>13. ASSUME NEW s \in Scopes, FinishItem(s), ScopeOnly PROVE MessageInv'
  <2>1. UNCHANGED <<cut, ended, queue, record, dispatching>>
    BY <1>13 DEF FinishItem, ScopeOnly, loopVars, history
  <2>2. at[s] = "returned" /\ at' = [at EXCEPT ![s] = "ended", ![Parent(s)] = "open"]
    BY <1>13 DEF FinishItem
  <2>3. \A x \in Scopes : at'[x] = at[x] \/ x = s \/ at'[x] = "open"
    BY <2>2
  <2>4. \A x \in Scopes : Over(x)' => Over(x)
    BY <2>2, <2>3
  <2> QED
    BY <2>1, <2>4, MessageKept
<1>14. ASSUME NEW s \in Scopes, FinishTask(s), ScopeOnly PROVE MessageInv'
  <2>1. UNCHANGED <<cut, ended, queue, record, dispatching>>
    BY <1>14 DEF FinishTask, ScopeOnly, loopVars, history
  <2>2. Kind(s) # "loop" /\ at'[Parent(s)] \in {"wait", "open"} /\ \A x \in Scopes \ {s, Parent(s)} : at'[x] = at[x]
    BY <1>14, TaskBack
  <2>3. ASSUME NEW x \in Scopes, Kind(x) = "loop", Over(x)' PROVE Over(x)
    <3>1. x # s /\ x # Parent(s)
      BY <2>2, <2>3
    <3>2. at'[x] = at[x]
      BY <2>2, <3>1
    <3> QED
      BY <2>3, <3>2
  <2> QED
    BY <2>1, <2>3, MessageKept
<1>15. ASSUME NEW s \in Scopes, FinishChild(s), UNCHANGED <<serviceVars, loopVars, crashed, cut,
  killed, kills>>
  PROVE MessageInv'
  BY <1>15 DEF FinishChild, serviceVars, loopVars
<1>16. ASSUME NEW s \in Scopes, Joined(s), UNCHANGED <<serviceVars, loopVars, crashed, aborted,
  killed, kills>>
  PROVE MessageInv'
  BY <1>16 DEF Joined, serviceVars, loopVars, Returned
<1>17. ASSUME NEW s \in Scopes, PlanNext(s), UNCHANGED <<serviceVars, crashed, history>>
  PROVE MessageInv'
  <2>1. cut' = cut /\ ended' = ended /\ dispatching' = dispatching /\ ~Over(s)'
        /\ \A x \in Scopes : x # s => at'[x] = at[x] /\ queue'[x] = queue[x] /\ record'[x] = record[x]
    BY <1>17 DEF PlanNext, history
  <2>2. ASSUME ~ended[s], record' = [record EXCEPT ![s] = Recorded(s, "landed")], NEW m \in Messages
        PROVE  record'[s][m] # "waiting"
    <3>1. Kind(s) = "loop" /\ record' = [record EXCEPT ![s] = Recorded(s, "landed")]
      BY <1>17, <2>2 DEF PlanNext
    <3>2. record'[s][m] = IF m \in queue[s] THEN "landed" ELSE record[s][m]
      BY <3>1
    <3>3. record[s][m] = "waiting" => m \in queue[s]
      BY <2>2, <3>1
    <3> QED
      BY <3>2, <3>3
  <2>3. CASE UNCHANGED <<queue, record>>
    BY <2>1, <2>3
  <2>4. CASE ~ended[s] /\ record' = [record EXCEPT ![s] = Recorded(s, "landed")]
    BY <2>1, <2>2, <2>4
  <2> QED
    BY <1>17, <2>3, <2>4 DEF PlanNext
<1>18. ASSUME NEW s \in Scopes, StoreTask(s), UNCHANGED <<serviceVars, loopVars, history>>
  PROVE MessageInv'
  BY <1>18 DEF StoreTask, serviceVars, loopVars, history
<1>19. ASSUME NEW s \in Scopes, EndLoop(s), UNCHANGED <<serviceVars, crashed, aborted, killed,
  kills>>
  PROVE MessageInv'
  <2>1. /\ ended' = ended /\ \A x \in Scopes : x # s => at'[x] = at[x] /\ queue'[x] = queue[x]
                          /\ record'[x] = record[x] /\ dispatching'[x] = dispatching[x]
        /\ cut \subseteq cut'
    BY <1>19 DEF EndLoop, Returned, loopVars
  <2>2. ended[s] => s \in cut'
    BY <1>19 DEF EndLoop, Returned, TearInv, Begun
  <2>3. ASSUME ~ended[s] PROVE ~dispatching'[s] /\ \A m \in Messages : record'[s][m] # "waiting"
    <3>1. /\ dispatching' = [dispatching EXCEPT ![s] = FALSE]
          /\ record' = [record EXCEPT ![s] = Recorded(s, "dropped")]
      BY <1>19, <2>3 DEF EndLoop
    <3>2. \A m \in Messages : record[s][m] = "waiting" => m \in queue[s]
      BY <1>19, <2>3 DEF EndLoop
    <3>3. ~dispatching'[s] /\ record'[s] = Recorded(s, "dropped")
      BY <3>1
    <3> QED
      BY <3>2, <3>3
  <2>4. ASSUME NEW l \in Scopes, Kind(l) = "loop"
        PROVE  /\ \A m \in Messages : record'[l][m] = "waiting" /\ ~ended[l] => m \in queue'[l]
               /\ Over(l)' /\ l \notin cut' => ~dispatching'[l] /\ \A m \in Messages : record'[l][m] # "waiting"
    <3>1. CASE l = s
      BY <2>2, <2>3, <3>1
    <3>2. CASE l # s
      BY <2>1, <2>4, <3>2
    <3> QED
      BY <3>1, <3>2
  <2> QED
    BY <2>1, <2>4
<1>20. ASSUME NEW s \in Scopes, PlanEnds(s), ScopeOnly PROVE MessageInv'
  BY <1>20 DEF PlanEnds, ScopeOnly, serviceVars, loopVars, history
<1>21. ASSUME NEW s \in Scopes, NEW c \in Scopes, PlanTask(s, c), ScopeOnly PROVE MessageInv'
  BY <1>21 DEF PlanTask, ScopeOnly, serviceVars, loopVars, history, Attached
<1>22. ASSUME NEW s \in Scopes, TearStart(s), UNCHANGED <<crashed, history>> PROVE MessageInv'
  BY <1>22 DEF TearStart, history
<1>23. ASSUME NEW s \in Scopes, NEW m \in Messages, SteerLoop(s, m), UNCHANGED <<scopeVars,
  serviceVars, crashed, history>>
  PROVE MessageInv'
  <2>1. UNCHANGED <<at, cut, ended, dispatching>>
    BY <1>23 DEF SteerLoop, scopeVars, history
  <2>2. /\ queue'[s] = queue[s] \cup {m} /\ record'[s] = [record[s] EXCEPT ![m] = "waiting"]
        /\ \A x \in Scopes : x # s => queue'[x] = queue[x] /\ record'[x] = record[x]
    BY <1>23 DEF SteerLoop
  <2>3. \A n \in Messages : record'[s][n] = "waiting" => n = m \/ record[s][n] = "waiting"
    BY <2>2
  <2>4. dispatching[s] /\ ~ended[s]
    BY <1>23 DEF SteerLoop, Reachable
  <2>5. ASSUME NEW l \in Scopes, Kind(l) = "loop"
        PROVE  /\ \A n \in Messages : record'[l][n] = "waiting" /\ ~ended[l] => n \in queue'[l]
               /\ Over(l) /\ l \notin cut => ~dispatching[l] /\ \A n \in Messages : record'[l][n] # "waiting"
    <3>1. CASE l = s
      BY <2>2, <2>3, <2>4, <2>5, <3>1
    <3>2. CASE l # s
      BY <2>2, <2>5, <3>2
    <3> QED
      BY <3>1, <3>2
  <2> QED
    BY <2>1, <2>5
<1>24. ASSUME NEW v \in Services, ServiceUnready(v), UNCHANGED <<loopVars, crashed, history>>
  PROVE MessageInv'
  BY <1>24 DEF ServiceUnready, loopVars, history, ServiceReturns
<1>25. ASSUME NEW v \in Services, ServiceRefused(v), UNCHANGED <<loopVars, crashed, history>>
  PROVE MessageInv'
  BY <1>25 DEF ServiceRefused, loopVars, history, ServiceReturns
<1>26. ASSUME NEW v \in Services, ServiceReady(v), UNCHANGED <<loopVars, crashed, history>>
  PROVE MessageInv'
  BY <1>26 DEF ServiceReady, loopVars, history, ServiceReturns, FailService
<1>27. CASE UNCHANGED vars \/ (\E s \in Scopes : ((TearWork(s) \/ TearDone(s)) /\ ScopeOnly) \/
  (TearPanics(s) /\ UNCHANGED <<scopeVars, serviceVars, loopVars, history>>) \/ (CancelScope(s) /\
  UNCHANGED <<serviceVars, loopVars, crashed>>)) \/ (\E v \in Services : ((AdoptService(v) \/
  Classify(v) \/ WaitDone(v) \/ ServiceExits(v)) /\ UNCHANGED scopeVars /\ UNCHANGED <<loopVars,
  crashed, history>>) \/ (Report(v) /\ UNCHANGED <<loopVars, crashed, history>>) \/ ((StopService(v)
  \/ StopEnds(v)) /\ UNCHANGED <<scopeVars, loopVars, crashed, history>>))
  BY <1>1, <1>27
<1> HIDE DEF IInv, TypeOK, BodyTypes, TearTypes, LoopTypes, HistoryTypes, MessageInv, Kind, Over,
  Recorded
<1> QED
  BY <1>2, <1>3, <1>4, <1>5, <1>6, <1>7, <1>8, <1>9, <1>10, <1>11, <1>12, <1>13, <1>14, <1>15,
    <1>16, <1>17, <1>18, <1>19, <1>20, <1>21, <1>22, <1>23, <1>24, <1>25, <1>26, <1>27 DEF Next,
    Workflow, Body, Planner, Tear, Operator, ServiceStep, Stopping, Process

LEMMA StepInv == IInv /\ [Next]_vars => IInv'
<1> SUFFICES ASSUME IInv, [Next]_vars PROVE IInv'
  OBVIOUS
<1>1. tree' \in Trees
  <2>1. tree' = tree
    BY DEF Next, vars
  <2> QED
    BY <2>1 DEF IInv, TypeOK
<1>2. BodyTypes'
  BY StepAt, StepCause, StepErr DEF BodyTypes
<1>3. TypeOK'
  BY <1>1, <1>2, StepTearTypes, StepServiceTypes, StepLoopTypes, StepHistoryTypes DEF TypeOK
<1>4. (BodyInv /\ TearInv /\ ChildInv /\ LinkInv /\ InsideFirst)'
  BY StepBody, StepTear, StepChild, StepLink, StepInside
<1>5. (CallInv /\ AdoptInv /\ ProcessInv /\ RefusedInv /\ StopInv)'
  BY StepCall, StepProcess, StepRefused, StepStop
<1>6. (EndInv /\ KillInv /\ MessageInv)'
  BY StepEnd, StepKill, StepMessage
<1> QED
  BY <1>3, <1>4, <1>5, <1>6 DEF IInv

LEMMA InitInv == Init => IInv
<1> SUFFICES ASSUME Init PROVE IInv
  OBVIOUS
<1> USE DEF Init
<1>1. TypeOK
  <2>1. BodyTypes /\ TearTypes
    BY DEF BodyTypes, TearTypes, Places, Causes, Tags, None
  <2>2. ServiceTypes /\ LoopTypes
    BY DEF ServiceTypes, LoopTypes, None
  <2>3. HistoryTypes
    BY BoundsAreNumbers DEF HistoryTypes, None
  <2> QED
    BY <2>1, <2>2, <2>3 DEF TypeOK
<1>2. Root \in Scopes /\ tree \in Trees
  BY BoundsAreNumbers
<1>3. \A s \in Scopes : at[s] = (IF s = Root THEN "open" ELSE "none")
  OBVIOUS
<1>4. BodyInv
  BY <1>2, <1>3 DEF BodyInv, Begun, Active
<1>5. TearInv
  BY <1>2, <1>3 DEF TearInv, Begun, Done
<1>6. ChildInv
  BY <1>2, <1>3 DEF ChildInv
<1>7. Started = {}
  BY DEF Started
<1>8. ASSUME NEW s \in Scopes, Begun(s) PROVE Linked(s)
  <2>1. s = Root
    BY <1>3, <1>8 DEF Begun
  <2>2. tree.above[Root] = {Root} /\ Parent(Root) = None
    BY <1>2, Shape
  <2> QED
    BY <2>1, <2>2 DEF Linked
<1>9. LinkInv /\ InsideFirst
  BY <1>7, <1>8 DEF LinkInv, InsideFirst
<1>10. CallInv /\ AdoptInv
  BY DEF CallInv, InCall, AdoptInv
<1>11. ProcessInv /\ RefusedInv
  BY DEF ProcessInv, RefusedInv, None
<1>12. StopInv /\ EndInv
  BY <1>3 DEF StopInv, EndInv
<1>13. KillInv /\ MessageInv
  BY <1>3 DEF KillInv, MessageInv, Over, None
<1> QED
  BY <1>1, <1>4, <1>5, <1>6, <1>9, <1>10, <1>11, <1>12, <1>13 DEF IInv

\* The invariant holds of every run.
THEOREM Invariance == Spec => []IInv
<1>1. Init => IInv
  BY InitInv
<1>2. IInv /\ [Next]_vars => IInv'
  BY StepInv
<1> QED
  BY <1>1, <1>2, PTL DEF Spec

-----------------------------------------------------------------------------
(* The properties *)

\* Bodies, ctxs, teardowns, services and loops only take the values the code gives them.
THEOREM TypeCorrect == Spec => []TypeOK
<1>1. IInv => TypeOK
  BY DEF IInv
<1> QED
  BY <1>1, Invariance, PTL

\* A service that a scope had taken is settled when the scope has ended, and the
\* scope's error says how it went.
LEMMA TakenEnds ==
  ASSUME IInv, NEW v \in Started, Owner(v) \in Scopes, at[Owner(v)] = "ended", Adopted(v)
  PROVE  /\ Settled(v)
         /\ stop[v] = "failed" => "cleanup" \in err[Owner(v)]
<1>1. PICK i \in DOMAIN services[Owner(v)] : services[Owner(v)][i] = v
  BY DEF Adopted, ToSet
<1>2. tear[Owner(v)] = "done"
  BY DEF IInv, EndInv
<1>3. Settled(v)
  BY <1>1, <1>2 DEF IInv, StopInv
<1> QED
  BY <1>1, <1>3 DEF IInv, EndInv

LEMMA OwnerOf ==
  ASSUME IInv, NEW v \in Started
  PROVE  v \in Services /\ Owner(v) \in Scopes /\ Linked(Owner(v))
  BY DEF IInv, LinkInv, Started

\* A service that exited by itself fails the scope it belongs to, whatever a teardown,
\* a kill or another failure did in the meantime (service.go: wait classifies the exit
\* once, and finish joins what failService kept), also one the scope had refused, unless
\* stopping it failed.
THEOREM FailuresSurface == Spec => []ServiceFailureSurfaces
<1>1. ASSUME IInv PROVE ServiceFailureSurfaces
  <2> SUFFICES ASSUME NEW v \in Started, at[Owner(v)] = "ended", verdict[v] = "unexpected",
                      stop[v] = "failed" => Adopted(v)
               PROVE  err[Owner(v)] \cap {"svc", "cleanup"} # {}
    BY DEF ServiceFailureSurfaces, Adopted
  <2>1. Owner(v) \in Scopes /\ v \in Services /\ call[v] # "none"
    BY <1>1, OwnerOf DEF Started
  <2>2. Settled(v)
    BY <1>1, <2>1, SettledAtEnd
  <2>3. CASE stop[v] = "stopped"
    BY <1>1, <2>1, <2>3 DEF IInv, EndInv
  <2>4. CASE stop[v] = "failed"
    BY <1>1, <2>1, <2>4, TakenEnds
  <2> QED
    BY <2>2, <2>3, <2>4 DEF Settled
<1> QED
  BY <1>1, Invariance, PTL

\* When a scope has ended no process it started is left, unless stopping it failed;
\* of a service it had taken its error then says so (stopOwnedWork, and the stop that
\* Service itself makes of a service that came too late).
THEOREM ServicesEnd == Spec => []NoServiceOutlivesScope
<1>1. ASSUME IInv PROVE NoServiceOutlivesScope
  <2> SUFFICES ASSUME NEW v \in Started, at[Owner(v)] = "ended", proc[v] = "up"
               PROVE  stop[v] = "failed" /\ (Adopted(v) => "cleanup" \in err[Owner(v)])
    BY DEF NoServiceOutlivesScope, Adopted
  <2>1. Owner(v) \in Scopes /\ v \in Services /\ call[v] # "none"
    BY <1>1, OwnerOf DEF Started
  <2>2. Settled(v)
    BY <1>1, <2>1, SettledAtEnd
  <2>3. stop[v] # "stopped"
    BY <1>1, <2>1 DEF IInv, ProcessInv
  <2>4. stop[v] = "failed"
    BY <2>2, <2>3 DEF Settled
  <2> QED
    BY <1>1, <2>1, <2>4, TakenEnds
<1> QED
  BY <1>1, Invariance, PTL

\* Services are stopped from the last to the first and from the inside out, at any
\* depth of the tree (endScope: children, then services in reverse).
THEOREM StopOrder == Spec => []ServicesStopLast
<1>1. ASSUME IInv PROVE ServicesStopLast
  <2> SUFFICES ASSUME NEW v \in Started, NEW w \in Started,
                      stop[v] # "none", Adopted(w), Adopted(v), Owner(v) \in tree.above[Owner(w)],
                      Owner(v) = Owner(w) =>
                        \E i, j \in DOMAIN services[Owner(v)] :
                          i < j /\ services[Owner(v)][i] = v /\ services[Owner(v)][j] = w
               PROVE  Settled(w)
    BY DEF ServicesStopLast, Adopted, Settled
  <2>1. Owner(v) \in Scopes /\ Owner(w) \in Scopes /\ Linked(Owner(w))
    BY <1>1, OwnerOf
  <2>2. PICK a \in DOMAIN services[Owner(v)] : services[Owner(v)][a] = v
    BY DEF Adopted, ToSet
  <2>3. tear[Owner(v)] \in {"services", "done"}
    BY <1>1, <2>1, <2>2 DEF IInv, StopInv
  <2>4. CASE Owner(v) = Owner(w)
    <3>1. PICK i \in DOMAIN services[Owner(v)], j \in DOMAIN services[Owner(v)] :
            i < j /\ services[Owner(v)][i] = v /\ services[Owner(v)][j] = w
      BY <2>4
    <3> QED
      BY <1>1, <2>1, <3>1 DEF IInv, StopInv
  <2>5. CASE Owner(v) # Owner(w)
    <3>1. tear[Owner(w)] = "done"
      BY <1>1, <2>1, <2>3, <2>5 DEF IInv, InsideFirst
    <3>2. PICK b \in DOMAIN services[Owner(w)] : services[Owner(w)][b] = w
      BY DEF Adopted, ToSet
    <3> QED
      BY <1>1, <2>1, <3>1, <3>2 DEF IInv, StopInv
  <2> QED
    BY <2>4, <2>5
<1> QED
  BY <1>1, Invariance, PTL

\* A loop ends with the error of a kill only if its own ctx was done: a kill of a task
\* does not break it (Tasks looks at its own ctx before it takes a task's error over).
THEOREM LoopsSurvive == Spec => []KilledTaskSparesLoop
<1>1. IInv => KilledTaskSparesLoop
  BY DEF IInv, KillInv, Over, KilledTaskSparesLoop
<1> QED
  BY <1>1, Invariance, PTL

\* What queueMessage accepted has its record when a loop ends that was not cancelled:
\* nothing is accepted between endDispatch and the end, and nothing is left.
THEOREM MessagesAreRecorded == Spec => []MessageRecorded
<1>1. IInv => MessageRecorded
  BY DEF IInv, MessageInv, Over, MessageRecorded
<1> QED
  BY <1>1, Invariance, PTL

=============================================================================
