---------------------------- MODULE Interactive ----------------------------
(***************************************************************************)
(* Interactive generations (interactive.go, session.go): the inbox of one  *)
(* stable address, the owner loop that waits for a human, prompts and      *)
(* steers the session and honours Stop and Finish, and its re-entry by a   *)
(* later process.  The workflow is the one of a conversation: it calls     *)
(* Interactive again after every agent end, and returns on a human one.    *)
(*                                                                         *)
(* Abstractions.  A message is its request ID.  A generation is one turn   *)
(* known by the message that prompts it (restoreInteraction gives it back  *)
(* its position); how the session and its retries work is module Session.  *)
(* A commit is one step that succeeds: the store refuses everything after  *)
(* a failed one, so a death leaves the same journal behind.  A call that   *)
(* is refused, and the repetition of an accepted one, is not a step.       *)
(* interactionMu is held where Locked says so, and inside each step.       *)
(***************************************************************************)
EXTENDS Naturals, Sequences, FiniteSetsExt

CONSTANTS
  Messages, Stops, Finishes, Configures,  \* request IDs, by what they ask for
  Answers,         \* how RunTurn may end
  SteerAnswers,    \* how the adapter's Steer may end
  MaxInputs,       \* bound: inputs that are accepted
  MaxOccurrences,  \* bound: Interactive calls of the workflow
  MaxFaults        \* bound: processes that die and runs that are cancelled

Inputs == Messages \cup Stops \cup Finishes \cup Configures
None == "none"
Replies == {"chat", "end"}
Unresolved == {"uncertain", "accepted"}  \* DeliveryUncertain; "accepted": the prompt was taken

ASSUME AnswersAreKnown ==
  /\ Answers \subseteq Replies \cup Unresolved \cup {"error"}
  /\ SteerAnswers \subseteq {"landed", "dropped", "error"}
  /\ MaxInputs \in Nat /\ MaxOccurrences \in Nat \ {0} /\ MaxFaults \in Nat
ASSUME InputsAreApart ==
  /\ Messages \cap Stops = {} /\ Messages \cap Finishes = {} /\ Messages \cap Configures = {}
  /\ Stops \cap Finishes = {} /\ Stops \cap Configures = {} /\ Finishes \cap Configures = {}
  /\ None \notin Inputs

VARIABLES
  \* the run's journal
  order,       \* accepted inputs, in order
  disp,        \* the disposition of each
  saved,       \* the interactionState of each occurrence
  outcome,     \* the outcome of the turn a message prompts
  taken,       \* messages whose turn has a prompt-delivered fact
  scopeEnded,  \* ScopeEnded
  runEnded,    \* RunEnded
  \* the process: the owner loop
  pc, occ,
  state,       \* the loop's own copy of the interactionState
  queue,       \* the inputs it has still to look at, first the one accepted first
  active,      \* the address is in activeInteractions
  wake,        \* the wakeup is pending
  interrupt,   \* the turn's ctx was cancelled
  cancelled,   \* the run's ctx is done
  failed,      \* Interactive returns an error
  \* its generation
  turn, answer,
  delivered,   \* session.generationDelivered
  \* history and bounds
  prompted,    \* messages sent as a prompt
  steered,     \* messages that were or may have been steered into a turn
  closing,     \* what Finish found: the active input, or None
  late,        \* messages prompted after Finish
  abandoned,   \* the run was cancelled, in this process or an earlier one
  faults

journal  == <<order, disp, saved, outcome, taken, scopeEnded, runEnded>>
session  == <<outcome, taken>>
loopVars == <<pc, occ, state, queue, active, wake, interrupt, cancelled, failed>>
genVars  == <<turn, answer, delivered>>
history  == <<prompted, steered, closing, late, abandoned, faults>>
vars     == <<journal, loopVars, genVars, history>>

Occurrences == 1..MaxOccurrences

\* interactionState of an occurrence that has committed nothing yet.
Fresh == [active |-> None, published |-> FALSE, consumed |-> {}, endedBy |-> None,
          unresolved |-> FALSE, waiting |-> TRUE, transcript |-> <<>>]

Accepted == {order[k] : k \in 1..Len(order)}
Consumed == UNION {saved[o].consumed : o \in Occurrences}

\* What is kept of the inputs keeps their order: the one of some accepted inputs that
\* was accepted first, and all of them as a sequence.
First(S) == order[Min({k \in 1..Len(order) : order[k] \in S})]
Before(i, j) == \E k, l \in 1..Len(order) : k < l /\ order[k] = i /\ order[l] = j
InOrder(S) ==
  CHOOSE q \in [1..Cardinality(S) -> S] : \A k, l \in 1..Cardinality(S) : k < l => Before(q[k], q[l])

\* Mutant of Pending: consumption by another occurrence is not looked at.
PendingHere(s) == {i \in Accepted : disp[i] # "unprocessed" /\ i \notin s.consumed}

\* pendingInput
Pending(s) == {i \in Accepted : disp[i] # "unprocessed" /\ i \notin Consumed \cup s.consumed}

\* commitInteraction
Commit(s) == state' = s /\ saved' = [saved EXCEPT ![occ] = s]

Locked == pc \in {"assign", "settle"}

-----------------------------------------------------------------------------
(* The inbox *)

\* Mutant of Accept: a wakeup is only sent to a running turn.
AcceptQuietly(i) ==
  /\ ~Locked /\ active /\ ~runEnded /\ ~scopeEnded /\ Len(order) < MaxInputs
  /\ i \notin Accepted /\ Accepted \cap Finishes = {}
  /\ i \in Configures /\ saved[occ].endedBy = None => saved[occ].waiting /\ Pending(saved[occ]) = {}
  /\ order' = Append(order, i)
  /\ disp' = [disp EXCEPT ![i] = "pending"]
  /\ wake' = (wake \/ turn # "none")
  /\ closing' = IF i \in Finishes THEN saved[occ].active ELSE closing
  /\ UNCHANGED <<saved, session, scopeEnded, runEnded, pc, occ, state, queue, active, interrupt, cancelled,
                 failed, genVars, prompted, steered, late, abandoned, faults>>

\* acceptInput, and the Stop of CancelTurn: an owner must be there, and
\* nothing follows a Finish.
Accept(i) ==
  /\ ~Locked /\ active /\ ~runEnded /\ ~scopeEnded /\ Len(order) < MaxInputs
  /\ i \notin Accepted /\ Accepted \cap Finishes = {}
  /\ i \in Configures /\ saved[occ].endedBy = None => saved[occ].waiting /\ Pending(saved[occ]) = {}
  /\ order' = Append(order, i)
  /\ disp' = [disp EXCEPT ![i] = "pending"]
  /\ wake' = TRUE
  /\ closing' = IF i \in Finishes THEN saved[occ].active ELSE closing
  /\ UNCHANGED <<saved, session, scopeEnded, runEnded, pc, occ, state, queue, active, interrupt, cancelled,
                 failed, genVars, prompted, steered, late, abandoned, faults>>

-----------------------------------------------------------------------------
(* The owner loop *)

\* Interactive is called for the next occurrence; one that ended returns what
\* it returned before.  A cancelled scope may have ended already.
Enter ==
  /\ pc = "body" /\ occ < MaxOccurrences
  /\ occ' = occ + 1
  /\ state' = saved[occ + 1]
  /\ \E ended \in IF cancelled THEN BOOLEAN ELSE {FALSE} :
       /\ failed' = ended
       /\ LET runs == ~ended /\ saved[occ + 1].endedBy = None
          IN  /\ active' = runs
              /\ pc' = IF ended THEN "close" ELSE IF runs THEN "look"
                       ELSE IF saved[occ + 1].endedBy = "human" THEN "close" ELSE "body"
  /\ wake' = FALSE /\ interrupt' = FALSE
  /\ UNCHANGED <<journal, queue, cancelled, genVars, history>>

\* The bound on occurrences stands for a body that returns.
BodyReturn ==
  /\ pc = "body" /\ occ = MaxOccurrences
  /\ pc' = "close"
  /\ UNCHANGED <<journal, occ, state, queue, active, wake, interrupt, cancelled, failed, genVars, history>>

\* The loop returns: a turn it leaves behind is cancelled and joined.
LeaveWith(err) ==
  /\ pc' = "leave" /\ failed' = err
  /\ interrupt' = (interrupt \/ turn # "none")

\* The loop's ctx is done, at its head or while it waits.
LeaveCancelled ==
  /\ pc \in {"look", "parked", "select"} /\ cancelled
  /\ LeaveWith(TRUE)
  /\ UNCHANGED <<journal, occ, state, queue, active, wake, cancelled, genVars, history>>

Idle == pc = "look" /\ turn = "none" /\ ~cancelled

\* What an idle loop has to do: the active input of a restored occurrence, then
\* what is pending.
Work == state.active # None \/ Pending(state) # {}
Input == IF state.active # None THEN state.active ELSE First(Pending(state))

\* Mutant of Finishing: messages accepted before the Finish go first.
FinishingInTurn == state.active = None /\ Pending(state) # {} /\ First(Pending(state)) \in Finishes

\* Finish closes ingress, and what was accepted before it starts no turn.
Finishing == state.active = None /\ Pending(state) \cap Finishes # {}

TakeFinish ==
  /\ Idle /\ Finishing
  /\ Commit([state EXCEPT !.consumed = @ \cup {First(Pending(state) \cap Finishes)},
                          !.endedBy = "human", !.waiting = FALSE])
  /\ LeaveWith(FALSE)
  /\ UNCHANGED <<order, disp, session, scopeEnded, runEnded, occ, queue, active, wake, cancelled, genVars,
                 history>>

\* Nothing to do: the wait is committed, then the wakeup is awaited.
Park ==
  /\ Idle /\ ~Finishing /\ ~Work
  /\ Commit([state EXCEPT !.waiting = TRUE])
  /\ pc' = "parked"
  /\ UNCHANGED <<order, disp, session, scopeEnded, runEnded, occ, queue, active, wake, interrupt, cancelled,
                 failed, genVars, history>>

Woken ==
  /\ pc \in {"parked", "select"} /\ wake
  /\ wake' = FALSE /\ pc' = "look"
  /\ UNCHANGED <<journal, occ, state, queue, active, interrupt, cancelled, failed, genVars, history>>

\* An input that may have been delivered is not sent again.  The error return of
\* interactive.go:162 is no action: UncertainEndsWithItsTurn shows that an idle
\* owner never gets there.
Ready(kinds) ==
  /\ Idle /\ ~Finishing /\ Work
  /\ disp[Input] \notin {"uncertain", "inflight"} /\ Input \in kinds

\* A Stop that finds no turn has nothing to stop.
TakeStop ==
  /\ Ready(Stops)
  /\ Commit([state EXCEPT !.consumed = @ \cup {Input}])
  /\ UNCHANGED <<order, disp, session, scopeEnded, runEnded, pc, occ, queue, active, wake, interrupt,
                 cancelled, failed, genVars, history>>

TakeConfigure(ok) ==
  /\ Ready(Configures)
  /\ IF ok
     THEN /\ Commit([state EXCEPT !.consumed = @ \cup {Input}])
          /\ UNCHANGED <<pc, interrupt, failed>>
     ELSE /\ LeaveWith(TRUE)
          /\ UNCHANGED <<state, saved>>
  /\ UNCHANGED <<order, disp, session, scopeEnded, runEnded, occ, queue, active, wake, cancelled, genVars,
                 history>>

\* A message is assigned to a turn of its own, and that is committed first.
StartTurn ==
  /\ Ready(Messages)
  /\ Commit(IF state.active # None THEN [state EXCEPT !.waiting = FALSE]
            ELSE [state EXCEPT !.consumed = @ \cup {Input}, !.active = Input, !.published = FALSE,
                               !.waiting = FALSE])
  /\ turn' = "begun" /\ interrupt' = FALSE
  /\ UNCHANGED <<order, disp, session, scopeEnded, runEnded, pc, occ, queue, active, wake, cancelled,
                 failed, answer, delivered, history>>

-----------------------------------------------------------------------------
(* While a turn runs *)

\* The pending inputs are read once; each is then dealt with in order.
LookRunning ==
  /\ pc = "look" /\ turn # "none" /\ ~cancelled
  /\ queue' = Pending(state)
  /\ pc' = "assign"
  /\ UNCHANGED <<journal, occ, state, active, wake, interrupt, cancelled, failed, genVars, history>>

\* Mutant of Assign: the assignment is not committed before the steer.
AssignUnrecorded ==
  /\ pc = "assign"
  /\ IF queue = {} THEN pc' = "select" /\ UNCHANGED <<disp, queue, interrupt>>
     ELSE LET i == First(queue)
              steer == i \in Messages /\ disp[i] = "pending"
          IN  /\ interrupt' = (interrupt \/ i \in Finishes \cup Stops)
              /\ UNCHANGED disp
              /\ queue' = IF steer THEN queue ELSE queue \ {i}
              /\ pc' = IF steer THEN "steer" ELSE pc
  /\ UNCHANGED <<order, saved, session, scopeEnded, runEnded, occ, state, active, wake, cancelled, failed,
                 genVars, history>>

\* Stop and Finish cancel the turn; a pending message is marked inflight, and
\* that is committed before the steer.
Assign ==
  /\ pc = "assign"
  /\ IF queue = {} THEN pc' = "select" /\ UNCHANGED <<disp, queue, interrupt>>
     ELSE LET i == First(queue)
              steer == i \in Messages /\ disp[i] = "pending"
          IN  /\ interrupt' = (interrupt \/ i \in Finishes \cup Stops)
              /\ disp' = IF steer THEN [disp EXCEPT ![i] = "inflight"] ELSE disp
              /\ queue' = IF steer THEN queue ELSE queue \ {i}
              /\ pc' = IF steer THEN "steer" ELSE pc
  /\ UNCHANGED <<order, saved, session, scopeEnded, runEnded, occ, state, active, wake, cancelled, failed,
                 genVars, history>>

\* Session.Steer takes deliveryMu.  Without a running turn nothing is sent.
SteerBegin ==
  LET i == First(queue)
      running == turn \in {"running", "native", "returned", "refused"}
  IN  /\ pc = "steer"
      /\ pc' = IF running THEN "steering" ELSE "assign"
      /\ disp' = IF running THEN disp ELSE [disp EXCEPT ![i] = "pending"]
      /\ queue' = IF running THEN queue ELSE queue \ {i}
      /\ UNCHANGED <<order, saved, session, scopeEnded, runEnded, occ, state, active, wake, interrupt,
                     cancelled, failed, genVars, history>>

Resolved(a) == IF a = "error" THEN "uncertain" ELSE IF a = "landed" THEN "delivered" ELSE "pending"

\* The adapter's Steer returns; it lands only in a turn the harness was given,
\* and after an error the message may have landed.
SteerEnd(a) ==
  LET i == First(queue)
  IN  /\ pc = "steering" /\ a \in SteerAnswers
      /\ a = "landed" => turn \in {"native", "returned"}
      /\ disp' = [disp EXCEPT ![i] = Resolved(a)]
      /\ steered' = IF a = "dropped" THEN steered ELSE Append(steered, i)
      /\ queue' = queue \ {i}
      /\ pc' = "assign"
      /\ UNCHANGED <<order, saved, session, scopeEnded, runEnded, occ, state, active, wake, interrupt,
                     cancelled, failed, genVars, prompted, closing, late, abandoned, faults>>

-----------------------------------------------------------------------------
(* The generation *)

\* dispatch finds its scope ended, and returns before anything is reset.
DispatchRefused ==
  /\ turn = "begun" /\ cancelled
  /\ turn' = "done" /\ answer' = "cancelled"
  /\ UNCHANGED <<journal, loopVars, delivered, history>>

\* A saved outcome answers.  A saved error is a plain one, whatever it was.
DispatchSaved ==
  LET i == state.active
      reply == outcome[i] \in Replies
  IN  /\ turn = "begun" /\ outcome[i] # None
      /\ turn' = "done"
      /\ answer' = IF reply THEN outcome[i] ELSE "error"
      /\ delivered' = (reply \/ i \in taken)
      /\ taken' = IF reply THEN taken \cup {i} ELSE taken
      /\ UNCHANGED <<order, disp, saved, outcome, scopeEnded, runEnded, loopVars, history>>

\* Otherwise the session is marked running.
Dispatch ==
  /\ turn = "begun" /\ outcome[state.active] = None
  /\ turn' = "running" /\ delivered' = FALSE
  /\ UNCHANGED <<journal, loopVars, answer, history>>

\* RunTurn is called, unless the turn is cancelled by then.
Send ==
  LET i == state.active
      admitted == ~cancelled /\ ~interrupt
  IN  /\ turn = "running"
      /\ turn' = IF admitted THEN "native" ELSE "refused"
      /\ answer' = IF admitted THEN None ELSE "cancelled"
      /\ prompted' = IF admitted THEN prompted \cup {i} ELSE prompted
      /\ late' = IF admitted /\ Accepted \cap Finishes # {} THEN late \cup {i} ELSE late
      /\ UNCHANGED <<journal, loopVars, delivered, steered, closing, abandoned, faults>>

\* The first step, text or tool event: notePromptDelivery.
NativeEvent ==
  /\ turn = "native" /\ ~delivered
  /\ delivered' = TRUE /\ taken' = taken \cup {state.active}
  /\ UNCHANGED <<order, disp, saved, outcome, scopeEnded, runEnded, loopVars, turn, answer, history>>

NativeReturn(a) ==
  /\ turn = "native"
  /\ a \in Answers \/ (a = "cancelled" /\ (interrupt \/ cancelled))
  /\ turn' = "returned" /\ answer' = a
  /\ UNCHANGED <<journal, loopVars, delivered, history>>

\* Mutant of Returned: a stop outweighs every answer.
ReturnedStopped(a, stopped) == IF stopped /\ a \notin Unresolved THEN "cancelled" ELSE a

\* What an interactive turn returns: a stop replaces an error, not a result.
Returned(a, stopped) == IF stopped /\ a = "error" THEN "cancelled" ELSE a

\* With deliveryMu the turn is over; its native outcome is recorded as it came.
TurnSettle ==
  LET i == state.active
  IN  /\ turn \in {"returned", "refused"} /\ pc # "steering"
      /\ outcome' = IF answer \in Unresolved THEN outcome ELSE [outcome EXCEPT ![i] = answer]
      /\ delivered' = (delivered \/ answer = "accepted")
      /\ taken' = IF answer = "accepted" THEN taken \cup {i} ELSE taken
      /\ answer' = Returned(answer, interrupt \/ cancelled)
      /\ turn' = "done"
      /\ UNCHANGED <<order, disp, saved, scopeEnded, runEnded, loopVars, history>>

-----------------------------------------------------------------------------
(* The turn is over *)

\* The loop takes the result: the prompting message is shown and delivered, or
\* is left unprocessed by a stop.  That is a commit of its own.
SettleInput ==
  LET i     == state.active
      shown == ~state.published /\ (answer \in Replies \/ delivered)
  IN  /\ pc = "select" /\ turn = "done"
      /\ state' = IF shown THEN [state EXCEPT !.published = TRUE,
                                              !.transcript = Append(@, <<"user", i>>)]
                  ELSE state
      /\ disp' = [disp EXCEPT ![i] = IF shown THEN "delivered"
                                     ELSE IF ~state.published /\ answer = "cancelled" THEN "unprocessed"
                                     ELSE @]
      /\ turn' = "none"
      /\ pc' = "settle"
      /\ UNCHANGED <<order, saved, session, scopeEnded, runEnded, occ, queue, active, wake, interrupt,
                     cancelled, failed, answer, delivered, history>>

Steers == {i \in Pending(state) \cap Messages : disp[i] = "delivered"}
Finish == Pending(state) \cap Finishes # {}
Stop   == Pending(state) \cap Stops # {}

\* Stops, Finishes and the messages steered into the turn are consumed with it.
Absorbed ==
  [state EXCEPT
     !.consumed   = @ \cup Steers \cup (Pending(state) \cap (Finishes \cup Stops)),
     !.transcript = @ \o [k \in 1..Cardinality(Steers) |-> <<"user", InOrder(Steers)[k]>>],
     !.unresolved = @ \/ \E i \in Pending(state) : disp[i] \in {"uncertain", "inflight"}]

\* A prompt that was taken leaves nothing unresolved behind a Stop.
UnconfirmedStop == Stop /\ ~Finish /\ state.published /\ answer \in Unresolved

\* The input or the turn is unresolved: an error, never a silent repetition.
SettleUnresolved ==
  LET s == [Absorbed EXCEPT !.unresolved = @ \/ (answer \in Unresolved /\ ~UnconfirmedStop)]
  IN  /\ pc = "settle" /\ s.unresolved
      /\ Commit(s)
      /\ LeaveWith(TRUE)
      /\ UNCHANGED <<order, disp, session, scopeEnded, runEnded, occ, queue, active, wake, cancelled, genVars,
                     history>>

Clear == ~Absorbed.unresolved /\ (answer \in Unresolved => UnconfirmedStop)

\* An interruption that was asked for is an ordinary end of the turn.
Interrupted == UnconfirmedStop \/ ((Finish \/ Stop) /\ answer = "cancelled")

\* Any other failure is Interactive's: it returns without a commit.
SettleFailed ==
  /\ pc = "settle" /\ Clear /\ answer \notin Replies /\ ~Interrupted
  /\ state' = Absorbed
  /\ LeaveWith(TRUE)
  /\ UNCHANGED <<journal, occ, queue, active, wake, cancelled, genVars, history>>

\* The reply and the next wait, or the end, are one state.
Settled ==
  LET said == IF answer = "chat" THEN <<<<"assistant", state.active>>>> ELSE <<>>
      by   == IF Finish THEN "human" ELSE IF answer = "end" THEN "agent" ELSE None
  IN  [Absorbed EXCEPT !.active = None, !.endedBy = by, !.waiting = (by = None), !.transcript = @ \o said]

Settle ==
  /\ pc = "settle" /\ Clear /\ (answer \in Replies \/ Interrupted)
  /\ Commit(Settled)
  /\ IF Settled.endedBy # None THEN LeaveWith(FALSE)
     ELSE pc' = "look" /\ UNCHANGED <<failed, interrupt>>
  /\ UNCHANGED <<order, disp, session, scopeEnded, runEnded, occ, queue, active, wake, cancelled, genVars,
                 history>>

-----------------------------------------------------------------------------
(* The end of the call, of the scope and of the run *)

\* The turn is joined, then the address is free again.
Leave ==
  /\ pc = "leave" /\ turn \in {"none", "done"}
  /\ turn' = "none" /\ active' = FALSE
  /\ pc' = IF failed \/ state.endedBy = "human" THEN "close" ELSE "body"
  /\ UNCHANGED <<journal, occ, state, queue, wake, interrupt, cancelled, failed, answer, delivered, history>>

Cancel ==
  /\ faults < MaxFaults /\ ~cancelled /\ pc \notin {"close", "over"}
  /\ cancelled' = TRUE /\ abandoned' = TRUE /\ faults' = faults + 1
  /\ UNCHANGED <<journal, pc, occ, state, queue, active, wake, interrupt, failed, genVars, prompted, steered,
                 closing, late>>

\* Mutant of Open: only messages are marked.
OpenMessages == {i \in (Accepted \cap Messages) \ Consumed : disp[i] \notin {"unprocessed", "uncertain"}}

\* What closeInteractionInputs has still to mark.
Open == {i \in Accepted \ Consumed : disp[i] \notin {"unprocessed", "uncertain"}}

\* Their dispositions are committed one by one.
CloseInputs ==
  /\ pc = "close" /\ Open # {}
  /\ disp' = [disp EXCEPT ![First(Open)] = "unprocessed"]
  /\ UNCHANGED <<order, saved, session, scopeEnded, runEnded, loopVars, genVars, history>>

EndScope ==
  /\ pc = "close" /\ Open = {}
  /\ scopeEnded' = TRUE /\ pc' = "ended"
  /\ UNCHANGED <<order, disp, saved, session, runEnded, occ, state, queue, active, wake, interrupt, cancelled,
                 failed, genVars, history>>

EndRun ==
  /\ pc = "ended"
  /\ runEnded' = TRUE /\ pc' = "over"
  /\ UNCHANGED <<order, disp, saved, session, scopeEnded, occ, state, queue, active, wake, interrupt,
                 cancelled, failed, genVars, history>>

-----------------------------------------------------------------------------
\* The process dies, perhaps inside the adapter's Steer, and the next one
\* enters the body again.
Reenter ==
  /\ faults < MaxFaults /\ ~runEnded
  /\ faults' = faults + 1
  /\ steered' \in {steered} \cup (IF pc = "steering" THEN {Append(steered, First(queue))} ELSE {})
  /\ pc' = "body" /\ occ' = 0 /\ state' = Fresh /\ queue' = {}
  /\ active' = FALSE /\ wake' = FALSE /\ interrupt' = FALSE /\ cancelled' = FALSE /\ failed' = FALSE
  /\ turn' = "none" /\ answer' = None /\ delivered' = FALSE
  /\ UNCHANGED <<journal, prompted, closing, late, abandoned>>

Init ==
  /\ order = <<>> /\ disp = [i \in Inputs |-> None] /\ saved = [o \in Occurrences |-> Fresh]
  /\ outcome = [i \in Messages |-> None] /\ taken = {} /\ scopeEnded = FALSE /\ runEnded = FALSE
  /\ pc = "body" /\ occ = 0 /\ state = Fresh /\ queue = {}
  /\ active = FALSE /\ wake = FALSE /\ interrupt = FALSE /\ cancelled = FALSE /\ failed = FALSE
  /\ turn = "none" /\ answer = None /\ delivered = FALSE
  /\ prompted = {} /\ steered = <<>> /\ closing = None /\ late = {} /\ abandoned = FALSE
  /\ faults = 0

OwnerStep ==
  \/ Enter \/ BodyReturn \/ LeaveCancelled \/ TakeFinish \/ Park \/ Woken \/ TakeStop
  \/ \E ok \in BOOLEAN : TakeConfigure(ok)
  \/ StartTurn \/ LookRunning \/ Assign \/ SteerBegin \/ \E a \in SteerAnswers : SteerEnd(a)
  \/ SettleInput \/ SettleUnresolved \/ SettleFailed \/ Settle \/ Leave \/ CloseInputs \/ EndScope \/ EndRun

TurnStep ==
  \/ DispatchRefused \/ DispatchSaved \/ Dispatch \/ Send \/ TurnSettle
  \/ \E a \in Answers \cup {"cancelled"} : NativeReturn(a)

Next ==
  \/ OwnerStep \/ TurnStep \/ NativeEvent
  \/ \E i \in Inputs : Accept(i)
  \/ Cancel \/ Reenter

Spec == Init /\ [][Next]_vars

\* The owner loop and the generation go on; a native turn is only certain to
\* return once its ctx is done (HarnessAdapter), Steer's native call returns.
Goes == TurnStep /\ (turn = "native" => interrupt \/ cancelled)
FairSpec == Spec /\ WF_vars(OwnerStep) /\ WF_vars(Goes)

-----------------------------------------------------------------------------
(* Properties *)

States == [active : Messages \cup {None}, published : BOOLEAN, consumed : SUBSET Inputs,
           endedBy : {None, "agent", "human"}, unresolved : BOOLEAN, waiting : BOOLEAN,
           transcript : Seq({"user", "assistant"} \X Messages)]

Dispositions == {None, "pending", "inflight", "delivered", "uncertain", "unprocessed"}

JournalTypes ==
  /\ order \in Seq(Inputs) /\ disp \in [Inputs -> Dispositions] /\ saved \in [Occurrences -> States]
  /\ outcome \in [Messages -> Replies \cup {None, "error", "cancelled"}] /\ taken \subseteq Messages
  /\ scopeEnded \in BOOLEAN /\ runEnded \in BOOLEAN

LoopTypes ==
  /\ pc \in {"body", "look", "parked", "assign", "steer", "steering", "select", "settle", "leave", "close",
             "ended", "over"}
  /\ occ \in 0..MaxOccurrences /\ state \in States /\ queue \subseteq Inputs
  /\ active \in BOOLEAN /\ wake \in BOOLEAN /\ interrupt \in BOOLEAN
  /\ cancelled \in BOOLEAN /\ failed \in BOOLEAN

TurnTypes ==
  /\ turn \in {"none", "begun", "running", "native", "returned", "refused", "done"}
  /\ answer \in Replies \cup Unresolved \cup {None, "error", "cancelled"} /\ delivered \in BOOLEAN

HistoryTypes ==
  /\ prompted \subseteq Messages /\ steered \in Seq(Messages) /\ closing \in Messages \cup {None}
  /\ late \subseteq Messages /\ abandoned \in BOOLEAN /\ faults \in Nat

\* The state keeps its types.
TypeOK == JournalTypes /\ LoopTypes /\ TurnTypes /\ HistoryTypes

\* Whatever races, fails or dies, a message reaches the native session in one
\* way: as the prompt of its own turn or by one steer, never by both and never
\* by a second steer ("an in-flight message cannot also be dispatched as a new
\* prompt; unknown delivery is reported, not automatically resent").
AssignedOnce ==
  \A k \in 1..Len(steered) :
    /\ steered[k] \notin prompted
    /\ \A l \in 1..Len(steered) : steered[k] = steered[l] => k = l

\* An input whose delivery is in doubt ends the interaction with the turn it was
\* meant for, also after a death: an idle owner never has one next, so that it
\* can neither resend it nor go on behind it.
UncertainEndsWithItsTurn ==
  Idle /\ Work => disp[Input] \notin {"uncertain", "inflight"}

\* After Finish was accepted no turn is started, but the one that was already
\* assigned to the active input.
FinishPreventsTurns == late \subseteq {closing}

\* The committed transcripts of all occurrences show each message and each
\* reply at most once, and a reply after its message.
TranscriptInOrder ==
  LET T(o) == saved[o].transcript
  IN  \A o, p \in Occurrences : \A k \in 1..Len(T(o)) :
        /\ \A l \in 1..Len(T(p)) : T(o)[k] = T(p)[l] => o = p /\ k = l
        /\ T(o)[k][1] = "assistant" => \E l \in 1..(k - 1) : T(o)[l] = <<"user", T(o)[k][2]>>

\* When the run is over every accepted input was consumed by an occurrence or
\* is visibly unprocessed or uncertain.
NothingLost == runEnded => \A i \in Accepted : i \in Consumed \/ disp[i] \in {"unprocessed", "uncertain"}

\* A reply of the native turn is kept although a Stop or a death raced it: an
\* input whose turn answered is not let go without the answer.
ReplyIsKept ==
  \A i \in Messages :
    /\ outcome[i] = "chat" /\ ~abandoned
    /\ i \in Consumed /\ \A o \in Occurrences : saved[o].active # i
    => \E o \in Occurrences : \E k \in 1..Len(saved[o].transcript) :
         saved[o].transcript[k] = <<"assistant", i>>

\* A Stop or Finish that was accepted, whenever it comes, wakes the owner and is
\* consumed, or is visibly unprocessed when its scope ends.
ControlsTakeEffect ==
  \A i \in Stops \cup Finishes : (i \in Accepted) ~> (i \in Consumed \/ disp[i] = "unprocessed")
=============================================================================
