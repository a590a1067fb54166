---------------------------- MODULE TaskScheduler ----------------------------
(***************************************************************************)
(* The durable task scheduler of a Harness: ownership of tasks, abort      *)
(* marks and their cascades, held outcomes, waits and sleeps, reservation  *)
(* and the invocations of task code, and recovery after a crash or close.  *)
(*                                                                         *)
(* packages/durable/src/harness/scheduler.ts (TaskScheduler).  Each of its *)
(* decisions is one callback on the Session line that reads published      *)
(* state only (GroupCommit), so a step below is such a                     *)
(* callback with the publication that follows (Observe), a run of task     *)
(* code up to its next commit, or a step of the host.  The ownership       *)
(* indexes are caches of the tree, which is constant here.                 *)
(***************************************************************************)
EXTENDS Integers, FiniteSets

CONSTANTS Tasks, Conversations,
          Top,             \* above an ownerless conversation
          Up,              \* the parent of each task and conversation
          Background,      \* background tasks
          Abandonable,     \* tasks created with abandonOnRestart
          SelfLimiting,    \* tasks of a kind limitsRestarts() names
          RestartLimit,    \* settings.restartLimit
          Abilities,       \* what task code and clients do in this instance
          MaxCrashes       \* bound: times the process dies

Nodes == Tasks \cup Conversations

ASSUME TreeAssumption ==
  /\ Up \in [Nodes -> Nodes \cup {Top}] /\ Top \notin Nodes /\ Tasks \cap Conversations = {}
  /\ \A t \in Tasks : Up[t] # Top
  /\ \A c \in Conversations : Up[c] \in Tasks \cup {Top}
  \* A child task cannot be background.
  /\ Background \subseteq {t \in Tasks : Up[t] \in Conversations}
  /\ Abandonable \subseteq Tasks /\ SelfLimiting \subseteq Tasks
ASSUME LimitAssumption == RestartLimit \in Nat \ {0} /\ MaxCrashes \in Nat

VARIABLES
  status, mark, outcome, restarts,   \* the durable record of each task
  on,                                \* what a waiting task waits on
  failFast,                          \* waiting tasks with that policy
  convs,                             \* conversations that exist
  queued                             \* conversations with queued inputs

VARIABLES
  runnable, finalizeChecks, failFastChecks, abandoned,   \* candidates of passes
  cascade,       \* #cascadePending
  reconcile,     \* #reconcileScheduled
  dirty,         \* #dirty: a reservation pass is due
  timer,         \* the sleeps the timer was armed for; it is set for the earliest
  idleWait,      \* scopes with idle waiters
  inv,           \* where the invocation of each task is
  moved,         \* invocations whose phase committed a new checkpoint
  stale          \* invocations whose definition was replaced

VARIABLES
  up, enabled,
  stopped,       \* invocations that close stopped
  lastEnd,       \* how the last process ended
  crashes,
  due,           \* sleeping tasks whose time has come
  fits           \* tasks that a registered definition can take

recVars == <<status, mark, outcome, restarts, on, failFast>>
passVars == <<runnable, finalizeChecks, failFastChecks, abandoned>>
memVars == <<passVars, cascade, reconcile, dirty, timer, idleWait>>
invVars == <<inv, moved, stale>>
procVars == <<up, enabled, stopped, lastEnd, crashes>>
vars == <<recVars, convs, queued, memVars, invVars, procVars, due, fits>>

Harness == "harness"    \* the scope of every ownerless conversation

Live(t) == status[t] \in {"pending", "running", "waiting", "sleeping", "completing"}
FailedOutcome(t) == status[t] \in {"completing", "terminal"} /\ outcome[t] # "completed"
\* cancellationIntent()
Intent(t) == Live(t) /\ (mark[t] # "none" \/ FailedOutcome(t))
Working(t) == Live(t) /\ status[t] # "completing"

-----------------------------------------------------------------------------
(* Ownership                                                                *)

\* #above(): what a walk up from n passes, `stops` included but not what is above
\* them: the least set with n's parent and the parents of its own members.
WalkUp(n, stops) ==
  {m \in Nodes : \A C \in SUBSET Nodes :
     Up[n] \in C \cup {Top} /\ (\A x \in C \ stops : Up[x] \in C \cup {Top}) => m \in C}

\* The nodes from which ordinary traversal reaches n: those above it, up to and
\* including the first background task.
Reach == [n \in Nodes |-> WalkUp(n, Background)]

\* Every node above n.
Above == [n \in Nodes |-> WalkUp(n, {})]

\* A parent exists before what is created below it.
ASSUME AcyclicAssumption == \A n \in Nodes : n \notin Above[n]

Owners == [n \in Nodes |-> Reach[n] \cap Tasks]
Owned == [o \in Tasks |-> {t \in Tasks \ Background : o \in Owners[t]}]
\* #ownedLive(): the live ordinary owned work of o.
OwnedLive(o) == {t \in Owned[o] : Live(t)}
\* #belowCancelled()
BelowCancelled(n) == \E o \in Owners[n] : Intent(o)
\* #cancellingOwner(): the nearest owner with cancellation intent.
Cancelling(o, t) ==
  /\ o \in Owners[t] /\ Intent(o)
  /\ ~\E p \in Owners[t] : Intent(p) /\ o \in Owners[p]
\* #nearestLiveAbove() of ended ordinary work e.
NearestLiveAbove(o, e) ==
  /\ e \notin Background /\ o \in Owners[e] /\ Live(o)
  /\ ~\E p \in Owners[e] : Live(p) /\ o \in Owners[p]

\* The scopes from which ordinary traversal reaches t (#inScope()).
Scopes == [t \in Tasks |->
  LET cs == Conversations \cap Reach[t]
  IN  cs \cup {s \in {Harness} : \E c \in cs : Up[c] = Top}]
\* #idle()
Idle(s) == \A t \in Tasks \ Background : Live(t) => s \notin Scopes[t]

-----------------------------------------------------------------------------
(* Publication                                                              *)

\* notDue() fails for these: asleep, unmarked, not due.
Sleepers == {t \in Tasks : status[t] = "sleeping" /\ mark[t] = "none" /\ t \notin due}

\* Fault: an armed timer is kept, whatever came since.
WakeAtKept(sleepers) == IF timer # {} THEN timer ELSE sleepers

\* wake() and #armTimer(), in a microtask after a kick or a reconcile pass: the
\* timer is for the earliest of the sleeps not yet due.
WakeAt(sleepers) == IF enabled /\ up = "open" THEN sleepers ELSE {}

\* What the candidates of the passes are before a publication.
Mem == [run |-> runnable, fin |-> finalizeChecks, ff |-> failFastChecks,
        casc |-> cascade, rec |-> reconcile]

\* The tasks that wait on ended ones.
Waiters(ended) == {w \in Tasks : on'[w] \cap ended # {}}

\* #release(): the nearest live tasks above ended ones.
Freed(ended) == {o \in Tasks : \E e \in ended : NearestLiveAbove(o, e)'}

\* Fault: a member that fails later is not noticed.
RecheckedNew(W, failed) == {w \in failFast' : w \in W /\ w \notin failFast}

\* failFast waits to check: new ones, and those with a member that failed now.
Rechecked(W, failed) ==
  {w \in failFast' : on'[w] \cap failed # {} \/ (w \in W /\ w \notin failFast)}

\* #observe(): a commit wrote the tasks W.  #track() brings the candidates in
\* line, what is owed to a later reconcile pass is noted, and #kick() asks for a
\* reservation pass.
Observe(W, m) ==
  LET ended == {t \in W : status'[t] = "terminal"}
      held == {t \in W : status'[t] = "completing"}
      failedNow == {t \in W : FailedOutcome(t)' /\ ~FailedOutcome(t)}
      marked == {o \in Freed(ended) : mark'[o] # "none"}
      checks == Rechecked(W, failedNow)
      spreads(t) ==
        \/ Live(t)' /\ mark[t] # mark'[t]
        \/ t \in held /\ status[t] # "completing" /\ Intent(t)'
        \/ status[t] = "none" /\ t \notin Background /\ BelowCancelled(t)'
  IN  /\ runnable' = {t \in m.run \cup W \cup Waiters(ended) \cup marked : Working(t)'}
      /\ finalizeChecks' = {t \in m.fin \cup held \cup Freed(ended) : status'[t] = "completing"}
      /\ failFastChecks' = (m.ff \ ended) \cup checks
      /\ cascade' = (m.casc \/ \E t \in W : spreads(t))
      /\ reconcile' =
           (up = "open" /\ (m.rec \/ cascade' \/ ended # {} \/ checks # {}
                            \/ \E t \in held : status[t] # "completing"))
      /\ dirty' = TRUE /\ timer' = IF W = {} THEN timer ELSE WakeAt(Sleepers')

\* Fault: a task that ends settles only waits for the whole Harness.
SettleIdleHarness(W) == idleWait' = {s \in idleWait : ~(s = Harness /\ Idle(s)')}

\* #settleIdle(): only a task that became live or ended changes the idleness of
\* the scopes above it (#addScopesAbove()).
SettleIdle(W) ==
  LET turned == {t \in W : status[t] = "none" \/ status'[t] = "terminal"}
      scopes == {Harness} \cup UNION {Scopes[t] : t \in turned}
  IN  idleWait' = {s \in idleWait : ~(s \in scopes /\ Idle(s)')}

\* A state other than `waiting` has no `on`; a sleep that ended is not due.
StatesKept ==
  /\ on' = [t \in Tasks |-> IF status'[t] = "waiting" THEN on[t] ELSE {}]
  /\ failFast' = {t \in failFast : status'[t] = "waiting"}
  /\ due' = {t \in due : status'[t] = "sleeping"}

\* withAbortMark(): the tasks S get the mark m; restarts count from zero.
SetMarks(S, m) ==
  /\ mark' = [t \in Tasks |-> IF t \in S THEN m ELSE mark[t]]
  /\ restarts' = [t \in Tasks |-> IF t \in S THEN 0 ELSE restarts[t]]

\* Fault: only work that the same commit creates is counted.
HoldsNewOnly(t, new) == \E n \in new \ Background : t \in Owners[n]

\* Whether ordinary owned work of t is live after a commit that creates `new`.
Holds(t, new) == OwnedLive(t) # {} \/ \E n \in new \ Background : t \in Owners[n]

\* An outcome of t, in a commit that also creates the tasks `new`, holds as
\* `completing` while ordinary owned work is live (#terminate(), #commitState()).
SetOutcome(t, o, new) ==
  /\ status' = [u \in Tasks |-> IF u = t THEN IF Holds(t, new) THEN "completing" ELSE "terminal"
                                ELSE IF u \in new THEN "pending" ELSE status[u]]
  /\ outcome' = [outcome EXCEPT ![t] = o]
  /\ restarts' = [restarts EXCEPT ![t] = 0]

-----------------------------------------------------------------------------
(* Clients                                                                  *)

\* A commit admitted before the seal of a close may land after it.
Admitted == up \in {"open", "closing"}

\* #validateOwners() of Transaction: new owned work needs a live, unmarked owner.
ValidOwner(n) == Up[n] \in Tasks => Working(Up[n]) /\ mark[Up[n]] = "none"

Creatable(t) ==
  /\ status[t] = "none" /\ ValidOwner(t)
  /\ Up[t] \in Conversations => Up[t] \in convs

\* A commit of a client or of task code creates a task.
Create(t) ==
  /\ Admitted /\ Creatable(t)
  /\ status' = [status EXCEPT ![t] = "pending"]
  /\ UNCHANGED <<mark, outcome, restarts>>
  /\ StatesKept /\ Observe({t}, Mem) /\ SettleIdle({t})
  /\ UNCHANGED <<convs, queued, abandoned, invVars, procVars, fits>>

CreateConversation(c) ==
  /\ Admitted /\ c \notin convs /\ ValidOwner(c)
  /\ convs' = convs \cup {c}
  /\ UNCHANGED <<recVars, queued, memVars, invVars, procVars, due, fits>>

\* Fault: an input queued after the cascade is left alone.
SubmitQuiet(c) ==
  /\ "submit" \in Abilities
  /\ Admitted /\ c \in convs \ queued
  /\ queued' = queued \cup {c}
  /\ UNCHANGED <<recVars, convs, memVars, invVars, procVars, due, fits>>

\* An input is queued: below a cancelled owner it is withdrawn, even after the
\* owner's cascade.
Submit(c) ==
  /\ "submit" \in Abilities
  /\ Admitted /\ c \in convs \ queued
  /\ queued' = queued \cup {c}
  /\ cascade' = (cascade \/ BelowCancelled(c))
  /\ reconcile' = (up = "open" /\ (reconcile \/ cascade'))
  /\ UNCHANGED <<recVars, convs, passVars, dirty, timer, idleWait, invVars, procVars, due, fits>>

\* No definition can take t, nothing below is live, and it has no invocation.
Orphanable(t) ==
  inv[t] = "none" /\ status[t] # "completing" /\ OwnedLive(t) = {} /\ t \notin fits

\* abort() of a task: orphaned at once, or marked; a request replaces `restart`.
Abort(t) ==
  /\ "abort" \in Abilities
  /\ Admitted /\ Live(t)
  /\ \/ Orphanable(t) /\ SetOutcome(t, "orphaned", {}) /\ UNCHANGED mark
     \/ /\ ~Orphanable(t) /\ mark[t] # "request"
        /\ SetMarks({t}, "request") /\ UNCHANGED <<status, outcome>>
  /\ StatesKept /\ Observe({t}, Mem) /\ SettleIdle({t})
  /\ UNCHANGED <<convs, queued, abandoned, invVars, procVars, fits>>

\* abortConversation(): marks what traversal from c reaches, with `background`
\* across and including background tasks, and withdraws the queued inputs.
AbortConversation(c, background) ==
  LET reached == {t \in Tasks : Live(t) /\ mark[t] # "request"
                    /\ IF background THEN c \in Above[t]
                       ELSE t \notin Background /\ c \in Reach[t]}
      within == {d \in queued : d = c \/ c \in IF background THEN Above[d] ELSE Reach[d]}
  IN  /\ "abort" \in Abilities
      /\ Admitted /\ c \in convs
      /\ queued' = queued \ within
      /\ \/ /\ reached # {}
            /\ SetMarks(reached, "request") /\ UNCHANGED <<status, outcome>>
            /\ StatesKept /\ Observe(reached, Mem) /\ SettleIdle(reached)
            /\ UNCHANGED abandoned
         \/ reached = {} /\ within # {} /\ UNCHANGED <<recVars, memVars, due>>
      /\ UNCHANGED <<convs, invVars, procVars, fits>>

\* waitForIdle(): a waiter of a busy scope is registered; a reconcile pass checks
\* it again.
WaitForIdle(s) ==
  /\ "idle" \in Abilities
  /\ up = "open" /\ ~Idle(s)
  /\ idleWait' = idleWait \cup {s}
  /\ reconcile' = TRUE
  /\ UNCHANGED <<recVars, convs, queued, passVars, cascade, dirty, timer, invVars, procVars,
                 due, fits>>

-----------------------------------------------------------------------------
(* The reconcile pass                                                       *)

\* #planMarks(): the tasks the pass marks with a request, or with `restart`.
\* The work below an owner abandoned after a restart gets its reason, any other
\* cancellation marks as a request; a failed member of a failFast wait marks the
\* others.
CascadeMarks(reason) ==
  {t \in Tasks \ Background :
     /\ Live(t)
     /\ \E o \in Tasks : /\ Cancelling(o, t)
                         /\ reason = IF mark[o] = "restart" /\ ~FailedOutcome(o)
                                     THEN "restart" ELSE "request"
     /\ mark[t] = "none" \/ (mark[t] = "restart" /\ reason = "request")}

FailFastMarks(checked) ==
  UNION {{t \in on[w] : Live(t) /\ ~FailedOutcome(t) /\ mark[t] # "request"} :
           w \in {w \in checked : status[w] = "waiting" /\ \E m \in on[w] : FailedOutcome(m)}}

\* #finalize(): held outcomes without live work below, round by round upwards.
Finalized ==
  {t \in Tasks : \A c \in OwnedLive(t) \cup {t} :
     status[c] = "completing" /\ (OwnedLive(c) = {} => c \in finalizeChecks)}

Withdrawn == {c \in queued : cascade /\ BelowCancelled(c)}

\* The marks and final records of a pass: a request wins over a `restart` mark.
PlanReconcile ==
  LET requests == CascadeMarks("request") \cup FailFastMarks(failFastChecks)
  IN  [requests |-> requests, abandons |-> CascadeMarks("restart") \ requests, ends |-> Finalized]

\* #reconcile(): one commit of marks, withdrawn inputs and final records.  A
\* pass that writes no task publishes nothing and kicks nobody, but recomputes
\* the wake.
Reconcile ==
  /\ up = "open" /\ reconcile
  /\ \E plan \in {PlanReconcile} :
       LET W == plan.requests \cup plan.abandons \cup plan.ends
       IN  /\ mark' = [t \in Tasks |-> IF t \in plan.requests THEN "request"
                                       ELSE IF t \in plan.abandons THEN "restart" ELSE mark[t]]
           /\ restarts' = [t \in Tasks |-> IF t \in W THEN 0 ELSE restarts[t]]
           /\ status' = [t \in Tasks |-> IF t \in plan.ends THEN "terminal" ELSE status[t]]
           /\ UNCHANGED outcome
           /\ StatesKept
           /\ \/ /\ W # {}
                 /\ Observe(W, [run |-> runnable, fin |-> {}, ff |-> {}, casc |-> FALSE,
                                rec |-> FALSE])
              \/ /\ W = {}
                 /\ finalizeChecks' = {} /\ failFastChecks' = {}
                 /\ cascade' = FALSE /\ reconcile' = FALSE
                 /\ timer' = WakeAt(Sleepers)
                 /\ UNCHANGED <<runnable, dirty>>
  /\ queued' = queued \ Withdrawn
  /\ idleWait' = {s \in idleWait : ~Idle(s)'}
  /\ UNCHANGED <<convs, abandoned, invVars, procVars, fits>>

-----------------------------------------------------------------------------
(* Reservation                                                              *)

\* Fault: an abort handler waits for direct children only.
WaitingOnChildren(t) ==
  IF mark[t] # "none" THEN {m \in OwnedLive(t) : Up[m] = t} ELSE {m \in on[t] : Live(m)}

\* #waitingOn(): abort runs bottom-up; a wait ends with what it waits on.
WaitingOn(t) ==
  IF mark[t] # "none" THEN OwnedLive(t) ELSE {m \in on[t] : Live(m)}

\* Fault: one restart too many.
CutOffLate(t) == restarts[t] > RestartLimit /\ (mark[t] # "none" \/ t \notin SelfLimiting)

\* A task cut off `restartLimit` times ends, unless its kind ends itself.
CutOff(t) == restarts[t] >= RestartLimit /\ (mark[t] # "none" \/ t \notin SelfLimiting)

\* Work below a cancelled owner waits for its mark instead of running.
HeldBack(t) == mark[t] = "none" /\ t \notin Background /\ BelowCancelled(t)

\* #planReservation(): a candidate that is not dropped.
Candidate(t) == inv[t] = "none" /\ Working(t) /\ WaitingOn(t) = {} /\ t \notin Sleepers

\* The first pass after open only marks the tasks abandoned at the restart.
Abandon ==
  LET unmarked == {t \in abandoned : Live(t) /\ mark[t] = "none"}
  IN  /\ up = "open" /\ enabled /\ dirty /\ abandoned # {}
      /\ SetMarks(unmarked, "restart")
      /\ abandoned' = {}
      /\ UNCHANGED <<status, outcome>>
      /\ StatesKept /\ Observe(unmarked, Mem) /\ SettleIdle(unmarked)
      /\ UNCHANGED <<convs, queued, invVars, procVars, fits>>

\* What a reservation pass does with its candidates; what it leaves is still a
\* candidate.  A due sleep is one in every pass.
PlanReservation ==
  LET cands == {t \in runnable \cup {s \in Tasks : status[s] = "sleeping"} : Candidate(t)}
      ready == {t \in cands : ~HeldBack(t)}
      cut == {t \in ready : CutOff(t)}
      reserved == (ready \ cut) \cap fits
  IN  [cut |-> cut, reserved |-> reserved, left |-> cands \ reserved,
       orphans |-> {t \in ready \ (cut \cup fits) : mark[t] = "request"},
       cascade |-> cascade \/ cands # ready]

\* #reserve(): every ready candidate, in one commit.  `hold` are the cut-off
\* tasks whose outcome holds: an outcome counts the candidates' ends staged
\* before it, in whatever order the pass takes them.
Reserve ==
  /\ up = "open" /\ enabled /\ dirty /\ abandoned = {}
  /\ \E plan \in {PlanReservation} :
       LET ends == plan.cut \cup plan.orphans
           W == ends \cup {t \in plan.reserved : status[t] # "running"}
           m == [run |-> plan.left, fin |-> finalizeChecks, ff |-> failFastChecks,
                 casc |-> plan.cascade, rec |-> (reconcile \/ plan.cascade)]
       IN  /\ \E hold \in SUBSET plan.cut :
                /\ \A t \in plan.cut : OwnedLive(t) \ ends # {} => t \in hold
                /\ \A t \in hold : OwnedLive(t) # {}
                /\ \A t \in plan.cut \ hold : OwnedLive(t) \cap hold = {}
                /\ status' = [t \in Tasks |->
                     IF t \in hold THEN "completing" ELSE IF t \in ends THEN "terminal"
                     ELSE IF t \in plan.reserved THEN "running" ELSE status[t]]
           /\ outcome' = [t \in Tasks |-> IF t \in plan.cut THEN "faulted"
                             ELSE IF t \in plan.orphans THEN "orphaned" ELSE outcome[t]]
           /\ restarts' = [t \in Tasks |-> IF t \in ends THEN 0 ELSE restarts[t]]
           /\ UNCHANGED mark
           /\ inv' = [t \in Tasks |-> IF t \notin plan.reserved THEN inv[t]
                                      ELSE IF mark[t] = "none" THEN "runStart" ELSE "abortPhase"]
           /\ StatesKept
           /\ \/ W # {} /\ Observe(W, m)
              \/ /\ W = {}
                 /\ runnable' = m.run /\ cascade' = m.casc /\ reconcile' = m.rec /\ dirty' = FALSE
                 /\ UNCHANGED <<finalizeChecks, failFastChecks, timer>>
           /\ SettleIdle(W)
  /\ UNCHANGED <<convs, queued, abandoned, moved, stale, procVars, fits>>

-----------------------------------------------------------------------------
(* Invocations                                                              *)

\* Fault: nobody is told.
KickNone == UNCHANGED <<dirty, timer>>

\* #kick(), with no commit.
Kick == dirty' = (up = "open") /\ timer' = WakeAt(Sleepers)

\* Fault: progress is remembered across invocations.
EndMoved(t) == inv' = [inv EXCEPT ![t] = "none"] /\ UNCHANGED moved /\ stale' = stale \ {t}

\* #end(): the invocation is gone.
End(t) == inv' = [inv EXCEPT ![t] = "none"] /\ moved' = moved \ {t} /\ stale' = stale \ {t}

\* Fault: the task is no candidate again.
CandidatesKept(t) == runnable

\* The task of an invocation that ended is a candidate again.
CandidatesWith(t) == IF Live(t) THEN runnable \cup {t} ELSE runnable

\* The invocation ends without a write.
EndsPlainly(t, owes) ==
  /\ End(t)
  /\ runnable' = CandidatesWith(t)
  /\ cascade' = (cascade \/ owes) /\ reconcile' = (up = "open" /\ (reconcile \/ owes))
  /\ Kick
  /\ UNCHANGED <<recVars, finalizeChecks, failFastChecks, idleWait, due>>

\* Rule 4 and 6, or an abort handler without an outcome: the task is faulted.
Faults(t) ==
  /\ SetOutcome(t, "faulted", {}) /\ UNCHANGED mark
  /\ End(t)
  /\ StatesKept /\ Observe({t}, Mem) /\ SettleIdle({t})

\* Rule 5: a replaced definition that can take the task hands over, as `pending`.
HandsOver(t) ==
  /\ status' = [status EXCEPT ![t] = "pending"] /\ UNCHANGED <<mark, outcome, restarts>>
  /\ End(t)
  /\ StatesKept /\ Observe({t}, Mem) /\ SettleIdle({t})

Continues(t) ==
  /\ inv' = [inv EXCEPT ![t] = "runPhase"] /\ moved' = moved \ {t}
  /\ UNCHANGED <<recVars, runnable, finalizeChecks, failFastChecks, cascade, reconcile, dirty,
                 timer, idleWait, stale, due>>

\* #step() and #rules(), before each phase of a run.
Step(t) ==
  /\ up # "down" /\ inv[t] \in {"runStart", "runReturned", "runThrew"}
  /\ LET halts == up = "closing" \/ status[t] # "running" \/ mark[t] # "none"
     IN  \/ halts /\ EndsPlainly(t, FALSE)
         \/ ~halts /\ HeldBack(t) /\ EndsPlainly(t, TRUE)
         \/ /\ ~halts /\ ~HeldBack(t)
            /\ \/ inv[t] = "runStart" /\ Continues(t)
               \/ inv[t] = "runThrew" /\ Faults(t)
               \/ inv[t] = "runReturned" /\ t \notin moved /\ Faults(t)
               \/ inv[t] = "runReturned" /\ t \in moved
                  /\ IF t \in stale /\ t \in fits THEN HandsOver(t) ELSE Continues(t)
  /\ UNCHANGED <<convs, queued, abandoned, procVars, fits>>

\* The step after an abort handler.
AbortStep(t) ==
  /\ up # "down" /\ inv[t] = "abortDone"
  /\ IF up = "closing" \/ status[t] # "running" THEN EndsPlainly(t, FALSE) ELSE Faults(t)
  /\ UNCHANGED <<convs, queued, abandoned, procVars, fits>>

\* The phase handler, or the abort handler, returns or throws.
Returns(t) ==
  /\ up # "down" /\ inv[t] \in {"runPhase", "abortPhase"}
  /\ inv' = [inv EXCEPT ![t] = IF inv[t] = "abortPhase" THEN "abortDone" ELSE "runReturned"]
  /\ UNCHANGED <<recVars, convs, queued, memVars, moved, stale, procVars, due, fits>>

Throws(t) ==
  /\ "throw" \in Abilities
  /\ up # "down" /\ inv[t] = "runPhase"
  /\ inv' = [inv EXCEPT ![t] = "runThrew"]
  /\ UNCHANGED <<recVars, convs, queued, memVars, moved, stale, procVars, due, fits>>

\* Fault: any live record lets a commit through.
GatedLive(t) ==
  /\ up = "open" /\ Live(t)
  /\ inv[t] = "abortPhase" \/ (inv[t] = "runPhase" /\ mark[t] = "none")

\* #gated(): a runtime commit needs the record running, and unmarked for a run.
Gated(t) ==
  /\ up = "open" /\ status[t] = "running"
  /\ inv[t] = "abortPhase" \/ (inv[t] = "runPhase" /\ mark[t] = "none")

\* A checkpoint that differs from the current one is progress; it may be the
\* one the phase started with.
CommitCheckpoint(t) ==
  /\ "checkpoint" \in Abilities
  /\ restarts' = [restarts EXCEPT ![t] = 0]
  /\ moved' \in {moved \cup {t}} \cup (IF t \in moved THEN {moved \ {t}} ELSE {})
  /\ UNCHANGED <<status, mark, outcome>>
  /\ StatesKept /\ Observe({t}, Mem) /\ SettleIdle({t})
  /\ UNCHANGED <<convs, queued, abandoned, inv, stale, procVars, fits>>

CommitOutcome(t, o, new) ==
  /\ new = {} \/ "spawn" \in Abilities
  /\ \A n \in new : Creatable(n) /\ Up[n] # t
  /\ SetOutcome(t, o, new) /\ UNCHANGED mark
  /\ StatesKept /\ Observe({t} \cup new, Mem) /\ SettleIdle({t} \cup new)
  /\ UNCHANGED <<convs, queued, abandoned, invVars, procVars, fits>>

CommitSleep(t, past) ==
  /\ "sleep" \in Abilities
  /\ inv[t] = "runPhase"
  /\ status' = [status EXCEPT ![t] = "sleeping"]
  /\ restarts' = [restarts EXCEPT ![t] = 0]
  /\ due' = IF past THEN due \cup {t} ELSE due
  /\ UNCHANGED <<mark, outcome, on, failFast>>
  /\ Observe({t}, Mem) /\ SettleIdle({t})
  /\ UNCHANGED <<convs, queued, abandoned, invVars, procVars, fits>>

\* x cannot settle before y.
WaitsFor(x, y) ==
  \/ status[x] = "waiting" /\ mark[x] = "none" /\ y \in on[x]
  \/ Live(x) /\ y \in OwnedLive(x)

WaitGraph == [x \in Tasks |-> {y \in Tasks : WaitsFor(x, y)}]

\* #waitCycle(): t is in S or beyond it in the wait-for graph.
Reached(S, t) ==
  \E G \in {WaitGraph} :
    \A C \in SUBSET Tasks : S \subseteq C /\ (\A x \in C : G[x] \subseteq C) => t \in C

\* Fault: only a wait on the task itself counts as a cycle.
NoCycleShort(t, S) == t \notin S

\* #checkWait(): a child already holds the waiter.
NoCycle(t, S) == ~Reached({m \in S : Live(m) /\ Up[m] # t}, t)

CommitWait(t, S, fast) ==
  /\ "wait" \in Abilities
  /\ inv[t] = "runPhase"
  /\ \A m \in S : status[m] # "none" /\ (fast => Up[m] = t)
  /\ NoCycle(t, S)
  /\ status' = [status EXCEPT ![t] = "waiting"]
  /\ restarts' = [restarts EXCEPT ![t] = 0]
  /\ on' = [on EXCEPT ![t] = S]
  /\ failFast' = IF fast THEN failFast \cup {t} ELSE failFast
  /\ UNCHANGED <<mark, outcome, due>>
  /\ Observe({t}, Mem) /\ SettleIdle({t})
  /\ UNCHANGED <<convs, queued, abandoned, invVars, procVars, fits>>

-----------------------------------------------------------------------------
(* Time, the registry and the process                                       *)

Elapse(t) ==
  /\ status[t] = "sleeping" /\ t \notin due
  /\ due' = due \cup {t}
  /\ UNCHANGED <<recVars, convs, queued, memVars, invVars, procVars, fits>>

\* #wakeDue() and #kick()
WakeDue ==
  /\ runnable' = runnable \cup {t \in Tasks : status[t] = "sleeping" /\ t \notin Sleepers}
  /\ dirty' = TRUE /\ timer' = Sleepers

TimerFires ==
  /\ up = "open" /\ timer \cap due # {}
  /\ WakeDue
  /\ UNCHANGED <<recVars, convs, queued, finalizeChecks, failFastChecks, abandoned, cascade,
                 reconcile, idleWait, invVars, procVars, due, fits>>

\* The registry changes: t's definition is installed, replaced or removed.
Install(t, fit) ==
  /\ "registry" \in Abilities
  /\ fits' = IF fit THEN fits \cup {t} ELSE fits \ {t}
  /\ stale' = IF inv[t] # "none" THEN stale \cup {t} ELSE stale
  /\ IF up = "open" THEN Kick ELSE UNCHANGED <<dirty, timer>>
  /\ UNCHANGED <<recVars, convs, queued, passVars, cascade, reconcile, idleWait, inv, moved,
                 procVars, due>>

Resume ==
  /\ up = "open"
  /\ enabled' = TRUE
  /\ WakeDue
  /\ UNCHANGED <<recVars, convs, queued, finalizeChecks, failFastChecks, abandoned, cascade,
                 reconcile, idleWait, invVars, up, stopped, lastEnd, crashes, due, fits>>

\* #seal()
Close ==
  /\ "close" \in Abilities
  /\ up = "open"
  /\ up' = "closing" /\ stopped' = {t \in Tasks : inv[t] # "none"}
  /\ timer' = {} /\ idleWait' = {} /\ reconcile' = FALSE /\ dirty' = FALSE
  /\ UNCHANGED <<recVars, convs, queued, passVars, cascade, invVars, enabled, lastEnd, crashes,
                 due, fits>>

\* The memory of the process is gone.
Gone ==
  /\ up' = "down" /\ enabled' = FALSE /\ stopped' = {}
  /\ inv' = [t \in Tasks |-> "none"] /\ moved' = {} /\ stale' = {}
  /\ runnable' = {} /\ finalizeChecks' = {} /\ failFastChecks' = {} /\ abandoned' = {}
  /\ cascade' = FALSE /\ reconcile' = FALSE /\ dirty' = FALSE /\ timer' = {} /\ idleWait' = {}

\* join(): once the stopped invocations ended, their tasks are `pending` again.
Join ==
  /\ up = "closing" /\ \A t \in Tasks : inv[t] = "none"
  /\ status' = [t \in Tasks |-> IF t \in stopped /\ status[t] = "running" THEN "pending"
                                ELSE status[t]]
  /\ lastEnd' = "closed"
  /\ Gone
  /\ UNCHANGED <<mark, outcome, restarts, on, failFast, convs, queued, crashes, due, fits>>

\* The process dies, or the Session fails.
Crash ==
  /\ up # "down" /\ crashes < MaxCrashes
  /\ crashes' = crashes + 1 /\ lastEnd' = "crashed"
  /\ Gone
  /\ UNCHANGED <<recVars, convs, queued, due, fits>>

\* The tasks the last process ran.
Interrupted == {t \in Tasks : status[t] = "running"}

\* open(): `running` tasks were cut off.  What a crash left unapplied is
\* derived again by a reconcile pass.
Open ==
  /\ up = "down"
  /\ up' = "open"
  /\ status' = [t \in Tasks |-> IF t \in Interrupted THEN "pending" ELSE status[t]]
  /\ restarts' = [t \in Tasks |-> IF t \in Interrupted THEN restarts[t] + 1 ELSE restarts[t]]
  /\ runnable' = {t \in Tasks : Working(t)}
  /\ finalizeChecks' = {t \in Tasks : status[t] = "completing"}
  /\ failFastChecks' = failFast
  /\ abandoned' = {t \in Abandonable : Live(t)}
  /\ cascade' = TRUE /\ reconcile' = TRUE /\ dirty' = (Interrupted # {})
  /\ UNCHANGED <<mark, outcome, on, failFast, convs, queued, timer, idleWait, invVars, enabled,
                 stopped, lastEnd, crashes, due, fits>>

-----------------------------------------------------------------------------

Init ==
  /\ status = [t \in Tasks |-> "none"] /\ mark = [t \in Tasks |-> "none"]
  /\ outcome = [t \in Tasks |-> "none"] /\ restarts = [t \in Tasks |-> 0]
  /\ on = [t \in Tasks |-> {}] /\ failFast = {} /\ queued = {}
  /\ convs = {c \in Conversations : Up[c] = Top}
  /\ runnable = {} /\ finalizeChecks = {} /\ failFastChecks = {} /\ abandoned = {}
  /\ cascade = FALSE /\ reconcile = FALSE /\ dirty = FALSE /\ timer = {} /\ idleWait = {}
  /\ inv = [t \in Tasks |-> "none"] /\ moved = {} /\ stale = {}
  /\ up = "down" /\ enabled = FALSE /\ stopped = {} /\ lastEnd = "closed" /\ crashes = 0
  /\ due = {} /\ fits = Tasks

Clients ==
  \/ \E t \in Tasks : Create(t) \/ Abort(t)
  \/ \E c \in Conversations : CreateConversation(c) \/ Submit(c)
  \/ \E c \in Conversations, b \in BOOLEAN : AbortConversation(c, b)
  \/ \E s \in Conversations \cup {Harness} : WaitForIdle(s)

\* A commit through the runtime of t's invocation.
RuntimeCommit(t) ==
  /\ Gated(t)
  /\ \/ CommitCheckpoint(t)
     \/ \E past \in BOOLEAN : CommitSleep(t, past)
     \/ \E S \in SUBSET Tasks, fast \in BOOLEAN : CommitWait(t, S, fast)
     \/ \E o \in {"completed", "failed"}, new \in {{}} \cup {{n} : n \in Tasks} :
          CommitOutcome(t, o, new)

Host ==
  \/ Resume \/ Close \/ Crash \/ Open
  \/ \E t \in Tasks, fit \in BOOLEAN : Install(t, fit)

Next ==
  \/ Clients \/ Host
  \/ Reconcile \/ Abandon \/ Reserve \/ TimerFires \/ Join
  \/ \E t \in Tasks : \/ RuntimeCommit(t) \/ Returns(t) \/ Throws(t)
                     \/ Step(t) \/ AbortStep(t) \/ Elapse(t)

Spec == Init /\ [][Next]_vars

\* The event loop runs what is queued; handlers return; a timer fires; time
\* passes.  Clients and the host need not act.
Fairness ==
  /\ WF_vars(Reconcile) /\ WF_vars(Abandon) /\ WF_vars(Reserve) /\ WF_vars(TimerFires)
  /\ WF_vars(Join)
  /\ \A t \in Tasks : /\ WF_vars(Returns(t)) /\ WF_vars(Step(t)) /\ WF_vars(AbortStep(t))
                      /\ WF_vars(Elapse(t))

FairSpec == Spec /\ Fairness

-----------------------------------------------------------------------------
(* Properties                                                               *)

Statuses == {"none", "pending", "running", "waiting", "sleeping", "completing", "terminal"}

RecordTypeOK ==
  /\ status \in [Tasks -> Statuses] /\ mark \in [Tasks -> {"none", "restart", "request"}]
  /\ outcome \in [Tasks -> {"none", "completed", "failed", "faulted", "orphaned"}]
  /\ restarts \in [Tasks -> Nat] /\ on \in [Tasks -> SUBSET Tasks] /\ failFast \subseteq Tasks
  /\ convs \subseteq Conversations /\ queued \subseteq convs
  /\ due \subseteq Tasks /\ fits \subseteq Tasks

MemoryTypeOK ==
  /\ runnable \subseteq Tasks /\ finalizeChecks \subseteq Tasks /\ failFastChecks \subseteq Tasks
  /\ abandoned \subseteq Tasks /\ timer \subseteq Tasks
  /\ cascade \in BOOLEAN /\ reconcile \in BOOLEAN /\ dirty \in BOOLEAN
  /\ idleWait \subseteq Conversations \cup {Harness}

ProcessTypeOK ==
  /\ inv \in [Tasks -> {"none", "runStart", "runPhase", "runReturned", "runThrew",
                        "abortPhase", "abortDone"}]
  /\ moved \subseteq Tasks /\ stale \subseteq Tasks /\ stopped \subseteq Tasks
  /\ up \in {"down", "open", "closing"} /\ enabled \in BOOLEAN
  /\ lastEnd \in {"closed", "crashed"} /\ crashes \in Nat

\* The records and the memory of the scheduler are well-formed: an outcome has
\* been decided exactly in the last two states, only tasks that exist are marked,
\* and what belongs to a wait, a sleep or an invocation is gone with it.
TypeOK ==
  /\ RecordTypeOK /\ MemoryTypeOK /\ ProcessTypeOK
  /\ \A t \in Tasks : outcome[t] # "none" <=> status[t] \in {"completing", "terminal"}
  /\ \A t \in Tasks : mark[t] # "none" => status[t] # "none"
  /\ \A t \in Tasks : on[t] # {} \/ t \in failFast => status[t] = "waiting"
  /\ \A t \in due : status[t] = "sleeping"
  /\ \A t \in moved \cup stale : inv[t] # "none"

\* The wait-for graph is acyclic (#validateWait()): no task waits for itself
\* through waits, held outcomes and the tasks they pass.
WaitsAcyclic == \A t \in Tasks : ~Reached({y \in Tasks : WaitsFor(t, y)}, t)

\* A task a reservation pass would take now.  Unmarked sleeps are left out: see
\* DueSleepRuns.
Reservable(t) ==
  /\ Candidate(t) /\ ~HeldBack(t) /\ ~(status[t] = "sleeping" /\ mark[t] = "none")
  /\ t \in fits \/ CutOff(t) \/ mark[t] = "request"

\* No lost wakeup: whenever a task can run, it is a candidate and a reservation
\* pass is due, whichever of its waits, owned work, invocation or definition
\* held it before.
WorkIsComing ==
  up = "open" /\ enabled => \A t \in Tasks : Reservable(t) => t \in runnable /\ dirty

\* What committed records imply is owed to a reconcile pass: held outcomes that
\* are free, marks below cancelled owners, marks of failed failFast waits, queued
\* inputs below cancelled owners.
ReconcileOwed ==
  up = "open" =>
    /\ \A t \in Tasks : status[t] = "completing" /\ OwnedLive(t) = {} =>
                          t \in finalizeChecks /\ reconcile
    /\ CascadeMarks("request") \cup CascadeMarks("restart") # {} => reconcile
    /\ FailFastMarks(failFast) # {} => reconcile /\ FailFastMarks(failFastChecks) # {}
    /\ (\E c \in queued : BelowCancelled(c)) => reconcile /\ cascade

\* An idle waiter waits for a busy scope: the end of the scope's last task
\* resolved it, also when only scopes above that task are looked at.
IdleWaitersBusy == \A s \in idleWait : ~Idle(s)

\* Every sleep has an alarm: whatever armed, fired or disarmed the timer last, it
\* is set for no later than each unmarked sleep that is not due yet.
SleepsTimed == up = "open" /\ enabled => Sleepers \subseteq timer

\* A crash loop ends: no task is cut off more often than the limit allows,
\* neither in its phases nor in its abort handler.
RestartsBounded ==
  \A t \in Tasks : mark[t] # "none" \/ t \notin SelfLimiting => restarts[t] <= RestartLimit

\* A task ends only once its ordinary owned work has ended, the work created in
\* the same commit included.
EndsDrained ==
  [][\A t \in Tasks : status[t] # "terminal" /\ status'[t] = "terminal" => OwnedLive(t)' = {}]_vars

\* A decided outcome is final, held or not, across crashes and restarts.
OutcomeFinal ==
  [][\A t \in Tasks : status[t] \in {"completing", "terminal"} =>
       outcome'[t] = outcome[t] /\ status'[t] \in {status[t], "terminal"}]_vars

\* Abort runs bottom-up: an abort handler starts when nothing below is live.
AbortBottomUp ==
  [][\A t \in Tasks : inv[t] # "abortPhase" /\ inv'[t] = "abortPhase" => OwnedLive(t)' = {}]_vars

Stays == <>[](up = "open" /\ enabled)

\* In a process that stays up, what was cancelled ends, and all of its ordinary
\* owned work before it.
CancelledEnds ==
  Stays => \A t \in Tasks :
             Live(t) /\ (mark[t] = "request" \/ FailedOutcome(t)) ~> status[t] = "terminal"

\* A sleeping task resumes once its time has come, in a process that stays up.
DueSleepRuns == Stays => \A t \in Tasks : t \in due ~> status[t] # "sleeping"

\* A close is not a crash: it leaves no task running.
CloseLeavesNoneRunning ==
  up = "down" /\ lastEnd = "closed" => \A t \in Tasks : status[t] # "running"

-----------------------------------------------------------------------------
(* The inductive invariant of the proofs                                    *)

\* A task that runs has room for one more restart.
RunningBelowLimit ==
  \A t \in Tasks : status[t] = "running" /\ (mark[t] # "none" \/ t \notin SelfLimiting) =>
                     restarts[t] < RestartLimit

\* A task that only its definition, or a cancelled owner, keeps from running is a
\* candidate: nothing else will make it one.
CandidatesKnown ==
  up = "open" =>
    \A t \in Tasks : /\ inv[t] = "none" /\ Working(t) /\ WaitingOn(t) = {}
                     /\ ~(status[t] = "sleeping" /\ mark[t] = "none")
                     => t \in runnable

\* Each failFast wait with members to mark is checked by the pass that is owed;
\* what a task waits on was created.
FailFastOwed ==
  /\ up = "open" => \A w \in failFast : FailFastMarks({w}) # {} => w \in failFastChecks /\ reconcile
  /\ \A t \in Tasks : \A m \in on[t] : status[m] # "none"

\* What exists is below what exists: owners are created first.
Rooted ==
  /\ \A t \in Tasks : status[t] # "none" =>
       IF Up[t] \in Tasks THEN status[Up[t]] # "none" ELSE Up[t] \in convs
  /\ \A c \in convs : Up[c] \in Tasks => status[Up[c]] # "none"

\* What the records and the clocks of a process keep to on their own.
RecordInv ==
  /\ TypeOK /\ RestartsBounded /\ RunningBelowLimit
  /\ up = "down" => ~enabled
  /\ SleepsTimed /\ IdleWaitersBusy

\* All of it, with what the runs check.
SchedInv == RecordInv /\ CandidatesKnown /\ WorkIsComing /\ FailFastOwed /\ ReconcileOwed

=============================================================================
