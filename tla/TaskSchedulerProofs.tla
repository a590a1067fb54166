------------------------- MODULE TaskSchedulerProofs -------------------------
(***************************************************************************)
(* Theorems of TaskScheduler for every ownership tree, every set of        *)
(* abilities and any number of crashes: its type invariant, what a commit  *)
(* may do to the records of tasks, that no wakeup is lost (what can run is *)
(* a candidate of a reservation pass that is due, and what committed       *)
(* records imply is owed to a reconcile pass that is scheduled), and that  *)
(* the wait-for graph of waits and held outcomes stays acyclic.            *)
(***************************************************************************)
EXTENDS TaskScheduler, TLAPS

-----------------------------------------------------------------------------
(* The ownership tree                                                       *)

\* What a walk up from n passes: its parent first, then what is above.
LEMMA WalkUpParent ==
  ASSUME NEW n \in Nodes, NEW stops, Up[n] # Top
  PROVE  Up[n] \in WalkUp(n, stops)
<1>1. Up[n] \in Nodes
  BY TreeAssumption
<1> QED
  BY <1>1 DEF WalkUp

\* A walk goes on from every node that does not stop it.
LEMMA WalkUpOn ==
  ASSUME NEW n \in Nodes, NEW stops, NEW c \in WalkUp(n, stops), c \notin stops
  PROVE  c \in Nodes /\ WalkUp(c, stops) \subseteq WalkUp(n, stops)
<1>1. c \in Nodes
  BY DEF WalkUp
<1> SUFFICES ASSUME NEW m \in WalkUp(c, stops), NEW C \in SUBSET Nodes,
                    Up[n] \in C \cup {Top}, \A x \in C \ stops : Up[x] \in C \cup {Top}
             PROVE  m \in C
  BY <1>1 DEF WalkUp
<1>2. c \in C
  BY DEF WalkUp
<1>3. Up[c] \in C \cup {Top}
  BY <1>2
<1> QED
  BY <1>3 DEF WalkUp

\* The first step of a walk is to the parent.
LEMMA WalkUpSplit ==
  ASSUME NEW n \in Nodes, NEW stops, NEW m \in WalkUp(n, stops)
  PROVE  /\ Up[n] \in Nodes
         /\ m = Up[n] \/ (Up[n] \notin stops /\ m \in WalkUp(Up[n], stops))
<1>1. Up[n] \in Nodes
  <2>1. Up[n] # Top
    <3> SUFFICES ASSUME Up[n] = Top PROVE FALSE
      OBVIOUS
    <3>1. m \in {}
      BY DEF WalkUp
    <3> QED
      BY <3>1
  <2> QED
    BY <2>1, TreeAssumption
<1> DEFINE P == Up[n]
           C == {P} \cup (IF P \in stops THEN {} ELSE WalkUp(P, stops))
<1>2. C \in SUBSET Nodes
  BY <1>1 DEF WalkUp
<1>3. ASSUME NEW x \in C \ stops PROVE Up[x] \in C \cup {Top}
  <2>1. x \in Nodes /\ P \notin stops
    BY <1>2, <1>3
  <2>2. Up[x] # Top => Up[x] \in WalkUp(x, stops)
    BY <2>1, WalkUpParent
  <2>3. CASE x = P
    BY <2>1, <2>2, <2>3
  <2>4. CASE x \in WalkUp(P, stops)
    BY <1>1, <1>3, <2>1, <2>2, <2>4, WalkUpOn
  <2> QED
    BY <1>3, <2>1, <2>3, <2>4
<1>4. m \in C
  <2>1. Up[n] \in C \cup {Top}
    OBVIOUS
  <2> HIDE DEF C
  <2> QED
    BY <1>2, <1>3, <2>1 DEF WalkUp
<1> QED
  BY <1>1, <1>4

\* Traversal passes ordinary tasks only.
LEMMA ReachOn ==
  ASSUME NEW n \in Nodes, NEW c \in Reach[n], c \notin Background
  PROVE  c \in Nodes /\ Reach[c] \subseteq Reach[n]
<1>1. c \in Nodes
  BY DEF Reach, WalkUp
<1> QED
  BY <1>1, WalkUpOn DEF Reach

\* A background task on the way is the last node reached.
LEMMA ReachStops ==
  ASSUME NEW n \in Nodes, NEW b \in Reach[n], b \in Background, NEW m \in Reach[n]
  PROVE  m = b \/ b \in Reach[m]
<1> DEFINE C == {x \in Reach[n] : x = b \/ b \in Reach[x]}
<1>1. Reach[n] \subseteq Nodes /\ C \in SUBSET Nodes
  BY DEF Reach, WalkUp
<1>2. \A x \in Nodes : b \in Reach[x] => Up[x] \in Nodes /\ (Up[x] = b \/ b \in Reach[Up[x]])
  BY WalkUpSplit DEF Reach
<1>3. Up[n] \in C
  <2>1. Up[n] \in Nodes /\ (Up[n] = b \/ b \in Reach[Up[n]])
    BY <1>2
  <2>2. Up[n] \in Reach[n]
    BY <2>1, WalkUpParent, TreeAssumption DEF Reach
  <2> QED
    BY <2>1, <2>2
<1>4. ASSUME NEW x \in C \ Background PROVE Up[x] \in C
  <2>1. x \in Nodes /\ x \in Reach[n] /\ x # b
    BY <1>1, <1>4
  <2>2. Up[x] \in Nodes /\ (Up[x] = b \/ b \in Reach[Up[x]])
    BY <1>2, <1>4, <2>1
  <2>3. Up[x] \in Reach[x]
    BY <2>1, <2>2, WalkUpParent, TreeAssumption DEF Reach
  <2>4. Up[x] \in Reach[n]
    BY <1>4, <2>1, <2>3, ReachOn
  <2> QED
    BY <2>2, <2>4
<1>5. m \in C
  <2> HIDE DEF C
  <2>1. m \in WalkUp(n, Background)
    BY DEF Reach
  <2> QED
    BY <1>1, <1>3, <1>4, <2>1 DEF WalkUp
<1> QED
  BY <1>5

\* Nothing is above itself.
LEMMA ReachAcyclic ==
  ASSUME NEW n \in Nodes
  PROVE  n \notin Reach[n] /\ \A m \in Reach[n] : n \notin Reach[m]
<1>1. ASSUME NEW x \in Nodes PROVE Reach[x] \subseteq Above[x] /\ Reach[x] \subseteq Nodes
  <2>1. WalkUp(x, Background) \subseteq WalkUp(x, {})
    <3> SUFFICES ASSUME NEW m \in WalkUp(x, Background), NEW C \in SUBSET Nodes,
                        Up[x] \in C \cup {Top}, \A y \in C \ {} : Up[y] \in C \cup {Top}
                 PROVE  m \in C
      BY DEF WalkUp
    <3>1. \A y \in C \ Background : Up[y] \in C \cup {Top}
      OBVIOUS
    <3> QED
      BY <3>1 DEF WalkUp
  <2> QED
    BY <2>1 DEF Reach, Above, WalkUp
<1>2. \A x \in Nodes : \A m \in Above[x] : Above[m] \subseteq Above[x]
  <2> SUFFICES ASSUME NEW x \in Nodes, NEW m \in Above[x] PROVE Above[m] \subseteq Above[x]
    OBVIOUS
  <2>1. m \in Nodes /\ m \in WalkUp(x, {})
    BY DEF Above, WalkUp
  <2> QED
    BY <2>1, WalkUpOn DEF Above
<1> QED
  BY <1>1, <1>2, AcyclicAssumption

\* Ordinary owned work of owned work is owned work.
LEMMA OwnedOwned ==
  ASSUME NEW o \in Tasks, NEW c \in Owned[o], NEW d \in Owned[c]
  PROVE  d \in Owned[o]
<1>1. c \in Tasks \ Background /\ d \in Tasks \ Background /\ o \in Reach[c] /\ c \in Reach[d]
  BY DEF Owned, Owners, Nodes
<1>2. o \in Reach[d]
  BY <1>1, ReachOn DEF Nodes
<1> QED
  BY <1>1, <1>2 DEF Owned, Owners, Nodes

\* The walk up from ended work e to the nearest task of the live tasks L finds o
\* when o has no other live work below it (#release()).
LEMMA NearestFree ==
  ASSUME NEW o \in Tasks, NEW e \in Owned[o], NEW L, Owned[o] \cap L = {}
  PROVE  /\ e \notin Background /\ o \in Owners[e]
         /\ ~\E p \in Owners[e] : p \in L /\ o \in Owners[p]
<1>1. e \in Tasks \ Background /\ o \in Owners[e] /\ o \in Reach[e] /\ e \in Nodes /\ o \in Nodes
  BY DEF Owned, Owners, Nodes
<1> SUFFICES ASSUME NEW p \in Owners[e], p \in L, o \in Owners[p] PROVE FALSE
  BY <1>1
<1>2. p \in Tasks /\ p \in Reach[e] /\ o \in Reach[p] /\ p \in Nodes
  BY <1>1 DEF Owners, Nodes
<1>3. CASE p \in Background
  <2>1. o = p \/ p \in Reach[o]
    BY <1>1, <1>2, <1>3, ReachStops
  <2> QED
    BY <1>1, <1>2, <2>1, ReachAcyclic
<1>4. CASE p \notin Background
  BY <1>2, <1>4 DEF Owned
<1> QED
  BY <1>3, <1>4

-----------------------------------------------------------------------------
(* Type correctness                                                         *)

\* What belongs to a wait or a sleep goes with it.
LEMMA StatesKeptType ==
  ASSUME TypeOK, status' \in [Tasks -> Statuses], StatesKept
  PROVE  /\ on' \in [Tasks -> SUBSET Tasks] /\ failFast' \subseteq Tasks /\ due' \subseteq Tasks
         /\ \A t \in Tasks : on'[t] # {} \/ t \in failFast' => status'[t] = "waiting"
         /\ \A t \in due' : status'[t] = "sleeping"
  BY DEF TypeOK, RecordTypeOK, StatesKept

\* The candidates and flags after a publication.
LEMMA ObserveType ==
  ASSUME TypeOK, NEW W \in SUBSET Tasks, NEW m, Observe(W, m), failFast' \subseteq Tasks,
         m.run \subseteq Tasks, m.fin \subseteq Tasks, m.ff \subseteq Tasks
  PROVE  /\ runnable' \subseteq Tasks /\ finalizeChecks' \subseteq Tasks
         /\ failFastChecks' \subseteq Tasks /\ timer' \subseteq Tasks
         /\ cascade' \in BOOLEAN /\ reconcile' \in BOOLEAN /\ dirty' = TRUE
<1>1. runnable' \subseteq Tasks
  BY DEF Observe, Waiters, Freed
<1>2. finalizeChecks' \subseteq Tasks
  BY DEF Observe, Freed
<1>3. failFastChecks' \subseteq Tasks
  BY DEF Observe, Rechecked
<1>4. timer' \subseteq Tasks
  BY DEF Observe, WakeAt, Sleepers, TypeOK, MemoryTypeOK
<1>5. cascade' \in BOOLEAN /\ reconcile' \in BOOLEAN /\ dirty' = TRUE
  BY Zenon DEF Observe
<1> QED
  BY <1>1, <1>2, <1>3, <1>4, <1>5

\* A commit of the tasks W, as far as the types go.
LEMMA CommitType ==
  ASSUME TypeOK, NEW W \in SUBSET Tasks, Observe(W, Mem), SettleIdle(W),
         status' \in [Tasks -> Statuses], mark' \in [Tasks -> {"none", "restart", "request"}],
         outcome' \in [Tasks -> {"none", "completed", "failed", "faulted", "orphaned"}],
         restarts' \in [Tasks -> Nat], on' \in [Tasks -> SUBSET Tasks],
         failFast' \subseteq Tasks, due' \subseteq Tasks,
         queued' \subseteq queued, abandoned' \subseteq abandoned, UNCHANGED <<convs, fits>>
  PROVE  RecordTypeOK' /\ MemoryTypeOK'
<1>1. RecordTypeOK'
  BY DEF TypeOK, RecordTypeOK
<1>2. idleWait' \subseteq idleWait
  BY DEF SettleIdle
<1>3. /\ runnable' \subseteq Tasks /\ finalizeChecks' \subseteq Tasks
      /\ failFastChecks' \subseteq Tasks /\ timer' \subseteq Tasks
      /\ cascade' \in BOOLEAN /\ reconcile' \in BOOLEAN /\ dirty' = TRUE
  BY ObserveType DEF Mem, TypeOK, MemoryTypeOK
<1> QED
  BY <1>1, <1>2, <1>3 DEF TypeOK, MemoryTypeOK

\* An outcome is recorded with the state it belongs to.
LEMMA OutcomeType ==
  ASSUME TypeOK, NEW t \in Tasks, NEW o \in {"completed", "failed", "faulted", "orphaned"},
         NEW new \in SUBSET Tasks, \A n \in new : status[n] = "none", t \notin new,
         SetOutcome(t, o, new), mark' = mark, Live(t)
  PROVE  /\ status' \in [Tasks -> Statuses] /\ restarts' \in [Tasks -> Nat]
         /\ outcome' \in [Tasks -> {"none", "completed", "failed", "faulted", "orphaned"}]
         /\ \A u \in Tasks : outcome'[u] # "none" <=> status'[u] \in {"completing", "terminal"}
         /\ \A u \in Tasks : mark'[u] # "none" => status'[u] # "none"
<1> USE DEF TypeOK, RecordTypeOK
<1>1. \A u \in Tasks : status'[u] = IF u = t THEN IF Holds(t, new) THEN "completing" ELSE "terminal"
                                    ELSE IF u \in new THEN "pending" ELSE status[u]
  BY DEF SetOutcome
<1>2. status' \in [Tasks -> Statuses]
  BY DEF SetOutcome, Statuses
<1>3. restarts' \in [Tasks -> Nat] /\ outcome' \in [Tasks -> {"none", "completed", "failed", "faulted", "orphaned"}]
      /\ \A u \in Tasks : outcome'[u] = IF u = t THEN o ELSE outcome[u]
  BY DEF SetOutcome
<1> QED
  BY <1>1, <1>2, <1>3 DEF Statuses, Live

-----------------------------------------------------------------------------
(* What a commit does to records                                            *)

\* The record of t is as it was.
Same(t) ==
  /\ status'[t] = status[t] /\ mark'[t] = mark[t] /\ outcome'[t] = outcome[t]
  /\ restarts'[t] = restarts[t] /\ on'[t] = on[t]
  /\ t \in failFast' <=> t \in failFast
  /\ t \in due' <=> t \in due

\* What a commit may make of the record of t that it writes.
Change(t) ==
  /\ status[t] # "terminal" /\ status'[t] # "none"
  /\ status[t] = "none" => status'[t] = "pending" /\ mark'[t] = mark[t]
  /\ status[t] = "completing" => outcome'[t] = outcome[t] /\ status'[t] \in {"completing", "terminal"}
  /\ outcome'[t] # "none" <=> status'[t] \in {"completing", "terminal"}
  /\ \/ mark'[t] = mark[t]
     \/ Live(t) /\ mark[t] # "request" /\ mark'[t] # "none" /\ restarts'[t] = 0
  /\ restarts'[t] \in {restarts[t], 0}
  /\ status'[t] = "running" => status[t] = "running" \/ (~CutOff(t) /\ mark'[t] = mark[t])
  /\ on'[t] # {} \/ t \in failFast' => status'[t] = "waiting"
  /\ t \in due' => status'[t] = "sleeping"
  /\ t \in failFast /\ t \in failFast' => on'[t] = on[t]
  /\ \A m \in on'[t] : m \in on[t] \/ status[m] # "none"

\* A commit wrote the records of W, and published.
Written(W) ==
  /\ W \subseteq Tasks /\ RecordTypeOK'
  /\ \A t \in Tasks \ W : Same(t)
  /\ \A t \in W : Change(t)

\* Record of a task that StatesKept leaves.
LEMMA Kept ==
  ASSUME TypeOK, status' \in [Tasks -> Statuses], StatesKept, NEW t \in Tasks
  PROVE  /\ status'[t] = status[t] => /\ on'[t] = on[t]
                                      /\ t \in failFast' <=> t \in failFast
                                      /\ t \in due' <=> t \in due
         /\ on'[t] \subseteq on[t]
         /\ t \in failFast' => on'[t] = on[t]
         /\ on'[t] # {} \/ t \in failFast' => status'[t] = "waiting"
         /\ t \in due' => status'[t] = "sleeping"
  BY DEF TypeOK, RecordTypeOK, StatesKept

\* The types and ties of the records after a commit.
LEMMA WrittenTies ==
  ASSUME TypeOK, NEW W, Written(W)
  PROVE  /\ \A t \in Tasks : outcome'[t] # "none" <=> status'[t] \in {"completing", "terminal"}
         /\ \A t \in Tasks : mark'[t] # "none" => status'[t] # "none"
         /\ \A t \in Tasks : on'[t] # {} \/ t \in failFast' => status'[t] = "waiting"
         /\ \A t \in due' : status'[t] = "sleeping"
<1>1. \A t \in Tasks : Same(t) \/ Change(t)
  BY DEF Written
<1>2. due' \subseteq Tasks
  BY DEF Written, RecordTypeOK
<1> QED
  BY <1>1, <1>2 DEF Same, Change, TypeOK

\* A task is created.
LEMMA CreateWritten ==
  ASSUME TypeOK, NEW t \in Tasks, Create(t)
  PROVE  Written({t})
<1> USE DEF TypeOK, RecordTypeOK
<1>1. status' = [status EXCEPT ![t] = "pending"] /\ status[t] = "none" /\ StatesKept
      /\ UNCHANGED <<mark, outcome, restarts, convs, queued, fits>>
  BY DEF Create, Creatable
<1>2. status' \in [Tasks -> Statuses]
  BY <1>1 DEF Statuses
<1>3. RecordTypeOK'
  BY <1>1, <1>2, StatesKeptType
<1>4. \A u \in Tasks \ {t} : Same(u)
  BY <1>1, <1>2, Kept DEF Same
<1>5. Change(t)
  BY <1>1, <1>2, Kept DEF Change
<1> QED
  BY <1>3, <1>4, <1>5 DEF Written

\* A task t gets its outcome, and the same commit creates `new`.
LEMMA OutcomeWritten ==
  ASSUME TypeOK, NEW t \in Tasks, NEW o \in {"completed", "failed", "faulted", "orphaned"},
         NEW new \in SUBSET Tasks, \A n \in new : status[n] = "none", Working(t),
         SetOutcome(t, o, new), mark' = mark, StatesKept, UNCHANGED <<convs, queued, fits>>
  PROVE  Written({t} \cup new)
<1> USE DEF TypeOK, RecordTypeOK
<1>1. t \notin new /\ Live(t) /\ status[t] # "completing" /\ status[t] # "terminal"
  BY DEF Working, Live
<1>2. /\ status' \in [Tasks -> Statuses] /\ restarts' \in [Tasks -> Nat]
      /\ outcome' \in [Tasks -> {"none", "completed", "failed", "faulted", "orphaned"}]
      /\ \A u \in Tasks : outcome'[u] # "none" <=> status'[u] \in {"completing", "terminal"}
  BY <1>1, OutcomeType
<1>3. RecordTypeOK'
  BY <1>2, StatesKeptType
<1>4. /\ \A u \in Tasks \ ({t} \cup new) : status'[u] = status[u]
      /\ \A u \in new : status'[u] = "pending"
      /\ status'[t] \in {"completing", "terminal"}
      /\ \A u \in Tasks \ {t} : outcome'[u] = outcome[u] /\ restarts'[u] = restarts[u]
      /\ restarts'[t] = 0
  BY <1>1 DEF SetOutcome
<1>5. \A u \in Tasks \ ({t} \cup new) : Same(u)
  BY <1>2, <1>4, Kept DEF Same
<1>6. Change(t)
  BY <1>1, <1>2, <1>4, Kept DEF Change, Live
<1>7. \A u \in new : Change(u)
  BY <1>1, <1>2, <1>4, Kept DEF Change
<1> QED
  BY <1>3, <1>5, <1>6, <1>7 DEF Written

\* The tasks S are marked.
LEMMA MarksWritten ==
  ASSUME TypeOK, NEW S \in SUBSET Tasks, NEW m \in {"restart", "request"},
         \A t \in S : Live(t) /\ mark[t] # "request",
         SetMarks(S, m), StatesKept, queued' \subseteq queued,
         UNCHANGED <<status, outcome, convs, fits>>
  PROVE  Written(S)
<1> USE DEF TypeOK, RecordTypeOK
<1>1. /\ mark' \in [Tasks -> {"none", "restart", "request"}] /\ restarts' \in [Tasks -> Nat]
      /\ \A t \in S : mark'[t] = m /\ restarts'[t] = 0
      /\ \A t \in Tasks \ S : mark'[t] = mark[t] /\ restarts'[t] = restarts[t]
  BY DEF SetMarks
<1>2. RecordTypeOK'
  BY <1>1, StatesKeptType
<1>3. \A u \in Tasks \ S : Same(u)
  BY <1>1, Kept DEF Same
<1>4. \A u \in S : Change(u)
  BY <1>1, Kept DEF Change, Live
<1> QED
  BY <1>2, <1>3, <1>4 DEF Written

\* A replaced definition hands the task over.
LEMMA HandsOverWritten ==
  ASSUME TypeOK, NEW t \in Tasks, status[t] = "running", HandsOver(t), UNCHANGED <<convs, queued, fits>>
  PROVE  Written({t})
<1> USE DEF TypeOK, RecordTypeOK
<1>1. status' = [status EXCEPT ![t] = "pending"] /\ StatesKept /\ UNCHANGED <<mark, outcome, restarts>>
  BY DEF HandsOver
<1>2. status' \in [Tasks -> Statuses]
  BY <1>1 DEF Statuses
<1>3. RecordTypeOK'
  BY <1>1, <1>2, StatesKeptType
<1>4. \A u \in Tasks \ {t} : Same(u)
  BY <1>1, <1>2, Kept DEF Same
<1>5. Change(t)
  BY <1>1, <1>2, Kept DEF Change
<1> QED
  BY <1>3, <1>4, <1>5 DEF Written

\* A phase commits a checkpoint, goes to sleep or waits.
LEMMA CheckpointWritten ==
  ASSUME TypeOK, NEW t \in Tasks, status[t] = "running", CommitCheckpoint(t)
  PROVE  Written({t})
<1> USE DEF TypeOK, RecordTypeOK
<1>1. restarts' = [restarts EXCEPT ![t] = 0] /\ StatesKept
      /\ UNCHANGED <<status, mark, outcome, convs, queued, fits>>
  BY DEF CommitCheckpoint
<1>2. RecordTypeOK'
  BY <1>1, StatesKeptType
<1>3. \A u \in Tasks \ {t} : Same(u)
  BY <1>1, Kept DEF Same
<1>4. Change(t)
  BY <1>1, Kept DEF Change
<1> QED
  BY <1>2, <1>3, <1>4 DEF Written

LEMMA SleepWritten ==
  ASSUME TypeOK, NEW t \in Tasks, status[t] = "running", NEW past \in BOOLEAN, CommitSleep(t, past)
  PROVE  Written({t})
<1> USE DEF TypeOK, RecordTypeOK
<1>1. /\ status' = [status EXCEPT ![t] = "sleeping"] /\ restarts' = [restarts EXCEPT ![t] = 0]
      /\ due' = IF past THEN due \cup {t} ELSE due
      /\ UNCHANGED <<mark, outcome, on, failFast, convs, queued, fits>>
  BY DEF CommitSleep
<1>2. RecordTypeOK'
  BY <1>1 DEF Statuses
<1>3. \A u \in Tasks \ {t} : Same(u)
  BY <1>1 DEF Same
<1>4. Change(t)
  BY <1>1 DEF Change
<1> QED
  BY <1>2, <1>3, <1>4 DEF Written

LEMMA WaitWritten ==
  ASSUME TypeOK, NEW t \in Tasks, status[t] = "running", NEW S \in SUBSET Tasks, NEW fast \in BOOLEAN,
         CommitWait(t, S, fast)
  PROVE  Written({t})
<1> USE DEF TypeOK, RecordTypeOK
<1>1. /\ status' = [status EXCEPT ![t] = "waiting"] /\ restarts' = [restarts EXCEPT ![t] = 0]
      /\ on' = [on EXCEPT ![t] = S]
      /\ failFast' = IF fast THEN failFast \cup {t} ELSE failFast
      /\ UNCHANGED <<mark, outcome, due, convs, queued, fits>>
      /\ \A m \in S : status[m] # "none"
  BY DEF CommitWait
<1>2. RecordTypeOK'
  BY <1>1 DEF Statuses
<1>3. \A u \in Tasks \ {t} : Same(u)
  BY <1>1 DEF Same
<1>4. Change(t)
  BY <1>1 DEF Change
<1> QED
  BY <1>2, <1>3, <1>4 DEF Written

\* What a reconcile pass marks and ends.
LEMMA ReconcilePlan ==
  ASSUME TypeOK, NEW plan, plan = PlanReconcile
  PROVE  /\ plan.requests \subseteq {t \in Tasks : Live(t) /\ mark[t] # "request"}
         /\ plan.abandons \subseteq {t \in Tasks : Live(t) /\ mark[t] = "none"}
         /\ plan.ends \subseteq {t \in Tasks : status[t] = "completing"}
         /\ plan.ends = Finalized
<1> USE DEF TypeOK, RecordTypeOK
<1>1. CascadeMarks("request") \subseteq {t \in Tasks : Live(t) /\ mark[t] # "request"}
  BY DEF CascadeMarks
<1>2. CascadeMarks("restart") \subseteq {t \in Tasks : Live(t) /\ mark[t] = "none"}
  BY DEF CascadeMarks
<1>3. FailFastMarks(failFastChecks) \subseteq {t \in Tasks : Live(t) /\ mark[t] # "request"}
  BY DEF FailFastMarks, MemoryTypeOK
<1>4. Finalized \subseteq {t \in Tasks : status[t] = "completing"}
  BY DEF Finalized
<1> QED
  BY <1>1, <1>2, <1>3, <1>4 DEF PlanReconcile

LEMMA ReconcileWritten ==
  ASSUME TypeOK, Reconcile, NEW plan, plan = PlanReconcile
  PROVE  Written(plan.requests \cup plan.abandons \cup plan.ends)
<1> USE DEF TypeOK, RecordTypeOK
<1> DEFINE W == plan.requests \cup plan.abandons \cup plan.ends
<1>1. /\ mark' = [t \in Tasks |-> IF t \in plan.requests THEN "request"
                                  ELSE IF t \in plan.abandons THEN "restart" ELSE mark[t]]
      /\ restarts' = [t \in Tasks |-> IF t \in W THEN 0 ELSE restarts[t]]
      /\ status' = [t \in Tasks |-> IF t \in plan.ends THEN "terminal" ELSE status[t]]
      /\ outcome' = outcome /\ StatesKept
      /\ queued' = queued \ Withdrawn /\ UNCHANGED <<convs, fits>>
  BY SMT DEF Reconcile
<1>2. /\ plan.requests \subseteq {t \in Tasks : Live(t) /\ mark[t] # "request"}
      /\ plan.abandons \subseteq {t \in Tasks : Live(t) /\ mark[t] = "none"}
      /\ plan.ends \subseteq {t \in Tasks : status[t] = "completing"}
  BY ReconcilePlan
<1> HIDE DEF W
<1>3. W \subseteq Tasks /\ W = plan.requests \cup plan.abandons \cup plan.ends
  BY <1>2 DEF W
<1>4. status' \in [Tasks -> Statuses] /\ mark' \in [Tasks -> {"none", "restart", "request"}]
      /\ restarts' \in [Tasks -> Nat]
  BY <1>1, <1>2 DEF Statuses
<1>5. RecordTypeOK'
  BY <1>1, <1>4, StatesKeptType
<1>6. \A u \in Tasks \ W : Same(u)
  BY <1>1, <1>3, <1>4, Kept DEF Same
<1>7. \A u \in W : Change(u)
  <2> SUFFICES ASSUME NEW u \in W PROVE Change(u)
    OBVIOUS
  <2>1. u \in Tasks /\ Live(u) /\ restarts'[u] = 0
    BY <1>1, <1>2, <1>3 DEF Live
  <2>2. mark'[u] = mark[u] \/ (mark[u] # "request" /\ mark'[u] # "none")
    BY <1>1, <1>2, <2>1
  <2>3. status'[u] = status[u] \/ (status[u] = "completing" /\ status'[u] = "terminal")
    BY <1>1, <1>2, <2>1
  <2> QED
    BY <1>1, <1>4, <2>1, <2>2, <2>3, Kept DEF Change, Live
<1> QED
  BY <1>3, <1>5, <1>6, <1>7 DEF Written

\* What a reservation pass takes: each candidate at most one way.
LEMMA ReservePlan ==
  ASSUME TypeOK, NEW plan, plan = PlanReservation
  PROVE  /\ \A t \in plan.cut \cup plan.orphans \cup plan.reserved :
               t \in Tasks /\ Candidate(t) /\ ~HeldBack(t)
         /\ \A t \in plan.reserved : ~CutOff(t) /\ t \in fits /\ t \notin plan.cut \cup plan.orphans
         /\ \A t \in plan.orphans : mark[t] = "request" /\ t \notin plan.cut
         /\ plan.left \subseteq Tasks
  BY DEF PlanReservation, TypeOK, MemoryTypeOK

\* The records a reservation pass writes.
ReserveWrites(plan) ==
  plan.cut \cup plan.orphans \cup {t \in plan.reserved : status[t] # "running"}

\* A reservation pass, with the outcomes that hold.
LEMMA ReserveRecords ==
  ASSUME TypeOK, Reserve, NEW plan, plan = PlanReservation
  PROVE  \E hold \in SUBSET plan.cut :
           /\ \A t \in plan.cut : OwnedLive(t) \ (plan.cut \cup plan.orphans) # {} => t \in hold
           /\ \A t \in hold : OwnedLive(t) # {}
           /\ \A t \in plan.cut \ hold : OwnedLive(t) \cap hold = {}
           /\ status' = [t \in Tasks |->
                IF t \in hold THEN "completing"
                ELSE IF t \in plan.cut \cup plan.orphans THEN "terminal"
                ELSE IF t \in plan.reserved THEN "running" ELSE status[t]]
           /\ outcome' = [t \in Tasks |-> IF t \in plan.cut THEN "faulted"
                             ELSE IF t \in plan.orphans THEN "orphaned" ELSE outcome[t]]
           /\ restarts' = [t \in Tasks |-> IF t \in plan.cut \cup plan.orphans THEN 0 ELSE restarts[t]]
           /\ mark' = mark /\ StatesKept
           /\ inv' = [t \in Tasks |-> IF t \notin plan.reserved THEN inv[t]
                                      ELSE IF mark[t] = "none" THEN "runStart" ELSE "abortPhase"]
  BY SMT DEF Reserve

LEMMA ReserveWritten ==
  ASSUME TypeOK, Reserve, NEW plan, plan = PlanReservation
  PROVE  Written(ReserveWrites(plan))
<1> DEFINE ends == plan.cut \cup plan.orphans
           W == ReserveWrites(plan)
<1>1. /\ \A t \in ends \cup plan.reserved : t \in Tasks /\ Candidate(t)
      /\ \A t \in plan.reserved : ~CutOff(t) /\ t \notin ends
      /\ \A t \in plan.orphans : t \notin plan.cut
  BY ReservePlan
<1>2. \A t \in Tasks : Candidate(t) => Live(t) /\ status[t] \notin {"none", "completing", "terminal"}
  BY DEF Candidate, Working, Live
<1>3. PICK hold \in SUBSET plan.cut :
           /\ \A t \in plan.cut : OwnedLive(t) \ ends # {} => t \in hold
           /\ \A t \in hold : OwnedLive(t) # {}
           /\ \A t \in plan.cut \ hold : OwnedLive(t) \cap hold = {}
           /\ status' = [t \in Tasks |->
                IF t \in hold THEN "completing" ELSE IF t \in ends THEN "terminal"
                ELSE IF t \in plan.reserved THEN "running" ELSE status[t]]
           /\ outcome' = [t \in Tasks |-> IF t \in plan.cut THEN "faulted"
                             ELSE IF t \in plan.orphans THEN "orphaned" ELSE outcome[t]]
           /\ restarts' = [t \in Tasks |-> IF t \in ends THEN 0 ELSE restarts[t]]
           /\ mark' = mark /\ StatesKept
           /\ inv' = [t \in Tasks |-> IF t \notin plan.reserved THEN inv[t]
                                      ELSE IF mark[t] = "none" THEN "runStart" ELSE "abortPhase"]
  BY ReserveRecords
<1> USE DEF TypeOK, RecordTypeOK
<1>4. UNCHANGED <<convs, queued, fits>>
  BY DEF Reserve
<1> HIDE DEF W
<1>5. W \subseteq Tasks /\ W = ends \cup {t \in plan.reserved : status[t] # "running"}
  BY <1>1 DEF W, ReserveWrites
<1> HIDE DEF ends
<1>6. status' \in [Tasks -> Statuses] /\ restarts' \in [Tasks -> Nat]
      /\ outcome' \in [Tasks -> {"none", "completed", "failed", "faulted", "orphaned"}]
  BY <1>3 DEF Statuses
<1>7. RecordTypeOK'
  BY <1>3, <1>4, <1>6, StatesKeptType
<1>8. \A u \in Tasks \ W : Same(u)
  <2> SUFFICES ASSUME NEW u \in Tasks \ W PROVE Same(u)
    OBVIOUS
  <2>1. u \notin ends /\ u \notin hold /\ u \notin plan.cut /\ u \notin plan.orphans
    BY <1>5 DEF ends
  <2>2. status'[u] = status[u] /\ outcome'[u] = outcome[u] /\ restarts'[u] = restarts[u]
    BY <1>3, <1>5, <2>1
  <2> QED
    BY <1>3, <1>6, <2>2, Kept DEF Same
<1>9. \A u \in W : Change(u)
  <2> SUFFICES ASSUME NEW u \in W PROVE Change(u)
    OBVIOUS
  <2>1. u \in Tasks /\ Live(u) /\ status[u] \notin {"none", "completing", "terminal"}
    BY <1>1, <1>2, <1>5
  <2>2. CASE u \in ends
    <3>1. /\ status'[u] \in {"completing", "terminal"}
          /\ outcome'[u] # "none" /\ restarts'[u] = 0
      BY <1>3, <2>1, <2>2 DEF ends
    <3> QED
      BY <1>3, <1>6, <2>1, <3>1, Kept DEF Change
  <2>3. CASE u \in plan.reserved
    <3>1. /\ status'[u] = "running" /\ outcome'[u] = outcome[u] /\ restarts'[u] = restarts[u]
          /\ ~CutOff(u)
      BY <1>1, <1>3, <2>1, <2>3 DEF ends
    <3> QED
      BY <1>3, <1>6, <2>1, <3>1, Kept DEF Change
  <2> QED
    BY <1>5, <2>2, <2>3
<1> QED
  BY <1>5, <1>7, <1>8, <1>9 DEF Written, W

-----------------------------------------------------------------------------
(* What a commit does to the memory of the process                          *)

\* Candidates, timer and idle waiters after a commit of W.
Published(W) ==
  /\ MemoryTypeOK' /\ UNCHANGED <<convs, procVars, fits>>
  /\ timer' = WakeAt(Sleepers') \/ (W = {} /\ timer' = timer)
  /\ idleWait' \subseteq idleWait
  /\ \A t \in W : \A s \in idleWait' :
       (status[t] = "none" \/ status'[t] = "terminal") /\ s \in Scopes[t] => ~Idle(s)'

\* What ends with the commit has no live owned work.
Drained(W) == \A t \in W : status'[t] = "terminal" => OwnedLive(t)' = {}

\* Invocations are well-formed, and an abort handler starts on drained tasks.
Invoked ==
  /\ ProcessTypeOK' /\ \A t \in moved' \cup stale' : inv'[t] # "none"
  /\ \A t \in Tasks : inv'[t] = "abortPhase" => inv[t] = "abortPhase" \/ OwnedLive(t)' = {}

\* A step that writes the records W.
Commits(W) == Written(W) /\ Published(W) /\ Drained(W) /\ Invoked

\* A step that writes no record.
Quiet ==
  /\ UNCHANGED recVars /\ due \subseteq due'
  /\ TypeOK'
  /\ \A t \in Tasks : inv'[t] = "abortPhase" => inv[t] = "abortPhase"
  /\ \/ up' # "open" \/ timer' = Sleepers
     \/ UNCHANGED <<up, enabled>> /\ timer' \in {timer, WakeAt(Sleepers)}
  /\ \A s \in idleWait' : s \in idleWait \/ ~Idle(s)
  /\ up' = "down" => ~enabled' \/ UNCHANGED <<up, enabled>>
  /\ up' = up \/ up' # "open"

LEMMA ObservePublished ==
  ASSUME TypeOK, NEW W \in SUBSET Tasks, Written(W), NEW m, Observe(W, m), SettleIdle(W),
         m.run \subseteq Tasks, m.fin \subseteq Tasks, m.ff \subseteq Tasks,
         abandoned' \subseteq abandoned, UNCHANGED <<convs, procVars, fits>>
  PROVE  Published(W)
<1>1. failFast' \subseteq Tasks
  BY DEF Written, RecordTypeOK
<1>2. /\ runnable' \subseteq Tasks /\ finalizeChecks' \subseteq Tasks
      /\ failFastChecks' \subseteq Tasks /\ timer' \subseteq Tasks
      /\ cascade' \in BOOLEAN /\ reconcile' \in BOOLEAN /\ dirty' = TRUE
  BY <1>1, ObserveType
<1>3. idleWait' \subseteq idleWait
  BY DEF SettleIdle
<1>4. MemoryTypeOK'
  BY <1>2, <1>3 DEF TypeOK, MemoryTypeOK
<1>5. timer' = WakeAt(Sleepers') \/ (W = {} /\ timer' = timer)
  BY DEF Observe
<1>6. ASSUME NEW t \in W, NEW s \in idleWait', status[t] = "none" \/ status'[t] = "terminal",
             s \in Scopes[t]
      PROVE  ~Idle(s)'
  BY <1>6 DEF SettleIdle
<1> QED
  BY <1>3, <1>4, <1>5, <1>6 DEF Published

\* Invocations that a commit of a client leaves alone.
LEMMA InvokedSame ==
  ASSUME TypeOK, UNCHANGED <<invVars, procVars>>
  PROVE  Invoked
  BY DEF TypeOK, ProcessTypeOK, Invoked, invVars, procVars

\* An invocation ends.
LEMMA InvokedEnd ==
  ASSUME TypeOK, NEW t \in Tasks, End(t), UNCHANGED procVars
  PROVE  Invoked /\ \A u \in Tasks : inv'[u] = "abortPhase" => inv[u] = "abortPhase"
  BY DEF TypeOK, ProcessTypeOK, Invoked, End, procVars

\* An outcome is final at once only without live owned work.
LEMMA OutcomeDrained ==
  ASSUME TypeOK, NEW t \in Tasks, NEW o, NEW new \in SUBSET Tasks, \A n \in new : status[n] = "none",
         Working(t), SetOutcome(t, o, new)
  PROVE  Drained({t} \cup new)
<1>1. \A u \in Tasks : status'[u] = IF u = t THEN IF Holds(t, new) THEN "completing" ELSE "terminal"
                                    ELSE IF u \in new THEN "pending" ELSE status[u]
  BY DEF SetOutcome
<1> SUFFICES ASSUME NEW x \in {t} \cup new, status'[x] = "terminal", NEW u \in OwnedLive(x)'
             PROVE  FALSE
  BY DEF Drained
<1>2. x = t /\ ~Holds(t, new)
  BY <1>1
<1>3. u \in Owned[t] /\ Live(u)' /\ u \in Tasks \ Background /\ t \in Owners[u]
  BY <1>2 DEF OwnedLive, Owned
<1>4. u # t /\ u \notin new
  BY <1>1, <1>2, <1>3 DEF Live, Holds
<1>5. Live(u)
  BY <1>1, <1>3, <1>4 DEF Live
<1> QED
  BY <1>2, <1>3, <1>5 DEF Holds, OwnedLive

-----------------------------------------------------------------------------
(* The steps                                                                *)

LEMMA MemTyped ==
  ASSUME TypeOK
  PROVE  Mem.run \subseteq Tasks /\ Mem.fin \subseteq Tasks /\ Mem.ff \subseteq Tasks
  BY DEF TypeOK, MemoryTypeOK, Mem

LEMMA CreateCommits ==
  ASSUME TypeOK, NEW t \in Tasks, Create(t)
  PROVE  Commits({t})
<1>1. Written({t})
  BY CreateWritten
<1>2. Published({t})
  BY <1>1, MemTyped, ObservePublished DEF Create
<1>3. Drained({t})
  BY DEF Create, Drained, TypeOK, RecordTypeOK
<1>4. Invoked
  BY InvokedSame DEF Create
<1> QED
  BY <1>1, <1>2, <1>3, <1>4 DEF Commits

LEMMA MarksDrained ==
  ASSUME NEW S, status' = status, \A t \in S : Live(t)
  PROVE  Drained(S)
  BY DEF Drained, Live

LEMMA AbortCommits ==
  ASSUME TypeOK, NEW t \in Tasks, Abort(t)
  PROVE  Commits({t})
<1>1. Invoked
  BY InvokedSame DEF Abort
<1>2. CASE Orphanable(t) /\ SetOutcome(t, "orphaned", {}) /\ UNCHANGED mark
  <2>1. Working(t) /\ StatesKept /\ UNCHANGED <<convs, queued, fits>>
    BY <1>2 DEF Abort, Orphanable, Working
  <2>2. Written({t} \cup {}) /\ Drained({t} \cup {})
    BY <1>2, <2>1, OutcomeWritten, OutcomeDrained
  <2>3. Written({t}) /\ Drained({t})
    <3>1. {t} \cup {} = {t}
      OBVIOUS
    <3> QED
      BY <2>2, <3>1
  <2>4. Published({t})
    BY <2>3, MemTyped, ObservePublished DEF Abort
  <2> QED
    BY <1>1, <2>3, <2>4 DEF Commits
<1>3. CASE mark[t] # "request" /\ SetMarks({t}, "request") /\ UNCHANGED <<status, outcome>>
  <2>1. Live(t) /\ StatesKept /\ UNCHANGED <<convs, queued, fits>>
    BY DEF Abort
  <2>2. Written({t}) /\ Drained({t})
    BY <1>3, <2>1, MarksWritten, MarksDrained
  <2>3. Published({t})
    BY <2>2, MemTyped, ObservePublished DEF Abort
  <2> QED
    BY <1>1, <2>2, <2>3 DEF Commits
<1> QED
  BY <1>2, <1>3 DEF Abort

LEMMA AbortConversationCommits ==
  ASSUME TypeOK, NEW c \in Conversations, NEW b \in BOOLEAN, AbortConversation(c, b)
  PROVE  (\E W \in SUBSET Tasks : Commits(W)) \/ Quiet
<1> DEFINE reached == {t \in Tasks : Live(t) /\ mark[t] # "request"
                         /\ IF b THEN c \in Above[t] ELSE t \notin Background /\ c \in Reach[t]}
<1>1. queued' \subseteq queued /\ UNCHANGED <<convs, invVars, procVars, fits>>
  BY DEF AbortConversation
<1>2. CASE reached # {} /\ SetMarks(reached, "request") /\ UNCHANGED <<status, outcome>>
           /\ StatesKept /\ Observe(reached, Mem) /\ SettleIdle(reached) /\ UNCHANGED abandoned
  <2>1. reached \subseteq Tasks /\ \A t \in reached : Live(t) /\ mark[t] # "request"
    OBVIOUS
  <2> HIDE DEF reached
  <2>2. Written(reached) /\ Drained(reached)
    BY <1>1, <1>2, <2>1, MarksWritten, MarksDrained
  <2>3. Published(reached)
    BY <1>1, <1>2, <2>1, <2>2, MemTyped, ObservePublished
  <2>4. Invoked
    BY <1>1, InvokedSame
  <2> QED
    BY <2>1, <2>2, <2>3, <2>4 DEF Commits
<1>3. CASE UNCHANGED <<recVars, memVars, due>>
  <2>1. UNCHANGED <<status, mark, outcome, restarts, on, failFast, due, runnable, finalizeChecks,
                    failFastChecks, abandoned, cascade, reconcile, dirty, timer, idleWait,
                    inv, moved, stale, up, enabled, stopped, lastEnd, crashes, convs, fits>>
    BY <1>1, <1>3 DEF recVars, memVars, passVars, invVars, procVars
  <2>2. TypeOK'
    BY <1>1, <2>1 DEF TypeOK, RecordTypeOK, MemoryTypeOK, ProcessTypeOK
  <2> QED
    BY <1>3, <2>1, <2>2 DEF Quiet
<1> QED
  BY <1>2, <1>3 DEF AbortConversation

LEMMA ReconcileCommits ==
  ASSUME TypeOK, Reconcile
  PROVE  \E W \in SUBSET Tasks : Commits(W)
<1> DEFINE plan == PlanReconcile
           W == plan.requests \cup plan.abandons \cup plan.ends
<1>1. Written(W)
  BY ReconcileWritten
<1>2. W \subseteq Tasks /\ plan.ends = Finalized
  BY <1>1, ReconcilePlan DEF Written
<1>3. /\ status' = [t \in Tasks |-> IF t \in plan.ends THEN "terminal" ELSE status[t]]
      /\ \/ W # {} /\ Observe(W, [run |-> runnable, fin |-> {}, ff |-> {}, casc |-> FALSE,
                                  rec |-> FALSE])
         \/ /\ W = {} /\ finalizeChecks' = {} /\ failFastChecks' = {}
            /\ cascade' = FALSE /\ reconcile' = FALSE
            /\ timer' = WakeAt(Sleepers) /\ UNCHANGED <<runnable, dirty>>
  BY SMT DEF Reconcile
<1>4. /\ idleWait' = {s \in idleWait : ~Idle(s)'}
      /\ UNCHANGED <<convs, abandoned, invVars, procVars, fits>>
  BY DEF Reconcile
<1>5. Invoked
  BY <1>4, InvokedSame
<1>6. Drained(W)
  <2> SUFFICES ASSUME NEW t \in W, status'[t] = "terminal", NEW u \in OwnedLive(t)' PROVE FALSE
    BY DEF Drained
  <2>1. t \in Finalized
    <3>1. status[t] # "terminal"
      BY <1>1 DEF Written, Change
    <3> QED
      BY <1>2, <1>3, <3>1
  <2>2. u \in Owned[t] /\ u \in Tasks /\ t \in Tasks /\ status'[u] # "terminal" /\ Live(u)'
    BY <2>1 DEF OwnedLive, Owned, Live, Finalized
  <2>3. u \notin Finalized /\ Live(u)
    BY <1>2, <1>3, <2>2 DEF Live
  <2>4. u \in OwnedLive(t) /\ OwnedLive(u) \subseteq OwnedLive(t)
    BY <2>2, <2>3, OwnedOwned DEF OwnedLive
  <2> QED
    BY <2>1, <2>2, <2>3, <2>4 DEF Finalized
<1> HIDE DEF plan, W
<1>7. Published(W)
  <2>1. failFast' \subseteq Tasks
    BY <1>1 DEF Written, RecordTypeOK
  <2>2. MemoryTypeOK' /\ timer' = WakeAt(Sleepers')
    <3>1. CASE W # {} /\ Observe(W, [run |-> runnable, fin |-> {}, ff |-> {}, casc |-> FALSE,
                                     rec |-> FALSE])
      <4> DEFINE m == [run |-> runnable, fin |-> {}, ff |-> {}, casc |-> FALSE, rec |-> FALSE]
      <4>1. m.run \subseteq Tasks /\ m.fin \subseteq Tasks /\ m.ff \subseteq Tasks
        BY DEF TypeOK, MemoryTypeOK
      <4> HIDE DEF m
      <4>2. Observe(W, m)
        BY <3>1 DEF m
      <4>3. /\ runnable' \subseteq Tasks /\ finalizeChecks' \subseteq Tasks
            /\ failFastChecks' \subseteq Tasks /\ timer' \subseteq Tasks
            /\ cascade' \in BOOLEAN /\ reconcile' \in BOOLEAN /\ dirty' = TRUE
        BY <1>2, <2>1, <4>1, <4>2, ObserveType
      <4>4. timer' = WakeAt(Sleepers')
        BY <3>1, <4>2 DEF Observe
      <4> QED
        BY <1>4, <4>3, <4>4 DEF TypeOK, MemoryTypeOK
    <3>2. CASE /\ W = {} /\ finalizeChecks' = {} /\ failFastChecks' = {}
               /\ cascade' = FALSE /\ reconcile' = FALSE
               /\ timer' = WakeAt(Sleepers) /\ UNCHANGED <<runnable, dirty>>
      <4>1. Sleepers' = Sleepers
        BY <1>1, <3>2 DEF Written, Same, Sleepers
      <4>2. timer' \subseteq Tasks
        BY <3>2 DEF WakeAt, Sleepers
      <4> QED
        BY <1>4, <3>2, <4>1, <4>2 DEF TypeOK, MemoryTypeOK
    <3> QED
      BY <1>3, <3>1, <3>2
  <2> QED
    BY <1>4, <2>2 DEF Published
<1> QED
  BY <1>1, <1>2, <1>5, <1>6, <1>7 DEF Commits

LEMMA AbandonCommits ==
  ASSUME TypeOK, Abandon
  PROVE  \E W \in SUBSET Tasks : Commits(W)
<1> DEFINE unmarked == {t \in abandoned : Live(t) /\ mark[t] = "none"}
<1>1. unmarked \subseteq Tasks /\ \A t \in unmarked : Live(t) /\ mark[t] # "request"
  BY DEF TypeOK, MemoryTypeOK
<1>2. /\ SetMarks(unmarked, "restart") /\ abandoned' = {} /\ UNCHANGED <<status, outcome>>
      /\ StatesKept /\ Observe(unmarked, Mem) /\ SettleIdle(unmarked)
      /\ UNCHANGED <<convs, queued, invVars, procVars, fits>>
  BY DEF Abandon
<1> HIDE DEF unmarked
<1>3. Written(unmarked) /\ Drained(unmarked)
  BY <1>1, <1>2, MarksWritten, MarksDrained
<1>4. Published(unmarked)
  BY <1>1, <1>2, <1>3, MemTyped, ObservePublished
<1>5. Invoked
  BY <1>2, InvokedSame
<1> QED
  BY <1>1, <1>3, <1>4, <1>5 DEF Commits

LEMMA ReserveDrained ==
  ASSUME TypeOK, Reserve, NEW plan, plan = PlanReservation
  PROVE  Drained(ReserveWrites(plan)) /\ Invoked
<1>1. /\ \A t \in plan.cut \cup plan.orphans \cup plan.reserved :
               t \in Tasks /\ Candidate(t) /\ ~HeldBack(t)
      /\ \A t \in plan.reserved : ~CutOff(t) /\ t \in fits /\ t \notin plan.cut \cup plan.orphans
      /\ \A t \in plan.orphans : mark[t] = "request" /\ t \notin plan.cut
  BY ReservePlan
<1>2. \A t \in Tasks : Candidate(t) => Live(t) /\ inv[t] = "none" /\ (mark[t] # "none" => OwnedLive(t) = {})
  BY DEF Candidate, Working, WaitingOn
<1>3. PICK hold \in SUBSET plan.cut :
           /\ \A t \in plan.cut : OwnedLive(t) \ (plan.cut \cup plan.orphans) # {} => t \in hold
           /\ \A t \in hold : OwnedLive(t) # {}
           /\ \A t \in plan.cut \ hold : OwnedLive(t) \cap hold = {}
           /\ status' = [t \in Tasks |->
                IF t \in hold THEN "completing"
                ELSE IF t \in plan.cut \cup plan.orphans THEN "terminal"
                ELSE IF t \in plan.reserved THEN "running" ELSE status[t]]
           /\ outcome' = [t \in Tasks |-> IF t \in plan.cut THEN "faulted"
                             ELSE IF t \in plan.orphans THEN "orphaned" ELSE outcome[t]]
           /\ restarts' = [t \in Tasks |-> IF t \in plan.cut \cup plan.orphans THEN 0 ELSE restarts[t]]
           /\ mark' = mark /\ StatesKept
           /\ inv' = [t \in Tasks |-> IF t \notin plan.reserved THEN inv[t]
                                      ELSE IF mark[t] = "none" THEN "runStart" ELSE "abortPhase"]
  BY ReserveRecords
<1>4. \A t \in Tasks : Live(t)' => Live(t)
  BY <1>1, <1>2, <1>3 DEF Live
<1>5. \A t \in Tasks : OwnedLive(t)' \subseteq OwnedLive(t)
  BY <1>4 DEF OwnedLive, Owned
<1>6. Drained(ReserveWrites(plan))
  <2> SUFFICES ASSUME NEW t \in ReserveWrites(plan), status'[t] = "terminal", NEW u \in OwnedLive(t)'
               PROVE  FALSE
    BY DEF Drained
  <2>1. t \in Tasks /\ Candidate(t) /\ status[t] # "terminal"
    BY <1>1, <1>2 DEF ReserveWrites, Live
  <2>2. t \in (plan.cut \ hold) \cup plan.orphans
    BY <1>1, <1>3, <2>1 DEF ReserveWrites
  <2>3. u \in OwnedLive(t) /\ u \in Tasks /\ Live(u)'
    BY <1>5, <2>1 DEF OwnedLive, Owned
  <2>4. CASE t \in plan.orphans
    BY <1>1, <1>2, <2>1, <2>3, <2>4
  <2>5. CASE t \in plan.cut \ hold
    <3>1. u \in plan.cut \cup plan.orphans /\ u \notin hold
      BY <1>3, <2>3, <2>5
    <3>2. status'[u] = "terminal"
      BY <1>3, <2>3, <3>1
    <3> QED
      BY <2>3, <3>2 DEF Live
  <2> QED
    BY <2>2, <2>4, <2>5
<1>7. Invoked
  <2>1. ASSUME NEW t \in Tasks, inv'[t] = "abortPhase" PROVE inv[t] = "abortPhase" \/ OwnedLive(t)' = {}
    BY <1>1, <1>2, <1>3, <1>5, <2>1
  <2>2. ProcessTypeOK' /\ \A t \in moved' \cup stale' : inv'[t] # "none"
    <3>1. UNCHANGED <<moved, stale, up, enabled, stopped, lastEnd, crashes>>
      BY DEF Reserve, procVars
    <3> QED
      BY <1>3, <3>1 DEF TypeOK, ProcessTypeOK
  <2> QED
    BY <2>1, <2>2 DEF Invoked
<1> QED
  BY <1>6, <1>7

LEMMA ReserveCommits ==
  ASSUME TypeOK, Reserve
  PROVE  \E W \in SUBSET Tasks : Commits(W)
<1> DEFINE plan == PlanReservation
           W == ReserveWrites(plan)
           m == [run |-> plan.left, fin |-> finalizeChecks, ff |-> failFastChecks,
                 casc |-> plan.cascade, rec |-> (reconcile \/ plan.cascade)]
<1>1. Written(W) /\ Drained(W) /\ Invoked
  BY ReserveWritten, ReserveDrained
<1>2. W \in SUBSET Tasks /\ plan.left \subseteq Tasks
  BY <1>1, ReservePlan DEF Written
<1>3. /\ \/ W # {} /\ Observe(W, m)
         \/ /\ W = {}
            /\ runnable' = m.run /\ cascade' = m.casc /\ reconcile' = m.rec /\ dirty' = FALSE
            /\ UNCHANGED <<finalizeChecks, failFastChecks, timer>>
      /\ SettleIdle(W) /\ UNCHANGED <<convs, abandoned, procVars, fits>>
  BY SMT DEF Reserve, ReserveWrites
<1>4. m.run \subseteq Tasks /\ m.fin \subseteq Tasks /\ m.ff \subseteq Tasks /\ m.run = plan.left
      /\ m.casc = plan.cascade /\ m.rec = (reconcile \/ plan.cascade) /\ plan.cascade \in BOOLEAN
  BY <1>2 DEF TypeOK, MemoryTypeOK, PlanReservation
<1> HIDE DEF plan, m, W
<1>5. Published(W)
  <2>1. CASE W # {} /\ Observe(W, m)
    BY <1>1, <1>2, <1>3, <1>4, <2>1, ObservePublished
  <2>2. CASE /\ W = {}
             /\ runnable' = m.run /\ cascade' = m.casc /\ reconcile' = m.rec /\ dirty' = FALSE
             /\ UNCHANGED <<finalizeChecks, failFastChecks, timer>>
    <3>1. idleWait' \subseteq idleWait
      BY <1>3 DEF SettleIdle
    <3>2. MemoryTypeOK'
      BY <1>3, <1>4, <2>2, <3>1 DEF TypeOK, MemoryTypeOK
    <3> QED
      BY <1>3, <2>2, <3>1, <3>2 DEF Published
  <2> QED
    BY <1>3, <2>1, <2>2
<1> QED
  BY <1>1, <1>2, <1>5 DEF Commits

\* The end of an invocation, with or without a write.
LEMMA EndsPlainlyQuiet ==
  ASSUME TypeOK, NEW t \in Tasks, NEW owes \in BOOLEAN, EndsPlainly(t, owes),
         UNCHANGED <<convs, queued, abandoned, procVars, fits>>
  PROVE  Quiet
<1>1. /\ UNCHANGED <<status, mark, outcome, restarts, on, failFast, due, finalizeChecks, failFastChecks,
                     idleWait, convs, queued, abandoned, up, enabled, stopped, lastEnd, crashes, fits>>
      /\ runnable' \subseteq Tasks /\ timer' = WakeAt(Sleepers)
  BY DEF EndsPlainly, recVars, procVars, CandidatesWith, Kick, TypeOK, MemoryTypeOK
<1>2. dirty' \in BOOLEAN /\ cascade' \in BOOLEAN /\ reconcile' \in BOOLEAN
  BY Zenon DEF EndsPlainly, Kick
<1>3. timer' \subseteq Tasks
  BY <1>1 DEF WakeAt, Sleepers
<1>4. Invoked /\ \A u \in Tasks : inv'[u] = "abortPhase" => inv[u] = "abortPhase"
  BY InvokedEnd DEF EndsPlainly
<1>5. TypeOK'
  <2>1. MemoryTypeOK'
    BY <1>1, <1>2, <1>3 DEF TypeOK, MemoryTypeOK
  <2>2. ProcessTypeOK' /\ \A u \in moved' \cup stale' : inv'[u] # "none"
    BY <1>4 DEF Invoked
  <2> QED
    BY <1>1, <2>1, <2>2 DEF TypeOK, RecordTypeOK
<1> QED
  BY <1>1, <1>4, <1>5 DEF Quiet, recVars

LEMMA FaultsCommits ==
  ASSUME TypeOK, NEW t \in Tasks, status[t] = "running", Faults(t),
         UNCHANGED <<convs, queued, abandoned, procVars, fits>>
  PROVE  Commits({t})
<1>1. Working(t)
  BY DEF Working, Live
<1>2. Written({t} \cup {}) /\ Drained({t} \cup {})
  BY <1>1, OutcomeWritten, OutcomeDrained DEF Faults
<1>3. Written({t}) /\ Drained({t})
  <2>1. {t} \cup {} = {t}
    OBVIOUS
  <2> QED
    BY <1>2, <2>1
<1>4. Published({t})
  BY <1>3, MemTyped, ObservePublished DEF Faults
<1>5. Invoked
  BY InvokedEnd DEF Faults
<1> QED
  BY <1>3, <1>4, <1>5 DEF Commits

LEMMA HandsOverCommits ==
  ASSUME TypeOK, NEW t \in Tasks, status[t] = "running", HandsOver(t),
         UNCHANGED <<convs, queued, abandoned, procVars, fits>>
  PROVE  Commits({t})
<1>1. Written({t})
  BY HandsOverWritten
<1>2. Drained({t})
  BY DEF HandsOver, Drained, TypeOK, RecordTypeOK
<1>3. Published({t})
  BY <1>1, MemTyped, ObservePublished DEF HandsOver
<1>4. Invoked
  BY InvokedEnd DEF HandsOver
<1> QED
  BY <1>1, <1>2, <1>3, <1>4 DEF Commits

\* The next phase of a run starts.
LEMMA ContinuesQuiet ==
  ASSUME TypeOK, NEW t \in Tasks, Continues(t), UNCHANGED <<convs, queued, abandoned, procVars, fits>>
  PROVE  Quiet
<1>1. UNCHANGED <<status, mark, outcome, restarts, on, failFast, due, runnable, finalizeChecks,
                  failFastChecks, cascade, reconcile, dirty, timer, idleWait, stale,
                  convs, queued, abandoned, up, enabled, stopped, lastEnd, crashes, fits>>
  BY DEF Continues, recVars, procVars
<1>2. /\ inv' = [inv EXCEPT ![t] = "runPhase"] /\ moved' = moved \ {t}
  BY DEF Continues
<1>3. TypeOK'
  <2>1. RecordTypeOK' /\ MemoryTypeOK'
    BY <1>1 DEF TypeOK, RecordTypeOK, MemoryTypeOK
  <2>2. ProcessTypeOK' /\ \A u \in moved' \cup stale' : inv'[u] # "none"
    BY <1>1, <1>2 DEF TypeOK, ProcessTypeOK
  <2> QED
    BY <1>1, <2>1, <2>2 DEF TypeOK
<1>4. \A u \in Tasks : inv'[u] = "abortPhase" => inv[u] = "abortPhase"
  BY <1>2 DEF TypeOK, ProcessTypeOK
<1> QED
  BY <1>1, <1>3, <1>4 DEF Quiet, recVars

LEMMA StepCommits ==
  ASSUME TypeOK, NEW t \in Tasks, Step(t) \/ AbortStep(t)
  PROVE  (\E W \in SUBSET Tasks : Commits(W)) \/ Quiet
<1>1. UNCHANGED <<convs, queued, abandoned, procVars, fits>>
  BY DEF Step, AbortStep
<1>2. CASE (EndsPlainly(t, FALSE) \/ EndsPlainly(t, TRUE))
  BY <1>1, <1>2, EndsPlainlyQuiet
<1>3. CASE status[t] = "running" /\ Faults(t)
  BY <1>1, <1>3, FaultsCommits
<1>4. CASE status[t] = "running" /\ HandsOver(t)
  BY <1>1, <1>4, HandsOverCommits
<1>5. CASE Continues(t)
  BY <1>1, <1>5, ContinuesQuiet
<1> QED
  BY <1>2, <1>3, <1>4, <1>5 DEF Step, AbortStep

LEMMA RuntimeCommits ==
  ASSUME TypeOK, NEW t \in Tasks, RuntimeCommit(t)
  PROVE  \E W \in SUBSET Tasks : Commits(W)
<1>1. status[t] = "running" /\ Working(t) /\ inv[t] # "none"
  BY DEF RuntimeCommit, Gated, Working, Live
<1>2. CASE CommitCheckpoint(t)
  <2>1. Written({t})
    BY <1>1, <1>2, CheckpointWritten
  <2>2. Published({t})
    BY <1>2, <2>1, MemTyped, ObservePublished DEF CommitCheckpoint
  <2>3. Drained({t})
    BY <1>1, <1>2 DEF CommitCheckpoint, Drained
  <2>4. Invoked
    BY <1>1, <1>2 DEF CommitCheckpoint, Invoked, TypeOK, ProcessTypeOK, procVars
  <2> QED
    BY <2>1, <2>2, <2>3, <2>4 DEF Commits
<1>3. ASSUME NEW past \in BOOLEAN, CommitSleep(t, past) PROVE Commits({t})
  <2>1. Written({t})
    BY <1>1, <1>3, SleepWritten
  <2>2. Published({t})
    BY <1>3, <2>1, MemTyped, ObservePublished DEF CommitSleep
  <2>3. Drained({t}) /\ Invoked
    BY <1>3, InvokedSame DEF CommitSleep, Drained, TypeOK, RecordTypeOK
  <2> QED
    BY <2>1, <2>2, <2>3 DEF Commits
<1>4. ASSUME NEW S \in SUBSET Tasks, NEW fast \in BOOLEAN, CommitWait(t, S, fast) PROVE Commits({t})
  <2>1. Written({t})
    BY <1>1, <1>4, WaitWritten
  <2>2. Published({t})
    BY <1>4, <2>1, MemTyped, ObservePublished DEF CommitWait
  <2>3. Drained({t}) /\ Invoked
    BY <1>4, InvokedSame DEF CommitWait, Drained, TypeOK, RecordTypeOK
  <2> QED
    BY <2>1, <2>2, <2>3 DEF Commits
<1>5. ASSUME NEW o \in {"completed", "failed"}, NEW new \in SUBSET Tasks, CommitOutcome(t, o, new)
      PROVE  Commits({t} \cup new)
  <2>1. /\ \A n \in new : status[n] = "none"
        /\ SetOutcome(t, o, new) /\ mark' = mark /\ StatesKept
        /\ Observe({t} \cup new, Mem) /\ SettleIdle({t} \cup new)
        /\ UNCHANGED <<convs, queued, abandoned, invVars, procVars, fits>>
    BY <1>5 DEF CommitOutcome, Creatable
  <2>2. Written({t} \cup new)
    BY <1>1, <2>1, OutcomeWritten
  <2>3. Drained({t} \cup new)
    BY <1>1, <2>1, OutcomeDrained
  <2>4. Published({t} \cup new)
    BY <2>1, <2>2, MemTyped, ObservePublished
  <2>5. Invoked
    BY <2>1, InvokedSame
  <2> QED
    BY <2>2, <2>3, <2>4, <2>5 DEF Commits
<1> QED
  BY <1>2, <1>3, <1>4, <1>5 DEF RuntimeCommit

\* Steps of clients that write no task.
LEMMA ClientQuiet ==
  ASSUME TypeOK,
         \/ \E c \in Conversations : CreateConversation(c) \/ Submit(c)
         \/ \E s \in Conversations \cup {Harness} : WaitForIdle(s)
  PROVE  Quiet
<1>1. UNCHANGED <<status, mark, outcome, restarts, on, failFast, due, runnable, finalizeChecks,
                  failFastChecks, abandoned, dirty, timer, inv, moved, stale,
                  up, enabled, stopped, lastEnd, crashes, fits>>
  BY DEF CreateConversation, Submit, WaitForIdle, recVars, memVars, passVars, invVars, procVars
<1>2. /\ convs' \subseteq Conversations /\ queued' \subseteq convs'
      /\ idleWait' \subseteq Conversations \cup {Harness}
      /\ \A s \in idleWait' : s \in idleWait \/ ~Idle(s)
  BY DEF CreateConversation, Submit, WaitForIdle, memVars, TypeOK, RecordTypeOK, MemoryTypeOK
<1>3. cascade' \in BOOLEAN /\ reconcile' \in BOOLEAN
  <2>1. cascade \in BOOLEAN /\ reconcile \in BOOLEAN
    BY DEF TypeOK, MemoryTypeOK
  <2>2. ASSUME NEW c \in Conversations, CreateConversation(c) PROVE cascade' = cascade /\ reconcile' = reconcile
    BY <2>2 DEF CreateConversation, memVars
  <2>3. ASSUME NEW c \in Conversations, Submit(c) PROVE cascade' \in BOOLEAN /\ reconcile' \in BOOLEAN
    BY <2>3, Zenon DEF Submit
  <2>4. ASSUME NEW s, WaitForIdle(s) PROVE cascade' = cascade /\ reconcile' = TRUE
    BY <2>4 DEF WaitForIdle
  <2> QED
    BY <2>1, <2>2, <2>3, <2>4
<1>4. TypeOK'
  BY <1>1, <1>2, <1>3 DEF TypeOK, RecordTypeOK, MemoryTypeOK, ProcessTypeOK
<1> QED
  BY <1>1, <1>2, <1>4 DEF Quiet, recVars

\* Steps of handlers and of time.
LEMMA HandlerQuiet ==
  ASSUME TypeOK, NEW t \in Tasks, Returns(t) \/ Throws(t) \/ Elapse(t)
  PROVE  Quiet
<1>1. UNCHANGED <<status, mark, outcome, restarts, on, failFast, runnable, finalizeChecks,
                  failFastChecks, abandoned, cascade, reconcile, dirty, timer, idleWait, moved, stale,
                  up, enabled, stopped, lastEnd, crashes, fits, convs, queued>>
  BY DEF Returns, Throws, Elapse, recVars, memVars, passVars, invVars, procVars
<1>2. /\ due \subseteq due' /\ due' \subseteq Tasks /\ \A u \in due' : status[u] = "sleeping"
  BY DEF Returns, Throws, Elapse, TypeOK, RecordTypeOK
<1>3. /\ inv' \in [Tasks -> {"none", "runStart", "runPhase", "runReturned", "runThrew",
                             "abortPhase", "abortDone"}]
      /\ \A u \in Tasks : (inv[u] # "none" => inv'[u] # "none")
                          /\ (inv'[u] = "abortPhase" => inv[u] = "abortPhase")
  BY DEF Returns, Throws, Elapse, TypeOK, ProcessTypeOK, invVars
<1>4. TypeOK'
  BY <1>1, <1>2, <1>3 DEF TypeOK, RecordTypeOK, MemoryTypeOK, ProcessTypeOK
<1> QED
  BY <1>1, <1>2, <1>3, <1>4 DEF Quiet, recVars

\* The timer, and what the host does to a running process.
LEMMA HostQuiet ==
  ASSUME TypeOK,
         \/ TimerFires \/ Resume \/ Close \/ Crash
         \/ \E t \in Tasks, fit \in BOOLEAN : Install(t, fit)
  PROVE  Quiet
<1>1. UNCHANGED <<status, mark, outcome, restarts, on, failFast, due, convs, queued>>
  BY DEF TimerFires, Resume, Close, Crash, Install, recVars
<1>2. Sleepers \subseteq Tasks
  BY DEF Sleepers
<1>3. CASE TimerFires \/ Resume
  <2>1. /\ UNCHANGED <<finalizeChecks, failFastChecks, abandoned, cascade, reconcile, idleWait,
                       inv, moved, stale, up, stopped, lastEnd, crashes, fits>>
        /\ enabled' \in {enabled, TRUE} /\ up = "open" /\ WakeDue
    BY <1>3 DEF TimerFires, Resume, invVars, procVars
  <2>2. runnable' \subseteq Tasks /\ dirty' = TRUE /\ timer' = Sleepers
    BY <2>1 DEF WakeDue, TypeOK, MemoryTypeOK
  <2>3. TypeOK'
    BY <1>1, <1>2, <2>1, <2>2 DEF TypeOK, RecordTypeOK, MemoryTypeOK, ProcessTypeOK
  <2> QED
    BY <1>1, <2>1, <2>2, <2>3 DEF Quiet, recVars
<1>4. CASE Close
  <2>1. /\ UNCHANGED <<runnable, finalizeChecks, failFastChecks, abandoned, cascade,
                       inv, moved, stale, enabled, lastEnd, crashes, fits>>
        /\ up' = "closing" /\ stopped' \subseteq Tasks
        /\ timer' = {} /\ idleWait' = {} /\ reconcile' = FALSE /\ dirty' = FALSE
    BY <1>4 DEF Close, passVars, invVars
  <2>2. TypeOK'
    BY <1>1, <2>1 DEF TypeOK, RecordTypeOK, MemoryTypeOK, ProcessTypeOK
  <2> QED
    BY <1>1, <2>1, <2>2 DEF Quiet, recVars
<1>5. CASE Crash
  <2>1. Gone /\ fits' = fits /\ lastEnd' = "crashed" /\ crashes' = crashes + 1
    BY <1>5 DEF Crash
  <2>2. TypeOK'
    <3>1. RecordTypeOK'
      BY <1>1, <2>1 DEF TypeOK, RecordTypeOK
    <3>2. crashes' \in Nat
      BY <2>1 DEF TypeOK, ProcessTypeOK
    <3>3. MemoryTypeOK' /\ ProcessTypeOK' /\ moved' \cup stale' = {}
      BY <2>1, <3>2 DEF Gone, MemoryTypeOK, ProcessTypeOK
    <3> QED
      BY <1>1, <3>1, <3>3 DEF TypeOK
  <2> QED
    BY <1>1, <2>1, <2>2 DEF Gone, Quiet, recVars
<1>6. ASSUME NEW t \in Tasks, NEW fit \in BOOLEAN, Install(t, fit) PROVE Quiet
  <2>1. /\ UNCHANGED <<runnable, finalizeChecks, failFastChecks, abandoned, cascade, reconcile, idleWait,
                       inv, moved, up, enabled, stopped, lastEnd, crashes>>
        /\ fits' \subseteq Tasks /\ stale' \subseteq Tasks /\ \A u \in stale' : inv[u] # "none"
    BY <1>6 DEF Install, passVars, procVars, TypeOK, RecordTypeOK, ProcessTypeOK
  <2>2. timer' \in {timer, WakeAt(Sleepers)} /\ timer' \subseteq Tasks
    BY <1>2, <1>6 DEF Install, Kick, WakeAt, TypeOK, MemoryTypeOK
  <2>3. dirty' \in BOOLEAN
    BY <1>6 DEF Install, Kick, TypeOK, MemoryTypeOK
  <2>4. TypeOK'
    BY <1>1, <2>1, <2>2, <2>3 DEF TypeOK, RecordTypeOK, MemoryTypeOK, ProcessTypeOK
  <2> QED
    BY <1>1, <2>1, <2>2, <2>4 DEF Quiet, recVars
<1> QED
  BY <1>3, <1>4, <1>5, <1>6

\* Every step commits records, leaves them alone, or ends or starts a process.
LEMMA Steps ==
  ASSUME TypeOK, Next
  PROVE  (\E W \in SUBSET Tasks : Commits(W)) \/ Quiet \/ Join \/ Open
<1>1. CASE Clients
  BY <1>1, CreateCommits, AbortCommits, AbortConversationCommits, ClientQuiet DEF Clients
<1>2. CASE Host
  BY <1>2, HostQuiet DEF Host
<1>3. CASE Reconcile \/ Abandon \/ Reserve
  BY <1>3, ReconcileCommits, AbandonCommits, ReserveCommits
<1>4. CASE TimerFires
  BY <1>4, HostQuiet
<1>5. ASSUME NEW t \in Tasks, RuntimeCommit(t) \/ Step(t) \/ AbortStep(t)
      PROVE  (\E W \in SUBSET Tasks : Commits(W)) \/ Quiet
  BY <1>5, RuntimeCommits, StepCommits
<1>6. ASSUME NEW t \in Tasks, Returns(t) \/ Throws(t) \/ Elapse(t) PROVE Quiet
  BY <1>6, HandlerQuiet
<1> QED
  BY <1>1, <1>2, <1>3, <1>4, <1>5, <1>6 DEF Next

-----------------------------------------------------------------------------
(* The invariants of the records                                            *)

LEMMA InitRecordInv == Init => RecordInv
<1> SUFFICES ASSUME Init PROVE RecordInv
  OBVIOUS
<1>1. TypeOK
  BY TreeAssumption DEF Init, TypeOK, RecordTypeOK, MemoryTypeOK, ProcessTypeOK, Statuses
<1>2. RestartsBounded /\ RunningBelowLimit
  BY LimitAssumption DEF Init, RestartsBounded, RunningBelowLimit
<1> QED
  BY <1>1, <1>2 DEF Init, RecordInv, SleepsTimed, IdleWaitersBusy

LEMMA CommitsRecordInv ==
  ASSUME RecordInv, NEW W \in SUBSET Tasks, Commits(W)
  PROVE  RecordInv'
<1> USE DEF RecordInv
<1>1. \A t \in Tasks : Same(t) \/ Change(t)
  BY DEF Commits, Written
<1>2. TypeOK'
  <2>1. RecordTypeOK' /\ MemoryTypeOK' /\ ProcessTypeOK' /\ \A t \in moved' \cup stale' : inv'[t] # "none"
    BY DEF Commits, Written, Published, Invoked
  <2>2. /\ \A t \in Tasks : outcome'[t] # "none" <=> status'[t] \in {"completing", "terminal"}
        /\ \A t \in Tasks : mark'[t] # "none" => status'[t] # "none"
        /\ \A t \in Tasks : on'[t] # {} \/ t \in failFast' => status'[t] = "waiting"
        /\ \A t \in due' : status'[t] = "sleeping"
    BY WrittenTies DEF Commits
  <2> QED
    BY <2>1, <2>2 DEF TypeOK
<1>3. RestartsBounded'
  BY <1>1, LimitAssumption DEF Same, Change, RestartsBounded
<1>4. RunningBelowLimit'
  <2> SUFFICES ASSUME NEW t \in Tasks, status'[t] = "running", mark'[t] # "none" \/ t \notin SelfLimiting
               PROVE  restarts'[t] < RestartLimit
    BY DEF RunningBelowLimit
  <2>1. RestartLimit \in Nat \ {0} /\ restarts[t] \in Nat
    BY LimitAssumption DEF TypeOK, RecordTypeOK
  <2>2. CASE restarts'[t] = 0
    BY <2>1, <2>2
  <2>3. CASE restarts'[t] # 0
    <3>1. mark'[t] = mark[t] /\ restarts'[t] = restarts[t]
      BY <1>1, <2>3 DEF Same, Change
    <3>2. status[t] = "running" \/ ~CutOff(t)
      BY <1>1 DEF Same, Change
    <3> QED
      BY <2>1, <3>1, <3>2 DEF RunningBelowLimit, CutOff
  <2> QED
    BY <2>2, <2>3
<1>5. UNCHANGED <<up, enabled>>
  BY DEF Commits, Published, procVars
<1>6. SleepsTimed'
  <2>1. CASE timer' = WakeAt(Sleepers')
    BY <1>5, <2>1 DEF SleepsTimed, WakeAt
  <2>2. CASE W = {} /\ timer' = timer
    <3>1. Sleepers' = Sleepers
      BY <2>2 DEF Commits, Written, Same, Sleepers
    <3> QED
      BY <1>5, <2>2, <3>1 DEF SleepsTimed
  <2> QED
    BY <2>1, <2>2 DEF Commits, Published
<1>7. IdleWaitersBusy'
  <2> SUFFICES ASSUME NEW s \in idleWait', Idle(s)' PROVE FALSE
    BY DEF IdleWaitersBusy
  <2>1. s \in idleWait /\ ~Idle(s)
    BY DEF Commits, Published, IdleWaitersBusy
  <2>2. PICK t \in Tasks \ Background : Live(t) /\ s \in Scopes[t]
    BY <2>1 DEF Idle
  <2>3. ~Live(t)'
    BY <2>2 DEF Idle
  <2>4. t \in W /\ status'[t] = "terminal"
    <3>1. ~Same(t)
      BY <2>2, <2>3 DEF Same, Live
    <3>2. t \in W /\ Change(t)
      BY <1>1, <3>1, <2>2 DEF Commits, Written
    <3>3. status'[t] \in Statuses /\ status'[t] # "none"
      BY <1>2, <3>2 DEF Change, TypeOK, RecordTypeOK
    <3> QED
      BY <2>3, <3>2, <3>3 DEF Live, Statuses
  <2> QED
    BY <2>2, <2>4 DEF Commits, Published
<1> QED
  BY <1>2, <1>3, <1>4, <1>5, <1>6, <1>7

LEMMA QuietRecordInv ==
  ASSUME RecordInv, Quiet
  PROVE  RecordInv'
<1>1. UNCHANGED <<status, mark, outcome, restarts, on, failFast>> /\ TypeOK' /\ due \subseteq due'
  BY DEF Quiet, recVars
<1>2. RestartsBounded' /\ RunningBelowLimit'
  BY <1>1 DEF RecordInv, RestartsBounded, RunningBelowLimit
<1>3. Sleepers' \subseteq Sleepers
  BY <1>1 DEF Sleepers
<1>4. SleepsTimed'
  BY <1>3 DEF RecordInv, Quiet, SleepsTimed, WakeAt
<1>5. \A s : Idle(s)' <=> Idle(s)
  BY <1>1 DEF Idle, Live
<1>6. IdleWaitersBusy'
  BY <1>5 DEF RecordInv, Quiet, IdleWaitersBusy
<1> QED
  BY <1>1, <1>2, <1>4, <1>6 DEF RecordInv, Quiet

LEMMA JoinRecordInv ==
  ASSUME RecordInv, Join
  PROVE  RecordInv'
<1> USE DEF RecordInv
<1>1. /\ status' = [t \in Tasks |-> IF t \in stopped /\ status[t] = "running" THEN "pending"
                                    ELSE status[t]]
      /\ UNCHANGED <<mark, outcome, restarts, on, failFast, convs, queued, crashes, due, fits>>
      /\ Gone /\ lastEnd' = "closed"
  BY DEF Join
<1>2. RecordTypeOK'
  BY <1>1 DEF TypeOK, RecordTypeOK, Statuses
<1>3. MemoryTypeOK' /\ ProcessTypeOK' /\ moved' \cup stale' = {}
  BY <1>1 DEF Gone, TypeOK, MemoryTypeOK, ProcessTypeOK
<1>4. TypeOK'
  BY <1>1, <1>2, <1>3 DEF TypeOK, RecordTypeOK
<1>5. RestartsBounded' /\ RunningBelowLimit'
  BY <1>1 DEF RestartsBounded, RunningBelowLimit
<1> QED
  BY <1>1, <1>4, <1>5 DEF Gone, SleepsTimed, IdleWaitersBusy

LEMMA OpenRecordInv ==
  ASSUME RecordInv, Open
  PROVE  RecordInv'
<1> USE DEF RecordInv
<1>1. /\ status' = [t \in Tasks |-> IF status[t] = "running" THEN "pending" ELSE status[t]]
      /\ restarts' = [t \in Tasks |-> IF status[t] = "running" THEN restarts[t] + 1 ELSE restarts[t]]
      /\ UNCHANGED <<mark, outcome, on, failFast, convs, queued, timer, idleWait, inv, moved, stale,
                     enabled, stopped, lastEnd, crashes, due, fits>>
      /\ up = "down" /\ up' = "open"
  BY DEF Open, Interrupted, invVars
<1>2. /\ runnable' \subseteq Tasks /\ finalizeChecks' \subseteq Tasks /\ failFastChecks' = failFast
      /\ abandoned' \subseteq Tasks
      /\ cascade' = TRUE /\ reconcile' = TRUE /\ dirty' \in BOOLEAN
  BY TreeAssumption DEF Open
<1>3. RecordTypeOK'
  BY <1>1 DEF TypeOK, RecordTypeOK, Statuses
<1>4. MemoryTypeOK' /\ ProcessTypeOK'
  BY <1>1, <1>2 DEF TypeOK, RecordTypeOK, MemoryTypeOK, ProcessTypeOK
<1>5. TypeOK'
  BY <1>1, <1>3, <1>4 DEF TypeOK, RecordTypeOK
<1>6. RestartsBounded' /\ RunningBelowLimit'
  BY <1>1, LimitAssumption DEF RestartsBounded, RunningBelowLimit, TypeOK, RecordTypeOK
<1>7. SleepsTimed'
  BY <1>1 DEF SleepsTimed
<1>8. \A s : Idle(s)' <=> Idle(s)
  BY <1>1 DEF Idle, Live
<1> QED
  BY <1>1, <1>5, <1>6, <1>7, <1>8 DEF IdleWaitersBusy

\* The restart counters, timers and idle waiters stay right whatever commits,
\* aborts, registry changes, closes and crashes happen, in any ownership tree.
THEOREM RecordsHold == Spec => []RecordInv
<1>1. RecordInv /\ [Next]_vars => RecordInv'
  <2> SUFFICES ASSUME RecordInv, [Next]_vars PROVE RecordInv'
    OBVIOUS
  <2>1. CASE Next
    <3>1. TypeOK
      BY DEF RecordInv
    <3> QED
      BY <2>1, <3>1, Steps, CommitsRecordInv, QuietRecordInv, JoinRecordInv, OpenRecordInv
  <2>2. CASE UNCHANGED vars
    BY <2>2 DEF vars, recVars, memVars, passVars, invVars, procVars, RecordInv, TypeOK, RecordTypeOK,
         MemoryTypeOK, ProcessTypeOK, RestartsBounded, RunningBelowLimit, SleepsTimed, Sleepers,
         IdleWaitersBusy, Idle, Live
  <2> QED
    BY <2>1, <2>2
<1> QED
  BY InitRecordInv, <1>1, PTL DEF Spec

\* The type invariant of the scheduler, with the ties between a record's fields.
THEOREM TypeCorrect == Spec => []TypeOK
  BY RecordsHold, PTL DEF RecordInv

\* A crash loop ends: restarts never exceed the limit (#planReservation()).
THEOREM CrashLoopEnds == Spec => []RestartsBounded
  BY RecordsHold, PTL DEF RecordInv

\* Every sleep that is not due has an alarm no later than it (#armTimer()).
THEOREM SleepsHaveAlarms == Spec => []SleepsTimed
  BY RecordsHold, PTL DEF RecordInv

\* No idle waiter is left behind in an idle scope (#settleIdle()).
THEOREM IdleSettled == Spec => []IdleWaitersBusy
  BY RecordsHold, PTL DEF RecordInv

\* A decided outcome never changes, and a held one only becomes final.
THEOREM OutcomesAreFinal == Spec => OutcomeFinal
<1> DEFINE Final(t) == status[t] \in {"completing", "terminal"} =>
                         outcome'[t] = outcome[t] /\ status'[t] \in {status[t], "terminal"}
<1>1. ASSUME RecordInv, [Next]_vars, NEW t \in Tasks PROVE Final(t)
  <2>0. TypeOK
    BY <1>1 DEF RecordInv
  <2>1. ASSUME NEW W \in SUBSET Tasks, Commits(W) PROVE Final(t)
    <3>1. Same(t) \/ Change(t)
      BY <2>1 DEF Commits, Written
    <3> QED
      BY <3>1 DEF Same, Change
  <2>2. CASE Quiet
    BY <2>2 DEF Quiet, recVars
  <2>3. CASE Join
    BY <2>3 DEF Join
  <2>4. CASE Open
    BY <2>4 DEF Open, Interrupted
  <2>5. CASE UNCHANGED vars
    BY <2>5 DEF vars, recVars
  <2> QED
    BY <1>1, <2>0, <2>1, <2>2, <2>3, <2>4, <2>5, Steps
<1>2. RecordInv /\ [Next]_vars => [\A t \in Tasks : Final(t)]_vars
  BY <1>1
<1> QED
  BY RecordsHold, <1>2, PTL DEF Spec, OutcomeFinal

\* A task becomes final only with no live ordinary work below it: its own commit
\* (#terminate()), a reconcile pass (#finalize()) and a reservation pass agree.
THEOREM EndsAreDrained == Spec => EndsDrained
<1> DEFINE Ends(t) == status[t] # "terminal" /\ status'[t] = "terminal" => OwnedLive(t)' = {}
<1>1. ASSUME RecordInv, [Next]_vars, NEW t \in Tasks PROVE Ends(t)
  <2>0. TypeOK
    BY <1>1 DEF RecordInv
  <2>1. ASSUME NEW W \in SUBSET Tasks, Commits(W) PROVE Ends(t)
    <3>1. t \in W \/ Same(t)
      BY <2>1 DEF Commits, Written
    <3> QED
      BY <2>1, <3>1 DEF Same, Commits, Drained
  <2>2. CASE Quiet
    BY <2>2 DEF Quiet, recVars
  <2>3. CASE Join
    BY <2>3 DEF Join
  <2>4. CASE Open
    BY <2>4 DEF Open, Interrupted
  <2>5. CASE UNCHANGED vars
    BY <2>5 DEF vars, recVars
  <2> QED
    BY <1>1, <2>0, <2>1, <2>2, <2>3, <2>4, <2>5, Steps
<1>2. RecordInv /\ [Next]_vars => [\A t \in Tasks : Ends(t)]_vars
  BY <1>1
<1> QED
  BY RecordsHold, <1>2, PTL DEF Spec, EndsDrained

\* Abort runs bottom-up (#waitingOn()): an abort handler starts only when no
\* ordinary work below its task is live.
THEOREM AbortsBottomUp == Spec => AbortBottomUp
<1> DEFINE Starts(t) == inv[t] # "abortPhase" /\ inv'[t] = "abortPhase" => OwnedLive(t)' = {}
<1>1. ASSUME RecordInv, [Next]_vars, NEW t \in Tasks PROVE Starts(t)
  <2>0. TypeOK
    BY <1>1 DEF RecordInv
  <2>1. ASSUME NEW W \in SUBSET Tasks, Commits(W) PROVE Starts(t)
    BY <2>1 DEF Commits, Invoked
  <2>2. CASE Quiet
    BY <2>2 DEF Quiet
  <2>3. CASE Join
    BY <2>3 DEF Join, Gone
  <2>4. CASE Open
    BY <2>4 DEF Open, invVars
  <2>5. CASE UNCHANGED vars
    BY <2>5 DEF vars, invVars
  <2> QED
    BY <1>1, <2>0, <2>1, <2>2, <2>3, <2>4, <2>5, Steps
<1>2. RecordInv /\ [Next]_vars => [\A t \in Tasks : Starts(t)]_vars
  BY <1>1
<1> QED
  BY RecordsHold, <1>2, PTL DEF Spec, AbortBottomUp

-----------------------------------------------------------------------------

\* What the passes still owe.
Owed == CandidatesKnown /\ WorkIsComing /\ FailFastOwed /\ ReconcileOwed

\* The marks of a failFast wait are those of the waits that are checked.
LEMMA FailFastOne ==
  ASSUME NEW S, NEW t
  PROVE  t \in FailFastMarks(S) <=> \E w \in S : t \in FailFastMarks({w})
  BY DEF FailFastMarks

-----------------------------------------------------------------------------
(* Steps that publish                                                       *)

\* What a publication notes.
LEMMA ObserveFacts ==
  ASSUME NEW W, NEW m, Observe(W, m)
  PROVE  LET ended == {t \in W : status'[t] = "terminal"}
             failedNow == {t \in W : FailedOutcome(t)' /\ ~FailedOutcome(t)}
         IN  /\ runnable' = {t \in m.run \cup W \cup Waiters(ended)
                                   \cup {o \in Freed(ended) : mark'[o] # "none"} : Working(t)'}
             /\ finalizeChecks' = {t \in m.fin \cup {t \in W : status'[t] = "completing"} \cup Freed(ended) :
                                     status'[t] = "completing"}
             /\ failFastChecks' = (m.ff \ ended) \cup Rechecked(W, failedNow)
             /\ m.casc => cascade'
             /\ \A t \in W : Live(t)' /\ mark[t] # mark'[t] => cascade'
             /\ \A t \in W : status'[t] = "completing" /\ status[t] # "completing" /\ Intent(t)' => cascade'
             /\ \A t \in W : status[t] = "none" /\ t \notin Background /\ BelowCancelled(t)' => cascade'
             /\ up = "open" =>
                  /\ m.rec => reconcile'
                  /\ cascade' => reconcile'
                  /\ ended # {} => reconcile'
                  /\ Rechecked(W, failedNow) # {} => reconcile'
                  /\ \A t \in W : status'[t] = "completing" /\ status[t] # "completing" => reconcile'
             /\ dirty' = TRUE
  BY Zenon DEF Observe

\* Live tasks after a commit.
LEMMA WrittenLive ==
  ASSUME TypeOK, NEW W, Written(W), NEW t \in Tasks
  PROVE  /\ Same(t) \/ (t \in W /\ Change(t))
         /\ status[t] # "none" => status'[t] # "none"
         /\ Live(t) /\ ~Live(t)' => t \in W /\ status'[t] = "terminal"
         /\ Live(t)' /\ status[t] # "none" => Live(t)
         /\ Live(t) /\ FailedOutcome(t) => FailedOutcome(t)'
         /\ mark[t] # "none" => mark'[t] # "none"
         /\ mark[t] = "request" => mark'[t] = "request"
<1>1. Same(t) \/ (t \in W /\ Change(t))
  BY DEF Written
<1>2. status[t] \in Statuses /\ status'[t] \in Statuses
  BY DEF TypeOK, Written, RecordTypeOK
<1>3. CASE Same(t)
  BY <1>1, <1>3 DEF Same, Live, FailedOutcome
<1>4. CASE t \in W /\ Change(t)
  BY <1>1, <1>2, <1>4 DEF Change, Live, FailedOutcome, Statuses
<1> QED
  BY <1>1, <1>3, <1>4

\* The end of the last live work below o finds o (#release()).
LEMMA Released ==
  ASSUME TypeOK, NEW W, Written(W), NEW o \in Tasks, Live(o)',
         OwnedLive(o) # {}, OwnedLive(o)' = {}
  PROVE  \E e \in {t \in W : status'[t] = "terminal"} : o \in Freed({e})
<1>1. PICK e \in OwnedLive(o) : TRUE
  OBVIOUS
<1>2. e \in Owned[o] /\ e \in Tasks /\ Live(e)
  BY <1>1 DEF OwnedLive, Owned
<1>3. ~Live(e)'
  BY <1>2 DEF OwnedLive
<1>4. e \in W /\ status'[e] = "terminal"
  BY <1>2, <1>3, WrittenLive
<1> DEFINE L == {t \in Tasks : Live(t)'}
<1>5. Owned[o] \cap L = {}
  BY DEF OwnedLive
<1> HIDE DEF L
<1>6. /\ e \notin Background /\ o \in Owners[e]
      /\ ~\E p \in Owners[e] : p \in L /\ o \in Owners[p]
  BY <1>2, <1>5, NearestFree
<1>7. \A p \in Owners[e] : p \in Tasks
  BY <1>2 DEF Owners, Nodes
<1>8. NearestLiveAbove(o, e)'
  BY <1>6, <1>7 DEF NearestLiveAbove, L
<1> QED
  BY <1>4, <1>8 DEF Freed

LEMMA FreedIn ==
  ASSUME NEW E, NEW e \in E, NEW o, o \in Freed({e})
  PROVE  o \in Freed(E)
  BY DEF Freed

\* What a publication must be given of the candidates before it, `m`, for a
\* commit of W not to lose any.
Carries(W, m) ==
  /\ \A t \in Tasks : inv'[t] = "none" => inv[t] = "none" \/ t \in W
  /\ \A t \in Tasks \ W : t \in runnable /\ Candidate(t) /\ inv'[t] = "none" => t \in m.run
  /\ \A t \in Tasks : status[t] = "completing" /\ status'[t] = "completing" /\ OwnedLive(t) = {}
                        => t \in m.fin
  /\ reconcile => reconcile'
  /\ \A w \in failFastChecks : \A t \in FailFastMarks({w}) : w \in m.ff \/ mark'[t] = "request"
  /\ queued' \subseteq queued
  /\ \A c \in queued' : cascade /\ BelowCancelled(c) => m.casc

LEMMA ObserveCandidates ==
  ASSUME TypeOK, CandidatesKnown, up = "open",
         NEW W \in SUBSET Tasks, Written(W), NEW m, Observe(W, m), Carries(W, m)
  PROVE  CandidatesKnown'
<1> DEFINE ended == {t \in W : status'[t] = "terminal"}
<1> SUFFICES ASSUME NEW t \in Tasks, inv'[t] = "none", Working(t)', WaitingOn(t)' = {},
                    ~(status'[t] = "sleeping" /\ mark'[t] = "none")
             PROVE  t \in runnable'
  BY DEF CandidatesKnown
<1>1. runnable' = {u \in m.run \cup W \cup Waiters(ended)
                         \cup {o \in Freed(ended) : mark'[o] # "none"} : Working(u)'}
  BY ObserveFacts
<1>2. CASE t \in W
  BY <1>1, <1>2
<1>3. CASE t \notin W
  <2>1. Same(t) /\ Working(t) /\ Live(t)' /\ inv[t] = "none"
    BY <1>3 DEF Written, Same, Working, Live, Carries
  <2>2. CASE WaitingOn(t) = {}
    <3>1. t \in runnable /\ t \notin Sleepers
      BY <2>1, <2>2 DEF CandidatesKnown, Same, Sleepers
    <3>2. Candidate(t)
      BY <2>1, <2>2, <3>1 DEF Candidate
    <3>3. t \in m.run
      BY <1>3, <3>1, <3>2 DEF Carries
    <3> QED
      BY <1>1, <3>3
  <2>3. CASE WaitingOn(t) # {} /\ mark[t] # "none"
    <3>1. mark'[t] # "none" /\ OwnedLive(t) # {} /\ OwnedLive(t)' = {}
      BY <2>1, <2>3 DEF WaitingOn, Same
    <3>2. PICK e \in ended : t \in Freed({e})
      BY <2>1, <3>1, Released
    <3>3. t \in Freed(ended)
      BY <3>2, FreedIn
    <3> QED
      BY <1>1, <3>1, <3>3
  <2>4. CASE WaitingOn(t) # {} /\ mark[t] = "none"
    <3>1. PICK e \in on[t] : Live(e)
      BY <2>4 DEF WaitingOn
    <3>2. on'[t] = on[t] /\ mark'[t] = "none" /\ e \in Tasks
      BY <2>1, <2>4, <3>1 DEF Same, TypeOK, RecordTypeOK
    <3>3. ~Live(e)'
      BY <3>1, <3>2 DEF WaitingOn
    <3>4. e \in ended
      BY <3>1, <3>2, <3>3, WrittenLive
    <3>5. t \in Waiters(ended)
      BY <3>1, <3>2, <3>4 DEF Waiters
    <3> QED
      BY <1>1, <3>5
  <2> QED
    BY <2>2, <2>3, <2>4
<1> QED
  BY <1>2, <1>3

LEMMA ObserveFailFast ==
  ASSUME TypeOK, FailFastOwed, up = "open",
         NEW W \in SUBSET Tasks, Written(W), NEW m, Observe(W, m), Carries(W, m)
  PROVE  FailFastOwed'
<1> DEFINE ended == {t \in W : status'[t] = "terminal"}
           failedNow == {t \in W : FailedOutcome(t)' /\ ~FailedOutcome(t)}
<1>1. /\ failFastChecks' = (m.ff \ ended) \cup Rechecked(W, failedNow)
      /\ Rechecked(W, failedNow) # {} => reconcile'
  BY ObserveFacts
<1>2. ASSUME NEW t \in Tasks, NEW x \in on'[t] PROVE status'[x] # "none"
  <2>1. x \in Tasks
    BY DEF Written, RecordTypeOK
  <2>2. x \in on[t] \/ status[x] # "none"
    BY WrittenLive DEF Same, Change
  <2>3. status[x] # "none"
    BY <2>2 DEF FailFastOwed
  <2> QED
    BY <2>1, <2>3, WrittenLive
<1>3. ASSUME NEW w \in failFast', FailFastMarks({w})' # {}
      PROVE  w \in failFastChecks' /\ reconcile'
  <2>1. w \in Tasks /\ status'[w] = "waiting"
    BY <1>3 DEF Written, RecordTypeOK, FailFastMarks
  <2>2. PICK f \in on'[w] : FailedOutcome(f)'
    BY <1>3 DEF FailFastMarks
  <2>3. PICK t \in on'[w] : Live(t)' /\ ~FailedOutcome(t)' /\ mark'[t] # "request"
    BY <1>3 DEF FailFastMarks
  <2>4. f \in Tasks /\ t \in Tasks
    BY <2>1 DEF Written, RecordTypeOK
  <2>5. CASE w \in Rechecked(W, failedNow)
    BY <1>1, <2>5
  <2>6. CASE w \notin Rechecked(W, failedNow)
    <3>1. w \in failFast /\ on'[w] = on[w] /\ f \notin failedNow
      <4>1. Same(w) \/ (w \in W /\ Change(w))
        BY <2>1, WrittenLive
      <4>2. w \in failFast
        BY <1>3, <2>6, <4>1 DEF Rechecked, Same
      <4> QED
        BY <1>3, <2>2, <2>6, <4>1, <4>2 DEF Rechecked, Same, Change
    <3>2. FailedOutcome(f)
      <4>1. CASE f \in W
        BY <2>2, <3>1, <4>1
      <4>2. CASE f \notin W
        BY <2>2, <2>4, <4>2 DEF Written, Same, FailedOutcome
      <4> QED
        BY <4>1, <4>2
    <3>3. status[t] # "none" /\ status[w] = "waiting"
      BY <2>1, <2>3, <3>1 DEF FailFastOwed, TypeOK
    <3>4. Live(t) /\ ~FailedOutcome(t) /\ mark[t] # "request"
      BY <2>3, <2>4, <3>3, WrittenLive
    <3>5. t \in FailFastMarks({w})
      BY <2>2, <2>3, <3>1, <3>2, <3>3, <3>4 DEF FailFastMarks
    <3>6. w \in failFastChecks /\ reconcile
      BY <3>1, <3>5 DEF FailFastOwed
    <3>7. w \in m.ff /\ reconcile'
      BY <2>3, <3>5, <3>6 DEF Carries
    <3> QED
      BY <1>1, <2>1, <3>7
  <2> QED
    BY <2>5, <2>6
<1> QED
  BY <1>2, <1>3 DEF FailFastOwed

\* Held outcomes that a commit sets free are checked.
LEMMA ObserveHeld ==
  ASSUME TypeOK, ReconcileOwed, up = "open",
         NEW W \in SUBSET Tasks, Written(W), NEW m, Observe(W, m), Carries(W, m),
         NEW t \in Tasks, status'[t] = "completing", OwnedLive(t)' = {}
  PROVE  t \in finalizeChecks' /\ reconcile'
<1> DEFINE ended == {u \in W : status'[u] = "terminal"}
<1>1. /\ finalizeChecks' = {u \in m.fin \cup {u \in W : status'[u] = "completing"} \cup Freed(ended) :
                              status'[u] = "completing"}
      /\ ended # {} => reconcile'
      /\ t \in W /\ status[t] # "completing" => reconcile'
  BY ObserveFacts
<1>2. CASE status[t] # "completing"
  <2>1. t \in W
    BY <1>2 DEF Written, Same
  <2> QED
    BY <1>1, <1>2, <2>1
<1>3. CASE status[t] = "completing" /\ OwnedLive(t) = {}
  BY <1>1, <1>3 DEF Carries, ReconcileOwed
<1>4. CASE OwnedLive(t) # {}
  <2>1. Live(t)'
    BY DEF Live
  <2>2. PICK e \in ended : t \in Freed({e})
    BY <1>4, <2>1, Released
  <2>3. t \in Freed(ended)
    BY <2>2, FreedIn
  <2> QED
    BY <1>1, <2>2, <2>3
<1> QED
  BY <1>2, <1>3, <1>4

\* A commit after which no pass is owed changed nobody's cancellation intent.
LEMMA IntentKept ==
  ASSUME TypeOK, up = "open", NEW W \in SUBSET Tasks, Written(W), NEW m, Observe(W, m), ~reconcile',
         NEW x \in Tasks
  PROVE  /\ mark'[x] = mark[x] /\ FailedOutcome(x)' = FailedOutcome(x)
         /\ Intent(x)' = Intent(x)
         /\ Live(x)' /\ ~Live(x) => x \in W /\ status[x] = "none"
<1>1. Same(x) \/ (x \in W /\ Change(x))
  BY WrittenLive
<1>2. CASE Same(x)
  BY <1>2 DEF Same, FailedOutcome, Intent, Live
<1>3. CASE x \in W /\ Change(x)
  <2>1. /\ status'[x] # "terminal"
        /\ Live(x)' => mark'[x] = mark[x]
        /\ ~(status'[x] = "completing" /\ status[x] # "completing")
    BY <1>3, ObserveFacts
  <2>2. status'[x] \in Statuses /\ status[x] \in Statuses
    BY DEF TypeOK, Written, RecordTypeOK
  <2>3. Live(x)' /\ mark'[x] = mark[x] /\ status[x] # "terminal"
    BY <1>3, <2>1, <2>2 DEF Live, Statuses, Change
  <2>4. FailedOutcome(x)' = FailedOutcome(x)
    BY <1>3, <2>1, <2>3 DEF Change, FailedOutcome
  <2>5. status[x] = "none" => mark[x] = "none" /\ ~FailedOutcome(x)
    BY DEF TypeOK, FailedOutcome
  <2>6. status[x] # "none" => Live(x)
    BY <2>2, <2>3 DEF Live, Statuses
  <2> QED
    BY <1>3, <2>3, <2>4, <2>5, <2>6 DEF Intent
<1> QED
  BY <1>1, <1>2, <1>3

LEMMA ObserveCascade ==
  ASSUME TypeOK, ReconcileOwed, up = "open",
         NEW W \in SUBSET Tasks, Written(W), NEW m, Observe(W, m), Carries(W, m),
         CascadeMarks("request")' \cup CascadeMarks("restart")' # {}
  PROVE  reconcile'
<1> SUFFICES ASSUME ~reconcile' PROVE FALSE
  OBVIOUS
<1>1. PICK r \in {"request", "restart"} : CascadeMarks(r)' # {}
  OBVIOUS
<1>2. PICK t \in CascadeMarks(r)' : TRUE
  BY <1>1
<1>3. t \in Tasks \ Background /\ Live(t)' /\ (mark'[t] = "none" \/ (mark'[t] = "restart" /\ r = "request"))
  BY <1>2 DEF CascadeMarks
<1>4. PICK o \in Tasks : /\ Cancelling(o, t)'
                         /\ r = IF mark'[o] = "restart" /\ ~FailedOutcome(o)' THEN "restart" ELSE "request"
  BY <1>2 DEF CascadeMarks
<1>5. \A x \in Tasks : /\ mark'[x] = mark[x] /\ FailedOutcome(x)' = FailedOutcome(x)
                       /\ Intent(x)' = Intent(x)
                       /\ Live(x)' /\ ~Live(x) => x \in W /\ status[x] = "none"
  BY IntentKept
<1>6. Owners[t] \subseteq Tasks
  BY <1>3 DEF Owners, Nodes
<1>7. Live(t)
  <2> SUFFICES ASSUME ~Live(t) PROVE FALSE
    OBVIOUS
  <2>1. t \in W /\ status[t] = "none"
    BY <1>3, <1>5
  <2>2. BelowCancelled(t)'
    BY <1>4 DEF Cancelling, BelowCancelled
  <2> QED
    BY <1>3, <2>1, <2>2, ObserveFacts
<1>8. Cancelling(o, t)
  <2>1. o \in Owners[t] /\ Intent(o)' /\ ~\E p \in Owners[t] : Intent(p)' /\ o \in Owners[p]
    BY <1>4 DEF Cancelling
  <2> QED
    BY <1>5, <1>6, <2>1 DEF Cancelling
<1>9. r = IF mark[o] = "restart" /\ ~FailedOutcome(o) THEN "restart" ELSE "request"
  BY <1>4, <1>5
<1>10. t \in CascadeMarks(r)
  BY <1>3, <1>5, <1>7, <1>8, <1>9 DEF CascadeMarks
<1>11. reconcile
  BY <1>10 DEF ReconcileOwed
<1> QED
  BY <1>11 DEF Carries

LEMMA ObserveQueued ==
  ASSUME TypeOK, ReconcileOwed, up = "open",
         NEW W \in SUBSET Tasks, Written(W), NEW m, Observe(W, m), Carries(W, m),
         NEW c \in queued', BelowCancelled(c)'
  PROVE  reconcile' /\ cascade'
<1>1. c \in queued /\ c \in Nodes
  BY DEF Carries, TypeOK, RecordTypeOK, Nodes
<1> SUFFICES cascade'
  BY ObserveFacts
<1>2. CASE BelowCancelled(c)
  <2>1. cascade
    BY <1>1, <1>2 DEF ReconcileOwed
  <2>2. m.casc
    BY <1>2, <2>1 DEF Carries
  <2> QED
    BY <2>2, ObserveFacts
<1>3. CASE ~BelowCancelled(c)
  <2>1. PICK o \in Owners[c] : Intent(o)'
    BY DEF BelowCancelled
  <2>2. o \in Tasks /\ ~Intent(o)
    BY <1>1, <1>3, <2>1 DEF Owners, BelowCancelled
  <2>3. o \in W /\ Change(o) /\ Live(o)' /\ (mark'[o] # "none" \/ FailedOutcome(o)')
    <3>1. ~Same(o)
      BY <2>1, <2>2 DEF Same, Intent, Live, FailedOutcome
    <3> QED
      BY <2>1, <2>2, <3>1, WrittenLive DEF Intent
  <2>4. CASE mark'[o] # mark[o]
    BY <2>3, <2>4, ObserveFacts
  <2>5. CASE mark'[o] = mark[o]
    <3>1. mark[o] = "none"
      <4> SUFFICES ASSUME mark[o] # "none" PROVE FALSE
        OBVIOUS
      <4>1. status[o] # "none" /\ status[o] \in Statuses
        BY <2>2 DEF TypeOK, RecordTypeOK
      <4>2. Live(o)
        BY <2>2, <2>3, <4>1, WrittenLive
      <4> QED
        BY <2>2, <4>2 DEF Intent
    <3>2. FailedOutcome(o)' /\ status'[o] = "completing"
      BY <2>3, <2>5, <3>1 DEF FailedOutcome, Live
    <3>3. status[o] # "completing"
      <4> SUFFICES ASSUME status[o] = "completing" PROVE FALSE
        OBVIOUS
      <4>1. FailedOutcome(o) /\ Live(o)
        BY <2>3, <3>2 DEF Change, FailedOutcome, Live
      <4> QED
        BY <2>2, <4>1 DEF Intent
    <3> QED
      BY <2>1, <2>3, <3>2, <3>3, ObserveFacts
  <2> QED
    BY <2>4, <2>5
<1> QED
  BY <1>2, <1>3

LEMMA ObserveOwed ==
  ASSUME TypeOK, Owed, up = "open", NEW W \in SUBSET Tasks, Written(W), NEW m, Observe(W, m),
         Carries(W, m)
  PROVE  Owed'
<1> USE DEF Owed
<1>1. CandidatesKnown' /\ FailFastOwed'
  BY ObserveCandidates, ObserveFailFast
<1>2. dirty'
  BY ObserveFacts
<1>3. WorkIsComing'
  BY <1>1, <1>2 DEF WorkIsComing, CandidatesKnown, Reservable, Candidate
<1>4. \A t \in Tasks : status'[t] = "completing" /\ OwnedLive(t)' = {} => t \in finalizeChecks' /\ reconcile'
  BY ObserveHeld
<1>5. CascadeMarks("request")' \cup CascadeMarks("restart")' # {} => reconcile'
  BY ObserveCascade
<1>6. (\E c \in queued' : BelowCancelled(c)') => reconcile' /\ cascade'
  BY ObserveQueued
<1>7. up' = "open" /\ FailFastMarks(failFast)' # {} => reconcile' /\ FailFastMarks(failFastChecks)' # {}
  <2> SUFFICES ASSUME up' = "open", NEW t \in FailFastMarks(failFast)'
               PROVE  reconcile' /\ FailFastMarks(failFastChecks)' # {}
    OBVIOUS
  <2>1. PICK w \in failFast' : t \in FailFastMarks({w})'
    BY DEF FailFastMarks
  <2>2. w \in failFastChecks' /\ reconcile'
    BY <1>1, <2>1 DEF FailFastOwed
  <2>3. t \in FailFastMarks(failFastChecks)'
    BY <2>1, <2>2 DEF FailFastMarks
  <2> QED
    BY <2>2, <2>3
<1>8. ReconcileOwed'
  BY <1>4, <1>5, <1>6, <1>7 DEF ReconcileOwed
<1> QED
  BY <1>1, <1>3, <1>8

-----------------------------------------------------------------------------
(* Steps that write no record                                               *)

\* A step that takes nothing from what is owed.
Keeps ==
  /\ UNCHANGED recVars /\ up' = up
  /\ \A t \in Tasks : inv'[t] = "none" => inv[t] = "none" \/ t \in runnable' \/ ~Working(t)
  /\ runnable \subseteq runnable'
  /\ dirty' \/ /\ UNCHANGED <<dirty, enabled, fits>>
               /\ \A t \in Tasks : inv'[t] = "none" => inv[t] = "none"
  /\ UNCHANGED <<finalizeChecks, failFastChecks>>
  /\ up = "open" => (reconcile => reconcile') /\ (cascade => cascade')
  /\ \A c \in queued' : c \in queued \/ (BelowCancelled(c) /\ up = "open" => cascade' /\ reconcile')

LEMMA SameRecords ==
  ASSUME UNCHANGED recVars
  PROVE  /\ \A t \in Tasks : /\ OwnedLive(t)' = OwnedLive(t) /\ WaitingOn(t)' = WaitingOn(t)
                             /\ Working(t)' = Working(t) /\ HeldBack(t)' = HeldBack(t)
                             /\ CutOff(t)' = CutOff(t)
         /\ \A c \in Conversations : BelowCancelled(c)' = BelowCancelled(c)
         /\ \A r : CascadeMarks(r)' = CascadeMarks(r)
<1>1. UNCHANGED <<status, mark, outcome, restarts, on, failFast>>
  BY DEF recVars
<1>2. \A t : Live(t)' = Live(t) /\ FailedOutcome(t)' = FailedOutcome(t) /\ Intent(t)' = Intent(t)
             /\ Working(t)' = Working(t) /\ CutOff(t)' = CutOff(t)
  BY <1>1 DEF Live, FailedOutcome, Intent, Working, CutOff
<1>3. \A t : OwnedLive(t)' = OwnedLive(t)
  BY <1>2 DEF OwnedLive
<1>4. \A t : WaitingOn(t)' = WaitingOn(t)
  BY <1>1, <1>2, <1>3 DEF WaitingOn
<1>5. \A n : BelowCancelled(n)' = BelowCancelled(n)
  BY <1>2 DEF BelowCancelled
<1>6. \A t : HeldBack(t)' = HeldBack(t)
  BY <1>1, <1>5 DEF HeldBack
<1>7. \A r : CascadeMarks(r)' = CascadeMarks(r)
  BY <1>1 DEF CascadeMarks, Cancelling, Intent, FailedOutcome, Live
<1> QED
  BY <1>2, <1>3, <1>4, <1>5, <1>6, <1>7

LEMMA KeepsOwed ==
  ASSUME TypeOK, Owed, Keeps, queued' \subseteq Conversations
  PROVE  Owed'
<1> USE DEF Owed
<1>0. UNCHANGED <<status, mark, outcome, restarts, on, failFast, up, finalizeChecks, failFastChecks>>
  BY DEF Keeps, recVars
<1>1. /\ \A t \in Tasks : /\ OwnedLive(t)' = OwnedLive(t) /\ WaitingOn(t)' = WaitingOn(t)
                          /\ Working(t)' = Working(t) /\ HeldBack(t)' = HeldBack(t)
                          /\ CutOff(t)' = CutOff(t)
      /\ \A c \in Conversations : BelowCancelled(c)' = BelowCancelled(c)
      /\ \A r : CascadeMarks(r)' = CascadeMarks(r)
  BY SameRecords DEF Keeps
<1>3. CandidatesKnown'
  BY <1>0, <1>1 DEF Keeps, CandidatesKnown
<1>4. WorkIsComing'
  <2> SUFFICES ASSUME up' = "open", enabled', NEW t \in Tasks, Reservable(t)' PROVE t \in runnable' /\ dirty'
    BY DEF WorkIsComing
  <2>1. t \in runnable'
    BY <1>3 DEF CandidatesKnown, Reservable, Candidate
  <2>2. CASE dirty'
    BY <2>1, <2>2
  <2>3. CASE ~dirty'
    <3>1. UNCHANGED <<dirty, enabled, fits>> /\ inv[t] = "none"
      BY <2>3 DEF Keeps, Reservable, Candidate
    <3>2. Reservable(t)
      BY <1>0, <1>1, <3>1 DEF Reservable, Candidate, Sleepers
    <3> QED
      BY <1>0, <2>1, <3>1, <3>2 DEF WorkIsComing
  <2> QED
    BY <2>2, <2>3
<1>5. FailFastOwed'
  BY <1>0 DEF Keeps, FailFastOwed, FailFastMarks, Live, FailedOutcome
<1>6. ReconcileOwed'
  <2> SUFFICES ASSUME up' = "open" PROVE ReconcileOwed'
    BY DEF ReconcileOwed
  <2>1. up = "open" /\ (reconcile => reconcile') /\ (cascade => cascade')
    BY DEF Keeps
  <2>2. \A t \in Tasks : status'[t] = "completing" /\ OwnedLive(t)' = {} => t \in finalizeChecks' /\ reconcile'
    BY <1>0, <1>1, <2>1 DEF ReconcileOwed
  <2>3. CascadeMarks("request")' \cup CascadeMarks("restart")' # {} => reconcile'
    BY <1>1, <2>1 DEF ReconcileOwed
  <2>4. FailFastMarks(failFast)' # {} => reconcile' /\ FailFastMarks(failFastChecks)' # {}
    <3>1. FailFastMarks(failFast)' = FailFastMarks(failFast)
          /\ FailFastMarks(failFastChecks)' = FailFastMarks(failFastChecks)
      BY <1>0 DEF FailFastMarks, Live, FailedOutcome
    <3> QED
      BY <2>1, <3>1 DEF ReconcileOwed
  <2>5. (\E c \in queued' : BelowCancelled(c)') => reconcile' /\ cascade'
    BY <1>1, <2>1 DEF Keeps, ReconcileOwed
  <2> QED
    BY <2>2, <2>3, <2>4, <2>5 DEF ReconcileOwed
<1> QED
  BY <1>3, <1>4, <1>5, <1>6

\* Outside an open process only what waits refer to matters.
LEMMA ClosedOwed ==
  ASSUME Owed, up' # "open", \A t \in Tasks : on'[t] = on[t] /\ (status[t] # "none" => status'[t] # "none"),
         on \in [Tasks -> SUBSET Tasks]
  PROVE  Owed'
  BY DEF Owed, CandidatesKnown, WorkIsComing, FailFastOwed, ReconcileOwed

LEMMA ClosedWritten ==
  ASSUME TypeOK, Owed, up' # "open", NEW W, Written(W)
  PROVE  Owed'
<1>1. \A t \in Tasks : \A x \in on'[t] : status'[x] # "none"
  <2> SUFFICES ASSUME NEW t \in Tasks, NEW x \in on'[t] PROVE status'[x] # "none"
    OBVIOUS
  <2>1. x \in Tasks /\ (x \in on[t] \/ status[x] # "none")
    BY WrittenLive DEF Same, Change, Written, RecordTypeOK
  <2> QED
    BY <2>1, WrittenLive DEF Owed, FailFastOwed
<1> QED
  BY <1>1 DEF Owed, CandidatesKnown, WorkIsComing, FailFastOwed, ReconcileOwed

-----------------------------------------------------------------------------
(* The steps                                                                *)

\* A commit that leaves the candidates to its publication.
LEMMA MemOwed ==
  ASSUME TypeOK, Owed, NEW W \in SUBSET Tasks, Written(W), Observe(W, Mem), up' = up,
         queued' \subseteq queued, \A t \in Tasks : inv'[t] = "none" => inv[t] = "none" \/ t \in W
  PROVE  Owed'
<1>1. CASE up = "open"
  <2>1. /\ Mem.run = runnable /\ Mem.fin = finalizeChecks /\ Mem.ff = failFastChecks
        /\ Mem.casc = cascade /\ Mem.rec = reconcile
    BY DEF Mem
  <2>2. reconcile => reconcile'
    BY <1>1, <2>1, ObserveFacts
  <2>3. \A t \in Tasks : status[t] = "completing" /\ OwnedLive(t) = {} => t \in finalizeChecks
    BY <1>1 DEF Owed, ReconcileOwed
  <2>4. Carries(W, Mem)
    BY <2>1, <2>2, <2>3 DEF Carries
  <2> QED
    BY <1>1, <2>4, ObserveOwed
<1>2. CASE up # "open"
  BY <1>2, ClosedWritten
<1> QED
  BY <1>1, <1>2

LEMMA CreateOwed ==
  ASSUME TypeOK, Owed, NEW t \in Tasks, Create(t)
  PROVE  Owed'
  BY CreateWritten, MemOwed DEF Create, invVars, procVars

LEMMA AbortOwed ==
  ASSUME TypeOK, Owed, NEW t \in Tasks, Abort(t)
  PROVE  Owed'
<1>1. Written({t})
  BY AbortCommits DEF Commits
<1> QED
  BY <1>1, MemOwed DEF Abort, invVars, procVars

LEMMA AbortConversationOwed ==
  ASSUME TypeOK, Owed, NEW c \in Conversations, NEW b \in BOOLEAN, AbortConversation(c, b)
  PROVE  Owed'
<1> DEFINE reached == {t \in Tasks : Live(t) /\ mark[t] # "request"
                         /\ IF b THEN c \in Above[t] ELSE t \notin Background /\ c \in Reach[t]}
<1>1. queued' \subseteq queued /\ UNCHANGED <<convs, inv, up, enabled, fits>>
  BY DEF AbortConversation, invVars, procVars
<1>2. CASE reached # {} /\ SetMarks(reached, "request") /\ UNCHANGED <<status, outcome>>
           /\ StatesKept /\ Observe(reached, Mem) /\ SettleIdle(reached) /\ UNCHANGED abandoned
  <2>1. reached \subseteq Tasks /\ \A t \in reached : Live(t) /\ mark[t] # "request"
    OBVIOUS
  <2> HIDE DEF reached
  <2>2. Written(reached)
    BY <1>1, <1>2, <2>1, MarksWritten
  <2> QED
    BY <1>1, <1>2, <2>1, <2>2, MemOwed
<1>3. CASE UNCHANGED <<recVars, memVars, due>>
  <2>1. Keeps
    BY <1>1, <1>3 DEF Keeps, memVars, passVars
  <2>2. queued' \subseteq Conversations
    BY <1>1 DEF TypeOK, RecordTypeOK
  <2> QED
    BY <2>1, <2>2, KeepsOwed
<1> QED
  BY <1>2, <1>3 DEF AbortConversation

LEMMA AbandonOwed ==
  ASSUME TypeOK, Owed, Abandon
  PROVE  Owed'
<1> DEFINE unmarked == {t \in abandoned : Live(t) /\ mark[t] = "none"}
<1>1. unmarked \subseteq Tasks /\ \A t \in unmarked : Live(t) /\ mark[t] # "request"
  BY DEF TypeOK, MemoryTypeOK
<1>2. /\ SetMarks(unmarked, "restart") /\ UNCHANGED <<status, outcome>>
      /\ StatesKept /\ Observe(unmarked, Mem)
      /\ UNCHANGED <<convs, queued, invVars, procVars, fits>>
  BY DEF Abandon
<1> HIDE DEF unmarked
<1>3. Written(unmarked)
  BY <1>1, <1>2, MarksWritten
<1> QED
  BY <1>1, <1>2, <1>3, MemOwed DEF invVars, procVars

\* A pass that writes marks or ends tasks owes another one; what it applied is
\* not owed any more.
LEMMA ReconcileStepOwed ==
  ASSUME TypeOK, Owed, Reconcile
  PROVE  Owed'
<1> DEFINE plan == PlanReconcile
           W == plan.requests \cup plan.abandons \cup plan.ends
           m == [run |-> runnable, fin |-> {}, ff |-> {}, casc |-> FALSE, rec |-> FALSE]
<1>1. Written(W)
  BY ReconcileWritten
<1>2. W \subseteq Tasks /\ plan.ends = Finalized
  BY <1>1, ReconcilePlan DEF Written
<1>3. /\ mark' = [t \in Tasks |-> IF t \in plan.requests THEN "request"
                                  ELSE IF t \in plan.abandons THEN "restart" ELSE mark[t]]
      /\ status' = [t \in Tasks |-> IF t \in plan.ends THEN "terminal" ELSE status[t]]
      /\ \/ W # {} /\ Observe(W, m)
         \/ /\ W = {} /\ finalizeChecks' = {} /\ failFastChecks' = {}
            /\ cascade' = FALSE /\ reconcile' = FALSE
            /\ timer' = WakeAt(Sleepers) /\ UNCHANGED <<runnable, dirty>>
  BY SMT DEF Reconcile
<1>4. /\ up = "open" /\ reconcile /\ queued' = queued \ Withdrawn
      /\ UNCHANGED <<convs, inv, up, enabled, fits>>
  BY DEF Reconcile, invVars, procVars
<1>5. plan.requests = CascadeMarks("request") \cup FailFastMarks(failFastChecks)
      /\ plan.abandons = CascadeMarks("restart") \ plan.requests
  BY DEF PlanReconcile
<1>6. \A t \in Tasks : status[t] = "completing" /\ OwnedLive(t) = {} => status'[t] = "terminal" /\ t \in W
  <2> SUFFICES ASSUME NEW t \in Tasks, status[t] = "completing", OwnedLive(t) = {}
               PROVE  t \in Finalized
    BY <1>2, <1>3
  <2>1. t \in finalizeChecks
    BY <1>4 DEF Owed, ReconcileOwed
  <2> QED
    BY <2>1 DEF Finalized
<1>7. \A w \in failFastChecks : \A t \in FailFastMarks({w}) : t \in plan.requests
  BY <1>5, FailFastOne
<1>8. ASSUME NEW c \in queued', BelowCancelled(c) PROVE FALSE
  <2>1. c \in queued /\ cascade
    BY <1>4, <1>8 DEF Owed, ReconcileOwed
  <2> QED
    BY <1>4, <1>8, <2>1 DEF Withdrawn
<1>9. plan.requests \subseteq {t \in Tasks : Live(t) /\ mark[t] # "request"}
      /\ plan.abandons \subseteq {t \in Tasks : Live(t) /\ mark[t] = "none"}
  BY ReconcilePlan
<1>10. m.run = runnable /\ m.fin = {} /\ m.ff = {} /\ m.casc = FALSE /\ m.rec = FALSE
  OBVIOUS
<1> HIDE DEF plan, W, m
<1>11. CASE W # {} /\ Observe(W, m)
  <2>1. PICK t \in W : TRUE
    BY <1>11
  <2>2. t \in Tasks
    BY <1>2, <2>1
  <2>3. reconcile'
    <3>1. CASE status'[t] = "terminal"
      BY <1>4, <1>11, <2>1, <3>1, ObserveFacts
    <3>2. CASE status'[t] # "terminal"
      <4>1. t \in plan.requests \cup plan.abandons /\ status'[t] = status[t]
        BY <1>3, <2>1, <2>2, <3>2 DEF W
      <4>2. Live(t)' /\ mark'[t] # mark[t]
        BY <1>3, <1>9, <2>2, <4>1 DEF Live
      <4>3. cascade'
        BY <1>11, <2>1, <4>2, ObserveFacts
      <4> QED
        BY <1>4, <1>11, <4>3, ObserveFacts
    <3> QED
      BY <3>1, <3>2
  <2>4. Carries(W, m)
    <3>1. \A w \in failFastChecks : \A u \in FailFastMarks({w}) : mark'[u] = "request"
      BY <1>3, <1>7, <1>9
    <3>2. queued' \subseteq queued
      BY <1>4
    <3> QED
      BY <1>4, <1>6, <1>8, <1>10, <2>3, <3>1, <3>2 DEF Carries
  <2> QED
    BY <1>1, <1>2, <1>4, <1>11, <2>4, ObserveOwed
<1>12. CASE /\ W = {} /\ finalizeChecks' = {} /\ failFastChecks' = {}
            /\ cascade' = FALSE /\ reconcile' = FALSE
            /\ timer' = WakeAt(Sleepers) /\ UNCHANGED <<runnable, dirty>>
  <2>1. \A t \in Tasks : Same(t)
    BY <1>1, <1>12 DEF Written
  <2>2. /\ status' \in [Tasks -> Statuses] /\ RecordTypeOK'
    BY <1>1 DEF Written, RecordTypeOK
  <2>3. UNCHANGED recVars
    <3>1. status' = status /\ mark' = mark /\ outcome' = outcome /\ restarts' = restarts /\ on' = on
      BY <2>1, <2>2 DEF Same, TypeOK, RecordTypeOK
    <3>2. failFast' = failFast
      <4>1. failFast \subseteq Tasks /\ failFast' \subseteq Tasks
        BY <2>2 DEF TypeOK, RecordTypeOK
      <4>2. \A t \in Tasks : t \in failFast' <=> t \in failFast
        BY <2>1 DEF Same
      <4> QED
        BY <4>1, <4>2
    <3> QED
      BY <3>1, <3>2 DEF recVars
  <2>4. /\ \A t \in Tasks : /\ OwnedLive(t)' = OwnedLive(t) /\ WaitingOn(t)' = WaitingOn(t)
                            /\ Working(t)' = Working(t) /\ HeldBack(t)' = HeldBack(t)
                            /\ CutOff(t)' = CutOff(t)
        /\ \A c \in Conversations : BelowCancelled(c)' = BelowCancelled(c)
        /\ \A r : CascadeMarks(r)' = CascadeMarks(r)
    BY <2>3, SameRecords
  <2>5. UNCHANGED <<status, mark, outcome, restarts, on, failFast>>
    BY <2>3 DEF recVars
  <2>6. FailFastMarks(failFast) = {}
    <3>1. FailFastMarks(failFastChecks) = {}
      BY <1>5, <1>12 DEF W
    <3> QED
      BY <1>4, <3>1 DEF Owed, ReconcileOwed
  <2>7. CandidatesKnown' /\ WorkIsComing'
    BY <1>4, <1>12, <2>4, <2>5 DEF Owed, CandidatesKnown, WorkIsComing, Reservable, Candidate, Sleepers
  <2>8. FailFastOwed'
    <3>1. \A w \in failFast' : FailFastMarks({w})' = {}
      <4>1. \A w \in failFast : FailFastMarks({w}) = {}
        BY <2>6, FailFastOne
      <4> QED
        BY <2>5, <4>1 DEF FailFastMarks, Live, FailedOutcome
    <3> QED
      BY <2>5, <3>1 DEF Owed, FailFastOwed
  <2>9. ReconcileOwed'
    <3>1. FailFastMarks(failFast)' = {}
      BY <2>5, <2>6 DEF FailFastMarks, Live, FailedOutcome
    <3>2. CascadeMarks("request")' \cup CascadeMarks("restart")' = {}
      BY <1>5, <1>12, <2>4 DEF W
    <3>3. \A t \in Tasks : ~(status'[t] = "completing" /\ OwnedLive(t)' = {})
      BY <1>6, <1>12, <2>4, <2>5
    <3>4. ~\E c \in queued' : BelowCancelled(c)'
      <4>1. queued' \subseteq Conversations
        BY <1>4 DEF TypeOK, RecordTypeOK
      <4> QED
        BY <1>8, <2>4, <4>1
    <3> QED
      BY <3>1, <3>2, <3>3, <3>4 DEF ReconcileOwed
  <2> QED
    BY <2>7, <2>8, <2>9 DEF Owed
<1> QED
  BY <1>3, <1>11, <1>12

\* A reservation pass keeps as candidates what it does not take.
LEMMA ReserveOwed ==
  ASSUME TypeOK, Owed, Reserve
  PROVE  Owed'
<1> DEFINE plan == PlanReservation
           W == ReserveWrites(plan)
           m == [run |-> plan.left, fin |-> finalizeChecks, ff |-> failFastChecks,
                 casc |-> plan.cascade, rec |-> (reconcile \/ plan.cascade)]
<1>1. Written(W)
  BY ReserveWritten
<1>2. W \in SUBSET Tasks
  BY <1>1 DEF Written
<1>3. /\ \/ W # {} /\ Observe(W, m)
         \/ /\ W = {}
            /\ runnable' = m.run /\ cascade' = m.casc /\ reconcile' = m.rec /\ dirty' = FALSE
            /\ UNCHANGED <<finalizeChecks, failFastChecks, timer>>
      /\ inv' = [t \in Tasks |-> IF t \notin plan.reserved THEN inv[t]
                                 ELSE IF mark[t] = "none" THEN "runStart" ELSE "abortPhase"]
  BY SMT DEF Reserve, ReserveWrites
<1>4. up = "open" /\ UNCHANGED <<queued, up, enabled, fits>>
  BY DEF Reserve, procVars
<1>5. /\ m.run = plan.left /\ m.fin = finalizeChecks /\ m.ff = failFastChecks
      /\ m.casc = plan.cascade /\ m.rec = (reconcile \/ plan.cascade)
  OBVIOUS
<1>6. /\ \A t \in Tasks : t \in runnable /\ Candidate(t) => t \in plan.left \/ t \in plan.reserved
      /\ \A t \in Tasks : t \in runnable /\ Candidate(t) /\ ~HeldBack(t) =>
           t \in plan.cut \cup plan.reserved \/ (t \notin fits /\ (mark[t] = "request" => t \in plan.orphans))
      /\ \A t \in Tasks : t \in runnable /\ Candidate(t) /\ ~HeldBack(t) /\ CutOff(t) => t \in plan.cut
  BY DEF PlanReservation
<1>7. cascade => plan.cascade
  BY DEF PlanReservation
<1>8. \A t \in Tasks : inv'[t] = "none" => inv[t] = "none" /\ t \notin plan.reserved
  BY <1>3
<1> HIDE DEF plan, m
<1>9. CASE W # {} /\ Observe(W, m)
  <2>1. reconcile => reconcile'
    BY <1>4, <1>5, <1>9, ObserveFacts
  <2>2. \A t \in Tasks : status[t] = "completing" /\ OwnedLive(t) = {} => t \in finalizeChecks
    BY <1>4 DEF Owed, ReconcileOwed
  <2>3. \A t \in Tasks \ W : t \in runnable /\ Candidate(t) /\ inv'[t] = "none" => t \in m.run
    BY <1>5, <1>6, <1>8
  <2> HIDE DEF W
  <2>4. Carries(W, m)
    BY <1>4, <1>5, <1>7, <1>8, <2>1, <2>2, <2>3 DEF Carries
  <2> QED
    BY <1>1, <1>2, <1>4, <1>9, <2>4, ObserveOwed
<1>10. CASE /\ W = {}
            /\ runnable' = m.run /\ cascade' = m.casc /\ reconcile' = m.rec /\ dirty' = FALSE
            /\ UNCHANGED <<finalizeChecks, failFastChecks, timer>>
  <2>1. \A t \in Tasks : Same(t)
    BY <1>1, <1>10 DEF Written
  <2>2. RecordTypeOK'
    BY <1>1 DEF Written
  <2>3. UNCHANGED recVars
    <3>1. status' = status /\ mark' = mark /\ outcome' = outcome /\ restarts' = restarts /\ on' = on
      BY <2>1, <2>2 DEF Same, TypeOK, RecordTypeOK
    <3>2. failFast' = failFast
      <4>1. failFast \subseteq Tasks /\ failFast' \subseteq Tasks
        BY <2>2 DEF TypeOK, RecordTypeOK
      <4>2. \A t \in Tasks : t \in failFast' <=> t \in failFast
        BY <2>1 DEF Same
      <4> QED
        BY <4>1, <4>2
    <3> QED
      BY <3>1, <3>2 DEF recVars
  <2>4. /\ \A t \in Tasks : /\ OwnedLive(t)' = OwnedLive(t) /\ WaitingOn(t)' = WaitingOn(t)
                            /\ Working(t)' = Working(t) /\ HeldBack(t)' = HeldBack(t)
                            /\ CutOff(t)' = CutOff(t)
        /\ \A c \in Conversations : BelowCancelled(c)' = BelowCancelled(c)
        /\ \A r : CascadeMarks(r)' = CascadeMarks(r)
    BY <2>3, SameRecords
  <2>5. UNCHANGED <<status, mark, outcome, restarts, on, failFast>>
    BY <2>3 DEF recVars
  <2>6. (reconcile => reconcile') /\ (cascade => cascade')
    BY <1>5, <1>7, <1>10
  <2>7. CandidatesKnown'
    <3> SUFFICES ASSUME NEW t \in Tasks, inv'[t] = "none", Working(t)', WaitingOn(t)' = {},
                        ~(status'[t] = "sleeping" /\ mark'[t] = "none")
                 PROVE  t \in runnable'
      BY DEF CandidatesKnown
    <3>1. inv[t] = "none" /\ Working(t) /\ WaitingOn(t) = {} /\ t \notin Sleepers
      BY <1>8, <2>4, <2>5 DEF Sleepers
    <3>2. t \in runnable /\ Candidate(t)
      BY <1>4, <2>5, <3>1 DEF Owed, CandidatesKnown, Candidate
    <3> QED
      BY <1>5, <1>6, <1>8, <1>10, <3>2
  <2>8. WorkIsComing'
    <3> SUFFICES ASSUME NEW t \in Tasks, Reservable(t)' PROVE FALSE
      BY DEF WorkIsComing
    <3>1. inv[t] = "none" /\ t \notin plan.reserved /\ Working(t) /\ WaitingOn(t) = {} /\ t \notin Sleepers
          /\ ~(status[t] = "sleeping" /\ mark[t] = "none") /\ ~HeldBack(t)
          /\ (t \in fits \/ CutOff(t) \/ mark[t] = "request")
      BY <1>4, <1>8, <2>4, <2>5 DEF Reservable, Candidate, Sleepers
    <3>2. t \in runnable /\ Candidate(t)
      BY <1>4, <3>1 DEF Owed, CandidatesKnown, Candidate
    <3>3. t \in plan.cut \cup plan.orphans
      BY <1>6, <3>1, <3>2
    <3> QED
      BY <1>10, <3>3 DEF ReserveWrites
  <2>9. FailFastOwed'
    BY <1>4, <1>10, <2>5, <2>6 DEF Owed, FailFastOwed, FailFastMarks, Live, FailedOutcome
  <2>10. ReconcileOwed'
    <3>1. FailFastMarks(failFast)' = FailFastMarks(failFast)
          /\ FailFastMarks(failFastChecks)' = FailFastMarks(failFastChecks)
      BY <1>10, <2>5 DEF FailFastMarks, Live, FailedOutcome
    <3>2. CascadeMarks("request")' \cup CascadeMarks("restart")' # {} => reconcile'
      BY <1>4, <2>4, <2>6 DEF Owed, ReconcileOwed
    <3>3. \A t \in Tasks : status'[t] = "completing" /\ OwnedLive(t)' = {} => t \in finalizeChecks' /\ reconcile'
      BY <1>4, <1>10, <2>4, <2>5, <2>6 DEF Owed, ReconcileOwed
    <3>4. (\E c \in queued' : BelowCancelled(c)') => reconcile' /\ cascade'
      <4>1. queued' = queued /\ queued \subseteq Conversations
        BY <1>4 DEF TypeOK, RecordTypeOK
      <4> QED
        BY <1>4, <2>4, <2>6, <4>1 DEF Owed, ReconcileOwed
    <3>5. FailFastMarks(failFast)' # {} => reconcile' /\ FailFastMarks(failFastChecks)' # {}
      BY <1>4, <2>6, <3>1 DEF Owed, ReconcileOwed
    <3> QED
      BY <3>2, <3>3, <3>4, <3>5 DEF ReconcileOwed
  <2> QED
    BY <2>7, <2>8, <2>9, <2>10 DEF Owed
<1> QED
  BY <1>3, <1>9, <1>10

\* An invocation that ends leaves its task as a candidate.
LEMMA EndsPlainlyKeeps ==
  ASSUME TypeOK, NEW t \in Tasks, NEW owes \in BOOLEAN, EndsPlainly(t, owes),
         up # "down", UNCHANGED <<queued, procVars, fits>>
  PROVE  up = "open" => Keeps
<1>1. /\ UNCHANGED <<recVars, finalizeChecks, failFastChecks, queued, up, enabled, fits>>
      /\ inv' = [inv EXCEPT ![t] = "none"] /\ runnable' = CandidatesWith(t)
      /\ dirty' = (up = "open")
  BY DEF EndsPlainly, End, Kick, procVars
<1>2. up = "open" => (reconcile => reconcile') /\ (cascade => cascade')
  BY DEF EndsPlainly
<1>3. runnable \subseteq runnable' /\ (t \in runnable' \/ ~Working(t))
  BY <1>1 DEF CandidatesWith, Working
<1>4. \A u \in Tasks : inv'[u] = "none" => inv[u] = "none" \/ u \in runnable' \/ ~Working(u)
  BY <1>1, <1>3 DEF TypeOK, ProcessTypeOK
<1> QED
  BY <1>1, <1>2, <1>3, <1>4 DEF Keeps

LEMMA StepOwed ==
  ASSUME TypeOK, Owed, NEW t \in Tasks, Step(t) \/ AbortStep(t)
  PROVE  Owed'
<1>1. up # "down" /\ UNCHANGED <<convs, queued, abandoned, procVars, fits>>
  BY DEF Step, AbortStep
<1>2. queued' \subseteq Conversations /\ queued' = queued /\ up' = up
  BY <1>1 DEF TypeOK, RecordTypeOK, procVars
<1>3. ASSUME NEW owes \in BOOLEAN, EndsPlainly(t, owes) PROVE Owed'
  <2>1. CASE up = "open"
    BY <1>1, <1>2, <1>3, <2>1, EndsPlainlyKeeps, KeepsOwed
  <2>2. CASE up # "open"
    BY <1>2, <1>3, <2>2, ClosedOwed DEF EndsPlainly, recVars, TypeOK, RecordTypeOK
  <2> QED
    BY <2>1, <2>2
<1>4. ASSUME End(t) PROVE \A u \in Tasks : inv'[u] = "none" => inv[u] = "none" \/ u \in {t}
  BY <1>4 DEF End, TypeOK, ProcessTypeOK
<1>5. CASE status[t] = "running" /\ Faults(t)
  <2>1. Written({t})
    BY <1>1, <1>5, FaultsCommits DEF Commits
  <2> QED
    BY <1>2, <1>4, <1>5, <2>1, MemOwed DEF Faults
<1>6. CASE status[t] = "running" /\ HandsOver(t)
  <2>1. Written({t})
    BY <1>1, <1>6, HandsOverWritten
  <2> QED
    BY <1>2, <1>4, <1>6, <2>1, MemOwed DEF HandsOver
<1>7. CASE Continues(t)
  <2>1. \A u \in Tasks : inv'[u] = "none" => inv[u] = "none"
    BY <1>7 DEF Continues, TypeOK, ProcessTypeOK
  <2>2. Keeps
    BY <1>1, <1>7, <2>1 DEF Continues, Keeps, procVars
  <2> QED
    BY <1>2, <2>2, KeepsOwed
<1> QED
  BY <1>3, <1>5, <1>6, <1>7 DEF Step, AbortStep

LEMMA RuntimeOwed ==
  ASSUME TypeOK, Owed, NEW t \in Tasks, RuntimeCommit(t)
  PROVE  Owed'
<1>1. status[t] = "running" /\ Working(t)
  BY DEF RuntimeCommit, Gated, Working, Live
<1>2. CASE CommitCheckpoint(t)
  <2>1. Written({t})
    BY <1>1, <1>2, CheckpointWritten
  <2> QED
    BY <1>2, <2>1, MemOwed DEF CommitCheckpoint, procVars
<1>3. ASSUME NEW past \in BOOLEAN, CommitSleep(t, past) PROVE Owed'
  <2>1. Written({t})
    BY <1>1, <1>3, SleepWritten
  <2> QED
    BY <1>3, <2>1, MemOwed DEF CommitSleep, invVars, procVars
<1>4. ASSUME NEW S \in SUBSET Tasks, NEW fast \in BOOLEAN, CommitWait(t, S, fast) PROVE Owed'
  <2>1. Written({t})
    BY <1>1, <1>4, WaitWritten
  <2> QED
    BY <1>4, <2>1, MemOwed DEF CommitWait, invVars, procVars
<1>5. ASSUME NEW o \in {"completed", "failed"}, NEW new \in SUBSET Tasks, CommitOutcome(t, o, new)
      PROVE  Owed'
  <2>1. /\ \A n \in new : status[n] = "none"
        /\ SetOutcome(t, o, new) /\ mark' = mark /\ StatesKept
        /\ Observe({t} \cup new, Mem)
        /\ UNCHANGED <<convs, queued, abandoned, inv, up, fits>>
    BY <1>5 DEF CommitOutcome, Creatable, invVars, procVars
  <2>2. Written({t} \cup new)
    BY <1>1, <2>1, OutcomeWritten
  <2> QED
    BY <2>1, <2>2, MemOwed
<1> QED
  BY <1>2, <1>3, <1>4, <1>5 DEF RuntimeCommit

\* Clients, handlers, time and the host.
LEMMA QuietOwed ==
  ASSUME TypeOK, Owed,
         \/ \E c \in Conversations : CreateConversation(c) \/ Submit(c)
         \/ \E s \in Conversations \cup {Harness} : WaitForIdle(s)
         \/ \E t \in Tasks : Returns(t) \/ Throws(t) \/ Elapse(t)
         \/ TimerFires \/ Resume \/ \E t \in Tasks, fit \in BOOLEAN : Install(t, fit)
  PROVE  Owed'
<1>1. ASSUME NEW c \in Conversations, CreateConversation(c) PROVE Keeps /\ queued' \subseteq Conversations
  BY <1>1 DEF CreateConversation, Keeps, memVars, passVars, invVars, procVars, TypeOK, RecordTypeOK
<1>2. ASSUME NEW c \in Conversations, Submit(c) PROVE Keeps /\ queued' \subseteq Conversations
  <2>1. /\ UNCHANGED <<recVars, runnable, finalizeChecks, failFastChecks, dirty, inv, up, enabled, fits>>
        /\ queued' = queued \cup {c}
    BY <1>2 DEF Submit, passVars, invVars, procVars
  <2>2. /\ cascade => cascade'
        /\ up = "open" /\ reconcile => reconcile'
        /\ BelowCancelled(c) => cascade' /\ (up = "open" => reconcile')
    BY <1>2 DEF Submit
  <2>3. queued' \subseteq Conversations
    BY <2>1 DEF TypeOK, RecordTypeOK
  <2> QED
    BY <2>1, <2>2, <2>3 DEF Keeps
<1>3. ASSUME NEW s, WaitForIdle(s) PROVE Keeps /\ queued' \subseteq Conversations
  BY <1>3 DEF WaitForIdle, Keeps, passVars, invVars, procVars, TypeOK, RecordTypeOK
<1>4. ASSUME NEW t \in Tasks, Returns(t) \/ Throws(t) \/ Elapse(t)
      PROVE  Keeps /\ queued' \subseteq Conversations
  <2>1. \A u \in Tasks : inv'[u] = "none" => inv[u] = "none"
    BY <1>4 DEF Returns, Throws, Elapse, invVars, TypeOK, ProcessTypeOK
  <2>2. UNCHANGED <<recVars, queued, runnable, finalizeChecks, failFastChecks, cascade, reconcile, dirty,
                    up, enabled, fits>>
    BY <1>4 DEF Returns, Throws, Elapse, memVars, passVars, procVars
  <2> QED
    BY <2>1, <2>2 DEF Keeps, TypeOK, RecordTypeOK
<1>5. CASE TimerFires \/ Resume
  <2>1. Keeps /\ queued' \subseteq Conversations
    BY <1>5 DEF TimerFires, Resume, WakeDue, Keeps, invVars, procVars, TypeOK, RecordTypeOK
  <2> QED
    BY <2>1, KeepsOwed
<1>6. ASSUME NEW t \in Tasks, NEW fit \in BOOLEAN, Install(t, fit) PROVE Owed'
  <2>1. UNCHANGED <<recVars, queued, runnable, finalizeChecks, failFastChecks, cascade, reconcile, inv,
                    up, enabled>>
    BY <1>6 DEF Install, passVars, procVars
  <2>2. CASE up = "open"
    <3>1. dirty' = TRUE
      BY <1>6, <2>2 DEF Install, Kick
    <3>2. Keeps /\ queued' \subseteq Conversations
      BY <2>1, <3>1 DEF Keeps, TypeOK, RecordTypeOK
    <3> QED
      BY <3>2, KeepsOwed
  <2>3. CASE up # "open"
    BY <2>1, <2>3, ClosedOwed DEF recVars, TypeOK, RecordTypeOK
  <2> QED
    BY <2>2, <2>3
<1> QED
  BY <1>1, <1>2, <1>3, <1>4, <1>5, <1>6, KeepsOwed

\* The end of a process, and recovery: a new process derives again what a crash
\* left unapplied.
LEMMA ProcessOwed ==
  ASSUME RecordInv, Owed, Close \/ Crash \/ Join \/ Open
  PROVE  Owed'
<1>0. TypeOK
  BY DEF RecordInv
<1>1. CASE Close \/ Crash
  BY <1>0, <1>1, ClosedOwed DEF Close, Crash, Gone, recVars, TypeOK, RecordTypeOK
<1>2. CASE Join
  <2>1. up' # "open" /\ on' = on /\ \A t \in Tasks : status[t] # "none" => status'[t] # "none"
    BY <1>2 DEF Join, Gone
  <2> QED
    BY <1>0, <2>1, ClosedOwed DEF TypeOK, RecordTypeOK
<1>3. CASE Open
  <2>1. /\ status' = [t \in Tasks |-> IF status[t] = "running" THEN "pending" ELSE status[t]]
        /\ UNCHANGED <<mark, outcome, on, failFast, queued, inv, enabled, fits>>
        /\ runnable' = {t \in Tasks : Working(t)}
        /\ finalizeChecks' = {t \in Tasks : status[t] = "completing"} /\ failFastChecks' = failFast
        /\ cascade' = TRUE /\ reconcile' = TRUE /\ up = "down"
    BY <1>3 DEF Open, Interrupted, invVars
  <2>2. ~enabled'
    BY <2>1 DEF RecordInv
  <2>3. \A t \in Tasks : Working(t)' => Working(t)
    BY <2>1 DEF Working, Live
  <2>4. CandidatesKnown' /\ WorkIsComing'
    BY <2>1, <2>2, <2>3 DEF CandidatesKnown, WorkIsComing
  <2>5. FailFastOwed'
    <3>1. \A t \in Tasks : \A x \in on'[t] : status'[x] # "none"
      BY <1>0, <2>1 DEF Owed, FailFastOwed, TypeOK, RecordTypeOK
    <3> QED
      BY <2>1, <3>1 DEF FailFastOwed
  <2>6. ReconcileOwed'
    <3>1. FailFastMarks(failFast)' = FailFastMarks(failFastChecks)'
      BY <2>1 DEF FailFastMarks
    <3> QED
      BY <2>1, <3>1 DEF ReconcileOwed
  <2> QED
    BY <2>4, <2>5, <2>6 DEF Owed
<1> QED
  BY <1>1, <1>2, <1>3

-----------------------------------------------------------------------------
(* The theorems                                                             *)

LEMMA NextOwed ==
  ASSUME RecordInv, Owed, Next
  PROVE  Owed'
<1>0. TypeOK
  BY DEF RecordInv
<1>1. CASE Clients
  BY <1>0, <1>1, CreateOwed, AbortOwed, AbortConversationOwed, QuietOwed DEF Clients
<1>2. CASE Host
  BY <1>0, <1>2, ProcessOwed, QuietOwed DEF Host
<1>3. CASE Reconcile \/ Abandon \/ Reserve
  BY <1>0, <1>3, ReconcileStepOwed, AbandonOwed, ReserveOwed
<1>4. CASE TimerFires
  BY <1>0, <1>4, QuietOwed
<1>5. CASE Join
  BY <1>5, ProcessOwed
<1>6. ASSUME NEW t \in Tasks, RuntimeCommit(t) \/ Step(t) \/ AbortStep(t) PROVE Owed'
  BY <1>0, <1>6, RuntimeOwed, StepOwed
<1>7. ASSUME NEW t \in Tasks, Returns(t) \/ Throws(t) \/ Elapse(t) PROVE Owed'
  BY <1>0, <1>7, QuietOwed
<1> QED
  BY <1>1, <1>2, <1>3, <1>4, <1>5, <1>6, <1>7 DEF Next

\* The whole inductive invariant holds in every ownership tree: the records, the
\* candidates of the passes and what the passes still owe agree after any
\* interleaving of commits, passes, aborts, registry changes, closes and crashes.
THEOREM SchedInvariant == Spec => []SchedInv
<1>1. Init => Owed
  BY DEF Init, Owed, CandidatesKnown, WorkIsComing, FailFastOwed, ReconcileOwed
<1>2. RecordInv /\ Owed /\ [Next]_vars => Owed'
  <2> SUFFICES ASSUME RecordInv, Owed, [Next]_vars PROVE Owed'
    OBVIOUS
  <2>1. CASE Next
    BY <2>1, NextOwed
  <2>2. CASE UNCHANGED vars
    <3>1. Keeps
      BY <2>2 DEF vars, Keeps, memVars, passVars, invVars, procVars
    <3>2. queued' \subseteq Conversations
      BY <2>2 DEF vars, RecordInv, TypeOK, RecordTypeOK
    <3> QED
      BY <3>1, <3>2, KeepsOwed DEF RecordInv
  <2> QED
    BY <2>1, <2>2
<1>3. Spec => []Owed
  BY <1>1, <1>2, RecordsHold, PTL DEF Spec
<1>4. RecordInv /\ Owed => SchedInv
  BY DEF SchedInv, Owed
<1> QED
  BY <1>3, <1>4, RecordsHold, PTL

\* No lost wakeup: whatever a reservation pass would take is a candidate and the
\* pass is due (#observe(), #kick(), #release()).
THEOREM NoLostWakeup == Spec => []WorkIsComing
  BY SchedInvariant, PTL DEF SchedInv

\* What committed records imply is owed to a scheduled reconcile pass, also after
\* a crash between two commits (#observe(), open()).
THEOREM ReconcileComes == Spec => []ReconcileOwed
  BY SchedInvariant, PTL DEF SchedInv

-----------------------------------------------------------------------------

\* A task can settle after C: all it waits for is in C, and so is all that what is
\* in C waits for; the task itself is not.
Closed(C) == \A x \in C : \A y \in Tasks : WaitsFor(x, y) => y \in C
Settles(t, C) ==
  /\ C \subseteq Tasks /\ t \notin C /\ Closed(C)
  /\ \A y \in Tasks : WaitsFor(t, y) => y \in C

-----------------------------------------------------------------------------
(* The wait-for graph                                                       *)

\* A task is on no cycle exactly when it can settle after others.
LEMMA AcyclicSettles ==
  ASSUME WaitsAcyclic, NEW t \in Tasks
  PROVE  \E C : Settles(t, C)
<1>1. ~Reached({y \in Tasks : WaitsFor(t, y)}, t)
  BY DEF WaitsAcyclic
<1>2. PICK C \in SUBSET Tasks : /\ {y \in Tasks : WaitsFor(t, y)} \subseteq C
                                /\ \A x \in C : WaitGraph[x] \subseteq C
                                /\ t \notin C
  BY <1>1 DEF Reached
<1>3. Closed(C)
  BY <1>2 DEF Closed, WaitGraph
<1> QED
  BY <1>2, <1>3 DEF Settles

LEMMA SettlesAcyclic ==
  ASSUME \A t \in Tasks : \E C : Settles(t, C)'
  PROVE  WaitsAcyclic'
<1> SUFFICES ASSUME NEW t \in Tasks, Reached({y \in Tasks : WaitsFor(t, y)}, t)' PROVE FALSE
  BY DEF WaitsAcyclic
<1>1. PICK C : Settles(t, C)'
  OBVIOUS
<1>2. C \in SUBSET Tasks /\ t \notin C
  BY <1>1 DEF Settles
<1>3. \A x \in C : WaitGraph'[x] \subseteq C
  BY <1>1, <1>2 DEF Settles, Closed, WaitGraph
<1>4. {y \in Tasks : WaitsFor(t, y)'} \subseteq C
  BY <1>1 DEF Settles
<1> QED
  BY <1>2, <1>3, <1>4 DEF Reached

\* What x waits for, all the way.
Beyond(x) == {y \in Tasks : Reached({z \in Tasks : WaitsFor(x, z)}, y)}

LEMMA BeyondSettles ==
  ASSUME WaitsAcyclic, NEW x \in Tasks
  PROVE  /\ Settles(x, Beyond(x))
         /\ \A C \in SUBSET Tasks : Closed(C) /\ x \in C => Beyond(x) \subseteq C
<1>1. \A y \in Tasks : y \in Beyond(x) <=>
        \A C \in SUBSET Tasks : {z \in Tasks : WaitsFor(x, z)} \subseteq C
                                /\ (\A u \in C : WaitGraph[u] \subseteq C) => y \in C
  BY DEF Beyond, Reached
<1>2. \A C \in SUBSET Tasks : (\A u \in C : WaitGraph[u] \subseteq C) <=> Closed(C)
  BY DEF Closed, WaitGraph
<1>3. Beyond(x) \subseteq Tasks /\ x \notin Beyond(x)
  BY DEF Beyond, WaitsAcyclic
<1>4. \A y \in Tasks : WaitsFor(x, y) => y \in Beyond(x)
  BY <1>1
<1>5. Closed(Beyond(x))
  <2> SUFFICES ASSUME NEW u \in Beyond(x), NEW y \in Tasks, WaitsFor(u, y),
                      NEW C \in SUBSET Tasks, {z \in Tasks : WaitsFor(x, z)} \subseteq C,
                      \A v \in C : WaitGraph[v] \subseteq C
               PROVE  y \in C
    BY <1>1 DEF Closed
  <2>1. u \in C /\ u \in Tasks
    BY <1>1, <1>3
  <2> QED
    BY <2>1 DEF WaitGraph
<1>6. \A C \in SUBSET Tasks : Closed(C) /\ x \in C => Beyond(x) \subseteq C
  <2> SUFFICES ASSUME NEW C \in SUBSET Tasks, Closed(C), x \in C, NEW y \in Beyond(x) PROVE y \in C
    OBVIOUS
  <2>1. {z \in Tasks : WaitsFor(x, z)} \subseteq C
    BY DEF Closed
  <2> QED
    BY <1>1, <1>2, <1>3, <2>1
<1> QED
  BY <1>3, <1>4, <1>5, <1>6 DEF Settles

\* A step after which tasks wait for no more than before, but for new tasks that
\* wait for nothing, closes no cycle.
LEMMA FewerWaits ==
  ASSUME WaitsAcyclic, NEW N \in SUBSET Tasks,
         \A x \in Tasks : \A y \in Tasks : WaitsFor(x, y)' => x \notin N /\ (y \in N \/ WaitsFor(x, y))
  PROVE  WaitsAcyclic'
<1> SUFFICES ASSUME NEW t \in Tasks PROVE \E C : Settles(t, C)'
  BY SettlesAcyclic
<1>1. CASE t \in N
  <2>1. Settles(t, {})'
    BY <1>1 DEF Settles, Closed
  <2> QED
    BY <2>1
<1>2. CASE t \notin N
  <2>1. PICK C : Settles(t, C)
    BY AcyclicSettles
  <2>2. Settles(t, C \cup N)'
    BY <1>2, <2>1 DEF Settles, Closed
  <2> QED
    BY <2>2
<1> QED
  BY <1>1, <1>2

-----------------------------------------------------------------------------
(* What exists                                                              *)

\* What a step may create, and that only a wait of task code adds to `on`.
Grows ==
  /\ \A t \in Tasks : status[t] = "none" /\ status'[t] # "none" => Creatable(t)
  /\ \A t \in Tasks : on'[t] \subseteq on[t]
  /\ convs \subseteq convs' /\ \A c \in convs' \ convs : c \in Conversations /\ ValidOwner(c)

LEMMA StatesKeptOn ==
  ASSUME TypeOK, StatesKept, NEW t \in Tasks
  PROVE  on'[t] \subseteq on[t]
  BY DEF StatesKept, TypeOK, RecordTypeOK

LEMMA ClientsGrow ==
  ASSUME TypeOK, Clients
  PROVE  Grows
<1> USE DEF Grows
<1>1. ASSUME NEW t \in Tasks, Create(t) PROVE Grows
  BY <1>1, StatesKeptOn DEF Create, TypeOK, RecordTypeOK
<1>2. ASSUME NEW t \in Tasks, Abort(t) PROVE Grows
  <2>1. \A u \in Tasks : status[u] = "none" => status'[u] = "none"
    BY <1>2 DEF Abort, SetOutcome, Live
  <2> QED
    BY <1>2, <2>1, StatesKeptOn DEF Abort
<1>3. ASSUME NEW c \in Conversations, CreateConversation(c) \/ Submit(c) PROVE Grows
  BY <1>3 DEF CreateConversation, Submit, recVars
<1>4. ASSUME NEW c \in Conversations, NEW b \in BOOLEAN, AbortConversation(c, b) PROVE Grows
  <2>1. status' = status /\ convs' = convs /\ (StatesKept \/ on' = on)
    BY <1>4 DEF AbortConversation, recVars
  <2> QED
    BY <2>1, StatesKeptOn
<1>5. ASSUME NEW s, WaitForIdle(s) PROVE Grows
  BY <1>5 DEF WaitForIdle, recVars
<1> QED
  BY <1>1, <1>2, <1>3, <1>4, <1>5 DEF Clients

LEMMA PassesGrow ==
  ASSUME TypeOK, Reconcile \/ Abandon \/ Reserve
  PROVE  Grows
<1>1. StatesKept /\ convs' = convs
  <2>1. CASE Reconcile
    BY <2>1, SMT DEF Reconcile
  <2>2. CASE Abandon
    BY <2>2 DEF Abandon
  <2>3. CASE Reserve
    BY <2>3, SMT DEF Reserve
  <2> QED
    BY <2>1, <2>2, <2>3
<1>2. \A t \in Tasks : status[t] = "none" => status'[t] = "none"
  <2>1. CASE Reconcile
    <3>1. status' = [t \in Tasks |-> IF t \in Finalized THEN "terminal" ELSE status[t]]
      BY <2>1, SMT DEF Reconcile, PlanReconcile
    <3>2. \A t \in Finalized : status[t] = "completing"
      BY DEF Finalized
    <3> QED
      BY <3>1, <3>2
  <2>2. CASE Abandon
    BY <2>2 DEF Abandon
  <2>3. CASE Reserve
    <3> DEFINE plan == PlanReservation
    <3>1. Written(ReserveWrites(plan))
      BY <2>3, ReserveWritten
    <3>2. \A t \in ReserveWrites(plan) : status[t] # "none"
      BY ReservePlan DEF ReserveWrites, Candidate, Working, Live
    <3> QED
      BY <3>1, <3>2 DEF Written, Same
  <2> QED
    BY <2>1, <2>2, <2>3
<1> QED
  BY <1>1, <1>2, StatesKeptOn DEF Grows

LEMMA TasksGrow ==
  ASSUME TypeOK, NEW t \in Tasks,
         RuntimeCommit(t) \/ Step(t) \/ AbortStep(t) \/ Returns(t) \/ Throws(t) \/ Elapse(t)
  PROVE  Grows \/ \E S \in SUBSET Tasks, fast \in BOOLEAN : Gated(t) /\ CommitWait(t, S, fast)
<1> USE DEF Grows
<1>1. CASE Returns(t) \/ Throws(t) \/ Elapse(t)
  BY <1>1 DEF Returns, Throws, Elapse, recVars
<1>2. CASE Step(t) \/ AbortStep(t)
  <2>1. convs' = convs
    BY <1>2 DEF Step, AbortStep
  <2>2. \/ UNCHANGED recVars
        \/ status[t] = "running" /\ (Faults(t) \/ HandsOver(t))
    BY <1>2 DEF Step, AbortStep, EndsPlainly, Continues
  <2>3. CASE UNCHANGED recVars
    BY <2>1, <2>3 DEF recVars
  <2>4. CASE status[t] = "running" /\ (Faults(t) \/ HandsOver(t))
    <3>1. \A u \in Tasks : status[u] = "none" => status'[u] = "none"
      BY <2>4 DEF Faults, HandsOver, SetOutcome, TypeOK, RecordTypeOK
    <3> QED
      BY <2>1, <2>4, <3>1, StatesKeptOn DEF Faults, HandsOver
  <2> QED
    BY <2>2, <2>3, <2>4
<1>3. CASE RuntimeCommit(t)
  <2>1. Gated(t) /\ status[t] = "running"
    BY <1>3 DEF RuntimeCommit, Gated
  <2>2. CASE CommitCheckpoint(t)
    BY <2>2, StatesKeptOn DEF CommitCheckpoint
  <2>3. ASSUME NEW past \in BOOLEAN, CommitSleep(t, past) PROVE Grows
    BY <2>1, <2>3 DEF CommitSleep, TypeOK, RecordTypeOK
  <2>4. ASSUME NEW o, NEW new \in SUBSET Tasks, CommitOutcome(t, o, new) PROVE Grows
    <3>1. \A u \in Tasks : status[u] = "none" /\ status'[u] # "none" => u \in new
      BY <2>1, <2>4 DEF CommitOutcome, SetOutcome
    <3> QED
      BY <2>4, <3>1, StatesKeptOn DEF CommitOutcome
  <2> QED
    BY <1>3, <2>1, <2>2, <2>3, <2>4 DEF RuntimeCommit
<1> QED
  BY <1>1, <1>2, <1>3

LEMMA NextGrows ==
  ASSUME TypeOK, Next
  PROVE  Grows \/ \E t \in Tasks, S \in SUBSET Tasks, fast \in BOOLEAN : Gated(t) /\ CommitWait(t, S, fast)
<1>1. CASE Host \/ TimerFires \/ Join
  <2>1. on' = on /\ convs' = convs
    BY <1>1 DEF Host, TimerFires, Join, Resume, Close, Crash, Open, Install, recVars
  <2>2. \A t \in Tasks : status[t] = "none" => status'[t] = "none"
    BY <1>1 DEF Host, TimerFires, Join, Resume, Close, Crash, Open, Install, recVars, Interrupted
  <2> QED
    BY <2>1, <2>2 DEF Grows
<1>2. CASE Clients \/ Reconcile \/ Abandon \/ Reserve
  BY <1>2, ClientsGrow, PassesGrow
<1>3. ASSUME NEW t \in Tasks,
             RuntimeCommit(t) \/ Step(t) \/ AbortStep(t) \/ Returns(t) \/ Throws(t) \/ Elapse(t)
      PROVE  Grows \/ \E S \in SUBSET Tasks, fast \in BOOLEAN : Gated(t) /\ CommitWait(t, S, fast)
  BY <1>3, TasksGrow
<1> QED
  BY <1>1, <1>2, <1>3 DEF Next

\* A task that exists stays: no step takes a record away.
LEMMA StaysCreated ==
  ASSUME TypeOK, Next, NEW t \in Tasks
  PROVE  /\ status[t] # "none" => status'[t] # "none"
         /\ Live(t)' => Live(t) \/ status[t] = "none"
         /\ mark'[t] = "none" => mark[t] = "none"
<1>1. ASSUME NEW W \in SUBSET Tasks, Commits(W)
      PROVE  /\ status[t] # "none" => status'[t] # "none"
             /\ Live(t)' => Live(t) \/ status[t] = "none"
             /\ mark'[t] = "none" => mark[t] = "none"
  BY <1>1, WrittenLive DEF Commits
<1>2. CASE Quiet
  BY <1>2 DEF Quiet, recVars, Live
<1>3. CASE Join
  BY <1>3 DEF Join, Live
<1>4. CASE Open
  BY <1>4 DEF Open, Interrupted, Live
<1> QED
  BY <1>1, <1>2, <1>3, <1>4, Steps

\* Everything above what exists exists.
LEMMA Ancestors ==
  ASSUME TypeOK, Rooted, NEW y \in Tasks, status[y] # "none" \/ Creatable(y), NEW x \in Tasks, x \in Reach[y]
  PROVE  status[x] # "none"
<1> DEFINE C == {n \in Nodes : IF n \in Tasks THEN status[n] # "none" ELSE n \in convs}
<1>1. Up[y] \in C \cup {Top}
  <2>1. Up[y] \in Nodes
    BY TreeAssumption DEF Nodes
  <2> QED
    BY <2>1 DEF Rooted, Creatable, ValidOwner, Working, Live, Nodes
<1>2. ASSUME NEW n \in C \ Background PROVE Up[n] \in C \cup {Top}
  <2>1. CASE n \in Tasks
    <3>1. Up[n] \in Nodes
      BY <2>1, TreeAssumption DEF Nodes
    <3> QED
      BY <2>1, <3>1 DEF Rooted, Nodes
  <2>2. CASE n \notin Tasks
    <3>1. n \in convs /\ Up[n] \in Tasks \cup {Top}
      BY <1>2, <2>2, TreeAssumption DEF Nodes
    <3> QED
      BY <3>1 DEF Rooted, Nodes
  <2> QED
    BY <2>1, <2>2
<1>3. x \in C
  <2>1. C \in SUBSET Nodes /\ x \in WalkUp(y, Background)
    BY DEF Reach, Nodes
  <2> HIDE DEF C
  <2> QED
    BY <1>1, <1>2, <2>1 DEF WalkUp
<1> QED
  BY <1>3

LEMMA RootedNext ==
  ASSUME TypeOK, Rooted, Next
  PROVE  Rooted'
<1>1. \/ Grows
      \/ UNCHANGED convs /\ \A t \in Tasks : status[t] = "none" => status'[t] = "none"
  <2>1. ASSUME NEW t \in Tasks, NEW S \in SUBSET Tasks, NEW fast \in BOOLEAN,
               Gated(t), CommitWait(t, S, fast)
        PROVE  UNCHANGED convs /\ \A u \in Tasks : status[u] = "none" => status'[u] = "none"
    BY <2>1 DEF Gated, CommitWait, TypeOK, RecordTypeOK
  <2> QED
    BY <2>1, NextGrows
<1>2. \A t \in Tasks : status[t] = "none" /\ status'[t] # "none" => Creatable(t)
  BY <1>1 DEF Grows
<1>3. convs \subseteq convs' /\ \A c \in convs' \ convs : c \in Conversations /\ ValidOwner(c)
  BY <1>1 DEF Grows
<1>4. \A t \in Tasks : status[t] # "none" => status'[t] # "none"
  BY StaysCreated
<1>5. ASSUME NEW t \in Tasks, status'[t] # "none"
      PROVE  IF Up[t] \in Tasks THEN status'[Up[t]] # "none" ELSE Up[t] \in convs'
  <2>1. CASE status[t] # "none"
    BY <1>3, <1>4, <2>1 DEF Rooted
  <2>2. CASE Creatable(t)
    BY <1>3, <1>4, <2>2, TreeAssumption DEF Creatable, ValidOwner, Working, Live, Nodes
  <2> QED
    BY <1>2, <1>5, <2>1, <2>2
<1>6. ASSUME NEW c \in convs', Up[c] \in Tasks PROVE status'[Up[c]] # "none"
  BY <1>3, <1>4, <1>6 DEF Rooted, ValidOwner, Working, Live
<1> QED
  BY <1>5, <1>6 DEF Rooted

-----------------------------------------------------------------------------
(* Waits                                                                    *)

\* A step other than a wait: new tasks wait for nothing.
LEMMA GrowsAcyclic ==
  ASSUME TypeOK, Rooted, WaitsAcyclic, Next, Grows, TypeOK'
  PROVE  WaitsAcyclic'
<1> DEFINE N == {t \in Tasks : status[t] = "none" /\ status'[t] # "none"}
<1>1. ASSUME NEW x \in Tasks, NEW y \in Tasks, WaitsFor(x, y)'
      PROVE  x \notin N /\ (y \in N \/ WaitsFor(x, y))
  <2>1. CASE status'[x] = "waiting" /\ mark'[x] = "none" /\ y \in on'[x]
    <3>1. y \in on[x]
      BY <2>1 DEF Grows
    <3>2. status[x] = "waiting" /\ mark[x] = "none"
      BY <2>1, <3>1, StaysCreated DEF TypeOK
    <3> QED
      BY <3>1, <3>2 DEF WaitsFor
  <2>2. CASE Live(x)' /\ y \in OwnedLive(x)'
    <3>1. y \in Owned[x] /\ Live(y)' /\ x \in Reach[y]
      BY <2>2 DEF OwnedLive, Owned, Owners, Nodes
    <3>2. status'[y] # "none"
      BY <3>1 DEF Live
    <3>3. status[x] # "none"
      BY <3>1, <3>2, Ancestors DEF Grows
    <3>4. Live(x)
      BY <2>2, <3>3, StaysCreated
    <3>5. y \in N \/ Live(y)
      BY <3>1, <3>2, StaysCreated
    <3> QED
      BY <3>1, <3>3, <3>4, <3>5 DEF WaitsFor, OwnedLive
  <2> QED
    BY <1>1, <2>1, <2>2 DEF WaitsFor
<1>2. N \in SUBSET Tasks
  OBVIOUS
<1> HIDE DEF N
<1> QED
  BY <1>1, <1>2, FewerWaits

\* A wait that #checkWait() accepts closes no cycle, with children left out of the
\* check: their owner waits for them already.
LEMMA WaitAcyclic ==
  ASSUME TypeOK, WaitsAcyclic, NEW t \in Tasks, NEW S \in SUBSET Tasks, NEW fast \in BOOLEAN,
         Gated(t), CommitWait(t, S, fast)
  PROVE  WaitsAcyclic'
<1>1. /\ status[t] = "running" /\ status' = [status EXCEPT ![t] = "waiting"]
      /\ on' = [on EXCEPT ![t] = S] /\ mark' = mark
      /\ \A m \in S : status[m] # "none"
      /\ ~Reached({m \in S : Live(m) /\ Up[m] # t}, t)
  BY DEF Gated, CommitWait, NoCycle
<1>2. \A u \in Tasks : Live(u)' = Live(u)
  BY <1>1 DEF Live, TypeOK, RecordTypeOK
<1>3. ASSUME NEW x \in Tasks, NEW y \in Tasks, WaitsFor(x, y)'
      PROVE  WaitsFor(x, y) \/ (x = t /\ y \in S)
  <2>1. CASE Live(x)' /\ y \in OwnedLive(x)'
    BY <1>2, <2>1 DEF WaitsFor, OwnedLive
  <2>2. CASE status'[x] = "waiting" /\ mark'[x] = "none" /\ y \in on'[x]
    BY <1>1, <2>2 DEF WaitsFor, TypeOK, RecordTypeOK
  <2> QED
    BY <1>3, <2>1, <2>2 DEF WaitsFor
<1>4. PICK C0 \in SUBSET Tasks : /\ {m \in S : Live(m) /\ Up[m] # t} \subseteq C0
                                 /\ \A x \in C0 : WaitGraph[x] \subseteq C0
                                 /\ t \notin C0
  BY <1>1 DEF Reached
<1>5. Closed(C0)
  BY <1>4 DEF Closed, WaitGraph
<1> DEFINE D == {m \in S : ~Live(m)}
           C1 == C0 \cup Beyond(t) \cup D
<1>6. Settles(t, Beyond(t))
  BY BeyondSettles
<1>7. \A m \in D : \A y \in Tasks : ~WaitsFor(m, y)
  BY DEF WaitsFor, Live
<1>8. C1 \subseteq Tasks /\ t \notin C1 /\ Closed(C1)
  <2>1. t \notin D
    BY <1>1 DEF Live
  <2> QED
    BY <1>4, <1>5, <1>6, <1>7, <2>1 DEF Settles, Closed
<1>9. S \subseteq C1 /\ \A y \in Tasks : WaitsFor(t, y) => y \in C1
  <2>1. ASSUME NEW m \in S, Live(m), Up[m] = t PROVE m \in Beyond(t)
    <3>1. m \notin Background /\ m \in Tasks /\ m \in Nodes
      <4>1. CASE m \in Background
        BY <2>1, <4>1, TreeAssumption
      <4> QED
        BY <4>1 DEF Nodes
    <3>2. t \in Reach[m]
      <4>1. Up[m] # Top
        BY <3>1, TreeAssumption
      <4> QED
        BY <2>1, <3>1, <4>1, WalkUpParent DEF Reach
    <3>3. m \in OwnedLive(t)
      BY <2>1, <3>1, <3>2 DEF OwnedLive, Owned, Owners
    <3>4. WaitsFor(t, m)
      BY <1>1, <3>3 DEF WaitsFor, Live
    <3> QED
      BY <1>6, <3>1, <3>4 DEF Settles
  <2> QED
    BY <1>4, <1>6, <2>1 DEF Settles
<1> HIDE DEF C1, D
<1>10. ASSUME NEW x \in Tasks PROVE \E C : Settles(x, C)'
  <2>0. /\ Settles(x, Beyond(x))
        /\ \A C \in SUBSET Tasks : Closed(C) /\ x \in C => Beyond(x) \subseteq C
    BY BeyondSettles
  <2>1. CASE x = t
    <3>1. PICK C : C = C1
      OBVIOUS
    <3>2. Settles(t, C)'
      BY <1>3, <1>8, <1>9, <3>1 DEF Settles, Closed
    <3> QED
      BY <2>1, <3>2
  <2>2. CASE x # t /\ t \notin Beyond(x)
    <3>1. Settles(x, Beyond(x)) /\ Beyond(x) \subseteq Tasks
      BY <2>0 DEF Settles
    <3> DEFINE B == Beyond(x)
    <3>2. PICK C : C = B
      OBVIOUS
    <3>3. Settles(x, C)'
      BY <1>3, <2>2, <3>1, <3>2 DEF Settles, Closed
    <3> QED
      BY <3>3
  <2>3. CASE x # t /\ t \in Beyond(x)
    <3>1. x \notin C1
      BY <1>8, <2>0, <2>3
    <3>2. PICK C : C = Beyond(x) \cup C1
      OBVIOUS
    <3>3. C \subseteq Tasks /\ x \notin C
      BY <1>8, <2>0, <3>1, <3>2 DEF Settles
    <3>4. \A y \in Tasks : WaitsFor(x, y)' => y \in C
      BY <1>3, <2>0, <2>3, <3>2 DEF Settles
    <3>5. \A z \in C : \A y \in Tasks : WaitsFor(z, y)' => y \in C
      BY <1>3, <1>8, <1>9, <2>0, <3>2, <3>3 DEF Settles, Closed
    <3>6. Settles(x, C)'
      BY <3>3, <3>4, <3>5 DEF Settles, Closed
    <3> QED
      BY <3>6
  <2> QED
    BY <2>1, <2>2, <2>3
<1> QED
  BY <1>10, SettlesAcyclic

\* No deadlock of waits: in every ownership tree the wait-for graph is acyclic,
\* whatever tasks wait on, create, end or are marked with (#checkWait(),
\* #waitCycle()).
THEOREM WaitsNeverCycle == Spec => []WaitsAcyclic
<1>1. Init => Rooted /\ WaitsAcyclic
  <2> SUFFICES ASSUME Init PROVE Rooted /\ WaitsAcyclic
    OBVIOUS
  <2>1. Rooted
    BY TreeAssumption DEF Init, Rooted, Nodes
  <2>2. \A x \in Tasks : \A y \in Tasks : ~WaitsFor(x, y)
    BY DEF Init, WaitsFor, Live
  <2>3. WaitsAcyclic
    <3> SUFFICES ASSUME NEW t \in Tasks PROVE ~Reached({y \in Tasks : WaitsFor(t, y)}, t)
      BY DEF WaitsAcyclic
    <3>1. {y \in Tasks : WaitsFor(t, y)} = {}
      BY <2>2
    <3> QED
      BY <3>1 DEF Reached
  <2> QED
    BY <2>1, <2>3
<1>2. RecordInv /\ RecordInv' /\ Rooted /\ WaitsAcyclic /\ [Next]_vars => Rooted' /\ WaitsAcyclic'
  <2> SUFFICES ASSUME RecordInv, RecordInv', Rooted, WaitsAcyclic, [Next]_vars
               PROVE  Rooted' /\ WaitsAcyclic'
    OBVIOUS
  <2>0. TypeOK /\ TypeOK'
    BY DEF RecordInv
  <2>1. CASE Next
    <3>1. Rooted'
      BY <2>0, <2>1, RootedNext
    <3>2. CASE Grows
      BY <2>0, <2>1, <3>1, <3>2, GrowsAcyclic
    <3>3. ASSUME NEW t \in Tasks, NEW S \in SUBSET Tasks, NEW fast \in BOOLEAN,
                 Gated(t), CommitWait(t, S, fast)
          PROVE  WaitsAcyclic'
      BY <2>0, <3>3, WaitAcyclic
    <3> QED
      BY <2>0, <2>1, <3>1, <3>2, <3>3, NextGrows
  <2>2. CASE UNCHANGED vars
    <3>1. UNCHANGED <<status, mark, on, convs>>
      BY <2>2 DEF vars, recVars
    <3>2. Rooted'
      BY <3>1 DEF Rooted
    <3>3. \A x \in Tasks : \A y \in Tasks : WaitsFor(x, y)' => WaitsFor(x, y)
      BY <3>1 DEF WaitsFor, OwnedLive, Live
    <3>4. WaitsAcyclic'
      <4>1. PICK N : N = {}
        OBVIOUS
      <4>2. /\ N \in SUBSET Tasks
            /\ \A x \in Tasks : \A y \in Tasks :
                 WaitsFor(x, y)' => x \notin N /\ (y \in N \/ WaitsFor(x, y))
        BY <3>3, <4>1
      <4> QED
        BY <4>2, FewerWaits
    <3> QED
      BY <3>2, <3>4
  <2> QED
    BY <2>1, <2>2
<1> QED
  BY <1>1, <1>2, RecordsHold, PTL DEF Spec

=============================================================================
