---------------------- MODULE GroupCommitStorageProofs ----------------------
(***************************************************************************)
(* ResolvedIsDurable, DerivedIsDurable and CleanCloseStoresAll of          *)
(* GroupCommit, for every set of keys and programs and every length of the *)
(* line, from the inductive invariant StorageInv.                          *)
(***************************************************************************)
EXTENDS GroupCommitSafetyProofs

-----------------------------------------------------------------------------
(* What each part of the invariant depends on                               *)

\* A step may leave the pending parts alone, or drop them as the Session fails.
Kept ==
  \/ Pending' = Pending
  \/ Pending' = {}
  \/ Pending' \subseteq Pending /\ Pending \cap durable = {}

\* What the jobs of the parts and of the line do is settled.
SameJobs == \A j \in Line : j \in parts \/ j = line => prog'[j] = prog[j]

\* A step that leaves the writer alone, but may fail the Session.
LEMMA PendingFrame ==
  ASSUME StageInv, health' \in {health, "failed"},
         UNCHANGED <<queue, flight, published, call, failing, doomed>>
  PROVE  Kept /\ (Sound' => Sound /\ Pending' = Pending) /\ Unsettled' = Unsettled
<1>1. Unsettled' = Unsettled
  BY DEF Unsettled
<1>2. CASE health' = health
  BY <1>1, <1>2 DEF Kept, Pending, Sound, failed
<1>3. CASE health' = "failed" /\ call = "storing"
  <2>1. Pending' \subseteq Pending /\ Pending \cap durable = {}
    BY <1>3 DEF Pending, StageInv, failed
  <2> QED
    BY <1>1, <1>3, <2>1 DEF Kept, Sound, failed
<1>4. CASE health' = "failed" /\ call # "storing"
  BY <1>1, <1>4 DEF Kept, Pending, Sound, failed
<1> QED
  BY <1>2, <1>3, <1>4

\* The variables StageInv depends on.
LEMMA StageFrame ==
  ASSUME TypeOK, StageInv, SameJobs, \A j \in parts : outcome'[j] \in {outcome[j], "error", "failed"},
         \A j \in Line : delivered'[j] = "value" => outcome'[j] = "value",
         UNCHANGED <<parts, carry, queue, flight, call, durable, published>>
  PROVE  StageInv'
<1>1. parts \subseteq Line
  BY DEF TypeOK, PartTypeOK
<1>2. \A j \in parts : prog'[j] = prog[j]
  BY <1>1 DEF SameJobs
<1>3. \A j \in parts : (Held(j)' <=> Held(j)) /\ (Client(j)' <=> Client(j))
  BY <1>2 DEF Held, Client
<1> QED
  BY <1>2, <1>3 DEF StageInv, First

\* The variables DiskInv depends on.
LEMMA DiskFrame ==
  ASSUME TypeOK, TypeOK', DiskInv, Kept, ran <= ran', UNCHANGED <<carry, disk, durable>>,
         \A k \in Keys : mem'[k] \in {mem[k], disk[k]}
  PROVE  DiskInv'
<1>1. \A k \in Keys : mem'[k] <= ran' /\ disk'[k] <= ran' /\ \A j \in Line : carry'[j][k] <= ran'
  BY SMTT(30) DEF TypeOK, LineTypeOK, PartTypeOK, StateTypeOK, DiskInv, Index
<1>2. Pending' \subseteq Pending
  BY DEF Kept
<1>3. Pending' = Pending \/ Pending \cap durable = {} \/ Pending' = {}
  BY DEF Kept
<1>4. \A j \in Pending', k \in Keys : carry'[j][k] # 0 =>
        \/ disk'[k] <= carry'[j][k]
        \/ \E i \in Pending' \cap durable' : j <= i /\ carry'[i][k] # 0
  BY <1>2, <1>3 DEF DiskInv
<1>5. \A j \in Pending' \cap durable', k \in Keys :
        carry'[j][k] # 0 /\ (\A i \in Pending' \cap durable' : carry'[i][k] # 0 => i <= j) =>
          disk'[k] = carry'[j][k]
  BY <1>2, <1>3 DEF DiskInv
<1>6. /\ \A i, j \in Pending', k \in Keys :
           i < j /\ carry'[i][k] # 0 /\ carry'[j][k] # 0 => carry'[i][k] <= carry'[j][k]
      /\ \A j \in durable', k \in Keys : carry'[j][k] <= disk'[k]
  BY <1>2 DEF DiskInv
<1> QED
  BY <1>1, <1>4, <1>5, <1>6 DEF DiskInv

\* The variables MemInv depends on, but for what the line reads.
LEMMA MemFrame ==
  ASSUME TypeOK, MemInv, SameJobs, Sound' => Sound /\ Pending' = Pending,
         \A j \in parts : seen'[j] = seen[j], UNCHANGED <<parts, carry, disk, mem, holds>>
  PROVE  MemInv'
<1>1. \A j \in parts : prog'[j] = prog[j]
  BY DEF TypeOK, PartTypeOK, SameJobs
<1>2. \A j \in parts : (Held(j)' <=> Held(j)) /\ (Client(j)' <=> Client(j))
  BY <1>1 DEF Held, Client
<1> QED
  BY <1>1, <1>2 DEF MemInv

\* The variables GateInv depends on, for a step that leaves the line alone.
LEMMA GateFrame ==
  ASSUME TypeOK, IInv, GateInv, SameJobs, Kept, Unsettled' = Unsettled,
         UNCHANGED <<line, todo, reading, waits, seen, parts, carry, unpublished, newest, mem,
                     published>>
  PROVE  GateInv'
<1>1. Pending' \subseteq Pending
  BY DEF Kept
<1>2. line # 0 => prog'[line] = prog[line]
  BY NotYet DEF SameJobs
<1>3. line # 0 => (Client(line)' <=> Client(line))
  BY <1>2 DEF Client
<1> QED
  BY <1>1, <1>2, <1>3 DEF GateInv

\* The variables UpkeepInv depends on, for a step that leaves the jobs alone.
LEMMA UpkeepFrame ==
  ASSUME UpkeepInv, Unsettled' = Unsettled, health' \in {health, "failed"},
         admission' \in {admission, "sealed"},
         UNCHANGED <<next, prog, line, ran, parts, carry, disk, mem, holds, published, closed>>
  PROVE  UpkeepInv'
  BY DEF UpkeepInv, Client, KeysOf, failed, closing

-----------------------------------------------------------------------------
(* The line                                                                 *)

\* A job that joins the line; the close is the last one.
LEMMA NewJobStorage ==
  ASSUME IInv, IInv', StorageInv, NEW p, next + 1 \in Line, p.kind = "close" => closing,
         \A j \in Line : prog[j].kind # "close",
         next' = next + 1, prog' = [prog EXCEPT ![next + 1] = p],
         UNCHANGED <<line, ran, todo, reading, waits, hit, seen, writerVars, stateVars,
                     outcome, deliveryVars, failVars, closed>>
  PROVE  StorageInv'
<1> USE DEF StorageInv, writerVars, callVars, gateVars, stateVars, deliveryVars, failVars
<1>1. line # next + 1 /\ next + 1 \notin parts
  BY NotYet DEF IInv, TypeOK, LineInv, LineTypeOK, Line, Index
<1>2. SameJobs
  BY <1>1 DEF SameJobs, IInv, TypeOK, LineTypeOK
<1>3. Kept /\ (Sound' => Sound /\ Pending' = Pending) /\ Unsettled' = Unsettled
  BY PendingFrame
<1>4. TypeOK /\ TypeOK'
  BY DEF IInv
<1>5. GateInv'
  BY <1>2, <1>3, <1>4, GateFrame
<1>6. StageInv'
  BY <1>2, <1>4, StageFrame DEF StageInv
<1>7. DiskInv'
  BY <1>3, <1>4, DiskFrame DEF TypeOK, LineTypeOK, Index
<1>8. MemInv'
  BY <1>2, <1>3, <1>4, MemFrame
<1>9. UpkeepInv'
  <2>1. closed = "no"
    BY DEF UpkeepInv
  <2>2. \A j \in Line : prog'[j].kind = "close" => closing /\ j = next'
    BY <1>4 DEF TypeOK, LineTypeOK
  <2>3. line # 0 => prog'[line] = prog[line]
    BY <1>2, NotYet DEF SameJobs
  <2> QED
    BY <2>1, <2>2, <2>3 DEF UpkeepInv, Client, KeysOf, closing, failed
<1> QED
  BY <1>5, <1>6, <1>7, <1>8, <1>9

\* The next job enters the line, or upkeep that has nothing to do passes it.
LEMMA StartStorage ==
  ASSUME IInv, IInv', StorageInv, Start
  PROVE  StorageInv'
<1> USE DEF StorageInv, writerVars, callVars, gateVars, stateVars, deliveryVars, failVars
<1>1. TypeOK /\ TypeOK' /\ SameJobs
  BY DEF IInv, Start, SameJobs
<1>2. Kept /\ (Sound' => Sound /\ Pending' = Pending) /\ Unsettled' = Unsettled
  BY PendingFrame DEF Start
<1>3. /\ line = 0 /\ ran < next /\ ran + 1 \in Line /\ ran + 1 \notin parts
      /\ \/ /\ line' = ran + 1 /\ ran' = ran /\ reading' = reading
            /\ \/ Client(ran + 1) /\ todo' = prog[ran + 1].reads /\ waits' = waits
               \/ ~Client(ran + 1) /\ todo' = todo /\ waits' = newest
         \/ line' = 0 /\ ran' = ran + 1 /\ todo' = {} /\ reading' = {} /\ waits' = 0
            /\ prog[ran + 1].kind = "store"
  <2>1. line = 0 /\ ran < next
    BY DEF Start
  <2>2. ran + 1 \in Line
    BY <1>1, <2>1, LineAssumption DEF TypeOK, LineTypeOK, Line, Index
  <2>3. ran + 1 \notin parts
    BY <1>1, <2>1, <2>2, NotYet DEF TypeOK, LineTypeOK, Index
  <2> QED
    BY <2>1, <2>2, <2>3 DEF Start, Leave
<1>4. StageInv'
  BY <1>1, StageFrame DEF Start, StageInv
<1>5. ran <= ran'
  BY <1>1, <1>3 DEF TypeOK, LineTypeOK, Index
<1>6. DiskInv'
  BY <1>1, <1>2, <1>5, DiskFrame DEF Start
<1>7. MemInv'
  BY <1>1, <1>2, MemFrame DEF Start
<1>8. reading = {} /\ todo = {}
  BY <1>3 DEF IInv, LineInv
<1>9. GateInv'
  <2>1. Pending' \subseteq Pending /\ UNCHANGED <<parts, prog, carry, unpublished, newest, seen, mem, published>>
    BY <1>2 DEF Start, Kept
  <2>2. reading' = {}
    BY <1>3, <1>8
  <2>3. line' # 0 /\ Client(line)' => prog'[line'].reads \ todo' = {}
    BY <1>3, <2>1 DEF Client, Line
  <2>4. line' # 0 /\ ~Client(line)' => line' \notin parts' /\ newest' = waits'
    BY <1>3, <2>1 DEF Client, Line
  <2> QED
    BY <1>2, <2>1, <2>2, <2>3, <2>4 DEF GateInv
<1>10. UpkeepInv'
  <2>1. /\ UNCHANGED <<next, prog, parts, carry, disk, mem, holds, published, closed, health, admission>>
        /\ closed = "no"
    BY <1>1, <1>3 DEF Start, UpkeepInv, TypeOK, LineTypeOK, Index
  <2>2. line' # 0 => line' \notin parts'
    BY <1>3, <2>1
  <2> QED
    BY <2>1, <2>2 DEF UpkeepInv, closing
<1> QED
  BY <1>4, <1>6, <1>7, <1>9, <1>10

\* A job that waits at the gate of a key's newest unpublished writer.
LEMMA TouchStorage ==
  ASSUME IInv, IInv', StorageInv, NEW k \in Keys, Touch(k)
  PROVE  StorageInv'
<1> USE DEF StorageInv, writerVars, callVars, gateVars, stateVars, deliveryVars, failVars
<1>1. TypeOK /\ TypeOK' /\ SameJobs
  BY DEF IInv, Touch, SameJobs
<1>2. Kept /\ (Sound' => Sound /\ Pending' = Pending) /\ Unsettled' = Unsettled
  BY PendingFrame DEF Touch
<1>3. StageInv'
  BY <1>1, StageFrame DEF Touch, StageInv
<1>4. DiskInv'
  BY <1>1, <1>2, DiskFrame DEF Touch, TypeOK, LineTypeOK, Index
<1>5. MemInv'
  BY <1>1, <1>2, MemFrame DEF Touch
<1>6. UpkeepInv'
  BY <1>2, UpkeepFrame DEF Touch
<1>7. Client(line)
  BY DEF Touch, IInv, LineInv
<1>8. GateInv'
  BY <1>2, <1>7 DEF Touch, GateInv, Kept, Client
<1> QED
  BY <1>3, <1>4, <1>5, <1>6, <1>8

\* What a key shows that no pending part carries, once it is read.
LEMMA ReadKeyShows ==
  ASSUME IInv, StorageInv, NEW k \in Keys, line # 0, Client(line), unpublished[k] = 0, ReadKey(k)
  PROVE  /\ seen' = [seen EXCEPT ![line][k] = mem'[k]]
         /\ \A l \in Keys : l # k => mem'[l] = mem[l]
         /\ mem'[k] \in {mem[k], disk[k]} /\ (k \in holds => mem'[k] = mem[k])
         /\ Sound => mem' = mem
         /\ line \notin parts /\ line \in Line
         /\ \A i \in Pending : carry[i][k] = 0
<1>1. PICK v \in {mem[k]} \cup (IF k \in holds THEN {} ELSE {disk[k]}) :
        seen' = [seen EXCEPT ![line][k] = v] /\ mem' = [mem EXCEPT ![k] = v]
  BY DEF ReadKey
<1>2. mem \in [Keys -> Index]
  BY DEF IInv, TypeOK, StateTypeOK
<1>3. mem'[k] = v /\ (v = mem[k] \/ (k \notin holds /\ v = disk[k])) /\ \A l \in Keys : l # k => mem'[l] = mem[l]
  BY <1>1, <1>2
<1>4. Pending \subseteq Line
  BY DEF Pending, IInv, TypeOK, CallTypeOK
<1>5. \A i \in Pending : carry[i][k] = 0
  BY <1>4 DEF StorageInv, GateInv, Line
<1>6. Sound => mem' = mem
  <2>1. Sound /\ k \notin holds => disk[k] = mem[k]
    BY <1>5 DEF StorageInv, MemInv
  <2> QED
    BY <1>1, <1>2, <1>3, <2>1
<1>7. line \notin parts /\ line \in Line
  BY NotYet DEF IInv, TypeOK, LineTypeOK, Index
<1> QED
  BY <1>1, <1>3, <1>5, <1>6, <1>7

\* A read of a key, at once or past its gate.
LEMMA ReadStorage ==
  ASSUME IInv, IInv', StorageInv, NEW k \in Keys, line # 0, Client(line), unpublished[k] = 0,
         ReadKey(k), reading' \subseteq reading, reading' # {} => waits' = waits,
         UNCHANGED <<next, prog, line, ran, writerVars, durable, disk, published, holds, outcome,
                     delivered, failVars, closed>>
  PROVE  StorageInv'
<1> USE DEF StorageInv, writerVars, callVars, gateVars, failVars
<1>1. TypeOK /\ TypeOK' /\ SameJobs
  BY DEF IInv, SameJobs
<1>2. Kept /\ (Sound' => Sound /\ Pending' = Pending) /\ Unsettled' = Unsettled
  BY PendingFrame
<1>3. /\ seen' = [seen EXCEPT ![line][k] = mem'[k]]
      /\ \A l \in Keys : l # k => mem'[l] = mem[l]
      /\ mem'[k] \in {mem[k], disk[k]} /\ (k \in holds => mem'[k] = mem[k])
      /\ Sound => mem' = mem
      /\ line \notin parts /\ line \in Line
  BY ReadKeyShows
<1>4. \A j \in parts : seen'[j] = seen[j]
  BY <1>1, <1>3 DEF TypeOK, LineTypeOK, PartTypeOK
<1>5. StageInv'
  BY <1>1, StageFrame DEF StageInv
<1>6. DiskInv'
  BY <1>1, <1>2, <1>3, DiskFrame DEF TypeOK, LineTypeOK, Index
<1>7. MemInv'
  <2>1. \A l \in holds : mem'[l] # 0
    BY <1>3 DEF MemInv, IInv, TypeOK, StateTypeOK
  <2>2. Sound' => Sound /\ Pending' = Pending /\ mem' = mem
    BY <1>2, <1>3
  <2>3. Sound' => \A l \in Keys : (\A i \in Pending' : carry'[i][l] = 0) =>
                    disk'[l] <= mem'[l] /\ (l \notin holds' => disk'[l] = mem'[l])
    BY <2>2 DEF MemInv
  <2>4. \A j \in parts' : Client(j)' /\ ~Held(j)' =>
          \A l \in prog'[j].reads : seen'[j][l] <= disk'[l] \/ seen'[j][l] <= carry'[j][l]
    BY <1>4 DEF MemInv, Client, Held
  <2> QED
    BY <2>1, <2>3, <2>4 DEF MemInv
<1>8. todo' = todo \ {k}
  BY DEF ReadKey
<1>9. \A l \in prog[line].reads \ todo' : unpublished[l] = 0 /\ seen'[line][l] = mem'[l]
  <2>1. prog[line].reads \subseteq Keys
    BY <1>1, <1>3, ProgramsAssumption DEF TypeOK, LineTypeOK, Client, ClientKinds, Program,
       NoProgram, StoreHoldsJob, CloseJob
  <2>2. seen'[line][k] = mem'[k] /\ \A l \in Keys : l # k => seen'[line][l] = seen[line][l]
    BY <1>1, <1>3 DEF TypeOK, LineTypeOK
  <2> QED
    BY <1>3, <1>8, <2>1, <2>2 DEF GateInv
<1>10. GateInv'
  BY <1>1, <1>2, <1>9 DEF GateInv, Kept, Client
<1>11. UpkeepInv'
  <2>1. closed = "no"
    BY DEF UpkeepInv
  <2> QED
    BY <1>2, <1>3, <2>1 DEF UpkeepInv, Client, KeysOf, closing, failed
<1> QED
  BY <1>5, <1>6, <1>7, <1>10, <1>11

\* A client's job leaves the line with an outcome and without a part.
LEMMA LeaveStorage ==
  ASSUME IInv, IInv', StorageInv, line # 0, Client(line), NEW o \in Outcomes,
         outcome' = [outcome EXCEPT ![line] = o], Leave(line), health' \in {health, "failed"},
         admission' \in {admission, "sealed"},
         UNCHANGED <<next, prog, seen, writerVars, stateVars, delivered, closed>>
  PROVE  StorageInv'
<1> USE DEF StorageInv, writerVars, callVars, gateVars, stateVars
<1>1. TypeOK /\ TypeOK' /\ SameJobs
  BY DEF IInv, SameJobs
<1>2. Kept /\ (Sound' => Sound /\ Pending' = Pending) /\ Unsettled' = Unsettled
  BY PendingFrame
<1>3. line \in Line /\ line = ran + 1 /\ line \notin parts /\ delivered[line] = "none"
  BY NotYet DEF IInv, TypeOK, LineTypeOK, Index
<1>4. line' = 0 /\ ran' = line /\ todo' = {} /\ reading' = {} /\ waits' = 0
  BY DEF Leave
<1>5. \A j \in Line : j # line => outcome'[j] = outcome[j]
  BY <1>1 DEF TypeOK, OutcomeTypeOK
<1>6. StageInv'
  <2>1. \A j \in parts : outcome'[j] = outcome[j]
    BY <1>1, <1>3, <1>5 DEF TypeOK, PartTypeOK
  <2>2. \A j \in Line : delivered'[j] = "value" => outcome'[j] = "value"
    BY <1>3, <1>5 DEF StageInv
  <2> QED
    BY <1>1, <2>1, <2>2, StageFrame
<1>7. DiskInv'
  BY <1>1, <1>2, <1>3, <1>4, DiskFrame DEF TypeOK, LineTypeOK, Index
<1>8. MemInv'
  BY <1>1, <1>2, MemFrame
<1>9. GateInv'
  BY <1>2, <1>4 DEF GateInv, Kept
<1>10. UpkeepInv'
  BY <1>2, <1>4 DEF UpkeepInv, closing, failed
<1> QED
  BY <1>6, <1>7, <1>8, <1>9, <1>10

\* The actions of a client's job on the line that read, or end it without a part.
LEMMA ClientStorage ==
  ASSUME IInv, IInv', StorageInv,
         \/ \E k \in Keys : Read(k) \/ PassGate(k)
         \/ RefuseOnLine \/ Throw \/ ReadFails
  PROVE  StorageInv'
<1> USE DEF stateVars, deliveryVars, failVars
<1>1. ASSUME NEW k \in Keys, Read(k) PROVE StorageInv'
  <2>1. Client(line)
    BY <1>1 DEF Read, IInv, LineInv
  <2> QED
    BY <1>1, <2>1, ReadStorage DEF Read
<1>2. ASSUME NEW k \in Keys, PassGate(k) PROVE StorageInv'
  <2>1. Client(line) /\ line # 0 /\ k \in reading
    BY <1>2 DEF PassGate, IInv, LineInv
  <2>2. unpublished[k] = 0
    BY <1>2, <2>1 DEF PassGate, StorageInv, GateInv, IInv, PartInv
  <2>3. CASE failed
    BY <1>2, <2>1, <2>3, LeaveStorage DEF PassGate, Outcomes
  <2>4. CASE ~failed
    BY <1>2, <2>1, <2>2, <2>4, ReadStorage DEF PassGate
  <2> QED
    BY <2>3, <2>4
<1>3. CASE RefuseOnLine \/ Throw
  BY <1>3, LeaveStorage DEF RefuseOnLine, Throw, Outcomes
<1>4. CASE ReadFails
  <2>1. Client(line)
    BY <1>4 DEF ReadFails, IInv, LineInv
  <2> QED
    BY <1>4, <2>1, LeaveStorage DEF ReadFails, Fail, Outcomes
<1> QED
  BY <1>1, <1>2, <1>3, <1>4

\* A seal, a failure from elsewhere and a delivery leave line, writer and state.
LEMMA AsideStorage ==
  ASSUME IInv, IInv', StorageInv, health' \in {health, "failed"},
         admission' \in {admission, "sealed"},
         \A j \in Line : delivered'[j] = "value" => outcome[j] = "value",
         UNCHANGED <<lineVars, writerVars, stateVars, outcome, closed>>
  PROVE  StorageInv'
<1> USE DEF StorageInv, lineVars, writerVars, callVars, gateVars, stateVars
<1>1. TypeOK /\ TypeOK' /\ SameJobs
  BY DEF IInv, SameJobs
<1>2. Kept /\ (Sound' => Sound /\ Pending' = Pending) /\ Unsettled' = Unsettled
  BY PendingFrame
<1>3. GateInv' /\ MemInv' /\ UpkeepInv'
  BY <1>1, <1>2, GateFrame, MemFrame, UpkeepFrame
<1>4. StageInv'
  BY <1>1, StageFrame
<1>5. DiskInv'
  BY <1>1, <1>2, DiskFrame DEF TypeOK, LineTypeOK, Index
<1> QED
  BY <1>3, <1>4, <1>5

-----------------------------------------------------------------------------
(* Admission                                                                *)

\* The pending parts, and what admission makes of them.
LEMMA AdmitPending ==
  ASSUME IInv, IInv', StorageInv, NEW l \in Line, line = l, l \notin parts, NEW content,
         Admit(l, content), UNCHANGED <<durable, published, health>>
  PROVE  /\ failed => Pending' = Pending
         /\ ~failed => Pending' = Pending \cup {l}
         /\ l \notin Pending /\ Pending \subseteq parts /\ Pending \cap durable = Pending' \cap durable
         /\ Sound' => Sound
         /\ Unsettled' = Unsettled \cup {l} \/ (failed /\ Unsettled' = Unsettled)
<1>1. /\ l \notin durable /\ l \notin published /\ Pending \subseteq parts
      /\ queue \subseteq parts /\ flight \subseteq parts
  BY DEF StorageInv, StageInv, IInv, CallInv, PartInv, Unsettled, Pending
<1>2. CASE call = "idle" /\ failed
  <2>1. UNCHANGED callVars
    BY <1>2 DEF Admit
  <2> QED
    BY <1>1, <1>2, <2>1 DEF callVars, Pending, Unsettled, Sound, failed
<1>3. CASE call = "idle" /\ ~failed
  <2>1. Unsettled = {}
    BY <1>3 DEF IInv, CallInv
  <2>2. /\ flight' = {l} /\ queue' = {} /\ failing' = {} /\ doomed' = {}
        /\ call' \in {"storing", "publishing"}
    BY <1>3 DEF Admit, Pump
  <2> QED
    BY <1>1, <1>3, <2>1, <2>2 DEF Pending, Unsettled, Sound, failed
<1>4. CASE call # "idle"
  <2>1. queue' = queue \cup {l} /\ UNCHANGED <<flight, call, failing, doomed>>
    BY <1>4 DEF Admit
  <2> QED
    BY <1>1, <1>4, <2>1 DEF Pending, Unsettled, Sound, failed
<1> QED
  BY <1>2, <1>3, <1>4

\* The stages, after admission.
LEMMA AdmitStage ==
  ASSUME IInv, IInv', StorageInv, NEW l \in Line, line = l, l \notin parts,
         NEW content \in [Keys -> Index], Admit(l, content),
         Client(l) => prog[l].writes # {} /\ \A k \in prog[l].writes : content[k] = l,
         prog[l].writes \subseteq Keys,
         UNCHANGED <<prog, durable, published, delivered>>
  PROVE  StageInv'
<1> USE DEF StorageInv
<1>1. l \notin durable /\ l \notin published /\ parts' = parts \cup {l}
  BY DEF StageInv, IInv, CallInv, Admit
<1>2. \A j \in parts : carry'[j] = carry[j] /\ j # l /\ j \in Line
  BY DEF Admit, IInv, TypeOK, PartTypeOK
<1>3. carry'[l] = content
  BY DEF Admit, IInv, TypeOK, PartTypeOK
<1>4. \/ /\ call = "idle" /\ failed /\ outcome' = [outcome EXCEPT ![l] = "failed"]
         /\ UNCHANGED callVars
      \/ /\ call = "idle" /\ queue' = {} /\ flight' = {l} /\ outcome' = outcome
         /\ call' \in {"storing", "publishing"}
      \/ /\ call # "idle" /\ queue' = queue \cup {l} /\ outcome' = outcome
         /\ UNCHANGED <<flight, call>>
  BY DEF Admit, Pump
<1>5. /\ queue' \cap (durable \cup published) = {}
      /\ flight' \cap published \subseteq IF call' = "published" THEN First(flight') ELSE {}
      /\ call' = "storing" => flight' \cap durable = {}
  BY <1>1, <1>4 DEF StageInv, callVars
<1>6. \A j \in durable : j \in parts' /\ ~Held(j)'
  BY <1>1 DEF StageInv, Held
<1>7. \A j \in parts' : Client(j)' => prog'[j].writes # {} /\ \A k \in prog'[j].writes : carry'[j][k] = j
  BY <1>1, <1>2, <1>3 DEF StageInv, Client
<1>8. outcome[l] = "none"
  BY NotYet DEF IInv, LineInv, TypeOK, LineTypeOK, Index, Line
<1>9. \A j \in Line : outcome'[j] = "value" <=> outcome[j] = "value"
  BY <1>4, <1>8 DEF IInv, TypeOK, OutcomeTypeOK
<1>10. \A j \in parts' : outcome'[j] = "value" => j \in published
  BY <1>1, <1>2, <1>8, <1>9 DEF StageInv
<1>11. \A j \in Line : delivered'[j] = "value" => outcome'[j] = "value"
  BY <1>9 DEF StageInv
<1> QED
  BY <1>5, <1>6, <1>7, <1>10, <1>11 DEF StageInv, First

\* What a new part carries: nothing older than Storage has or a pending part
\* carries, and whatever its job read that Storage does not have.
Fresh(l, content) ==
  /\ \A k \in Keys : content[k] <= ran'
  /\ ~failed => \A k \in Keys : content[k] # 0 =>
       /\ disk[k] <= content[k]
       /\ \A i \in Pending : carry[i][k] # 0 => carry[i][k] <= content[k]
  /\ Client(l) => prog[l].writes # {} /\ \A k \in prog[l].writes : content[k] = l
  /\ Client(l) /\ ~Held(l) =>
       \A k \in prog[l].reads : seen[l][k] <= disk[k] \/ seen[l][k] <= content[k]
  /\ ~Client(l) => Unsettled = {} /\ \A k \in holds : content[k] # 0

\* Storage and memory, after admission.
LEMMA AdmitValues ==
  ASSUME IInv, IInv', StorageInv, NEW l \in Line, line = l, l \notin parts,
         NEW content \in [Keys -> Index], Admit(l, content), Fresh(l, content),
         ran <= ran', UNCHANGED <<prog, seen, stateVars, health>>
  PROVE  DiskInv' /\ MemInv'
<1> USE DEF StorageInv, stateVars
<1>1. /\ failed => Pending' = Pending
      /\ ~failed => Pending' = Pending \cup {l}
      /\ l \notin Pending /\ Pending \subseteq parts /\ Pending \cap durable = Pending' \cap durable
      /\ Sound' => Sound
  BY AdmitPending
<1>2. /\ parts' = parts \cup {l} /\ l \notin durable /\ parts \subseteq Line
      /\ \A j \in Line : j # l => carry'[j] = carry[j]
      /\ carry'[l] = content
  BY DEF Admit, IInv, TypeOK, PartTypeOK, StageInv
<1>3. \A j \in Pending : j < l /\ j \in Line
  <2>1. l = ran + 1
    BY NotYet DEF Line
  <2> QED
    BY <1>1, <1>2, <2>1 DEF IInv, PartInv, TypeOK, LineTypeOK, Line, Index
<1>4. \A j \in Line, k \in Keys : carry[j][k] \in Index /\ carry'[j][k] \in Index /\ content[k] \in Index
                                  /\ disk[k] \in Index /\ mem[k] \in Index
  BY DEF IInv, TypeOK, PartTypeOK, StateTypeOK
<1>5. \A k \in Keys : mem'[k] <= ran' /\ disk'[k] <= ran' /\ \A j \in Line : carry'[j][k] <= ran'
  BY <1>2, <1>4 DEF DiskInv, Fresh, IInv, TypeOK, LineTypeOK, Index
<1>6. \A i, j \in Pending', k \in Keys :
        i < j /\ carry'[i][k] # 0 /\ carry'[j][k] # 0 => carry'[i][k] <= carry'[j][k]
  <2> SUFFICES ASSUME NEW i \in Pending', NEW j \in Pending', NEW k \in Keys, i < j,
                      carry'[i][k] # 0, carry'[j][k] # 0
               PROVE  carry'[i][k] <= carry'[j][k]
    OBVIOUS
  <2>1. i # l /\ i \in Pending /\ i \in Line
    BY <1>1, <1>3 DEF Line
  <2>2. CASE j = l
    BY <1>1, <1>2, <2>1, <2>2 DEF Fresh
  <2>3. CASE j # l
    BY <1>1, <1>2, <1>3, <2>1, <2>3 DEF DiskInv
  <2> QED
    BY <2>2, <2>3
<1>7. \A j \in Pending', k \in Keys : carry'[j][k] # 0 =>
        \/ disk'[k] <= carry'[j][k]
        \/ \E i \in Pending' \cap durable' : j <= i /\ carry'[i][k] # 0
  <2> SUFFICES ASSUME NEW j \in Pending', NEW k \in Keys, carry'[j][k] # 0
               PROVE  \/ disk[k] <= carry'[j][k]
                      \/ \E i \in Pending \cap durable : j <= i /\ carry'[i][k] # 0
    BY <1>1
  <2>1. CASE j = l
    BY <1>1, <1>2, <2>1 DEF Fresh
  <2>2. CASE j # l
    <3>1. j \in Pending /\ carry'[j][k] = carry[j][k]
      BY <1>1, <1>2, <1>3, <2>2
    <3>2. \A i \in Pending : carry'[i][k] = carry[i][k]
      BY <1>1, <1>2, <1>3
    <3> QED
      BY <3>1, <3>2 DEF DiskInv
  <2> QED
    BY <2>1, <2>2
<1>8. \A i \in Pending \cap durable : carry'[i] = carry[i]
  BY <1>1, <1>2, <1>3
<1>9. \A j \in Pending' \cap durable', k \in Keys :
        carry'[j][k] # 0 /\ (\A i \in Pending' \cap durable' : carry'[i][k] # 0 => i <= j) =>
          disk'[k] = carry'[j][k]
  BY <1>1, <1>8 DEF DiskInv
<1>10. \A j \in durable', k \in Keys : carry'[j][k] <= disk'[k]
  BY <1>2 DEF DiskInv, StageInv
<1>11. DiskInv'
  BY <1>5, <1>6, <1>7, <1>9, <1>10 DEF DiskInv
<1>12. Sound' => \A k \in Keys : (\A i \in Pending' : carry'[i][k] = 0) =>
                   disk'[k] <= mem'[k] /\ (k \notin holds' => disk'[k] = mem'[k])
  BY <1>1, <1>2, <1>3 DEF MemInv
<1>13. \A j \in parts' : Client(j)' /\ ~Held(j)' =>
         \A k \in prog'[j].reads : seen'[j][k] <= disk'[k] \/ seen'[j][k] <= carry'[j][k]
  BY <1>2 DEF MemInv, Fresh, Client, Held
<1>14. MemInv'
  BY <1>12, <1>13 DEF MemInv
<1> QED
  BY <1>11, <1>14

\* Admission, whichever way the job goes on.
LEMMA AdmitStorage ==
  ASSUME IInv, IInv', StorageInv, NEW l \in Line, line = l, l \notin parts,
         NEW content \in [Keys -> Index], Admit(l, content), Fresh(l, content),
         \/ Leave(l) /\ Client(l)
         \/ UNCHANGED <<line, ran, todo, reading>> /\ waits' = l /\ ~Client(l),
         prog[l].writes \subseteq Keys,
         UNCHANGED <<next, prog, seen, stateVars, delivered, failVars, closed>>
  PROVE  StorageInv'
<1> USE DEF StorageInv, stateVars, failVars
<1>1. /\ failed => Pending' = Pending
      /\ ~failed => Pending' = Pending \cup {l}
      /\ Pending \subseteq parts
      /\ Unsettled' = Unsettled \cup {l} \/ (failed /\ Unsettled' = Unsettled)
  BY AdmitPending
<1>2. /\ parts' = parts \cup {l} /\ parts \subseteq Line
      /\ \A j \in Line : j # l => carry'[j] = carry[j]
      /\ carry'[l] = content
  BY DEF Admit, IInv, TypeOK, PartTypeOK
<1>3. /\ \/ line' = 0 /\ ran' = l /\ todo' = {} /\ reading' = {} /\ Client(l)
         \/ line' = l /\ ran' = ran /\ reading' = {} /\ ~Client(l)
      /\ l = ran + 1
  BY NotYet DEF Leave, IInv, LineInv, Line
<1>4. StageInv'
  BY AdmitStage DEF Fresh
<1>5. DiskInv' /\ MemInv'
  BY <1>3, AdmitValues DEF IInv, TypeOK, LineTypeOK, Line, Index
<1>6. \A j \in parts : j < l /\ j \in Line
  BY <1>2, <1>3 DEF IInv, PartInv, TypeOK, LineTypeOK, Line, Index
<1>7. \/ /\ call = "idle" /\ failed /\ newest' = 0 /\ UNCHANGED <<unpublished, callVars>>
      \/ /\ newest' = l
         /\ unpublished' = [k \in Keys |-> IF content[k] # 0 THEN l ELSE unpublished[k]]
  BY DEF Admit
<1>8. GateInv'
  <2>1. Unsettled \subseteq parts
    BY DEF IInv, PartInv
  <2>2. \A i \in Unsettled' : i <= newest'
    <3>1. CASE call = "idle" /\ failed
      <4>1. Unsettled = {} /\ l \in open'
        BY <3>1 DEF IInv, CallInv, Admit
      <4> QED
        BY <1>1, <4>1 DEF IInv, PartInv
    <3>2. CASE newest' = l
      BY <1>1, <1>6, <2>1, <3>2 DEF Line
    <3> QED
      BY <1>7, <3>1, <3>2
  <2>3. newest' # 0 => newest' \in Unsettled'
    <3>1. l \in open' \/ l \in Unsettled'
      BY <1>2 DEF IInv, PartInv
    <3>2. newest' = l => l \notin open'
      <4>1. newest' = l => open' = open
        BY DEF Admit, Line
      <4>2. open \subseteq parts
        BY DEF IInv, PartInv
      <4> QED
        BY <4>1, <4>2
    <3> QED
      BY <1>7, <3>1, <3>2
  <2>4. \A k \in Keys : unpublished'[k] # 0 => unpublished'[k] \in Unsettled' \ published'
    BY <1>1, <1>7, <2>3 DEF GateInv, Line, IInv, CallInv
  <2>5. \A i \in Pending', k \in Keys : carry'[i][k] # 0 => unpublished'[k] >= i
    <3> SUFFICES ASSUME NEW i \in Pending', NEW k \in Keys, carry'[i][k] # 0
                 PROVE  unpublished'[k] >= i
      OBVIOUS
    <3>1. CASE call = "idle" /\ failed
      BY <3>1 DEF Pending, Admit, callVars, failed
    <3>2. CASE ~(call = "idle" /\ failed)
      <4>1. unpublished'[k] = IF content[k] # 0 THEN l ELSE unpublished[k]
        BY <3>2 DEF Admit
      <4>2. i \in Pending => i < l /\ i \in Line /\ unpublished[k] \in Index /\ carry'[i][k] = carry[i][k]
        BY <1>1, <1>2, <1>6 DEF IInv, TypeOK, PartTypeOK
      <4> QED
        BY <1>1, <1>2, <4>1, <4>2 DEF GateInv, Line, Index
    <3> QED
      BY <3>1, <3>2
  <2>6. line' # 0 /\ ~Client(line)' => line' \in parts' /\ Unsettled' \subseteq {line'}
    BY <1>1, <1>2, <1>3 DEF Fresh, Client
  <2>7. line' # 0 => ~Client(line)'
    BY <1>3 DEF Client
  <2> QED
    BY <1>3, <2>2, <2>3, <2>4, <2>5, <2>6, <2>7 DEF GateInv
<1>9. UpkeepInv'
  <2>1. closed = "no"
    BY DEF UpkeepInv, Line
  <2>2. line' # 0 => line' = l /\ ~Client(l) /\ l \notin published
    BY <1>3 DEF IInv, CallInv
  <2>3. ~Client(l) => holds \subseteq KeysOf(l)'
    BY <1>2 DEF Fresh, KeysOf, IInv, TypeOK, StateTypeOK
  <2> QED
    BY <2>1, <2>2, <2>3 DEF UpkeepInv, closing, failed
<1> QED
  BY <1>4, <1>5, <1>8, <1>9

\* The jobs clients enqueue are programs.
LEMMA ClientProgram ==
  ASSUME IInv, NEW j \in Line, Client(j)
  PROVE  /\ prog[j] \in Programs /\ prog[j].reads \subseteq Keys /\ prog[j].writes \subseteq Keys
         /\ Held(j) => prog[j].writes # {} /\ prog[j].writes \subseteq prog[j].reads
<1>1. prog[j] \in Programs \cup {NoProgram, StoreHoldsJob, CloseJob}
  BY DEF IInv, TypeOK, LineTypeOK
<1>2. prog[j] \in Programs
  BY <1>1 DEF Client, ClientKinds, NoProgram, StoreHoldsJob, CloseJob
<1> QED
  BY <1>2, ProgramsAssumption, DeferredAssumption DEF Program, Held

\* What the job on the line has read at its end is what memory shows, and
\* nothing pending carries it.
LEMMA AllRead ==
  ASSUME IInv, StorageInv, line # 0, Client(line), todo = {}
  PROVE  \A k \in prog[line].reads :
           /\ k \in Keys /\ unpublished[k] = 0 /\ seen[line][k] = mem[k]
           /\ \A i \in Pending : carry[i][k] = 0
<1>1. line \in Line /\ prog[line].reads \subseteq Keys
  BY NotYet, ClientProgram
<1>2. \A k \in prog[line].reads : k \in Keys /\ unpublished[k] = 0 /\ seen[line][k] = mem[k]
  BY <1>1 DEF StorageInv, GateInv
<1>3. Pending \subseteq Line
  BY DEF Pending, IInv, TypeOK, CallTypeOK
<1>4. \A k \in Keys : unpublished[k] = 0 => \A i \in Pending : carry[i][k] = 0
  BY <1>3 DEF StorageInv, GateInv, Line
<1> QED
  BY <1>2, <1>4

\* A commit carries its own changes and the held ones it depends on (takeHeld()).
LEMMA ContentFresh ==
  ASSUME IInv, StorageInv, line # 0, Client(line), todo = {}, Sound, prog[line].writes # {},
         ran' = line
  PROVE  Content(line) \in [Keys -> Index] /\ Fresh(line, Content(line))
<1> USE DEF StorageInv
<1> DEFINE c == Content(line)
<1>1. /\ line \in Line /\ line = ran + 1 /\ prog[line].reads \subseteq Keys
      /\ prog[line].writes \subseteq Keys
  BY NotYet, ClientProgram
<1>2. \A k \in prog[line].reads :
        k \in Keys /\ seen[line][k] = mem[k] /\ \A i \in Pending : carry[i][k] = 0
  BY AllRead
<1>3. /\ \A k \in Keys : c[k] = IF k \in prog[line].writes THEN line
                      ELSE IF ~Held(line) /\ k \in holds \cap prog[line].reads THEN mem[k] ELSE 0
      /\ DOMAIN c = Keys /\ c = [k \in Keys |-> c[k]]
  BY DEF Content
<1> HIDE DEF c
<1>4. /\ \A k \in Keys : mem[k] \in Index /\ disk[k] \in Index /\ seen[line][k] \in Index
      /\ \A k \in Keys, j \in Line : carry[j][k] \in Index
      /\ ran \in Index /\ line \in Index
  BY <1>1 DEF IInv, TypeOK, StateTypeOK, LineTypeOK, PartTypeOK, Line, Index
<1>5. c \in [Keys -> Index]
  <2>1. \A k \in Keys : c[k] \in Index
    BY <1>3, <1>4, LineAssumption DEF Index
  <2> QED
    BY <1>3, <2>1
<1>6. \A k \in Keys : disk[k] <= ran /\ mem[k] <= ran /\ \A j \in Line : carry[j][k] <= ran
  BY DEF DiskInv
<1>7. Pending \subseteq Line
  BY DEF Pending, IInv, TypeOK, CallTypeOK
<1>8. \A k \in Keys : c[k] <= ran'
  BY <1>1, <1>3, <1>4, <1>6 DEF Index
<1>9. \A k \in Keys : c[k] # 0 =>
        disk[k] <= c[k] /\ \A i \in Pending : carry[i][k] # 0 => carry[i][k] <= c[k]
  <2> SUFFICES ASSUME NEW k \in Keys, c[k] # 0
               PROVE  disk[k] <= c[k] /\ \A i \in Pending : carry[i][k] # 0 => carry[i][k] <= c[k]
    OBVIOUS
  <2>1. CASE k \in prog[line].writes
    <3>1. c[k] = line /\ disk[k] <= ran /\ \A i \in Pending : carry[i][k] <= ran /\ carry[i][k] \in Index
      BY <1>3, <1>4, <1>6, <1>7, <2>1
    <3> QED
      BY <1>1, <1>4, <3>1 DEF Index
  <2>2. CASE k \notin prog[line].writes
    <3>1. c[k] = mem[k] /\ k \in holds \cap prog[line].reads
      BY <1>3, <2>2
    <3>2. \A i \in Pending : carry[i][k] = 0
      BY <1>2, <3>1
    <3>3. disk[k] <= mem[k]
      BY <3>2 DEF MemInv
    <3> QED
      BY <3>1, <3>2, <3>3
  <2> QED
    BY <2>1, <2>2
<1>10. ~Held(line) => \A k \in prog[line].reads : seen[line][k] <= disk[k] \/ seen[line][k] <= c[k]
  <2> SUFFICES ASSUME ~Held(line), NEW k \in prog[line].reads
               PROVE  mem[k] <= disk[k] \/ mem[k] <= c[k]
    BY <1>2
  <2>1. k \in Keys /\ \A i \in Pending : carry[i][k] = 0
    BY <1>2
  <2>2. CASE k \in prog[line].writes
    BY <1>1, <1>3, <1>4, <1>6, <2>1, <2>2 DEF Index
  <2>3. CASE k \in holds /\ k \notin prog[line].writes
    BY <1>3, <1>4, <2>1, <2>3 DEF Index
  <2>4. CASE k \notin holds
    BY <1>4, <2>1, <2>4 DEF MemInv, Index
  <2> QED
    BY <2>2, <2>3, <2>4
<1>11. \A k \in prog[line].writes : c[k] = line
  BY <1>1, <1>3
<1>12. Fresh(line, c)
  BY <1>8, <1>9, <1>10, <1>11 DEF Fresh
<1> QED
  BY <1>5, <1>12 DEF c

\* The callback returned.
LEMMA ReturnStorage ==
  ASSUME IInv, IInv', StorageInv, Return
  PROVE  StorageInv'
<1> USE DEF deliveryVars, failVars
<1>1. /\ line # 0 /\ Client(line) /\ line \in Line /\ line \notin parts /\ Leave(line) /\ todo = {}
      /\ Sound
  BY NotYet DEF Return, Sound, LastMicrotask, IInv, TypeOK, LineTypeOK, Index
<1>2. CASE prog[line].writes = {}
  BY <1>1, <1>2, LeaveStorage DEF Return, Outcomes
<1>3. CASE prog[line].writes # {}
  <2>1. Admit(line, Content(line)) /\ ran' = line
    BY <1>1, <1>3 DEF Return, Leave
  <2>2. Content(line) \in [Keys -> Index] /\ Fresh(line, Content(line))
    BY <1>1, <1>3, <2>1, ContentFresh
  <2>3. prog[line].writes \subseteq Keys
    BY <1>1, ClientProgram
  <2> QED
    BY <1>1, <2>1, <2>2, <2>3, AdmitStorage DEF Return
<1> QED
  BY <1>2, <1>3

-----------------------------------------------------------------------------
(* Upkeep                                                                   *)

\* Upkeep runs alone: everything admitted before it is settled (#drained()).
LEMMA UpkeepAlone ==
  ASSUME IInv, StorageInv, line # 0, ~Client(line),
         (line \notin parts /\ Drained) \/ line \in open
  PROVE  /\ Unsettled = {} /\ Pending = {} /\ (~failed => Sound)
         /\ line \in Line /\ prog[line].writes = {}
<1> USE DEF StorageInv
<1>1. Unsettled \subseteq Line
  BY DEF IInv, PartInv, TypeOK, PartTypeOK
<1>2. Unsettled = {}
  <2>1. CASE line \in open
    BY <2>1 DEF GateInv, IInv, PartInv
  <2>2. CASE line \notin parts /\ Drained
    <3>1. newest = 0
      BY <2>2 DEF GateInv, Drained, IInv, PartInv
    <3> QED
      BY <1>1, <3>1 DEF GateInv, Line
  <2> QED
    BY <2>1, <2>2
<1>3. Pending = {} /\ (~failed => Sound)
  BY <1>2 DEF Unsettled, Pending, Sound
<1>4. line \in Line
  BY NotYet
<1>5. prog[line].writes = {}
  BY <1>4, ProgramsAssumption DEF IInv, TypeOK, LineTypeOK, Client, Program, NoProgram,
     StoreHoldsJob, CloseJob
<1> QED
  BY <1>2, <1>3, <1>4, <1>5

\* Upkeep leaves the line; the close leaves nothing in memory only.
LEMMA UpkeepLeavesStorage ==
  ASSUME IInv, IInv', StorageInv, line # 0, ~Client(line), Unsettled = {},
         Leave(line), health' \in {health, "failed"},
         \/ closed' = closed
         \/ prog[line].kind = "close" /\ (~failed => holds = {}),
         UNCHANGED <<next, prog, seen, writerVars, stateVars, outcome, delivered, admission>>
  PROVE  StorageInv'
<1> USE DEF StorageInv, writerVars, callVars, gateVars, stateVars
<1>1. TypeOK /\ TypeOK' /\ SameJobs
  BY DEF IInv, SameJobs
<1>2. Kept /\ (Sound' => Sound /\ Pending' = Pending) /\ Unsettled' = Unsettled
  BY PendingFrame
<1>3. line \in Line /\ line = ran + 1
  BY NotYet
<1>4. line' = 0 /\ ran' = line /\ todo' = {} /\ reading' = {} /\ waits' = 0
  BY DEF Leave
<1>5. StageInv'
  BY <1>1, StageFrame DEF StageInv
<1>6. DiskInv'
  BY <1>1, <1>2, <1>3, <1>4, DiskFrame DEF TypeOK, LineTypeOK, Index
<1>7. MemInv'
  BY <1>1, <1>2, MemFrame
<1>8. GateInv'
  BY <1>2, <1>4 DEF GateInv, Kept
<1>9. UpkeepInv'
  <2>1. closed = "no"
    BY DEF UpkeepInv
  <2>2. CASE closed' = closed
    BY <1>4, <2>1, <2>2 DEF UpkeepInv, closing, failed
  <2>3. CASE prog[line].kind = "close" /\ (~failed => holds = {})
    <3>1. ran' = next' /\ \E j \in Line : prog'[j].kind = "close"
      BY <1>3, <1>4, <2>3 DEF UpkeepInv
    <3>2. Pending = {}
      BY DEF Unsettled, Pending
    <3>3. ~failed => Sound
      BY DEF Sound, Unsettled
    <3>4. ~failed => \A k \in Keys : disk[k] = mem[k]
      BY <2>3, <3>2, <3>3 DEF MemInv
    <3>5. ~failed => disk = mem
      <4>1. disk \in [Keys -> Index] /\ mem \in [Keys -> Index]
        BY <1>1 DEF TypeOK, StateTypeOK
      <4> QED
        BY <3>4, <4>1
    <3>6. ~failed' => ~failed
      BY DEF failed
    <3> QED
      BY <1>2, <1>4, <3>1, <3>5, <3>6 DEF UpkeepInv, closing
  <2> QED
    BY <2>2, <2>3
<1> QED
  BY <1>5, <1>6, <1>7, <1>8, <1>9

\* The held changes are the newest of their documents.
LEMMA HeldFresh ==
  ASSUME IInv, StorageInv, line # 0, ~Client(line), line \notin parts, Drained, ran' = ran
  PROVE  HeldContent \in [Keys -> Index] /\ Fresh(line, HeldContent)
<1> USE DEF StorageInv
<1>1. Unsettled = {} /\ Pending = {} /\ (~failed => Sound)
  BY UpkeepAlone
<1>2. /\ \A k \in Keys : mem[k] \in Index /\ disk[k] \in Index
      /\ ran \in Index
  BY DEF IInv, TypeOK, StateTypeOK, LineTypeOK
<1>3. \A k \in Keys : HeldContent[k] = IF k \in holds THEN mem[k] ELSE 0
  BY DEF HeldContent
<1>4. HeldContent \in [Keys -> Index]
  BY <1>2, LineAssumption DEF HeldContent, Index
<1>5. \A k \in Keys : HeldContent[k] <= ran'
  BY <1>2, <1>3 DEF DiskInv, Index
<1>6. ~failed => \A k \in Keys : HeldContent[k] # 0 => disk[k] <= HeldContent[k]
  BY <1>1, <1>3 DEF MemInv
<1>7. \A k \in holds : HeldContent[k] # 0
  BY <1>3 DEF MemInv, IInv, TypeOK, StateTypeOK
<1> QED
  BY <1>1, <1>4, <1>5, <1>6, <1>7 DEF Fresh

\* The hold timer's job and the close, at their barrier and after it.
LEMMA UpkeepStorage ==
  ASSUME IInv, IInv', StorageInv, StoreHolds \/ StoredHolds
  PROVE  StorageInv'
<1> USE DEF deliveryVars
<1>1. CASE StoreHolds
  <2>1. line # 0 /\ ~Client(line) /\ Drained /\ line \notin parts
    BY <1>1 DEF StoreHolds, Drained, IInv, PartInv
  <2>2. Unsettled = {} /\ line \in Line /\ prog[line].writes = {}
    BY <2>1, UpkeepAlone
  <2>3. CASE Admit(line, HeldContent) /\ waits' = line
             /\ UNCHANGED <<line, ran, todo, reading, failVars, closed>>
    <3>1. HeldContent \in [Keys -> Index] /\ Fresh(line, HeldContent)
      BY <2>1, <2>3, HeldFresh
    <3> QED
      BY <1>1, <2>1, <2>2, <2>3, <3>1, AdmitStorage DEF StoreHolds
  <2>4. CASE Leave(line) /\ UNCHANGED <<writerVars, outcome, failVars, closed>>
    BY <1>1, <2>1, <2>2, <2>4, UpkeepLeavesStorage DEF StoreHolds, failVars
  <2>5. CASE /\ prog[line].kind = "close" /\ (failed \/ holds = {})
             /\ CloseStorage /\ UNCHANGED <<writerVars, outcome>>
    BY <1>1, <2>1, <2>2, <2>5, UpkeepLeavesStorage DEF StoreHolds, CloseStorage
  <2> QED
    BY <1>1, <2>3, <2>4, <2>5 DEF StoreHolds
<1>2. CASE StoredHolds
  <2>1. line # 0 /\ ~Client(line) /\ line \in open /\ line \in parts
    BY <1>2 DEF StoredHolds, IInv, PartInv
  <2>2. Unsettled = {}
    BY <2>1, UpkeepAlone
  <2>3. ~failed => holds = {}
    BY <2>1 DEF StorageInv, UpkeepInv, IInv, CallInv
  <2> QED
    BY <1>2, <2>1, <2>2, <2>3, UpkeepLeavesStorage DEF StoredHolds, CloseStorage, failVars
<1> QED
  BY <1>1, <1>2

-----------------------------------------------------------------------------
(* The writer's call                                                        *)

\* A step of the writer leaves the line's view of jobs alone.
LEMMA WriterFrame ==
  ASSUME IInv, GateInv, Pending' \subseteq Pending, Unsettled' \subseteq Unsettled,
         \A k \in Keys : unpublished'[k] \in {unpublished[k], 0},
         \A i \in Pending', k \in Keys : carry[i][k] # 0 => unpublished'[k] = unpublished[k],
         \A k \in Keys : unpublished'[k] # 0 => unpublished'[k] \in Unsettled' \ published',
         \A k \in Keys : unpublished[k] = 0 => mem'[k] = mem[k],
         newest' \in {newest, 0}, newest' # 0 => newest' \in Unsettled',
         newest' = 0 => Unsettled' = {},
         UNCHANGED <<lineVars, parts, carry>>
  PROVE  GateInv'
<1> USE DEF lineVars
<1>1. reading \subseteq Keys /\ (line # 0 /\ Client(line) => prog[line].reads \subseteq Keys)
  BY NotYet, ClientProgram DEF IInv, TypeOK, LineTypeOK
<1>2. \A i \in Pending', k \in Keys : carry'[i][k] # 0 => unpublished'[k] >= i
  BY DEF GateInv
<1>3. \A k \in reading' : unpublished'[k] \in {0, waits'}
  BY <1>1 DEF GateInv
<1>4. line' # 0 /\ Client(line)' => \A k \in prog'[line'].reads \ todo' :
                                      unpublished'[k] = 0 /\ seen'[line'][k] = mem'[k]
  BY <1>1 DEF GateInv, Client
<1>5. \A i \in Unsettled' : i <= newest'
  BY DEF GateInv
<1>6. line' # 0 /\ ~Client(line)' =>
        IF line' \in parts' THEN Unsettled' \subseteq {line'} ELSE newest' \in {0, waits'}
  BY DEF GateInv, Client
<1> QED
  BY <1>2, <1>3, <1>4, <1>5, <1>6 DEF GateInv

\* Storage settles a call: every batch it takes is newer than what it had.
LEMMA StorageCommitStorage ==
  ASSUME IInv, IInv', StorageInv, StorageCommit
  PROVE  StorageInv'
<1> USE DEF StorageInv, lineVars, gateVars, deliveryVars, failVars
<1>1. PICK D \in Prefixes({j \in flight : ~Held(j)}) :
        /\ durable' = durable \cup D
        /\ disk' \in Stored(D)
  BY DEF StorageCommit
<1>2. /\ call = "storing" /\ call' = "stored"
      /\ UNCHANGED <<lineVars, parts, carry, queue, flight, failing, doomed, gateVars, published,
                     mem, holds, outcome, delivered, failVars, closed>>
  BY DEF StorageCommit
<1>3. /\ D \subseteq flight /\ \A j \in D : ~Held(j)
      /\ \A i \in flight, j \in D : ~Held(i) /\ i < j => i \in D
  BY DEF Prefixes
<1>4. /\ flight \subseteq Pending /\ Pending \subseteq Line /\ Pending \cap durable = {}
      /\ Pending' = {} \/ Pending' = Pending
      /\ Pending' \cap durable' = Pending' \cap D
      /\ Sound' => Sound /\ Pending' = Pending
      /\ Unsettled' = Unsettled
  <2>1. flight \cap published = {} /\ queue \cap durable = {} /\ flight \cap durable = {}
        /\ queue \cap published = {}
    BY <1>2 DEF StageInv
  <2>2. flight \subseteq Line /\ queue \subseteq Line
    BY DEF IInv, TypeOK, CallTypeOK
  <2> QED
    BY <1>1, <1>2, <1>3, <2>1, <2>2 DEF Pending, Sound, Unsettled, failed
<1>5. \A k \in Keys : /\ disk[k] \in Index /\ disk'[k] \in Index /\ mem[k] \in Index
                      /\ \A j \in Line : carry[j][k] \in Index
  BY DEF IInv, TypeOK, StateTypeOK, PartTypeOK
<1>6. ASSUME NEW k \in Keys
      PROVE  \/ disk'[k] = disk[k] /\ \A j \in D : carry[j][k] = 0
             \/ \E l \in D : /\ carry[l][k] # 0 /\ disk'[k] = carry[l][k]
                             /\ \A i \in D : carry[i][k] # 0 => i <= l
  <2> DEFINE writers == {j \in D : carry[j][k] # 0}
  <2>1. IF writers = {} THEN disk'[k] = disk[k] ELSE \E j \in Last(writers) : disk'[k] = carry[j][k]
    BY <1>1 DEF Stored
  <2> QED
    BY <2>1 DEF Last
<1>7. \A j \in Pending, k \in Keys : carry[j][k] # 0 => disk[k] <= carry[j][k]
  BY <1>4 DEF DiskInv
<1>8. \A k \in Keys : disk[k] <= disk'[k] /\ disk'[k] <= ran
  <2> SUFFICES ASSUME NEW k \in Keys PROVE disk[k] <= disk'[k] /\ disk'[k] <= ran
    OBVIOUS
  <2>1. \A l \in D : l \in Pending /\ l \in Line
    BY <1>3, <1>4
  <2> QED
    BY <1>5, <1>6, <1>7, <2>1 DEF DiskInv, Index
<1>9. \A i, j \in Pending, k \in Keys :
        i <= j /\ carry[i][k] # 0 /\ carry[j][k] # 0 => carry[i][k] <= carry[j][k]
  BY <1>4, <1>5 DEF DiskInv, Line, Index
<1>10. StageInv'
  <2>1. \A j \in D : j \in parts /\ j \notin queue
    BY <1>3 DEF IInv, PartInv, Unsettled, TypeOK, CallTypeOK, Line
  <2>2. \A j \in parts : (Held(j)' <=> Held(j)) /\ (Client(j)' <=> Client(j))
    BY <1>2 DEF Held, Client
  <2> QED
    BY <1>1, <1>2, <1>3, <2>1, <2>2 DEF StageInv
<1>11. DiskInv'
  <2>1. \A k \in Keys : mem'[k] <= ran' /\ disk'[k] <= ran' /\ \A j \in Line : carry'[j][k] <= ran'
    BY <1>2, <1>8 DEF DiskInv
  <2>2. \A j \in Pending', k \in Keys : carry'[j][k] # 0 =>
          \/ disk'[k] <= carry'[j][k]
          \/ \E i \in Pending' \cap durable' : j <= i /\ carry'[i][k] # 0
    <3> SUFFICES ASSUME NEW j \in Pending', NEW k \in Keys, carry[j][k] # 0,
                        ~ \E i \in Pending' \cap D : j <= i /\ carry[i][k] # 0
                 PROVE  disk'[k] <= carry[j][k]
      BY <1>2, <1>4
    <3>1. Pending' = Pending /\ j \in Pending /\ j \in Line
      BY <1>4
    <3>2. CASE disk'[k] = disk[k]
      BY <1>7, <3>1, <3>2
    <3>3. ASSUME NEW l \in D, carry[l][k] # 0, disk'[k] = carry[l][k] PROVE disk'[k] <= carry[j][k]
      <4>1. l \in Pending /\ l \in Line /\ ~(j <= l)
        BY <1>3, <1>4, <3>1, <3>3
      <4>2. l <= j
        BY <3>1, <4>1 DEF Line
      <4> QED
        BY <1>9, <3>1, <3>3, <4>1, <4>2
    <3> QED
      BY <1>6, <3>2, <3>3
  <2>3. \A j \in Pending' \cap durable', k \in Keys :
          carry'[j][k] # 0 /\ (\A i \in Pending' \cap durable' : carry'[i][k] # 0 => i <= j) =>
            disk'[k] = carry'[j][k]
    <3> SUFFICES ASSUME NEW j \in Pending' \cap D, NEW k \in Keys, carry[j][k] # 0,
                        \A i \in Pending' \cap D : carry[i][k] # 0 => i <= j
                 PROVE  disk'[k] = carry[j][k]
      BY <1>2, <1>4
    <3>1. PICK l \in D : /\ carry[l][k] # 0 /\ disk'[k] = carry[l][k]
                         /\ \A i \in D : carry[i][k] # 0 => i <= l
      BY <1>6
    <3>2. l \in Pending' /\ l \in Line /\ j \in Line
      BY <1>3, <1>4
    <3>3. l = j
      BY <3>1, <3>2 DEF Line
    <3> QED
      BY <3>1, <3>3
  <2>4. \A j \in durable', k \in Keys : carry'[j][k] <= disk'[k]
    <3> SUFFICES ASSUME NEW j \in durable', NEW k \in Keys PROVE carry[j][k] <= disk'[k]
      BY <1>2
    <3>1. j \in Line
      BY DEF IInv, TypeOK, StateTypeOK
    <3>2. CASE j \in durable
      BY <1>5, <1>8, <3>1, <3>2 DEF DiskInv, Index
    <3>3. CASE j \in D /\ carry[j][k] # 0
      <4>1. PICK l \in D : /\ carry[l][k] # 0 /\ disk'[k] = carry[l][k]
                           /\ \A i \in D : carry[i][k] # 0 => i <= l
        BY <1>6, <3>3
      <4> QED
        BY <1>3, <1>4, <1>9, <3>3, <4>1
    <3>4. CASE carry[j][k] = 0
      BY <1>5, <3>4 DEF Index
    <3> QED
      BY <1>1, <3>2, <3>3, <3>4
  <2>5. \A i, j \in Pending', k \in Keys :
          i < j /\ carry'[i][k] # 0 /\ carry'[j][k] # 0 => carry'[i][k] <= carry'[j][k]
    BY <1>2, <1>4 DEF DiskInv
  <2> QED
    BY <2>1, <2>2, <2>3, <2>4, <2>5 DEF DiskInv
<1>12. MemInv'
  <2>1. Sound' => \A k \in Keys : (\A i \in Pending' : carry'[i][k] = 0) =>
                    disk'[k] <= mem'[k] /\ (k \notin holds' => disk'[k] = mem'[k])
    <3>1. Sound' => \A k \in Keys : (\A i \in Pending' : carry'[i][k] = 0) => disk'[k] = disk[k]
      BY <1>2, <1>3, <1>4, <1>6
    <3> QED
      BY <1>2, <1>4, <3>1 DEF MemInv
  <2>2. \A j \in parts' : Client(j)' /\ ~Held(j)' =>
          \A k \in prog'[j].reads : seen'[j][k] <= disk'[k] \/ seen'[j][k] <= carry'[j][k]
    <3> SUFFICES ASSUME NEW j \in parts, Client(j), ~Held(j), NEW k \in prog[j].reads
                 PROVE  seen[j][k] <= disk'[k] \/ seen[j][k] <= carry[j][k]
      BY <1>2 DEF Client, Held
    <3>1. j \in Line /\ k \in Keys /\ seen[j][k] \in Index
      BY ClientProgram DEF IInv, TypeOK, PartTypeOK, LineTypeOK
    <3> QED
      BY <1>5, <1>8, <3>1 DEF MemInv, Index
  <2> QED
    BY <1>2, <2>1, <2>2 DEF MemInv
<1>13. GateInv'
  <2>1. newest = 0 => Unsettled = {}
    BY DEF GateInv, Unsettled, IInv, TypeOK, CallTypeOK, Line
  <2> QED
    BY <1>2, <1>4, <2>1, WriterFrame DEF GateInv
<1>14. UpkeepInv'
  <2>1. Unsettled # {}
    BY <1>2 DEF IInv, CallInv, Unsettled
  <2> QED
    BY <1>2, <2>1 DEF UpkeepInv, Client, KeysOf, failed, closing
<1> QED
  BY <1>10, <1>11, <1>12, <1>13, <1>14

\* A failed Session settles everything the writer has.
LEMMA DropStorage ==
  ASSUME IInv, IInv', StorageInv, health' = "failed", admission' \in {admission, "sealed"},
         Pump({}), NEW S, Open(S), Unsettled \subseteq S, S \subseteq parts,
         \A j \in Line : IF j \in S THEN outcome'[j] # "value" ELSE outcome'[j] = outcome[j],
         \A j \in S : outcome[j] = "none",
         UNCHANGED <<lineVars, parts, carry, stateVars, delivered, closed>>
  PROVE  StorageInv'
<1> USE DEF StorageInv, lineVars, stateVars
<1>1. /\ flight' = {} /\ queue' = {} /\ failing' = {} /\ doomed' = {} /\ call' = "idle"
      /\ Pending' = {} /\ Unsettled' = {} /\ ~Sound' /\ failed'
  BY DEF Pump, Pending, Unsettled, Sound, failed
<1>2. TypeOK /\ TypeOK' /\ parts \subseteq Line
  BY DEF IInv, TypeOK, PartTypeOK
<1>3. StageInv'
  <2>1. \A j \in Line : delivered[j] = "value" => outcome'[j] = "value"
    BY DEF StageInv
  <2>2. \A j \in parts : outcome'[j] = "value" => j \in published
    BY <1>2 DEF StageInv
  <2> QED
    BY <1>1, <2>1, <2>2 DEF StageInv, Held, Client
<1>4. DiskInv'
  BY <1>1, <1>2, DiskFrame DEF Kept, TypeOK, LineTypeOK, Index
<1>5. MemInv'
  BY <1>1 DEF MemInv, Client, Held
<1>6. GateInv'
  <2>1. \A k \in Keys : unpublished'[k] = 0
    BY DEF Open, GateInv
  <2>2. newest' = 0
    BY DEF Open, GateInv
  <2> QED
    BY <1>1, <2>1, <2>2, WriterFrame DEF GateInv
<1>7. UpkeepInv'
  BY <1>1 DEF UpkeepInv, closing
<1> QED
  BY <1>3, <1>4, <1>5, <1>6, <1>7

\* A step of the call that neither publishes nor settles.
LEMMA ShiftStorage ==
  ASSUME IInv, IInv', StorageInv, StageInv', Pending' = Pending, Unsettled' = Unsettled,
         Sound' => Sound,
         UNCHANGED <<lineVars, parts, carry, gateVars, stateVars, failVars, closed>>
  PROVE  StorageInv'
<1> USE DEF StorageInv, lineVars, gateVars, stateVars, failVars
<1>1. TypeOK /\ TypeOK' /\ SameJobs /\ Kept
  BY DEF IInv, SameJobs, Kept
<1>2. DiskInv' /\ MemInv' /\ GateInv' /\ UpkeepInv'
  BY <1>1, DiskFrame, MemFrame, GateFrame, UpkeepFrame DEF TypeOK, LineTypeOK, Index
<1> QED
  BY <1>2

\* The call goes on to publication, or the failed Session gives it up.
LEMMA AfterCommitStorage ==
  ASSUME IInv, IInv', StorageInv, AfterCommit
  PROVE  StorageInv'
<1> USE DEF deliveryVars
<1>1. call = "stored" /\ UNCHANGED <<lineVars, parts, carry, stateVars, delivered, failVars, closed>>
  BY DEF AfterCommit
<1>2. CASE failed
  <2>1. /\ Settle({}, flight \cup queue) /\ Open(flight \cup queue) /\ Pump({})
    BY <1>2 DEF AfterCommit
  <2>2. Unsettled = flight \cup queue /\ Unsettled \subseteq parts
        /\ \A j \in Unsettled : outcome[j] = "none"
    BY <1>1 DEF IInv, CallInv, PartInv, Unsettled
  <2>3. \A j \in Line : IF j \in Unsettled THEN outcome'[j] # "value" ELSE outcome'[j] = outcome[j]
    BY <2>1, <2>2 DEF Settle
  <2> QED
    BY <1>1, <1>2, <2>1, <2>2, <2>3, DropStorage DEF failVars, failed
<1>3. CASE ~failed
  <2>1. /\ call' = "publishing"
        /\ UNCHANGED <<queue, flight, failing, doomed, gateVars, outcome>>
    BY <1>3 DEF AfterCommit
  <2>2. Pending' = Pending /\ Unsettled' = Unsettled /\ (Sound' => Sound)
    BY <1>1, <2>1 DEF Pending, Unsettled, Sound, failed, failVars, stateVars
  <2>3. StageInv'
    BY <1>1, <2>1 DEF StorageInv, StageInv, Held, Client, lineVars, stateVars
  <2> QED
    BY <1>1, <2>1, <2>2, <2>3, ShiftStorage
<1> QED
  BY <1>2, <1>3

\* The call is over: the next one takes what was admitted meanwhile.
LEMMA EndCallStorage ==
  ASSUME IInv, IInv', StorageInv, EndCall
  PROVE  StorageInv'
<1> USE DEF deliveryVars
<1>1. /\ call = "publishing" /\ flight = {} /\ ~rejected
      /\ UNCHANGED <<lineVars, parts, carry, stateVars, delivered, failVars, closed>>
  BY DEF EndCall
<1>2. Unsettled = queue /\ Unsettled \subseteq parts /\ \A j \in Unsettled : outcome[j] = "none"
  BY <1>1 DEF IInv, CallInv, PartInv, Unsettled
<1>3. CASE failed
  <2>1. Settle({}, queue) /\ Open(queue) /\ Pump({})
    BY <1>3 DEF EndCall
  <2>2. \A j \in Line : IF j \in queue THEN outcome'[j] # "value" ELSE outcome'[j] = outcome[j]
    BY <2>1 DEF Settle
  <2> QED
    BY <1>1, <1>2, <1>3, <2>1, <2>2, DropStorage DEF failVars, failed
<1>4. CASE ~failed
  <2>1. Pump(queue) /\ UNCHANGED <<gateVars, outcome>>
    BY <1>4 DEF EndCall
  <2>2. /\ flight' = queue /\ queue' = {} /\ failing' = {} /\ doomed' = {}
        /\ call' \in {"idle", "publishing", "storing"}
    BY <2>1 DEF Pump
  <2>3. Pending' = Pending /\ Unsettled' = Unsettled /\ (Sound' => Sound)
    BY <1>1, <1>2, <1>4, <2>2 DEF Pending, Unsettled, Sound, failed, failVars, stateVars
  <2>4. StageInv'
    BY <1>1, <2>1, <2>2 DEF StorageInv, StageInv, Held, Client, lineVars, stateVars
  <2> QED
    BY <1>1, <2>1, <2>3, <2>4, ShiftStorage
<1> QED
  BY <1>3, <1>4

\* A failed call fails the Session.
LEMMA FailCallStorage ==
  ASSUME IInv, IInv', StorageInv, FailCall
  PROVE  StorageInv'
<1> USE DEF deliveryVars
<1>1. /\ Settle(failing, doomed \cup queue) /\ Open(failing \cup doomed \cup queue) /\ Pump({})
      /\ UNCHANGED <<lineVars, parts, carry, stateVars, delivered, closed>>
      /\ flight = {}
  BY DEF FailCall, IInv, CallInv
<1>2. /\ Unsettled = failing \cup doomed \cup queue /\ Unsettled \subseteq parts
      /\ \A j \in Unsettled : outcome[j] = "none"
  BY <1>1 DEF IInv, PartInv, Unsettled
<1>3. \A j \in Line : IF j \in Unsettled THEN outcome'[j] # "value" ELSE outcome'[j] = outcome[j]
  BY <1>1, <1>2 DEF Settle
<1>4. health' = "failed" /\ admission' \in {admission, "sealed"}
  BY DEF FailCall, Fail, failed, failVars
<1> QED
  BY <1>1, <1>2, <1>3, <1>4, DropStorage

\* What is only queued is newer than all that Storage has.
LEMMA QueueDisk ==
  ASSUME IInv, IInv', StorageInv, Pending' \subseteq queue, Pending' \subseteq Pending, ran <= ran',
         UNCHANGED <<carry, disk, durable, mem>>
  PROVE  DiskInv'
<1> USE DEF StorageInv
<1>1. Pending' \cap durable' = {}
  BY DEF StageInv
<1>2. \A j \in Pending', k \in Keys : carry[j][k] # 0 => disk[k] <= carry[j][k]
  <2> SUFFICES ASSUME NEW j \in Pending', NEW k \in Keys, carry[j][k] # 0,
                      NEW i \in Pending \cap durable, j <= i
               PROVE  FALSE
    BY DEF DiskInv
  <2>1. i \in flight /\ i \in Line /\ j \in Line
    BY DEF Pending, StageInv, IInv, TypeOK, CallTypeOK
  <2> QED
    BY <2>1 DEF IInv, PartInv, Line
<1>3. \A k \in Keys : mem[k] <= ran' /\ disk[k] <= ran' /\ \A j \in Line : carry[j][k] <= ran'
  BY DEF DiskInv, IInv, TypeOK, LineTypeOK, StateTypeOK, PartTypeOK, Index
<1> QED
  BY <1>1, <1>2, <1>3 DEF DiskInv

\* The call stops: only what is queued is still pending.
LEMMA StopStorage ==
  ASSUME IInv, IInv', StorageInv, NEW j \in First(flight), NEW cause \in {"own", "failed", "value"},
         NEW external, Stop(j, cause, external), call \in {"publishing", "published"},
         cause = "value" => call = "published" /\ ~rejected,
         \/ cause # "value" /\ UNCHANGED <<outcome, newest>>
         \/ /\ cause = "value" /\ newest' = IF newest = j THEN 0 ELSE newest
            /\ \A i \in Line : i # j => outcome'[i] = outcome[i],
         \/ UNCHANGED unpublished
         \/ unpublished' = [k \in Keys |-> IF unpublished[k] = j THEN 0 ELSE unpublished[k]],
         delivered[j] = "none",
         UNCHANGED <<lineVars, parts, carry, stateVars, delivered, failVars, closed>>
  PROVE  StorageInv'
<1> USE DEF StorageInv, lineVars, stateVars, failVars
<1>1. j \in flight /\ j \in Line /\ j \in Unsettled /\ j \in parts /\ \A i \in flight : j <= i
  BY DEF First, Unsettled, IInv, PartInv, TypeOK, CallTypeOK
<1>2. /\ flight' = {} /\ call' = "failing" /\ UNCHANGED queue
      /\ cause \in {"own", "failed"} => failing' \cup doomed' = failing \cup flight
      /\ cause = "value" => failing' \cup doomed' = failing \cup (flight \ {j})
  BY <1>1, StopSets
<1>3. /\ Pending' \subseteq queue /\ Pending' \subseteq Pending
      /\ \A i \in Pending' : i > j /\ i \in Line
  <2>1. \A i \in queue : i > j /\ i \in Line
    BY <1>1 DEF IInv, PartInv, TypeOK, CallTypeOK, Line
  <2> QED
    BY <1>2, <2>1 DEF Pending, failed
<1>4. doomed = {} /\ j \notin queue
  <2>1. doomed = {}
    BY DEF IInv, CallInv
  <2> QED
    BY <1>1, <2>1 DEF IInv, PartInv, Line
<1>5. /\ cause # "value" => Unsettled' = Unsettled
      /\ cause = "value" => Unsettled \subseteq Unsettled' \cup {j} /\ Unsettled' \subseteq Unsettled
  BY <1>1, <1>2, <1>4 DEF Unsettled
<1>6. cause = "value" => j \in published /\ \A k \in Keys : unpublished[k] # j
  BY <1>1 DEF IInv, CallInv, GateInv, Line
<1>7. Sound' => Sound /\ Pending' = Pending
  <2> SUFFICES ASSUME Sound' PROVE Sound /\ Pending' = Pending
    OBVIOUS
  <2>1. ~failed /\ failing' \cup doomed' = {} /\ cause = "value"
    BY <1>1, <1>2 DEF Sound, failed
  <2>2. flight = {j} /\ j \in published
    BY <1>1, <1>2, <1>6, <2>1
  <2> QED
    BY <1>2, <2>1, <2>2 DEF Sound, Pending, failed
<1>8. StageInv'
  <2>1. \A i \in parts : i # j => outcome'[i] = outcome[i]
    BY DEF IInv, TypeOK, PartTypeOK
  <2>2. j \in published \/ outcome'[j] # "value"
    BY <1>1, <1>6 DEF IInv, PartInv
  <2>3. \A i \in Line : delivered'[i] = "value" => outcome'[i] = "value"
    BY DEF StageInv
  <2> QED
    BY <1>2, <2>1, <2>2, <2>3 DEF StageInv, Held, Client
<1>9. DiskInv'
  BY <1>3, QueueDisk DEF IInv, TypeOK, LineTypeOK, Index
<1>10. MemInv'
  BY <1>7, MemFrame DEF IInv, SameJobs
<1>11. GateInv'
  <2>1. \A k \in Keys : unpublished'[k] \in {unpublished[k], 0}
    OBVIOUS
  <2>2. \A i \in Pending', k \in Keys : carry[i][k] # 0 => unpublished'[k] = unpublished[k]
    <3>1. \A i \in Pending', k \in Keys : carry[i][k] # 0 => unpublished[k] >= i /\ unpublished[k] \in Index
      BY <1>3 DEF GateInv, IInv, TypeOK, PartTypeOK
    <3>2. \A i \in Pending', k \in Keys : carry[i][k] # 0 => unpublished[k] # j
      BY <1>1, <1>3, <3>1 DEF Line, Index
    <3> QED
      BY <3>2
  <2>3. \A k \in Keys : unpublished'[k] # 0 => unpublished'[k] \in Unsettled' \ published'
    BY <1>5, <1>6, <2>1 DEF GateInv
  <2>4. newest' \in {newest, 0} /\ (newest' # 0 => newest' \in Unsettled')
    BY <1>5 DEF GateInv
  <2>5. newest' = 0 => Unsettled' = {}
    <3>1. newest # 0 /\ Unsettled \subseteq Line /\ newest \in Index
      BY <1>1 DEF GateInv, Line, Index, IInv, TypeOK, PartTypeOK, PartInv
    <3>2. CASE cause # "value"
      BY <3>1, <3>2
    <3>3. CASE cause = "value" /\ newest = j
      <4>1. \A i \in Unsettled : i <= j
        BY <3>3 DEF GateInv
      <4>2. \A i \in flight : i = j
        BY <1>1, <4>1 DEF Line, Unsettled, IInv, TypeOK, CallTypeOK
      <4>3. queue = {}
        BY <1>1, <4>1 DEF Line, Unsettled, IInv, PartInv, TypeOK, CallTypeOK
      <4>4. failing = {}
        BY <3>3 DEF IInv, CallInv
      <4> QED
        BY <1>2, <3>3, <4>2, <4>3, <4>4 DEF Unsettled
    <3>4. CASE cause = "value" /\ newest # j
      BY <3>1, <3>4
    <3> QED
      BY <3>2, <3>3, <3>4
  <2> QED
    BY <1>3, <1>5, <2>1, <2>2, <2>3, <2>4, <2>5, WriterFrame DEF GateInv
<1>12. UpkeepInv'
  BY <1>1 DEF UpkeepInv, Client, KeysOf, failed, closing
<1> QED
  BY <1>8, <1>9, <1>10, <1>11, <1>12

\* The first part of the call is the only first one, and before what is queued.
LEMMA FirstPart ==
  ASSUME IInv, NEW j \in First(flight)
  PROVE  /\ j \in flight /\ j \in Line /\ j \in parts /\ j \in Unsettled /\ j \notin queue
         /\ First(flight) = {j} /\ outcome[j] = "none" /\ delivered[j] = "none"
         /\ \A i \in (queue \cup flight) \ {j} : i \in Line /\ j < i
<1>1. j \in flight /\ j \in Line /\ j \in Unsettled /\ flight \subseteq Line /\ queue \subseteq Line
  BY DEF First, Unsettled, IInv, TypeOK, CallTypeOK
<1>2. j \in parts /\ outcome[j] = "none" /\ \A i \in queue : j < i
  BY <1>1 DEF IInv, PartInv
<1>3. delivered[j] = "none"
  BY <1>1, <1>2 DEF IInv, LineInv
<1>4. \A i \in flight \ {j} : j < i
  BY <1>1 DEF First, Line
<1>5. First(flight) = {j}
  <2>1. \A i \in First(flight) : i \in flight /\ i <= j
    BY <1>1 DEF First
  <2>2. \A i \in First(flight) : i = j
    BY <1>1, <1>4, <2>1 DEF Line
  <2> QED
    BY <2>2
<1> QED
  BY <1>1, <1>2, <1>3, <1>4, <1>5 DEF Line

\* Publication takes the part out of what is pending, and memory shows what
\* Storage has of it, or holds it.
LEMMA PublishedStorage ==
  ASSUME IInv, IInv', StorageInv, call = "publishing", NEW j \in First(flight), Published(j),
         UNCHANGED <<lineVars, parts, carry, newest, open, durable, disk, outcome, deliveryVars,
                     failVars, closed>>
  PROVE  StorageInv'
<1> USE DEF StorageInv, lineVars, deliveryVars, failVars
<1>1. /\ j \in flight /\ j \in Line /\ j \in parts /\ j \in Unsettled /\ j \notin queue
      /\ First(flight) = {j} /\ \A i \in (queue \cup flight) \ {j} : i \in Line /\ j < i
  BY FirstPart
<1>2. /\ Held(j) \/ j \in durable
      /\ ~failed /\ ~failed' /\ Sound
      /\ published' = published \cup {j} /\ call' = "published"
      /\ UNCHANGED <<queue, flight, failing, doomed>>
  BY DEF Published, Adopt, IInv, CallInv, failed, Sound
<1>3. /\ \A k \in Keys : mem'[k] = IF carry[j][k] # 0 THEN carry[j][k] ELSE mem[k]
      /\ holds' = IF Held(j) THEN holds \cup KeysOf(j) ELSE holds \ KeysOf(j)
      /\ \A k \in Keys : unpublished'[k] = IF unpublished[k] = j THEN 0 ELSE unpublished[k]
  BY DEF Published, Adopt, Unregister
<1>4. /\ Pending = queue \cup flight /\ Pending' = Pending \ {j} /\ j \in Pending
      /\ Unsettled' = Unsettled
  <2>1. (queue \cup flight) \cap published = {}
    BY DEF StageInv
  <2> QED
    BY <1>1, <1>2, <2>1 DEF Pending, Unsettled
<1>5. \A k \in Keys : /\ disk[k] \in Index /\ mem[k] \in Index /\ unpublished[k] \in Index
                      /\ \A i \in Line : carry[i][k] \in Index
  BY DEF IInv, TypeOK, StateTypeOK, PartTypeOK
<1>6. StageInv'
  <2>1. \A i \in parts : (Held(i)' <=> Held(i)) /\ (Client(i)' <=> Client(i))
    BY DEF Held, Client
  <2>2. flight \cap published' \subseteq First(flight)
    BY <1>1, <1>2 DEF StageInv
  <2>3. queue \cap (durable \cup published') = {}
    BY <1>1, <1>2 DEF StageInv
  <2>4. First(flight)' = First(flight)
    BY <1>2 DEF First
  <2> QED
    BY <1>1, <1>2, <2>1, <2>2, <2>3, <2>4 DEF StageInv
<1>7. DiskInv'
  <2>1. \A k \in Keys : mem'[k] <= ran' /\ disk'[k] <= ran' /\ \A i \in Line : carry'[i][k] <= ran'
    BY <1>1, <1>3 DEF DiskInv
  <2>2. \A i \in Pending', k \in Keys : carry'[i][k] # 0 =>
          \/ disk'[k] <= carry'[i][k]
          \/ \E l \in Pending' \cap durable' : i <= l /\ carry'[l][k] # 0
    <3> SUFFICES ASSUME NEW i \in Pending', NEW k \in Keys, carry[i][k] # 0,
                        NEW l \in Pending \cap durable, i <= l, carry[l][k] # 0
                 PROVE  l \in Pending' \cap durable
      BY <1>4 DEF DiskInv
    <3>1. i \in Line /\ j < i /\ j \in Line
      BY <1>1, <1>4
    <3>2. l # j
      BY <3>1 DEF Line
    <3> QED
      BY <1>4, <3>2
  <2>3. \A i \in Pending' \cap durable', k \in Keys :
          carry'[i][k] # 0 /\ (\A l \in Pending' \cap durable' : carry'[l][k] # 0 => l <= i) =>
            disk'[k] = carry'[i][k]
    <3> SUFFICES ASSUME NEW i \in Pending' \cap durable, NEW k \in Keys, carry[i][k] # 0,
                        \A l \in Pending' \cap durable : carry[l][k] # 0 => l <= i
                 PROVE  disk[k] = carry[i][k]
      OBVIOUS
    <3>1. j <= i
      BY <1>1, <1>4 DEF Line
    <3> QED
      BY <1>4, <3>1 DEF DiskInv
  <2> QED
    BY <1>4, <2>1, <2>2, <2>3 DEF DiskInv
<1>8. MemInv'
  <2>1. \A k \in holds' : mem'[k] # 0
    BY <1>3 DEF MemInv, KeysOf, IInv, TypeOK, StateTypeOK
  <2>2. ASSUME NEW k \in Keys, \A i \in Pending' : carry[i][k] = 0
        PROVE  disk[k] <= mem'[k] /\ (k \notin holds' => disk[k] = mem'[k])
    <3>1. CASE carry[j][k] = 0
      <4>1. \A i \in Pending : carry[i][k] = 0
        BY <1>4, <2>2, <3>1
      <4>2. mem'[k] = mem[k] /\ (k \in holds' <=> k \in holds)
        BY <1>3, <3>1 DEF KeysOf
      <4> QED
        BY <1>2, <4>1, <4>2 DEF MemInv
    <3>2. CASE carry[j][k] # 0 /\ Held(j)
      <4>1. \A i \in Pending \cap durable : carry[i][k] = 0
        BY <1>4, <2>2, <3>2 DEF StageInv
      <4>2. disk[k] <= carry[j][k]
        BY <1>4, <3>2, <4>1 DEF DiskInv
      <4> QED
        BY <1>3, <3>2, <4>2 DEF KeysOf
    <3>3. CASE carry[j][k] # 0 /\ ~Held(j)
      <4>1. \A i \in Pending \cap durable : carry[i][k] # 0 => i <= j
        <5>1. \A i \in Pending : carry[i][k] # 0 => i = j
          BY <1>4, <2>2
        <5> QED
          BY <1>1, <5>1 DEF Line
      <4>2. disk[k] = carry[j][k]
        BY <1>2, <1>4, <3>3, <4>1 DEF DiskInv
      <4> QED
        BY <1>1, <1>3, <1>5, <3>3, <4>2 DEF Index
    <3> QED
      BY <3>1, <3>2, <3>3
  <2>3. \A i \in parts : (Held(i)' <=> Held(i)) /\ (Client(i)' <=> Client(i))
    BY DEF Held, Client
  <2> QED
    BY <2>1, <2>2, <2>3 DEF MemInv
<1>9. GateInv'
  <2>1. \A i \in Pending', k \in Keys : carry[i][k] # 0 => unpublished[k] # j
    <3>1. \A i \in Pending', k \in Keys : carry[i][k] # 0 => unpublished[k] >= i /\ j < i /\ i \in Line
      BY <1>1, <1>4 DEF GateInv
    <3> QED
      BY <1>1, <1>5, <3>1 DEF Line, Index
  <2>2. \A k \in Keys : unpublished[k] = 0 => carry[j][k] = 0
    <3>1. \A k \in Keys : carry[j][k] # 0 => unpublished[k] >= j
      BY <1>4 DEF GateInv
    <3> QED
      BY <1>1, <1>5, <3>1 DEF Line, Index
  <2>3. \A k \in Keys : unpublished'[k] # 0 => unpublished'[k] \in Unsettled' \ published'
    BY <1>2, <1>3, <1>4 DEF GateInv
  <2>4. newest # 0
    BY <1>1 DEF GateInv, Line
  <2> QED
    BY <1>3, <1>4, <2>1, <2>2, <2>3, <2>4, WriterFrame DEF GateInv
<1>10. UpkeepInv'
  <2>1. line # 0 /\ ~Client(line) /\ line \in parts => j = line /\ ~Held(line)
    BY <1>1 DEF GateInv, Client, Held, ClientKinds
  <2>2. line # 0 /\ ~Client(line) /\ line \in parts => holds' = {}
    <3>1. j \notin published
      BY <1>1 DEF StageInv
    <3> QED
      BY <1>2, <1>3, <2>1, <3>1 DEF UpkeepInv
  <2> QED
    BY <1>1, <1>2, <2>2 DEF UpkeepInv, Client, closing, failed
<1> QED
  BY <1>6, <1>7, <1>8, <1>9, <1>10

\* A turn of the publication loop.
LEMMA PublishStorage ==
  ASSUME IInv, IInv', StorageInv, Publish
  PROVE  StorageInv'
<1> USE DEF deliveryVars, stateVars
<1>1. PICK j \in First(flight) : NoReceipt(j) \/ FailedMeanwhile(j) \/ Published(j) \/ NotAdopted(j)
  BY DEF Publish
<1>2. /\ call = "publishing"
      /\ UNCHANGED <<lineVars, parts, carry, newest, open, durable, disk, outcome, deliveryVars,
                     failVars, closed>>
  BY DEF Publish
<1>3. delivered[j] = "none"
  BY FirstPart
<1>4. CASE NoReceipt(j)
  BY <1>2, <1>3, <1>4, StopStorage DEF NoReceipt
<1>5. CASE FailedMeanwhile(j)
  BY <1>2, <1>3, <1>5, StopStorage DEF FailedMeanwhile
<1>6. CASE NotAdopted(j)
  BY <1>2, <1>3, <1>6, StopStorage DEF NotAdopted, Unregister
<1>7. CASE Published(j)
  BY <1>2, <1>7, PublishedStorage
<1> QED
  BY <1>1, <1>4, <1>5, <1>6, <1>7

\* A published part settles: its gate opens, and nothing else changes.
LEMMA ResolveStorage ==
  ASSUME IInv, IInv', StorageInv, call = "published", NEW j \in First(flight), ~rejected,
         NEW o \in Outcomes, outcome' = [outcome EXCEPT ![j] = o], open' = open \cup {j},
         newest' = IF newest = j THEN 0 ELSE newest, flight' = flight \ {j}, call' = "publishing",
         UNCHANGED <<lineVars, parts, carry, queue, verdict, failing, doomed, unpublished,
                     stateVars, delivered, failVars, closed>>
  PROVE  StorageInv'
<1> USE DEF StorageInv, lineVars, stateVars, failVars
<1>1. /\ j \in flight /\ j \in Line /\ j \in parts /\ j \in Unsettled /\ j \notin queue
      /\ First(flight) = {j} /\ delivered[j] = "none"
      /\ \A i \in (queue \cup flight) \ {j} : i \in Line /\ j < i
  BY FirstPart
<1>2. j \in published /\ failing = {} /\ doomed = {}
  BY <1>1 DEF IInv, CallInv
<1>3. Pending' = Pending /\ Unsettled' = Unsettled \ {j} /\ (Sound' => Sound)
  BY <1>1, <1>2 DEF Pending, Unsettled, Sound, failed
<1>4. TypeOK /\ TypeOK' /\ SameJobs /\ Kept
  BY <1>3 DEF IInv, SameJobs, Kept
<1>5. StageInv'
  <2>1. \A i \in parts : (Held(i)' <=> Held(i)) /\ (Client(i)' <=> Client(i))
    BY DEF Held, Client
  <2>2. \A i \in Line : i # j => outcome'[i] = outcome[i]
    BY <1>1 DEF IInv, TypeOK, OutcomeTypeOK
  <2>3. flight' \cap published' = {}
    BY <1>1 DEF StageInv
  <2>4. \A i \in parts : outcome'[i] = "value" => i \in published
    BY <1>2, <2>2 DEF StageInv, IInv, TypeOK, PartTypeOK
  <2>5. \A i \in Line : delivered'[i] = "value" => outcome'[i] = "value"
    BY <1>1, <2>2 DEF StageInv
  <2> QED
    BY <2>1, <2>3, <2>4, <2>5 DEF StageInv
<1>6. DiskInv' /\ MemInv'
  BY <1>3, <1>4, DiskFrame, MemFrame DEF TypeOK, LineTypeOK, Index
<1>7. GateInv'
  <2>1. \A k \in Keys : unpublished[k] # j
    BY <1>1, <1>2 DEF GateInv, Line
  <2>2. newest # 0
    BY <1>1 DEF GateInv, Line
  <2>3. newest = j => Unsettled' = {}
    <3> SUFFICES ASSUME newest = j PROVE Unsettled' = {}
      OBVIOUS
    <3>1. \A i \in queue \cup flight : i <= j
      BY DEF GateInv, Unsettled
    <3>2. \A i \in queue \cup flight : i = j
      BY <1>1, <3>1 DEF Line
    <3> QED
      BY <1>2, <1>3, <3>2 DEF Unsettled
  <2>4. newest' # 0 => newest' \in Unsettled'
    BY <1>3, <2>2 DEF GateInv
  <2> QED
    BY <1>3, <2>1, <2>2, <2>3, <2>4, WriterFrame DEF GateInv
<1>8. UpkeepInv'
  BY <1>1 DEF UpkeepInv, Client, KeysOf, failed, closing
<1> QED
  BY <1>5, <1>6, <1>7, <1>8

\* The rest of a turn of the publication loop.
LEMMA SettlePartStorage ==
  ASSUME IInv, IInv', StorageInv, NEW threw \in BOOLEAN, SettlePart(threw)
  PROVE  StorageInv'
<1> USE DEF deliveryVars
<1>1. PICK j \in First(flight) : AwaitFailure(j) \/ Resolve(j, threw)
  BY DEF SettlePart
<1>2. /\ call = "published"
      /\ UNCHANGED <<lineVars, parts, carry, unpublished, stateVars, delivered, failVars, closed>>
  BY DEF SettlePart
<1>3. j \in flight /\ First(flight) = {j} /\ delivered[j] = "none" /\ j \in Line
  BY FirstPart
<1>4. CASE AwaitFailure(j)
  <2>1. /\ failing' = failing \cup {j} /\ flight' = flight \ {j} /\ call' = "publishing"
        /\ UNCHANGED <<queue, verdict, doomed, open, newest, outcome>>
    BY <1>4 DEF AwaitFailure
  <2>2. j \in published
    BY <1>2, <1>3 DEF IInv, CallInv
  <2>3. Pending' = Pending /\ Unsettled' = Unsettled /\ (Sound' => Sound)
    BY <1>2, <1>3, <2>1, <2>2 DEF Pending, Unsettled, Sound, failed, failVars, stateVars
  <2>4. StageInv'
    BY <1>2, <1>3, <2>1 DEF StorageInv, StageInv, Held, Client, lineVars, stateVars
  <2> QED
    BY <1>2, <2>1, <2>3, <2>4, ShiftStorage DEF gateVars
<1>5. CASE Resolve(j, threw) /\ threw
  <2>1. /\ ~rejected /\ Stop(j, "value", FALSE)
        /\ newest' = IF newest = j THEN 0 ELSE newest
        /\ outcome' = [outcome EXCEPT ![j] = "value"]
    BY <1>5 DEF Resolve
  <2>2. \A i \in Line : i # j => outcome'[i] = outcome[i]
    BY <2>1 DEF IInv, TypeOK, OutcomeTypeOK
  <2> QED
    BY <1>2, <1>3, <2>1, <2>2, StopStorage
<1>6. CASE Resolve(j, threw) /\ ~threw
  BY <1>2, <1>6, ResolveStorage DEF Resolve, Outcomes
<1> QED
  BY <1>1, <1>4, <1>5, <1>6

-----------------------------------------------------------------------------
(* The theorems                                                             *)

\* The Session starts with nothing held, pending or stored.
LEMMA InitStorage == Init => StorageInv
<1> SUFFICES ASSUME Init PROVE StorageInv
  OBVIOUS
<1> USE DEF Init
<1>1. Pending = {} /\ Unsettled = {}
  BY DEF Pending, Unsettled, failed
<1>2. GateInv
  BY <1>1 DEF GateInv
<1>3. StageInv
  BY DEF StageInv
<1>4. DiskInv /\ MemInv
  BY <1>1 DEF DiskInv, MemInv
<1>5. UpkeepInv
  BY DEF UpkeepInv, NoProgram
<1> QED
  BY <1>2, <1>3, <1>4, <1>5 DEF StorageInv

\* Every step keeps the invariant.
LEMMA StepStorage == IInv /\ StorageInv /\ [Next]_vars => StorageInv'
<1> SUFFICES ASSUME IInv, StorageInv, [Next]_vars PROVE StorageInv'
  OBVIOUS
<1>1. IInv'
  BY StepInv
<1>2. ~closing => \A j \in Line : prog[j].kind # "close"
  BY DEF StorageInv, UpkeepInv
<1>3. next \in Nat
  BY LineAssumption DEF IInv, TypeOK, LineTypeOK, Index
<1>4. ASSUME NEW p \in Programs, Enqueue(p) PROVE StorageInv'
  <2>1. next + 1 \in Line /\ p.kind # "close"
    BY <1>3, <1>4, LineAssumption, ProgramsAssumption
       DEF Enqueue, Line, Program, ClientKinds
  <2> QED
    BY <1>1, <1>2, <1>4, <2>1, NewJobStorage DEF Enqueue
<1>5. ASSUME TimerFires PROVE StorageInv'
  <2>1. next + 1 \in Line /\ StoreHoldsJob.kind # "close"
    BY <1>3, <1>5, LineAssumption DEF TimerFires, Line, StoreHoldsJob
  <2> QED
    BY <1>1, <1>2, <1>5, <2>1, NewJobStorage DEF TimerFires
<1>6. ASSUME QueueClose PROVE StorageInv'
  <2>1. next + 1 \in Line
    BY <1>3, <1>6, LineAssumption DEF QueueClose, Line
  <2> QED
    BY <1>1, <1>6, <2>1, NewJobStorage DEF QueueClose
<1>7. ASSUME UNCHANGED vars PROVE StorageInv'
  BY <1>1, <1>7, AsideStorage DEF vars, deliveryVars, failVars, StorageInv, StageInv
<1>8. ASSUME Close \/ FailElsewhere PROVE StorageInv'
  BY <1>1, <1>8, AsideStorage
     DEF Close, FailElsewhere, Fail, deliveryVars, failVars, StorageInv, StageInv
<1>9. ASSUME NEW j \in Line, Deliver(j) PROVE StorageInv'
  <2>1. \A i \in Line : delivered'[i] = "value" => outcome[i] = "value"
    BY <1>9 DEF Deliver, StorageInv, StageInv, IInv, TypeOK, OutcomeTypeOK
  <2> QED
    BY <1>1, <1>9, <2>1, AsideStorage DEF Deliver, failVars
<1>10. ASSUME OnLine PROVE StorageInv'
  BY <1>1, <1>10, StartStorage, TouchStorage, ClientStorage, ReturnStorage, UpkeepStorage DEF OnLine
<1>11. ASSUME Writing PROVE StorageInv'
  BY <1>1, <1>11, StorageCommitStorage, AfterCommitStorage, PublishStorage, EndCallStorage,
     FailCallStorage, SettlePartStorage DEF Writing
<1>12. ASSUME Throw \/ ReadFails PROVE StorageInv'
  BY <1>1, <1>12, ClientStorage
<1> QED
  BY <1>4, <1>5, <1>6, <1>7, <1>8, <1>9, <1>10, <1>11, <1>12 DEF Next, Ended

\* The gates, the stages of a call, and what Storage and memory hold at each
\* moment of it: what SessionImpl and Writer rely on across every await.
THEOREM StorageHolds == Spec => []StorageInv
<1>1. Init => IInv /\ StorageInv
  BY InitInv, InitStorage
<1>2. (IInv /\ StorageInv) /\ [Next]_vars => (IInv /\ StorageInv)'
  BY StepInv, StepStorage
<1> QED
  BY <1>1, <1>2, PTL DEF Spec

\* A commit that resolved is durable (Writer.#send() settles a part after its
\* receipt): Storage has each change it made, or a newer one, whatever failed or
\* overlapped since.
THEOREM ResolvedDurable == Spec => []ResolvedIsDurable
<1>1. IInv /\ StorageInv => ResolvedIsDurable
  <2> SUFFICES ASSUME IInv, StorageInv, NEW j \in parts, Client(j), ~Held(j), delivered[j] = "value"
               PROVE  j \in durable /\ \A k \in prog[j].writes : disk[k] >= j
    BY DEF ResolvedIsDurable
  <2>1. j \in Line /\ outcome[j] = "value" /\ j \in published
    BY DEF StorageInv, StageInv, IInv, TypeOK, PartTypeOK
  <2>2. j \in durable
    BY <2>1 DEF IInv, PublishedInOrder
  <2>3. ASSUME NEW k \in prog[j].writes PROVE disk[k] >= j
    <3>1. k \in Keys /\ carry[j][k] = j
      BY <2>1, ClientProgram DEF StorageInv, StageInv
    <3> QED
      BY <2>1, <2>2, <3>1 DEF StorageInv, DiskInv, IInv, TypeOK, StateTypeOK, Line, Index
  <2> QED
    BY <2>2, <2>3
<1> QED
  BY <1>1, Inductive, StorageHolds, PTL

\* Nothing durable is derived from a change that a crash would lose (takeHeld()
\* and the gates): whatever a stored commit read, Storage has too.
THEOREM DerivedDurable == Spec => []DerivedIsDurable
<1>1. IInv /\ StorageInv => DerivedIsDurable
  <2> SUFFICES ASSUME IInv, StorageInv, NEW j \in durable, Client(j), NEW k \in prog[j].reads
               PROVE  seen[j][k] <= disk[k]
    BY DEF DerivedIsDurable
  <2>1. j \in parts /\ ~Held(j) /\ j \in Line
    BY DEF StorageInv, StageInv, IInv, TypeOK, StateTypeOK
  <2>2. /\ k \in Keys /\ carry[j][k] \in Index /\ disk[k] \in Index /\ seen[j][k] \in Index
    BY <2>1, ClientProgram DEF IInv, TypeOK, StateTypeOK, PartTypeOK, LineTypeOK
  <2>3. carry[j][k] <= disk[k] /\ (seen[j][k] <= disk[k] \/ seen[j][k] <= carry[j][k])
    BY <2>1, <2>2 DEF StorageInv, DiskInv, MemInv
  <2> QED
    BY <2>2, <2>3 DEF Index
<1> QED
  BY <1>1, Inductive, StorageHolds, PTL

\* A close that did not fail leaves nothing in memory only (SessionImpl.close()
\* behind the barrier and #storeHolds()).
THEOREM CleanClose == Spec => []CleanCloseStoresAll
<1>1. StorageInv => CleanCloseStoresAll
  BY DEF StorageInv, UpkeepInv, CleanCloseStoresAll
<1> QED
  BY <1>1, StorageHolds, PTL

=============================================================================
