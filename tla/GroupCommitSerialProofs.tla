----------------------- MODULE GroupCommitSerialProofs -----------------------
(***************************************************************************)
(* GroupCommit implements SerialSession, for every set of keys and         *)
(* programs and every length of the line: the inductive invariant          *)
(* SerialInv, and every step of the detailed specification as a step of    *)
(* the abstract one or a stutter.                                          *)
(***************************************************************************)
EXTENDS GroupCommitStorageProofs

\* A step of the Session that runs one job at a time, or none.
SerialStep == [Serial!Next]_(Serial!serialVars)

-----------------------------------------------------------------------------
(* What each part of the invariant depends on                               *)

\* Only jobs that ran are in place.
LEMMA PlaceRan ==
  ASSUME IInv
  PROVE  \A j \in InPlace : j \in Line /\ Client(j) /\ j <= ran
<1> SUFFICES ASSUME NEW j \in InPlace PROVE j \in Line /\ Client(j) /\ j <= ran
  OBVIOUS
<1>1. j \in Line /\ Client(j) /\ (j \in published \/ outcome[j] = "value")
  BY DEF InPlace
<1>2. CASE j \in published
  BY <1>1, <1>2 DEF IInv, CallInv, PartInv
<1>3. CASE outcome[j] = "value" /\ j \notin published
  <2>1. j <= ran \/ j \in parts
    BY <1>1, <1>3 DEF IInv, LineInv
  <2> QED
    BY <1>1, <2>1 DEF IInv, PartInv
<1> QED
  BY <1>1, <1>2, <1>3

\* A step that publishes nothing and resolves only what is published.
LEMMA PlaceFrame ==
  ASSUME IInv, published' = published, \A j \in Line : j <= next => prog'[j] = prog[j],
         \A j \in Line : \/ outcome'[j] = outcome[j]
                         \/ outcome'[j] # "value" /\ outcome[j] = "none"
                         \/ j \in published
  PROVE  InPlace' = InPlace /\ \A k \in Keys : WritersOf(k)' = WritersOf(k)
<1>1. ran <= next /\ ran \in Index /\ next \in Index
  BY DEF IInv, LineInv, TypeOK, LineTypeOK
<1>2. \A j \in Line : j > next => j \notin published /\ outcome[j] = "none"
  <2>1. \A j \in parts : j <= next
    BY <1>1 DEF IInv, LineInv, PartInv, TypeOK, PartTypeOK, LineTypeOK, Line, Index
  <2>2. published \subseteq parts
    BY DEF IInv, CallInv
  <2>3. \A j \in Line : j > next => ~(j <= ran) /\ j \notin parts
    BY <1>1, <2>1 DEF Line, Index
  <2> QED
    BY <2>2, <2>3 DEF IInv, LineInv
<1>3. \A j \in Line : j \in InPlace' <=> j \in InPlace
  <2> SUFFICES ASSUME NEW j \in Line PROVE j \in InPlace' <=> j \in InPlace
    OBVIOUS
  <2>1. CASE j <= next
    BY <2>1 DEF InPlace, Client
  <2>2. CASE j > next
    BY <1>2, <2>2 DEF InPlace
  <2> QED
    BY <1>1, <2>1, <2>2 DEF Line, Index
<1>4. InPlace' = InPlace
  BY <1>3 DEF InPlace
<1>5. \A j \in InPlace : prog'[j] = prog[j]
  BY <1>1, PlaceRan DEF Line, Index
<1> QED
  BY <1>4, <1>5 DEF WritersOf

\* A step that shows the abstract Session nothing but, perhaps, a failure.
LEMMA AsideStep ==
  ASSUME InPlace' = InPlace, health' \in {health, "failed"}, UNCHANGED <<seen, delivered>>
  PROVE  SerialStep
<1>1. CASE health' = health
  BY <1>1 DEF SerialStep, Serial!serialVars, failed
<1>2. CASE health' = "failed"
  <2>1. failed' = TRUE
    BY <1>2 DEF failed
  <2> QED
    BY <2>1 DEF SerialStep, Serial!Next, Serial!Fail
<1> QED
  BY <1>1, <1>2

\* What SerialInv depends on, for a step that neither admits nor publishes.
LEMMA SerialFrame ==
  ASSUME IInv, StorageInv, SerialInv, published' = published,
         \A j \in Line : j <= next => prog'[j] = prog[j],
         \A j \in Line : \/ outcome'[j] = outcome[j]
                         \/ outcome'[j] = "failed" /\ outcome[j] = "none" /\ failed'
                         \/ outcome'[j] = "error" /\ outcome[j] = "none" /\ (failed' \/ j \notin parts)
                         \/ outcome'[j] = "value" /\ j \in published
                         \/ outcome'[j] = "failed" /\ j \in published /\ failed',
         ~failed' => ~failed /\ Pending' \subseteq Pending /\ failAt' = failAt,
         Sound' => Sound,
         \A j \in parts : seen'[j] = seen[j],
         \A k \in Keys : mem'[k] = mem[k] \/ (~Sound /\ \A i \in Pending : carry[i][k] = 0),
         UNCHANGED <<parts, carry>>
  PROVE  InPlace' = InPlace /\ SerialInv'
<1>1. InPlace' = InPlace /\ \A k \in Keys : WritersOf(k)' = WritersOf(k)
  BY PlaceFrame
<1>2. Pending \subseteq parts /\ parts \subseteq Line
  BY DEF Pending, IInv, PartInv, Unsettled, TypeOK, PartTypeOK
<1>3. \A j \in parts : prog'[j] = prog[j]
  BY <1>2 DEF IInv, LineInv, PartInv, TypeOK, PartTypeOK, LineTypeOK, Line, Index
<1>4. \A j \in parts : (Client(j)' <=> Client(j)) /\ (Client(j) => prog[j].reads \subseteq Keys)
  BY <1>2, <1>3, ClientProgram DEF Client
<1>5. \A i \in InPlace : prog'[i] = prog[i]
  BY PlaceRan DEF IInv, LineInv, TypeOK, LineTypeOK, Line, Index
<1>6. Sound' => \A k \in Keys : NewestOf(WritersOf(k)', mem'[k])
  BY <1>1 DEF SerialInv
<1>7. ASSUME ~failed', NEW j \in Pending'
      PROVE  /\ Client(j)' => \A k \in prog'[j].reads :
                  NewestOf(WritersOf(k)', seen'[j][k]) /\ \A i \in Pending' : i < j => carry'[i][k] = 0
             /\ \A k \in Keys \ prog'[j].writes : carry'[j][k] # 0 =>
                  carry'[j][k] = mem'[k] /\ \A i \in Pending' : i < j => carry'[i][k] = 0
             /\ \A i \in InPlace' : i > j =>
                  prog'[i].writes = {} /\ prog'[i].reads \cap prog'[j].writes = {}
  <2>1. j \in Pending /\ j \in parts /\ ~failed /\ Pending' \subseteq Pending
    BY <1>2, <1>7
  <2>2. \A k \in Keys : carry[j][k] # 0 => mem'[k] = mem[k]
    BY <2>1
  <2>3. Client(j)' => \A k \in prog'[j].reads :
          NewestOf(WritersOf(k)', seen'[j][k]) /\ \A i \in Pending' : i < j => carry'[i][k] = 0
    BY <1>1, <1>3, <1>4, <2>1 DEF SerialInv
  <2>4. \A k \in Keys \ prog'[j].writes : carry'[j][k] # 0 =>
          carry'[j][k] = mem'[k] /\ \A i \in Pending' : i < j => carry'[i][k] = 0
    BY <1>3, <2>1, <2>2 DEF SerialInv
  <2>5. \A i \in InPlace' : i > j =>
          prog'[i].writes = {} /\ prog'[i].reads \cap prog'[j].writes = {}
    BY <1>1, <1>3, <1>5, <2>1 DEF SerialInv
  <2> QED
    BY <2>3, <2>4, <2>5
<1>8. \A j \in Line : Client(j)' /\ outcome'[j] = "value" => j \in published' \/ prog'[j].writes = {}
  <2> SUFFICES ASSUME NEW j \in Line, Client(j)', outcome'[j] = "value", j \notin published
               PROVE  prog'[j].writes = {}
    OBVIOUS
  <2>1. outcome[j] = "value"
    OBVIOUS
  <2>2. j <= next
    BY <2>1 DEF IInv, LineInv, TypeOK, LineTypeOK, Line, Index
  <2> QED
    BY <2>1, <2>2 DEF SerialInv, Client
<1>9. ~failed' => /\ failAt' = MaxLine
                  /\ \A j \in Line : outcome'[j] # "failed" /\ (j \in parts' => outcome'[j] # "error")
  BY DEF SerialInv
<1> QED
  BY <1>1, <1>6, <1>7, <1>8, <1>9 DEF SerialInv

\* A step that the writer and memory have no part in.
LEMMA QuietSerial ==
  ASSUME IInv, StorageInv, SerialInv, \A j \in Line : j <= next => prog'[j] = prog[j],
         \A j \in Line : \/ outcome'[j] = outcome[j]
                         \/ outcome'[j] = "failed" /\ outcome[j] = "none" /\ failed'
                         \/ outcome'[j] = "error" /\ outcome[j] = "none" /\ j \notin parts,
         health' \in {health, "failed"}, ~failed' => failAt' = failAt,
         UNCHANGED <<seen, writerVars, published, mem, delivered>>
  PROVE  SerialInv' /\ SerialStep
<1> USE DEF writerVars, callVars
<1>1. (~failed' => ~failed /\ Pending' \subseteq Pending) /\ (Sound' => Sound)
  BY DEF Pending, Sound, failed
<1>2. InPlace' = InPlace /\ SerialInv'
  BY <1>1, SerialFrame
<1> QED
  BY <1>2, AsideStep

-----------------------------------------------------------------------------
(* The line                                                                 *)

\* A job that joins the line.
LEMMA NewJobSerial ==
  ASSUME IInv, StorageInv, SerialInv,
         TimerFires \/ QueueClose \/ \E p \in Programs : Enqueue(p)
  PROVE  SerialInv' /\ SerialStep
<1> USE DEF stateVars, deliveryVars, failVars
<1>1. \A j \in Line : j <= next => prog'[j] = prog[j]
  <2>1. PICK p : prog' = [prog EXCEPT ![next + 1] = p]
    BY DEF TimerFires, QueueClose, Enqueue
  <2>2. \A j \in Line : j <= next => j # next + 1
    BY DEF IInv, TypeOK, LineTypeOK, Line, Index
  <2> QED
    BY <2>1, <2>2 DEF IInv, TypeOK, LineTypeOK
<1>2. UNCHANGED <<seen, writerVars, published, mem, outcome, delivered, health, failAt>>
  BY DEF TimerFires, QueueClose, Enqueue
<1> QED
  BY <1>1, <1>2, QuietSerial

\* A step of the line, or of failure and close, that reads and admits nothing.
LEMMA AsideSerial ==
  ASSUME IInv, StorageInv, SerialInv,
         Start \/ Close \/ FailElsewhere \/ (\E k \in Keys : Touch(k)) \/ UNCHANGED vars
  PROVE  SerialInv' /\ SerialStep
<1> USE DEF stateVars, deliveryVars, failVars, lineVars, vars
<1>1. /\ UNCHANGED <<prog, seen, writerVars, published, mem, outcome, delivered>>
      /\ health' \in {health, "failed"} /\ (~failed' => failAt' = failAt)
  BY DEF Start, Close, FailElsewhere, Touch, Fail, failed
<1> QED
  BY <1>1, QuietSerial

\* A client's job ends without a part and without a value.
LEMMA RefusedSerial ==
  ASSUME IInv, StorageInv, SerialInv, line # 0, Client(line),
         \/ outcome' = [outcome EXCEPT ![line] = "failed"] /\ failed'
         \/ outcome' = [outcome EXCEPT ![line] = "error"],
         health' \in {health, "failed"}, ~failed' => failAt' = failAt,
         UNCHANGED <<prog, seen, writerVars, stateVars, deliveryVars>>
  PROVE  SerialInv' /\ SerialStep
<1> USE DEF stateVars, deliveryVars
<1>1. line \in Line /\ outcome[line] = "none" /\ line \notin parts
  BY NotYet DEF IInv, TypeOK, LineTypeOK, Index
<1>2. \A j \in Line : \/ outcome'[j] = outcome[j]
                      \/ outcome'[j] = "failed" /\ outcome[j] = "none" /\ failed'
                      \/ outcome'[j] = "error" /\ outcome[j] = "none" /\ j \notin parts
  BY <1>1 DEF IInv, TypeOK, OutcomeTypeOK
<1> QED
  BY <1>1, <1>2, QuietSerial

\* A read is a look of the job on the line, which made no step yet.
LEMMA ReadSerial ==
  ASSUME IInv, StorageInv, SerialInv, NEW k \in Keys, line # 0, Client(line), unpublished[k] = 0,
         ReadKey(k), UNCHANGED <<prog, writerVars, published, outcome, delivered, failVars>>
  PROVE  SerialInv' /\ SerialStep
<1> USE DEF writerVars, callVars, failVars
<1>1. /\ seen' = [seen EXCEPT ![line][k] = mem'[k]]
      /\ \A l \in Keys : l # k => mem'[l] = mem[l]
      /\ Sound => mem' = mem
      /\ line \notin parts /\ line \in Line
      /\ \A i \in Pending : carry[i][k] = 0
  BY ReadKeyShows
<1>2. \A i \in Line \ {line} : seen'[i] = seen[i]
  BY <1>1 DEF IInv, TypeOK, LineTypeOK
<1>3. (~failed' => ~failed /\ Pending' \subseteq Pending) /\ (Sound' => Sound)
  BY DEF Pending, Sound, failed
<1>4. InPlace' = InPlace /\ SerialInv'
  <2>1. \A j \in parts : seen'[j] = seen[j]
    BY <1>1, <1>2 DEF IInv, TypeOK, PartTypeOK
  <2>2. \A l \in Keys : mem'[l] = mem[l] \/ (~Sound /\ \A i \in Pending : carry[i][l] = 0)
    BY <1>1
  <2> QED
    BY <1>3, <2>1, <2>2, SerialFrame
<1>5. line \notin InPlace
  <2>1. line = ran + 1 /\ ran \in Nat
    BY NotYet DEF IInv, TypeOK, LineTypeOK, Index
  <2> QED
    BY <2>1, PlaceRan
<1>6. Serial!Look(line)
  BY <1>2, <1>4, <1>5 DEF Serial!Look, failed
<1> QED
  BY <1>1, <1>4, <1>6 DEF SerialStep, Serial!Next

\* The actions of a client's job on the line that read, or end it without a part.
LEMMA ClientSerial ==
  ASSUME IInv, StorageInv, SerialInv,
         \/ \E k \in Keys : Read(k) \/ PassGate(k)
         \/ RefuseOnLine \/ Throw \/ ReadFails
  PROVE  SerialInv' /\ SerialStep
<1> USE DEF stateVars, deliveryVars, failVars
<1>1. ASSUME NEW k \in Keys, Read(k) PROVE SerialInv' /\ SerialStep
  <2>1. Client(line)
    BY <1>1 DEF Read, IInv, LineInv
  <2> QED
    BY <1>1, <2>1, ReadSerial DEF Read
<1>2. ASSUME NEW k \in Keys, PassGate(k) PROVE SerialInv' /\ SerialStep
  <2>1. Client(line) /\ line # 0 /\ k \in reading
    BY <1>2 DEF PassGate, IInv, LineInv
  <2>2. unpublished[k] = 0
    BY <1>2, <2>1 DEF PassGate, StorageInv, GateInv, IInv, PartInv
  <2>3. CASE failed
    <3>1. failed'
      BY <1>2, <2>3 DEF PassGate, failed
    <3> QED
      BY <1>2, <2>1, <2>3, <3>1, RefusedSerial DEF PassGate
  <2>4. CASE ~failed
    BY <1>2, <2>1, <2>2, <2>4, ReadSerial DEF PassGate
  <2> QED
    BY <2>3, <2>4
<1>3. CASE RefuseOnLine \/ Throw
  <2>1. RefuseOnLine => failed'
    BY DEF RefuseOnLine, failed
  <2> QED
    BY <1>3, <2>1, RefusedSerial DEF RefuseOnLine, Throw
<1>4. CASE ReadFails
  <2>1. Client(line)
    BY <1>4 DEF ReadFails, IInv, LineInv
  <2>2. failed' /\ health' = "failed"
    BY <1>4 DEF ReadFails, Fail, failed
  <2> QED
    BY <1>4, <2>1, <2>2, RefusedSerial DEF ReadFails
<1> QED
  BY <1>1, <1>2, <1>3, <1>4

-----------------------------------------------------------------------------
(* Admission                                                                *)

\* A part that is admitted carries what memory shows, or its own changes; what it
\* read, nothing pending carries.
LEMMA AdmitSerial ==
  ASSUME IInv, IInv', StorageInv, SerialInv, NEW l \in Line, line = l, l \notin parts,
         l = ran + 1, NEW content \in [Keys -> Index], Admit(l, content),
         ~failed => /\ Client(l) => \A k \in prog[l].reads :
                         /\ k \in Keys /\ NewestOf(WritersOf(k), seen[l][k])
                         /\ \A i \in Pending : carry[i][k] = 0
                    /\ \A k \in Keys \ prog[l].writes : content[k] # 0 =>
                         content[k] = mem[k] /\ \A i \in Pending : carry[i][k] = 0,
         outcome[l] = "none",
         UNCHANGED <<next, prog, seen, durable, published, mem, health, failAt, delivered>>
  PROVE  SerialInv' /\ SerialStep
<1>1. /\ failed => Pending' = Pending
      /\ ~failed => Pending' = Pending \cup {l}
      /\ l \notin Pending /\ Pending \subseteq parts
      /\ Sound' => Sound
  BY AdmitPending
<1>2. /\ parts' = parts \cup {l} /\ carry' = [carry EXCEPT ![l] = content]
      /\ \/ failed /\ outcome' = [outcome EXCEPT ![l] = "failed"]
         \/ outcome' = outcome
  BY DEF Admit
<1>3. carry'[l] = content /\ \A i \in Pending : carry'[i] = carry[i]
  BY <1>1, <1>2 DEF IInv, TypeOK, PartTypeOK
<1>4. /\ \A j \in Line : outcome'[j] = outcome[j] \/ (outcome'[j] = "failed" /\ j = l /\ failed)
      /\ failed' <=> failed
  BY <1>2 DEF IInv, TypeOK, OutcomeTypeOK, failed
<1>5. InPlace' = InPlace /\ \A k \in Keys : WritersOf(k)' = WritersOf(k)
  BY <1>4, PlaceFrame
<1>6. Sound' => \A k \in Keys : NewestOf(WritersOf(k)', mem'[k])
  BY <1>1, <1>5 DEF SerialInv
<1>7. \A i \in Pending : i \in Line /\ i < l
  <2>1. \A i \in parts : i \in Line /\ (i <= ran \/ i = line)
    BY DEF IInv, PartInv, TypeOK, PartTypeOK
  <2> QED
    BY <1>1, <2>1 DEF IInv, TypeOK, LineTypeOK, Line, Index
<1>8. ASSUME ~failed', NEW j \in Pending'
      PROVE  /\ Client(j)' => \A k \in prog'[j].reads :
                  NewestOf(WritersOf(k)', seen'[j][k]) /\ \A i \in Pending' : i < j => carry'[i][k] = 0
             /\ \A k \in Keys \ prog'[j].writes : carry'[j][k] # 0 =>
                  carry'[j][k] = mem'[k] /\ \A i \in Pending' : i < j => carry'[i][k] = 0
             /\ \A i \in InPlace' : i > j =>
                  prog'[i].writes = {} /\ prog'[i].reads \cap prog'[j].writes = {}
  <2>1. ~failed /\ Pending' = Pending \cup {l}
    BY <1>1, <1>4, <1>8
  <2>2. CASE j = l
    <3>1. \A i \in Pending' : i < j => i \in Pending
      BY <2>1, <2>2 DEF Line
    <3>2. \A i \in InPlace : ~(i > j)
      BY <2>2, PlaceRan DEF IInv, TypeOK, LineTypeOK, Line, Index
    <3>3. Client(j)' => \A k \in prog'[j].reads :
            NewestOf(WritersOf(k)', seen'[j][k]) /\ \A i \in Pending' : i < j => carry'[i][k] = 0
      <4> SUFFICES ASSUME Client(l), NEW k \in prog[l].reads
                   PROVE  NewestOf(WritersOf(k)', seen[l][k]) /\ \A i \in Pending : carry'[i][k] = 0
        BY <2>2, <3>1 DEF Client
      <4>1. k \in Keys /\ NewestOf(WritersOf(k), seen[l][k]) /\ \A i \in Pending : carry[i][k] = 0
        BY <2>1
      <4> QED
        BY <1>3, <1>5, <4>1
    <3>4. \A k \in Keys \ prog'[j].writes : carry'[j][k] # 0 =>
            carry'[j][k] = mem'[k] /\ \A i \in Pending' : i < j => carry'[i][k] = 0
      <4> SUFFICES ASSUME NEW k \in Keys \ prog[l].writes, content[k] # 0
                   PROVE  content[k] = mem[k] /\ \A i \in Pending : carry'[i][k] = 0
        BY <1>3, <2>2, <3>1
      <4>1. content[k] = mem[k] /\ \A i \in Pending : carry[i][k] = 0
        BY <2>1
      <4> QED
        BY <1>3, <4>1
    <3> QED
      BY <1>5, <3>2, <3>3, <3>4
  <2>3. CASE j \in Pending
    <3>1. \A i \in Pending' : i < j => i \in Pending
      BY <1>7, <2>1, <2>3 DEF Line
    <3>2. j \in Line /\ (Client(j) => prog[j].reads \subseteq Keys)
      BY <1>7, <2>3, ClientProgram
    <3>3. Client(j)' => \A k \in prog'[j].reads :
            NewestOf(WritersOf(k)', seen'[j][k]) /\ \A i \in Pending' : i < j => carry'[i][k] = 0
      BY <1>3, <1>5, <2>1, <2>3, <3>1, <3>2 DEF Client, SerialInv
    <3>4. \A k \in Keys \ prog'[j].writes : carry'[j][k] # 0 =>
            carry'[j][k] = mem'[k] /\ \A i \in Pending' : i < j => carry'[i][k] = 0
      BY <1>3, <2>1, <2>3, <3>1 DEF SerialInv
    <3> QED
      BY <1>5, <2>1, <2>3, <3>3, <3>4 DEF SerialInv
  <2> QED
    BY <2>1, <2>2, <2>3
<1>9. \A j \in Line : Client(j)' /\ outcome'[j] = "value" => j \in published' \/ prog'[j].writes = {}
  BY <1>4 DEF SerialInv, Client
<1>10. ~failed' => /\ failAt' = MaxLine
                   /\ \A j \in Line : outcome'[j] # "failed" /\ (j \in parts' => outcome'[j] # "error")
  BY <1>2, <1>4 DEF SerialInv
<1>11. SerialInv'
  BY <1>6, <1>8, <1>9, <1>10 DEF SerialInv
<1> QED
  BY <1>5, <1>11, AsideStep

\* A job without writes is in place once it returned: its step.
LEMMA LookedSerial ==
  ASSUME IInv, StorageInv, SerialInv, Return, prog[line].writes = {}
  PROVE  SerialInv' /\ SerialStep
<1> USE DEF stateVars, deliveryVars, failVars, writerVars, callVars
<1>1. /\ line # 0 /\ Client(line) /\ todo = {} /\ ~failed /\ Sound
      /\ outcome' = [outcome EXCEPT ![line] = "value"]
      /\ UNCHANGED <<prog, seen, writerVars, stateVars, delivered, failVars>>
  BY DEF Return, Sound, LastMicrotask
<1>2. /\ line \in Line /\ line = ran + 1 /\ ran \in Nat
      /\ outcome[line] = "none" /\ delivered[line] = "none" /\ line \notin parts
  BY <1>1, NotYet DEF IInv, TypeOK, LineTypeOK, Index
<1>3. \A j \in Line : outcome'[j] = IF j = line THEN "value" ELSE outcome[j]
  BY <1>1 DEF IInv, TypeOK, OutcomeTypeOK
<1>4. InPlace' = InPlace \cup {line} /\ line \notin InPlace
  <2>1. line \notin InPlace
    BY <1>2, PlaceRan
  <2> QED
    BY <1>1, <1>2, <1>3, <2>1 DEF InPlace, Client
<1>5. \A k \in Keys : WritersOf(k)' = WritersOf(k)
  BY <1>1, <1>4 DEF WritersOf
<1>6. Pending' = Pending /\ ~failed' /\ Pending \subseteq parts /\ parts \subseteq Line
  BY <1>1 DEF Pending, failed, IInv, PartInv, Unsettled, TypeOK, PartTypeOK
<1>7. \A k \in prog[line].reads :
        /\ k \in Keys /\ seen[line][k] = mem[k] /\ \A i \in Pending : carry[i][k] = 0
  BY <1>1, AllRead
<1>8. \A j \in Pending : prog[line].reads \cap prog[j].writes = {}
  <2> SUFFICES ASSUME NEW j \in Pending, NEW k \in prog[line].reads, k \in prog[j].writes
               PROVE  FALSE
    OBVIOUS
  <2>1. j \in parts /\ j \in Line /\ carry[j][k] = 0
    BY <1>6, <1>7
  <2>2. Client(j)
    BY <2>1, ProgramsAssumption DEF IInv, TypeOK, LineTypeOK, Client, Program, NoProgram,
       StoreHoldsJob, CloseJob
  <2> QED
    BY <2>1, <2>2 DEF StorageInv, StageInv, Line
<1>9. SerialInv'
  <2>1. \A k \in Keys : NewestOf(WritersOf(k)', mem'[k])
    BY <1>1, <1>5 DEF SerialInv
  <2>2. ASSUME NEW j \in Pending
        PROVE  /\ Client(j)' => \A k \in prog'[j].reads :
                    NewestOf(WritersOf(k)', seen'[j][k]) /\ \A i \in Pending : i < j => carry'[i][k] = 0
               /\ \A k \in Keys \ prog'[j].writes : carry'[j][k] # 0 =>
                    carry'[j][k] = mem'[k] /\ \A i \in Pending : i < j => carry'[i][k] = 0
               /\ \A i \in InPlace' : i > j =>
                    prog'[i].writes = {} /\ prog'[i].reads \cap prog'[j].writes = {}
    <3>1. j \in Line /\ (Client(j) => prog[j].reads \subseteq Keys)
      BY <1>6, ClientProgram
    <3>2. Client(j)' => \A k \in prog'[j].reads :
            NewestOf(WritersOf(k)', seen'[j][k]) /\ \A i \in Pending : i < j => carry'[i][k] = 0
      BY <1>1, <1>5, <3>1 DEF SerialInv, Client
    <3>3. \A k \in Keys \ prog'[j].writes : carry'[j][k] # 0 =>
            carry'[j][k] = mem'[k] /\ \A i \in Pending : i < j => carry'[i][k] = 0
      BY <1>1 DEF SerialInv
    <3>4. \A i \in InPlace' : i > j =>
            prog'[i].writes = {} /\ prog'[i].reads \cap prog'[j].writes = {}
      BY <1>1, <1>4, <1>8 DEF SerialInv
    <3> QED
      BY <3>2, <3>3, <3>4
  <2>3. \A j \in Line : Client(j)' /\ outcome'[j] = "value" => j \in published' \/ prog'[j].writes = {}
    BY <1>1, <1>3 DEF SerialInv, Client
  <2>4. /\ failAt' = MaxLine
        /\ \A j \in Line : outcome'[j] # "failed" /\ (j \in parts' => outcome'[j] # "error")
    BY <1>1, <1>2, <1>3 DEF SerialInv
  <2> QED
    BY <1>6, <2>1, <2>2, <2>3, <2>4 DEF SerialInv
<1>10. \A k \in prog[line].reads : Serial!Holds(k, seen[line][k])
  <2>1. \A k \in prog[line].reads : NewestOf(WritersOf(k), seen[line][k])
    BY <1>1, <1>7 DEF SerialInv
  <2> QED
    BY <2>1 DEF Serial!Holds, NewestOf, WritersOf
<1>11. Serial!Step(line)
  BY <1>1, <1>2, <1>4, <1>10 DEF Serial!Step, Serial!Client, Client, failed
<1> QED
  BY <1>2, <1>9, <1>11 DEF SerialStep, Serial!Next

\* The callback returned: its part is admitted, or it has its outcome.
LEMMA ReturnSerial ==
  ASSUME IInv, IInv', StorageInv, SerialInv, Return
  PROVE  SerialInv' /\ SerialStep
<1> USE DEF stateVars, deliveryVars, failVars
<1>1. CASE prog[line].writes = {}
  BY <1>1, LookedSerial
<1>2. CASE prog[line].writes # {}
  <2>1. /\ line # 0 /\ Client(line) /\ todo = {} /\ ~failed /\ Sound /\ Admit(line, Content(line))
        /\ UNCHANGED <<next, prog, seen, durable, published, mem, health, failAt, delivered>>
    BY <1>2 DEF Return, Sound, LastMicrotask
  <2>2. line \in Line /\ line = ran + 1 /\ outcome[line] = "none" /\ line \notin parts
    BY <2>1, NotYet DEF IInv, TypeOK, LineTypeOK, Index
  <2>3. \A k \in prog[line].reads :
          /\ k \in Keys /\ seen[line][k] = mem[k] /\ \A i \in Pending : carry[i][k] = 0
    BY <2>1, AllRead
  <2>4. \A k \in prog[line].reads : NewestOf(WritersOf(k), seen[line][k])
    BY <2>1, <2>3 DEF SerialInv
  <2>5. Content(line) \in [Keys -> Index]
    BY <2>2, LineAssumption DEF Content, IInv, TypeOK, StateTypeOK, Index, Line
  <2>6. \A k \in Keys \ prog[line].writes : Content(line)[k] # 0 =>
          Content(line)[k] = mem[k] /\ k \in prog[line].reads
    BY DEF Content
  <2> QED
    BY <2>1, <2>2, <2>3, <2>4, <2>5, <2>6, AdmitSerial
<1> QED
  BY <1>1, <1>2

\* The hold timer's job and the close.
LEMMA UpkeepSerial ==
  ASSUME IInv, IInv', StorageInv, SerialInv, StoreHolds \/ StoredHolds
  PROVE  SerialInv' /\ SerialStep
<1> USE DEF stateVars, deliveryVars, failVars
<1>1. line # 0 /\ ~Client(line) /\ line \in Line /\ line = ran + 1
      /\ UNCHANGED <<next, prog, seen, stateVars, deliveryVars>>
  BY NotYet DEF StoreHolds, StoredHolds
<1>2. CASE StoreHolds /\ Admit(line, HeldContent) /\ UNCHANGED failVars
  <2>1. Drained /\ line \notin parts
    BY <1>2 DEF StoreHolds, Drained, IInv, PartInv
  <2>2. Pending = {}
    BY <1>1, <2>1, UpkeepAlone
  <2>3. outcome[line] = "none"
    BY <1>1, <2>1 DEF IInv, LineInv, TypeOK, LineTypeOK, Index
  <2>4. HeldContent \in [Keys -> Index]
    BY LineAssumption DEF HeldContent, IInv, TypeOK, StateTypeOK, Index
  <2>5. \A k \in Keys : HeldContent[k] # 0 => HeldContent[k] = mem[k]
    BY DEF HeldContent
  <2> QED
    BY <1>1, <1>2, <2>1, <2>2, <2>3, <2>4, <2>5, AdmitSerial
<1>3. CASE UNCHANGED <<writerVars, outcome, failVars>>
  BY <1>1, <1>3, QuietSerial
<1>4. CASE CloseStorage /\ UNCHANGED <<writerVars, outcome>>
  BY <1>1, <1>4, QuietSerial DEF CloseStorage
<1> QED
  BY <1>2, <1>3, <1>4 DEF StoreHolds, StoredHolds

-----------------------------------------------------------------------------
(* The writer's call                                                        *)

\* A step of the call that publishes nothing: no more is pending after it.
LEMMA CallSerial ==
  ASSUME IInv, StorageInv, SerialInv,
         \A j \in Line : \/ outcome'[j] = outcome[j]
                         \/ outcome'[j] = "failed" /\ outcome[j] = "none" /\ failed'
                         \/ outcome'[j] = "error" /\ outcome[j] = "none" /\ failed'
                         \/ outcome'[j] = "value" /\ j \in published
                         \/ outcome'[j] = "failed" /\ j \in published /\ failed',
         health' \in {health, "failed"}, ~failed' => failAt' = failAt,
         ~failed' => (queue' \cup flight') \ published \subseteq queue \cup flight,
         Sound' => Sound,
         UNCHANGED <<prog, seen, parts, carry, published, mem, delivered>>
  PROVE  SerialInv' /\ SerialStep
<1>1. ~failed' => ~failed /\ Pending' \subseteq Pending
  BY DEF Pending, failed
<1>2. InPlace' = InPlace /\ SerialInv'
  BY <1>1, SerialFrame
<1> QED
  BY <1>2, AsideStep

\* The call from its settlement to publication, and its end.
LEMMA WriterSerial ==
  ASSUME IInv, StorageInv, SerialInv, StorageCommit \/ AfterCommit \/ EndCall \/ FailCall
  PROVE  SerialInv' /\ SerialStep
<1> USE DEF lineVars, stateVars, deliveryVars, failVars
<1>1. /\ UNCHANGED <<prog, seen, parts, carry, published, mem, delivered>>
      /\ health' \in {health, "failed"} /\ (~failed' => failAt' = failAt)
  BY DEF StorageCommit, AfterCommit, EndCall, FailCall, Fail, failed
<1>2. CASE StorageCommit
  BY <1>1, <1>2, CallSerial DEF StorageCommit, Sound, failed
<1>3. CASE AfterCommit /\ ~failed
  BY <1>1, <1>3, CallSerial DEF AfterCommit, Sound, failed
<1>4. CASE EndCall /\ ~failed
  <2>1. Pump(queue) /\ UNCHANGED <<outcome, health>> /\ call = "publishing"
    BY <1>4 DEF EndCall
  <2>2. flight' = queue /\ queue' = {}
    BY <2>1 DEF Pump
  <2>3. Sound
    BY <1>4, <2>1 DEF Sound
  <2> QED
    BY <1>1, <2>1, <2>2, <2>3, CallSerial
<1>5. CASE FailCall \/ (failed /\ (AfterCommit \/ EndCall))
  <2>1. failed' /\ ~Sound'
    BY <1>5 DEF FailCall, Fail, AfterCommit, EndCall, failed, Sound
  <2>2. \E S, T \in SUBSET Unsettled : Settle(S, T)
    BY <1>5 DEF FailCall, AfterCommit, EndCall, Unsettled
  <2>3. \A j \in Unsettled : outcome[j] = "none"
    BY DEF IInv, PartInv
  <2>4. \A j \in Line : \/ outcome'[j] = outcome[j]
                        \/ outcome'[j] \in {"failed", "error"} /\ outcome[j] = "none"
    BY <2>2, <2>3 DEF Settle
  <2> QED
    BY <1>1, <2>1, <2>4, CallSerial
<1> QED
  BY <1>2, <1>3, <1>4, <1>5

\* Publication of a client's part is its step: what it read still holds, no later
\* commit is in place and no later job has looked at what it writes.
LEMMA PublishedSerial ==
  ASSUME IInv, StorageInv, SerialInv, call = "publishing", NEW j \in First(flight), Published(j),
         UNCHANGED <<lineVars, parts, carry, newest, open, durable, disk, outcome, deliveryVars,
                     failVars, closed>>
  PROVE  SerialInv' /\ SerialStep
<1> USE DEF lineVars, deliveryVars, failVars
<1>1. /\ j \in flight /\ j \in Line /\ j \in parts /\ j \notin queue
      /\ First(flight) = {j} /\ delivered[j] = "none" /\ outcome[j] = "none"
      /\ \A i \in (queue \cup flight) \ {j} : i \in Line /\ j < i
  BY FirstPart
<1>2. /\ ~failed /\ ~failed' /\ Sound
      /\ published' = published \cup {j} /\ call' = "published"
      /\ UNCHANGED <<queue, flight>>
      /\ \A k \in Keys : mem'[k] = IF carry[j][k] # 0 THEN carry[j][k] ELSE mem[k]
  BY DEF Published, Adopt, failed, Sound
<1>3. /\ Pending = queue \cup flight /\ Pending' = Pending \ {j} /\ j \in Pending
      /\ j \notin published
  <2>1. (queue \cup flight) \cap published = {}
    BY DEF StorageInv, StageInv
  <2> QED
    BY <1>1, <1>2, <2>1 DEF Pending
<1>4. prog[j].writes # {} => Client(j) /\ prog[j].writes \subseteq Keys
  <2>1. ~Client(j) => prog[j].writes = {}
    BY <1>1, ProgramsAssumption DEF IInv, TypeOK, LineTypeOK, Client, Program, NoProgram,
       StoreHoldsJob, CloseJob
  <2> QED
    BY <1>1, <2>1, ClientProgram
<1>5. \A k \in prog[j].writes : carry[j][k] = j
  BY <1>1, <1>4 DEF StorageInv, StageInv
<1>6. InPlace' = IF Client(j) THEN InPlace \cup {j} ELSE InPlace
  BY <1>1, <1>2 DEF InPlace, Client
<1>7. j \notin InPlace
  BY <1>1, <1>3 DEF InPlace
<1>8. /\ \A k \in Keys : k \notin prog[j].writes => WritersOf(k)' = WritersOf(k)
      /\ \A k \in prog[j].writes : WritersOf(k)' = WritersOf(k) \cup {j}
  BY <1>4, <1>6 DEF WritersOf
<1>9. ASSUME NEW k \in Keys PROVE NewestOf(WritersOf(k)', mem'[k])
  <2>1. NewestOf(WritersOf(k), mem[k])
    BY <1>2 DEF SerialInv
  <2>2. CASE carry[j][k] = 0
    <3>1. k \notin prog[j].writes
      BY <1>1, <1>5, <2>2 DEF Line
    <3> QED
      BY <1>2, <1>8, <2>1, <2>2, <3>1
  <2>3. CASE carry[j][k] # 0 /\ k \notin prog[j].writes
    <3>1. carry[j][k] = mem[k]
      BY <1>2, <1>3, <2>3 DEF SerialInv
    <3> QED
      BY <1>2, <1>8, <2>1, <2>3, <3>1
  <2>4. CASE k \in prog[j].writes
    <3>1. mem'[k] = j /\ WritersOf(k)' = WritersOf(k) \cup {j}
      BY <1>1, <1>2, <1>5, <1>8, <2>4 DEF Line
    <3>2. \A i \in WritersOf(k) : i \in InPlace /\ i \in Line /\ prog[i].writes # {}
      BY PlaceRan DEF WritersOf
    <3>3. \A i \in InPlace : i > j => prog[i].writes = {}
      BY <1>2, <1>3 DEF SerialInv
    <3>4. \A i \in WritersOf(k) : i <= j
      BY <1>1, <3>2, <3>3 DEF Line
    <3> QED
      BY <1>1, <3>1, <3>4 DEF NewestOf, Line
  <2> QED
    BY <2>2, <2>3, <2>4
<1>10. ASSUME NEW l \in Pending'
       PROVE  /\ Client(l)' => \A k \in prog'[l].reads :
                   NewestOf(WritersOf(k)', seen'[l][k]) /\ \A i \in Pending' : i < l => carry'[i][k] = 0
              /\ \A k \in Keys \ prog'[l].writes : carry'[l][k] # 0 =>
                   carry'[l][k] = mem'[k] /\ \A i \in Pending' : i < l => carry'[i][k] = 0
              /\ \A i \in InPlace' : i > l =>
                   prog'[i].writes = {} /\ prog'[i].reads \cap prog'[l].writes = {}
  <2>1. l \in Pending /\ l \in Line /\ j < l /\ (Client(l) => prog[l].reads \subseteq Keys)
    BY <1>1, <1>3, ClientProgram
  <2>2. /\ Client(l) => \A k \in prog[l].reads : carry[j][k] = 0
        /\ \A k \in Keys \ prog[l].writes : carry[l][k] # 0 => carry[j][k] = 0
    BY <1>2, <1>3, <2>1 DEF SerialInv
  <2>3. Client(l)' => \A k \in prog'[l].reads :
          NewestOf(WritersOf(k)', seen'[l][k]) /\ \A i \in Pending' : i < l => carry'[i][k] = 0
    <3> SUFFICES ASSUME Client(l), NEW k \in prog[l].reads
                 PROVE  NewestOf(WritersOf(k)', seen[l][k]) /\ \A i \in Pending' : i < l => carry[i][k] = 0
      BY DEF Client
    <3>1. k \in Keys /\ k \notin prog[j].writes
      BY <1>1, <1>5, <2>1, <2>2 DEF Line
    <3> QED
      BY <1>2, <1>3, <1>8, <2>1, <3>1 DEF SerialInv
  <2>4. \A k \in Keys \ prog'[l].writes : carry'[l][k] # 0 =>
          carry'[l][k] = mem'[k] /\ \A i \in Pending' : i < l => carry'[i][k] = 0
    BY <1>2, <1>3, <2>1, <2>2 DEF SerialInv
  <2>5. \A i \in InPlace' : i > l =>
          prog'[i].writes = {} /\ prog'[i].reads \cap prog'[l].writes = {}
    <3>1. ~(j > l)
      BY <1>1, <2>1 DEF Line
    <3>2. \A i \in InPlace' : i > l => i \in InPlace
      BY <1>6, <3>1
    <3> QED
      BY <1>2, <2>1, <3>2 DEF SerialInv
  <2> QED
    BY <2>3, <2>4, <2>5
<1>11. SerialInv'
  <2>1. \A i \in Line : Client(i)' /\ outcome'[i] = "value" => i \in published' \/ prog'[i].writes = {}
    BY <1>2 DEF SerialInv, Client
  <2>2. /\ failAt' = MaxLine
        /\ \A i \in Line : outcome'[i] # "failed" /\ (i \in parts' => outcome'[i] # "error")
    BY <1>2 DEF SerialInv
  <2> QED
    BY <1>9, <1>10, <2>1, <2>2 DEF SerialInv
<1>12. CASE ~Client(j)
  BY <1>6, <1>11, <1>12, AsideStep
<1>13. CASE Client(j)
  <2>1. \A k \in prog[j].reads : Serial!Holds(k, seen[j][k])
    <3>1. \A k \in prog[j].reads : NewestOf(WritersOf(k), seen[j][k])
      BY <1>2, <1>3, <1>13 DEF SerialInv
    <3> QED
      BY <3>1 DEF Serial!Holds, NewestOf, WritersOf
  <2>2. ~Serial!Overtaken(j)
    BY <1>2, <1>3 DEF SerialInv, Serial!Overtaken
  <2>3. Serial!Step(j)
    BY <1>1, <1>2, <1>6, <1>7, <1>13, <2>1, <2>2 DEF Serial!Step, Serial!Client, Client, failed
  <2> QED
    BY <1>1, <1>11, <2>3 DEF SerialStep, Serial!Next
<1> QED
  BY <1>12, <1>13

\* A turn of the publication loop, up to publication.
LEMMA PublishSerial ==
  ASSUME IInv, StorageInv, SerialInv, Publish
  PROVE  SerialInv' /\ SerialStep
<1> USE DEF lineVars, deliveryVars, failVars
<1>1. PICK j \in First(flight) : NoReceipt(j) \/ FailedMeanwhile(j) \/ Published(j) \/ NotAdopted(j)
  BY DEF Publish
<1>2. /\ call = "publishing"
      /\ UNCHANGED <<lineVars, parts, carry, newest, open, durable, disk, outcome, deliveryVars,
                     failVars, closed>>
  BY DEF Publish
<1>3. j \in flight
  BY FirstPart
<1>4. CASE \E cause \in {"own", "failed"}, external \in BOOLEAN :
             Stop(j, cause, external) /\ UNCHANGED <<published, mem>>
  <2>1. flight' = {} /\ queue' = queue
    BY <1>3, <1>4, StopSets
  <2>2. Sound' => Sound
    BY <1>2 DEF Sound, failed
  <2> QED
    BY <1>2, <1>4, <2>1, <2>2, CallSerial
<1>5. CASE Published(j)
  BY <1>2, <1>5, PublishedSerial
<1> QED
  BY <1>1, <1>4, <1>5 DEF NoReceipt, FailedMeanwhile, NotAdopted

\* The rest of the turn.
LEMMA SettlePartSerial ==
  ASSUME IInv, StorageInv, SerialInv, NEW threw \in BOOLEAN, SettlePart(threw)
  PROVE  SerialInv' /\ SerialStep
<1> USE DEF lineVars, stateVars, deliveryVars, failVars
<1>1. PICK j \in First(flight) : AwaitFailure(j) \/ Resolve(j, threw)
  BY DEF SettlePart
<1>2. /\ call = "published"
      /\ UNCHANGED <<lineVars, parts, carry, unpublished, stateVars, deliveryVars, failVars, closed>>
  BY DEF SettlePart
<1>3. j \in flight /\ j \in Line /\ j \in published
  BY <1>2, FirstPart DEF IInv, CallInv
<1>4. Sound' => Sound
  BY <1>2 DEF Sound, failed
<1>5. queue' = queue /\ flight' \subseteq flight
  <2>1. CASE Resolve(j, threw) /\ threw
    BY <1>3, <2>1, StopSets DEF Resolve
  <2> QED
    BY <1>1, <2>1 DEF AwaitFailure, Resolve
<1>6. \A i \in Line : \/ outcome'[i] = outcome[i]
                      \/ outcome'[i] = "value" /\ i \in published
                      \/ outcome'[i] = "failed" /\ i \in published /\ failed'
  <2>1. CASE AwaitFailure(j)
    BY <2>1 DEF AwaitFailure
  <2>2. CASE Resolve(j, threw)
    <3>1. outcome' = [outcome EXCEPT ![j] = IF failed /\ ~threw THEN "failed" ELSE "value"]
      BY <2>2 DEF Resolve
    <3>2. failed' <=> failed
      BY <1>2 DEF failed
    <3> QED
      BY <1>3, <3>1, <3>2 DEF IInv, TypeOK, OutcomeTypeOK
  <2> QED
    BY <1>1, <2>1, <2>2
<1> QED
  BY <1>2, <1>4, <1>5, <1>6, CallSerial

-----------------------------------------------------------------------------
(* Delivery                                                                 *)

\* A delivery tells the caller of a step that was made, or of none.
LEMMA DeliverSerial ==
  ASSUME IInv, StorageInv, SerialInv, NEW j \in Line, Deliver(j)
  PROVE  SerialInv' /\ SerialStep
<1> USE DEF lineVars, stateVars, failVars
<1> DEFINE o == IF Poisoned(j) THEN "failed" ELSE outcome[j]
<1>1. /\ Client(j) /\ outcome[j] # "none" /\ delivered[j] = "none"
      /\ delivered' = [delivered EXCEPT ![j] = o]
      /\ UNCHANGED <<lineVars, writerVars, stateVars, outcome, failVars, closed>>
  BY DEF Deliver
<1>2. o \in {"value", "error", "failed"} /\ outcome[j] \in Outcomes
  BY <1>1 DEF IInv, TypeOK, OutcomeTypeOK, Outcomes
<1>3. o = "value" => j \in InPlace
  BY <1>1 DEF SerialInv, InPlace
<1>4. o = "failed" => failed
  <2>1. ~failed => ~Poisoned(j) /\ outcome[j] # "failed"
    BY LineAssumption DEF SerialInv, Poisoned, Line
  <2> QED
    BY <2>1
<1>5. o = "error" /\ ~failed => j \notin InPlace
  <2> SUFFICES ASSUME outcome[j] = "error", ~failed PROVE j \notin InPlace
    OBVIOUS
  <2>1. j \notin parts
    BY DEF SerialInv
  <2> QED
    BY <2>1 DEF InPlace, IInv, CallInv
<1>6. InPlace' = InPlace /\ SerialInv'
  <2>1. (~failed' => ~failed /\ Pending' \subseteq Pending) /\ (Sound' => Sound)
    BY <1>1 DEF Pending, Sound, failed, writerVars, callVars
  <2> QED
    BY <1>1, <2>1, SerialFrame DEF writerVars
<1>7. Serial!Tell(j)
  <2> HIDE DEF o
  <2> QED
    BY <1>1, <1>2, <1>3, <1>4, <1>5, <1>6 DEF Serial!Tell, Serial!Client, Client, failed
<1> QED
  BY <1>6, <1>7 DEF SerialStep, Serial!Next

-----------------------------------------------------------------------------
(* The theorems                                                             *)

\* The Session starts as the one that runs one job at a time does.
LEMMA InitSerial == Init => SerialInv /\ Serial!Init
<1> SUFFICES ASSUME Init PROVE SerialInv /\ Serial!Init
  OBVIOUS
<1> USE DEF Init
<1>1. InPlace = {}
  BY DEF InPlace, Client, ClientKinds, NoProgram
<1>2. Pending = {} /\ failed = FALSE
  BY DEF Pending, failed
<1>3. \A k \in Keys : WritersOf(k) = {}
  BY <1>1 DEF WritersOf
<1>4. SerialInv
  BY <1>2, <1>3 DEF SerialInv, NewestOf
<1> QED
  BY <1>1, <1>2, <1>4 DEF Serial!Init

\* Every step keeps the invariant, and is a step of the abstract Session or none.
LEMMA StepSerial == FullInv /\ [Next]_vars => SerialInv' /\ SerialStep
<1> SUFFICES ASSUME IInv, StorageInv, SerialInv, [Next]_vars PROVE SerialInv' /\ SerialStep
  BY DEF FullInv
<1>1. IInv'
  BY StepInv
<1>2. CASE OnLine
  BY <1>1, <1>2, AsideSerial, ClientSerial, ReturnSerial, UpkeepSerial DEF OnLine
<1>3. CASE Writing
  BY <1>1, <1>3, WriterSerial, PublishSerial, SettlePartSerial DEF Writing
<1>4. CASE UNCHANGED vars
  BY <1>4, AsideSerial
<1> QED
  BY <1>1, <1>2, <1>3, <1>4, NewJobSerial, AsideSerial, ClientSerial, DeliverSerial DEF Next, Ended

\* All of the inductive invariant: what SessionImpl and Writer rely on across
\* every await, and why a pending commit can still take its place in line order.
THEOREM FullInvariant == Spec => []FullInv
<1>1. Init => FullInv
  BY InitInv, InitStorage, InitSerial DEF FullInv
<1>2. FullInv /\ [Next]_vars => FullInv'
  BY StepInv, StepStorage, StepSerial DEF FullInv
<1> QED
  BY <1>1, <1>2, PTL DEF Spec

\* Group commit (SessionImpl with Writer) implements the Session that runs one
\* job at a time: with overlapping storage calls, gates, held changes, failures
\* and a close, every commit and look is one step in line order, and callers are
\* told of steps that were made.
THEOREM SerialRefinement == Spec => ImplementsSerial
<1>1. Init => Serial!Init
  BY InitSerial
<1>2. FullInv /\ [Next]_vars => [Serial!Next]_(Serial!serialVars)
  BY StepSerial DEF SerialStep
<1> QED
  BY <1>1, <1>2, FullInvariant, PTL DEF Spec, ImplementsSerial, Serial!Spec

=============================================================================
