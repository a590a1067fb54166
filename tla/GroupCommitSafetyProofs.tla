----------------------- MODULE GroupCommitSafetyProofs -----------------------
(***************************************************************************)
(* Proofs about GroupCommit, for every set of keys and programs and every  *)
(* length of the line: its types, and FailureBoundary and PublishedInOrder *)
(* from the inductive invariant IInv.                                      *)
(***************************************************************************)
EXTENDS GroupCommit, TLAPS

USE LineAssumption, OutstandingAssumption, ProgramsAssumption
    DEF Line, Index, Outcomes

-----------------------------------------------------------------------------
(* What the writer's and the Session's shared steps do to the types         *)

\* A new call of admitted parts has a well-typed state (Writer.#pump()).
LEMMA PumpType == \A S \in SUBSET Line : Pump(S) => CallTypeOK'
  BY DEF Pump, CallTypeOK

\* Opening gates keeps the unpublished map well typed (Writer.#open()).
LEMMA OpenType ==
  ASSUME PartTypeOK, NEW S \in SUBSET Line, Open(S), UNCHANGED <<parts, carry>>
  PROVE  PartTypeOK'
<1>1. unpublished' \in [Keys -> Index]
  BY DEF Open, PartTypeOK
<1>2. newest' \in Index /\ open' \subseteq Line
  BY DEF Open, PartTypeOK
<1> QED
  BY <1>1, <1>2 DEF PartTypeOK

\* A call that stops sorts its parts into those that keep an error and those
\* that fail with the Session (Writer.#publish()).
LEMMA StopType ==
  ASSUME CallTypeOK, NEW j \in Line, NEW cause, NEW external, Stop(j, cause, external)
  PROVE  CallTypeOK'
<1> DEFINE rest == flight \ {j}
           stored == IF rejected /\ ~external THEN {i \in rest : ~Held(i)} ELSE {}
<1>1. rest \subseteq Line /\ stored \subseteq rest
  BY DEF CallTypeOK
<1>2. /\ failing' = failing \cup stored \cup (IF cause = "own" THEN {j} ELSE {})
      /\ doomed' = (rest \ stored) \cup (IF cause = "failed" THEN {j} ELSE {})
      /\ stopAt' = j /\ flight' = {} /\ call' = "failing"
      /\ UNCHANGED <<queue, got, verdict>>
  BY Zenon DEF Stop
<1> HIDE DEF rest, stored
<1>3. failing' \subseteq Line /\ doomed' \subseteq Line
  BY <1>1, <1>2 DEF CallTypeOK
<1> QED
  BY <1>2, <1>3 DEF CallTypeOK

\* Settled parts have an outcome.
LEMMA SettleType ==
  \A S, T \in SUBSET Line :
    outcome \in [Line -> Outcomes] /\ Settle(S, T) => outcome' \in [Line -> Outcomes]
  BY DEF Settle

\* fail() leaves a well-typed failure (SessionImpl.fail()).
LEMMA FailType ==
  \A at \in Index : \A own \in SUBSET Line :
    OutcomeTypeOK /\ Fail(at, own) =>
      /\ health' \in {"healthy", "failed"} /\ failAt' \in Index
      /\ ownOutcomes' \subseteq Line /\ admission' \in {"open", "sealed"}
  BY DEF Fail, OutcomeTypeOK, failed, failVars

\* An admitted part is registered and queued or sent (Writer.admit()).
LEMMA AdmitType ==
  ASSUME TypeOK, NEW j \in Line, NEW content \in [Keys -> Index], Admit(j, content)
  PROVE  CallTypeOK' /\ PartTypeOK' /\ outcome' \in [Line -> Outcomes]
<1> USE DEF TypeOK
<1>1. CallTypeOK'
  <2>1. CASE call = "idle" /\ failed
    BY <2>1 DEF Admit, callVars, CallTypeOK
  <2>2. CASE call = "idle" /\ ~failed
    BY <2>2, PumpType DEF Admit
  <2>3. CASE call # "idle"
    BY <2>3 DEF Admit, CallTypeOK
  <2> QED
    BY <2>1, <2>2, <2>3
<1>2. parts' \subseteq Line /\ carry' \in [Line -> [Keys -> Index]]
  BY DEF Admit, PartTypeOK
<1>3. unpublished' \in [Keys -> Index]
  <2>1. CASE call = "idle" /\ failed
    BY <2>1 DEF Admit, PartTypeOK
  <2>2. CASE ~(call = "idle" /\ failed)
    <3>1. unpublished' = [k \in Keys |-> IF content[k] # 0 THEN j ELSE unpublished[k]]
      BY <2>2 DEF Admit
    <3> QED
      BY <3>1 DEF PartTypeOK
  <2> QED
    BY <2>1, <2>2
<1>4. newest' \in {0, j} /\ open' \in {open, open \cup {j}}
  BY DEF Admit
<1>5. outcome' \in [Line -> Outcomes]
  BY DEF Admit, OutcomeTypeOK
<1> QED
  BY SMTT(30), <1>1, <1>2, <1>3, <1>4, <1>5 DEF PartTypeOK

\* A read notes its value and refreshes memory (SessionImpl.#loadDocument()).
LEMMA ReadKeyType ==
  ASSUME TypeOK, NEW k \in Keys, line # 0, ReadKey(k)
  PROVE  /\ seen' \in [Line -> [Keys -> Index]] /\ mem' \in [Keys -> Index]
         /\ todo' \subseteq Keys
<1> USE DEF TypeOK
<1>1. PICK v \in Index : /\ seen' = [seen EXCEPT ![line][k] = v]
                         /\ mem' = [mem EXCEPT ![k] = v]
                         /\ todo' = todo \ {k}
  BY DEF ReadKey, StateTypeOK
<1>2. line \in Line
  BY DEF LineTypeOK
<1>3. seen' \in [Line -> [Keys -> Index]]
  BY <1>1, <1>2 DEF LineTypeOK
<1>4. mem' \in [Keys -> Index] /\ todo' \subseteq Keys
  BY <1>1 DEF LineTypeOK, StateTypeOK
<1> QED
  BY <1>3, <1>4

\* What a job reads and writes are keys.
LEMMA ProgramReads ==
  ASSUME LineTypeOK, NEW j \in Line
  PROVE  prog[j].reads \subseteq Keys /\ prog[j].writes \subseteq Keys
<1>1. prog[j] \in Programs \cup {NoProgram, StoreHoldsJob, CloseJob}
  BY DEF LineTypeOK
<1>2. CASE prog[j] \in Programs
  BY <1>2 DEF Program
<1>3. CASE prog[j] \in {NoProgram, StoreHoldsJob, CloseJob}
  BY <1>3 DEF NoProgram, StoreHoldsJob, CloseJob
<1> QED
  BY <1>1, <1>2, <1>3

\* The initial state is well typed.
LEMMA InitType == Init => TypeOK
<1> SUFFICES ASSUME Init PROVE TypeOK
  OBVIOUS
<1>1. LineTypeOK
  BY DEF Init, LineTypeOK
<1>2. CallTypeOK /\ PartTypeOK
  BY DEF Init, CallTypeOK, PartTypeOK
<1>3. StateTypeOK
  BY DEF Init, StateTypeOK
<1>4. OutcomeTypeOK
  BY DEF Init, OutcomeTypeOK
<1> QED
  BY <1>1, <1>2, <1>3, <1>4 DEF TypeOK

\* A new job, its index and program (commitWith()).
LEMMA EnqueueType ==
  ASSUME TypeOK, NEW p \in Programs, Enqueue(p)
  PROVE  TypeOK'
<1> USE DEF TypeOK, failed, closing, rejected, lineVars, writerVars, callVars, gateVars,
            stateVars, deliveryVars, failVars
<1>1. prog' \in [Line -> Programs \cup {NoProgram, StoreHoldsJob, CloseJob}]
  BY DEF Enqueue, LineTypeOK
<1>2. LineTypeOK'
  BY <1>1 DEF Enqueue, LineTypeOK
<1>3. CallTypeOK' /\ PartTypeOK' /\ StateTypeOK' /\ OutcomeTypeOK'
  BY DEF Enqueue, CallTypeOK, PartTypeOK, StateTypeOK, OutcomeTypeOK
<1> QED
  BY <1>1, <1>2, <1>3

\* The hold timer puts its job on the line.
LEMMA TimerFiresType ==
  ASSUME TypeOK, TimerFires
  PROVE  TypeOK'
<1> USE DEF TypeOK, failed, closing, rejected, lineVars, writerVars, callVars, gateVars,
            stateVars, deliveryVars, failVars
<1>1. prog' \in [Line -> Programs \cup {NoProgram, StoreHoldsJob, CloseJob}]
  BY DEF TimerFires, LineTypeOK
<1>2. LineTypeOK'
  BY <1>1 DEF TimerFires, LineTypeOK
<1>3. CallTypeOK' /\ PartTypeOK' /\ StateTypeOK' /\ OutcomeTypeOK'
  BY DEF TimerFires, CallTypeOK, PartTypeOK, StateTypeOK, OutcomeTypeOK
<1> QED
  BY <1>1, <1>2, <1>3

\* The next job enters the line if there is room for its outcome.
LEMMA StartType ==
  ASSUME TypeOK, Start
  PROVE  TypeOK'
<1> USE DEF TypeOK, failed, closing, rejected, lineVars, writerVars, callVars, gateVars,
            stateVars, deliveryVars, failVars
<1>1. ran + 1 \in Line
  BY DEF Start, LineTypeOK
<1>2. todo' \subseteq Keys
  BY <1>1, ProgramReads DEF Start, Leave, LineTypeOK
<1>3. ran' \in Index /\ line' \in Index /\ waits' \in Index /\ reading' \subseteq Keys
  BY <1>1 DEF Start, Leave, LineTypeOK, PartTypeOK
<1>4. LineTypeOK'
  BY <1>2, <1>3 DEF Start, LineTypeOK
<1>5. CallTypeOK' /\ PartTypeOK' /\ StateTypeOK'
  BY DEF Start, CallTypeOK, PartTypeOK, StateTypeOK
<1>6. OutcomeTypeOK'
  BY DEF Start, OutcomeTypeOK
<1> QED
  BY <1>1, <1>2, <1>3, <1>4, <1>5, <1>6

\* A read of a key that is held or gated (touch()).
LEMMA TouchType ==
  ASSUME TypeOK, NEW k \in Keys, Touch(k)
  PROVE  TypeOK'
<1> USE DEF TypeOK, failed, closing, rejected, lineVars, writerVars, callVars, gateVars,
            stateVars, deliveryVars, failVars
<1>1. LineTypeOK'
  BY DEF Touch, LineTypeOK, PartTypeOK
<1>2. CallTypeOK' /\ PartTypeOK' /\ StateTypeOK' /\ OutcomeTypeOK'
  BY DEF Touch, CallTypeOK, PartTypeOK, StateTypeOK, OutcomeTypeOK
<1> QED
  BY <1>1, <1>2

\* A read of a key, from memory or Storage.
LEMMA ReadType ==
  ASSUME TypeOK, NEW k \in Keys, Read(k)
  PROVE  TypeOK'
<1> USE DEF TypeOK, failed, closing, rejected, lineVars, writerVars, callVars, gateVars,
            stateVars, deliveryVars, failVars
<1>1. /\ seen' \in [Line -> [Keys -> Index]] /\ mem' \in [Keys -> Index]
      /\ todo' \subseteq Keys
  BY ReadKeyType DEF Read
<1>2. LineTypeOK'
  BY <1>1 DEF Read, LineTypeOK
<1>3. StateTypeOK'
  BY <1>1 DEF Read, StateTypeOK
<1>4. CallTypeOK' /\ PartTypeOK' /\ OutcomeTypeOK'
  BY DEF Read, CallTypeOK, PartTypeOK, OutcomeTypeOK
<1> QED
  BY <1>1, <1>2, <1>3, <1>4

\* A gate opens and the read goes on.
LEMMA PassGateType ==
  ASSUME TypeOK, NEW k \in Keys, PassGate(k)
  PROVE  TypeOK'
<1> USE DEF TypeOK, failed, closing, rejected, lineVars, writerVars, callVars, gateVars,
            stateVars, deliveryVars, failVars
<1>1. /\ seen' \in [Line -> [Keys -> Index]] /\ mem' \in [Keys -> Index]
      /\ todo' \subseteq Keys
  BY ReadKeyType DEF PassGate, Leave, LineTypeOK, StateTypeOK
<1>2. /\ line' \in {line, 0} /\ ran' \in {ran, line} /\ reading' = {} /\ waits' = 0
      /\ UNCHANGED <<next, prog, hit>>
  BY DEF PassGate, Leave
<1>3. LineTypeOK'
  BY <1>1, <1>2 DEF LineTypeOK
<1>4. StateTypeOK'
  BY <1>1 DEF PassGate, StateTypeOK
<1>5. CallTypeOK' /\ PartTypeOK'
  BY DEF PassGate, CallTypeOK, PartTypeOK
<1>6. OutcomeTypeOK'
  BY DEF PassGate, OutcomeTypeOK
<1> QED
  BY <1>1, <1>2, <1>3, <1>4, <1>5, <1>6

\* A job on the line of a failed Session is refused.
LEMMA RefuseOnLineType ==
  ASSUME TypeOK, RefuseOnLine
  PROVE  TypeOK'
<1> USE DEF TypeOK, failed, closing, rejected, lineVars, writerVars, callVars, gateVars,
            stateVars, deliveryVars, failVars
<1>1. LineTypeOK'
  BY DEF RefuseOnLine, Leave, LineTypeOK
<1>2. CallTypeOK' /\ PartTypeOK' /\ StateTypeOK'
  BY DEF RefuseOnLine, CallTypeOK, PartTypeOK, StateTypeOK
<1>3. OutcomeTypeOK'
  BY DEF RefuseOnLine, OutcomeTypeOK
<1> QED
  BY <1>1, <1>2, <1>3

\* A callback throws.
LEMMA ThrowType ==
  ASSUME TypeOK, Throw
  PROVE  TypeOK'
<1> USE DEF TypeOK, failed, closing, rejected, lineVars, writerVars, callVars, gateVars,
            stateVars, deliveryVars, failVars
<1>1. LineTypeOK'
  BY DEF Throw, Leave, LineTypeOK
<1>2. CallTypeOK' /\ PartTypeOK' /\ StateTypeOK'
  BY DEF Throw, CallTypeOK, PartTypeOK, StateTypeOK
<1>3. OutcomeTypeOK'
  BY DEF Throw, OutcomeTypeOK
<1> QED
  BY <1>1, <1>2, <1>3

\* A Storage read fails the Session.
LEMMA ReadFailsType ==
  ASSUME TypeOK, ReadFails
  PROVE  TypeOK'
<1> USE DEF TypeOK, failed, closing, rejected, lineVars, writerVars, callVars, gateVars,
            stateVars, deliveryVars, failVars
<1>1. LineTypeOK'
  BY DEF ReadFails, Leave, LineTypeOK
<1>2. CallTypeOK' /\ PartTypeOK' /\ StateTypeOK'
  BY DEF ReadFails, CallTypeOK, PartTypeOK, StateTypeOK
<1>3. /\ health' \in {"healthy", "failed"} /\ failAt' \in Index
      /\ ownOutcomes' \subseteq Line /\ admission' \in {"open", "sealed"}
  BY FailType DEF ReadFails, LineTypeOK
<1>4. OutcomeTypeOK'
  BY <1>3 DEF ReadFails, OutcomeTypeOK, LineTypeOK
<1> QED
  BY <1>1, <1>2, <1>3, <1>4

\* A callback returns: admission or an outcome at once.
LEMMA ReturnType ==
  ASSUME TypeOK, Return
  PROVE  TypeOK'
<1> USE DEF TypeOK, failed, closing, rejected, lineVars, writerVars, callVars, gateVars,
            stateVars, deliveryVars, failVars
<1>1. line \in Line
  BY DEF Return, LineTypeOK
<1>2. Content(line) \in [Keys -> Index]
  BY <1>1 DEF Content, StateTypeOK
<1>3. CallTypeOK' /\ PartTypeOK' /\ outcome' \in [Line -> Outcomes]
  BY <1>1, <1>2, AdmitType DEF Return, CallTypeOK, PartTypeOK, OutcomeTypeOK
<1>4. LineTypeOK'
  BY DEF Return, Leave, LineTypeOK
<1>5. StateTypeOK'
  BY DEF Return, StateTypeOK
<1>6. OutcomeTypeOK'
  BY <1>3 DEF Return, OutcomeTypeOK
<1> QED
  BY <1>1, <1>2, <1>3, <1>4, <1>5, <1>6

\* Upkeep on the line admits the held changes.
LEMMA StoreHoldsType ==
  ASSUME TypeOK, StoreHolds
  PROVE  TypeOK'
<1> USE DEF TypeOK, failed, closing, rejected, lineVars, writerVars, callVars, gateVars,
            stateVars, deliveryVars, failVars
<1>1. line \in Line
  BY DEF StoreHolds, LineTypeOK
<1>2. HeldContent \in [Keys -> Index]
  BY DEF HeldContent, StateTypeOK
<1>3. CallTypeOK' /\ PartTypeOK' /\ outcome' \in [Line -> Outcomes]
  BY <1>1, <1>2, AdmitType DEF StoreHolds, CallTypeOK, PartTypeOK, OutcomeTypeOK
<1>4. LineTypeOK'
  BY DEF StoreHolds, CloseStorage, Leave, LineTypeOK
<1>5. StateTypeOK'
  BY DEF StoreHolds, StateTypeOK
<1>6. OutcomeTypeOK'
  BY <1>3 DEF StoreHolds, CloseStorage, OutcomeTypeOK
<1> QED
  BY <1>1, <1>2, <1>3, <1>4, <1>5, <1>6

\* Upkeep leaves the line, or closes the backend.
LEMMA StoredHoldsType ==
  ASSUME TypeOK, StoredHolds
  PROVE  TypeOK'
<1> USE DEF TypeOK, failed, closing, rejected, lineVars, writerVars, callVars, gateVars,
            stateVars, deliveryVars, failVars
<1>1. LineTypeOK'
  BY DEF StoredHolds, CloseStorage, Leave, LineTypeOK
<1>2. CallTypeOK' /\ PartTypeOK' /\ StateTypeOK'
  BY DEF StoredHolds, CallTypeOK, PartTypeOK, StateTypeOK
<1>3. OutcomeTypeOK'
  BY DEF StoredHolds, CloseStorage, OutcomeTypeOK
<1> QED
  BY <1>1, <1>2, <1>3

\* The seal of a close.
LEMMA CloseType ==
  ASSUME TypeOK, Close
  PROVE  TypeOK'
<1> USE DEF TypeOK, failed, closing, rejected, lineVars, writerVars, callVars, gateVars,
            stateVars, deliveryVars, failVars
<1>1. LineTypeOK' /\ CallTypeOK' /\ PartTypeOK'
  BY DEF Close, LineTypeOK, CallTypeOK, PartTypeOK
<1>2. StateTypeOK' /\ OutcomeTypeOK'
  BY DEF Close, StateTypeOK, OutcomeTypeOK
<1> QED
  BY <1>1, <1>2

\* The close job joins the line.
LEMMA QueueCloseType ==
  ASSUME TypeOK, QueueClose
  PROVE  TypeOK'
<1> USE DEF TypeOK, failed, closing, rejected, lineVars, writerVars, callVars, gateVars,
            stateVars, deliveryVars, failVars
<1>1. prog' \in [Line -> Programs \cup {NoProgram, StoreHoldsJob, CloseJob}]
  BY DEF QueueClose, LineTypeOK
<1>2. LineTypeOK'
  BY <1>1 DEF QueueClose, LineTypeOK
<1>3. CallTypeOK' /\ PartTypeOK' /\ StateTypeOK' /\ OutcomeTypeOK'
  BY DEF QueueClose, CallTypeOK, PartTypeOK, StateTypeOK, OutcomeTypeOK
<1> QED
  BY <1>1, <1>2, <1>3

\* A failure from outside the line and the writer.
LEMMA FailElsewhereType ==
  ASSUME TypeOK, FailElsewhere
  PROVE  TypeOK'
<1> USE DEF TypeOK, failed, closing, rejected, lineVars, writerVars, callVars, gateVars,
            stateVars, deliveryVars, failVars
<1>1. LineTypeOK' /\ CallTypeOK' /\ PartTypeOK' /\ StateTypeOK'
  BY DEF FailElsewhere, LineTypeOK, CallTypeOK, PartTypeOK, StateTypeOK
<1>2. /\ health' \in {"healthy", "failed"} /\ failAt' \in Index
      /\ ownOutcomes' \subseteq Line /\ admission' \in {"open", "sealed"}
  BY FailType DEF FailElsewhere, LineTypeOK, OutcomeTypeOK
<1>3. OutcomeTypeOK'
  BY <1>2 DEF FailElsewhere, OutcomeTypeOK
<1> QED
  BY <1>1, <1>2, <1>3

\* Storage settles the call in flight.
LEMMA StorageCommitType ==
  ASSUME TypeOK, StorageCommit
  PROVE  TypeOK'
<1> USE DEF TypeOK, failed, closing, rejected, lineVars, writerVars, callVars, gateVars,
            stateVars, deliveryVars, failVars
<1>1. LineTypeOK' /\ PartTypeOK' /\ OutcomeTypeOK'
  BY DEF StorageCommit, LineTypeOK, PartTypeOK, OutcomeTypeOK
<1>2. CallTypeOK'
  BY DEF StorageCommit, Prefixes, CallTypeOK
<1>3. StateTypeOK'
  BY DEF StorageCommit, Prefixes, Stored, StateTypeOK, CallTypeOK
<1> QED
  BY <1>1, <1>2, <1>3

\* The writer sees the end of the storage call.
LEMMA AfterCommitType ==
  ASSUME TypeOK, AfterCommit
  PROVE  TypeOK'
<1> USE DEF TypeOK, failed, closing, rejected, lineVars, writerVars, callVars, gateVars,
            stateVars, deliveryVars, failVars
<1>1. flight \cup queue \in SUBSET Line
  BY DEF CallTypeOK
<1>2. CallTypeOK'
  BY PumpType DEF AfterCommit, CallTypeOK
<1>3. PartTypeOK'
  BY <1>1, OpenType DEF AfterCommit, PartTypeOK
<1>4. OutcomeTypeOK'
  BY <1>1, SettleType DEF AfterCommit, OutcomeTypeOK
<1>5. LineTypeOK' /\ StateTypeOK'
  BY DEF AfterCommit, LineTypeOK, StateTypeOK
<1> QED
  BY <1>1, <1>2, <1>3, <1>4, <1>5

\* One turn of the publication loop.
LEMMA PublishType ==
  ASSUME TypeOK, Publish
  PROVE  TypeOK'
<1> USE DEF TypeOK, failed, closing, rejected, lineVars, writerVars, callVars, gateVars,
            stateVars, deliveryVars, failVars
<1>1. PICK j \in First(flight) : NoReceipt(j) \/ FailedMeanwhile(j) \/ Published(j) \/ NotAdopted(j)
  BY DEF Publish
<1>2. j \in Line
  BY DEF First, CallTypeOK
<1>3. CallTypeOK'
  BY <1>1, <1>2, StopType DEF NoReceipt, FailedMeanwhile, Published, NotAdopted, CallTypeOK
<1>4. UNCHANGED unpublished \/ Unregister(j)
  BY <1>1 DEF NoReceipt, FailedMeanwhile, Published, NotAdopted
<1>5. PartTypeOK'
  BY <1>4 DEF Publish, Unregister, PartTypeOK
<1>6. UNCHANGED <<published, mem, holds>> \/ Adopt(j)
  BY <1>1 DEF NoReceipt, FailedMeanwhile, Published, NotAdopted
<1>7. \/ mem' = mem /\ published' = published
      \/ /\ mem' = [k \in Keys |-> IF carry[j][k] # 0 THEN carry[j][k] ELSE mem[k]]
         /\ published' = published \cup {j}
  BY <1>6 DEF Adopt
<1>8. published' \subseteq Line /\ mem' \in [Keys -> Index]
  <2>1. \A k \in Keys : carry[j][k] \in Index /\ mem[k] \in Index
    BY <1>2 DEF StateTypeOK, PartTypeOK
  <2> QED
    BY <1>2, <1>7, <2>1 DEF StateTypeOK
<1>9. holds' \subseteq Keys
  BY <1>6 DEF Adopt, KeysOf, StateTypeOK
<1>10. StateTypeOK'
  BY <1>8, <1>9 DEF Publish, StateTypeOK
<1>11. LineTypeOK' /\ OutcomeTypeOK'
  BY DEF Publish, LineTypeOK, OutcomeTypeOK
<1> QED
  BY <1>1, <1>2, <1>3, <1>4, <1>5, <1>6, <1>7, <1>8, <1>9, <1>10, <1>11

\* A published part settles.
LEMMA SettlePartType ==
  ASSUME TypeOK, NEW threw \in BOOLEAN, SettlePart(threw)
  PROVE  TypeOK'
<1> USE DEF TypeOK, failed, closing, rejected, lineVars, writerVars, callVars, gateVars,
            stateVars, deliveryVars, failVars
<1>1. PICK j \in First(flight) : AwaitFailure(j) \/ Resolve(j, threw)
  BY DEF SettlePart
<1>2. j \in Line
  BY DEF First, CallTypeOK
<1>3. CallTypeOK'
  BY <1>1, <1>2, StopType DEF AwaitFailure, Resolve, CallTypeOK
<1>4. newest' \in {newest, 0} /\ open' \in {open, open \cup {j}}
  BY <1>1 DEF AwaitFailure, Resolve
<1>5. PartTypeOK'
  BY <1>2, <1>4 DEF SettlePart, PartTypeOK
<1>6. outcome' \in [Line -> Outcomes]
  BY <1>1, <1>2 DEF AwaitFailure, Resolve, OutcomeTypeOK
<1>7. OutcomeTypeOK'
  BY <1>6 DEF SettlePart, OutcomeTypeOK
<1>8. LineTypeOK' /\ StateTypeOK'
  BY DEF SettlePart, LineTypeOK, StateTypeOK
<1> QED
  BY <1>1, <1>2, <1>3, <1>4, <1>5, <1>6, <1>7, <1>8

\* The call ends and the writer goes on.
LEMMA EndCallType ==
  ASSUME TypeOK, EndCall
  PROVE  TypeOK'
<1> USE DEF TypeOK, failed, closing, rejected, lineVars, writerVars, callVars, gateVars,
            stateVars, deliveryVars, failVars
<1>1. queue \in SUBSET Line /\ {} \in SUBSET Line
  BY DEF CallTypeOK
<1>2. CallTypeOK'
  BY <1>1, PumpType DEF EndCall
<1>3. PartTypeOK'
  BY <1>1, OpenType DEF EndCall, PartTypeOK
<1>4. OutcomeTypeOK'
  BY <1>1, SettleType DEF EndCall, OutcomeTypeOK
<1>5. LineTypeOK' /\ StateTypeOK'
  BY DEF EndCall, LineTypeOK, StateTypeOK
<1> QED
  BY <1>1, <1>2, <1>3, <1>4, <1>5

\* The call fails the Session.
LEMMA FailCallType ==
  ASSUME TypeOK, FailCall
  PROVE  TypeOK'
<1> USE DEF TypeOK, failed, closing, rejected, lineVars, writerVars, callVars, gateVars,
            stateVars, deliveryVars, failVars
<1>1. /\ failing \in SUBSET Line /\ {} \in SUBSET Line /\ doomed \cup queue \in SUBSET Line
      /\ failing \cup doomed \cup queue \in SUBSET Line
  BY DEF CallTypeOK
<1>2. PICK at \in IF rejected /\ failing # {} THEN First(failing) ELSE {stopAt} : Fail(at, failing)
  BY DEF FailCall
<1>3. at \in Index
  BY <1>2 DEF First, CallTypeOK
<1>4. CallTypeOK'
  BY <1>1, PumpType DEF FailCall
<1>5. PartTypeOK'
  BY <1>1, OpenType DEF FailCall
<1>6. outcome' \in [Line -> Outcomes]
  BY <1>1, SettleType DEF FailCall, OutcomeTypeOK
<1>7. /\ health' \in {"healthy", "failed"} /\ failAt' \in Index
      /\ ownOutcomes' \subseteq Line /\ admission' \in {"open", "sealed"}
  BY <1>1, <1>2, <1>3, FailType
<1>8. OutcomeTypeOK'
  BY <1>6, <1>7 DEF FailCall, OutcomeTypeOK
<1>9. LineTypeOK' /\ StateTypeOK'
  BY DEF FailCall, LineTypeOK, StateTypeOK
<1> QED
  BY <1>1, <1>2, <1>3, <1>4, <1>5, <1>6, <1>7, <1>8, <1>9

\* An outcome reaches its caller.
LEMMA DeliverType ==
  ASSUME TypeOK, NEW j \in Line, Deliver(j)
  PROVE  TypeOK'
<1> USE DEF TypeOK, failed, closing, rejected, lineVars, writerVars, callVars, gateVars,
            stateVars, deliveryVars, failVars
<1>1. LineTypeOK' /\ CallTypeOK' /\ PartTypeOK' /\ StateTypeOK'
  BY DEF Deliver, LineTypeOK, CallTypeOK, PartTypeOK, StateTypeOK
<1>2. delivered' \in [Line -> Outcomes]
  BY DEF Deliver, OutcomeTypeOK
<1>3. OutcomeTypeOK'
  BY <1>2 DEF Deliver, OutcomeTypeOK
<1> QED
  BY <1>1, <1>2, <1>3

\* A step that changes nothing keeps the types.
LEMMA StutterType == TypeOK /\ UNCHANGED vars => TypeOK'
<1> SUFFICES ASSUME TypeOK, UNCHANGED vars PROVE TypeOK'
  OBVIOUS
<1> USE DEF TypeOK, vars, lineVars, writerVars, callVars, gateVars, stateVars, deliveryVars,
            failVars
<1>1. LineTypeOK' /\ CallTypeOK' /\ PartTypeOK'
  BY DEF LineTypeOK, CallTypeOK, PartTypeOK
<1>2. StateTypeOK' /\ OutcomeTypeOK'
  BY DEF StateTypeOK, OutcomeTypeOK
<1> QED
  BY <1>1, <1>2

\* A closed Session does nothing more.
LEMMA EndedType == TypeOK /\ Ended => TypeOK'
  BY StutterType DEF Ended

\* Every step keeps the types.
LEMMA TypeStep == TypeOK /\ [Next]_vars => TypeOK'
<1> SUFFICES ASSUME TypeOK, [Next]_vars PROVE TypeOK'
  OBVIOUS
<1>1. CASE Next
  <2>1. CASE OnLine
    BY <2>1, StartType, RefuseOnLineType, ReturnType, StoreHoldsType, StoredHoldsType,
       TouchType, ReadType, PassGateType DEF OnLine
  <2>2. CASE Writing
    BY <2>2, StorageCommitType, AfterCommitType, PublishType, EndCallType, FailCallType,
       SettlePartType DEF Writing
  <2> QED
    BY <1>1, <2>1, <2>2, EnqueueType, TimerFiresType, ThrowType, ReadFailsType, CloseType,
       QueueCloseType, FailElsewhereType, DeliverType, EndedType
       DEF Next
<1>2. CASE UNCHANGED vars
  BY <1>2, StutterType
<1> QED
  BY <1>1, <1>2

\* Type correctness: whatever jobs run, however storage and close fail, every
\* variable of the Session and its writer keeps its type.
THEOREM TypeCorrect == Spec => []TypeOK
  BY InitType, TypeStep, PTL DEF Spec


HIDE DEF Line, Index, Outcomes

-----------------------------------------------------------------------------
(* What each part of the invariant depends on                               *)

\* The variables LineInv depends on.
LEMMA LineFrame ==
  LineInv /\ UNCHANGED <<next, prog, line, ran, todo, reading, parts, outcome, delivered>>
  => LineInv'
  BY DEF LineInv, Client

\* The variables PartInv depends on; upkeep may drop its own outcomes.
LEMMA PartFrame ==
  /\ PartInv
  /\ ownOutcomes' \in {ownOutcomes, {}}
  /\ UNCHANGED <<prog, line, ran, waits, parts, open, queue, flight, failing, doomed, outcome>>
  => PartInv'
  BY DEF PartInv, Unsettled, Client

\* The variables CallInv depends on; a failure from elsewhere keeps it.
LEMMA CallFrame ==
  /\ CallInv
  /\ health' \in {health, "failed"}
  /\ UNCHANGED <<prog, hit, parts, open, queue, flight, call, got, verdict, failing, doomed,
                 stopAt, durable, published, delivered>>
  => CallInv'
  BY DEF CallInv, Unsettled, Undelivered, Fenced, Client, First, rejected, failed

\* The variables FenceInv depends on.
LEMMA FenceFrame ==
  /\ FenceInv
  /\ UNCHANGED <<prog, hit, parts, queue, flight, failing, doomed, delivered, lastDelivered>>
  => FenceInv'
  BY DEF FenceInv, Unsettled, Undelivered, Fenced, Client

\* The variables FailureBoundary depends on.
LEMMA BoundaryFrame ==
  FailureBoundary /\ UNCHANGED <<prog, hit, parts, delivered, failAt>> => FailureBoundary'
  BY DEF FailureBoundary, Fenced, Client

\* The variables PublishedInOrder depends on.
LEMMA OrderFrame ==
  PublishedInOrder /\ UNCHANGED <<prog, parts, published, durable>> => PublishedInOrder'
  BY DEF PublishedInOrder, Held

-----------------------------------------------------------------------------
(* The line                                                                 *)

\* A client on the line has no part, no outcome and nothing delivered, and
\* neither has a later job.
LEMMA NotYet ==
  ASSUME IInv
  PROVE  /\ \A j \in Line : j > ran /\ (Client(j) \/ j # line) =>
               outcome[j] = "none" /\ delivered[j] = "none" /\ j \notin parts
         /\ line # 0 => line \in Line /\ line = ran + 1
<1> USE DEF IInv, TypeOK, Line, Index
<1>1. \A j \in Line : j > ran /\ (Client(j) \/ j # line) => outcome[j] = "none" /\ j \notin parts
  BY ONLY IInv DEF IInv, TypeOK, Line, Index, LineInv, PartInv, LineTypeOK
<1>2. \A j \in Line : delivered[j] # "none" => outcome[j] # "none"
  BY DEF LineInv
<1>3. line # 0 => line \in Line /\ line = ran + 1
  BY LineAssumption DEF LineInv, LineTypeOK
<1> QED
  BY <1>1, <1>2, <1>3

\* A job that joins the line (#enqueue(), #maintain()) disturbs nothing.
LEMMA NewJobInv ==
  ASSUME IInv, NEW p, next + 1 \in Line,
         next' = next + 1, prog' = [prog EXCEPT ![next + 1] = p],
         UNCHANGED <<line, ran, todo, reading, waits, hit, seen, writerVars, stateVars,
                     outcome, deliveryVars, failVars, closed>>
  PROVE  LineInv' /\ PartInv' /\ CallInv' /\ FenceInv' /\ FailureBoundary' /\ PublishedInOrder'
<1> USE DEF IInv, TypeOK, writerVars, callVars, gateVars, stateVars, deliveryVars, failVars
<1>1. /\ outcome[next + 1] = "none" /\ delivered[next + 1] = "none" /\ next + 1 \notin parts
      /\ ran < next + 1 /\ line # next + 1
  BY NotYet DEF LineInv, LineTypeOK, Line, Index
<1>2. \A j \in Line : j # next + 1 => prog'[j] = prog[j]
  BY DEF LineTypeOK
<1>3. parts \subseteq Line /\ queue \subseteq Line /\ flight \subseteq Line /\ failing \subseteq Line
      /\ doomed \subseteq Line /\ published \subseteq parts /\ Unsettled \subseteq parts
  BY DEF PartTypeOK, CallTypeOK, CallInv, PartInv
<1>4. \A j \in Line : j # next + 1 => (Client(j)' <=> Client(j)) /\ (Fenced(j)' <=> Fenced(j))
                                      /\ (Held(j)' <=> Held(j))
  BY <1>2 DEF Client, Fenced, Held
<1>5. LineInv'
  BY <1>1, <1>2, <1>4 DEF LineInv, LineTypeOK, Line, Index
<1>6. PartInv'
  BY <1>1, <1>3, <1>4 DEF PartInv, Unsettled
<1>7. \A p1 \in Line : Undelivered(p1) => Undelivered(p1)'
  BY <1>1, <1>4 DEF Undelivered
<1>8. CallInv'
  BY <1>3, <1>7 DEF CallInv, Unsettled, First, rejected, failed
<1>9. FenceInv'
  <2>1. \A p1 \in Unsettled : Undelivered(p1)'
    BY <1>3, <1>7 DEF FenceInv
  <2>2. \A i, j \in Line : i < j /\ Client(i)' /\ Fenced(i)' /\ Client(j)' /\ Fenced(j)'
                           /\ delivered'[j] # "none" => delivered'[i] # "none"
    <3> SUFFICES ASSUME NEW i \in Line, NEW j \in Line, i < j, Client(i)', Fenced(i)',
                        Client(j)', Fenced(j)', delivered[j] # "none"
                 PROVE  delivered[i] # "none"
      OBVIOUS
    <3>1. j # next + 1 /\ i # next + 1
      BY <1>1 DEF LineInv, LineTypeOK, Line, Index
    <3> QED
      BY <3>1, <1>4 DEF FenceInv
  <2>3. \A j \in Line : Client(j)' /\ Fenced(j)' /\ delivered'[j] # "none" => j <= lastDelivered'
    BY <1>1, <1>4 DEF FenceInv
  <2> QED
    BY <2>1, <2>2, <2>3 DEF FenceInv, Unsettled
<1>10. FailureBoundary' /\ PublishedInOrder'
  BY <1>1, <1>3, <1>4 DEF FailureBoundary, PublishedInOrder
<1> QED
  BY <1>5, <1>6, <1>8, <1>9, <1>10

\* The next job enters the line.
LEMMA StartInv ==
  ASSUME IInv, Start
  PROVE  LineInv' /\ PartInv' /\ CallInv' /\ FenceInv' /\ FailureBoundary' /\ PublishedInOrder'
<1> USE DEF IInv, TypeOK, writerVars, callVars, gateVars, stateVars, deliveryVars, failVars
<1>1. CallInv' /\ FenceInv' /\ FailureBoundary' /\ PublishedInOrder'
  BY CallFrame, FenceFrame, BoundaryFrame, OrderFrame DEF Start
<1>2. ran + 1 \in Line /\ ran + 1 <= next /\ line = 0
  <2>1. line = 0 /\ ran < next
    BY DEF Start
  <2> QED
    BY <2>1, LineAssumption DEF LineTypeOK, Line, Index
<1>3. \/ line' = ran + 1 /\ ran' = ran
      \/ line' = 0 /\ ran' = ran + 1 /\ todo' = {} /\ reading' = {}
  BY <1>2 DEF Start, Leave
<1>4. todo' # {} \/ reading' # {} => line' # 0 /\ Client(line')
  <2>1. todo = {} /\ reading = {}
    BY <1>2 DEF LineInv
  <2> QED
    BY <1>2, <2>1 DEF Start, Leave, Line
<1>5. LineInv'
  BY <1>2, <1>3, <1>4 DEF Start, LineInv, LineTypeOK, Client, Line, Index
<1>6. PartInv'
  BY <1>2, <1>3 DEF Start, PartInv, Unsettled, LineTypeOK, PartTypeOK, CallTypeOK, Client, Line, Index
<1> QED
  BY <1>1, <1>5, <1>6

\* A job that waits at a gate loses its exemption before it has an outcome.
LEMMA TouchInv ==
  ASSUME IInv, NEW k \in Keys, Touch(k)
  PROVE  LineInv' /\ PartInv' /\ CallInv' /\ FenceInv' /\ FailureBoundary' /\ PublishedInOrder'
<1> USE DEF IInv, TypeOK, writerVars, callVars, gateVars, stateVars, deliveryVars, failVars
<1>1. line \in Line /\ line = ran + 1 /\ Client(line) /\ PublishedInOrder'
  BY NotYet, OrderFrame DEF Touch, LineInv
<1>2. \A j \in Line : j >= line => delivered[j] = "none" /\ j \notin parts
  BY <1>1, NotYet DEF LineTypeOK, Line, Index
<1>3. LineInv'
  BY <1>1 DEF Touch, LineInv, Client
<1>4. PartInv'
  BY <1>1, <1>2 DEF Touch, PartInv, Unsettled, Client
<1>5. \A j \in Line : j # line => (Fenced(j)' <=> Fenced(j)) /\ (Client(j)' <=> Client(j))
  BY DEF Touch, Fenced, Client
<1>6. \A p \in Line : Undelivered(p) => Undelivered(p)'
  BY <1>1, <1>2, <1>5 DEF Touch, Undelivered
<1>7. CallInv'
  BY <1>6 DEF Touch, CallInv, Unsettled, First, rejected, failed, PartTypeOK
<1>8. FenceInv'
  <2>1. \A p \in Unsettled : Undelivered(p)'
    BY <1>6 DEF FenceInv, PartInv, PartTypeOK
  <2>2. \A i, j \in Line : i < j /\ Client(i)' /\ Fenced(i)' /\ Client(j)' /\ Fenced(j)'
                           /\ delivered'[j] # "none" => delivered'[i] # "none"
    BY <1>1, <1>2, <1>5 DEF Touch, FenceInv, LineTypeOK, Line, Index
  <2>3. \A j \in Line : Client(j)' /\ Fenced(j)' /\ delivered'[j] # "none" => j <= lastDelivered'
    BY <1>1, <1>2, <1>5 DEF Touch, FenceInv
  <2> QED
    BY <2>1, <2>2, <2>3 DEF Touch, FenceInv, Unsettled
<1>9. FailureBoundary'
  BY <1>1, <1>2, <1>5 DEF Touch, FailureBoundary
<1> QED
  BY <1>1, <1>3, <1>4, <1>7, <1>8, <1>9

\* A failure at `at` keeps the boundary when nothing after `at` was delivered.
LEMMA FailKeepsBoundary ==
  ASSUME IInv, NEW at \in Index, NEW own, Fail(at, own), Undelivered(at),
         UNCHANGED <<prog, hit, parts, delivered>>
  PROVE  FailureBoundary'
  BY DEF IInv, TypeOK, Fail, failVars, FailureBoundary, Undelivered, Fenced, Client, Line, Index

\* Nothing after the job on the line, nor after the last outcome, was delivered.
LEMMA NothingLater ==
  ASSUME IInv
  PROVE  (line # 0 => Undelivered(line)) /\ Undelivered(lastDelivered)
<1> USE DEF IInv, TypeOK
<1>1. line # 0 => Undelivered(line)
  BY NotYet DEF Undelivered, LineTypeOK, Line, Index
<1>2. Undelivered(lastDelivered)
  BY DEF FenceInv, Undelivered, OutcomeTypeOK, Line, Index
<1> QED
  BY <1>1, <1>2

\* A client's job leaves the line with an outcome and without a part.
LEMMA LeaveInv ==
  ASSUME IInv, line # 0, Client(line), NEW o, outcome' = [outcome EXCEPT ![line] = o],
         Leave(line), ownOutcomes' \in {ownOutcomes, {}}, health' \in {health, "failed"},
         UNCHANGED <<next, prog, hit, writerVars, durable, published, delivered, lastDelivered>>
  PROVE  LineInv' /\ PartInv' /\ CallInv' /\ FenceInv' /\ PublishedInOrder'
<1> USE DEF IInv, TypeOK, writerVars, callVars, gateVars
<1>1. CallInv' /\ FenceInv' /\ PublishedInOrder'
  BY CallFrame, FenceFrame, OrderFrame
<1>2. line \in Line /\ line = ran + 1 /\ line \notin parts /\ delivered[line] = "none"
  BY NotYet DEF LineTypeOK, Index
<1>3. /\ line' = 0 /\ ran' = line /\ todo' = {} /\ reading' = {} /\ waits' = 0
      /\ \A j \in Line : j # line => outcome'[j] = outcome[j]
      /\ \A j \in Line : Client(j)' <=> Client(j)
  BY DEF Leave, OutcomeTypeOK, Client
<1>4. LineInv'
  <2>1. \A j \in Line : outcome'[j] # "none" => j <= ran'
    BY <1>2, <1>3 DEF LineInv, LineTypeOK, Line, Index
  <2>2. \A j \in Line : delivered'[j] # "none" => outcome'[j] # "none"
    BY <1>2, <1>3 DEF LineInv
  <2> QED
    BY <1>2, <1>3, <2>1, <2>2 DEF LineInv
<1>5. PartInv'
  <2>1. \A j \in parts : j <= ran' /\ j # line /\ j \in Line
    BY <1>2, <1>3 DEF PartInv, PartTypeOK, LineTypeOK, Line, Index
  <2>2. \A j \in Unsettled : outcome'[j] = "none" /\ Client(j)'
    BY <1>3, <2>1 DEF PartInv
  <2>3. \A j \in ownOutcomes' : outcome'[j] # "value" /\ j \in open
    BY <1>3, <2>1 DEF PartInv
  <2> QED
    BY <1>3, <2>1, <2>2, <2>3 DEF PartInv, Unsettled, PartTypeOK, Line
<1> QED
  BY <1>1, <1>4, <1>5

\* Reads, refusals and throws on the line.
LEMMA ReadInv ==
  ASSUME IInv, NEW k \in Keys, Read(k)
  PROVE  LineInv' /\ PartInv' /\ CallInv' /\ FenceInv' /\ FailureBoundary' /\ PublishedInOrder'
<1> USE DEF IInv, writerVars, callVars, gateVars, deliveryVars, failVars
<1>1. PartInv' /\ CallInv' /\ FenceInv' /\ FailureBoundary' /\ PublishedInOrder'
  BY PartFrame, CallFrame, FenceFrame, BoundaryFrame, OrderFrame DEF Read
<1>2. LineInv'
  BY DEF Read, ReadKey, LineInv, Client
<1> QED
  BY <1>1, <1>2

\* A gate opens: only where the job waits changes.
LEMMA PassGateInv ==
  ASSUME IInv, NEW k \in Keys, PassGate(k)
  PROVE  LineInv' /\ PartInv' /\ CallInv' /\ FenceInv' /\ FailureBoundary' /\ PublishedInOrder'
<1> USE DEF IInv, TypeOK, writerVars, callVars, gateVars, deliveryVars, failVars
<1>1. Client(line) /\ line # 0
  BY DEF PassGate, LineInv
<1>2. FailureBoundary'
  BY BoundaryFrame DEF PassGate
<1>3. CASE failed
  BY <1>1, <1>2, <1>3, LeaveInv DEF PassGate
<1>4. CASE ~failed
  <2>1. CallInv' /\ FenceInv' /\ PublishedInOrder'
    BY <1>4, CallFrame, FenceFrame, OrderFrame DEF PassGate
  <2>2. LineInv'
    BY <1>4 DEF PassGate, ReadKey, LineInv, Client
  <2>3. line \notin parts
    BY <1>1, NotYet DEF LineTypeOK, Index
  <2>4. PartInv'
    BY <1>4, <2>3 DEF PassGate, PartInv, Unsettled, Client
  <2> QED
    BY <1>2, <2>1, <2>2, <2>4
<1> QED
  BY <1>3, <1>4

\* A refused job leaves the line with a rejection.
LEMMA RefuseOnLineInv ==
  ASSUME IInv, RefuseOnLine
  PROVE  LineInv' /\ PartInv' /\ CallInv' /\ FenceInv' /\ FailureBoundary' /\ PublishedInOrder'
<1> USE DEF IInv, writerVars, callVars, gateVars, stateVars, deliveryVars, failVars
<1>1. FailureBoundary'
  BY BoundaryFrame DEF RefuseOnLine
<1> QED
  BY <1>1, LeaveInv DEF RefuseOnLine

\* A job whose callback throws leaves the line with a rejection.
LEMMA ThrowInv ==
  ASSUME IInv, Throw
  PROVE  LineInv' /\ PartInv' /\ CallInv' /\ FenceInv' /\ FailureBoundary' /\ PublishedInOrder'
<1> USE DEF IInv, writerVars, callVars, gateVars, stateVars, deliveryVars, failVars
<1>1. FailureBoundary'
  BY BoundaryFrame DEF Throw
<1> QED
  BY <1>1, LeaveInv DEF Throw

\* A read that fails the Session: the boundary is the job on the line.
LEMMA ReadFailsInv ==
  ASSUME IInv, ReadFails
  PROVE  LineInv' /\ PartInv' /\ CallInv' /\ FenceInv' /\ FailureBoundary' /\ PublishedInOrder'
<1> USE DEF IInv, TypeOK, writerVars, callVars, gateVars, stateVars, deliveryVars
<1>1. Client(line) /\ line # 0 /\ line \in Index
  BY DEF ReadFails, LineInv, LineTypeOK
<1>2. FailureBoundary'
  BY <1>1, NothingLater, FailKeepsBoundary DEF ReadFails
<1>3. ownOutcomes' = {} /\ health' = "failed"
  BY DEF ReadFails, Fail
<1> QED
  BY <1>1, <1>2, <1>3, LeaveInv DEF ReadFails

-----------------------------------------------------------------------------
(* Admission                                                                *)

\* The new part is the newest: nothing after it was delivered, and its job is
\* fenced from now on.
LEMMA AdmitFence ==
  ASSUME IInv, NEW l \in Line, line = l, l \notin parts, parts' = parts \cup {l},
         UNCHANGED <<prog, hit, delivered, lastDelivered>>
  PROVE  /\ \A p \in Line : Undelivered(p) => Undelivered(p)'
         /\ Undelivered(l)'
         /\ \A i, j \in Line : i < j /\ Client(i)' /\ Fenced(i)' /\ Client(j)' /\ Fenced(j)'
                               /\ delivered'[j] # "none" => delivered'[i] # "none"
         /\ \A j \in Line : Client(j)' /\ Fenced(j)' /\ delivered'[j] # "none" => j <= lastDelivered'
<1> USE DEF IInv, TypeOK
<1>1. l = ran + 1
  BY NotYet DEF Line
<1>2. \A j \in Line : j >= l /\ Client(j) => delivered[j] = "none"
  BY <1>1, NotYet DEF LineTypeOK, Line, Index
<1>3. \A j \in Line : /\ Client(j)' <=> Client(j)
                      /\ j # l => (Fenced(j)' <=> Fenced(j))
  BY DEF Client, Fenced
<1>4. \A p \in Line : Undelivered(p) => Undelivered(p)'
  BY <1>1, <1>2, <1>3 DEF Undelivered
<1>5. Undelivered(l)'
  BY <1>1, <1>2, <1>3 DEF Undelivered, Line
<1> QED
  BY <1>1, <1>2, <1>3, <1>4, <1>5 DEF FenceInv, Line

\* Admission, whichever way the job goes on: a client's leaves the line, upkeep
\* waits on it.
LEMMA AdmitInv ==
  ASSUME IInv, NEW l \in Line, line = l, l \notin parts, NEW content, Admit(l, content),
         \/ Leave(l) /\ Client(l)
         \/ UNCHANGED <<line, ran, todo, reading>> /\ waits' = l /\ ~Client(l),
         UNCHANGED <<next, prog, hit, durable, published, delivered, lastDelivered, failVars>>
  PROVE  LineInv' /\ PartInv' /\ CallInv' /\ FenceInv' /\ FailureBoundary' /\ PublishedInOrder'
<1> USE DEF IInv, TypeOK, failVars
<1>1. /\ l = ran + 1 /\ l <= next
      /\ \A j \in parts : j <= ran /\ j \in Line
      /\ delivered[l] = "none" \/ ~Client(l)
      /\ queue \subseteq parts /\ flight \subseteq parts /\ failing \subseteq parts
      /\ doomed \subseteq parts /\ open \subseteq parts /\ published \subseteq parts
  BY NotYet DEF LineInv, PartInv, CallInv, Unsettled, PartTypeOK, LineTypeOK, Line, Index
<1>2. parts' = parts \cup {l}
  BY DEF Admit
<1>3. \/ line' = 0 /\ ran' = l /\ todo' = {} /\ reading' = {} /\ waits' = 0 /\ Client(l)
      \/ line' = l /\ ran' = ran /\ todo' = todo /\ reading' = reading /\ waits' = l /\ ~Client(l)
  BY DEF Leave
<1>4. \A j \in Line : (Client(j)' <=> Client(j)) /\ (Held(j)' <=> Held(j))
  BY DEF Client, Held
<1>5. /\ outcome' = outcome \/ outcome' = [outcome EXCEPT ![l] = "failed"]
      /\ \A j \in Line : j # l => outcome'[j] = outcome[j]
  BY DEF Admit, OutcomeTypeOK
<1>6. LineInv'
  <2>1. \A j \in Line : outcome'[j] # "none" => j <= ran' \/ (j = line' /\ j \in parts')
    BY <1>1, <1>2, <1>3, <1>5 DEF LineInv, LineTypeOK, Line, Index
  <2>2. \A j \in Line : delivered'[j] # "none" => outcome'[j] # "none"
    BY <1>5 DEF LineInv, OutcomeTypeOK
  <2>3. /\ ran' <= next' /\ (line' # 0 => line' = ran' + 1 /\ line' <= next')
        /\ todo' # {} \/ reading' # {} => line' # 0 /\ Client(line)'
    BY <1>1, <1>3, <1>4 DEF LineInv
  <2> QED
    BY <2>1, <2>2, <2>3 DEF LineInv
<1>7. PublishedInOrder'
  BY <1>1, <1>2, <1>4 DEF PublishedInOrder, LineTypeOK, Line, Index
<1>8. FailureBoundary'
  <2>1. \A j \in Line : j # l => (Fenced(j)' <=> Fenced(j))
    BY <1>2 DEF Fenced
  <2> QED
    BY <1>1, <1>4, <2>1 DEF FailureBoundary
<1>9. \/ /\ failed /\ call = "idle" /\ open' = open \cup {l} /\ outcome'[l] = "failed"
         /\ UNCHANGED callVars
      \/ /\ ~failed /\ call = "idle" /\ UNCHANGED <<open, outcome>>
         /\ flight' = {l} /\ queue' = {} /\ failing' = {} /\ doomed' = {} /\ got' = {}
         /\ call' \in {"storing", "publishing"} /\ verdict' = "resolved"
      \/ /\ call # "idle" /\ UNCHANGED <<open, outcome>>
         /\ queue' = queue \cup {l}
         /\ UNCHANGED <<flight, call, got, verdict, failing, doomed, stopAt>>
  BY DEF Admit, Pump, OutcomeTypeOK
<1>10. \A j \in Unsettled' : j = l \/ j \in Unsettled
  BY <1>9 DEF Unsettled, callVars
<1>11. FenceInv'
  <2>1. \A p \in Unsettled' : Undelivered(p)'
    BY <1>1, <1>2, <1>10, AdmitFence DEF FenceInv, Unsettled
  <2> QED
    BY <1>2, <2>1, AdmitFence DEF FenceInv
<1>12. PartInv'
  <2>1. parts' = open' \cup Unsettled' /\ open' \cap Unsettled' = {}
    BY <1>1, <1>2, <1>9 DEF PartInv, CallInv, Unsettled, callVars
  <2>2. \A j \in parts' : j <= ran' \/ (j = line' /\ ~Client(j)')
    BY <1>1, <1>2, <1>3, <1>4 DEF LineTypeOK, Line, Index
  <2>3. line' \in parts' => waits' = line'
    BY <1>1, <1>2, <1>3 DEF Line
  <2>4. \A j \in Unsettled' : outcome'[j] = "none" /\ (Client(j)' \/ j = line')
    <3>1. \A j \in Unsettled : j # l /\ j \in Line /\ outcome'[j] = "none" /\ Client(j)'
      BY ONLY ZenonT(30), IInv, line = l, l \notin parts, <1>1, <1>4, <1>5 DEF IInv, PartInv, Unsettled
    <3>2. l \in Unsettled' => outcome'[l] = "none" /\ (Client(l)' \/ l = line')
      <4>1. l \in Unsettled' => outcome' = outcome
        BY <1>1, <1>9 DEF Unsettled, callVars
      <4>2. outcome[l] = "none"
        BY <1>1 DEF LineInv, LineTypeOK, Line, Index
      <4> QED
        BY <1>3, <1>4, <4>1, <4>2
    <3> QED
      BY <1>10, <3>1, <3>2
  <2>5. \A i \in flight', j \in queue' : i < j
    BY <1>1, <1>9 DEF PartInv, callVars, LineTypeOK, Line, Index
  <2>6. ownOutcomes' \subseteq open' /\ \A j \in ownOutcomes' : outcome'[j] # "value"
    BY <1>1, <1>5, <1>9 DEF PartInv
  <2> QED
    BY <2>1, <2>2, <2>3, <2>4, <2>5, <2>6 DEF PartInv
<1>13. CallInv'
  <2>1. \A p \in Line : Undelivered(p) => Undelivered(p)'
    BY <1>2, AdmitFence
  <2> QED
    BY <1>1, <1>2, <1>9, <2>1 DEF CallInv, Unsettled, First, rejected, failed, callVars
<1> QED
  BY <1>6, <1>7, <1>8, <1>11, <1>12, <1>13

\* The callback returned: an outcome at once, or a part.
LEMMA ReturnInv ==
  ASSUME IInv, Return
  PROVE  LineInv' /\ PartInv' /\ CallInv' /\ FenceInv' /\ FailureBoundary' /\ PublishedInOrder'
<1> USE DEF IInv, TypeOK, stateVars, deliveryVars, failVars
<1>1. line # 0 /\ Client(line) /\ line \in Line /\ line \notin parts /\ Leave(line)
  BY NotYet DEF Return, LineTypeOK, Index
<1>2. CASE prog[line].writes = {}
  <2>1. FailureBoundary'
    BY <1>2, BoundaryFrame DEF Return, writerVars
  <2> QED
    BY <1>1, <1>2, <2>1, LeaveInv DEF Return
<1>3. CASE prog[line].writes # {}
  <2>1. Admit(line, Content(line))
    BY <1>3 DEF Return
  <2> QED
    BY <1>1, <2>1, AdmitInv DEF Return
<1> QED
  BY <1>2, <1>3

\* Upkeep leaves the line without an open part of its own.
LEMMA UpkeepLeaves ==
  ASSUME IInv, line # 0, ~Client(line), line \in parts => line \in open, Leave(line),
         health' \in {health, "failed"},
         UNCHANGED <<next, prog, hit, writerVars, durable, published, outcome, delivered,
                     lastDelivered, failAt, ownOutcomes>>
  PROVE  LineInv' /\ PartInv' /\ CallInv' /\ FenceInv' /\ FailureBoundary' /\ PublishedInOrder'
<1> USE DEF IInv, TypeOK, writerVars, callVars, gateVars
<1>1. CallInv' /\ FenceInv' /\ FailureBoundary' /\ PublishedInOrder'
  BY CallFrame, FenceFrame, BoundaryFrame, OrderFrame
<1>2. /\ line' = 0 /\ ran' = line /\ todo' = {} /\ reading' = {} /\ waits' = 0
      /\ line \in Line /\ line = ran + 1 /\ line <= next
  BY NotYet DEF Leave, LineInv
<1>3. LineInv'
  BY <1>2 DEF LineInv, LineTypeOK, Line, Index
<1>4. PartInv'
  <2>1. \A j \in Unsettled : j # line
    BY DEF PartInv
  <2> QED
    BY <1>2, <2>1 DEF PartInv, Unsettled, Client, PartTypeOK, LineTypeOK, Line, Index
<1> QED
  BY <1>1, <1>3, <1>4

\* Upkeep admits a part of its own, the newest.
LEMMA StoreHoldsInv ==
  ASSUME IInv, StoreHolds
  PROVE  LineInv' /\ PartInv' /\ CallInv' /\ FenceInv' /\ FailureBoundary' /\ PublishedInOrder'
<1> USE DEF IInv, TypeOK, stateVars, deliveryVars
<1>1. line # 0 /\ ~Client(line) /\ line \in Line /\ line \notin parts
  BY NotYet DEF StoreHolds, Drained, PartInv
<1>2. CASE Admit(line, HeldContent) /\ waits' = line /\ UNCHANGED <<line, ran, todo, reading, failVars>>
  BY <1>1, <1>2, AdmitInv DEF StoreHolds
<1>3. CASE Leave(line) /\ UNCHANGED <<writerVars, outcome, failVars>>
  BY <1>1, <1>3, UpkeepLeaves DEF StoreHolds, failVars
<1>4. CASE CloseStorage /\ UNCHANGED <<writerVars, outcome>>
  BY <1>1, <1>4, UpkeepLeaves DEF StoreHolds, CloseStorage
<1> QED
  BY <1>2, <1>3, <1>4 DEF StoreHolds

\* Upkeep whose part settled leaves the line, or closes the backend.
LEMMA StoredHoldsInv ==
  ASSUME IInv, StoredHolds
  PROVE  LineInv' /\ PartInv' /\ CallInv' /\ FenceInv' /\ FailureBoundary' /\ PublishedInOrder'
<1> USE DEF IInv, TypeOK, stateVars, deliveryVars, failVars
<1>1. /\ line # 0 /\ ~Client(line) /\ line \in open /\ Leave(line)
      /\ health' \in {health, "failed"} /\ UNCHANGED <<failAt, ownOutcomes>>
  BY DEF StoredHolds, CloseStorage
<1> QED
  BY <1>1, UpkeepLeaves DEF StoredHolds

\* A seal changes nothing the invariant speaks of.
LEMMA CloseInv ==
  ASSUME IInv, Close
  PROVE  LineInv' /\ PartInv' /\ CallInv' /\ FenceInv' /\ FailureBoundary' /\ PublishedInOrder'
  BY LineFrame, PartFrame, CallFrame, FenceFrame, BoundaryFrame, OrderFrame
     DEF Close, IInv, lineVars, writerVars, callVars, gateVars, stateVars, deliveryVars

\* A failure from elsewhere: its boundary is the job on the line, or the last
\* outcome delivered.
LEMMA FailElsewhereInv ==
  ASSUME IInv, FailElsewhere
  PROVE  LineInv' /\ PartInv' /\ CallInv' /\ FenceInv' /\ FailureBoundary' /\ PublishedInOrder'
<1> USE DEF IInv, TypeOK, lineVars, writerVars, callVars, gateVars, stateVars, deliveryVars
<1>1. ownOutcomes' = {} /\ health' = "failed"
  BY DEF FailElsewhere, Fail
<1>2. LineInv' /\ PartInv' /\ CallInv' /\ FenceInv' /\ PublishedInOrder'
  BY <1>1, LineFrame, PartFrame, CallFrame, FenceFrame, OrderFrame DEF FailElsewhere
<1>3. FailureBoundary'
  BY NothingLater, FailKeepsBoundary DEF FailElsewhere, LineTypeOK, OutcomeTypeOK
<1> QED
  BY <1>2, <1>3

-----------------------------------------------------------------------------
(* The writer's call                                                        *)

\* Storage settles: more is durable, and every receipt is for a durable part.
LEMMA StorageCommitInv ==
  ASSUME IInv, StorageCommit
  PROVE  LineInv' /\ PartInv' /\ CallInv' /\ FenceInv' /\ FailureBoundary' /\ PublishedInOrder'
<1> USE DEF IInv, TypeOK, lineVars, writerVars, callVars, gateVars, stateVars, deliveryVars, failVars
<1>1. LineInv' /\ PartInv' /\ FenceInv' /\ FailureBoundary'
  BY LineFrame, PartFrame, FenceFrame, BoundaryFrame DEF StorageCommit
<1>2. durable \subseteq durable' /\ got' \subseteq durable'
  BY DEF StorageCommit, Prefixes
<1>3. PublishedInOrder'
  BY <1>2 DEF StorageCommit, PublishedInOrder, Held
<1>4. flight # {} /\ failing = {} /\ doomed = {}
  BY DEF StorageCommit, CallInv
<1>5. CallInv'
  BY <1>2, <1>4 DEF StorageCommit, CallInv, Unsettled, failed
<1> QED
  BY <1>1, <1>3, <1>5

\* The parts S settle with SessionFailed and nothing is left with the writer.
LEMMA DropInv ==
  ASSUME IInv, failed, parts = open \cup queue \cup flight, failing = {}, doomed = {},
         Settle({}, flight \cup queue), Open(flight \cup queue), Pump({}),
         UNCHANGED <<lineVars, parts, carry, stateVars, deliveryVars, failVars>>
  PROVE  LineInv' /\ PartInv' /\ CallInv' /\ FenceInv' /\ FailureBoundary' /\ PublishedInOrder'
<1> USE DEF IInv, TypeOK, lineVars, stateVars, deliveryVars, failVars
<1>1. FailureBoundary' /\ PublishedInOrder'
  BY BoundaryFrame, OrderFrame
<1>2. /\ open' = open \cup flight \cup queue /\ call' = "idle" /\ verdict' = "resolved"
      /\ flight' = {} /\ queue' = {} /\ failing' = {} /\ doomed' = {} /\ got' = {}
  BY DEF Open, Pump
<1>3. /\ \A j \in Line : outcome'[j] = IF j \in flight \cup queue THEN "failed" ELSE outcome[j]
      /\ flight \cup queue \subseteq parts
  BY DEF Settle
<1>4. \A j \in Line : Client(j)' <=> Client(j)
  BY DEF Client
<1>5. LineInv'
  <2>1. \A j \in parts : j <= ran \/ j = line
    BY DEF PartInv
  <2> QED
    BY <1>3, <2>1 DEF LineInv, Client
<1>6. PartInv'
  <2>1. parts' = open' /\ Unsettled' = {}
    BY <1>2 DEF Unsettled
  <2>2. \A j \in ownOutcomes : outcome'[j] # "value" /\ j \in open'
    BY <1>2, <1>3 DEF PartInv, PartTypeOK
  <2> QED
    BY <1>2, <1>4, <2>1, <2>2 DEF PartInv, PartTypeOK
<1>7. CallInv' /\ FenceInv'
  <2>1. CallInv'
    BY <1>2 DEF CallInv, Unsettled, failed, rejected
  <2>2. FenceInv'
    BY <1>2 DEF FenceInv, Unsettled, Client, Fenced
  <2> QED
    BY <2>1, <2>2
<1> QED
  BY <1>1, <1>5, <1>6, <1>7

\* The end of the storage call stops it, or lets publication begin.
LEMMA AfterCommitInv ==
  ASSUME IInv, AfterCommit
  PROVE  LineInv' /\ PartInv' /\ CallInv' /\ FenceInv' /\ FailureBoundary' /\ PublishedInOrder'
<1> USE DEF IInv, TypeOK
<1>1. failing = {} /\ doomed = {} /\ parts = open \cup queue \cup flight
  BY DEF AfterCommit, CallInv, PartInv, Unsettled
<1>2. CASE failed
  BY <1>1, <1>2, DropInv DEF AfterCommit
<1>3. CASE ~failed
  <2> USE DEF lineVars, gateVars, stateVars, deliveryVars, failVars
  <2>1. LineInv' /\ PartInv' /\ FenceInv' /\ FailureBoundary' /\ PublishedInOrder'
    BY <1>3, LineFrame, PartFrame, FenceFrame, BoundaryFrame, OrderFrame DEF AfterCommit
  <2>2. CallInv'
    BY <1>3 DEF AfterCommit, CallInv, Unsettled, failed, rejected
  <2> QED
    BY <2>1, <2>2
<1> QED
  BY <1>2, <1>3

\* A call that stops keeps every unsettled part but one it resolved.
LEMMA StopSets ==
  ASSUME NEW j \in flight, NEW cause, NEW external, Stop(j, cause, external)
  PROVE  /\ flight' = {} /\ call' = "failing" /\ stopAt' = j /\ UNCHANGED <<queue, got, verdict>>
         /\ cause \in {"own", "failed"} => failing' \cup doomed' = failing \cup flight
         /\ cause = "value" => failing' \cup doomed' = failing \cup (flight \ {j})
<1> DEFINE rest == flight \ {j}
           stored == IF rejected /\ ~external THEN {i \in rest : ~Held(i)} ELSE {}
<1>1. stored \subseteq rest
  OBVIOUS
<1>2. /\ failing' = failing \cup stored \cup (IF cause = "own" THEN {j} ELSE {})
      /\ doomed' = (rest \ stored) \cup (IF cause = "failed" THEN {j} ELSE {})
      /\ stopAt' = j /\ flight' = {} /\ call' = "failing" /\ UNCHANGED <<queue, got, verdict>>
  BY Zenon DEF Stop
<1> HIDE DEF stored
<1> QED
  BY <1>1, <1>2

\* The call stops before part j is published.
LEMMA StopInv ==
  ASSUME IInv, call = "publishing", NEW j \in flight, NEW cause \in {"own", "failed"},
         NEW external, Stop(j, cause, external),
         UNCHANGED <<lineVars, parts, open, durable, published, outcome, delivered, lastDelivered,
                     failVars>>
  PROVE  LineInv' /\ PartInv' /\ CallInv' /\ FenceInv' /\ FailureBoundary' /\ PublishedInOrder'
<1> USE DEF IInv, TypeOK, lineVars, failVars
<1>1. LineInv' /\ FailureBoundary' /\ PublishedInOrder'
  BY LineFrame, BoundaryFrame, OrderFrame
<1>2. /\ flight' = {} /\ call' = "failing" /\ stopAt' = j /\ UNCHANGED <<queue, got, verdict>>
      /\ failing' \cup doomed' = failing \cup flight /\ doomed = {}
  BY StopSets DEF CallInv
<1>3. Unsettled' = Unsettled /\ j \in Unsettled /\ j \in parts
  BY <1>2 DEF Unsettled, PartInv
<1>4. PartInv'
  BY <1>2, <1>3 DEF PartInv, Client
<1>5. FenceInv'
  BY <1>3 DEF FenceInv, Undelivered, Client, Fenced
<1>6. CallInv'
  BY <1>2, <1>3 DEF CallInv, FenceInv, Undelivered, Client, Fenced, failed, rejected
<1> QED
  BY <1>1, <1>4, <1>5, <1>6

\* Part j, the first of the call, is published after every part before it.
LEMMA PublishedInv ==
  ASSUME IInv, call = "publishing", NEW j \in First(flight), Published(j),
         UNCHANGED <<lineVars, parts, open, durable, outcome, delivered, lastDelivered, failVars>>
  PROVE  LineInv' /\ PartInv' /\ CallInv' /\ FenceInv' /\ FailureBoundary' /\ PublishedInOrder'
<1> USE DEF IInv, TypeOK, lineVars, failVars
<1>1. /\ UNCHANGED <<queue, flight, got, verdict, failing, doomed, stopAt>>
      /\ published' = published \cup {j} /\ call' = "published" /\ ~failed
      /\ Held(j) \/ j \in got
  BY DEF Published, Adopt
<1>2. LineInv' /\ PartInv' /\ FenceInv' /\ FailureBoundary'
  BY <1>1, LineFrame, PartFrame, FenceFrame, BoundaryFrame
<1>3. j \in flight /\ j \in parts /\ j \in Line /\ \A i \in flight : j <= i
  BY DEF First, PartInv, Unsettled, CallTypeOK
<1>4. CallInv'
  <2>1. \A i \in First(flight) : i = j
    BY DEF First, CallTypeOK, Line
  <2>2. First(flight)' = First(flight)
    BY <1>1 DEF First
  <2> QED
    BY <1>1, <1>3, <2>1, <2>2 DEF CallInv, Unsettled, failed, rejected
<1>5. \A i \in parts : i < j => i \in published
  <2>1. open \subseteq published /\ failing \subseteq published /\ doomed = {}
    BY <1>1 DEF CallInv
  <2>2. \A i \in queue : i > j /\ i \in Line
    BY <1>3 DEF PartInv, CallTypeOK
  <2>3. \A i \in flight : i >= j /\ i \in Line
    BY <1>3 DEF CallTypeOK
  <2>4. \A i \in parts : i \in open \/ i \in queue \/ i \in flight \/ i \in failing \/ i \in doomed
    BY DEF PartInv, Unsettled
  <2> SUFFICES ASSUME NEW i \in parts, i < j PROVE i \in published
    OBVIOUS
  <2>5. i \notin queue /\ i \notin flight
    BY <1>3, <2>2, <2>3, LineAssumption DEF Line
  <2> QED
    BY <2>1, <2>4, <2>5
<1>6. PublishedInOrder'
  <2>1. Held(j) \/ j \in durable
    BY <1>1 DEF CallInv
  <2> QED
    BY <1>1, <1>5, <2>1 DEF PublishedInOrder, Held
<1> QED
  BY <1>2, <1>4, <1>6

\* One turn of publication, by its disjuncts.
LEMMA PublishInv ==
  ASSUME IInv, Publish
  PROVE  LineInv' /\ PartInv' /\ CallInv' /\ FenceInv' /\ FailureBoundary' /\ PublishedInOrder'
<1> USE DEF deliveryVars
<1>1. /\ call = "publishing"
      /\ UNCHANGED <<lineVars, parts, open, durable, outcome, delivered, lastDelivered, failVars>>
  BY DEF Publish
<1>2. PICK j \in First(flight) : NoReceipt(j) \/ FailedMeanwhile(j) \/ Published(j) \/ NotAdopted(j)
  BY DEF Publish
<1>3. j \in flight
  BY DEF First
<1>4. CASE Published(j)
  BY <1>1, <1>4, PublishedInv
<1>5. CASE NoReceipt(j) \/ NotAdopted(j)
  BY <1>1, <1>3, <1>5, StopInv DEF NoReceipt, NotAdopted
<1>6. CASE FailedMeanwhile(j)
  BY <1>1, <1>3, <1>6, StopInv DEF FailedMeanwhile
<1> QED
  BY <1>2, <1>4, <1>5, <1>6

\* A published part settles: with the failure of its call, or at once.
LEMMA SettlePartInv ==
  ASSUME IInv, NEW threw \in BOOLEAN, SettlePart(threw)
  PROVE  LineInv' /\ PartInv' /\ CallInv' /\ FenceInv' /\ FailureBoundary' /\ PublishedInOrder'
<1> USE DEF IInv, TypeOK, lineVars, stateVars, deliveryVars, failVars
<1>1. FailureBoundary' /\ PublishedInOrder' /\ call = "published" /\ doomed = {}
  BY BoundaryFrame, OrderFrame DEF SettlePart, CallInv
<1>2. PICK j \in First(flight) : AwaitFailure(j) \/ Resolve(j, threw)
  BY DEF SettlePart
<1>3. /\ j \in flight /\ j \in Line /\ j \in parts /\ j \in published /\ j \notin open
      /\ j <= ran \/ (j = line /\ ~Client(j))
      /\ j \notin queue /\ j \in Unsettled
  <2>1. j \in flight /\ j \in Line
    BY DEF First, CallTypeOK
  <2>2. j \in published
    BY <1>1 DEF CallInv
  <2>3. j \in Unsettled
    BY <2>1 DEF Unsettled
  <2>4. /\ j \in parts /\ j \notin open
        /\ j <= ran \/ (j = line /\ ~Client(j))
    BY <2>3 DEF PartInv
  <2>5. j \notin queue
    BY <2>1 DEF PartInv, Line
  <2> QED
    BY <2>1, <2>2, <2>3, <2>4, <2>5
<1>4. CASE AwaitFailure(j)
  <2>1. /\ rejected /\ failing' = failing \cup {j} /\ flight' = flight \ {j} /\ call' = "publishing"
        /\ UNCHANGED <<queue, got, verdict, doomed, stopAt, open, outcome>>
    BY <1>4 DEF AwaitFailure
  <2>2. Unsettled' = Unsettled
    BY <1>3, <2>1 DEF Unsettled
  <2>3. LineInv'
    BY <2>1, LineFrame DEF SettlePart
  <2>4. PartInv'
    BY <2>1, <2>2 DEF SettlePart, PartInv, Client
  <2>5. FenceInv'
    BY <2>2 DEF SettlePart, FenceInv, Undelivered, Client, Fenced
  <2>6. CallInv'
    BY <1>1, <1>3, <2>1 DEF SettlePart, CallInv, Unsettled, rejected, failed
  <2> QED
    BY <1>1, <2>3, <2>4, <2>5, <2>6
<1>5. CASE Resolve(j, threw)
  <2>1. /\ ~rejected /\ open' = open \cup {j}
        /\ \A i \in Line : i # j => outcome'[i] = outcome[i]
        /\ outcome'[j] \in {"failed", "value"}
    BY <1>3, <1>5 DEF Resolve, OutcomeTypeOK
  <2>2. failing = {}
    BY <1>1, <2>1 DEF CallInv
  <2>3. /\ \/ flight' = flight \ {j} /\ call' = "publishing" /\ UNCHANGED <<failing, doomed, stopAt>>
           \/ /\ flight' = {} /\ call' = "failing" /\ stopAt' = j
              /\ failing' \cup doomed' = failing \cup (flight \ {j})
        /\ UNCHANGED <<queue, got, verdict>>
    BY <1>3, <1>5, StopSets DEF Resolve
  <2>4. Unsettled' = Unsettled \ {j}
    BY <1>1, <1>3, <2>2, <2>3 DEF Unsettled
  <2>5. LineInv'
    BY <1>3, <2>1 DEF SettlePart, LineInv, Client
  <2>6. PartInv'
    <3>1. parts' = open' \cup Unsettled' /\ open' \cap Unsettled' = {}
      BY <1>3, <2>1, <2>4 DEF SettlePart, PartInv
    <3>2. \A i \in Unsettled' : outcome'[i] = "none" /\ (Client(i)' \/ i = line')
      BY <2>1, <2>4 DEF SettlePart, PartInv, PartTypeOK, Client
    <3>3. \A i \in flight', q \in queue' : i < q
      BY <2>3 DEF PartInv
    <3>4. ownOutcomes' \subseteq open' /\ \A i \in ownOutcomes' : outcome'[i] # "value"
      BY <1>3, <2>1 DEF SettlePart, PartInv, OutcomeTypeOK
    <3> QED
      BY <3>1, <3>2, <3>3, <3>4 DEF SettlePart, PartInv, Client
  <2>7. FenceInv'
    BY <2>4 DEF SettlePart, FenceInv, Undelivered, Client, Fenced
  <2>8. CallInv'
    <3>1. Undelivered(j)' /\ (Undelivered(stopAt) => Undelivered(stopAt)' \/ stopAt' = j)
      BY <1>3, <2>3 DEF SettlePart, FenceInv, Undelivered, Client, Fenced
    <3>2. CASE call' = "publishing"
      BY <1>1, <1>3, <2>1, <2>2, <2>3, <3>2 DEF SettlePart, CallInv, Unsettled, rejected, failed
    <3>3. CASE call' = "failing"
      <4>1. stopAt' = j /\ flight' = {}
        BY <2>3, <3>3
      <4>2. Undelivered(stopAt)'
        BY <3>1, <4>1 DEF Undelivered
      <4> QED
        BY <1>3, <2>1, <2>3, <3>3, <4>1, <4>2 DEF SettlePart, CallInv, rejected, failed
    <3> QED
      BY <2>3, <3>2, <3>3
  <2> QED
    BY <1>1, <2>5, <2>6, <2>7, <2>8
<1> QED
  BY <1>2, <1>4, <1>5

\* A call that ended without a failure leaves nothing unsettled behind.
LEMMA EndCallInv ==
  ASSUME IInv, EndCall
  PROVE  LineInv' /\ PartInv' /\ CallInv' /\ FenceInv' /\ FailureBoundary' /\ PublishedInOrder'
<1> USE DEF IInv, TypeOK
<1>1. failing = {} /\ doomed = {} /\ flight = {} /\ parts = open \cup queue \cup flight
  BY DEF EndCall, CallInv, PartInv, Unsettled
<1>2. CASE failed
  <2>1. flight \cup queue = queue
    BY <1>1
  <2> QED
    BY <1>1, <1>2, <2>1, DropInv DEF EndCall
<1>3. CASE ~failed
  <2> USE DEF lineVars, gateVars, stateVars, deliveryVars, failVars
  <2>1. /\ flight' = queue /\ queue' = {} /\ failing' = {} /\ doomed' = {} /\ got' = {}
        /\ call' \in {"idle", "publishing", "storing"} /\ verdict' = "resolved"
        /\ call' = "idle" <=> queue = {}
        /\ UNCHANGED <<gateVars, outcome>>
    BY <1>3 DEF EndCall, Pump
  <2>2. Unsettled' = Unsettled
    BY <1>1, <2>1 DEF Unsettled
  <2>3. LineInv' /\ FailureBoundary' /\ PublishedInOrder'
    BY <2>1, LineFrame, BoundaryFrame, OrderFrame DEF EndCall
  <2>4. PartInv'
    BY <2>1, <2>2 DEF EndCall, PartInv, Client
  <2>5. FenceInv'
    BY <2>2 DEF EndCall, FenceInv, Undelivered, Client, Fenced
  <2>6. CallInv'
    BY <1>1, <2>1, <2>2 DEF EndCall, CallInv, Unsettled, rejected, failed
  <2> QED
    BY <2>3, <2>4, <2>5, <2>6
<1> QED
  BY <1>2, <1>3

\* The call fails the Session: nothing after its boundary was delivered.
LEMMA FailCallInv ==
  ASSUME IInv, FailCall
  PROVE  LineInv' /\ PartInv' /\ CallInv' /\ FenceInv' /\ FailureBoundary' /\ PublishedInOrder'
<1> USE DEF IInv, TypeOK, lineVars, stateVars, deliveryVars
<1>1. flight = {} /\ parts = open \cup Unsettled /\ Unsettled = queue \cup failing \cup doomed
  BY DEF FailCall, CallInv, PartInv, Unsettled
<1>2. PICK at \in IF rejected /\ failing # {} THEN First(failing) ELSE {stopAt} : Fail(at, failing)
  BY DEF FailCall
<1>3. at \in Index /\ Undelivered(at)
  <2>1. CASE rejected /\ failing # {}
    <3>1. at \in failing
      BY <2>1 DEF First
    <3> QED
      BY <3>1 DEF FenceInv, Unsettled, CallTypeOK, Line, Index
  <2>2. CASE ~(rejected /\ failing # {})
    <3>1. at = stopAt
      BY <2>2
    <3>2. call = "failing"
      BY <2>2 DEF FailCall, CallInv
    <3> QED
      BY <3>1, <3>2 DEF CallInv, CallTypeOK
  <2> QED
    BY <2>1, <2>2
<1>4. FailureBoundary' /\ PublishedInOrder'
  BY <1>2, <1>3, FailKeepsBoundary, OrderFrame DEF FailCall
<1>5. health' = "failed" /\ (ownOutcomes' = ownOutcomes \/ ownOutcomes' = failing)
  BY <1>2 DEF Fail, failed, failVars
<1>6. /\ open' = open \cup failing \cup doomed \cup queue /\ call' = "idle" /\ verdict' = "resolved"
      /\ flight' = {} /\ queue' = {} /\ failing' = {} /\ doomed' = {} /\ got' = {}
  BY DEF FailCall, Open, Pump
<1>7. \A j \in Line : outcome'[j] = IF j \in failing THEN "error"
                                   ELSE IF j \in doomed \cup queue THEN "failed" ELSE outcome[j]
  BY DEF FailCall, Settle
<1>8. LineInv'
  <2>1. \A j \in parts : j <= ran \/ j = line
    BY DEF PartInv
  <2> QED
    BY <1>1, <1>7, <2>1 DEF FailCall, LineInv, Client
<1>9. PartInv'
  <2>1. parts' = open' /\ Unsettled' = {}
    BY <1>1, <1>6 DEF FailCall, Unsettled
  <2>2. \A j \in ownOutcomes' : outcome'[j] # "value" /\ j \in open'
    BY <1>1, <1>5, <1>6, <1>7 DEF PartInv, PartTypeOK, CallTypeOK
  <2> QED
    BY <1>6, <2>1, <2>2 DEF FailCall, PartInv, Client
<1>10. CallInv'
  BY <1>5, <1>6 DEF FailCall, CallInv, Unsettled, failed, rejected
<1>11. FenceInv'
  BY <1>6 DEF FailCall, FenceInv, Unsettled, Client, Fenced
<1> QED
  BY <1>4, <1>8, <1>9, <1>10, <1>11

-----------------------------------------------------------------------------
(* Delivery                                                                 *)

\* The fence: a delivery comes after every earlier fenced one.
LEMMA DeliverInv ==
  ASSUME IInv, NEW j \in Line, Deliver(j)
  PROVE  LineInv' /\ PartInv' /\ CallInv' /\ FenceInv' /\ FailureBoundary' /\ PublishedInOrder'
<1> USE DEF IInv, TypeOK, lineVars, writerVars, callVars, gateVars, stateVars, failVars
<1>1. PartInv' /\ PublishedInOrder'
  BY PartFrame, OrderFrame DEF Deliver
<1>2. /\ Client(j) /\ outcome[j] # "none" /\ delivered[j] = "none" /\ j <= ran
      /\ \A i \in Line : i # j => delivered'[i] = delivered[i]
      /\ delivered'[j] \in {"failed", outcome[j]}
      /\ delivered'[j] = "value" => ~Poisoned(j) /\ outcome[j] = "value"
  BY DEF Deliver, LineInv, PartInv, OutcomeTypeOK
<1>3. \A i \in Line : (Client(i)' <=> Client(i)) /\ (Fenced(i)' <=> Fenced(i))
  BY DEF Deliver, Client, Fenced
<1>4. LineInv'
  BY <1>2 DEF Deliver, LineInv, Client
<1>5. \A p \in Unsettled : Undelivered(p)'
  <2> SUFFICES ASSUME NEW p \in Unsettled, j > p, Fenced(j) PROVE FALSE
    BY <1>2, <1>3 DEF Undelivered, FenceInv
  <2>1. outcome[p] = "none" /\ (Client(p) \/ p = line) /\ p \in Line
    BY DEF PartInv, PartTypeOK
  <2>2. CASE Client(p)
    BY <2>1, <2>2 DEF Deliver
  <2>3. CASE p = line
    BY <1>2, <2>1, <2>3, NotYet DEF LineTypeOK, Line, Index
  <2> QED
    BY <2>1, <2>2, <2>3
<1>6. FenceInv'
  <2>1. \A i, q \in Line : i < q /\ Client(i)' /\ Fenced(i)' /\ Client(q)' /\ Fenced(q)'
                           /\ delivered'[q] # "none" => delivered'[i] # "none"
    <3> SUFFICES ASSUME NEW i \in Line, NEW q \in Line, i < q, Client(i), Fenced(i), Client(q),
                        Fenced(q), delivered'[q] # "none"
                 PROVE  delivered'[i] # "none"
      BY <1>3
    <3>1. CASE q = j
      BY <1>2, <3>1 DEF Deliver, Line
    <3>2. CASE q # j /\ i # j
      BY <1>2, <3>2 DEF FenceInv
    <3>3. CASE i = j
      BY <1>2, <3>3
    <3> QED
      BY <3>1, <3>2, <3>3
  <2>2. \A i \in Line : Client(i)' /\ Fenced(i)' /\ delivered'[i] # "none" => i <= lastDelivered'
    <3> SUFFICES ASSUME NEW i \in Line, Client(i), Fenced(i), delivered'[i] # "none"
                 PROVE  i <= lastDelivered'
      BY <1>3
    <3>1. CASE ~Fenced(j)
      BY <1>2, <3>1 DEF Deliver, FenceInv
    <3>2. CASE Fenced(j)
      BY <1>2, <3>2 DEF Deliver, FenceInv, Line
    <3> QED
      BY <3>1, <3>2
  <2> QED
    BY <1>5, <2>1, <2>2 DEF Deliver, FenceInv, Unsettled
<1>7. CallInv'
  BY DEF Deliver, LastMicrotask, CallInv, Unsettled, First, failed, rejected
<1>8. FailureBoundary'
  <2>1. delivered'[j] = "value" => j <= failAt
    BY <1>2 DEF Poisoned, PartInv, OutcomeTypeOK, Line, Index
  <2> QED
    BY <1>2, <1>3, <2>1 DEF Deliver, FailureBoundary
<1> QED
  BY <1>1, <1>4, <1>6, <1>7, <1>8

-----------------------------------------------------------------------------
(* The theorems                                                             *)

\* The initial state satisfies the invariant.
LEMMA InitInv == Init => IInv
<1> SUFFICES ASSUME Init PROVE IInv
  OBVIOUS
<1>1. TypeOK
  BY InitType
<1>2. LineInv /\ PartInv
  BY DEF Init, LineInv, PartInv, Unsettled
<1>3. CallInv /\ FenceInv
  BY DEF Init, CallInv, FenceInv, Unsettled, First
<1>4. FailureBoundary /\ PublishedInOrder
  BY DEF Init, FailureBoundary, PublishedInOrder
<1> QED
  BY <1>1, <1>2, <1>3, <1>4 DEF IInv

\* Every step keeps the inductive invariant.
LEMMA StepInv == IInv /\ [Next]_vars => IInv'
<1> SUFFICES ASSUME IInv, [Next]_vars PROVE IInv'
  OBVIOUS
<1> DEFINE Goal == LineInv' /\ PartInv' /\ CallInv' /\ FenceInv' /\ FailureBoundary' /\ PublishedInOrder'
<1>1. TypeOK'
  BY TypeStep DEF IInv
<1>2. ASSUME NEW p \in Programs, Enqueue(p) PROVE Goal
  <2>1. next + 1 \in Line
    BY <1>2, LineAssumption DEF Enqueue, IInv, TypeOK, LineTypeOK, Line, Index
  <2> QED
    BY <1>2, <2>1, NewJobInv DEF Enqueue
<1>3. ASSUME TimerFires PROVE Goal
  <2>1. next + 1 \in Line
    BY <1>3, LineAssumption DEF TimerFires, IInv, TypeOK, LineTypeOK, Line, Index
  <2> QED
    BY <1>3, <2>1, NewJobInv DEF TimerFires
<1>4. ASSUME QueueClose PROVE Goal
  <2>1. next + 1 \in Line
    BY <1>4, LineAssumption DEF QueueClose, IInv, TypeOK, LineTypeOK, Line, Index
  <2> QED
    BY <1>4, <2>1, NewJobInv DEF QueueClose
<1>5. ASSUME UNCHANGED vars PROVE Goal
  BY <1>5, LineFrame, PartFrame, CallFrame, FenceFrame, BoundaryFrame, OrderFrame
     DEF IInv, vars, lineVars, writerVars, callVars, gateVars, stateVars, deliveryVars, failVars
<1>6. ASSUME OnLine PROVE Goal
  BY <1>6, StartInv, RefuseOnLineInv, ReturnInv, StoreHoldsInv, StoredHoldsInv, TouchInv, ReadInv,
     PassGateInv DEF OnLine
<1>7. ASSUME Writing PROVE Goal
  BY <1>7, StorageCommitInv, AfterCommitInv, PublishInv, EndCallInv, FailCallInv, SettlePartInv
     DEF Writing
<1>8. Goal
  BY <1>2, <1>3, <1>4, <1>5, <1>6, <1>7, ThrowInv, ReadFailsInv, CloseInv, FailElsewhereInv,
     DeliverInv DEF Next, Ended
<1> QED
  BY <1>1, <1>8 DEF IInv

\* The inductive invariant holds in every behaviour of the Session.
THEOREM Inductive == Spec => []IInv
  BY InitInv, StepInv, PTL DEF Spec

\* No caller is told of a success that comes after the outcome a failure is
\* (SessionImpl.fail(), #poisoned(), the fence), for any number of jobs.
THEOREM BoundaryHolds == Spec => []FailureBoundary
<1>1. IInv => FailureBoundary
  BY DEF IInv
<1> QED
  BY <1>1, Inductive, PTL

\* Commits are published in line order, without gaps, and a stored one only
\* when it is durable (Writer.#publish()), for any number of jobs.
THEOREM OrderHolds == Spec => []PublishedInOrder
<1>1. IInv => PublishedInOrder
  BY DEF IInv
<1> QED
  BY <1>1, Inductive, PTL

\* Only Deliver changes what callers got.
LEMMA OnlyDeliver ==
  ASSUME [Next]_vars, ~ \E j \in Line : Deliver(j)
  PROVE  UNCHANGED delivered
<1> USE DEF deliveryVars
<1>1. CASE OnLine
  BY <1>1 DEF OnLine, Start, RefuseOnLine, Return, StoreHolds, StoredHolds, Touch, Read, PassGate
<1>2. CASE Writing
  BY <1>2 DEF Writing, StorageCommit, AfterCommit, Publish, EndCall, FailCall, SettlePart
<1> QED
  BY <1>1, <1>2
     DEF Next, Enqueue, TimerFires, Throw, ReadFails, Close, QueueClose, FailElsewhere, Ended, vars

\* Outcomes are delivered in line order, except to exempt internal jobs (the
\* fence of SessionImpl.#enqueue()), for any number of jobs.
THEOREM DeliveryInOrder == Spec => DeliveredInOrder
<1> DEFINE A == \A j \in Line : delivered[j] # delivered'[j] /\ Fenced(j) =>
                  \A i \in Line : i > j /\ Client(i) /\ Fenced(i) => delivered[i] = "none"
<1>1. IInv /\ [Next]_vars => [A]_vars
  <2> SUFFICES ASSUME IInv, [Next]_vars, NEW j \in Line, delivered[j] # delivered'[j], Fenced(j),
                      NEW i \in Line, i > j, Client(i), Fenced(i)
               PROVE  delivered[i] = "none"
    OBVIOUS
  <2>1. PICK d \in Line : Deliver(d)
    BY OnlyDeliver
  <2>2. d = j /\ Client(j) /\ delivered[j] = "none"
    BY <2>1 DEF Deliver, IInv, TypeOK, OutcomeTypeOK
  <2> QED
    BY <2>2 DEF IInv, FenceInv, Line
<1> QED
  BY <1>1, Inductive, PTL DEF Spec, DeliveredInOrder

=============================================================================
