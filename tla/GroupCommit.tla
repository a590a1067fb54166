----------------------------- MODULE GroupCommit -----------------------------
(***************************************************************************)
(* Group commit of a durable Session: the mutation line, the writer that   *)
(* stores admitted commits in batches off the line and publishes them in   *)
(* line order, the gates that keep a job from reading what is not          *)
(* published, the in-order delivery of outcomes, held (deferred) changes,  *)
(* and the failure and close of the Session.                               *)
(*                                                                         *)
(* packages/durable/src/session/session.ts (SessionImpl) and writer.ts     *)
(* (Writer).  JavaScript runs one continuation at a time: a step below is  *)
(* a stretch of code between two awaits.                                   *)
(*                                                                         *)
(* A value of a key is the line index of the newest commit whose change it *)
(* includes, 0 for the value the Session was opened with.                  *)
(***************************************************************************)
EXTENDS Integers, FiniteSets

CONSTANTS Keys,            \* documents and records, by the key a read touches
          Programs,        \* what a client's job may do
          MaxLine,         \* bound: line indices, the close job's included
          MaxOutstanding   \* MAX_OUTSTANDING: started jobs without an outcome

ClientKinds == {"commit", "internal", "deferred"}

\* A client's job: commit() and readOnLine(), commitInternal() (the exempt
\* commits of the scheduler), or a deferred commit that holdable() accepts.
Program == [kind : ClientKinds, reads : SUBSET Keys, writes : SUBSET Keys]

ASSUME LineAssumption == MaxLine \in Nat \ {0}
ASSUME OutstandingAssumption == MaxOutstanding \in Nat \ {0}
ASSUME ProgramsAssumption == Programs \subseteq Program
\* A held commit changes documents only, and a document is loaded, so touched,
\* before it is changed.
ASSUME DeferredAssumption ==
  \A p \in Programs : p.kind = "deferred" => p.writes # {} /\ p.writes \subseteq p.reads

Line == 1..MaxLine
Index == 0..MaxLine

NoProgram == [kind |-> "none", reads |-> {}, writes |-> {}]
StoreHoldsJob == [kind |-> "store", reads |-> {}, writes |-> {}]
CloseJob == [kind |-> "close", reads |-> {}, writes |-> {}]

VARIABLES
  next,         \* jobs enqueued so far (#nextIndex)
  prog,         \* what each enqueued job does
  line,         \* the job on the line (#current), 0 for none
  ran,          \* the newest job whose line part ended (#tail)
  todo,         \* keys the job on the line has still to read
  reading,      \* the key it waits to read, as a set of at most one
  waits,        \* the part whose gate (or outcome) it waits for, 0 for none
  hit,          \* jobs that waited at a gate (Job.hit)
  seen          \* per job and key, the value read

VARIABLES
  parts,        \* jobs that admitted a part to the writer
  carry,        \* per part and key, the value it stores or holds; 0: not written
  queue,        \* admitted parts not yet sent (Writer.#queue)
  flight,       \* parts of the call not yet published nor given up
  call,         \* where the call is
  got,          \* parts of the call with a durability receipt
  verdict,      \* how the storage call settled
  failing,      \* parts that settle with an error of their own, once failed
  doomed,       \* parts that settle with SessionFailed, once failed
  stopAt,       \* the part a failure of the call stops at
  unpublished,  \* per key, its newest unpublished writer (Writer.#unpublished)
  newest,       \* the newest unsettled part (Writer.#newest), 0 for none
  open          \* parts whose gate is open

VARIABLES
  durable,      \* parts Storage made durable
  disk,         \* per key, what Storage holds
  published,    \* parts whose publication ran
  mem,          \* per key, what memory shows
  holds         \* keys with held changes (#holds)

VARIABLES
  outcome,      \* per job, its settled outcome
  delivered,    \* per job, the outcome its caller got
  lastDelivered,
  outstanding,
  health,       \* "failed" once #failure is set
  failAt,       \* the job whose outcome the failure is; MaxLine while undefined
  ownOutcomes,  \* later jobs that keep an error of their own
  admission,    \* "sealed" once #closing is set
  closed

lineVars == <<next, prog, line, ran, todo, reading, waits, hit, seen>>
callVars == <<queue, flight, call, got, verdict, failing, doomed, stopAt>>
gateVars == <<unpublished, newest, open>>
writerVars == <<parts, carry, callVars, gateVars>>
stateVars == <<durable, disk, published, mem, holds>>
deliveryVars == <<delivered, lastDelivered, outstanding>>
failVars == <<health, failAt, ownOutcomes, admission>>
vars == <<lineVars, writerVars, stateVars, outcome, deliveryVars, failVars, closed>>

Outcomes == {"none", "value", "error", "failed"}

failed == health = "failed"
closing == admission = "sealed"
rejected == verdict = "rejected"

Client(j) == prog[j].kind \in ClientKinds
Held(j) == prog[j].kind = "deferred"
KeysOf(j) == {k \in Keys : carry[j][k] # 0}
\* The microtask between the end of a call that fails and fail().  A single
\* continuation runs in it; a commit's way from its last read to its outcome,
\* and an outcome's to its caller, take several, so a job that is past its last
\* read ends before this microtask or after it.
LastMicrotask == call = "failing"

\* Fault: publication takes the parts of a call in any order.
FirstAny(S) == S

\* The first part of S in line order, as a set of at most one.
First(S) == {j \in S : \A i \in S : j <= i}

Init ==
  /\ next = 0 /\ prog = [j \in Line |-> NoProgram]
  /\ line = 0 /\ ran = 0 /\ todo = {} /\ reading = {} /\ waits = 0 /\ hit = {}
  /\ seen = [j \in Line |-> [k \in Keys |-> 0]]
  /\ parts = {} /\ carry = [j \in Line |-> [k \in Keys |-> 0]]
  /\ queue = {} /\ flight = {} /\ call = "idle" /\ got = {} /\ verdict = "resolved"
  /\ failing = {} /\ doomed = {} /\ stopAt = 0
  /\ unpublished = [k \in Keys |-> 0] /\ newest = 0 /\ open = {}
  /\ durable = {} /\ disk = [k \in Keys |-> 0]
  /\ published = {} /\ mem = [k \in Keys |-> 0] /\ holds = {}
  /\ outcome = [j \in Line |-> "none"] /\ delivered = [j \in Line |-> "none"]
  /\ lastDelivered = 0 /\ outstanding = 0
  /\ health = "healthy" /\ failAt = MaxLine /\ ownOutcomes = {}
  /\ admission = "open" /\ closed = "no"

-----------------------------------------------------------------------------
(* Failure and settlement                                                   *)

\* fail(): the first failure wins; admission ends, and later outcomes than
\* `at` become SessionFailed unless they are `own`.
Fail(at, own) ==
  IF failed
  THEN UNCHANGED failVars
  ELSE /\ health' = "failed" /\ failAt' = at /\ ownOutcomes' = own
       /\ admission' = "sealed"

\* Fault: gates of parts given up stay closed.
OpenForgotten(S) ==
  /\ unpublished' = [k \in Keys |-> IF unpublished[k] \in S THEN 0 ELSE unpublished[k]]
  /\ UNCHANGED <<open, newest>>

\* #unregister() and #open(): the parts S leave the unpublished map, and their
\* gates open.
Open(S) ==
  /\ unpublished' = [k \in Keys |-> IF unpublished[k] \in S THEN 0 ELSE unpublished[k]]
  /\ open' = open \cup S
  /\ newest' = IF newest \in S THEN 0 ELSE newest

\* Fault: a part whose storage failed resolves.
SettleResolved(S, T) ==
  outcome' = [j \in Line |-> IF j \in S THEN "value"
                             ELSE IF j \in T THEN "failed" ELSE outcome[j]]

\* The parts S of a call settle with an error of their own, the parts T with
\* SessionFailed.
Settle(S, T) ==
  outcome' = [j \in Line |-> IF j \in S THEN "error"
                             ELSE IF j \in T THEN "failed" ELSE outcome[j]]

\* #pump() and the start of #send(): every queued part goes out as one call.
\* A call of held parts alone stores nothing.
Pump(S) ==
  /\ flight' = S /\ queue' = {}
  /\ call' = IF S = {} THEN "idle"
             ELSE IF \A j \in S : Held(j) THEN "publishing" ELSE "storing"
  /\ got' = {} /\ verdict' = "resolved" /\ failing' = {} /\ doomed' = {} /\ stopAt' = 0

-----------------------------------------------------------------------------
(* The line                                                                 *)

\* commit(), commitInternal(), readOnLine(): admitted unless failed or closing.
Enqueue(p) ==
  /\ ~failed /\ ~closing
  /\ next + 1 < MaxLine
  /\ next' = next + 1
  /\ prog' = [prog EXCEPT ![next + 1] = p]
  /\ UNCHANGED <<line, ran, todo, reading, waits, hit, seen, writerVars, stateVars,
                 outcome, deliveryVars, failVars, closed>>

\* The hold timer fires and queues its job; fired, it stays until that job ran.
TimerFires ==
  /\ holds # {} /\ ~closing
  /\ \A j \in Line : j > ran => prog[j].kind # "store"
  /\ next + 1 < MaxLine
  /\ next' = next + 1
  /\ prog' = [prog EXCEPT ![next + 1] = StoreHoldsJob]
  /\ UNCHANGED <<line, ran, todo, reading, waits, hit, seen, writerVars, stateVars,
                 outcome, deliveryVars, failVars, closed>>

Leave(j) == line' = 0 /\ ran' = j /\ todo' = {} /\ reading' = {} /\ waits' = 0

\* Fault: the room for one more job is checked too late.
StartOverfull ==
  /\ line = 0 /\ ran < next
  /\ LET j == ran + 1 IN
       \/ /\ Client(j) /\ outstanding <= MaxOutstanding
          /\ outstanding' = outstanding + 1
          /\ line' = j /\ todo' = prog[j].reads
          /\ UNCHANGED <<ran, reading, waits>>
       \/ /\ ~Client(j)
          /\ line' = j /\ waits' = newest
          /\ UNCHANGED <<ran, todo, reading, outstanding>>
  /\ UNCHANGED <<next, prog, hit, seen, writerVars, stateVars, outcome, delivered,
                 lastDelivered, failVars, closed>>

\* The next job enters the line.  A job with an outcome to deliver waits for
\* room; upkeep waits for everything admitted so far (#drained()), and the
\* timer's job does nothing once the Session closes.
Start ==
  /\ line = 0 /\ ran < next
  /\ LET j == ran + 1 IN
       \/ /\ Client(j) /\ outstanding < MaxOutstanding
          /\ outstanding' = outstanding + 1
          /\ line' = j /\ todo' = prog[j].reads
          /\ UNCHANGED <<ran, reading, waits>>
       \/ /\ ~Client(j) /\ (closing => prog[j].kind = "close")
          /\ line' = j /\ waits' = newest
          /\ UNCHANGED <<ran, todo, reading, outstanding>>
       \/ /\ ~Client(j) /\ closing /\ prog[j].kind = "store"
          /\ Leave(j)
          /\ UNCHANGED outstanding
  /\ UNCHANGED <<next, prog, hit, seen, writerVars, stateVars, outcome, delivered,
                 lastDelivered, failVars, closed>>

\* touch() of a key with an unpublished writer: the job waits at its gate.
Touch(k) ==
  /\ line # 0 /\ waits = 0 /\ k \in todo /\ unpublished[k] # 0
  /\ waits' = unpublished[k] /\ reading' = {k} /\ hit' = hit \cup {line}
  /\ UNCHANGED <<next, prog, line, ran, todo, seen, writerVars, stateVars, outcome,
                 deliveryVars, failVars, closed>>

\* Fault: the cache drops a document with held changes.
ReadKeyEvicted(k) ==
  \E v \in {mem[k], disk[k]} :
    /\ seen' = [seen EXCEPT ![line][k] = v]
    /\ mem' = [mem EXCEPT ![k] = v]
    /\ todo' = todo \ {k}

\* The read itself: from memory, or from Storage when the cache dropped the
\* document, which it never does while changes of it are held.
ReadKey(k) ==
  \E v \in {mem[k]} \cup (IF k \in holds THEN {} ELSE {disk[k]}) :
    /\ seen' = [seen EXCEPT ![line][k] = v]
    /\ mem' = [mem EXCEPT ![k] = v]
    /\ todo' = todo \ {k}

\* A key no unpublished part writes is read at once.  (Once the Session failed
\* no read counts: the job ends in RefuseOnLine or with its own throw.)
Read(k) ==
  /\ line # 0 /\ waits = 0 /\ k \in todo /\ unpublished[k] = 0 /\ ~failed
  /\ ReadKey(k)
  /\ UNCHANGED <<next, prog, line, ran, reading, waits, hit, writerVars, durable, disk,
                 published, holds, outcome, deliveryVars, failVars, closed>>

\* The gate opened: the read goes on, without looking at the map again, unless
\* the Session failed meanwhile.
PassGate(k) ==
  /\ line # 0 /\ reading = {k} /\ waits \in open
  /\ \/ /\ failed
        /\ outcome' = [outcome EXCEPT ![line] = "failed"]
        /\ Leave(line)
        /\ UNCHANGED <<seen, mem>>
     \/ /\ ~failed
        /\ ReadKey(k)
        /\ waits' = 0 /\ reading' = {}
        /\ UNCHANGED <<line, ran, outcome>>
  /\ UNCHANGED <<next, prog, hit, writerVars, durable, disk, published, holds,
                 deliveryVars, failVars, closed>>

\* A health check of #runCommit() or of the Storage guard finds the Session
\* failed: the job has SessionFailed.
RefuseOnLine ==
  /\ line # 0 /\ Client(line) /\ waits = 0 /\ failed
  /\ outcome' = [outcome EXCEPT ![line] = "failed"]
  /\ Leave(line)
  /\ UNCHANGED <<next, prog, hit, seen, writerVars, stateVars, deliveryVars, failVars, closed>>

\* The callback or its settlement throws, or its caller cancelled: only this
\* job fails, and nothing it staged is admitted.
Throw ==
  /\ line # 0 /\ Client(line) /\ waits = 0
  /\ outcome' = [outcome EXCEPT ![line] = "error"]
  /\ Leave(line)
  /\ UNCHANGED <<next, prog, hit, seen, writerVars, stateVars, deliveryVars, failVars, closed>>

\* A Storage read of the job on the line throws: the guard fails the Session,
\* and the error is this job's outcome.
ReadFails ==
  /\ line # 0 /\ waits = 0 /\ todo # {} /\ ~failed
  /\ Fail(line, {})
  /\ outcome' = [outcome EXCEPT ![line] = "error"]
  /\ Leave(line)
  /\ UNCHANGED <<next, prog, hit, seen, writerVars, stateVars, deliveryVars, closed>>

\* Writer.admit(): register the keys, queue the part, and send it at once
\* unless a call is in flight.  A failed Session sends nothing.
Admit(j, content) ==
  /\ parts' = parts \cup {j}
  /\ carry' = [carry EXCEPT ![j] = content]
  /\ \/ /\ call = "idle" /\ failed
        /\ outcome' = [outcome EXCEPT ![j] = "failed"]
        /\ open' = open \cup {j} /\ newest' = 0
        /\ UNCHANGED <<unpublished, callVars>>
     \/ /\ ~(call = "idle" /\ failed)
        /\ unpublished' = [k \in Keys |-> IF content[k] # 0 THEN j ELSE unpublished[k]]
        /\ newest' = j
        /\ IF call = "idle"
           THEN Pump({j})
           ELSE /\ queue' = queue \cup {j}
                /\ UNCHANGED <<flight, call, got, verdict, failing, doomed, stopAt>>
        /\ UNCHANGED <<open, outcome>>

\* Fault: a commit stores its own changes only.
ContentOwn(j) == [k \in Keys |-> IF k \in prog[j].writes THEN j ELSE 0]

\* What a commit stores: its own changes, and the held changes of every
\* document it read or wrote (takeHeld()).
Content(j) ==
  [k \in Keys |-> IF k \in prog[j].writes THEN j
                  ELSE IF ~Held(j) /\ k \in holds \cap prog[j].reads THEN mem[k] ELSE 0]

\* The callback returned and settled: without writes the job has its outcome;
\* with writes its part is admitted and the line goes on.
Return ==
  /\ line # 0 /\ Client(line) /\ waits = 0 /\ todo = {} /\ ~failed
  /\ ~LastMicrotask
  /\ \/ /\ prog[line].writes = {}
        /\ outcome' = [outcome EXCEPT ![line] = "value"]
        /\ UNCHANGED writerVars
     \/ /\ prog[line].writes # {}
        /\ Admit(line, Content(line))
  /\ Leave(line)
  /\ UNCHANGED <<next, prog, hit, seen, stateVars, deliveryVars, failVars, closed>>

-----------------------------------------------------------------------------
(* Upkeep on the line: the hold timer's job and the close                   *)

\* Fault: upkeep does not wait for what was admitted before it.
DrainedAlways == TRUE

Drained == waits = 0 \/ (waits # line /\ waits \in open)

HeldContent == [k \in Keys |-> IF k \in holds THEN mem[k] ELSE 0]

\* Clear the Session and close the backend, which may fail: that is a failure
\* of the Session too, unless it failed before.
CloseStorage ==
  /\ call # "storing"
  /\ closed' \in {"closed", "failed"}
  /\ health' = IF closed' = "failed" THEN "failed" ELSE health
  /\ UNCHANGED <<failAt, ownOutcomes, admission>>
  /\ Leave(line)

\* #storeHolds(): after the barrier, every held change goes to the writer as
\* one part, whose outcome the job waits for on the line.
StoreHolds ==
  /\ line # 0 /\ ~Client(line) /\ Drained
  /\ \/ /\ holds # {} /\ (prog[line].kind = "close" => ~failed)
        /\ Admit(line, HeldContent)
        /\ waits' = line
        /\ UNCHANGED <<line, ran, todo, reading, failVars, closed>>
     \/ /\ prog[line].kind = "store" /\ holds = {}
        /\ Leave(line)
        /\ UNCHANGED <<writerVars, outcome, failVars, closed>>
     \/ /\ prog[line].kind = "close" /\ (failed \/ holds = {})
        /\ CloseStorage
        /\ UNCHANGED <<writerVars, outcome>>
  /\ UNCHANGED <<next, prog, hit, seen, stateVars, deliveryVars>>

StoredHolds ==
  /\ line # 0 /\ ~Client(line) /\ waits = line /\ line \in open
  /\ \/ prog[line].kind = "store" /\ Leave(line) /\ UNCHANGED <<failVars, closed>>
     \/ prog[line].kind = "close" /\ CloseStorage
  /\ UNCHANGED <<next, prog, hit, seen, writerVars, stateVars, outcome, deliveryVars>>

\* close(): seal admission.
Close ==
  /\ ~closing
  /\ admission' = "sealed"
  /\ UNCHANGED <<lineVars, writerVars, stateVars, outcome, deliveryVars, health, failAt,
                 ownOutcomes, closed>>

\* beforeClose() settled: the close job joins the line behind what was admitted.
QueueClose ==
  /\ closing /\ next < MaxLine
  /\ \A j \in Line : prog[j].kind # "close"
  /\ next' = next + 1
  /\ prog' = [prog EXCEPT ![next + 1] = CloseJob]
  /\ UNCHANGED <<line, ran, todo, reading, waits, hit, seen, writerVars, stateVars,
                 outcome, deliveryVars, failVars, closed>>

\* A Storage call off the line, or the scheduler's own bookkeeping, fails the
\* Session: at the job on the line, else at the last outcome delivered.
FailElsewhere ==
  /\ ~failed /\ closed = "no"
  /\ Fail(IF line # 0 THEN line ELSE lastDelivered, {})
  /\ UNCHANGED <<lineVars, writerVars, stateVars, outcome, deliveryVars, closed>>

-----------------------------------------------------------------------------
(* The writer's call                                                        *)

Prefixes(S) == {P \in SUBSET S : \A i \in S, j \in P : i < j => i \in P}

Last(S) == {j \in S : \A i \in S : i <= j}

\* The batches D applied in order: per key, what the newest of D that writes it
\* stores.  The one contents of Storage that fits, as a set.
Stored(D) ==
  {d \in [Keys -> Index] : \A k \in Keys :
     LET writers == {j \in D : carry[j][k] # 0}
     IN  IF writers = {} THEN d[k] = disk[k] ELSE \E j \in Last(writers) : d[k] = carry[j][k]}

\* Storage.commit() settles: the batches D are durable, in order, the batches G
\* of them have a receipt.  It resolves with all, stops at a refusal, rejects
\* at any point, or breaks its contract and resolves without a receipt.
StorageCommit ==
  /\ call = "storing"
  /\ \E D \in Prefixes({j \in flight : ~Held(j)}) : \E G \in Prefixes(D) :
       /\ durable' = durable \cup D
       /\ disk' \in Stored(D)
       /\ got' = G
  /\ verdict' \in {"resolved", "rejected"}
  /\ call' = "stored"
  /\ UNCHANGED <<lineVars, parts, carry, queue, flight, failing, doomed, stopAt, gateVars,
                 published, mem, holds, outcome, deliveryVars, failVars, closed>>

\* #send() after the call: once the Session failed nothing of it is published,
\* and what is queued behind it is never sent.
AfterCommit ==
  /\ call = "stored"
  /\ \/ /\ failed
        /\ Settle({}, flight \cup queue)
        /\ Open(flight \cup queue)
        /\ Pump({})
     \/ /\ ~failed
        /\ call' = "publishing"
        /\ UNCHANGED <<queue, flight, got, verdict, failing, doomed, stopAt, gateVars, outcome>>
  /\ UNCHANGED <<lineVars, parts, carry, stateVars, deliveryVars, failVars, closed>>

\* The call stops at part j: j settles as `cause`, the parts after it are not
\* published; those of a rejected call keep its error, unless something else
\* failed the Session.
Stop(j, cause, external) ==
  LET rest == flight \ {j}
      stored == IF rejected /\ ~external THEN {i \in rest : ~Held(i)} ELSE {}
  IN  /\ failing' = failing \cup stored \cup (IF cause = "own" THEN {j} ELSE {})
      /\ doomed' = (rest \ stored) \cup (IF cause = "failed" THEN {j} ELSE {})
      /\ stopAt' = j
      /\ flight' = {}
      /\ call' = "failing"
      /\ UNCHANGED <<queue, got, verdict>>

Unregister(j) ==
  unpublished' = [k \in Keys |-> IF unpublished[k] = j THEN 0 ELSE unpublished[k]]

\* part.publish(): memory shows what the part wrote.  A deferred commit's
\* changes are held from then on (#hold()); what a stored part wrote of held
\* documents is no longer (#adopt(), the publish of #storeHolds(), #release()).
Adopt(j) ==
  /\ published' = published \cup {j}
  /\ mem' = [k \in Keys |-> IF carry[j][k] # 0 THEN carry[j][k] ELSE mem[k]]
  /\ holds' = IF Held(j) THEN holds \cup KeysOf(j) ELSE holds \ KeysOf(j)

\* Fault: a part without a receipt is skipped, and the loop goes on.
NoReceiptSkipped(j) ==
  /\ ~Held(j) /\ j \notin got
  /\ failing' = failing \cup {j} /\ flight' = flight \ {j} /\ verdict' = "rejected"
  /\ UNCHANGED <<queue, call, got, doomed, stopAt, unpublished, published, mem, holds>>

\* One turn of the publication loop, up to and including part.publish(): a
\* part without a receipt stops the call,
NoReceipt(j) ==
  /\ ~Held(j) /\ j \notin got
  /\ Stop(j, "own", FALSE)
  /\ UNCHANGED <<unpublished, published, mem, holds>>

\* and so does a failure from elsewhere;
FailedMeanwhile(j) ==
  /\ Held(j) \/ j \in got
  /\ failed
  /\ Stop(j, "failed", TRUE)
  /\ UNCHANGED <<unpublished, published, mem, holds>>

\* else the part's keys leave the map, and memory adopts it
Published(j) ==
  /\ Held(j) \/ j \in got
  /\ ~failed
  /\ Unregister(j)
  /\ Adopt(j)
  /\ call' = "published"
  /\ UNCHANGED <<queue, flight, got, verdict, failing, doomed, stopAt>>

\* or cannot.
NotAdopted(j) ==
  /\ Held(j) \/ j \in got
  /\ ~failed
  /\ Unregister(j)
  /\ Stop(j, "own", FALSE)
  /\ UNCHANGED <<published, mem, holds>>

Publish ==
  /\ call = "publishing"
  /\ \E j \in First(flight) : NoReceipt(j) \/ FailedMeanwhile(j) \/ Published(j) \/ NotAdopted(j)
  /\ UNCHANGED <<lineVars, parts, carry, newest, open, durable, disk, outcome, deliveryVars,
                 failVars, closed>>

\* The rest of the turn.  In a rejected call the part waits for the failure;
AwaitFailure(j) ==
  /\ rejected
  /\ failing' = failing \cup {j} /\ flight' = flight \ {j} /\ call' = "publishing"
  /\ UNCHANGED <<queue, got, verdict, doomed, stopAt, open, newest, outcome>>

\* else it resolves, or has SessionFailed when the Session failed meanwhile,
\* and its gate opens.  A throw of one of the Session's own observers
\* (`threw`) lets the commit stand and stops the call.
Resolve(j, threw) ==
  /\ ~rejected
  /\ outcome' = [outcome EXCEPT ![j] = IF failed /\ ~threw THEN "failed" ELSE "value"]
  /\ open' = open \cup {j} /\ newest' = IF newest = j THEN 0 ELSE newest
  /\ IF threw
     THEN Stop(j, "value", FALSE)
     ELSE /\ flight' = flight \ {j} /\ call' = "publishing"
          /\ UNCHANGED <<queue, got, verdict, failing, doomed, stopAt>>

SettlePart(threw) ==
  /\ call = "published"
  /\ \E j \in First(flight) : AwaitFailure(j) \/ Resolve(j, threw)
  /\ UNCHANGED <<lineVars, parts, carry, unpublished, stateVars, deliveryVars, failVars, closed>>

\* Fault: what was admitted during a call is not sent after it.
EndCallLost ==
  /\ call = "publishing" /\ flight = {} /\ ~rejected
  /\ Pump({}) /\ UNCHANGED <<gateVars, outcome>>
  /\ UNCHANGED <<lineVars, parts, carry, stateVars, deliveryVars, failVars, closed>>

\* Every part of a call that resolved is settled: send what was admitted
\* meanwhile, unless the Session failed.
EndCall ==
  /\ call = "publishing" /\ flight = {} /\ ~rejected
  /\ \/ failed /\ Settle({}, queue) /\ Open(queue) /\ Pump({})
     \/ ~failed /\ Pump(queue) /\ UNCHANGED <<gateVars, outcome>>
  /\ UNCHANGED <<lineVars, parts, carry, stateVars, deliveryVars, failVars, closed>>

\* A microtask later: fail the Session first, then settle what waited for it,
\* and drop what was admitted meanwhile.
FailCall ==
  /\ \/ call = "failing"
     \/ call = "publishing" /\ flight = {} /\ rejected
  /\ \E at \in IF rejected /\ failing # {} THEN First(failing) ELSE {stopAt} :
       Fail(at, failing)
  /\ Settle(failing, doomed \cup queue)
  /\ Open(failing \cup doomed \cup queue)
  /\ Pump({})
  /\ UNCHANGED <<lineVars, parts, carry, stateVars, deliveryVars, closed>>

-----------------------------------------------------------------------------
(* Delivery of outcomes                                                     *)

\* An internal job that admitted nothing and waited at no gate is exempt.
Fenced(j) == prog[j].kind # "internal" \/ j \in hit \/ j \in parts

\* Fault: an outcome settled before the failure is delivered as it is.
PoisonedNever(j) == FALSE

\* #poisoned()
Poisoned(j) == j > failAt /\ j \notin ownOutcomes

\* Fault: an outcome is delivered as soon as it is there.
DeliverUnfenced(j) ==
  /\ Client(j) /\ outcome[j] # "none" /\ delivered[j] = "none"
  /\ ~LastMicrotask
  /\ delivered' = [delivered EXCEPT ![j] = IF Poisoned(j) THEN "failed" ELSE outcome[j]]
  /\ lastDelivered' = IF Fenced(j) THEN j ELSE lastDelivered
  /\ outstanding' = outstanding - 1
  /\ UNCHANGED <<lineVars, writerVars, stateVars, outcome, failVars, closed>>

\* The fence: a job's outcome is delivered after those of the jobs before it.
Deliver(j) ==
  /\ Client(j) /\ outcome[j] # "none" /\ delivered[j] = "none"
  /\ ~LastMicrotask
  /\ Fenced(j) => \A i \in Line : i < j /\ Client(i) =>
                    outcome[i] # "none" /\ (Fenced(i) => delivered[i] # "none")
  /\ delivered' = [delivered EXCEPT ![j] = IF Poisoned(j) THEN "failed" ELSE outcome[j]]
  /\ lastDelivered' = IF Fenced(j) THEN j ELSE lastDelivered
  /\ outstanding' = outstanding - 1
  /\ UNCHANGED <<lineVars, writerVars, stateVars, outcome, failVars, closed>>

\* Closed, every caller answered: the process may exit.
Ended ==
  /\ closed # "no"
  /\ \A j \in Line : Client(j) => delivered[j] # "none"
  /\ UNCHANGED vars

-----------------------------------------------------------------------------

OnLine ==
  \/ Start \/ RefuseOnLine \/ Return \/ StoreHolds \/ StoredHolds
  \/ \E k \in Keys : Touch(k) \/ Read(k) \/ PassGate(k)

Writing ==
  \/ StorageCommit \/ AfterCommit \/ Publish \/ EndCall \/ FailCall
  \/ \E threw \in BOOLEAN : SettlePart(threw)

Next ==
  \/ \E p \in Programs : Enqueue(p)
  \/ TimerFires \/ Throw \/ ReadFails \/ Close \/ QueueClose \/ FailElsewhere
  \/ OnLine
  \/ Writing
  \/ \E j \in Line : Deliver(j)
  \/ Ended

Spec == Init /\ [][Next]_vars

\* The event loop runs every continuation that is ready; a commit callback
\* returns or throws, and a storage call settles.  Clients, timers, failures
\* and a caller's close need not happen.
Fairness ==
  /\ WF_vars(OnLine) /\ WF_vars(Writing) /\ WF_vars(QueueClose)
  /\ \A j \in Line : WF_vars(Deliver(j))

FairSpec == Spec /\ Fairness

-----------------------------------------------------------------------------
(* Properties                                                               *)

LineTypeOK ==
  /\ next \in Index /\ ran \in Index /\ line \in Index /\ waits \in Index
  /\ prog \in [Line -> Programs \cup {NoProgram, StoreHoldsJob, CloseJob}]
  /\ todo \subseteq Keys /\ reading \subseteq Keys /\ hit \subseteq Line
  /\ seen \in [Line -> [Keys -> Index]]

CallTypeOK ==
  /\ queue \subseteq Line /\ flight \subseteq Line /\ got \subseteq Line
  /\ call \in {"idle", "storing", "stored", "publishing", "published", "failing"}
  /\ verdict \in {"resolved", "rejected"} /\ failing \subseteq Line /\ doomed \subseteq Line
  /\ stopAt \in Index

PartTypeOK ==
  /\ parts \subseteq Line /\ carry \in [Line -> [Keys -> Index]]
  /\ unpublished \in [Keys -> Index] /\ newest \in Index /\ open \subseteq Line

StateTypeOK ==
  /\ durable \subseteq Line /\ published \subseteq Line /\ holds \subseteq Keys
  /\ disk \in [Keys -> Index] /\ mem \in [Keys -> Index]

OutcomeTypeOK ==
  /\ outcome \in [Line -> Outcomes] /\ delivered \in [Line -> Outcomes]
  /\ lastDelivered \in Index /\ outstanding \in Int /\ outstanding <= MaxOutstanding
  /\ health \in {"healthy", "failed"} /\ failAt \in Index /\ ownOutcomes \subseteq Line
  /\ admission \in {"open", "sealed"} /\ closed \in {"no", "closed", "failed"}

\* Every variable of the line, the writer, the state and the delivery has its
\* type, and no more jobs are without an outcome than MAX_OUTSTANDING allows.
TypeOK == LineTypeOK /\ CallTypeOK /\ PartTypeOK /\ StateTypeOK /\ OutcomeTypeOK

\* A commit that resolved is durable: its part is stored, and Storage has each
\* change it made or a newer one.
ResolvedIsDurable ==
  \A j \in parts : Client(j) /\ ~Held(j) /\ delivered[j] = "value" =>
    j \in durable /\ \A k \in prog[j].writes : disk[k] >= j

\* Commits are published in line order, without gaps, and a stored one only
\* when it is durable.
PublishedInOrder ==
  \A j \in published :
    /\ Held(j) \/ j \in durable
    /\ \A i \in parts : i < j => i \in published

\* No caller is told of a success that comes after the outcome a failure is,
\* in line order, however the failure and the deliveries interleave.  (An
\* exempt job counts as run before every unpublished commit.)
FailureBoundary ==
  \A j \in Line : Client(j) /\ Fenced(j) /\ delivered[j] = "value" => j <= failAt

\* Nothing durable is derived from a change that a crash would lose: whatever a
\* stored commit read, held changes included, Storage has too.
DerivedIsDurable ==
  \A j \in durable : Client(j) => \A k \in prog[j].reads : seen[j][k] <= disk[k]

\* A close that did not fail leaves nothing in memory only.
CleanCloseStoresAll == closed = "closed" /\ ~failed => disk = mem

\* Outcomes are delivered in line order, except to exempt internal jobs.
DeliveredInOrder ==
  [][\A j \in Line : delivered[j] # delivered'[j] /\ Fenced(j) =>
       \A i \in Line : i > j /\ Client(i) /\ Fenced(i) => delivered[i] = "none"]_vars

\* Every job gets its outcome: no gate is stranded and the line never waits for
\* itself.
EveryJobDelivered ==
  \A j \in Line : Client(j) ~> delivered[j] # "none"

\* A Session that closes, or failed, ends: the close job gets through whatever
\* is on the line and in flight.
CloseEnds == closing ~> closed # "no"

\* The jobs whose effect is in place: published commits, and jobs without writes
\* that returned.
InPlace == {j \in Line : /\ Client(j)
                         /\ \/ j \in published
                            \/ prog[j].writes = {} /\ outcome[j] = "value"}

Serial == INSTANCE SerialSession WITH
  done <- InPlace, answer <- delivered, down <- failed

\* Group commit implements a Session that runs one job at a time: though storage
\* calls overlap, fail and are gated, every commit and look is one step in line
\* order, and callers are told of steps that were made.
ImplementsSerial == Serial!Spec

-----------------------------------------------------------------------------
(* The inductive invariant behind FailureBoundary and PublishedInOrder      *)

\* The line runs jobs in order, one at a time; only a job that ran, or upkeep
\* on the line, has an outcome.
LineInv ==
  /\ ran <= next
  /\ line # 0 => line = ran + 1 /\ line <= next
  /\ todo # {} \/ reading # {} => line # 0 /\ Client(line)
  /\ \A j \in Line : j > next => prog[j] = NoProgram
  /\ \A j \in Line : outcome[j] # "none" => j <= ran \/ (j = line /\ j \in parts)
  /\ \A j \in Line : delivered[j] # "none" => outcome[j] # "none"

Unsettled == queue \cup flight \cup failing \cup doomed

\* Every admitted part is settled or with the writer, in line order; a part of
\* upkeep that is not settled keeps its job on the line, waiting for it.
PartInv ==
  /\ parts = open \cup Unsettled
  /\ open \cap Unsettled = {}
  /\ \A j \in parts : j <= ran \/ (j = line /\ ~Client(j))
  /\ line \in parts => waits = line
  /\ \A j \in Unsettled : outcome[j] = "none" /\ (Client(j) \/ j = line)
  /\ \A i \in flight, j \in queue : i < j
  /\ ownOutcomes \subseteq open
  /\ \A j \in ownOutcomes : outcome[j] # "value"

\* No fenced outcome after job p was delivered.
Undelivered(p) == \A i \in Line : i > p /\ Client(i) /\ Fenced(i) => delivered[i] = "none"

\* The call: what it has published, and where it stops.
CallInv ==
  /\ call = "idle" => Unsettled = {}
  /\ call # "failing" => doomed = {} /\ failing \subseteq published
  /\ failing # {} => call = "failing" \/ (rejected /\ call \in {"publishing", "published"})
  /\ call = "failing" => flight = {} /\ stopAt \in parts /\ Undelivered(stopAt)
  /\ call = "published" => First(flight) \subseteq published
  /\ call \in {"stored", "publishing", "published"} /\ rejected => flight \cup failing # {}
  /\ call = "storing" => flight # {}
  /\ got \subseteq durable
  /\ ~failed => open \subseteq published
  /\ published \subseteq parts

\* The fence holds back what comes after an unsettled part, and delivers in order.
FenceInv ==
  /\ \A p \in Unsettled : Undelivered(p)
  /\ \A i, j \in Line : i < j /\ Client(i) /\ Fenced(i) /\ Client(j) /\ Fenced(j)
                         /\ delivered[j] # "none" => delivered[i] # "none"
  /\ \A j \in Line : Client(j) /\ Fenced(j) /\ delivered[j] # "none" => j <= lastDelivered

IInv ==
  TypeOK /\ LineInv /\ PartInv /\ CallInv /\ FenceInv /\ FailureBoundary /\ PublishedInOrder

-----------------------------------------------------------------------------
(* The inductive invariant behind ResolvedIsDurable, DerivedIsDurable and   *)
(* CleanCloseStoresAll                                                      *)

\* Parts that Storage or publication may still take; once the Session failed,
\* only those of a storage call under way.
Pending ==
  IF failed THEN IF call = "storing" THEN flight ELSE {}
  ELSE (queue \cup flight) \ published

\* The Session did not fail, nor does it end a call that fails with parts of it.
Sound == ~failed /\ (call = "failing" => failing \cup doomed = {})

\* The gates: a key that a pending part carries is registered, so what the job
\* on the line has read holds still; upkeep runs alone.
GateInv ==
  /\ \A i \in Pending, k \in Keys : carry[i][k] # 0 => unpublished[k] >= i
  /\ \A k \in Keys : unpublished[k] # 0 => unpublished[k] \in Unsettled \ published
  /\ \A k \in reading : unpublished[k] \in {0, waits}
  /\ line # 0 /\ Client(line) => \A k \in prog[line].reads \ todo :
                                   unpublished[k] = 0 /\ seen[line][k] = mem[k]
  /\ newest # 0 => newest \in Unsettled
  /\ \A i \in Unsettled : i <= newest
  /\ line # 0 /\ ~Client(line) =>
       IF line \in parts THEN Unsettled \subseteq {line} ELSE newest \in {0, waits}

\* What the stages of a call have done to its parts.
StageInv ==
  /\ queue \cap (durable \cup published) = {}
  /\ flight \cap published \subseteq IF call = "published" THEN First(flight) ELSE {}
  /\ call = "storing" => flight \cap durable = {}
  /\ \A j \in durable : j \in parts /\ ~Held(j)
  /\ \A j \in parts : Client(j) => prog[j].writes # {} /\ \A k \in prog[j].writes : carry[j][k] = j
  /\ \A j \in parts : outcome[j] = "value" => j \in published
  /\ \A j \in Line : delivered[j] = "value" => outcome[j] = "value"

\* Values come from jobs that ran, and Storage never goes back: pending parts
\* carry newer values in line order, none older than what Storage has.
DiskInv ==
  /\ \A k \in Keys : mem[k] <= ran /\ disk[k] <= ran /\ \A j \in Line : carry[j][k] <= ran
  /\ \A i, j \in Pending, k \in Keys :
       i < j /\ carry[i][k] # 0 /\ carry[j][k] # 0 => carry[i][k] <= carry[j][k]
  /\ \A j \in Pending, k \in Keys : carry[j][k] # 0 =>
       \/ disk[k] <= carry[j][k]
       \/ \E i \in Pending \cap durable : j <= i /\ carry[i][k] # 0
  /\ \A j \in Pending \cap durable, k \in Keys :
       carry[j][k] # 0 /\ (\A i \in Pending \cap durable : carry[i][k] # 0 => i <= j) =>
         disk[k] = carry[j][k]
  /\ \A j \in durable, k \in Keys : carry[j][k] <= disk[k]

\* Memory and Storage: they differ by held changes and pending parts only, and
\* what a commit read is stored, or stored with it.
MemInv ==
  /\ \A k \in holds : mem[k] # 0
  /\ Sound => \A k \in Keys : (\A i \in Pending : carry[i][k] = 0) =>
                disk[k] <= mem[k] /\ (k \notin holds => disk[k] = mem[k])
  /\ \A j \in parts : Client(j) /\ ~Held(j) =>
       \A k \in prog[j].reads : seen[j][k] <= disk[k] \/ seen[j][k] <= carry[j][k]

\* Upkeep stores every held change, and the close is the last job.
UpkeepInv ==
  /\ line # 0 /\ ~Client(line) /\ line \in parts /\ ~failed =>
       holds \subseteq IF line \in published THEN {} ELSE KeysOf(line)
  /\ \A j \in Line : prog[j].kind = "close" => closing /\ j = next
  /\ closed # "no" => line = 0 /\ ran = next /\ \E j \in Line : prog[j].kind = "close"
  /\ closed = "closed" /\ ~failed => Unsettled = {} /\ disk = mem

StorageInv == GateInv /\ StageInv /\ DiskInv /\ MemInv /\ UpkeepInv

-----------------------------------------------------------------------------
(* The inductive invariant behind ImplementsSerial                          *)

\* The commits in place that wrote key k.
WritersOf(k) == {j \in InPlace : k \in prog[j].writes}

\* v is the newest of the commits W, 0 for none.
NewestOf(W, v) == IF W = {} THEN v = 0 ELSE v \in W /\ \A j \in W : j <= v

\* Memory shows the newest commit in place.  What a pending commit read is still
\* so, and what it writes nobody after it on the line has seen.
SerialInv ==
  /\ Sound => \A k \in Keys : NewestOf(WritersOf(k), mem[k])
  /\ ~failed => \A j \in Pending :
       /\ Client(j) => \A k \in prog[j].reads :
            NewestOf(WritersOf(k), seen[j][k]) /\ \A i \in Pending : i < j => carry[i][k] = 0
       /\ \A k \in Keys \ prog[j].writes : carry[j][k] # 0 =>
            carry[j][k] = mem[k] /\ \A i \in Pending : i < j => carry[i][k] = 0
       /\ \A i \in InPlace : i > j => prog[i].writes = {} /\ prog[i].reads \cap prog[j].writes = {}
  /\ \A j \in Line : Client(j) /\ outcome[j] = "value" => j \in published \/ prog[j].writes = {}
  /\ ~failed => /\ failAt = MaxLine
                /\ \A j \in Line : outcome[j] # "failed" /\ (j \in parts => outcome[j] # "error")

\* All of it: what one step of the program needs to know of every step before.
FullInv == IInv /\ StorageInv /\ SerialInv

=============================================================================
