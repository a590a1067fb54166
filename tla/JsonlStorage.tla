---------------------------- MODULE JsonlStorage ----------------------------
(***************************************************************************)
(* The JSONL storage backend: sidecar files for documents and live tasks,  *)
(* one marker per commit in main.jsonl, reclamation of sidecars that a     *)
(* base, a retirement or a terminal task made needless, and recovery after *)
(* a crash or, with the fsync option, a power loss.                        *)
(*                                                                         *)
(* packages/durable/src/storage/jsonl/storage.ts (JsonlStorage) over       *)
(* storage/memory.ts (MemoryStorage).  A step is a stretch of code between *)
(* two awaits, so one file operation; the content of a write is the number *)
(* of the commit attempt it comes from.                                    *)
(***************************************************************************)
EXTENDS Naturals, FiniteSets, SequencesExt

CONSTANTS Latest,      \* documents of which only the current content is kept
          History,     \* conversation documents, every revision kept
          Tasks,
          Main,        \* main.jsonl
          Torn,        \* a line without its end
          Calls,       \* what a commit() call may carry: sequences of batches
          MaxCommits,  \* bound: commit attempts
          MaxFaults    \* bound: failed file operations, crashes, power losses

Docs == Latest \cup History
Sidecars == Docs \cup Tasks
Files == Sidecars \cup {Main}

ContentOps == {"create", "base", "delta"}
RecordOps == ContentOps \cup {"live"}
Ops == RecordOps \cup {"retire", "terminal", "entry"}

\* One write of a batch.  A document.change is "base" or "delta" by its
\* content; a task write is "live" or "terminal" by its status; a conversation,
\* entry or submission, all of it in the marker, is an "entry" of Main.
Asked == [op : Ops, id : Files]

ASSUME JsonlBounds == MaxCommits \in Nat /\ MaxFaults \in Nat
ASSUME JsonlFiles == Main \notin Sidecars /\ Latest \cap History = {} /\ Docs \cap Tasks = {}
ASSUME JsonlCalls == \A c \in Calls : c # <<>> /\ \A i \in DOMAIN c : c[i] \in Seq(Asked)

VARIABLES
  fsync,     \* the option given to open()
  disk,      \* per file, its lines; a file without lines may be absent
  survive,   \* per file, the contents a power loss may leave
  memory,    \* the MemoryStorage; ahead of the files while a call appends
  current,   \* currentOnlyDocuments
  live,      \* liveTaskSidecars
  phase,     \* where the storage is between two awaits
  recovering,\* open() has not returned
  sent,      \* the commits of the call, encoded
  todo,      \* files the current phase has still to handle
  plan,      \* sidecars to replace, with the lines they keep
  temp       \* the .reclaim file being made

VARIABLES
  attempts,  \* commits attempted so far
  acked,     \* commits in main.jsonl up to the newest one with a receipt
  deferred,  \* sidecars whose reclamation failed
  faults, outages

fileVars == <<disk, survive>>
stateVars == <<memory, current, live>>
workVars == <<sent, todo, plan, temp>>
ghostVars == <<attempts, acked, deferred, faults, outages>>
vars == <<fsync, fileVars, stateVars, phase, recovering, workVars, ghostVars>>

NoTemp == [file |-> Main, state |-> "none"]
Nothing == [f \in {} |-> <<>>]

-----------------------------------------------------------------------------
(* MemoryStorage                                                            *)

Write == [op : Ops, id : Files, n : Nat]

Empty ==
  [docs |-> [d \in Docs |-> [created |-> 0, retired |-> 0, revs |-> <<>>]],
   tasks |-> [t \in Tasks |-> [status |-> "none", n |-> 0]],
   entries |-> {}, next |-> 1]

Of(writes, id, ops) == SelectSeq(writes, LAMBDA w : w.id = id /\ w.op \in ops)

\* prepareCommit() throws: a document created twice, changed or retired when
\* it does not exist or is retired, or with two contents in one commit.
Refused(m, writes) ==
  \E d \in Docs :
    LET content == Of(writes, d, ContentOps)
        retire == Of(writes, d, {"retire"})
        create == content # <<>> /\ content[1].op = "create"
        doc == m.docs[d]
    IN  /\ content \o retire # <<>>
        /\ \/ Len(content) > 1 \/ Len(retire) > 1
           \/ create # (doc.created = 0)
           \/ doc.retired # 0
           \/ content # <<>> /\ content[1].op = "delta" /\ doc.revs = <<>>

\* applyDocumentActions() for one document: a base of a current-only document
\* replaces its revisions, its retirement drops them.
DocAfter(d, doc, writes, seq) ==
  LET content == Of(writes, d, ContentOps)
      rev == [kind |-> IF content[1].op = "delta" THEN "delta" ELSE "base",
              n |-> content[1].n, seq |-> seq]
      create == content # <<>> /\ content[1].op = "create"
      retire == Of(writes, d, {"retire"}) # <<>>
      revs == CASE content = <<>> -> doc.revs
                [] content # <<>> /\ rev.kind = "base" /\ (create \/ d \in Latest) -> <<rev>>
                [] OTHER -> Append(doc.revs, rev)
  IN  [created |-> IF create THEN seq ELSE doc.created,
       retired |-> IF retire THEN seq ELSE doc.retired,
       revs |-> IF retire /\ d \in Latest THEN <<>> ELSE revs]

\* applyPreparedCommit(): tasks are replaced whole, the last write wins.
Applied(m, writes, seq) ==
  [docs |-> [d \in Docs |-> DocAfter(d, m.docs[d], writes, seq)],
   tasks |-> [t \in Tasks |->
                LET mine == Of(writes, t, {"live", "terminal"})
                IN  IF mine = <<>> THEN m.tasks[t]
                    ELSE [status |-> Last(mine).op, n |-> Last(mine).n]],
   entries |-> m.entries \cup
                 {[n |-> w.n, seq |-> seq] : w \in {v \in ToSet(writes) : v.op = "entry"}},
   next |-> seq + 1]

\* What a sequence of commits leaves, by what they wrote.
StateOf(commits) == FoldLeft(LAMBDA m, c : Applied(m, c.writes, c.seq), Empty, commits)

-----------------------------------------------------------------------------
(* A call: encoding, the appends, the receipts                              *)

\* encodeCommit(): the sidecar writes of a commit are numbered from 0.
Ordinal(writes, i) == Cardinality({j \in 1..(i - 1) : writes[j].op \in RecordOps})

\* The records of commit c for file f, in order.
Records(c, f) ==
  LET all == [i \in DOMAIN c.writes |->
                [seq |-> c.seq, ord |-> Ordinal(c.writes, i), id |-> c.writes[i].id,
                 kind |-> IF c.writes[i].op = "create" THEN "base" ELSE c.writes[i].op,
                 n |-> c.writes[i].n]]
  IN  SelectSeq(all, LAMBDA r : r.id = f /\ r.kind \in RecordOps)

\* Every line a call appends to file f.
Lines(f) == FoldLeft(LAMBDA s, c : s \o Records(c, f), <<>>, sent)

\* Fault: a terminal task's sidecar is reclaimed only if its commit wrote to it.
planWithoutLive(c, currentOnly, liveSidecars) ==
  LET retired == {f \in currentOnly : Of(c.writes, f, {"retire"}) # <<>>}
      ended == {t \in Tasks : Of(c.writes, t, {"terminal"}) # <<>> /\ Records(c, t) # <<>>}
      fresh == {f \in currentOnly : Of(c.writes, f, {"base"}) # <<>>}
  IN  [f \in retired \cup ended \cup fresh |-> IF f \in fresh THEN Records(c, f) ELSE <<>>]

\* planReclamations(): a retired current-only document and a terminal task
\* keep nothing, a current-only document with a new base what its commit wrote.
planReclamations(c, currentOnly, liveSidecars) ==
  LET With(op, S) == {f \in S : Of(c.writes, f, {op}) # <<>>}
      known == currentOnly \cup With("create", Latest)
      retired == With("retire", Docs)
      ended == {t \in With("terminal", Tasks) :
                  /\ Last(Of(c.writes, t, {"live", "terminal"})).op = "terminal"
                  /\ t \in liveSidecars \/ Records(c, t) # <<>>}
      gone == (retired \cap known) \cup ended
      fresh == (With("base", Docs) \cap known) \ retired
  IN  [f \in gone \cup fresh |-> IF f \in gone THEN <<>> ELSE Records(c, f)]

\* Fault: a planned replacement keeps only what its own commit wrote.
KeptOfFirst(replacements, c) == replacements

\* What a later batch appends is kept by an earlier batch's replacement.
Kept(replacements, c) ==
  [f \in DOMAIN replacements |-> replacements[f] \o Records(c, f)]

\* One turn of commit()'s loop over the batches; the first refused one ends it.
Prepare(acc, batch) ==
  LET writes == [i \in DOMAIN batch |->
                   [op |-> batch[i].op, id |-> batch[i].id, n |-> acc.attempts + 1]]
      c == [seq |-> acc.memory.next, writes |-> writes]
      ids(op) == {w.id : w \in {v \in ToSet(writes) : v.op = op}}
  IN  IF acc.refused \/ Refused(acc.memory, writes)
      THEN [acc EXCEPT !.refused = TRUE]
      ELSE [acc EXCEPT
              !.plan = planReclamations(c, acc.current, acc.live) @@ Kept(acc.plan, c),
              !.memory = Applied(acc.memory, writes, c.seq),
              !.current = @ \cup (ids("create") \cap Latest),
              !.live = (@ \cup ids("live")) \ ids("terminal"),
              !.sent = Append(@, c),
              !.attempts = @ + 1]

\* The Session writes a terminal task no more (transaction.ts).
SessionKeeps(call) ==
  \A i \in DOMAIN call : \A k \in DOMAIN call[i] :
    call[i][k].op \in {"live", "terminal"} =>
      /\ memory.tasks[call[i][k].id].status # "terminal"
      /\ call[i][k].op = "terminal" =>
           \A j \in DOMAIN call : Of(call[j], call[i][k].id, Ops) # <<>> => j <= i

\* The call ends or recovery does; what is planned is reclaimed first, the
\* markers flushed before that with fsync.
AfterCall(replacements) ==
  CASE DOMAIN replacements = {} -> "open"
    [] DOMAIN replacements # {} /\ fsync -> "authorize"
    [] OTHER -> "reclaim"

\* commit(): the batches are checked and applied to memory one by one, and the
\* accepted ones encoded; until they are appended reads wait.
Commit(call) ==
  /\ phase = "open"
  /\ attempts + Len(call) <= MaxCommits
  /\ SessionKeeps(call)
  /\ LET acc == FoldLeft(Prepare,
                  [memory |-> memory, current |-> current, live |-> live, plan |-> Nothing,
                   sent |-> <<>>, attempts |-> attempts, refused |-> FALSE], call)
     IN  /\ acc.sent # <<>>
         /\ memory' = acc.memory /\ current' = acc.current /\ live' = acc.live
         /\ sent' = acc.sent /\ plan' = acc.plan /\ attempts' = acc.attempts
         /\ todo' = {f \in Sidecars : \E i \in DOMAIN acc.sent : Records(acc.sent[i], f) # <<>>}
         /\ phase' = IF todo' = {} THEN "mark" ELSE "append"
  /\ UNCHANGED <<fsync, fileVars, recovering, temp, acked, deferred, faults, outages>>

\* Lines are appended in order and torn at any byte: what a power loss may
\* leave of file f once `lines` are being appended.
Partial(f, lines) ==
  {disk[f] \o s : s \in Prefixes(lines)} \cup
  {disk[f] \o Append(s, Torn) : s \in Prefixes(lines) \ {lines}}

\* append(), a sidecar.
AppendSidecar(f) ==
  /\ phase = "append" /\ f \in todo
  /\ disk' = [disk EXCEPT ![f] = @ \o Lines(f)]
  /\ survive' = [survive EXCEPT ![f] = @ \cup Partial(f, Lines(f))]
  /\ IF todo # {f}
     THEN phase' = phase /\ todo' = todo \ {f}
     ELSE IF fsync
     THEN phase' = "flush" /\ todo' = {g \in Sidecars : Lines(g) # <<>>}
     ELSE phase' = "mark" /\ todo' = {}
  /\ UNCHANGED <<fsync, stateVars, recovering, sent, plan, temp, ghostVars>>

\* append(), with fsync: every sidecar is on disk before a marker names it.
FlushSidecar(f) ==
  /\ phase = "flush" /\ f \in todo
  /\ survive' = [survive EXCEPT ![f] = {disk[f]}]
  /\ todo' = todo \ {f}
  /\ phase' = IF todo' = {} THEN "mark" ELSE phase
  /\ UNCHANGED <<fsync, disk, stateVars, recovering, sent, plan, temp, ghostVars>>

\* append(), the markers in one write, and the rest of commit() up to its first
\* await: reads go on and every batch gets its receipt.
AppendMarkers ==
  /\ phase = "mark"
  /\ disk' = [disk EXCEPT ![Main] = @ \o sent]
  /\ survive' = [survive EXCEPT ![Main] = @ \cup Partial(Main, sent)]
  /\ acked' = Len(disk'[Main])
  /\ sent' = <<>>
  /\ phase' = AfterCall(plan)
  /\ UNCHANGED <<fsync, stateVars, recovering, todo, plan, temp, attempts, deferred, faults, outages>>

Poison ==
  /\ phase' = "poisoned" /\ sent' = <<>> /\ todo' = {} /\ plan' = Nothing
  /\ faults < MaxFaults /\ faults' = faults + 1
  /\ UNCHANGED <<fsync, stateVars, recovering, temp, attempts, acked, deferred, outages>>

\* An append that fails may have written any part: the storage is poisoned.  A
\* crash in the middle of an append is this followed by the crash.
AppendFails(f) ==
  /\ \/ phase = "append" /\ f \in todo
     \/ phase = "mark" /\ f = Main
  /\ LET lines == IF f = Main THEN sent ELSE Lines(f)
     IN  \E left \in Partial(f, lines) :
           /\ disk' = [disk EXCEPT ![f] = left]
           /\ survive' = [survive EXCEPT
                            ![f] = @ \cup {left} \cup {p \in Partial(f, lines) : Len(p) < Len(left)}]
  /\ Poison

FlushFails(f) ==
  /\ phase = "flush" /\ f \in todo
  /\ Poison /\ UNCHANGED fileVars

-----------------------------------------------------------------------------
(* Reclamation: best effort, after the marker that allows it                *)

Drop(f) == [g \in DOMAIN plan \ {f} |-> plan[g]]

Reclaimed(f) ==
  /\ plan' = Drop(f) /\ temp' = NoTemp
  /\ phase' = IF DOMAIN plan = {f} THEN "open" ELSE phase
  /\ recovering' = (recovering /\ DOMAIN plan # {f})
  /\ UNCHANGED <<fsync, stateVars, sent, todo, attempts, acked, outages>>

\* reclaimSidecars() with fsync: the markers are flushed before a record that
\* an older state needs goes.
Authorize ==
  /\ phase = "authorize"
  /\ survive' = [survive EXCEPT ![Main] = {disk[Main]}]
  /\ phase' = "reclaim"
  /\ UNCHANGED <<fsync, disk, stateVars, recovering, workVars, ghostVars>>

\* That flush fails: nothing is reclaimed.
AuthorizeFails ==
  /\ phase = "authorize" /\ faults < MaxFaults /\ faults' = faults + 1
  /\ deferred' = deferred \cup DOMAIN plan
  /\ plan' = Nothing /\ phase' = "open" /\ recovering' = FALSE
  /\ UNCHANGED <<fsync, fileVars, stateVars, sent, todo, temp, attempts, acked, outages>>

\* replaceSidecar(), nothing kept.
RemoveSidecar(f) ==
  /\ phase = "reclaim" /\ temp = NoTemp /\ f \in DOMAIN plan /\ plan[f] = <<>>
  /\ disk' = [disk EXCEPT ![f] = <<>>]
  /\ survive' = [survive EXCEPT ![f] = @ \cup {<<>>}]
  /\ deferred' = deferred \ {f} /\ faults' = faults
  /\ Reclaimed(f)

\* replaceSidecar(), lines kept: a temporary file is written, flushed with
\* fsync, and renamed.
WriteTemp(f) ==
  /\ phase = "reclaim" /\ temp = NoTemp /\ f \in DOMAIN plan /\ plan[f] # <<>>
  /\ temp' = [file |-> f, state |-> "written"]
  /\ UNCHANGED <<fsync, fileVars, stateVars, phase, recovering, sent, todo, plan, ghostVars>>

FlushTemp ==
  /\ phase = "reclaim" /\ temp.state = "written" /\ fsync
  /\ temp' = [temp EXCEPT !.state = "flushed"]
  /\ UNCHANGED <<fsync, fileVars, stateVars, phase, recovering, sent, todo, plan, ghostVars>>

\* A rename is atomic; a power loss may undo it, and leave any part of a file
\* that was not flushed.
RenameTemp(f) ==
  /\ phase = "reclaim" /\ temp.file = f
  /\ temp.state = IF fsync THEN "flushed" ELSE "written"
  /\ disk' = [disk EXCEPT ![f] = plan[f]]
  /\ survive' = [survive EXCEPT
                   ![f] = @ \cup (IF temp.state = "flushed" THEN {plan[f]} ELSE Prefixes(plan[f]))]
  /\ deferred' = deferred \ {f} /\ faults' = faults
  /\ Reclaimed(f)

\* Any of these operations fails: the sidecar stays as it is.
ReclaimFails(f) ==
  /\ phase = "reclaim" /\ f \in DOMAIN plan /\ temp.file \in {f, Main}
  /\ faults < MaxFaults /\ faults' = faults + 1
  /\ deferred' = deferred \cup {f}
  /\ Reclaimed(f) /\ UNCHANGED fileVars

-----------------------------------------------------------------------------
(* Recovery                                                                 *)

\* open(): nothing of an earlier process is left but the files.
Open ==
  /\ phase = "down" /\ phase' = "read" /\ recovering' = TRUE
  /\ UNCHANGED <<fsync, fileVars, stateVars, workVars, ghostVars>>

IsTorn(f) == disk[f] # <<>> /\ Last(disk[f]) = Torn

\* readLines(): an incomplete last line is cut off.
TruncateTorn(f) ==
  /\ phase = "read" /\ IsTorn(f)
  /\ disk' = [disk EXCEPT ![f] = Front(@)]
  /\ survive' = [survive EXCEPT ![f] = @ \cup {Front(disk[f])}]
  /\ UNCHANGED <<fsync, stateVars, phase, recovering, workVars, ghostVars>>

Before(r, s) == r.seq < s.seq \/ (r.seq = s.seq /\ r.ord < s.ord)

\* The references of markers to sidecar records: file, sequence and ordinal.
References(main) ==
  UNION {{[id |-> main[i].writes[k].id, op |-> main[i].writes[k].op,
           seq |-> main[i].seq, ord |-> Ordinal(main[i].writes, k)] :
             k \in {j \in DOMAIN main[i].writes : main[i].writes[j].op \in RecordOps}} :
         i \in DOMAIN main}

RecordAt(ref) ==
  {r \in ToSet(disk[ref.id]) : r.seq = ref.seq /\ r.ord = ref.ord}

Wrote(main, f, ops) == \E i \in DOMAIN main : Of(main[i].writes, f, ops) # <<>>

\* Tasks the last marker that names them ends, finalTaskIsLive.
TerminalTasks(main) ==
  {t \in Tasks : LET all == FoldLeft(LAMBDA s, c : s \o Of(c.writes, t, {"live", "terminal"}), <<>>, main)
                 IN  all # <<>> /\ Last(all).op = "terminal"}

CurrentOnly(main) == {d \in Latest : Wrote(main, d, {"create"})}
RetiredOnly(main) == {d \in CurrentOnly(main) : Wrote(main, d, {"retire"})}

\* Confirmed bases of a current-only document, the newest of them latestBases'.
Bases(main, d) ==
  {r \in UNION {RecordAt(ref) : ref \in {x \in References(main) : x.id = d}} : r.kind = "base"}

\* Fault: the newest base itself counts as before it.
IsUpToLatestBase(main, d, r) ==
  d \in CurrentOnly(main) /\ \E base \in Bases(main, d) : ~Before(base, r)

IsBeforeLatestBase(main, d, r) ==
  d \in CurrentOnly(main) /\ \E base \in Bases(main, d) : Before(r, base)

\* Data that may be missing: a later commit made it needless.
Optional(main, ref) ==
  \/ ref.id \in TerminalTasks(main) \cup RetiredOnly(main)
  \/ ref.id \in Docs /\ IsBeforeLatestBase(main, ref.id, ref)

\* The writes of a marker as they are replayed: content comes from the
\* sidecars, and what is needless is left out or, for a creation, empty.
Replayed(main, c) ==
  LET ref(k) == [id |-> c.writes[k].id, op |-> c.writes[k].op,
                 seq |-> c.seq, ord |-> Ordinal(c.writes, k)]
      record(k) == CHOOSE r \in RecordAt(ref(k)) : TRUE
      replay == [k \in DOMAIN c.writes |->
        LET w == c.writes[k] IN
        CASE w.op \notin RecordOps -> w
          [] w.op = "create" ->
               [w EXCEPT !.n = IF Optional(main, ref(k)) THEN 0 ELSE record(k).n]
          [] w.op \in RecordOps \ {"create"} ->
               IF Optional(main, ref(k))
               THEN [w EXCEPT !.op = "skip"]
               ELSE [w EXCEPT !.op = record(k).kind, !.n = record(k).n]]
  IN  SelectSeq(replay, LAMBDA w : w.op # "skip")

\* The checks of recover() that fail the open with JsonlCorruptionError.
Corrupt(main) ==
  \/ \E f \in Files : \E i \in DOMAIN disk[f] : disk[f][i] = Torn
  \/ \E i \in 2..Len(main) : main[i].seq <= main[i - 1].seq
  \/ \E f \in Sidecars : \E i \in 2..Len(disk[f]) : ~Before(disk[f][i - 1], disk[f][i])
  \/ \E ref \in References(main) :
       IF RecordAt(ref) = {} THEN ~Optional(main, ref)
       ELSE \E r \in RecordAt(ref) : ref.op = "create" /\ r.kind # "base"

Confirmed(main, f, r) ==
  \E ref \in References(main) : ref.id = f /\ ref.seq = r.seq /\ ref.ord = r.ord

\* The first unconfirmed line of a sidecar, 0 when every line is confirmed.
TailStart(main, f) ==
  SelectInSeq(disk[f], LAMBDA r : ~Confirmed(main, f, r))

HasTail(main, f) == TailStart(main, f) # 0

\* The lines of a sidecar that are still needed.
Retained(main, f) ==
  LET confirmed == SelectSeq(disk[f], LAMBDA r : Confirmed(main, f, r))
  IN  IF f \in TerminalTasks(main) \cup RetiredOnly(main) THEN <<>>
      ELSE SelectSeq(confirmed, LAMBDA r : f \in Tasks \/ ~IsBeforeLatestBase(main, f, r))

Needless(main) ==
  {f \in Sidecars : /\ disk[f] # <<>>
                    /\ \/ f \in TerminalTasks(main) \cup RetiredOnly(main)
                       \/ \E i \in DOMAIN disk[f] :
                            /\ f \in Docs /\ Confirmed(main, f, disk[f][i])
                            /\ IsBeforeLatestBase(main, f, disk[f][i])}

Fails == phase' = "corrupt" /\ UNCHANGED <<fsync, fileVars, stateVars, recovering, workVars, ghostVars>>

\* recover(), all lines read: either the files contradict each other, or the
\* markers are replayed into an empty memory.
Replay ==
  LET main == disk[Main]
      step(acc, c) ==
        IF acc.bad \/ Refused(acc.memory, Replayed(main, c)) \/ c.seq < acc.memory.next
        THEN [acc EXCEPT !.bad = TRUE]
        ELSE [acc EXCEPT !.memory = Applied(@, Replayed(main, c), c.seq)]
      acc == FoldLeft(step, [memory |-> Empty, bad |-> FALSE], main)
  IN  /\ phase = "read" /\ \A f \in Files : ~IsTorn(f)
      /\ IF Corrupt(main) THEN Fails
         ELSE IF acc.bad THEN Fails
         ELSE /\ memory' = acc.memory
              /\ current' = CurrentOnly(main)
              /\ live' = {t \in Tasks : Wrote(main, t, {"live", "terminal"})} \ TerminalTasks(main)
              /\ plan' = [f \in Needless(main) |-> Retained(main, f)]
              /\ todo' = {f \in Sidecars : HasTail(main, f)}
              /\ phase' = IF todo' = {} THEN AfterCall(plan') ELSE "tidy"
              /\ recovering' = (phase' # "open")
              /\ deferred' = {}
              /\ UNCHANGED <<fsync, fileVars, sent, temp, attempts, acked, faults, outages>>

\* recover(), an unconfirmed tail is cut off; a confirmed record after it is
\* corruption.
TruncateTail(f) ==
  LET main == disk[Main]
      tail == TailStart(main, f)
  IN  /\ phase = "tidy" /\ f \in todo
      /\ IF \E i \in DOMAIN disk[f] : i > tail /\ Confirmed(main, f, disk[f][i])
         THEN Fails
         ELSE /\ disk' = [disk EXCEPT ![f] = SubSeq(@, 1, tail - 1)]
              /\ survive' = [survive EXCEPT ![f] = @ \cup {SubSeq(disk[f], 1, tail - 1)}]
              /\ todo' = todo \ {f}
              /\ phase' = IF todo' = {} THEN AfterCall(plan) ELSE phase
              /\ recovering' = (phase' # "open")
              /\ UNCHANGED <<fsync, stateVars, sent, plan, temp, ghostVars>>

-----------------------------------------------------------------------------
(* The end of a process                                                     *)

Down ==
  /\ phase' = "down" /\ recovering' = FALSE
  /\ memory' = Empty /\ current' = {} /\ live' = {}
  /\ sent' = <<>> /\ todo' = {} /\ plan' = Nothing /\ temp' = NoTemp
  /\ UNCHANGED <<fsync, attempts>>

\* close(), between calls or poisoned.
Close ==
  /\ phase \in {"open", "poisoned"}
  /\ Down /\ UNCHANGED <<fileVars, acked, deferred, faults, outages>>

\* The process ends anywhere else, or open() fails on a file operation.
Crash ==
  /\ phase \notin {"down", "open", "poisoned", "corrupt"}
  /\ faults < MaxFaults /\ faults' = faults + 1
  /\ Down /\ UNCHANGED <<fileVars, acked, deferred, outages>>

\* The machine stops: every file is left in one of the states it may be in.
\* Only fsync promises anything then.
PowerLoss ==
  /\ fsync /\ phase # "corrupt"
  /\ faults < MaxFaults /\ faults' = faults + 1 /\ outages' = outages + 1
  /\ \E left \in [Files -> UNION {survive[f] : f \in Files}] :
       /\ \A f \in Files : left[f] \in survive[f]
       /\ disk' = left /\ survive' = [f \in Files |-> {left[f]}]
       /\ LET kept == Len(SelectSeq(left[Main], LAMBDA l : l # Torn))
          IN  acked' = IF acked < kept THEN acked ELSE kept
  /\ Down /\ UNCHANGED deferred

Init ==
  /\ fsync \in BOOLEAN
  /\ disk = [f \in Files |-> <<>>] /\ survive = [f \in Files |-> {<<>>}]
  /\ memory = Empty /\ current = {} /\ live = {}
  /\ phase = "down" /\ recovering = FALSE
  /\ sent = <<>> /\ todo = {} /\ plan = Nothing /\ temp = NoTemp
  /\ attempts = 0 /\ acked = 0 /\ deferred = {} /\ faults = 0 /\ outages = 0

Next ==
  \/ \E call \in Calls : Commit(call)
  \/ \E f \in Sidecars :
       \/ AppendSidecar(f) \/ FlushSidecar(f) \/ FlushFails(f)
       \/ RemoveSidecar(f) \/ WriteTemp(f) \/ RenameTemp(f) \/ ReclaimFails(f)
       \/ TruncateTail(f)
  \/ \E f \in Files : AppendFails(f) \/ TruncateTorn(f)
  \/ AppendMarkers \/ Authorize \/ AuthorizeFails \/ FlushTemp
  \/ Open \/ Replay \/ Close \/ Crash \/ PowerLoss

Spec == Init /\ [][Next]_vars

-----------------------------------------------------------------------------
(* Properties                                                               *)

\* readable(): a read waits while a call appends, and fails once poisoned.
Readable == phase = "open" \/ (phase \in {"authorize", "reclaim"} /\ ~recovering)

\* The storage contract, over what a complete line of main.jsonl stores.
Contract == INSTANCE StorageContract WITH
  Commits <- [seq : Nat, writes : Seq(Write)],
  StateOf <- StateOf,
  Unreadable <- <<>>,
  stored <- SelectSeq(disk[Main], LAMBDA l : l # Torn),
  asked <- sent,
  view <- IF Readable THEN memory ELSE <<>>

\* The backend keeps the storage contract: reads see exactly the commits whose
\* markers are stored, receipts mean stored, no crash or failed file operation
\* loses a stored commit or reorders one, and a power loss leaves a prefix.
KeepsContract == Contract!Spec

\* Whatever the fault, and whatever part of every file it left, the next open
\* finds no corruption: no confirmed record is missing, none follows an
\* unconfirmed tail, none is out of order.
NeverCorrupt == phase # "corrupt"

\* A sidecar that was not excused by a failure holds no record that the stored
\* commits make needless, whether they came in one call or in several.
NothingNeedless ==
  phase = "open" => \A f \in Needless(disk[Main]) : f \in deferred

=============================================================================
