-------------------------- MODULE ConversationRuns --------------------------
(***************************************************************************)
(* The runs of one conversation: submissions and the inbox they queue in,  *)
(* the generation that answers a run and hands it on, the tool calls of a  *)
(* round, compactions, aborts, faults, and recovery after a crash or close.*)
(*                                                                         *)
(* packages/durable/src/harness: submissions.ts, inbox.ts, live.ts,        *)
(* generation.ts, tool.ts, compaction.ts, context.ts.  A step is one       *)
(* commit, which is atomic and durable (GroupCommit, JsonlStorage), or a   *)
(* stretch of task code between two of them.  The scheduler appears by     *)
(* what it promises a task (TaskScheduler): it invokes a task whose work   *)
(* is due, refuses the commits of a marked run, invokes an abort handler   *)
(* once the task owns no live work, and counts the restarts of a task that *)
(* a crash cut off.                                                        *)
(***************************************************************************)
EXTENDS Naturals, FiniteSets, SequencesExt

CONSTANTS Drafts,         \* what clients submit
          SettingsSet,    \* settings a host may run with
          Replies,        \* how the model may answer
          Controls,       \* sets of what a tool may ask of its round
          Troubles,       \* what goes wrong in this instance
          MaxCalls,       \* bound: calls of one answer
          MaxSubs,        \* bound: submissions of clients
          MaxRounds,      \* bound: tool rounds and continuations
          MaxCompactions, \* bound: compactions
          MaxTrouble,     \* bound: crashes, closes, aborts and faults
          MaxEvents       \* bound: all of these together

WriteKinds == {"note", "display", "reset", "summary"}

\* An input says what it does when the conversation is busy and when it is
\* idle; "cut" is the entry a summary keeps first.
Draft == [kind : {"input", "continue"} \cup WriteKinds, busy : {"steer", "followUp", "reject"},
          idle : {"run", "reject"}, cut : Nat, req : Nat]

Setting == [policy : {"keep", "continue", "withdraw"}, steering : {"one", "all"},
            followUp : {"one", "all"}, sequential : BOOLEAN, afterRun : BOOLEAN,
            retries : Nat, restartLimit : Nat \ {0}, maxTurns : Nat]

ASSUME DraftsAssumption == Drafts \subseteq Draft
ASSUME SettingsAssumption == SettingsSet # {} /\ SettingsSet \subseteq Setting
ASSUME ControlsAssumption == Controls \subseteq SUBSET {"terminate", "handoff"}
ASSUME BoundsAssumption ==
  {MaxCalls, MaxSubs, MaxRounds, MaxCompactions, MaxTrouble, MaxEvents} \subseteq Nat

VARIABLES
  settings,
  conv,      \* the conversation: what storage holds; what only the host holds,
             \* in "fly", "seen" and a partial in memory; in "sent",
             \* "resent", "ran" and "lost" what the properties count
  jobs,      \* generations whose deferred response the provider still works on
  trouble    \* crashes, closes, aborts and faults so far

vars == <<settings, conv, jobs, trouble>>

NoRun == [task |-> 0, inputs |-> <<>>, turns |-> 0, answered |-> FALSE]

Busy(s) == s.run # NoRun

Submissions(s) == Cardinality({i \in DOMAIN s.subs : s.subs[i].kind # "summary"})

Rounds(s) == Cardinality({i \in DOMAIN s.entries : s.entries[i].kind \in {"calls", "continuation"}})

\* The bounds leave room for one more event.
Room == Submissions(conv) + Rounds(conv) + Len(conv.comps) + trouble < MaxEvents

MoreTrouble(kind) == kind \in Troubles /\ trouble < MaxTrouble /\ Room

MoreRounds == Rounds(conv) < MaxRounds /\ Room

MoreCompactions == "compact" \in Replies /\ Len(conv.comps) < MaxCompactions /\ Room

\* What a sequence has at the indices of S, in order.
At(seq, S) ==
  LET upTo[k \in 0..Len(seq)] ==
        IF k = 0 THEN <<>> ELSE IF k \in S THEN Append(upTo[k - 1], seq[k]) ELSE upTo[k - 1]
  IN  upTo[Len(seq)]

\* The numbers of S up to n, in order.
InOrder(S, n) == At([k \in 1..n |-> k], S)

-----------------------------------------------------------------------------
(* The transcript and the context a model request sees                      *)

\* An assistant entry has its generation and request in n and m, a tool result
\* its call and its assistant's entry, a placed submission its id in n.
Entry(kind, n, m) == [kind |-> kind, n |-> n, m |-> m, calls |-> 0]

AppendEntry(s, e) == [s EXCEPT !.entries = Append(@, e)]

\* The head an entry declares: itself for a reset, the first kept entry for a
\* summary.
HeadOf(es, i) ==
  CASE es[i].kind \in {"reset", "handoff"} -> i
    [] es[i].kind = "summary" -> es[i].m
    [] OTHER -> 0

LatestHeadMarker(es) == Max({0} \cup {i \in DOMAIN es : HeadOf(es, i) # 0})

\* Start of the active range.
ActiveFrom(es) == LET i == LatestHeadMarker(es) IN IF i = 0 THEN 0 ELSE HeadOf(es, i)

Roles == {"user", "assistant", "result", "none"}

Role(e) ==
  CASE e.kind \in {"user", "note", "summary", "handoff", "continuation"} -> "user"
    [] e.kind \in {"answer", "calls"} -> "assistant"
    [] e.kind = "result" -> "result"
    [] OTHER -> "none"   \* no message, or one of an excluded stop reason

\* The entries of the active range that have one of these roles, without the
\* head marker.
Active(es, roles) ==
  {j \in DOMAIN es : j >= ActiveFrom(es) /\ HeadOf(es, j) = 0 /\ Role(es[j]) \in roles}

\* What the model sees: the head marker, then the active range.
Messages(es) ==
  LET i == LatestHeadMarker(es)
      rest == InOrder(Active(es, Roles \ {"none"}), Len(es))
  IN  IF i # 0 /\ Role(es[i]) # "none" THEN <<i>> \o rest ELSE rest

\* Results stand right after their calls, missing ones are synthesized, and
\* unmatched ones dropped: the last message is one the model answers unless it
\* is an answer.
Answerable(es) ==
  LET i == LatestHeadMarker(es)
      said == Active(es, {"user", "assistant"})
  IN  IF said # {} THEN es[Max(said)].kind # "answer" ELSE i # 0 /\ Role(es[i]) = "user"

\* isCandidate(): never between an assistant's calls and their results.
Candidate(es, i) ==
  \/ Role(es[i]) = "assistant"
  \/ /\ Role(es[i]) = "user"
     /\ LET before == {j \in Active(es, {"assistant"}) : j < i}
        IN  ~\E r \in (i + 1)..Len(es) :
               /\ es[r].kind = "result" /\ before # {} /\ es[r].m = Max(before)
               /\ \A j \in i..r : Role(es[j]) # "assistant"

\* selectCut(): where a summary may cut, whatever the sizes of the messages.
Cuts(es) ==
  {i \in Active(es, Roles) :
     Candidate(es, i) /\ \E j \in Active(es, Roles \ {"none"}) : j < i}

-----------------------------------------------------------------------------
(* Submissions, the inbox and its boundaries                                *)

Settle(s, ids, status) ==
  [s EXCEPT !.subs = [i \in DOMAIN @ |->
                        IF i \in ids THEN [@[i] EXCEPT !.status = status] ELSE @[i]]]

HasQueuedReset(items) == \E i \in DOMAIN items : items[i].mode = "reset"

\* Fault: a summary is placed wherever it cuts.
NeverStale(s, item) == FALSE

IsStale(s, item) == item.mode = "summary" /\ item.cut < ActiveFrom(s.entries)

\* Fault: a stale summary leaves the inbox without being settled.
PlaceWriteUnsettled(s, item) ==
  IF IsStale(s, item) THEN s
  ELSE AppendEntry(Settle(s, {item.id}, "done"), Entry(item.mode, item.id, item.cut))

\* One write of a boundary.
PlaceWrite(s, item) ==
  IF IsStale(s, item)
  THEN Settle(s, {item.id}, "unanswered")
  ELSE AppendEntry(Settle(s, {item.id}, "done"), Entry(item.mode, item.id, item.cut))

\* The writes of a boundary, one after the other: each may move the range.
PlaceWrites(s, items) ==
  LET placed[k \in 0..Len(items)] == IF k = 0 THEN s ELSE PlaceWrite(placed[k - 1], items[k])
  IN  placed[Len(items)]

\* The user items of a boundary.
PlaceInputs(s, items) ==
  [Settle(s, {items[k].id : k \in DOMAIN items}, "placed") EXCEPT
     !.entries = @ \o [k \in DOMAIN items |-> Entry("user", items[k].id, 0)]]

\* Fault: one at a time takes the newest.
PickedLast(items, mode, queueMode) ==
  LET of == {i \in DOMAIN items : items[i].mode = mode}
  IN  IF queueMode = "all" \/ of = {} THEN of ELSE {Max(of)}

Picked(items, mode, queueMode) ==
  LET of == {i \in DOMAIN items : items[i].mode = mode}
  IN  IF queueMode = "all" \/ of = {} THEN of ELSE {Min(of)}

ApplyBoundary(s, at) ==
  LET items == s.inbox
      reset == HasQueuedReset(items)
      users == Picked(items, "steer", settings.steering) \cup
               (IF at = "final" \/ reset THEN Picked(items, "followUp", settings.followUp) ELSE {})
      writes == {i \in DOMAIN items : items[i].mode \in WriteKinds}
      chosen == At(items, users)
      placed == PlaceInputs(PlaceWrites(s, At(items, writes)), chosen)
  IN  [conv |-> [placed EXCEPT !.inbox = At(items, DOMAIN items \ (writes \cup users))],
       users |-> [k \in DOMAIN chosen |-> chosen[k].id],
       reset |-> reset]

\* Removes user items from the inbox, their submissions unanswered.
Withdraw(s, ids) ==
  [Settle(s, ids, "unanswered") EXCEPT !.inbox = At(@, {k \in DOMAIN @ : @[k].id \notin ids})]

QueuedInputs(s) == {it.id : it \in {it \in ToSet(s.inbox) : it.mode \notin WriteKinds}}

WithdrawQueuedInputs(s) == Withdraw(s, QueuedInputs(s))

-----------------------------------------------------------------------------
(* Runs                                                                     *)

\* "fly" is what the invocation has under way, "seen" the context preparation
\* read, "sent" counts requests and "resent" those a close stopped, "comp" is the
\* compaction waited for and "cause" why, or how an ended generation was cut
\* short.
NewGeneration ==
  [phase |-> "prepare", status |-> "ready", attempt |-> 1, restarts |-> 0, marked |-> FALSE,
   comp |-> 0, cause |-> "", poll |-> FALSE, tasks |-> FALSE,
   fly |-> "none", seen |-> <<>>, sent |-> 0, resent |-> 0]

CreateGeneration(s) == [s EXCEPT !.gens = Append(@, NewGeneration)]

StartRun(s, inputs, keepFailure) ==
  [CreateGeneration(s) EXCEPT
     !.run = [NoRun EXCEPT !.task = Len(s.gens) + 1, !.inputs = inputs],
     !.failure = IF keepFailure THEN @ ELSE <<>>]

\* StartRun() when a boundary selected user items.
StartNext(b, keepFailure) ==
  IF b.users = <<>> THEN b.conv ELSE StartRun(b.conv, b.users, keepFailure)

\* Fault: the successor's ID is guessed before it is created.
HandOverPast(s, g) == IF s.run.task = g THEN [s EXCEPT !.run.task = Len(s.gens) + 1] ELSE s

\* Fault: the run stays with the generation that ends.
HandOverNever(s, g) == s

HandOver(s, g) == IF s.run.task = g THEN [s EXCEPT !.run.task = Len(s.gens)] ELSE s

EndRun(s, g, status) ==
  LET inputs == s.run.inputs
      settled == CASE s.run.task # g -> s
                   [] s.run.task = g /\ status = "done" ->
                        [Settle(s, ToSet(inputs), "done") EXCEPT !.run = NoRun]
                   [] s.run.task = g /\ status # "done" /\ s.run.answered ->
                        [s EXCEPT !.run = NoRun]
                   [] OTHER ->
                        [Settle(s, ToSet(inputs), status) EXCEPT !.run = NoRun, !.failure = inputs]
  IN  [settled EXCEPT !.partial = "none", !.slots = <<>>]

EndFailedRun(s, g) ==
  LET ended == EndRun(s, g, "unanswered")
  IN  CASE settings.policy = "keep" -> ended
        [] settings.policy = "withdraw" -> WithdrawQueuedInputs(ended)
        [] settings.policy = "continue" -> StartNext(ApplyBoundary(ended, "final"), TRUE)

\* The task record of a generation at its terminal outcome.
End(s, g, cause) == [s EXCEPT !.gens[g] = [NewGeneration EXCEPT !.phase = "ended", !.cause = cause]]

\* A state the task commits: its restarts count from zero.
Moved(s, g, phase, status) ==
  [s EXCEPT !.gens[g] = [@ EXCEPT !.phase = phase, !.status = status, !.restarts = 0,
                                  !.fly = "none", !.seen = <<>>]]

\* admitSubmission(), for a draft it does not reject.
Admit(s, d) ==
  LET id == Len(s.subs) + 1
      New(status) == [s EXCEPT !.subs = Append(@, [kind |-> d.kind, status |-> status, req |-> d.req])]
      mode == IF d.kind # "input" THEN d.kind ELSE IF d.busy = "steer" THEN "steer" ELSE "followUp"
      item == [id |-> id, mode |-> mode, cut |-> d.cut]
      queued == [New("queued") EXCEPT !.inbox = Append(@, item)]
      continued == ApplyBoundary(New("placed"), "final")
      direct == d.kind = "display" /\ ~HasQueuedReset(s.inbox)
      waits == ~direct /\ d.kind # "continue" /\ (Busy(s) \/ s.inbox # <<>>)
  IN  CASE direct -> AppendEntry(New("done"), Entry("display", id, 0))
        [] d.kind = "continue" -> StartRun(continued.conv, Append(continued.users, id), FALSE)
        [] waits /\ Busy(s) -> queued
        [] waits /\ ~Busy(s) -> StartNext(ApplyBoundary(queued, "final"), FALSE)
        [] ~direct /\ ~waits /\ d.kind \in WriteKinds ->
             IF IsStale(s, item) THEN New("unanswered")
             ELSE AppendEntry(New("done"), Entry(d.kind, id, d.cut))
        [] ~waits /\ d.kind = "input" ->
             StartRun(AppendEntry(New("placed"), Entry("user", id, 0)), <<id>>, FALSE)

Rejected(s, d) ==
  \/ d.req # 0 /\ \E i \in DOMAIN s.subs : s.subs[i].req = d.req   \* returned, or a type error
  \/ Busy(s) /\ (d.kind = "continue" \/ (d.kind = "input" /\ d.busy = "reject"))
  \/ ~Busy(s) /\ d.kind = "input" /\ d.idle = "reject"

Submit(d) ==
  /\ Submissions(conv) < MaxSubs /\ Room
  /\ d.kind = "summary" => d.cut \in DOMAIN conv.entries   \* an entry the client has seen
  /\ ~Rejected(conv, d)
  /\ conv' = Admit(conv, d)
  /\ UNCHANGED <<settings, jobs, trouble>>

\* Submission.abort()
AbortSubmission(i) ==
  /\ "withdraw" \in Troubles
  /\ conv.subs[i].status = "queued"
  /\ conv' = Withdraw(conv, {i})
  /\ UNCHANGED <<settings, jobs, trouble>>

-----------------------------------------------------------------------------
(* Tasks as the scheduler drives them                                       *)

CutOffTooOften(t) == t.restarts >= settings.restartLimit

Salvageable(t) == t.restarts <= settings.restartLimit

\* A tool call's task exists and is not terminal.
LiveSlot(s, c) == s.slots[c].st \in {"call", "execute"}

LiveComp(s, k) == s.comps[k].phase # "ended"

\* The ordinary owned work of generation g: its round, the compaction it waits
\* for, and the tasks its afterRun hooks asked for.
OwnsLive(s, g) ==
  \/ s.gens[g].phase = "tools" /\ \E c \in DOMAIN s.slots : LiveSlot(s, c)
  \/ \E k \in DOMAIN s.comps : LiveComp(s, k) /\ s.comps[k].owner = g
  \/ s.gens[g].tasks

\* What a run invocation of g may commit in phase p.
InPhase(g, p) ==
  /\ conv.gens[g].phase = p /\ conv.gens[g].status = "running" /\ ~conv.gens[g].marked

Idle(g) == conv.gens[g].fly = "none"

Gens == DOMAIN conv.gens

\* A reservation: what g waits for is terminal, or its sleep is over; an abort
\* handler waits for the owned work.
Reserve(g) ==
  LET t == conv.gens[g]
  IN  /\ t.phase # "ended" /\ t.status # "running"
      /\ t.marked \/ t.status = "waiting" => ~OwnsLive(conv, g)
      /\ ~(t.marked /\ CutOffTooOften(t))
      /\ conv' = [conv EXCEPT !.gens[g].status = "running"]
      /\ UNCHANGED <<settings, jobs, trouble>>

-----------------------------------------------------------------------------
(* Generation: preparing and sending a request                              *)

\* appendAssistant()
Say(s, g, kind) == AppendEntry(s, Entry(kind, g, s.gens[g].sent))

ConvertPartial(s, g) == IF s.partial = "none" THEN s ELSE Say(s, g, "partial")

\* The provider still works on a response that g polls, or will poll again.
Polls(t) == t.phase = "poll" \/ (t.phase = "retry" /\ t.poll)

CreateCompaction(s, owner, background) ==
  [s EXCEPT !.comps = Append(@, [phase |-> "select", status |-> "ready", owner |-> owner,
                                 background |-> background, restarts |-> 0, marked |-> FALSE,
                                 attempt |-> 1, cut |-> 0, out |-> ""])]

\* The compaction this preparation waited for did not make the request fit.
CompactionFailed(t) ==
  /\ t.comp # 0
  /\ \/ t.cause = "overflow" /\ conv.comps[t.comp].out # "summary"
     \/ t.cause = "threshold" /\ conv.comps[t.comp].out \in {"failed", "aborted"}

\* failModelError(), failNothingToAnswer()
PrepareFails(g) ==
  /\ InPhase(g, "prepare") /\ Idle(g) /\ ~CutOffTooOften(conv.gens[g])
  /\ CompactionFailed(conv.gens[g]) \/ ~Answerable(conv.entries)
  /\ conv' = End(EndFailedRun(conv, g), g, "")
  /\ UNCHANGED <<settings, jobs, trouble>>

\* prepare reads the context off the line and renders the prompt.
PrepareReads(g) ==
  /\ InPhase(g, "prepare") /\ Idle(g) /\ ~CutOffTooOften(conv.gens[g])
  /\ ~CompactionFailed(conv.gens[g]) /\ Answerable(conv.entries)
  /\ conv' = [conv EXCEPT !.gens[g] = [@ EXCEPT !.fly = "prepared", !.seen = Messages(conv.entries)]]
  /\ UNCHANGED <<settings, jobs, trouble>>

MayCompact(t) ==
  t.comp = 0 /\ Cuts(conv.entries) # {} /\ MoreCompactions

\* The context is above the blocking threshold: compact, then prepare again.
PrepareBlocks(g) ==
  /\ InPhase(g, "prepare") /\ conv.gens[g].fly = "prepared"
  /\ MayCompact(conv.gens[g])
  /\ conv' = [CreateCompaction(Moved(conv, g, "prepare", "waiting"), g, FALSE) EXCEPT
                 !.gens[g] = [@ EXCEPT !.comp = Len(conv.comps) + 1, !.cause = "threshold"]]
  /\ UNCHANGED <<settings, jobs, trouble>>

\* To request; above the background threshold with a compaction beside it,
\* unless one is listed or its summary is queued.
PrepareCommits(g) ==
  LET s == [Moved(conv, g, "request", "running") EXCEPT !.gens[g] = [@ EXCEPT !.cause = ""]]
      listed == \/ \E k \in DOMAIN conv.comps : LiveComp(conv, k)
                \/ \E i \in DOMAIN conv.inbox : conv.inbox[i].mode = "summary"
  IN  /\ InPhase(g, "prepare") /\ conv.gens[g].fly = "prepared"
      /\ \/ conv' = s
         \/ MayCompact(conv.gens[g]) /\ ~listed /\ conv' = CreateCompaction(s, 0, TRUE)
      /\ UNCHANGED <<settings, jobs, trouble>>

\* The request phase sends: for the first time, or again after a close, which
\* charges nothing and keeps the partial of the request it stopped.
Request(g) ==
  /\ InPhase(g, "request") /\ Idle(g) /\ conv.gens[g].restarts = 0
  /\ conv' = [ConvertPartial(conv, g) EXCEPT
                 !.partial = "none",
                 !.gens[g] = [@ EXCEPT !.fly = "streaming", !.sent = conv.gens[g].sent + 1]]
  /\ UNCHANGED <<settings, jobs, trouble>>

\* The model is not, or no longer, available.  A deferred response of it
\* cannot be cancelled either.
NoModel(g) ==
  /\ "nomodel" \in Replies
  /\ \E p \in {"prepare", "request", "poll"} : InPhase(g, p)
  /\ Idle(g)
  /\ IF conv.gens[g].phase = "prepare" THEN ~CutOffTooOften(conv.gens[g]) ELSE conv.gens[g].restarts = 0
  /\ conv' = End(EndFailedRun(IF conv.gens[g].phase = "request" THEN ConvertPartial(conv, g) ELSE conv, g),
                 g, "nomodel")
  /\ UNCHANGED <<settings, jobs, trouble>>

\* A throttled progress commit holds a partial in memory first ...
ShowPartial(g) ==
  /\ "partial" \in Replies
  /\ InPhase(g, "request") /\ conv.gens[g].fly = "streaming" /\ conv.partial = "none"
  /\ conv' = [conv EXCEPT !.partial = "memory"]
  /\ UNCHANGED <<settings, jobs, trouble>>

\* ... and stores it with the next commit that reads it, or a timer.
StorePartial ==
  /\ conv.partial = "memory"
  /\ conv' = [conv EXCEPT !.partial = "stored"]
  /\ UNCHANGED <<settings, jobs, trouble>>

-----------------------------------------------------------------------------
(* Generation: classifying the response                                     *)

\* The phase has its response: a request's stream or a poll's fetch ended.
Answered(g) ==
  \/ InPhase(g, "request") /\ conv.gens[g].fly = "streaming"
  \/ InPhase(g, "poll") /\ conv.gens[g].restarts = 0

Deferred(g) ==
  /\ "deferred" \in Replies /\ Answered(g)
  /\ conv' = [Moved(conv, g, "poll", "sleeping") EXCEPT !.partial = "none"]
  /\ jobs' = jobs \cup {g} /\ UNCHANGED <<settings, trouble>>

NewSlot(st) ==
  [st |-> st, status |-> "ready", restarts |-> 0, marked |-> FALSE, fly |-> "none",
   safe |-> FALSE, ran |-> 0, control |-> {}]

\* startToolRound(): a task per call, only the first one of a sequential round.
StartToolRound(g, n) ==
  LET entry == [Entry("calls", g, conv.gens[g].sent) EXCEPT !.calls = n]
      slots == [c \in 1..n |-> NewSlot(IF settings.sequential /\ c > 1 THEN "pending" ELSE "call")]
  IN  /\ "calls" \in Replies /\ Answered(g) /\ MoreRounds
      /\ conv' = [AppendEntry(Moved(conv, g, "tools", "waiting"), entry) EXCEPT
                     !.partial = "none", !.slots = slots,
                     !.run.turns = IF conv.run.task = g THEN @ + 1 ELSE @]
      /\ jobs' = jobs \ {g} /\ UNCHANGED <<settings, trouble>>

\* Fault: the held run keeps its settled inputs.
HoldRunInputs(s, g) ==
  [Settle(Moved(s, g, "finish", "running"), ToSet(s.run.inputs), "done") EXCEPT
     !.run.answered = TRUE, !.partial = "none", !.slots = <<>>]

\* holdRun(): the inputs are settled, the run is kept for its afterRun tasks.
HoldRun(s, g) ==
  [Settle(Moved(s, g, "finish", "running"), ToSet(s.run.inputs), "done") EXCEPT
     !.run.inputs = <<>>, !.run.answered = TRUE, !.partial = "none", !.slots = <<>>]

TakesContinuation(items) == QueuedInputs([inbox |-> items]) = {} /\ ~HasQueuedReset(items)

\* A run that answered ends: what the final boundary selects starts the next.
EndAnswered(s, g) ==
  LET b == ApplyBoundary(s, "final")
  IN  End(StartNext([b EXCEPT !.conv = EndRun(b.conv, g, "done")], FALSE), g, "")

\* answer(), with an onYield hook that asks to continue or not.
Answer(g, continuation) ==
  LET said == Say(conv, g, "answer")
      next == AppendEntry(ApplyBoundary(said, "final").conv, Entry("continuation", 0, 0))
  IN  /\ "answer" \in Replies /\ Answered(g)
      /\ continuation => "continuation" \in Replies /\ MoreRounds
      /\ conv' = CASE continuation /\ TakesContinuation(conv.inbox) ->
                       [End(HandOver(CreateGeneration(next), g), g, "") EXCEPT
                          !.run.turns = 0, !.partial = "none"]
                  [] ~(continuation /\ TakesContinuation(conv.inbox))
                       /\ settings.afterRun /\ conv.run.task = g -> HoldRun(said, g)
                  [] OTHER -> EndAnswered(said, g)
      /\ jobs' = jobs \ {g} /\ UNCHANGED <<settings, trouble>>

\* The request overflowed the context, and a compaction may make it fit.
Overflow(g) ==
  /\ "overflow" \in Replies /\ Answered(g) /\ MayCompact(conv.gens[g])
  /\ conv' = [CreateCompaction(Say(Moved(conv, g, "prepare", "waiting"), g, "error"), g, FALSE)
                 EXCEPT !.partial = "none",
                        !.gens[g] = [@ EXCEPT !.comp = Len(conv.comps) + 1, !.cause = "overflow"]]
  /\ jobs' = jobs \ {g} /\ UNCHANGED <<settings, trouble>>

RetryLeft(g) == conv.gens[g].attempt <= settings.retries

\* An error: retried after a backoff, unless it is permanent.
ModelError(g, permanent) ==
  LET said == Say(conv, g, "error")
  IN  /\ "error" \in Replies /\ Answered(g)
      /\ conv' = IF ~permanent /\ RetryLeft(g)
                 THEN [Moved(said, g, "retry", "sleeping") EXCEPT
                         !.partial = "none", !.gens[g] = [@ EXCEPT !.poll = FALSE]]
                 ELSE End(EndFailedRun(said, g), g, "")
      /\ jobs' = jobs \ {g} /\ UNCHANGED <<settings, trouble>>

\* Fault: an interrupted request is sent again, not charged.
InterruptedResends(g) ==
  /\ InPhase(g, "request")
  /\ conv.gens[g].restarts > 0 /\ ~CutOffTooOften(conv.gens[g])
  /\ conv' = [Moved(ConvertPartial(conv, g), g, "request", "running") EXCEPT !.partial = "none"]
  /\ UNCHANGED <<settings, jobs, trouble>>

\* Fault: the retry of an interrupted poll forgets the handle.
InterruptedForgets(g) ==
  LET t == conv.gens[g]
      kept == ConvertPartial(conv, g)
  IN  /\ InPhase(g, "request") \/ InPhase(g, "poll")
      /\ t.restarts > 0 /\ ~CutOffTooOften(t)
      /\ conv' = IF RetryLeft(g)
                 THEN [Moved(kept, g, "retry", "sleeping") EXCEPT !.partial = "none"]
                 ELSE End(EndFailedRun(kept, g), g, "")
      /\ jobs' = IF RetryLeft(g) THEN jobs ELSE jobs \ {g}
      /\ UNCHANGED <<settings, trouble>>

\* interrupted(): the host stopped during a request or a poll, which charges
\* the attempt; a poll is polled again.
Interrupted(g) ==
  LET t == conv.gens[g]
      kept == ConvertPartial(conv, g)
  IN  /\ InPhase(g, "request") \/ InPhase(g, "poll")
      /\ t.restarts > 0 /\ ~CutOffTooOften(t)
      /\ conv' = IF RetryLeft(g)
                 THEN [Moved(kept, g, "retry", "sleeping") EXCEPT
                         !.partial = "none", !.gens[g] = [@ EXCEPT !.poll = (t.phase = "poll")]]
                 ELSE End(EndFailedRun(kept, g), g, "")
      /\ jobs' = IF RetryLeft(g) THEN jobs ELSE jobs \ {g}   \* cancelDeferred()
      /\ UNCHANGED <<settings, trouble>>

Retry(g) ==
  LET t == conv.gens[g]
      next == Moved(conv, g, IF t.poll THEN "poll" ELSE "prepare", "running")
  IN  /\ InPhase(g, "retry") /\ ~CutOffTooOften(t)
      /\ conv' = [next EXCEPT !.gens[g] = [@ EXCEPT !.attempt = t.attempt + 1, !.poll = FALSE]]
      /\ UNCHANGED <<settings, jobs, trouble>>

Pending(s) == {c \in DOMAIN s.slots : s.slots[c].st = "pending"}

\* The tool-calling answer of the round.
Assistant(s) == Max({i \in DOMAIN s.entries : s.entries[i].kind = "calls"})

\* The calls of a round that ends before it started them: no result is written,
\* the context shows a synthesized one.
Unstarted(s, g) ==
  IF s.gens[g].phase # "tools" THEN s
  ELSE [s EXCEPT !.lost = @ \cup {<<Assistant(s), c>> : c \in Pending(s)}]

\* endCutOff(): past the limit without the cleanup.
EndCutOff(g) ==
  LET t == conv.gens[g]
      kept == IF Salvageable(t) THEN ConvertPartial(conv, g) ELSE conv
      cause == IF Salvageable(t) THEN "" ELSE "limit"
  IN  /\ \E p \in {"prepare", "request", "retry", "poll", "tools"} : InPhase(g, p)
      /\ CutOffTooOften(t)
      /\ conv' = End(EndFailedRun(Unstarted(kept, g), g), g, cause)
      /\ jobs' = IF Salvageable(t) /\ Polls(t) THEN jobs \ {g} ELSE jobs
      /\ UNCHANGED <<settings, trouble>>

-----------------------------------------------------------------------------
(* Generation: the end of a tool round, and the tasks after a run           *)

\* The next call of a sequential round.
NextCall(g) ==
  /\ InPhase(g, "tools") /\ ~CutOffTooOften(conv.gens[g]) /\ Pending(conv) # {}
  /\ conv' = [Moved(conv, g, "tools", "waiting") EXCEPT !.slots[Min(Pending(conv))] = NewSlot("call")]
  /\ UNCHANGED <<settings, jobs, trouble>>

\* Fault: the run goes on behind the reset.
AfterToolsGoesOn(s, g) ==
  LET b == ApplyBoundary(s, "postTools")
      joined == [b.conv EXCEPT !.slots = <<>>,
                               !.run.inputs = IF b.conv.run.task = g THEN @ \o b.users ELSE @]
  IN  HandOver(CreateGeneration(joined), g)

\* The ordinary end of a round: a queued reset ends the run, otherwise the
\* next generation takes it, with the steers the boundary placed.
AfterTools(s, g) ==
  LET b == ApplyBoundary(s, "postTools")
      cut == [b EXCEPT !.conv = EndRun(b.conv, g, "unanswered")]
      joined == [b.conv EXCEPT !.slots = <<>>,
                               !.run.inputs = IF b.conv.run.task = g THEN @ \o b.users ELSE @]
  IN  IF b.reset THEN StartNext(cut, TRUE) ELSE HandOver(CreateGeneration(joined), g)

\* finishToolRound()
FinishToolRound(g) ==
  LET control(c) == conv.slots[c].control
      calls == DOMAIN conv.slots
      terminate == calls # {} /\ \A c \in calls : "terminate" \in control(c)
      s == IF \E c \in calls : "handoff" \in control(c)
           THEN AppendEntry(conv, Entry("handoff", 0, 0)) ELSE conv
      limited == settings.maxTurns # 0 /\ conv.run.task = g /\ conv.run.turns >= settings.maxTurns
  IN  /\ InPhase(g, "tools") /\ ~CutOffTooOften(conv.gens[g]) /\ Pending(conv) = {}
      /\ conv' = CASE terminate /\ settings.afterRun /\ conv.run.task = g -> HoldRun(s, g)
                  [] terminate /\ ~(settings.afterRun /\ conv.run.task = g) -> EndAnswered(s, g)
                  [] ~terminate /\ limited -> End(EndFailedRun(s, g), g, "")
                  [] ~terminate /\ ~limited -> End(AfterTools(s, g), g, "")
      /\ UNCHANGED <<settings, jobs, trouble>>

\* finish: the afterRun hooks ask for tasks, or the run ends.
Finish(g) ==
  /\ InPhase(g, "finish") /\ ~CutOffTooOften(conv.gens[g])
  /\ \/ conv' = [Moved(conv, g, "drain", "waiting") EXCEPT !.gens[g] = [@ EXCEPT !.tasks = TRUE]]
     \/ conv' = EndAnswered(conv, g)
  /\ UNCHANGED <<settings, jobs, trouble>>

\* A task an afterRun hook asked for is terminal, with whatever outcome.
AfterRunTaskEnds(g) ==
  /\ conv.gens[g].tasks
  /\ conv' = [conv EXCEPT !.gens[g].tasks = FALSE]
  /\ UNCHANGED <<settings, jobs, trouble>>

Drain(g) ==
  /\ InPhase(g, "drain") /\ ~CutOffTooOften(conv.gens[g])
  /\ conv' = EndAnswered(conv, g)
  /\ UNCHANGED <<settings, jobs, trouble>>

\* endAnsweredCutOff(): without the boundary.
EndAnsweredCutOff(g) ==
  /\ InPhase(g, "finish") \/ InPhase(g, "drain")
  /\ CutOffTooOften(conv.gens[g])
  /\ conv' = End(EndRun(conv, g, "done"), g, "")
  /\ UNCHANGED <<settings, jobs, trouble>>

-----------------------------------------------------------------------------
(* Tool calls                                                               *)

Results(s, calls) ==
  [s EXCEPT !.entries = @ \o [k \in DOMAIN calls |-> Entry("result", calls[k], Assistant(s))]]

\* settle(): the result entry and the slot's end.
SettleCall(c, control) ==
  conv' = [Results(conv, <<c>>) EXCEPT !.slots[c] = [NewSlot("done") EXCEPT !.control = control]]

\* The run invocation of call c is at phase st with fly under way.
CallAt(c, st, fly) ==
  LET t == conv.slots[c]
  IN  t.st = st /\ t.status = "running" /\ t.fly = fly /\ ~t.marked

ToolReserve(c) ==
  /\ LiveSlot(conv, c) /\ conv.slots[c].status = "ready"
  /\ ~(conv.slots[c].marked /\ CutOffTooOften(conv.slots[c]))
  /\ conv' = [conv EXCEPT !.slots[c].status = "running"]
  /\ UNCHANGED <<settings, jobs, trouble>>

\* Unavailable, invalid or blocked: a result without running the tool.  An
\* afterTool hook may add a control, but not to a call at the restart limit.
ToolReject(c) ==
  /\ CallAt(c, "call", "none")
  /\ \E control \in Controls \cup {{}} :
       /\ CutOffTooOften(conv.slots[c]) => control = {}
       /\ SettleCall(c, control)
  /\ UNCHANGED <<settings, jobs, trouble>>

\* The durable intent, with the replay policy of the tool.
ToolIntent(c) ==
  /\ CallAt(c, "call", "none") /\ ~CutOffTooOften(conv.slots[c])
  /\ \E safe \in BOOLEAN :
       conv' = [conv EXCEPT !.slots[c] = [@ EXCEPT !.st = "execute", !.restarts = 0,
                                                   !.safe = safe, !.fly = "intent"]]
  /\ UNCHANGED <<settings, jobs, trouble>>

Execute(c) ==
  [conv EXCEPT !.slots[c] = [@ EXCEPT !.fly = "running", !.ran = conv.slots[c].ran + 1]]

ToolRuns(c) ==
  /\ CallAt(c, "execute", "intent")
  /\ conv' = Execute(c)
  /\ UNCHANGED <<settings, jobs, trouble>>

\* The tool returned, or threw: then without a control.
ToolEnds(c) ==
  /\ CallAt(c, "execute", "running")
  /\ \E control \in Controls \cup {{}} : SettleCall(c, control)
  /\ UNCHANGED <<settings, jobs, trouble>>

\* Fault: recovery runs every tool again.
ToolReplaysAlways(c) ==
  /\ CallAt(c, "execute", "none") /\ ~CutOffTooOften(conv.slots[c])
  /\ conv' = Execute(c)
  /\ UNCHANGED <<settings, jobs, trouble>>

\* Recovery after the intent: a tool that was and still is safe runs again ...
ToolReplays(c) ==
  /\ CallAt(c, "execute", "none") /\ ~CutOffTooOften(conv.slots[c]) /\ conv.slots[c].safe
  /\ conv' = Execute(c)
  /\ UNCHANGED <<settings, jobs, trouble>>

\* ... any other ends interrupted, as does a call at the restart limit.
ToolInterrupted(c) ==
  /\ CallAt(c, "execute", "none")
  /\ SettleCall(c, {})
  /\ UNCHANGED <<settings, jobs, trouble>>

ToolAborts(c) ==
  /\ LiveSlot(conv, c) /\ conv.slots[c].marked /\ conv.slots[c].status = "running"
  /\ SettleCall(c, {})
  /\ UNCHANGED <<settings, jobs, trouble>>

\* settleSchedulerOutcome(): the slot ends without a result.
CallLost(c) ==
  conv' = [conv EXCEPT !.slots[c] = NewSlot("lost"), !.lost = @ \cup {<<Assistant(conv), c>>}]

\* The task's code threw, a phase or the abort handler ...
ToolFaults(c) ==
  /\ MoreTrouble("fault")
  /\ LiveSlot(conv, c) /\ conv.slots[c].status = "running"
  /\ CallLost(c)
  /\ trouble' = trouble + 1 /\ UNCHANGED <<settings, jobs>>

\* ... or its abort handler was cut off too often.
ToolEnded(c) ==
  /\ LiveSlot(conv, c) /\ conv.slots[c].marked /\ CutOffTooOften(conv.slots[c])
  /\ CallLost(c)
  /\ UNCHANGED <<settings, jobs, trouble>>

-----------------------------------------------------------------------------
(* Compactions                                                              *)

Comps == DOMAIN conv.comps

CompAt(k, phase) ==
  LET t == conv.comps[k]
  IN  t.phase = phase /\ t.status = "running" /\ ~t.marked

EndComp(s, k, out) ==
  [s EXCEPT !.comps[k] = [@ EXCEPT !.phase = "ended", !.status = "ready", !.restarts = 0,
                                   !.marked = FALSE, !.attempt = 0, !.cut = 0, !.out = out]]

CompMoved(k, phase, status) ==
  [conv EXCEPT !.comps[k] = [@ EXCEPT !.phase = phase, !.status = status, !.restarts = 0]]

\* Conversation.compact()
Compact ==
  /\ MoreCompactions
  /\ conv' = CreateCompaction(conv, 0, FALSE)
  /\ UNCHANGED <<settings, jobs, trouble>>

CompReserve(k) ==
  LET t == conv.comps[k]
  IN  /\ LiveComp(conv, k) /\ t.status # "running" /\ ~(t.marked /\ CutOffTooOften(t))
      /\ conv' = [conv EXCEPT !.comps[k].status = "running"]
      /\ UNCHANGED <<settings, jobs, trouble>>

\* Nothing to compact, or a hook declined.
CompNothing(k) ==
  /\ CompAt(k, "select") /\ ~CutOffTooOften(conv.comps[k])
  /\ conv' = EndComp(conv, k, "nothing")
  /\ UNCHANGED <<settings, jobs, trouble>>

CompSelect(k) ==
  /\ CompAt(k, "select") /\ ~CutOffTooOften(conv.comps[k])
  /\ \E cut \in Cuts(conv.entries) :
       conv' = [CompMoved(k, "summarize", "running") EXCEPT !.comps[k].cut = cut]
  /\ UNCHANGED <<settings, jobs, trouble>>

\* Fault: every compaction appends its summary.
CompPlaceDirect(k) ==
  LET t == conv.comps[k]
  IN  /\ CompAt(k, "summarize") /\ ~CutOffTooOften(t)
      /\ conv' = EndComp(AppendEntry(conv, Entry("summary", 0, t.cut)), k, "summary")
      /\ UNCHANGED <<settings, jobs, trouble>>

\* placeSummary(): a blocking compaction appends, any other submits a write.
CompPlace(k) ==
  LET t == conv.comps[k]
      draft == [kind |-> "summary", busy |-> "followUp", idle |-> "run", cut |-> t.cut, req |-> 0]
  IN  /\ CompAt(k, "summarize") /\ ~CutOffTooOften(t)
      /\ conv' = IF t.owner # 0
                 THEN EndComp(AppendEntry(conv, Entry("summary", 0, t.cut)), k, "summary")
                 ELSE EndComp(Admit(conv, draft), k, "summary")
      /\ UNCHANGED <<settings, jobs, trouble>>

\* The summary failed: a retry after a backoff, or the end, at once if the
\* error is permanent.
CompError(k, permanent) ==
  LET t == conv.comps[k]
  IN  /\ "error" \in Replies /\ CompAt(k, "summarize") /\ ~CutOffTooOften(t)
      /\ conv' = IF ~permanent /\ t.attempt <= settings.retries THEN CompMoved(k, "retry", "sleeping")
                 ELSE EndComp(conv, k, "failed")
      /\ UNCHANGED <<settings, jobs, trouble>>

CompNoModel(k) ==
  /\ "nomodel" \in Replies
  /\ CompAt(k, "select") \/ CompAt(k, "summarize")
  /\ ~CutOffTooOften(conv.comps[k])
  /\ conv' = EndComp(conv, k, "failed")
  /\ UNCHANGED <<settings, jobs, trouble>>

CompRetry(k) ==
  /\ CompAt(k, "retry") /\ ~CutOffTooOften(conv.comps[k])
  /\ conv' = [CompMoved(k, "summarize", "running") EXCEPT !.comps[k].attempt = conv.comps[k].attempt + 1]
  /\ UNCHANGED <<settings, jobs, trouble>>

CompCutOff(k) ==
  LET t == conv.comps[k]
  IN  /\ LiveComp(conv, k) /\ t.status = "running" /\ ~t.marked /\ CutOffTooOften(t)
      /\ conv' = EndComp(conv, k, "failed")
      /\ UNCHANGED <<settings, jobs, trouble>>

\* The abort handler, or the end of one cut off too often.
CompAborts(k) ==
  LET t == conv.comps[k]
  IN  /\ LiveComp(conv, k) /\ t.marked
      /\ t.status = "running" \/ CutOffTooOften(t)
      /\ conv' = EndComp(conv, k, "aborted")
      /\ UNCHANGED <<settings, jobs, trouble>>

\* settleSchedulerOutcome(): its code threw.
CompFaults(k) ==
  /\ MoreTrouble("fault")
  /\ LiveComp(conv, k) /\ conv.comps[k].status = "running"
  /\ conv' = EndComp(conv, k, "failed")
  /\ trouble' = trouble + 1 /\ UNCHANGED <<settings, jobs>>

-----------------------------------------------------------------------------
(* Aborts, faults, crashes and closes                                       *)

\* withAbortMark(): the run invocation ends, and restarts count from zero.
MarkSlots(s, C) ==
  [s EXCEPT !.slots = [c \in DOMAIN s.slots |->
     IF c \in C /\ LiveSlot(s, c) /\ ~s.slots[c].marked
     THEN [s.slots[c] EXCEPT !.marked = TRUE, !.status = "ready", !.fly = "none", !.restarts = 0]
     ELSE s.slots[c]]]

MarkComps(s, K) ==
  [s EXCEPT !.comps = [k \in DOMAIN s.comps |->
     IF k \in K /\ LiveComp(s, k) /\ ~s.comps[k].marked
     THEN [s.comps[k] EXCEPT !.marked = TRUE, !.status = "ready", !.restarts = 0]
     ELSE s.comps[k]]]

MarkGens(s, G) ==
  [s EXCEPT !.gens = [g \in DOMAIN s.gens |->
     IF g \in G /\ s.gens[g].phase # "ended" /\ ~s.gens[g].marked
     THEN [s.gens[g] EXCEPT !.marked = TRUE, !.status = "ready", !.fly = "none", !.seen = <<>>,
                            !.restarts = 0]
     ELSE s.gens[g]]]

\* Conversation.abort(): marks all but background tasks, withdraws inputs.
AbortConversation ==
  LET foreground == {k \in Comps : ~conv.comps[k].background}
      calls == DOMAIN conv.slots
  IN  /\ MoreTrouble("abort")
      /\ conv' = WithdrawQueuedInputs(MarkSlots(MarkComps(MarkGens(conv, Gens), foreground), calls))
      /\ trouble' = trouble + 1 /\ UNCHANGED <<settings, jobs>>

\* abortTask() of a tool call or a compaction ...
AbortWork(C, K) ==
  LET marked == MarkComps(MarkSlots(conv, C), K)
  IN  /\ MoreTrouble("abortWork")
      /\ marked # conv /\ conv' = marked
      /\ trouble' = trouble + 1 /\ UNCHANGED <<settings, jobs>>

\* ... or of a generation ...
AbortTask(g) ==
  /\ MoreTrouble("abortTask")
  /\ conv.gens[g].phase # "ended" /\ ~conv.gens[g].marked
  /\ conv' = MarkGens(conv, {g})
  /\ trouble' = trouble + 1 /\ UNCHANGED <<settings, jobs>>

\* ... reaches what it owns in a later commit.
Cascade(g) ==
  LET owned == {k \in Comps : conv.comps[k].owner = g}
      calls == IF conv.gens[g].phase = "tools" THEN DOMAIN conv.slots ELSE {}
      marked == MarkComps(MarkSlots(conv, calls), owned)
  IN  /\ conv.gens[g].marked /\ marked # conv
      /\ conv' = marked
      /\ UNCHANGED <<settings, jobs, trouble>>

\* Fault: the calls an aborted round never started get no results.
AbortsBare(g) ==
  LET t == conv.gens[g]
  IN  /\ t.phase # "ended" /\ t.marked /\ t.status = "running"
      /\ conv' = End(EndRun(ConvertPartial(conv, g), g, "unanswered"), g, "")
      /\ jobs' = IF Polls(t) THEN jobs \ {g} ELSE jobs
      /\ UNCHANGED <<settings, trouble>>

\* The abort handler: keeps the partial, gives unstarted calls results, and
\* cancels a deferred response.
Aborts(g) ==
  LET t == conv.gens[g]
      unstarted == IF t.phase = "tools" THEN InOrder(Pending(conv), Len(conv.slots)) ELSE <<>>
      answered == Results(ConvertPartial(conv, g), unstarted)
  IN  /\ t.phase # "ended" /\ t.marked /\ t.status = "running"
      /\ conv' = End(EndRun(answered, g, "unanswered"), g, "")
      /\ jobs' = IF Polls(t) THEN jobs \ {g} ELSE jobs
      /\ UNCHANGED <<settings, trouble>>

\* Fault: the scheduler ends the task without ending its run.
FaultsAlone(g) ==
  /\ MoreTrouble("fault")
  /\ conv.gens[g].phase # "ended" /\ conv.gens[g].status = "running" /\ ~conv.gens[g].marked
  /\ conv' = End(conv, g, "fault")
  /\ trouble' = trouble + 1 /\ UNCHANGED <<settings, jobs>>

\* settleSchedulerOutcome(): a phase or the abort handler threw ...
Faults(g) ==
  LET t == conv.gens[g]
  IN  /\ MoreTrouble("fault")
      /\ t.phase # "ended" /\ t.status = "running"
      /\ conv' = End(EndRun(Unstarted(ConvertPartial(conv, g), g), g, "unanswered"), g, "fault")
      /\ trouble' = trouble + 1 /\ UNCHANGED <<settings, jobs>>

\* ... or the abort handler was cut off too often: the partial may be why.
SchedulerEnds(g) ==
  LET t == conv.gens[g]
  IN  /\ t.phase # "ended" /\ t.marked /\ CutOffTooOften(t) /\ ~OwnsLive(conv, g)
      /\ conv' = End(EndRun(Unstarted(conv, g), g, "unanswered"), g, "fault")
      /\ UNCHANGED <<settings, jobs, trouble>>

\* A task when its host stops: what ran is to run again, and a crash counts.
Stopped(t, n) ==
  IF t.status = "running" THEN [t EXCEPT !.status = "ready", !.restarts = @ + n] ELSE t

\* The host stops, with something under way, and another opens the conversation,
\* with n restarts counted and this partial left.
Reopens(n, partial) ==
  /\ conv' = [conv EXCEPT
       !.gens = [g \in Gens |->
                   LET t == conv.gens[g]
                       unpaid == IF n = 0 /\ t.fly = "streaming" THEN 1 ELSE 0
                   IN  [Stopped(t, n) EXCEPT !.fly = "none", !.seen = <<>>, !.resent = t.resent + unpaid]],
       !.slots = [c \in DOMAIN conv.slots |-> [Stopped(conv.slots[c], n) EXCEPT !.fly = "none"]],
       !.comps = [k \in Comps |-> Stopped(conv.comps[k], n)],
       !.partial = partial]
  /\ conv' # conv

\* The process dies: a partial that only it held is gone.
Crash ==
  /\ MoreTrouble("crash")
  /\ Reopens(1, IF conv.partial = "memory" THEN "none" ELSE conv.partial)
  /\ trouble' = trouble + 1 /\ UNCHANGED <<settings, jobs>>

\* close(): no commit is admitted after its seal; it signals and joins the
\* invocations, writes their tasks back uncounted and stores held progress.
Close ==
  /\ MoreTrouble("close")
  /\ Reopens(0, IF conv.partial = "memory" THEN "stored" ELSE conv.partial)
  /\ trouble' = trouble + 1 /\ UNCHANGED <<settings, jobs>>

-----------------------------------------------------------------------------
Init ==
  /\ settings \in SettingsSet
  /\ conv = [subs |-> <<>>, inbox |-> <<>>, entries |-> <<>>, run |-> NoRun, gens |-> <<>>,
             slots |-> <<>>, comps |-> <<>>, partial |-> "none", failure |-> <<>>, lost |-> {}]
  /\ jobs = {} /\ trouble = 0

Client ==
  \/ \E d \in Drafts : Submit(d)
  \/ \E i \in DOMAIN conv.subs : AbortSubmission(i)
  \/ Compact

Generation(g) ==
  \/ Reserve(g) \/ PrepareFails(g) \/ PrepareReads(g) \/ PrepareBlocks(g) \/ PrepareCommits(g)
  \/ Request(g) \/ Interrupted(g) \/ Retry(g) \/ EndCutOff(g)
  \/ NextCall(g) \/ FinishToolRound(g) \/ Finish(g) \/ Drain(g) \/ EndAnsweredCutOff(g)
  \/ AfterRunTaskEnds(g) \/ Cascade(g) \/ Aborts(g) \/ SchedulerEnds(g)

Reply(g) ==
  \/ \E n \in 1..MaxCalls : StartToolRound(g, n)
  \/ \E continuation \in BOOLEAN : Answer(g, continuation)
  \/ \E permanent \in BOOLEAN : ModelError(g, permanent)
  \/ Overflow(g)

Tool(c) ==
  \/ ToolReserve(c) \/ ToolReject(c) \/ ToolIntent(c) \/ ToolRuns(c) \/ ToolEnds(c)
  \/ ToolReplays(c) \/ ToolInterrupted(c) \/ ToolAborts(c) \/ ToolEnded(c)

Compaction(k) ==
  \/ CompReserve(k) \/ CompNothing(k) \/ CompSelect(k) \/ CompPlace(k)
  \/ \E permanent \in BOOLEAN : CompError(k, permanent)
  \/ CompNoModel(k) \/ CompRetry(k) \/ CompCutOff(k) \/ CompAborts(k)

Next ==
  \/ Client
  \/ \E g \in Gens : Generation(g) \/ Reply(g) \/ Deferred(g) \/ ShowPartial(g) \/ NoModel(g)
                     \/ AbortTask(g) \/ Faults(g)
  \/ StorePartial
  \/ \E c \in DOMAIN conv.slots : Tool(c) \/ ToolFaults(c)
  \/ \E k \in Comps : Compaction(k) \/ CompFaults(k)
  \/ \E c \in DOMAIN conv.slots : AbortWork({c}, {})
  \/ \E k \in Comps : AbortWork({}, {k})
  \/ AbortConversation \/ Crash \/ Close

Spec == Init /\ [][Next]_vars

\* Hosts keep running: the scheduler invokes due tasks, phases, tools and
\* summaries end, and a provider does not defer a response forever.
FairSpec ==
  /\ Spec
  /\ WF_vars(\E g \in Gens : Generation(g))
  /\ SF_vars(\E g \in Gens : Reply(g))
  /\ WF_vars(\E c \in DOMAIN conv.slots : Tool(c))
  /\ WF_vars(\E k \in Comps : Compaction(k))

-----------------------------------------------------------------------------
(* Properties                                                               *)

Statuses == {"ready", "running", "waiting", "sleeping"}

Sub == [kind : {"input", "continue"} \cup WriteKinds,
        status : {"queued", "placed", "done", "unanswered"}, req : Nat]

Item == [id : Nat, mode : {"steer", "followUp"} \cup WriteKinds, cut : Nat]

SaidKinds == {"answer", "calls", "partial", "error"}

EntryType == [kind : SaidKinds \cup {"user", "result", "handoff", "continuation"} \cup WriteKinds,
              n : Nat, m : Nat, calls : Nat]

Run == [task : Nat, inputs : Seq(Nat), turns : Nat, answered : BOOLEAN]

Gen == [phase : {"prepare", "request", "retry", "poll", "tools", "finish", "drain", "ended"},
        status : Statuses, attempt : Nat, restarts : Nat, marked : BOOLEAN, comp : Nat,
        cause : {"", "threshold", "overflow", "nomodel", "limit", "fault"}, poll : BOOLEAN,
        tasks : BOOLEAN, fly : {"none", "prepared", "streaming"}, seen : Seq(Nat), sent : Nat, resent : Nat]

Slot == [st : {"pending", "call", "execute", "done", "lost"}, status : Statuses, restarts : Nat,
         marked : BOOLEAN, fly : {"none", "intent", "running"}, safe : BOOLEAN, ran : Nat,
         control : SUBSET {"terminate", "handoff"}]

Comp == [phase : {"select", "summarize", "retry", "ended"}, status : Statuses, owner : Nat,
         background : BOOLEAN, restarts : Nat, marked : BOOLEAN, attempt : Nat, cut : Nat,
         out : {"", "summary", "nothing", "failed", "aborted"}]

Conv == [subs : Seq(Sub), inbox : Seq(Item), entries : Seq(EntryType), run : Run, gens : Seq(Gen),
         slots : Seq(Slot), comps : Seq(Comp), partial : {"none", "memory", "stored"},
         failure : Seq(Nat), lost : SUBSET (Nat \X Nat)]

\* Types of the conversation's records and tasks, and that the tasks they name
\* exist.
TypeOK ==
  /\ settings \in SettingsSet /\ conv \in Conv /\ trouble \in 0..MaxTrouble
  /\ jobs \subseteq Gens /\ conv.run.task \in {0} \cup Gens
  /\ \A g \in Gens : conv.gens[g].comp \in {0} \cup Comps

\* No input is lost, placed twice or forgotten in a run: the status of a
\* submission says where it is, in the inbox or in the inputs of the live run,
\* exactly once there; a placed input has exactly one entry; inbox items are in
\* ID order; and a request ID has one submission however often it is sent
\* (admitSubmission, applyBoundary, endRun, withdrawQueuedInputs).
InputsAccounted ==
  LET times(seq, P(_)) == Cardinality({k \in DOMAIN seq : P(seq[k])})
  IN  /\ \A i \in DOMAIN conv.subs :
           LET sub == conv.subs[i]
               placedAs == times(conv.entries, LAMBDA e : e.kind = "user" /\ e.n = i)
           IN  /\ times(conv.inbox, LAMBDA it : it.id = i) = IF sub.status = "queued" THEN 1 ELSE 0
               /\ times(conv.run.inputs, LAMBDA j : j = i) = IF sub.status = "placed" THEN 1 ELSE 0
               /\ sub.kind = "input" =>
                    \/ placedAs = 0 /\ sub.status \in {"queued", "unanswered"}
                    \/ placedAs = 1 /\ sub.status # "queued"
               /\ sub.req # 0 => times(conv.subs, LAMBDA o : o.req = sub.req) = 1
      /\ \A j, k \in DOMAIN conv.inbox : j < k => conv.inbox[j].id < conv.inbox[k].id

\* A busy conversation has exactly one live generation, the one that owns the
\* run, and an idle one has none: it is never stuck busy with nobody to end the
\* run, and two generations never answer it at once (startRun, handOver,
\* endRun, settleSchedulerOutcome).
RunOwned ==
  {g \in Gens : conv.gens[g].phase # "ended"} = IF Busy(conv) THEN {conv.run.task} ELSE {}

\* Nothing but the run itself changes what the model sees while a request is
\* prepared: the context read off the line is still the context when the
\* request is committed, whatever was submitted, written or compacted meanwhile.
ContextCurrent ==
  \A g \in Gens : conv.gens[g].fly = "prepared" => conv.gens[g].seen = Messages(conv.entries)

\* An input never runs in a context a reset cut it out of: what was queued
\* before a reset is placed after it, and a reset placed behind a run's input
\* ends that run (applyBoundary, finishToolRound).
ResetNeverCutsRun ==
  \A i \in ToSet(conv.run.inputs) :
    \A p, r \in DOMAIN conv.entries :
      conv.entries[p].kind = "user" /\ conv.entries[p].n = i /\ conv.entries[r].kind = "reset" => r < p

\* Each call of an answer gets exactly one result, before the next answer, so
\* that the context pairs them: also when the round is aborted between two
\* sequential calls, or a crash interrupts it.  Only a call whose task faulted,
\* or that a faulted or cut off generation never started, is left without one.
RoundsAnswered ==
  \A p \in DOMAIN conv.entries : conv.entries[p].kind = "calls" =>
    \A c \in 1..conv.entries[p].calls :
      LET es == conv.entries
          results == {r \in DOMAIN es : es[r].kind = "result" /\ es[r].m = p /\ es[r].n = c}
          open == /\ p = Assistant(conv) /\ \E g \in Gens : conv.gens[g].phase = "tools"
                  /\ conv.slots[c].st \notin {"done", "lost"}
      IN  /\ Cardinality(results) = IF open \/ <<p, c>> \in conv.lost THEN 0 ELSE 1
          /\ \A r \in results : p < r /\ \A a \in p..r : a # p => Role(es[a]) # "assistant"

\* A tool that may not be replayed is executed at most once, whatever crashes:
\* the intent is durable before the tool runs (ToolTask phases call, execute).
UnsafeRunsOnce == \A c \in DOMAIN conv.slots : conv.slots[c].ran > 1 => conv.slots[c].safe

\* Every request is paid for and shown once.  A generation sends one request, one
\* for each retry, one for the context a compaction made fit, and again only a
\* request that a close stopped: however often a host dies, its request is
\* charged to the next attempt.  And a request leaves at most one assistant
\* entry: the partial kept for an aborted, interrupted or stopped request is
\* never kept twice, nor beside the whole response (interrupted, request,
\* convertPartial and the commits that clear live.generation).
RequestsCounted ==
  LET said == {i \in DOMAIN conv.entries :
                 conv.entries[i].kind \in SaidKinds}
      of(i) == <<conv.entries[i].n, conv.entries[i].m>>
      paid(t) == settings.retries + 1 + (IF t.comp = 0 THEN 0 ELSE 1)
  IN  /\ \A g \in Gens : conv.gens[g].sent <= paid(conv.gens[g]) + conv.gens[g].resent
      /\ \A i, j \in said : of(i) = of(j) => i = j

\* A deferred response the provider works on is polled again or cancelled, and
\* never asked for anew: only a fault, a missing model or the restart limit's
\* last resort leave it running (interrupted, retry, cancelDeferred).
JobTracked ==
  \A g \in jobs : \/ Polls(conv.gens[g])
                  \/ conv.gens[g].phase = "ended" /\ conv.gens[g].cause \in {"nomodel", "fault", "limit"}

\* The active range never grows back: a summary that was selected before a
\* reset or another summary moved the range is stale, wherever it lands
\* (isStale, placeSummary).
HeadsMoveForward == [][ActiveFrom(conv.entries') >= ActiveFrom(conv.entries)]_conv

FateOf(sub) ==
  CASE sub.kind \in WriteKinds -> "write"
    [] sub.kind \notin WriteKinds /\ sub.status = "queued" -> "waiting"
    [] sub.kind \notin WriteKinds /\ sub.status = "placed" -> "held"
    [] OTHER -> sub.status

Fates(s) == [i \in DOMAIN s.subs |-> FateOf(s.subs[i])]

WaitingIn(s, mode) ==
  LET items == At(s.inbox, {k \in DOMAIN s.inbox : s.inbox[k].mode = mode})
  IN  [k \in DOMAIN items |-> items[k].id]

Contract == INSTANCE InputContract WITH
  fate <- Fates(conv), steers <- WaitingIn(conv, "steer"), followUps <- WaitingIn(conv, "followUp")

\* The conversation keeps what it promises for its inputs: taken in turn,
\* settled together, for good (InputContract).
KeepsInputs == Contract!Spec

\* Every input that a run took is settled: runs end, through retries, polls,
\* tool rounds, compactions, aborts and crashes.
InputsSettle ==
  \A n \in 1..MaxSubs :
    LET clients == {i \in DOMAIN conv.subs : conv.subs[i].kind # "summary"}
        has(S) == \E i \in clients : conv.subs[i].status \in S /\ Cardinality(clients \cap 1..i) = n
    IN  has({"placed"}) ~> has({"done", "unanswered"})

-----------------------------------------------------------------------------
(* What makes the invariants of the tasks inductive                         *)

\* Results and losses refer to an answer that stands in the transcript.
CallsKnown == conv.slots # <<>> => \E i \in DOMAIN conv.entries : conv.entries[i].kind = "calls"

\* Before its intent is durable a tool has not run.
SlotsOnce ==
  /\ UnsafeRunsOnce
  /\ \A c \in DOMAIN conv.slots :
       conv.slots[c].st = "call" \/ conv.slots[c].fly = "intent" => conv.slots[c].ran = 0

\* What is under way in memory belongs to a run invocation of that phase.
Flying ==
  \A g \in Gens : LET t == conv.gens[g] IN
    t.fly # "none" => /\ t.status = "running" /\ ~t.marked
                      /\ t.phase = IF t.fly = "prepared" THEN "prepare" ELSE "request"

\* The request of this phase is still to be sent.
Unsent(t) == t.phase = "request" /\ t.fly = "none" /\ t.restarts = 0 /\ ~t.marked

\* Every request is paid for by an attempt, by the one compaction or by a close.
Charged ==
  \A g \in Gens :
    LET t == conv.gens[g]
        paid == t.attempt + (IF t.comp = 0 THEN 0 ELSE 1) + t.resent
    IN  /\ t.attempt <= settings.retries + (IF t.phase = "retry" THEN 0 ELSE 1)
        /\ t.sent <= paid
        /\ t.phase = "prepare" \/ Unsent(t) => t.sent < paid

SaidBy(es, g, m) == \E i \in DOMAIN es : es[i].kind \in SaidKinds /\ es[i].n = g /\ es[i].m = m

\* A request that may still get its entry has none; a shown partial belongs to
\* such a request, also when a close stopped it.
SaidOnce ==
  /\ \A i \in DOMAIN conv.entries : conv.entries[i].kind \in SaidKinds =>
       /\ conv.entries[i].n \in Gens
       /\ conv.gens[conv.entries[i].n].phase # "ended" =>
            conv.entries[i].m <= conv.gens[conv.entries[i].n].sent
  /\ \A i, j \in DOMAIN conv.entries :
       /\ conv.entries[i].kind \in SaidKinds /\ conv.entries[j].kind \in SaidKinds
       /\ conv.entries[i].n = conv.entries[j].n /\ conv.entries[i].m = conv.entries[j].m
       => i = j
  /\ \A g \in Gens : LET t == conv.gens[g] IN
       /\ conv.partial # "none" /\ t.phase # "ended" => t.phase = "request"
       /\ \/ Polls(t) \/ t.fly = "streaming"
          \/ conv.partial # "none" /\ t.phase # "ended"
          => ~SaidBy(conv.entries, g, t.sent)
  /\ conv.partial # "none" => Busy(conv)

ConvInv ==
  /\ TypeOK /\ CallsKnown /\ RunOwned /\ SlotsOnce /\ JobTracked /\ Flying /\ Charged
  /\ SaidOnce

-----------------------------------------------------------------------------
(* What makes the invariants of the context inductive                       *)

\* A head is no later than the transcript's end, nor is one still to be placed.
HeadsKnown(s) ==
  /\ ActiveFrom(s.entries) <= Len(s.entries)
  /\ \A k \in DOMAIN s.inbox : s.inbox[k].mode = "summary" => s.inbox[k].cut <= Len(s.entries)

\* A generation that does nothing, or an aborted one that is not cleaned up yet.
Parked(t) == t.status = "waiting" \/ (t.marked /\ t.status = "ready")

\* A compaction that its generation waits for: the generation does nothing until
\* it ends, so the range it cuts stays the active one.
Awaited(k) ==
  LET t == conv.comps[k]
      g == t.owner
  IN  /\ g \in Gens /\ conv.gens[g].phase = "prepare" /\ conv.gens[g].comp = k
      /\ Parked(conv.gens[g])
      /\ t.phase \in {"summarize", "retry"} => ActiveFrom(conv.entries) <= t.cut

CompsKnown ==
  \A k \in Comps : /\ conv.comps[k].cut <= Len(conv.entries)
                   /\ LiveComp(conv, k) /\ conv.comps[k].owner # 0 => Awaited(k)

InRound == \E g \in Gens : conv.gens[g].phase = "tools"

RoundOpen == conv.slots # <<>> => InRound

ContextInv == HeadsKnown(conv) /\ ContextCurrent /\ CompsKnown /\ RoundOpen

-----------------------------------------------------------------------------
(* What makes the invariants of the inputs inductive                        *)

\* A placed input stands in the transcript, once, until its run is over and after;
\* a request ID belongs to one submission.
SubsSound(s) ==
  /\ \A i \in DOMAIN s.subs : LET sub == s.subs[i] IN
       /\ sub.status = "placed" => sub.kind \notin WriteKinds
       /\ sub.kind = "input" /\ sub.status \in {"placed", "done"} =>
            \E p \in DOMAIN s.entries : s.entries[p].kind = "user" /\ s.entries[p].n = i
       /\ \A j \in DOMAIN s.subs : sub.req # 0 /\ sub.req = s.subs[j].req => i = j
  /\ \A p \in DOMAIN s.entries : s.entries[p].kind = "user" =>
       /\ s.entries[p].n \in DOMAIN s.subs /\ s.subs[s.entries[p].n].status # "queued"
       /\ \A q \in DOMAIN s.entries :
            s.entries[q].kind = "user" /\ s.entries[q].n = s.entries[p].n => p = q

\* The inbox has the queued submissions, in the order of their IDs.
QueueSound(s) ==
  /\ \A k \in DOMAIN s.inbox : LET it == s.inbox[k] IN
       /\ it.id \in DOMAIN s.subs /\ s.subs[it.id].status = "queued"
       /\ it.mode \in WriteKinds <=> s.subs[it.id].kind \in WriteKinds
  /\ \A j, k \in DOMAIN s.inbox : j < k => s.inbox[j].id < s.inbox[k].id
  /\ \A i \in DOMAIN s.subs : s.subs[i].status = "queued" => \E k \in DOMAIN s.inbox : s.inbox[k].id = i

\* held has the placed submissions, each once.
Holds(s, held) ==
  /\ ToSet(held) = {i \in DOMAIN s.subs : s.subs[i].status = "placed"}
  /\ \A j, k \in DOMAIN held : held[j] = held[k] => j = k

\* Every submission of s is where its status says, with held the inputs that a
\* run has or is about to get.
Accounted(s, held) == SubsSound(s) /\ QueueSound(s) /\ Holds(s, held)

\* Every reset of s is before these inputs.
Uncut(s, held) ==
  \A k \in DOMAIN held : \A p, r \in DOMAIN s.entries :
    s.entries[p].kind = "user" /\ s.entries[p].n = held[k] /\ s.entries[r].kind = "reset" => r < p

\* A run that answered is kept for its afterRun tasks only: it has no inputs, and
\* no round or retry takes it on.
AnsweredHeld ==
  conv.run.answered => /\ conv.run.inputs = <<>>
                       /\ conv.gens[conv.run.task].phase \in {"finish", "drain"}

InputsInv == Accounted(conv, conv.run.inputs) /\ Uncut(conv, conv.run.inputs) /\ AnsweredHeld

-----------------------------------------------------------------------------
(* What makes the invariant of the tool rounds inductive                    *)

ResultsOf(es, p, c) == {r \in DOMAIN es : es[r].kind = "result" /\ es[r].m = p /\ es[r].n = c}

\* Call c of the answer at p has one result, behind its answer and before the
\* next, or none if it is one of these.
Settled(es, p, c, bare) ==
  /\ IF <<p, c>> \in bare THEN ResultsOf(es, p, c) = {} ELSE \E r \in DOMAIN es : ResultsOf(es, p, c) = {r}
  /\ \A r \in ResultsOf(es, p, c) : p < r /\ \A a \in (p + 1)..r : Role(es[a]) # "assistant"

Paired(es, bare) ==
  \A p \in DOMAIN es : es[p].kind = "calls" => \A c \in 1..es[p].calls : Settled(es, p, c, bare)

\* Results and losses are of answers before them.
ResultsKnown(s) ==
  /\ \A r \in DOMAIN s.entries : s.entries[r].kind = "result" => s.entries[r].m < r
  /\ \A x \in s.lost : x[1] <= Len(s.entries)

\* The calls of a round that are still to be settled.
Unsettled(s) == {c \in DOMAIN s.slots : s.slots[c].st \in {"pending", "call", "execute"}}

\* The slots are those of the answer at p, the last one.
RoundAt(s, p) ==
  /\ p \in DOMAIN s.entries /\ s.entries[p].kind = "calls" /\ s.entries[p].calls = Len(s.slots)
  /\ \A a \in DOMAIN s.entries : a > p => Role(s.entries[a]) # "assistant"
  /\ \A c \in DOMAIN s.slots : <<p, c>> \in s.lost => s.slots[c].st = "lost"
  /\ Paired(s.entries, s.lost \cup {<<p, c>> : c \in Unsettled(s)})

\* A generation that runs, or is to run, has no call under way.
RoundIdle ==
  \A g \in Gens : conv.gens[g].phase = "tools" /\ ~Parked(conv.gens[g]) =>
    \A c \in DOMAIN conv.slots : ~LiveSlot(conv, c)

RoundsInv ==
  /\ ResultsKnown(conv) /\ RoundIdle
  /\ IF InRound THEN \E p \in DOMAIN conv.entries : RoundAt(conv, p) ELSE Paired(conv.entries, conv.lost)

\* All of it.
WholeInv == ConvInv /\ ContextInv /\ InputsInv /\ RoundsInv

=============================================================================
