------------------------- MODULE MCConversationRuns -------------------------
(***************************************************************************)
(* Small conversations for ConversationRuns.                               *)
(***************************************************************************)
EXTENDS ConversationRuns

D(kind, busy, idle, req) == [kind |-> kind, busy |-> busy, idle |-> idle, cut |-> 0, req |-> req]

S(policy, steering, followUp, sequential, afterRun, retries, restartLimit, maxTurns) ==
  [policy |-> policy, steering |-> steering, followUp |-> followUp, sequential |-> sequential,
   afterRun |-> afterRun, retries |-> retries, restartLimit |-> restartLimit,
   maxTurns |-> maxTurns]

\* Queueing: every kind of draft, one input with a request ID.
InboxDrafts ==
  {D("input", "steer", "run", 1), D("input", "followUp", "reject", 0),
   D("input", "reject", "run", 0),
   D("reset", "followUp", "run", 0), D("display", "followUp", "run", 0),
   D("note", "followUp", "run", 0), D("continue", "followUp", "run", 0)}

InboxSettings ==
  {S("keep", "one", "all", FALSE, FALSE, 0, 1, 0),
   S("continue", "all", "one", FALSE, TRUE, 0, 1, 1),
   S("withdraw", "one", "one", FALSE, FALSE, 0, 1, 0)}

\* Recovery: one input, everything that can fail.
RecoveryDrafts == {D("input", "steer", "run", 0)}

RecoverySettings ==
  {S("keep", "one", "one", FALSE, FALSE, 1, 2, 0),
   S("continue", "one", "one", TRUE, TRUE, 0, 1, 0)}

=============================================================================
