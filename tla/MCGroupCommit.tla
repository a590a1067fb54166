--------------------------- MODULE MCGroupCommit ---------------------------
(* Instances of GroupCommit for TLC: the sets of jobs clients enqueue.       *)
EXTENDS GroupCommit

CONSTANTS a, b

Job(kind, reads, writes) == [kind |-> kind, reads |-> reads, writes |-> writes]

\* Commits that overlap in Storage: a blind write, a read of what another
\* writes, an exempt look, and a held change the others may read or store.
OverlapPrograms ==
  {Job("commit", {}, {a}), Job("commit", {a}, {b}), Job("internal", {a}, {}),
   Job("deferred", {a}, {a})}

\* Fewer jobs, for the temporal properties: a commit others wait for, one that
\* waits for it, and a held change.
LivenessPrograms ==
  {Job("commit", {a}, {a}), Job("deferred", {a}, {a})}

=============================================================================
