--------------------------- MODULE MCTaskScheduler ---------------------------
(***************************************************************************)
(* Small ownership trees for TaskScheduler.                                *)
(***************************************************************************)
EXTENDS TaskScheduler, TLC

CONSTANTS p, c, d, r, k

\* One task in the root conversation.
OneUp == (p :> r) @@ (r :> Top)

\* A task with a child.
PairUp == (p :> r) @@ (c :> p) @@ (r :> Top)

\* A task with two children.
FamilyUp == (p :> r) @@ (c :> p) @@ (d :> p) @@ (r :> Top)

Siblings == Permutations({c, d})

\* A task that owns a conversation with a task in it.
NestedUp == (p :> r) @@ (k :> p) @@ (d :> k) @@ (r :> Top)

=============================================================================
