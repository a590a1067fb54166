-------------------------- MODULE StorageContract --------------------------
(***************************************************************************)
(* What a Storage backend promises the Session (Storage in types.ts): a    *)
(* log of commits.  A call stores a prefix of what it carries, in order; a *)
(* receipt means stored; a read sees the commits stored so far and nothing *)
(* else, or waits; a process that ends loses nothing that is stored; only  *)
(* a power loss shortens the log, and it leaves a prefix.                  *)
(***************************************************************************)
EXTENDS Naturals, Sequences, SequencesExt

CONSTANTS Commits,       \* what one batch of a call may be
          StateOf(_),    \* the state a sequence of commits leaves
          Unreadable     \* what a read finds while none can be answered

VARIABLES stored,   \* the commits stored, in order
          asked,    \* the commits the current call carries
          acked,    \* commits up to the newest one with a receipt
          view,     \* the state a read is answered from
          outages   \* power losses so far

vars == <<stored, asked, acked, view, outages>>

Init ==
  /\ stored = <<>> /\ asked = <<>> /\ acked = 0
  /\ view = Unreadable /\ outages = 0

\* A call is accepted: from here reads wait.
Begin ==
  /\ view # Unreadable /\ view' = Unreadable
  /\ asked' \in Seq(Commits) /\ asked' # <<>>
  /\ UNCHANGED <<stored, acked, outages>>

\* Some of the call's commits are stored, without a receipt: it fails.
Store ==
  /\ view = Unreadable /\ asked # <<>>
  /\ \E s \in Prefixes(asked) : stored' = stored \o s
  /\ asked' = <<>>
  /\ UNCHANGED <<acked, view, outages>>

\* The call succeeds: its commits are stored and receipted, and reads go on.
Commit ==
  /\ view = Unreadable /\ asked # <<>>
  /\ stored' = stored \o asked /\ asked' = <<>>
  /\ acked' = Len(stored') /\ view' = StateOf(stored')
  /\ UNCHANGED outages

\* The backend is open, on what is stored.
Recover ==
  /\ view = Unreadable /\ asked = <<>> /\ view' = StateOf(stored)
  /\ UNCHANGED <<stored, asked, acked, outages>>

\* The process ends, or the backend is closed.
End ==
  /\ view' = Unreadable /\ asked' = <<>>
  /\ UNCHANGED <<stored, acked, outages>>

PowerLoss ==
  /\ outages' = outages + 1 /\ view' = Unreadable /\ asked' = <<>>
  /\ IsPrefix(stored', stored)
  /\ acked' = IF acked < Len(stored') THEN acked ELSE Len(stored')

Next == Begin \/ Store \/ Commit \/ Recover \/ End \/ PowerLoss

Spec == Init /\ [][Next]_vars

=============================================================================
