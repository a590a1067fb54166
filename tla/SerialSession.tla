--------------------------- MODULE SerialSession ---------------------------
(***************************************************************************)
(* What group commit promises its callers: a Session that runs one job at  *)
(* a time.  A job makes one step, at which all it read is current and all  *)
(* it writes is put in place, and the steps of jobs that touch a common    *)
(* key come in line order; a caller hears of a success only when the step  *)
(* was made, and of an error of a healthy Session only when it never will  *)
(* be.                                                                     *)
(***************************************************************************)
EXTENDS Naturals

CONSTANTS Keys, Line, ClientKinds

VARIABLES prog,     \* what each job on the line does
          seen,     \* per job and key, the value it read
          done,     \* jobs whose step was made
          answer,   \* per job, what its caller was told
          down      \* the Session failed: no step follows

serialVars == <<seen, done, answer, down>>

Init ==
  /\ seen = [j \in Line |-> [k \in Keys |-> 0]] /\ done = {}
  /\ answer = [j \in Line |-> "none"] /\ down = FALSE

Client(j) == prog[j].kind \in ClientKinds

\* What key k holds: the newest commit in place that wrote it, 0 for none.
Holds(k, v) ==
  LET writers == {j \in done : k \in prog[j].writes}
  IN  IF writers = {} THEN v = 0 ELSE v \in writers /\ \A j \in writers : j <= v

\* A job that made its step later on the line, and would have had to see it.
Overtaken(j) ==
  \E i \in done : i > j /\ (prog[i].writes # {} \/ prog[i].reads \cap prog[j].writes # {})

\* Job j reads; what it read has to hold still when it makes its step.
Look(j) ==
  /\ j \notin done
  /\ \A i \in Line \ {j} : seen'[i] = seen[i]
  /\ UNCHANGED <<done, answer, down>>

\* Job j makes its step: commits in line order, and before any later look at
\* what they write.
Step(j) ==
  /\ ~down /\ Client(j) /\ j \notin done /\ answer[j] = "none"
  /\ \A k \in prog[j].reads : Holds(k, seen[j][k])
  /\ prog[j].writes # {} => ~Overtaken(j)
  /\ done' = done \cup {j}
  /\ UNCHANGED <<seen, answer, down>>

\* The caller of job j is told of its outcome.
Tell(j) ==
  /\ Client(j) /\ answer[j] = "none"
  /\ \E o \in {"value", "error", "failed"} :
       /\ answer' = [answer EXCEPT ![j] = o]
       /\ o = "value" => j \in done
       /\ o = "error" /\ ~down => j \notin done
       /\ o = "failed" => down
  /\ UNCHANGED <<seen, done, down>>

Fail == down' = TRUE /\ UNCHANGED <<seen, done, answer>>

Next == Fail \/ \E j \in Line : Look(j) \/ Step(j) \/ Tell(j)

Spec == Init /\ [][Next]_serialVars

=============================================================================
