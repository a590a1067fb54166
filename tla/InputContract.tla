--------------------------- MODULE InputContract ----------------------------
(***************************************************************************)
(* What a conversation promises for the inputs given to it, whatever its   *)
(* runs, tools and crashes do: an input waits in the queue of its mode or  *)
(* is taken into the current run, inputs of one mode are taken in turn,    *)
(* the inputs of a run are settled together and alike, and a settled input *)
(* stays settled.                                                          *)
(***************************************************************************)
EXTENDS Naturals, Sequences

VARIABLES fate,              \* of each submission, in the order of arrival
          steers, followUps  \* the waiting inputs of each mode

vars == <<fate, steers, followUps>>

Fates == {"write", "waiting", "held", "done", "unanswered"}

Held == {i \in DOMAIN fate : fate[i] = "held"}

Init == fate = <<>> /\ steers = <<>> /\ followUps = <<>>

\* One step of one input.
Moves == {<<f, f>> : f \in Fates} \cup
         {<<"waiting", "held">>, <<"waiting", "unanswered">>,
          <<"held", "done">>, <<"held", "unanswered">>}

\* At most one submission arrives; the others move as they may.
Arrives ==
  /\ Len(fate') \in {Len(fate), Len(fate) + 1}
  /\ \A i \in DOMAIN fate : <<fate[i], fate'[i]>> \in Moves
  /\ \A i \in DOMAIN fate' \ DOMAIN fate : fate'[i] \in {"write", "waiting", "held"}

\* The run goes on with all of its inputs, or ends for all of them alike.
Together ==
  \/ \A i \in Held : fate'[i] = "held"
  \/ \E out \in {"done", "unanswered"} : \A i \in Held : fate'[i] = out

\* What waits in q stays, in its order; a new input joins at the end; and no input
\* is held while one before it still waits.
InTurn(q, next) ==
  /\ \A k \in DOMAIN q : fate'[q[k]] = "waiting" => \E j \in DOMAIN next : next[j] = q[k]
  /\ \A k \in DOMAIN next : /\ fate'[next[k]] = "waiting"
                            /\ next[k] \in DOMAIN fate => \E j \in DOMAIN q : q[j] = next[k]
  /\ \A j, k \in DOMAIN next : j < k =>
       IF next[k] \in DOMAIN fate
       THEN \E a, b \in DOMAIN q : a < b /\ q[a] = next[j] /\ q[b] = next[k]
       ELSE next[j] # next[k]
  /\ \A j, k \in DOMAIN q : j < k /\ fate'[q[k]] = "held" => fate'[q[j]] # "waiting"

Next == Arrives /\ Together /\ InTurn(steers, steers') /\ InTurn(followUps, followUps')

Spec == Init /\ [][Next]_vars

=============================================================================
