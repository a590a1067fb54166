--------------------------- MODULE MCJsonlStorage ---------------------------
(* Instances of JsonlStorage for TLC.                                        *)
EXTENDS JsonlStorage

CONSTANTS d, h, t

W(op, id) == [op |-> op, id |-> id]

\* One batch or two of a call, on a current-only document, a document with
\* history and a task.
MCCalls ==
  LET new == <<W("create", d), W("live", t), W("create", h)>>
      base == <<W("base", d), W("live", t)>>
      delta == <<W("delta", d), W("entry", Main)>>
      kept == <<W("base", h)>>
      retire == <<W("retire", d)>>
      end == <<W("terminal", t), W("delta", h)>>
  IN  {<<new>>, <<new, base>>, <<base, delta>>, <<delta>>, <<base>>, <<end>>,
       <<kept, end>>, <<delta, retire>>}

=============================================================================
