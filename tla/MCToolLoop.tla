----------------------------- MODULE MCToolLoop -----------------------------
(* Instances of ToolLoop for TLC. *)
EXTENDS ToolLoop, TLC

CONSTANTS t1, t2, a, b, new, other

Says(calls, text) == [calls |-> calls, text |-> text]
Do(id, what) == [id |-> id, op |-> what]

\* The turn t1 uses tools: a read and a write, another content, or a call that is
\* rejected.  The turn t2 only answers, perhaps with nothing.
AnswersMixed ==
  (t1 :> { Says(<<>>, TRUE), Says(<<Do(b, "read"), Do(a, new)>>, FALSE),
           Says(<<Do(a, other)>>, FALSE), Says(<<Do(a, "bad")>>, FALSE) })
  @@ (t2 :> { Says(<<>>, TRUE), Says(<<>>, FALSE) })

=============================================================================
