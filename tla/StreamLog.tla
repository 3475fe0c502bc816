----------------------------- MODULE StreamLog -----------------------------
(***************************************************************************)
(* The stream, remembered: one entry per input and one for finalize().     *)
(* Modules that compare what a component reports with what the stream says *)
(* add log to its variables; no step reads it.                             *)
(***************************************************************************)
EXTENDS RunScope, Sequences, Positions

VARIABLE log   \* <<[at, event]>>

Logs(at, event) == log' = Append(log, [at |-> at, event |-> event])

\* An input that is no event of the component is remembered by its effect.
Mark(kind) == [type |-> kind]

EndOfStreamMark == Mark(IF terminal = None THEN "END_OF_STREAM" ELSE "END_AFTER_RUN")

-----------------------------------------------------------------------------
\* The positions, up to n, of the run that is current at position n.
RunPositions(n) ==
  {p \in 1..n : \A q \in p + 1..n : log[q].event.type # "RUN_STARTED"}

TypeAt(p) == log[p].event.type

Judges(p) == TypeAt(p) \notin {"UNJUDGED", "END_AFTER_RUN"}

IndicesOf(positions) == {log[p].at : p \in positions}

=============================================================================
