-------------------------- MODULE LifecycleHistory --------------------------
(***************************************************************************)
(* RunLifecycle with the whole stream remembered, so that the engine's run *)
(* scopes can be compared with the ones the stream itself delimits.        *)
(***************************************************************************)
EXTENDS RunLifecycle, StreamLog

historyVars == <<lifecycleVars, log>>

HistoryInit == LifecycleInit /\ log = <<>>

HistoryNext ==
  \/ /\ ~finalized   \* every caller in the repository finalizes last
     /\ \E e \in StreamInputs : StreamInput(e) /\ Logs(eventCount, e)
  \/ LifecycleFinalize /\ Logs(AtEndOfStream, Mark("END_OF_STREAM"))

HistorySpec == HistoryInit /\ [][HistoryNext]_historyVars

-----------------------------------------------------------------------------
OfType(types, n) == {p \in 1..n : TypeAt(p) \in types}

Last(positions) == {p \in positions : \A q \in positions : q <= p}

\* Events of the protocol: what is left of the stream is noise.
ProtocolTypes == TerminalTypes \cup {"RUN_STARTED", "EVENT", "RAW", "CUSTOM"}

ProtocolEvents(n) == OfType(ProtocolTypes, n)

\* Whatever a RUN_STARTED does, the run is open right after it: the run has ended
\* at n when a terminal event follows the last RUN_STARTED.
Terminals(n) ==
  {p \in OfType(TerminalTypes, n) : \A q \in OfType({"RUN_STARTED"}, n) : q < p}

TerminalOf(n) == First(Terminals(n))

\* The RUN_STARTED that found the run before them ended, cleanly or not, whatever
\* ids they carry (engine.py:285): SQ-6 admits fewer, see OnlyNewRunsFollowCleanEnds.
Renewals(n) == {p \in OfType({"RUN_STARTED"}, n) : TerminalOf(p - 1) # {}}

\* The run of position n begins at the last of them, or else at the first event of
\* the protocol.
Beginning(n) == IF Renewals(n) # {} THEN Last(Renewals(n)) ELSE First(ProtocolEvents(n))

\* The RUN_STARTED since the beginning of the run of position n: the first of them
\* names it.
Starts(n) == {p \in OfType({"RUN_STARTED"}, n) : \A b \in Beginning(n) : b <= p}

Naming(n) == First(Starts(n))

\* The events up to n that carry a time.
Stamped(n) ==
  {p \in 1..n : /\ TypeAt(p) \notin {"MALFORMED", "UNTYPED"}
                /\ log[p].event.timestamp = "number"}

\* The field of RUN_FINISHED at n contradicts the one the run was named with.
Contradicts(n, field) ==
  \E p \in Naming(n) :
    None \notin {log[p].event[field], log[n].event[field]}
      /\ log[p].event[field] # log[n].event[field]

\* The ids RUN_FINISHED changes.
Contradicted(n) == {f \in {"runId", "threadId"} : Contradicts(n, f)}

\* A report at index i related to the events at the positions.
About(rule, i, id, positions) == {Finding(rule, i, id, k) : k \in IndicesOf(positions)}

\* What follows the terminal events at the positions.
AfterEnd(i, type, positions) ==
  UNION {About(IF type \in TerminalTypes \ {TypeAt(p)} THEN "AGUI005" ELSE "AGUI004",
               i, None, {p}) : p \in positions}

\* What the n-th position deserves for its place in the run.
DeservedByPlace(n) ==
  LET type == TypeAt(n)
      at == log[n].at
      ended == TerminalOf(n - 1)
  IN  CASE type = "RUN_STARTED" ->
             IF ended = {} /\ Naming(n - 1) # {}
             THEN About("AGUI002", at, None, Beginning(n - 1)) ELSE {}
        [] type \in ProtocolTypes \ {"RUN_STARTED"} /\ ended # {} -> AfterEnd(at, type, ended)
        [] type = "RUN_FINISHED" /\ ended = {} ->
             UNION {About("AGUI008", at, field, Beginning(n)) : field \in Contradicted(n)}
        [] type = "END_OF_STREAM" /\ ended = {} -> About("AGUI003", at, None, Beginning(n))
        [] OTHER -> {}

\* What it deserves for its shape.
DeservedByShape(n) ==
  LET e == log[n].event
      Alone(rule, id, holds) ==
        IF holds THEN {Finding(rule, log[n].at, id, None)} ELSE {}
      Has(field, content) == field \in DOMAIN e /\ e[field] = content
  IN  Alone("AGUI502", None, e.type = "MALFORMED")
      \cup Alone("AGUI503", None, e.type = "UNKNOWN")
      \cup Alone("AGUI504", "type", e.type = "UNTYPED")
      \cup Alone("AGUI504", "timestamp", Has("timestamp", "other"))
      \cup Alone("AGUI504", "runId", Has("runId", None))
      \cup Alone("AGUI504", "threadId", Has("threadId", None))

\* What the stream as a whole deserves: the first event of the protocol is no
\* RUN_STARTED, no event carries a time.
DeservedByStream(n) ==
  LET Alone(rule, holds) == IF holds THEN {Finding(rule, log[n].at, None, None)} ELSE {}
  IN  Alone("AGUI001", ProtocolEvents(n) = {n} /\ TypeAt(n) # "RUN_STARTED")
      \cup Alone("AGUI902", TypeAt(n) = "END_OF_STREAM" /\ n > 1 /\ Stamped(n - 1) = {})

Advised(n) ==
  {Finding(rule, log[n].at, None, None) :
     rule \in {r \in {"AGUI901", "AGUI903"} :
                 /\ TypeAt(n) = IF r = "AGUI901" THEN "RAW" ELSE "CUSTOM"
                 /\ log[n].event.noted
                 /\ TerminalOf(n - 1) = {}}}

LifecycleDeserved(n) ==
  DeservedByPlace(n) \cup DeservedByShape(n) \cup DeservedByStream(n) \cup Advised(n)

\* Every input is reported exactly as its place in the stream deserves: the first
\* event that is no RUN_STARTED once (AGUI001), a second RUN_STARTED of a run
\* that is open (AGUI002), a stream that stops mid-run (AGUI003), whatever follows
\* a terminal event (AGUI004, AGUI005) and the ids RUN_FINISHED changes (AGUI008),
\* each with the event that began the run, or ended it.  Where the code and SQ-6
\* (docs/spec-questions.md:100) differ, this is the code's answer: a RUN_STARTED
\* after any terminal event begins a run and deserves nothing for its place.
LifecycleFindingsExact ==
  log # <<>> => lifecycleFound = LifecycleDeserved(Len(log))

-----------------------------------------------------------------------------
\* The RUN_STARTED at n gives an id that none before it gave.
NamesNewRun(n) ==
  /\ log[n].event.runId # None
  /\ \A q \in OfType({"RUN_STARTED"}, n - 1) : log[q].event.runId # log[n].event.runId

\* "A RUN_STARTED with a new runId after a clean terminal event opens a new run scope
\* (no diagnostic). Any other event after a terminal event is AGUI004"
\* (docs/spec-questions.md:100, SQ-6): so is a RUN_STARTED that repeats a runId or
\* gives none, or that follows a RUN_ERROR.
OnlyNewRunsFollowCleanEnds ==
  \A n \in {Len(log)} \ {0} : \A end \in TerminalOf(n - 1) :
    TypeAt(n) = "RUN_STARTED" /\ ~(TypeAt(end) = "RUN_FINISHED" /\ NamesNewRun(n))
      => Finding("AGUI004", log[n].at, None, log[end].at) \in lifecycleFound

=============================================================================
