---------------------------- MODULE StateHistory ----------------------------
(***************************************************************************)
(* What a stream says of the shared state: the document and the reports    *)
(* are compared with a replay of the log.                                  *)
(***************************************************************************)
EXTENDS SharedState, StreamLog

IsPatch(e) == e.type = "STATE_DELTA" /\ e.delta \in Patches

SnapshotsIn(positions) == {p \in positions : TypeAt(p) = "STATE_SNAPSHOT"}

\* The last snapshot of the run of position n, up to n.
Base(n) == Latest(SnapshotsIn(RunPositions(n)))

\* The patches of the run that came after its last snapshot.
Since(n) ==
  {q \in RunPositions(n) : IsPatch(log[q].event) /\ \A p \in Base(n) : p < q}

\* A patch that does not apply leaves the document as it was.
Try(document, e) ==
  IF IsPatch(e) /\ Applied[document, e.delta] # None THEN Applied[document, e.delta]
  ELSE document

\* The documents at the positions p..n, p being that of a snapshot.
Replayed(p, n) ==
  LET document[q \in p..n] ==
        IF q = p THEN log[p].event.snapshot ELSE Try(document[q - 1], log[q].event)
  IN  document

\* The document the stream describes at n: its last snapshot with the patches
\* since then, those that do not apply left out.
Replay(n) == {Replayed(p, n)[n] : p \in Base(n)}

\* The engine holds the document the stream describes, or none.
StateValueExact == Replay(Len(log)) = IF known THEN {value} ELSE {}

\* The n-th position is the first patch of a run that saw no snapshot.
Groundless(n) == Base(n) = {} /\ Since(n) = {n}

\* The patch of the n-th position does not apply to the document before it.
Refused(n) == \E d \in Replay(n - 1) : Applied[d, log[n].event.delta] = None

\* A report of the n-th position, if it holds.
Note(rule, n, id, holds) == IF holds THEN {Finding(rule, log[n].at, id, None)} ELSE {}

\* What the n-th position deserves: the first patch of a run that saw no snapshot
\* (AGUI301), a patch that does not apply to the replayed document (AGUI302), a
\* delta that is no patch (AGUI303), a snapshot that drops patches (AGUI304, with
\* their number) and, when shared state was declared, a stream with no snapshot
\* (AGUI305).  A delta whose check raised is not reported.
StateDeserved(n) ==
  LET e == log[n].event
      dropped == Cardinality(Since(n - 1))
  IN  CASE e.type = "STATE_SNAPSHOT" -> Note("AGUI304", n, dropped, dropped > 0)
        [] IsPatch(e) ->
             Note("AGUI301", n, None, Groundless(n))
             \cup Note("AGUI302", n, None, Refused(n))
        [] e.type = "STATE_DELTA" /\ e.delta \notin Patches ->
             Note("AGUI303", n, None, e.delta = "BAD_SHAPE")
        [] e.type \in {"END_OF_STREAM", "END_AFTER_RUN"} ->
             Note("AGUI305", n, None, DeclaresSharedState /\ SnapshotsIn(1..n) = {})
        [] OTHER -> {}

\* Every input is reported exactly as the stream up to it deserves: no violation of
\* AGUI301 to AGUI305 is missed, none is invented, and AGUI304 tells how many
\* patches the snapshot dropped.
StateFindingsExact == log # <<>> => stateFound = StateDeserved(Len(log))

\* spec/catalog.json, AGUI303: "STATE_DELTA is not a valid RFC 6902 patch
\* document": an array that is no patch is reported, whatever makes it no patch.
BadPatchesReported ==
  LET n == Len(log)
  IN  n > 0 /\ TypeAt(n) = "STATE_DELTA" =>
        (log[n].event.delta \in {"BAD_SHAPE", "UNHASHABLE_OP"}
           => \E f \in stateFound : f.rule = "AGUI303")

=============================================================================
