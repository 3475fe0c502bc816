------------------------- MODULE RunHistory_proofs -------------------------
(***************************************************************************)
(* Theorems about RunHistory and the components it composes, for any ids,  *)
(* documents, patches and alphabets and any bound: each component keeps    *)
(* its own invariant, and what it reports is what the stream deserves.     *)
(***************************************************************************)
EXTENDS RunHistory, RunScopeTheorems

-----------------------------------------------------------------------------
(* The subagents.                                                           *)

\* The inductive invariant of the subagents.
SubagentInv == SubagentTypeOK /\ SubagentHasOneForm

-----------------------------------------------------------------------------
\* A diagnostic about the current event is a legal one.
LEMMA SubagentFindingType ==
  ASSUME NEW rule \in {"AGUI601", "AGUI602", "AGUI603", "AGUI604", "AGUI605"},
         NEW at \in Indices, NEW id \in SubagentIds, NEW related \in Nat \cup {None}
  PROVE  Finding(rule, at, id, related) \in SubagentFindings
BY DEF Finding, SubagentFindings

\* A step that leaves the three dictionaries alone, but may learn an id.
LEMMA RefusedPreserves ==
  ASSUME SubagentInv, ScopeTypeOK',
         UNCHANGED <<openSubagents, closedSubagents>>,
         knownSubagentRunIds \subseteq knownSubagentRunIds',
         knownSubagentRunIds' \subseteq SubagentIds,
         subagentFound' \subseteq SubagentFindings
  PROVE  SubagentInv'
BY DEF SubagentInv, SubagentTypeOK, SubagentHasOneForm

LEMMA StartedPreserves ==
  ASSUME SubagentInv, NEW e \in SubagentEvents, SubagentStarted(e)
  PROVE  SubagentInv'
<1> USE DEF SubagentInv, SubagentTypeOK
<1> DEFINE s == e.subagentRunId
           parent == e.parentSubagentRunId
<1>1. /\ ScopeTypeOK'
      /\ eventCount \in Nat /\ eventCount \in Indices
      /\ s \in SubagentIds \cup {None} /\ parent \in SubagentIds \cup {None}
      /\ knownSubagentRunIds' = knownSubagentRunIds \cup ({s} \ {None})
      /\ knownSubagentRunIds' \subseteq SubagentIds
  BY ScopePreserved DEF SubagentStarted, SubagentEvents, ScopeTypeOK, Indices, Knows
<1>2. CASE UNCHANGED <<openSubagents, closedSubagents>> /\ subagentFound' = {}
  BY <1>1, <1>2, RefusedPreserves
<1>3. CASE /\ s \in DOMAIN openSubagents
           /\ ReportSubagent("AGUI601", s, openSubagents[s])
           /\ UNCHANGED <<openSubagents, closedSubagents>>
  <2>1. s \in SubagentIds /\ openSubagents[s] \in Nat
    BY <1>3 DEF IsDict
  <2>2. subagentFound' \subseteq SubagentFindings
    BY <1>1, <1>3, <2>1, SubagentFindingType DEF ReportSubagent
  <2> QED BY <1>1, <1>3, <2>2, RefusedPreserves
<1>4. CASE /\ s \in GoneSubagents
           /\ ReportSubagent("AGUI601", s, closedSubagents[s].index)
           /\ UNCHANGED <<openSubagents, closedSubagents>>
  <2>1. s \in SubagentIds /\ closedSubagents[s].index \in Nat
    BY <1>4 DEF IsDict, GoneSubagents
  <2>2. subagentFound' \subseteq SubagentFindings
    BY <1>1, <1>4, <2>1, SubagentFindingType DEF ReportSubagent
  <2> QED BY <1>1, <1>4, <2>2, RefusedPreserves
<1>5. CASE /\ s \in SubagentIds \ (DOMAIN openSubagents \cup GoneSubagents)
           /\ Opens(s)
           /\ IF parent \in knownSubagentRunIds' \cup {None} THEN subagentFound' = {}
              ELSE ReportSubagent("AGUI605", parent, None)
  <2>1. s # None
    BY <1>5, OwnersAssumption DEF SubagentIds
  <2>2. /\ IsDict(openSubagents', SubagentIds, Nat)
        /\ DOMAIN openSubagents' = DOMAIN openSubagents \cup {s}
    <3>1. IsDict(Put(openSubagents, s, eventCount), SubagentIds, Nat)
      BY <1>1, <1>5, PutType
    <3> QED BY <1>5, <3>1, PutKeys DEF Opens
  <2>3. /\ IsDict(closedSubagents', SubagentIds, [index : Nat, resumable : BOOLEAN])
        /\ DOMAIN closedSubagents' = DOMAIN closedSubagents \ {s}
    <3>1. IsDict(Drop(closedSubagents, s), SubagentIds, [index : Nat, resumable : BOOLEAN])
      BY DropType
    <3> QED BY <1>5, <3>1, DropKeys DEF Opens
  <2>4. subagentFound' \subseteq SubagentFindings
    <3>1. CASE parent \in knownSubagentRunIds' \cup {None}
      BY <1>5, <3>1
    <3>2. CASE parent \notin knownSubagentRunIds' \cup {None}
      <4>1. Finding("AGUI605", eventCount, parent, None) \in SubagentFindings
        BY <1>1, <3>2, SubagentFindingType
      <4> QED BY <1>5, <3>2, <4>1 DEF ReportSubagent
    <3> QED BY <3>1, <3>2
  <2>5. SubagentTypeOK'
    BY <1>1, <2>2, <2>3, <2>4
  <2>6. SubagentHasOneForm'
    BY <1>1, <2>1, <2>2, <2>3 DEF SubagentHasOneForm
  <2> QED BY <2>5, <2>6
<1> QED BY <1>2, <1>3, <1>4, <1>5 DEF SubagentStarted

LEMMA ClosesPreserves ==
  ASSUME SubagentInv, NEW e, e.subagentRunId \in SubagentIds \cup {None},
         NEW rule \in {"AGUI602", "AGUI603"}, NEW resumable \in BOOLEAN,
         Closes(e, rule, resumable)
  PROVE  SubagentInv'
<1> USE DEF SubagentInv, SubagentTypeOK
<1> DEFINE s == e.subagentRunId
<1>1. /\ ScopeTypeOK'
      /\ eventCount \in Nat /\ eventCount \in Indices
      /\ UNCHANGED knownSubagentRunIds
  BY ScopePreserved DEF Closes, ScopeTypeOK, Indices
<1>2. CASE UNCHANGED <<openSubagents, closedSubagents>> /\ subagentFound' = {}
  BY <1>1, <1>2, RefusedPreserves
<1>3. CASE /\ s \in SubagentIds
           /\ UNCHANGED <<openSubagents, closedSubagents>>
           /\ ReportSubagent(rule, s, None)
  <2>1. subagentFound' \subseteq SubagentFindings
    BY <1>1, <1>3, SubagentFindingType DEF ReportSubagent
  <2> QED BY <1>1, <1>3, <2>1, RefusedPreserves
<1>4. CASE /\ s \in DOMAIN openSubagents
           /\ openSubagents' = Drop(openSubagents, s)
           /\ closedSubagents' =
                Put(closedSubagents, s, [index |-> eventCount, resumable |-> resumable])
           /\ subagentFound' = {}
  <2>1. s \in SubagentIds /\ s \in knownSubagentRunIds
    BY <1>4 DEF IsDict, SubagentHasOneForm
  <2>2. /\ IsDict(openSubagents', SubagentIds, Nat)
        /\ DOMAIN openSubagents' = DOMAIN openSubagents \ {s}
    BY <1>4, DropType, DropKeys
  <2>3. /\ IsDict(closedSubagents', SubagentIds, [index : Nat, resumable : BOOLEAN])
        /\ DOMAIN closedSubagents' = DOMAIN closedSubagents \cup {s}
    <3>1. [index |-> eventCount, resumable |-> resumable] \in [index : Nat, resumable : BOOLEAN]
      BY <1>1
    <3>2. IsDict(Put(closedSubagents, s, [index |-> eventCount, resumable |-> resumable]),
                 SubagentIds, [index : Nat, resumable : BOOLEAN])
      BY <2>1, <3>1, PutType
    <3> QED BY <1>4, <3>2 DEF Put
  <2>4. SubagentTypeOK'
    BY <1>1, <1>4, <2>2, <2>3
  <2>5. SubagentHasOneForm'
    BY <1>1, <2>1, <2>2, <2>3 DEF SubagentHasOneForm
  <2> QED BY <2>4, <2>5
<1> QED BY <1>2, <1>3, <1>4 DEF Closes

\* The inputs of the other components, the runs and the end of the stream.
LEMMA SubagentEnvironmentPreserves ==
  ASSUME SubagentInv,
         \/ SubagentsElsewhere
         \/ SubagentsNewRun
         \/ \E type \in TerminalTypes : SubagentsEnd(type)
         \/ SubagentsFinalize
  PROVE  SubagentInv'
<1>1. ScopeTypeOK'
  BY ScopePreserved
     DEF SubagentInv, SubagentTypeOK, SubagentsElsewhere, SubagentsNewRun, SubagentsEnd,
         SubagentsFinalize
<1>2. ASSUME NEW at \in Indices PROVE UnterminatedSubagents(at) \subseteq SubagentFindings
  <2>1. ASSUME NEW s \in DOMAIN openSubagents
        PROVE  Finding("AGUI604", at, s, openSubagents[s]) \in SubagentFindings
    BY SubagentFindingType DEF SubagentInv, SubagentTypeOK, IsDict
  <2> QED BY <2>1 DEF UnterminatedSubagents
<1>3. eventCount \in Indices /\ AtEndOfStream \in Indices
  BY DEF SubagentInv, SubagentTypeOK, ScopeTypeOK, Indices
<1>4. subagentFound' \subseteq SubagentFindings
  BY <1>2, <1>3
     DEF SubagentsElsewhere, SubagentsNewRun, SubagentsEnd, SubagentsFinalize
<1>5. CASE UNCHANGED subagentLifeVars
  BY <1>1, <1>4, <1>5, RefusedPreserves DEF subagentLifeVars, SubagentInv, SubagentTypeOK
<1>6. CASE SubagentsNewRun
  <2>1. /\ openSubagents' = EmptyDict /\ closedSubagents' = EmptyDict
        /\ knownSubagentRunIds' = {}
    BY <1>6 DEF SubagentsNewRun
  <2>2. /\ DOMAIN EmptyDict = {}
        /\ IsDict(EmptyDict, SubagentIds, Nat)
        /\ IsDict(EmptyDict, SubagentIds, [index : Nat, resumable : BOOLEAN])
    BY EmptyDictType
  <2> QED BY <1>1, <1>4, <2>1, <2>2 DEF SubagentInv, SubagentTypeOK, SubagentHasOneForm
<1> QED BY <1>5, <1>6 DEF SubagentsElsewhere, SubagentsEnd, SubagentsFinalize

-----------------------------------------------------------------------------
\* The inductive invariant holds in every reachable state.
THEOREM SubagentInvariant == SubagentSpec => []SubagentInv
<1>1. SubagentInit => SubagentInv
  <2> SUFFICES ASSUME SubagentInit PROVE SubagentInv
    OBVIOUS
  <2>1. /\ DOMAIN EmptyDict = {}
        /\ IsDict(EmptyDict, SubagentIds, Nat)
        /\ IsDict(EmptyDict, SubagentIds, [index : Nat, resumable : BOOLEAN])
    BY EmptyDictType
  <2> QED BY <2>1 DEF SubagentInit, ScopeInit, SubagentInv, SubagentTypeOK, ScopeTypeOK,
                      SubagentHasOneForm
<1>2. SubagentInv /\ [SubagentNext]_subagentVars => SubagentInv'
  <2> SUFFICES ASSUME SubagentInv, [SubagentNext]_subagentVars PROVE SubagentInv'
    OBVIOUS
  <2>1. CASE UNCHANGED subagentVars
    BY <2>1 DEF subagentVars, scopeVars, subagentLifeVars, SubagentInv, SubagentTypeOK,
                ScopeTypeOK, SubagentHasOneForm
  <2>2. ASSUME NEW e \in SubagentInputs, SubagentEvent(e) PROVE SubagentInv'
    <3>1. e \in SubagentEvents
      BY SubagentInputsAssumption
    <3>2. CASE SubagentFinished(e)
      <4>1. e.subagentRunId \in SubagentIds \cup {None} /\ e.suspended \in BOOLEAN
        BY <3>1, <3>2 DEF SubagentEvents, SubagentFinished
      <4> QED BY <3>2, <4>1, ClosesPreserves DEF SubagentFinished
    <3>3. CASE SubagentError(e)
      <4>1. e.subagentRunId \in SubagentIds \cup {None}
        BY <3>1, <3>3 DEF SubagentEvents, SubagentError
      <4> QED BY <3>3, <4>1, ClosesPreserves DEF SubagentError
    <3> QED BY <2>2, <3>1, <3>2, <3>3, StartedPreserves DEF SubagentEvent
  <2> QED BY <2>1, <2>2, SubagentEnvironmentPreserves DEF SubagentNext
<1> QED BY <1>1, <1>2, PTL DEF SubagentSpec

\* Type correctness of the subagent dictionaries and of what the rules report.
THEOREM SubagentTypeCorrect == SubagentSpec => []SubagentTypeOK
<1>1. SubagentInv => SubagentTypeOK
  BY DEF SubagentInv
<1> QED BY <1>1, SubagentInvariant, PTL

\* For any stream, no subagent is ever open and closed at once, and all of them
\* are known.
THEOREM SubagentsHaveOneForm == SubagentSpec => []SubagentHasOneForm
<1>1. SubagentInv => SubagentHasOneForm
  BY DEF SubagentInv
<1> QED BY <1>1, SubagentInvariant, PTL

\* One step keeps the subagents that are gone, and gives up a suspended one only
\* to resume it: a subagent that is open, which is the only one that can close,
\* is not among the closed ones.
LEMMA StepKeepsGone ==
  ASSUME SubagentInv, [SubagentNext]_subagentVars, SameRun
  PROVE  GoneForGood /\ SuspendedOnlyResume
<1>1. ASSUME UNCHANGED closedSubagents PROVE GoneForGood /\ SuspendedOnlyResume
  BY <1>1 DEF GoneForGood, SuspendedOnlyResume, GoneSubagents
<1>2. ASSUME NEW e \in SubagentInputs, SubagentStarted(e)
      PROVE  GoneForGood /\ SuspendedOnlyResume
  <2> DEFINE s == e.subagentRunId
  <2>1. CASE /\ s \in SubagentIds \ (DOMAIN openSubagents \cup GoneSubagents)
             /\ Opens(s)
    <3>1. /\ DOMAIN closedSubagents' = DOMAIN closedSubagents \ {s}
          /\ \A x \in DOMAIN closedSubagents : x # s => closedSubagents'[x] = closedSubagents[x]
          /\ s \in DOMAIN openSubagents'
      BY <2>1 DEF Opens, Put, Drop
    <3>2. s \in DOMAIN closedSubagents => closedSubagents[s].resumable
      BY <2>1 DEF GoneSubagents
    <3> QED BY <2>1, <3>1, <3>2 DEF GoneForGood, SuspendedOnlyResume, GoneSubagents
  <2> QED BY <1>1, <1>2, <2>1 DEF SubagentStarted
<1>3. ASSUME NEW e, NEW rule, NEW resumable, Closes(e, rule, resumable)
      PROVE  GoneForGood /\ SuspendedOnlyResume
  <2> DEFINE s == e.subagentRunId
  <2>1. CASE /\ s \in DOMAIN openSubagents
             /\ closedSubagents' =
                  Put(closedSubagents, s, [index |-> eventCount, resumable |-> resumable])
    <3>1. s \notin DOMAIN closedSubagents
      BY <2>1 DEF SubagentInv, SubagentHasOneForm
    <3>2. /\ DOMAIN closedSubagents \subseteq DOMAIN closedSubagents'
          /\ \A x \in DOMAIN closedSubagents : closedSubagents'[x] = closedSubagents[x]
      BY <2>1, <3>1 DEF Put
    <3> QED BY <3>2 DEF GoneForGood, SuspendedOnlyResume, GoneSubagents
  <2> QED BY <1>1, <1>3, <2>1 DEF Closes
<1>4. ~ SubagentsNewRun
  BY DEF SubagentsNewRun, NewRun, SameRun
<1>5. CASE UNCHANGED subagentVars
  BY <1>1, <1>5 DEF subagentVars, subagentLifeVars
<1>6. ASSUME NEW e \in SubagentInputs, SubagentEvent(e)
      PROVE  GoneForGood /\ SuspendedOnlyResume
  BY <1>2, <1>3, <1>6 DEF SubagentEvent, SubagentFinished, SubagentError
<1> QED BY <1>1, <1>4, <1>5, <1>6
        DEF SubagentNext, SubagentsElsewhere, SubagentsEnd, SubagentsFinalize, subagentLifeVars

\* For any stream, a subagent closed for good never comes back within its run,
\* and a suspended one stops being closed only by resuming.
THEOREM SubagentsStayGone == SubagentSpec => SubagentsNeverReturn
<1>1. SubagentInv /\ [SubagentNext]_subagentVars =>
        [SameRun => GoneForGood /\ SuspendedOnlyResume]_subagentVars
  BY StepKeepsGone
<1> QED BY <1>1, SubagentInvariant, PTL DEF SubagentSpec, SubagentsNeverReturn

-----------------------------------------------------------------------------
(* The shared state.                                                        *)

\* The inductive invariant.
StateInv == StateTypeOK /\ StateIsFounded

-----------------------------------------------------------------------------
\* A patch yields a document when there is one to patch, and nothing otherwise.
LEMMA PatchedType ==
  ASSUME StateTypeOK, NEW patch \in Patches
  PROVE  Patched(patch) \in IF known THEN Documents ELSE {None}
<1>1. CASE known
  <2>1. value \in Documents
    BY <1>1 DEF StateTypeOK
  <2>2. Applied[value, patch] \in Documents \cup {None}
    BY <2>1, AppliedAssumption
  <2> QED BY <1>1, <2>1, <2>2 DEF Patched
<1>2. CASE ~known
  BY <1>2 DEF Patched, StateTypeOK
<1> QED BY <1>1, <1>2

\* A diagnostic about the current event is a legal one.
LEMMA StateReportType ==
  ASSUME StateTypeOK, NEW rule \in {"AGUI301", "AGUI302", "AGUI303", "AGUI304", "AGUI305"},
         NEW id \in Nat \cup {None}
  PROVE  StateReport(rule, id) \subseteq StateFindings
BY DEF StateReport, Finding, StateFindings, StateTypeOK, ScopeTypeOK, Indices

LEMMA SnapshotPreserves ==
  ASSUME StateInv, NEW e \in StateEvents, StateSnapshot(e)
  PROVE  StateInv'
<1> USE DEF StateInv
<1>1. /\ ScopeTypeOK'
      /\ e.snapshot \in Documents
      /\ deltasSinceSnapshot \in Nat
  BY ScopePreserved DEF StateSnapshot, StateEvents, StateTypeOK
<1>2. stateFound' \subseteq StateFindings
  BY <1>1, StateReportType DEF StateSnapshot
<1>3. /\ known' = TRUE /\ snapshotSeen' = TRUE /\ anySnapshot' = TRUE
      /\ value' = e.snapshot /\ deltasSinceSnapshot' = 0
      /\ UNCHANGED <<agui301Fired, internalErrors>>
  BY DEF StateSnapshot
<1>4. StateTypeOK'
  BY <1>1, <1>2, <1>3 DEF StateTypeOK
<1>5. StateIsFounded'
  BY <1>3 DEF StateIsFounded
<1> QED BY <1>4, <1>5

LEMMA DeltaPreserves ==
  ASSUME StateInv, NEW e \in StateEvents, StateDelta(e)
  PROVE  StateInv'
<1> USE DEF StateInv
<1>1. ScopeTypeOK'
  BY ScopePreserved DEF StateDelta, StateTypeOK
<1>2. CASE PatchDelta(e)
  <2>1. /\ e.delta \in Patches
        /\ value' = Patched(e.delta)
        /\ deltasSinceSnapshot' = deltasSinceSnapshot + 1
        /\ UNCHANGED <<known, snapshotSeen, internalErrors, anySnapshot>>
    BY <1>2 DEF PatchDelta, StateDelta
  <2>2. stateFound' \subseteq StateFindings
    <3>1. /\ StateReport("AGUI301", None) \subseteq StateFindings
          /\ StateReport("AGUI302", None) \subseteq StateFindings
      BY StateReportType
    <3> QED BY <1>2, <3>1 DEF PatchDelta
  <2>3. agui301Fired' \in BOOLEAN
    BY <1>2 DEF PatchDelta
  <2>4. StateTypeOK'
    BY <1>1, <2>1, <2>2, <2>3, PatchedType DEF StateTypeOK
  <2>5. ~snapshotSeen => agui301Fired'
    BY <1>2 DEF PatchDelta, Unfounded
  <2>6. deltasSinceSnapshot' > 0
    BY <2>1 DEF StateTypeOK
  <2>7. StateIsFounded'
    BY <2>1, <2>5, <2>6 DEF StateIsFounded
  <2> QED BY <2>4, <2>7
<1>3. CASE NoPatchDelta(e)
  <2>1. UNCHANGED <<stateInfo, anySnapshot>>
    BY <1>3 DEF NoPatchDelta, StateDelta
  <2>2. stateFound' \subseteq StateFindings
    BY <1>3, StateReportType DEF NoPatchDelta
  <2>3. internalErrors' \in Nat
    BY <1>3 DEF NoPatchDelta, StateTypeOK
  <2> QED BY <1>1, <2>1, <2>2, <2>3 DEF StateTypeOK, StateIsFounded, stateInfo
<1> QED BY <1>2, <1>3 DEF StateDelta

\* The inputs of the other components, the runs and the end of the stream.
LEMMA StateEnvironmentPreserves ==
  ASSUME StateInv,
         \/ StateElsewhere
         \/ StateNewRun
         \/ \E type \in TerminalTypes : StateEnds(type)
         \/ StateFinalize
  PROVE  StateInv'
<1> USE DEF StateInv
<1>1. ScopeTypeOK'
  BY ScopePreserved
     DEF StateTypeOK, StateElsewhere, StateNewRun, StateEnds, StateFinalize
<1>2. stateFound' \subseteq StateFindings
  <2>1. Finding("AGUI305", AtEndOfStream, None, None) \in StateFindings
    BY DEF Finding, StateFindings, Indices
  <2> QED BY <2>1 DEF StateElsewhere, StateNewRun, StateEnds, StateFinalize
<1>3. UNCHANGED <<anySnapshot, internalErrors>>
  BY DEF StateElsewhere, StateNewRun, StateEnds, StateFinalize
<1>4. CASE UNCHANGED stateInfo
  BY <1>1, <1>2, <1>3, <1>4 DEF StateTypeOK, StateIsFounded, stateInfo
<1>5. CASE FreshState
  BY <1>1, <1>2, <1>3, <1>5 DEF StateTypeOK, StateIsFounded, FreshState
<1> QED BY <1>4, <1>5 DEF StateElsewhere, StateNewRun, StateEnds, StateFinalize

-----------------------------------------------------------------------------
\* The inductive invariant holds in every reachable state.
THEOREM StateInvariant == StateSpec => []StateInv
<1>1. StateInit => StateInv
  <2> SUFFICES ASSUME StateInit PROVE StateInv
    OBVIOUS
  <2>1. StateTypeOK
    BY DEF StateInit, ScopeInit, StateTypeOK, ScopeTypeOK
  <2>2. StateIsFounded
    BY DEF StateInit, StateIsFounded
  <2> QED BY <2>1, <2>2 DEF StateInv
<1>2. StateInv /\ [StateNext]_stateVars => StateInv'
  <2> SUFFICES ASSUME StateInv, [StateNext]_stateVars PROVE StateInv'
    OBVIOUS
  <2>1. CASE UNCHANGED stateVars
    BY <2>1 DEF stateVars, stateInfo, scopeVars, StateInv, StateTypeOK, ScopeTypeOK,
                StateIsFounded
  <2>2. ASSUME NEW e \in StateInputs, StateEvent(e) PROVE StateInv'
    BY <2>2, StateInputsAssumption, SnapshotPreserves, DeltaPreserves DEF StateEvent
  <2> QED BY <2>1, <2>2, StateEnvironmentPreserves DEF StateNext
<1> QED BY <1>1, <1>2, PTL DEF StateSpec

\* Type correctness: whatever patches do, what is remembered is a document
\* exactly while one is known.
THEOREM StateTypeCorrect == StateSpec => []StateTypeOK
<1>1. StateInv => StateTypeOK
  BY DEF StateInv
<1> QED BY <1>1, StateInvariant, PTL

\* For any stream, patches are judged on a document exactly in a run that saw a
\* snapshot, and AGUI301 was reported by a run that did not exactly when it
\* received a patch.
THEOREM StateFounded == StateSpec => []StateIsFounded
<1>1. StateInv => StateIsFounded
  BY DEF StateInv
<1> QED BY <1>1, StateInvariant, PTL
-----------------------------------------------------------------------------
(* The stream.                                                              *)

Marks == [type : {"OTHER", "UNJUDGED", "RUN_STARTED", "END_OF_STREAM", "END_AFTER_RUN"}
                 \cup TerminalTypes]

\* What the log records: the events of the four components and the marks.
Logged == StepEvents \cup ReasoningEvents \cup SubagentEvents \cup StateEvents \cup Marks

StreamInv == IsLog(Logged) /\ alphabet \in Alphabets

\* Every event an alphabet offers is one of a component's inputs.
LEMMA AlphabetInputs ==
  ASSUME StreamInv, NEW e \in alphabet
  PROVE  e \in StepInputs \cup ReasoningInputs \cup SubagentInputs \cup StateInputs
BY AlphabetsAssumption DEF StreamInv

\* A component takes an event only if it is one of its own.
LEMMA OwnInputs ==
  ASSUME NEW e \in StepInputs \cup ReasoningInputs \cup SubagentInputs \cup StateInputs
  PROVE  /\ StepEvent(e) => e \in StepInputs
         /\ ReasoningEvent(e) => e \in ReasoningInputs
         /\ SubagentEvent(e) => e \in SubagentInputs
         /\ StateEvent(e) => e \in StateInputs
<1>1. e \in StepInputs => e.type \in {"STEP_STARTED", "STEP_FINISHED"}
  BY StepInputsAssumption DEF StepEvents
<1>2. e \in ReasoningInputs =>
        e.type \in {"REASONING_START", "REASONING_END", "REASONING_MESSAGE_START",
                    "REASONING_MESSAGE_CONTENT", "REASONING_MESSAGE_END",
                    "REASONING_MESSAGE_CHUNK"}
  BY ReasoningInputsAssumption DEF ReasoningEvents
<1>3. e \in SubagentInputs =>
        e.type \in {"SUBAGENT_STARTED", "SUBAGENT_FINISHED", "SUBAGENT_ERROR"}
  BY SubagentInputsAssumption DEF SubagentEvents
<1>4. e \in StateInputs => e.type \in {"STATE_SNAPSHOT", "STATE_DELTA"}
  BY StateInputsAssumption DEF StateEvents
<1>5. StepEvent(e) => e.type \in {"STEP_STARTED", "STEP_FINISHED"}
  BY DEF StepEvent, StepStarted, StepFinished
<1>6. ReasoningEvent(e) =>
        e.type \in {"REASONING_START", "REASONING_END", "REASONING_MESSAGE_START",
                    "REASONING_MESSAGE_CONTENT", "REASONING_MESSAGE_END",
                    "REASONING_MESSAGE_CHUNK"}
  BY DEF ReasoningEvent, ReasoningStart, ReasoningEnd, ReasoningContent,
         ReasoningMessageChunk
<1>7. SubagentEvent(e) =>
        e.type \in {"SUBAGENT_STARTED", "SUBAGENT_FINISHED", "SUBAGENT_ERROR"}
  BY DEF SubagentEvent, SubagentStarted, SubagentFinished, SubagentError
<1>8. StateEvent(e) => e.type \in {"STATE_SNAPSHOT", "STATE_DELTA"}
  BY DEF StateEvent, StateSnapshot, StateDelta
<1> QED BY <1>1, <1>2, <1>3, <1>4, <1>5, <1>6, <1>7, <1>8

\* What each step of the stream is to each component.
LEMMA StepCases ==
  ASSUME StreamInv, HistoryNext
  PROVE  \/ \E e \in StepInputs : /\ StepEvent(e) /\ ReasoningElsewhere
                                  /\ SubagentsElsewhere /\ StateElsewhere
                                  /\ Logs(eventCount, e)
         \/ \E e \in ReasoningInputs : /\ ReasoningEvent(e) /\ StepsElsewhere
                                       /\ SubagentsElsewhere /\ StateElsewhere
                                       /\ Logs(eventCount, e)
         \/ \E e \in SubagentInputs : /\ SubagentEvent(e) /\ StepsElsewhere
                                      /\ ReasoningElsewhere /\ StateElsewhere
                                      /\ Logs(eventCount, e)
         \/ \E e \in StateInputs : /\ StateEvent(e) /\ StepsElsewhere
                                   /\ ReasoningElsewhere /\ SubagentsElsewhere
                                   /\ Logs(eventCount, e)
         \/ ReceivesOther
         \/ ReceivesUnjudged
         \/ ReceivesNewRun
         \/ \E type \in TerminalTypes : ReceivesTerminal(type)
         \/ EndsStream
<1>1. ASSUME NEW e \in alphabet, Receives(e)
      PROVE  \/ e \in StepInputs /\ StepEvent(e) /\ ReasoningElsewhere
                /\ SubagentsElsewhere /\ StateElsewhere
             \/ e \in ReasoningInputs /\ ReasoningEvent(e) /\ StepsElsewhere
                /\ SubagentsElsewhere /\ StateElsewhere
             \/ e \in SubagentInputs /\ SubagentEvent(e) /\ StepsElsewhere
                /\ ReasoningElsewhere /\ StateElsewhere
             \/ e \in StateInputs /\ StateEvent(e) /\ StepsElsewhere
                /\ ReasoningElsewhere /\ SubagentsElsewhere
  BY <1>1, AlphabetInputs, OwnInputs DEF Receives
<1>2. ASSUME NEW e \in alphabet, Receives(e) PROVE Logs(eventCount, e)
  BY <1>2 DEF Receives
<1> QED BY <1>1, <1>2 DEF HistoryNext

\* Each step of the stream is a step of each component.
LEMMA ComponentSteps ==
  ASSUME StreamInv, [HistoryNext]_historyVars
  PROVE  /\ [StepNext]_stepVars
         /\ [ReasoningNext]_reasoningVars
         /\ [SubagentNext]_subagentVars
         /\ [StateNext]_stateVars
<1>1. CASE UNCHANGED historyVars
  BY <1>1 DEF historyVars
<1>2. CASE HistoryNext
  <2>1. StepNext
    BY <1>2, StepCases
       DEF StepNext, ReceivesOther, ReceivesUnjudged, ReceivesNewRun, ReceivesTerminal,
           EndsStream
  <2>2. ReasoningNext
    BY <1>2, StepCases
       DEF ReasoningNext, ReceivesOther, ReceivesUnjudged, ReceivesNewRun,
           ReceivesTerminal, EndsStream
  <2>3. SubagentNext
    BY <1>2, StepCases
       DEF SubagentNext, ReceivesOther, ReceivesUnjudged, ReceivesNewRun,
           ReceivesTerminal, EndsStream
  <2>4. StateNext
    BY <1>2, StepCases
       DEF StateNext, ReceivesOther, ReceivesUnjudged, ReceivesNewRun,
           ReceivesTerminal, EndsStream
  <2> QED BY <2>1, <2>2, <2>3, <2>4
<1> QED BY <1>1, <1>2

\* The entry a step adds to the log.
LEMMA OneEntry ==
  ASSUME StreamInv, ScopeTypeOK, HistoryNext
  PROVE  \E at \in Indices, e \in Logged : Logs(at, e)
<1>1. eventCount \in Indices /\ AtEndOfStream \in Indices
  BY DEF ScopeTypeOK, Indices
<1>2. ASSUME NEW e \in StepInputs \cup ReasoningInputs \cup SubagentInputs \cup StateInputs
      PROVE  e \in Logged
  BY StepInputsAssumption, ReasoningInputsAssumption, SubagentInputsAssumption,
     StateInputsAssumption DEF Logged
<1>3. ASSUME NEW type \in {"OTHER", "UNJUDGED", "RUN_STARTED", "END_OF_STREAM",
                           "END_AFTER_RUN"} \cup TerminalTypes
      PROVE  Mark(type) \in Logged
  BY DEF Mark, Logged, Marks
<1>4. EndOfStreamMark \in Logged
  BY <1>3 DEF EndOfStreamMark
<1>5. ASSUME NEW e \in StepInputs \cup ReasoningInputs \cup SubagentInputs \cup StateInputs,
             Logs(eventCount, e)
      PROVE  \E at \in Indices, l \in Logged : Logs(at, l)
  BY <1>1, <1>2, <1>5
<1>6. CASE ReceivesOther \/ ReceivesUnjudged \/ ReceivesNewRun
  BY <1>1, <1>3, <1>6 DEF ReceivesOther, ReceivesUnjudged, ReceivesNewRun
<1>7. ASSUME NEW type \in TerminalTypes, ReceivesTerminal(type)
      PROVE  \E at \in Indices, l \in Logged : Logs(at, l)
  BY <1>1, <1>3, <1>7 DEF ReceivesTerminal
<1>8. CASE EndsStream
  BY <1>1, <1>4, <1>8 DEF EndsStream
<1> QED BY <1>5, <1>6, <1>7, <1>8, StepCases

LEMMA StreamGoesOn ==
  ASSUME StreamInv, ScopeTypeOK, [HistoryNext]_historyVars
  PROVE  StreamInv'
<1>1. CASE UNCHANGED historyVars
  BY <1>1 DEF historyVars, StreamInv, IsLog
<1>2. CASE HistoryNext
  <2>1. alphabet' = alphabet
    BY <1>2 DEF HistoryNext
  <2>2. IsLog(Logged)'
    <3>1. PICK at \in Indices, e \in Logged : Logs(at, e)
      BY <1>2, OneEntry
    <3> QED BY <3>1, LogGrows DEF StreamInv
  <2> QED BY <2>1, <2>2 DEF StreamInv
<1> QED BY <1>1, <1>2

-----------------------------------------------------------------------------
(* Steps.                                                                   *)

\* A diagnostic of the step rules built from legal parts is legal.
LEMMA StepFindingType ==
  ASSUME NEW rule \in {"AGUI006", "AGUI007", "AGUI606"}, NEW at \in Indices,
         NEW id \in StepNames, NEW related \in Nat \cup {None}
  PROVE  Finding(rule, at, id, related) \in StepFindings
BY DEF Finding, StepFindings

LEMMA StepStartedPreserves ==
  ASSUME StepTypeOK, NEW e \in StepEvents, StepStarted(e)
  PROVE  StepTypeOK'
<1> USE DEF StepTypeOK
<1> DEFINE s == e.stepName
           Opened == [count : Nat \ {0}, first : Nat, owner : Tags]
<1>1. /\ ScopeTypeOK' /\ eventCount \in Nat
      /\ stepFound' = {}
      /\ e.subagentRunId \in Tags
  BY ScopePreserved DEF StepStarted, StepEvents, Tags, ScopeTypeOK
<1>2. CASE UNCHANGED openSteps
  BY <1>1, <1>2
<1>3. CASE /\ s \in DOMAIN openSteps
           /\ openSteps' = [openSteps EXCEPT ![s].count = @ + 1]
  <2>1. /\ DOMAIN openSteps' = DOMAIN openSteps
        /\ openSteps' = [k \in DOMAIN openSteps' |-> openSteps'[k]]
    BY <1>3 DEF IsDict
  <2>2. ASSUME NEW k \in DOMAIN openSteps PROVE openSteps'[k] \in Opened
    BY <1>3 DEF IsDict
  <2> QED BY <1>1, <2>1, <2>2 DEF IsDict
<1>4. CASE /\ s \in StepNames \ DOMAIN openSteps
           /\ openSteps' = Put(openSteps, s,
                [count |-> 1, first |-> eventCount, owner |-> e.subagentRunId])
  <2>1. [count |-> 1, first |-> eventCount, owner |-> e.subagentRunId] \in Opened
    BY <1>1
  <2>2. IsDict(Put(openSteps, s,
               [count |-> 1, first |-> eventCount, owner |-> e.subagentRunId]),
               StepNames, Opened)
    BY <1>4, <2>1, PutType
  <2> QED BY <1>1, <1>4, <2>2
<1> QED BY <1>2, <1>3, <1>4 DEF StepStarted

LEMMA StepFinishedPreserves ==
  ASSUME StepTypeOK, NEW e \in StepEvents, StepFinished(e)
  PROVE  StepTypeOK'
<1> USE DEF StepTypeOK
<1> DEFINE s == e.stepName
           Opened == [count : Nat \ {0}, first : Nat, owner : Tags]
<1>1. /\ ScopeTypeOK' /\ eventCount \in Indices
  BY ScopePreserved DEF StepFinished, ScopeTypeOK, Indices
<1>2. CASE s = None /\ stepFound' = {} /\ UNCHANGED openSteps
  BY <1>1, <1>2
<1>3. CASE /\ s \in StepNames \ DOMAIN openSteps
           /\ stepFound' = {Finding("AGUI006", eventCount, s, None)}
           /\ UNCHANGED openSteps
  BY <1>1, <1>3, StepFindingType
<1>4. CASE /\ s \in DOMAIN openSteps
           /\ stepFound' = OwnerFindings(eventCount, s, e.subagentRunId, openSteps[s].owner)
           /\ openSteps' = IF openSteps[s].count = 1 THEN Drop(openSteps, s)
                           ELSE [openSteps EXCEPT ![s].count = @ - 1]
  <2>1. s \in StepNames
    BY <1>4 DEF IsDict
  <2>2. stepFound' \subseteq StepFindings
    BY <1>1, <1>4, <2>1, StepFindingType DEF OwnerFindings
  <2>3. CASE openSteps[s].count = 1
    BY <1>1, <1>4, <2>2, <2>3, DropType
  <2>4. CASE openSteps[s].count # 1
    <3>1. /\ DOMAIN openSteps' = DOMAIN openSteps
          /\ openSteps' = [k \in DOMAIN openSteps' |-> openSteps'[k]]
      BY <1>4, <2>4 DEF IsDict
    <3>2. ASSUME NEW k \in DOMAIN openSteps PROVE openSteps'[k] \in Opened
      BY <1>4, <2>4 DEF IsDict
    <3> QED BY <1>1, <2>2, <3>1, <3>2 DEF IsDict
  <2> QED BY <2>3, <2>4
<1> QED BY <1>2, <1>3, <1>4 DEF StepFinished

LEMMA StepTypePreserved ==
  ASSUME StepTypeOK, [StepNext]_stepVars
  PROVE  StepTypeOK'
<1>1. ASSUME NEW e \in StepInputs, StepEvent(e) PROVE StepTypeOK'
  BY <1>1, StepInputsAssumption, StepStartedPreserves, StepFinishedPreserves DEF StepEvent
<1>2. CASE UNCHANGED stepVars
  BY <1>2 DEF stepVars, scopeVars, StepTypeOK, ScopeTypeOK
<1>3. CASE \/ StepsElsewhere
           \/ StepsNewRun
           \/ \E type \in TerminalTypes : StepsEnd(type)
           \/ StepsFinalize
  <2>1. ScopeTypeOK'
    BY <1>3, ScopePreserved DEF StepTypeOK, StepsElsewhere, StepsNewRun, StepsEnd, StepsFinalize
  <2>2. IsDict(openSteps', StepNames, [count : Nat \ {0}, first : Nat, owner : Tags])
    BY <1>3, EmptyDictType DEF StepTypeOK, StepsElsewhere, StepsNewRun, StepsEnd, StepsFinalize
  <2>3. ASSUME NEW at \in Indices PROVE UnterminatedSteps(at) \subseteq StepFindings
    <3>1. ASSUME NEW s \in DOMAIN openSteps
          PROVE  Finding("AGUI007", at, s, openSteps[s].first) \in StepFindings
      BY StepFindingType DEF StepTypeOK, IsDict
    <3> QED BY <3>1 DEF UnterminatedSteps
  <2>4. eventCount \in Indices /\ AtEndOfStream \in Indices
    BY DEF StepTypeOK, ScopeTypeOK, Indices
  <2>5. stepFound' \subseteq StepFindings
    BY <1>3, <2>3, <2>4 DEF StepsElsewhere, StepsNewRun, StepsEnd, StepsFinalize
  <2> QED BY <2>1, <2>2, <2>5 DEF StepTypeOK
<1> QED BY <1>1, <1>2, <1>3 DEF StepNext

-----------------------------------------------------------------------------
(* Reasoning.                                                               *)

\* A diagnostic of the reasoning rules built from legal parts is legal.
LEMMA ReasoningFindingType ==
  ASSUME NEW rule \in {"AGUI401", "AGUI402", "AGUI504"}, NEW at \in Indices,
         NEW start \in {"-", "REASONING_START", "REASONING_MESSAGE_START"},
         NEW id \in ReasoningIds \cup {None}, NEW related \in Nat \cup {None}
  PROVE  Finding(rule, at, <<start, id>>, related) \in ReasoningFindings
BY DEF Finding, ReasoningFindings

LEMMA ReasoningEventPreserves ==
  ASSUME ReasoningTypeOK, NEW e \in ReasoningEvents, ReasoningEvent(e)
  PROVE  ReasoningTypeOK'
<1> USE DEF ReasoningTypeOK
<1> DEFINE m == e.messageId
<1>1. /\ ScopeTypeOK' /\ eventCount \in Nat /\ eventCount \in Indices
      /\ m \in ReasoningIds \cup {None}
  BY ScopePreserved
     DEF ReasoningEvent, ReasoningStart, ReasoningEnd, ReasoningContent,
         ReasoningMessageChunk, ReasoningEvents, ScopeTypeOK, Indices
<1>2. CASE ReasoningStart(e)
  <2>1. m # None => /\ IsDict(Put(openReasoningBlocks, m, eventCount), ReasoningIds, Nat)
                    /\ IsDict(Put(openReasoningMessages, m, eventCount), ReasoningIds, Nat)
    BY <1>1, PutType
  <2>2. /\ IsDict(openReasoningBlocks', ReasoningIds, Nat)
        /\ IsDict(openReasoningMessages', ReasoningIds, Nat)
    BY <1>2, <2>1 DEF ReasoningStart, openReasoningVars
  <2> QED BY <1>1, <1>2, <2>2 DEF ReasoningStart
<1>3. CASE ReasoningEnd(e)
  <2>1. /\ IsDict(Drop(openReasoningBlocks, m), ReasoningIds, Nat)
        /\ IsDict(Drop(openReasoningMessages, m), ReasoningIds, Nat)
    BY DropType
  <2>2. /\ IsDict(openReasoningBlocks', ReasoningIds, Nat)
        /\ IsDict(openReasoningMessages', ReasoningIds, Nat)
    BY <1>3, <2>1 DEF ReasoningEnd
  <2> QED BY <1>1, <1>3, <2>2 DEF ReasoningEnd
<1>4. CASE ReasoningContent(e)
  <2>1. Finding("AGUI401", eventCount, <<"-", m>>, None) \in ReasoningFindings
    BY <1>1, ReasoningFindingType
  <2> QED BY <1>1, <1>4, <2>1 DEF ReasoningContent, openReasoningVars
<1>5. CASE ReasoningMessageChunk(e)
  <2>1. Finding("AGUI504", eventCount, <<"-", None>>, None) \in ReasoningFindings
    BY <1>1, ReasoningFindingType
  <2>2. reasoningChunk' \in ReasoningIds \cup {None}
    BY <1>1, <1>5 DEF ReasoningMessageChunk
  <2>3. reasoningFound' \subseteq ReasoningFindings
    BY <1>5, <2>1 DEF ReasoningMessageChunk
  <2> QED BY <1>1, <1>5, <2>2, <2>3 DEF ReasoningMessageChunk, openReasoningVars
<1> QED BY <1>2, <1>3, <1>4, <1>5 DEF ReasoningEvent

LEMMA ReasoningTypePreserved ==
  ASSUME ReasoningTypeOK, [ReasoningNext]_reasoningVars
  PROVE  ReasoningTypeOK'
<1>1. ASSUME NEW e \in ReasoningInputs, ReasoningEvent(e) PROVE ReasoningTypeOK'
  BY <1>1, ReasoningInputsAssumption, ReasoningEventPreserves
<1>2. CASE UNCHANGED reasoningVars
  BY <1>2 DEF reasoningVars, openReasoningVars, scopeVars, ReasoningTypeOK, ScopeTypeOK
<1>3. CASE \/ ReasoningElsewhere
           \/ ReasoningUnjudged
           \/ ReasoningNewRun
           \/ \E type \in TerminalTypes : ReasoningEnds(type)
           \/ ReasoningFinalize
  <2> USE DEF ReasoningElsewhere, ReasoningUnjudged, ReasoningNewRun, ReasoningEnds,
              ReasoningFinalize
  <2>1. ScopeTypeOK'
    BY <1>3, ScopePreserved DEF ReasoningTypeOK
  <2>2. /\ IsDict(openReasoningBlocks', ReasoningIds, Nat)
        /\ IsDict(openReasoningMessages', ReasoningIds, Nat)
        /\ reasoningChunk' \in ReasoningIds \cup {None}
    BY <1>3, EmptyDictType DEF ReasoningTypeOK, openReasoningVars
  <2>3. ASSUME NEW at \in Indices PROVE UnterminatedReasoning(at) \subseteq ReasoningFindings
    <3>1. ASSUME NEW m \in DOMAIN openReasoningBlocks
          PROVE  Finding("AGUI402", at, <<"REASONING_START", m>>, openReasoningBlocks[m])
                   \in ReasoningFindings
      BY ReasoningFindingType DEF ReasoningTypeOK, IsDict
    <3>2. ASSUME NEW m \in DOMAIN openReasoningMessages
          PROVE  Finding("AGUI402", at, <<"REASONING_MESSAGE_START", m>>,
                         openReasoningMessages[m]) \in ReasoningFindings
      BY ReasoningFindingType DEF ReasoningTypeOK, IsDict
    <3> QED BY <3>1, <3>2 DEF UnterminatedReasoning
  <2>4. eventCount \in Indices /\ AtEndOfStream \in Indices
    BY DEF ReasoningTypeOK, ScopeTypeOK, Indices
  <2>5. reasoningFound' \subseteq ReasoningFindings
    BY <1>3, <2>3, <2>4
  <2> QED BY <2>1, <2>2, <2>5 DEF ReasoningTypeOK
<1> QED BY <1>1, <1>2, <1>3 DEF ReasoningNext

-----------------------------------------------------------------------------
(* The components under one stream.                                         *)

\* The inductive invariant of the stream itself: what the log holds, and the types
\* that need nothing else.
StreamTypeInv == StreamInv /\ StepTypeOK /\ ReasoningTypeOK

LEMMA StreamTypes == HistorySpec => []StreamTypeInv
<1>1. HistoryInit => StreamTypeInv
  <2> SUFFICES ASSUME HistoryInit PROVE StreamTypeInv
    OBVIOUS
  <2>1. IsLog(Logged)
    BY DEF HistoryInit, IsLog
  <2>2. StepTypeOK
    BY EmptyDictType DEF HistoryInit, StepInit, ScopeInit, StepTypeOK, ScopeTypeOK
  <2>3. ReasoningTypeOK
    BY EmptyDictType DEF HistoryInit, ReasoningInit, ScopeInit, ReasoningTypeOK, ScopeTypeOK
  <2> QED BY <2>1, <2>2, <2>3 DEF HistoryInit, StreamTypeInv, StreamInv
<1>2. StreamTypeInv /\ [HistoryNext]_historyVars => StreamTypeInv'
  <2> SUFFICES ASSUME StreamTypeInv, [HistoryNext]_historyVars PROVE StreamTypeInv'
    OBVIOUS
  <2>1. StreamInv /\ StepTypeOK /\ ReasoningTypeOK /\ ScopeTypeOK
    BY DEF StreamTypeInv, StepTypeOK
  <2> QED BY <2>1, ComponentSteps, StreamGoesOn, StepTypePreserved, ReasoningTypePreserved
          DEF StreamTypeInv
<1> QED BY <1>1, <1>2, PTL DEF HistorySpec

\* The stream implements its components: whatever interleaving of their events is
\* fed, each of them goes through steps its own module allows.
THEOREM RunImplementsComponents ==
  HistorySpec => StepSpec /\ ReasoningSpec /\ SubagentSpec /\ StateSpec
<1>1. HistoryInit => StepInit /\ ReasoningInit /\ SubagentInit /\ StateInit
  BY DEF HistoryInit
<1>2. StreamTypeInv /\ [HistoryNext]_historyVars =>
        /\ [StepNext]_stepVars
        /\ [ReasoningNext]_reasoningVars
        /\ [SubagentNext]_subagentVars
        /\ [StateNext]_stateVars
  BY ComponentSteps DEF StreamTypeInv
<1> QED BY <1>1, <1>2, StreamTypes, PTL
        DEF HistorySpec, StepSpec, ReasoningSpec, SubagentSpec, StateSpec

\* Type correctness of all four components, whatever the others are fed.
THEOREM RunComponentsTypeCorrect == HistorySpec => []RunComponentsTypeOK
<1>1. StreamTypeInv /\ SubagentInv /\ StateInv => RunComponentsTypeOK
  BY DEF StreamTypeInv, SubagentInv, StateInv, RunComponentsTypeOK
<1> QED BY <1>1, StreamTypes, RunImplementsComponents, SubagentInvariant, StateInvariant, PTL

-----------------------------------------------------------------------------
(* What the reasoning rules remember is what the stream says.              *)

\* At n, open holds the ids with an unanswered start, each with the index of its
\* last one.
Kept(open, start, end, n) ==
  \A m \in ReasoningIds :
    /\ m \in DOMAIN open <=> LastStart(start, end, m, n) # {}
    /\ \A p \in LastStart(start, end, m, n) : open[m] = log[p].at

ReasoningMirrors ==
  /\ Kept(openReasoningBlocks, "REASONING_START", "REASONING_END", Len(log))
  /\ Kept(openReasoningMessages, "REASONING_MESSAGE_START", "REASONING_MESSAGE_END", Len(log))
  /\ Streaming(Len(log)) <=> reasoningChunk # None

\* A start replaces the earlier ones of its id; its end, or a new run, leaves none.
LEMMA LastStartGrows ==
  ASSUME NEW n, NEW at, NEW e, Grows(n, at, e), NEW m, NEW start, NEW end, start \notin {end, "RUN_STARTED"}
  PROVE  LET now == LastStart(start, end, m, n + 1)'
         IN  /\ e.type = start /\ e.messageId = m => now = {n + 1}
             /\ e.type = end /\ e.messageId = m => now = {}
             /\ e.type = "RUN_STARTED" => now = {}
             /\ e.type # "RUN_STARTED" /\ ~ (e.type \in {start, end} /\ e.messageId = m) =>
                  now = LastStart(start, end, m, n)
<1>0. n \in Nat
  BY DEF Grows
<1>1. /\ \A p \in 1..n : log'[p] = log[p]
      /\ log'[n + 1] = [at |-> at, event |-> e]
  BY DEF Grows
<1>2. RunPositions(n + 1)' =
        (IF e.type = "RUN_STARTED" THEN {} ELSE RunPositions(n)) \cup {n + 1}
  BY RunGrows
<1>3. RunPositions(n) \subseteq 1..n
  BY DEF RunPositions
<1>4. ASSUME NEW q \in 1..n, NEW type
      PROVE  IsReasoning(q, type, m)' <=> IsReasoning(q, type, m)
  BY <1>0, <1>1 DEF IsReasoning, TypeAt
<1>5. ASSUME NEW type
      PROVE  IsReasoning(n + 1, type, m)' <=> e.type = type /\ e.messageId = m
  BY <1>0, <1>1 DEF IsReasoning, TypeAt
<1>6. n + 1 \in LastStart(start, end, m, n + 1)' <=> e.type = start /\ e.messageId = m
  BY <1>0, <1>1, <1>2, <1>5 DEF LastStart
<1>7. ASSUME NEW p \in 1..n
      PROVE  p \in LastStart(start, end, m, n + 1)' <=>
               /\ e.type # "RUN_STARTED"
               /\ ~ (e.type \in {start, end} /\ e.messageId = m)
               /\ p \in LastStart(start, end, m, n)
  <2>1. p + 1..n + 1 = (p + 1..n) \cup {n + 1}
    BY <1>0
  <2>2. p \in RunPositions(n + 1)' <=> e.type # "RUN_STARTED" /\ p \in RunPositions(n)
    BY <1>0, <1>1, <1>2
  <2> QED BY <1>0, <1>1, <1>4, <1>5, <2>1, <2>2 DEF LastStart
<1>8. LastStart(start, end, m, n + 1)' \subseteq 1..n + 1 /\ LastStart(start, end, m, n) \subseteq 1..n
  <2>1. LastStart(start, end, m, n + 1)' \subseteq RunPositions(n + 1)'
    BY DEF LastStart
  <2>2. LastStart(start, end, m, n) \subseteq RunPositions(n)
    BY DEF LastStart
  <2> QED BY <1>0, <1>1, <1>2, <1>3, <2>1, <2>2
<1>9. 1..n + 1 = 1..n \cup {n + 1} /\ n + 1 \notin 1..n
  BY <1>0
<1> QED BY <1>6, <1>7, <1>8, <1>9

\* The dictionary after the event e at index at: bound by a start, unbound by an end.
Follows(open, after, at, e, start, end) ==
  \/ /\ e.type = start /\ e.messageId # None /\ after = Put(open, e.messageId, at)
  \/ e.type = end /\ after = Drop(open, e.messageId)
  \/ e.type = "RUN_STARTED" /\ after = EmptyDict
  \/ /\ e.type # "RUN_STARTED"
     /\ e.type \in {start, end} => e.messageId = None
     /\ after = open

\* The dictionary follows the stream when the step changes it as the event says.
LEMMA KeptGrows ==
  ASSUME NEW n, NEW at, NEW e, Grows(n, at, e), NEW start, NEW end, start \notin {end, "RUN_STARTED"},
         end # "RUN_STARTED",
         NEW open, NEW after, Kept(open, start, end, n),
         Follows(open, after, at, e, start, end)
  PROVE  \A m \in ReasoningIds :
           /\ m \in DOMAIN after <=> LastStart(start, end, m, n + 1)' # {}
           /\ \A p \in LastStart(start, end, m, n + 1)' : after[m] = log'[p].at
<1> SUFFICES ASSUME NEW m \in ReasoningIds
             PROVE  /\ m \in DOMAIN after <=> LastStart(start, end, m, n + 1)' # {}
                    /\ \A p \in LastStart(start, end, m, n + 1)' : after[m] = log'[p].at
  OBVIOUS
<1>1. /\ \A p \in 1..n : log'[p] = log[p]
      /\ log'[n + 1] = [at |-> at, event |-> e]
  BY DEF Grows
<1> DEFINE now == LastStart(start, end, m, n + 1)'
<1>2. /\ e.type = start /\ e.messageId = m => now = {n + 1}
      /\ e.type = end /\ e.messageId = m => now = {}
      /\ e.type = "RUN_STARTED" => now = {}
      /\ e.type # "RUN_STARTED" /\ ~ (e.type \in {start, end} /\ e.messageId = m) =>
           now = LastStart(start, end, m, n)
  BY LastStartGrows
<1>3. LastStart(start, end, m, n) \subseteq 1..n
  BY DEF LastStart, RunPositions
<1>4. m # None
  BY ReasoningIdsAssumption
<1>5. /\ m \in DOMAIN open <=> LastStart(start, end, m, n) # {}
      /\ \A p \in LastStart(start, end, m, n) : open[m] = log'[p].at
  BY <1>1, <1>3 DEF Kept
<1>6. CASE e.type = start /\ e.messageId # None /\ after = Put(open, e.messageId, at)
  <2>1. /\ DOMAIN after = DOMAIN open \cup {e.messageId}
        /\ after[e.messageId] = at
        /\ \A x \in DOMAIN open : x # e.messageId => after[x] = open[x]
    BY <1>6 DEF Put
  <2> QED BY <1>1, <1>2, <1>5, <1>6, <2>1
<1>7. CASE e.type = end /\ after = Drop(open, e.messageId)
  <2>1. /\ DOMAIN after = DOMAIN open \ {e.messageId}
        /\ \A x \in DOMAIN open : x # e.messageId => after[x] = open[x]
    BY <1>7, DropKeys
  <2> QED BY <1>2, <1>5, <1>7, <2>1
<1>8. CASE e.type = "RUN_STARTED" /\ after = EmptyDict
  BY <1>2, <1>8, EmptyDictType
<1>9. CASE /\ e.type # "RUN_STARTED"
           /\ e.type \in {start, end} => e.messageId = None
           /\ after = open
  BY <1>2, <1>4, <1>5, <1>9
<1> QED BY <1>6, <1>7, <1>8, <1>9 DEF Follows

\* A chunk stream goes on while its run only sees chunks with a delta.
LEMMA StreamingGrows ==
  ASSUME NEW n, NEW at, NEW e, Grows(n, at, e)
  PROVE  /\ Streaming(n)' <=> Streaming(n)
         /\ Streaming(n + 1)' <=>
              CASE e.type = "REASONING_MESSAGE_CHUNK" ->
                     ~e.emptyDelta /\ (e.messageId # None \/ Streaming(n))
                [] e.type \in {"UNJUDGED", "END_AFTER_RUN"} -> Streaming(n)
                [] OTHER -> FALSE
<1>0. n \in Nat
  BY DEF Grows
<1>1. /\ \A p \in 1..n : log'[p] = log[p]
      /\ log'[n + 1] = [at |-> at, event |-> e]
  BY DEF Grows
<1>2. /\ RunPositions(n)' = RunPositions(n)
      /\ RunPositions(n + 1)' =
           (IF e.type = "RUN_STARTED" THEN {} ELSE RunPositions(n)) \cup {n + 1}
  BY <1>0, <1>1, RunGrows
<1>3. RunPositions(n) \subseteq 1..n
  BY DEF RunPositions
<1> DEFINE Enters(p) == /\ TypeAt(p) = "REASONING_MESSAGE_CHUNK"
                        /\ log[p].event.messageId # None
           Goes(q) == Judges(q) => /\ TypeAt(q) = "REASONING_MESSAGE_CHUNK"
                                   /\ ~log[q].event.emptyDelta
<1>4. ASSUME NEW q \in 1..n PROVE (Enters(q)' <=> Enters(q)) /\ (Goes(q)' <=> Goes(q))
  BY <1>0, <1>1 DEF TypeAt, Judges
<1>5. /\ Enters(n + 1)' <=> e.type = "REASONING_MESSAGE_CHUNK" /\ e.messageId # None
      /\ Goes(n + 1)' <=> \/ e.type \in {"UNJUDGED", "END_AFTER_RUN"}
                          \/ e.type = "REASONING_MESSAGE_CHUNK" /\ ~e.emptyDelta
  BY <1>0, <1>1 DEF TypeAt, Judges
<1>6. Streaming(n) <=> \E p \in RunPositions(n) : Enters(p) /\ \A q \in p..n : Goes(q)
  BY DEF Streaming
<1>7. Streaming(n)' <=> \E p \in RunPositions(n) : Enters(p)' /\ \A q \in p..n : Goes(q)'
  BY <1>2 DEF Streaming
<1>8. Streaming(n + 1)' <=>
        \E p \in RunPositions(n + 1)' : Enters(p)' /\ \A q \in p..n + 1 : Goes(q)'
  BY DEF Streaming
<1> HIDE DEF Enters, Goes
<1>9. Streaming(n)' <=> Streaming(n)
  BY <1>0, <1>1, <1>3, <1>4, <1>6, <1>7
<1>10. ASSUME NEW p \in 1..n
       PROVE  (\A q \in p..n + 1 : Goes(q)') <=> (\A q \in p..n : Goes(q)) /\ Goes(n + 1)'
  <2>1. p..n + 1 = (p..n) \cup {n + 1} /\ p..n \subseteq 1..n
    BY <1>0, <1>1
  <2> QED BY <1>4, <2>1
<1>11. (\A q \in n + 1..n + 1 : Goes(q)') <=> Goes(n + 1)'
  BY <1>0, <1>1
<1>12. (\E p \in RunPositions(n + 1)' : p # n + 1 /\ Enters(p)' /\ \A q \in p..n + 1 : Goes(q)')
         <=> e.type # "RUN_STARTED" /\ Streaming(n) /\ Goes(n + 1)'
  <2>1. \A p \in RunPositions(n) : p \in 1..n /\ p # n + 1
    BY <1>0, <1>1, <1>3
  <2> QED BY <1>2, <1>4, <1>6, <1>10, <2>1
<1>13. Streaming(n + 1)' <=> \/ Enters(n + 1)' /\ Goes(n + 1)'
                             \/ e.type # "RUN_STARTED" /\ Streaming(n) /\ Goes(n + 1)'
  BY <1>0, <1>2, <1>8, <1>11, <1>12
<1>14. Streaming(n + 1)' <=>
         CASE e.type = "REASONING_MESSAGE_CHUNK" ->
                ~e.emptyDelta /\ (e.messageId # None \/ Streaming(n))
           [] e.type \in {"UNJUDGED", "END_AFTER_RUN"} -> Streaming(n)
           [] OTHER -> FALSE
  BY <1>5, <1>13
<1> QED BY <1>9, <1>14

\* What a step of the stream is to the reasoning rules, and the entry it logs.
ReasoningSees(i, e) ==
  \/ i = eventCount /\ e \in ReasoningInputs /\ ReasoningEvent(e)
  \/ /\ i = eventCount /\ ReasoningElsewhere
     /\ e.type \in {"STEP_STARTED", "STEP_FINISHED", "SUBAGENT_STARTED", "SUBAGENT_FINISHED",
                    "SUBAGENT_ERROR", "STATE_SNAPSHOT", "STATE_DELTA", "OTHER"}
  \/ i = eventCount /\ ReasoningUnjudged /\ e = Mark("UNJUDGED")
  \/ i = eventCount /\ ReasoningNewRun /\ e = Mark("RUN_STARTED")
  \/ \E type \in TerminalTypes : i = eventCount /\ ReasoningEnds(type) /\ e = Mark(type)
  \/ i = AtEndOfStream /\ ReasoningFinalize /\ e = EndOfStreamMark

LEMMA ReasoningView ==
  ASSUME StreamInv, HistoryNext
  PROVE  \E i, e : Logs(i, e) /\ ReasoningSees(i, e)
<1>1. ASSUME NEW e \in StepInputs \cup SubagentInputs \cup StateInputs
      PROVE  e.type \in {"STEP_STARTED", "STEP_FINISHED", "SUBAGENT_STARTED",
                         "SUBAGENT_FINISHED", "SUBAGENT_ERROR", "STATE_SNAPSHOT",
                         "STATE_DELTA"}
  BY StepInputsAssumption, SubagentInputsAssumption, StateInputsAssumption
     DEF StepEvents, SubagentEvents, StateEvents
<1>2. ASSUME NEW e \in StepInputs \cup SubagentInputs \cup StateInputs,
             ReasoningElsewhere, Logs(eventCount, e)
      PROVE  \E i, l : Logs(i, l) /\ ReasoningSees(i, l)
  BY <1>1, <1>2 DEF ReasoningSees
<1>3. ASSUME NEW e \in ReasoningInputs, ReasoningEvent(e), Logs(eventCount, e)
      PROVE  \E i, l : Logs(i, l) /\ ReasoningSees(i, l)
  BY <1>3 DEF ReasoningSees
<1>4. CASE ReceivesOther
  <2>1. Mark("OTHER").type = "OTHER"
    BY DEF Mark
  <2> QED BY <1>4, <2>1 DEF ReceivesOther, ReasoningSees
<1>5. CASE ReceivesUnjudged \/ ReceivesNewRun
  BY <1>5 DEF ReceivesUnjudged, ReceivesNewRun, ReasoningSees
<1>6. ASSUME NEW type \in TerminalTypes, ReceivesTerminal(type)
      PROVE  \E i, l : Logs(i, l) /\ ReasoningSees(i, l)
  BY <1>6 DEF ReceivesTerminal, ReasoningSees
<1>7. CASE EndsStream
  BY <1>7 DEF EndsStream, ReasoningSees
<1> QED BY <1>2, <1>3, <1>4, <1>5, <1>6, <1>7, StepCases

\* The two dictionaries and the chunk stream change as the entry says.
LEMMA ReasoningFollows ==
  ASSUME NEW i, NEW e, ReasoningSees(i, e)
  PROVE  /\ Follows(openReasoningBlocks, openReasoningBlocks', i, e,
                    "REASONING_START", "REASONING_END")
         /\ Follows(openReasoningMessages, openReasoningMessages', i, e,
                    "REASONING_MESSAGE_START", "REASONING_MESSAGE_END")
         /\ reasoningChunk' # None <=>
              CASE e.type = "REASONING_MESSAGE_CHUNK" ->
                     ~e.emptyDelta /\ (e.messageId # None \/ reasoningChunk # None)
                [] e.type \in {"UNJUDGED", "END_AFTER_RUN"} -> reasoningChunk # None
                [] OTHER -> FALSE
<1> USE DEF Follows, openReasoningVars
<1>1. CASE i = eventCount /\ e \in ReasoningInputs /\ ReasoningEvent(e)
  <2>1. CASE ReasoningStart(e)
    BY <1>1, <2>1 DEF ReasoningStart
  <2>2. CASE ReasoningEnd(e)
    BY <1>1, <2>2 DEF ReasoningEnd
  <2>3. CASE ReasoningContent(e)
    BY <1>1, <2>3 DEF ReasoningContent
  <2>4. CASE ReasoningMessageChunk(e)
    BY <1>1, <2>4 DEF ReasoningMessageChunk
  <2> QED BY <1>1, <2>1, <2>2, <2>3, <2>4 DEF ReasoningEvent
<1>2. CASE /\ ReasoningElsewhere
           /\ e.type \in {"STEP_STARTED", "STEP_FINISHED", "SUBAGENT_STARTED",
                          "SUBAGENT_FINISHED", "SUBAGENT_ERROR", "STATE_SNAPSHOT",
                          "STATE_DELTA", "OTHER"}
  BY <1>2 DEF ReasoningElsewhere
<1>3. CASE ReasoningUnjudged /\ e = Mark("UNJUDGED")
  <2>1. e.type = "UNJUDGED"
    BY <1>3 DEF Mark
  <2> QED BY <1>3, <2>1 DEF ReasoningUnjudged
<1>4. CASE ReasoningNewRun /\ e = Mark("RUN_STARTED")
  <2>1. e.type = "RUN_STARTED"
    BY <1>4 DEF Mark
  <2> QED BY <1>4, <2>1 DEF ReasoningNewRun
<1>5. ASSUME NEW type \in TerminalTypes, ReasoningEnds(type), e = Mark(type)
      PROVE  /\ UNCHANGED openReasoningVars /\ reasoningChunk' = None
             /\ e.type \in TerminalTypes
  BY <1>5 DEF Mark, ReasoningEnds
<1>6. CASE ReasoningFinalize /\ e = EndOfStreamMark
  <2>1. e.type = IF terminal = None THEN "END_OF_STREAM" ELSE "END_AFTER_RUN"
    BY <1>6 DEF EndOfStreamMark, Mark
  <2> QED BY <1>6, <2>1 DEF ReasoningFinalize
<1> QED BY <1>1, <1>2, <1>3, <1>4, <1>5, <1>6 DEF ReasoningSees, TerminalTypes

LEMMA ReasoningMirrorsGrow ==
  ASSUME NEW n, NEW i, NEW e, Grows(n, i, e), ReasoningMirrors, ReasoningSees(i, e)
  PROVE  ReasoningMirrors'
<1>1. Len(log) = n /\ Len(log') = n + 1
  BY DEF Grows
<1>2. Kept(openReasoningBlocks, "REASONING_START", "REASONING_END", Len(log))'
  <2>1. Kept(openReasoningBlocks, "REASONING_START", "REASONING_END", n)
    BY <1>1 DEF ReasoningMirrors
  <2>2. Follows(openReasoningBlocks, openReasoningBlocks', i, e,
                "REASONING_START", "REASONING_END")
    BY ReasoningFollows
  <2>3. \A m \in ReasoningIds :
          LET starts == LastStart("REASONING_START", "REASONING_END", m, n + 1)'
          IN  /\ m \in DOMAIN openReasoningBlocks' <=> starts # {}
              /\ \A p \in starts : openReasoningBlocks'[m] = log'[p].at
    BY <2>1, <2>2, KeptGrows
  <2> QED BY <1>1, <2>3 DEF Kept
<1>3. Kept(openReasoningMessages, "REASONING_MESSAGE_START", "REASONING_MESSAGE_END",
           Len(log))'
  <2>1. Kept(openReasoningMessages, "REASONING_MESSAGE_START", "REASONING_MESSAGE_END", n)
    BY <1>1 DEF ReasoningMirrors
  <2>2. Follows(openReasoningMessages, openReasoningMessages', i, e,
                "REASONING_MESSAGE_START", "REASONING_MESSAGE_END")
    BY ReasoningFollows
  <2>3. \A m \in ReasoningIds :
          LET starts == LastStart("REASONING_MESSAGE_START", "REASONING_MESSAGE_END",
                                  m, n + 1)'
          IN  /\ m \in DOMAIN openReasoningMessages' <=> starts # {}
              /\ \A p \in starts : openReasoningMessages'[m] = log'[p].at
    BY <2>1, <2>2, KeptGrows
  <2> QED BY <1>1, <2>3 DEF Kept
<1>4. Streaming(n) <=> reasoningChunk # None
  BY <1>1 DEF ReasoningMirrors
<1>5. Streaming(n + 1)' <=> reasoningChunk' # None
  BY <1>4, StreamingGrows, ReasoningFollows
<1> QED BY <1>1, <1>2, <1>3, <1>5 DEF ReasoningMirrors

\* What is left unanswered at the end, as the stream and the dictionaries have it.
LEMMA UnansweredReasoning ==
  ASSUME ReasoningTypeOK', ReasoningMirrors', NEW n, n = Len(log'), NEW at
  PROVE  UnterminatedReasoning(at)' = LeftUnanswered(at, n)'
<1>1. /\ DOMAIN openReasoningBlocks' \subseteq ReasoningIds
      /\ DOMAIN openReasoningMessages' \subseteq ReasoningIds
  BY DEF ReasoningTypeOK, IsDict
<1>2. ASSUME NEW m \in ReasoningIds
      PROVE  /\ m \in DOMAIN openReasoningBlocks' <=> OpenBlock(m, n)' # {}
             /\ \A p \in OpenBlock(m, n)' : openReasoningBlocks'[m] = log'[p].at
             /\ m \in DOMAIN openReasoningMessages' <=> OpenMessage(m, n)' # {}
             /\ \A p \in OpenMessage(m, n)' : openReasoningMessages'[m] = log'[p].at
  BY DEF ReasoningMirrors, Kept, OpenBlock, OpenMessage
<1> DEFINE B(m, i) == Finding("AGUI402", at, <<"REASONING_START", m>>, i)
           M(m, i) == Finding("AGUI402", at, <<"REASONING_MESSAGE_START", m>>, i)
           Blocks == {B(m, openReasoningBlocks'[m]) : m \in DOMAIN openReasoningBlocks'}
           Messages == {M(m, openReasoningMessages'[m]) : m \in DOMAIN openReasoningMessages'}
           Left(m) == {B(m, log'[p].at) : p \in OpenBlock(m, n)'}
                      \cup {M(m, log'[p].at) : p \in OpenMessage(m, n)'}
<1>3. UnterminatedReasoning(at)' = Blocks \cup Messages
  BY DEF UnterminatedReasoning
<1> HIDE DEF B, M
<1>4. ASSUME NEW m \in ReasoningIds PROVE Left(m) \subseteq Blocks \cup Messages
  BY <1>2
<1>5. ASSUME NEW m \in DOMAIN openReasoningBlocks'
      PROVE  B(m, openReasoningBlocks'[m]) \in Left(m)
  BY <1>1, <1>2
<1>6. ASSUME NEW m \in DOMAIN openReasoningMessages'
      PROVE  M(m, openReasoningMessages'[m]) \in Left(m)
  BY <1>1, <1>2
<1> HIDE DEF Left
<1>7. Blocks \cup Messages = UNION {Left(m) : m \in ReasoningIds}
  BY <1>1, <1>4, <1>5, <1>6
<1> QED BY <1>3, <1>7 DEF LeftUnanswered, Left, B, M

LEMMA ReasoningToldExactly ==
  ASSUME NEW n, NEW i, NEW e, Grows(n, i, e), ReasoningMirrors, ReasoningMirrors',
         ReasoningTypeOK', ReasoningSees(i, e)
  PROVE  reasoningFound' = ReasoningDeserved(n + 1)'
<1>1. /\ n \in Nat /\ Len(log) = n /\ Len(log') = n + 1
      /\ log'[n + 1] = [at |-> i, event |-> e]
  BY DEF Grows
<1>2. log'[n + 1].at = i /\ log'[n + 1].event = e
  BY <1>1
<1>3. ReasoningDeserved(n + 1)' =
        CASE e.type = "REASONING_MESSAGE_CONTENT" /\ e.messageId # None ->
               IF OpenMessage(e.messageId, n + 1)' = {}
               THEN {Finding("AGUI401", i, <<"-", e.messageId>>, None)} ELSE {}
          [] e.type = "REASONING_MESSAGE_CHUNK" /\ e.messageId = None ->
               IF Streaming(n)' THEN {} ELSE {Finding("AGUI504", i, <<"-", None>>, None)}
          [] e.type \in {"RUN_FINISHED", "END_OF_STREAM"} -> LeftUnanswered(i, n + 1)'
          [] OTHER -> {}
  BY <1>1, <1>2 DEF ReasoningDeserved
<1>4. Streaming(n)' <=> reasoningChunk # None
  BY <1>1, StreamingGrows DEF ReasoningMirrors
<1>5. UnterminatedReasoning(i)' = LeftUnanswered(i, n + 1)'
  BY <1>1, UnansweredReasoning
<1>6. UNCHANGED openReasoningVars => UnterminatedReasoning(i)' = UnterminatedReasoning(i)
  BY DEF openReasoningVars, UnterminatedReasoning
<1>7. ASSUME NEW m \in ReasoningIds, UNCHANGED openReasoningVars
      PROVE  OpenMessage(m, n + 1)' = {} <=> m \notin DOMAIN openReasoningMessages
  BY <1>1, <1>7 DEF ReasoningMirrors, Kept, OpenMessage, openReasoningVars
<1>8. CASE i = eventCount /\ e \in ReasoningInputs /\ ReasoningEvent(e)
  <2>1. CASE ReasoningStart(e) \/ ReasoningEnd(e)
    BY <1>3, <2>1 DEF ReasoningStart, ReasoningEnd
  <2>2. CASE ReasoningContent(e)
    <3>1. e.messageId \in ReasoningIds \cup {None}
      BY <1>8, <2>2, ReasoningInputsAssumption DEF ReasoningContent, ReasoningEvents
    <3> QED BY <1>3, <1>7, <1>8, <2>2, <3>1 DEF ReasoningContent
  <2>3. CASE ReasoningMessageChunk(e)
    BY <1>3, <1>4, <1>8, <2>3 DEF ReasoningMessageChunk
  <2> QED BY <1>8, <2>1, <2>2, <2>3 DEF ReasoningEvent
<1>9. CASE /\ ReasoningElsewhere
           /\ e.type \in {"STEP_STARTED", "STEP_FINISHED", "SUBAGENT_STARTED",
                          "SUBAGENT_FINISHED", "SUBAGENT_ERROR", "STATE_SNAPSHOT",
                          "STATE_DELTA", "OTHER"}
  BY <1>3, <1>9 DEF ReasoningElsewhere
<1>10. CASE \/ ReasoningUnjudged /\ e = Mark("UNJUDGED")
            \/ ReasoningNewRun /\ e = Mark("RUN_STARTED")
  BY <1>3, <1>10 DEF ReasoningUnjudged, ReasoningNewRun, Mark
<1>11. ASSUME NEW type \in TerminalTypes, i = eventCount, ReasoningEnds(type), e = Mark(type)
       PROVE  reasoningFound' = ReasoningDeserved(n + 1)'
  BY <1>3, <1>5, <1>6, <1>11 DEF ReasoningEnds, Mark, TerminalTypes
<1>12. CASE i = AtEndOfStream /\ ReasoningFinalize /\ e = EndOfStreamMark
  BY <1>3, <1>5, <1>6, <1>12 DEF ReasoningFinalize, EndOfStreamMark, Mark
<1> QED BY <1>8, <1>9, <1>10, <1>11, <1>12 DEF ReasoningSees

\* For any stream, the reasoning rules report every input exactly as the stream up
\* to it deserves: what they remember is what the stream says of each id.
THEOREM ReasoningExact == HistorySpec => []ReasoningFindingsExact
<1> DEFINE Inv == ReasoningMirrors /\ ReasoningFindingsExact
<1>1. HistoryInit => Inv
  <2> SUFFICES ASSUME HistoryInit PROVE Inv
    OBVIOUS
  <2>1. log = <<>> /\ Len(log) = 0
    BY DEF HistoryInit
  <2>2. RunPositions(0) = {}
    BY DEF RunPositions
  <2>3. /\ openReasoningBlocks = EmptyDict /\ openReasoningMessages = EmptyDict
        /\ reasoningChunk = None
    BY DEF HistoryInit, ReasoningInit
  <2>4. /\ Kept(openReasoningBlocks, "REASONING_START", "REASONING_END", 0)
        /\ Kept(openReasoningMessages, "REASONING_MESSAGE_START", "REASONING_MESSAGE_END", 0)
    BY <2>2, <2>3, EmptyDictType DEF Kept, LastStart
  <2>5. ~ Streaming(0)
    BY <2>2 DEF Streaming
  <2> QED BY <2>1, <2>3, <2>4, <2>5 DEF ReasoningMirrors, ReasoningFindingsExact
<1>2. StreamTypeInv /\ StreamTypeInv' /\ Inv /\ [HistoryNext]_historyVars => Inv'
  <2> SUFFICES ASSUME StreamTypeInv, StreamTypeInv', Inv, [HistoryNext]_historyVars
               PROVE  Inv'
    OBVIOUS
  <2>1. CASE UNCHANGED historyVars
    <3>1. UNCHANGED <<log, openReasoningBlocks, openReasoningMessages, reasoningChunk,
                      reasoningFound>>
      BY <2>1 DEF historyVars, reasoningVars, openReasoningVars
    <3>2. ReasoningMirrors'
      <4>1. ASSUME NEW start, NEW end, NEW m, NEW n
            PROVE  LastStart(start, end, m, n)' = LastStart(start, end, m, n)
        BY <3>1 DEF LastStart, IsReasoning, TypeAt, RunPositions
      <4>2. Streaming(Len(log))' <=> Streaming(Len(log))
        BY <3>1 DEF Streaming, TypeAt, Judges, RunPositions
      <4>3. ASSUME NEW start, NEW end
            PROVE  /\ Kept(openReasoningBlocks, start, end, Len(log))' <=>
                        Kept(openReasoningBlocks, start, end, Len(log))
                   /\ Kept(openReasoningMessages, start, end, Len(log))' <=>
                        Kept(openReasoningMessages, start, end, Len(log))
        BY <3>1, <4>1 DEF Kept
      <4> QED BY <3>1, <4>2, <4>3 DEF ReasoningMirrors
    <3>3. ReasoningDeserved(Len(log))' = ReasoningDeserved(Len(log))
      BY <3>1 DEF ReasoningDeserved, LeftUnanswered, OpenBlock, OpenMessage, LastStart,
                  Streaming, IsReasoning, TypeAt, Judges, RunPositions
    <3> QED BY <3>1, <3>2, <3>3 DEF ReasoningFindingsExact
  <2>2. CASE HistoryNext
    <3>1. ReasoningTypeOK' /\ StreamInv /\ ScopeTypeOK
      BY DEF StreamTypeInv, ReasoningTypeOK
    <3>2. PICK i, e : Logs(i, e) /\ ReasoningSees(i, e)
      BY <2>2, <3>1, ReasoningView
    <3>3. PICK n : Grows(n, i, e)
      BY <3>1, <3>2, NextEntry DEF StreamInv
    <3>4. ReasoningMirrors'
      BY <3>2, <3>3, ReasoningMirrorsGrow
    <3>5. reasoningFound' = ReasoningDeserved(n + 1)'
      BY <3>1, <3>2, <3>3, <3>4, ReasoningToldExactly
    <3>6. Len(log') = n + 1
      BY <3>3 DEF Grows
    <3> QED BY <3>4, <3>5, <3>6 DEF ReasoningFindingsExact
  <2> QED BY <2>1, <2>2
<1> QED BY <1>1, <1>2, StreamTypes, PTL DEF HistorySpec

-----------------------------------------------------------------------------
(* What the subagent rules remember is what the stream says.               *)

\* At n: s is known when a start named it, open when a start holds it open, gone when
\* a closing ended it for good, and otherwise no start of it waits for a closing.
SubagentMirrored(s, n) ==
  /\ s \in knownSubagentRunIds <=> Starts(s, n) # {}
  /\ s \in DOMAIN openSubagents <=> Openings(s, n) # {}
  /\ \A p \in Openings(s, n) : openSubagents[s] = log[p].at
  /\ s \in GoneSubagents <=> Deaths(s, n) # {}
  /\ \A q \in Deaths(s, n) : closedSubagents[s].index = log[q].at
  /\ Deaths(s, n) = {} => FinalClosings(s, n) = {}
  /\ s \notin DOMAIN openSubagents \cup GoneSubagents => Unclosed(s, n) = {}

SubagentsMirror == \A s \in SubagentIds : SubagentMirrored(s, Len(log))

\* The events of s, as the log has them.
StartsIt(e, s) == e.type = "SUBAGENT_STARTED" /\ e.subagentRunId = s
ClosesIt(e, s) == e.type \in {"SUBAGENT_FINISHED", "SUBAGENT_ERROR"} /\ e.subagentRunId = s
SuspendsIt(e, s) == e.type = "SUBAGENT_FINISHED" /\ e.subagentRunId = s /\ e.suspended

LEMMA EntriesOfSubagent ==
  ASSUME NEW n, NEW i, NEW e, Grows(n, i, e), NEW s
  PROVE  /\ \A q \in 1..n : /\ IsSubagent(q, "SUBAGENT_STARTED", s)' <=>
                                 IsSubagent(q, "SUBAGENT_STARTED", s)
                            /\ IsClosing(q, s)' <=> IsClosing(q, s)
                            /\ IsSuspension(q, s)' <=> IsSuspension(q, s)
         /\ IsSubagent(n + 1, "SUBAGENT_STARTED", s)' <=> StartsIt(e, s)
         /\ IsClosing(n + 1, s)' <=> ClosesIt(e, s)
         /\ IsSuspension(n + 1, s)' <=> SuspendsIt(e, s)
<1>1. /\ n \in Nat
      /\ \A q \in 1..n : log'[q] = log[q]
      /\ log'[n + 1] = [at |-> i, event |-> e]
  BY DEF Grows
<1>2. log'[n + 1].event = e
  BY <1>1
<1>3. ASSUME NEW q \in 1..n, NEW type
      PROVE  IsSubagent(q, type, s)' <=> IsSubagent(q, type, s)
  BY <1>1 DEF IsSubagent, TypeAt
<1>4. ASSUME NEW q \in 1..n PROVE IsSuspension(q, s)' <=> IsSuspension(q, s)
  BY <1>1, <1>3 DEF IsSuspension
<1>5. ASSUME NEW type
      PROVE  IsSubagent(n + 1, type, s)' <=> e.type = type /\ e.subagentRunId = s
  BY <1>2 DEF IsSubagent, TypeAt
<1>6. IsClosing(n + 1, s)' <=> ClosesIt(e, s)
  BY <1>5 DEF IsClosing, ClosesIt
<1>7. IsSuspension(n + 1, s)' <=> SuspendsIt(e, s)
  BY <1>2, <1>5 DEF IsSuspension, SuspendsIt
<1> QED BY <1>3, <1>4, <1>5, <1>6, <1>7 DEF IsClosing, StartsIt

LEMMA StartsGrow ==
  ASSUME NEW n, NEW i, NEW e, Grows(n, i, e), NEW s
  PROVE  /\ Starts(s, n) \subseteq 1..n
         /\ StartsIt(e, s) => Starts(s, n + 1)' = Starts(s, n) \cup {n + 1}
         /\ e.type = "RUN_STARTED" => Starts(s, n + 1)' = {}
         /\ ~ StartsIt(e, s) /\ e.type # "RUN_STARTED" => Starts(s, n + 1)' = Starts(s, n)
<1>1. n \in Nat
  BY DEF Grows
<1>2. /\ RunPositions(n) \subseteq 1..n
      /\ RunPositions(n + 1)' =
           (IF e.type = "RUN_STARTED" THEN {} ELSE RunPositions(n)) \cup {n + 1}
  BY RunGrows
<1>3. /\ \A q \in 1..n : IsSubagent(q, "SUBAGENT_STARTED", s)' <=>
                           IsSubagent(q, "SUBAGENT_STARTED", s)
      /\ IsSubagent(n + 1, "SUBAGENT_STARTED", s)' <=> StartsIt(e, s)
  BY EntriesOfSubagent
<1>4. StartsIt(e, s) => e.type # "RUN_STARTED"
  BY DEF StartsIt
<1> HIDE DEF StartsIt
<1> QED BY <1>1, <1>2, <1>3, <1>4 DEF Starts

LEMMA UnclosedGrow ==
  ASSUME NEW n, NEW i, NEW e, Grows(n, i, e), NEW s
  PROVE  /\ Unclosed(s, n) \subseteq 1..n
         /\ StartsIt(e, s) => Unclosed(s, n + 1)' = Unclosed(s, n) \cup {n + 1}
         /\ e.type = "RUN_STARTED" \/ ClosesIt(e, s) => Unclosed(s, n + 1)' = {}
         /\ ~ StartsIt(e, s) /\ e.type # "RUN_STARTED" /\ ~ ClosesIt(e, s) =>
              Unclosed(s, n + 1)' = Unclosed(s, n)
<1>1. n \in Nat
  BY DEF Grows
<1>2. /\ \A q \in 1..n : IsClosing(q, s)' <=> IsClosing(q, s)
      /\ IsClosing(n + 1, s)' <=> ClosesIt(e, s)
  BY EntriesOfSubagent
<1>3. /\ Starts(s, n) \subseteq 1..n
      /\ StartsIt(e, s) => Starts(s, n + 1)' = Starts(s, n) \cup {n + 1}
      /\ e.type = "RUN_STARTED" => Starts(s, n + 1)' = {}
      /\ ~ StartsIt(e, s) /\ e.type # "RUN_STARTED" => Starts(s, n + 1)' = Starts(s, n)
  BY StartsGrow
<1>4. ~ (StartsIt(e, s) /\ ClosesIt(e, s))
  BY DEF StartsIt, ClosesIt
<1> DEFINE Free(p) == \A q \in p + 1..n : ~ IsClosing(q, s)
           FreeNow(p) == \A q \in p + 1..n + 1 : ~ IsClosing(q, s)'
<1>5. ASSUME NEW p \in 1..n PROVE FreeNow(p) <=> Free(p) /\ ~ ClosesIt(e, s)
  <2>1. p + 1..n + 1 = (p + 1..n) \cup {n + 1} /\ p + 1..n \subseteq 1..n
    BY <1>1
  <2> QED BY <1>2, <2>1
<1>6. FreeNow(n + 1)
  BY <1>1
<1>7. /\ Unclosed(s, n) = {p \in Starts(s, n) : Free(p)}
      /\ Unclosed(s, n + 1)' = {p \in Starts(s, n + 1)' : FreeNow(p)}
  BY DEF Unclosed
<1> HIDE DEF Free, FreeNow
<1> QED BY <1>3, <1>4, <1>5, <1>6, <1>7

\* A closing that is no suspension ends for good the life of a start that waits.
LEMMA FinalClosingsGrow ==
  ASSUME NEW n, NEW i, NEW e, Grows(n, i, e), NEW s
  PROVE  LET kills == /\ ClosesIt(e, s) /\ ~ SuspendsIt(e, s)
                      /\ Unclosed(s, n) # {}
         IN  /\ FinalClosings(s, n) \subseteq 1..n
             /\ e.type = "RUN_STARTED" => FinalClosings(s, n + 1)' = {}
             /\ kills => FinalClosings(s, n + 1)' = FinalClosings(s, n) \cup {n + 1}
             /\ ~ kills /\ e.type # "RUN_STARTED" =>
                  FinalClosings(s, n + 1)' = FinalClosings(s, n)
<1>1. n \in Nat
  BY DEF Grows
<1>2. /\ \A q \in 1..n : /\ IsClosing(q, s)' <=> IsClosing(q, s)
                         /\ IsSuspension(q, s)' <=> IsSuspension(q, s)
      /\ IsClosing(n + 1, s)' <=> ClosesIt(e, s)
      /\ IsSuspension(n + 1, s)' <=> SuspendsIt(e, s)
  BY EntriesOfSubagent
<1>3. /\ Starts(s, n) \subseteq 1..n
      /\ StartsIt(e, s) => Starts(s, n + 1)' = Starts(s, n) \cup {n + 1}
      /\ e.type = "RUN_STARTED" => Starts(s, n + 1)' = {}
      /\ ~ StartsIt(e, s) /\ e.type # "RUN_STARTED" => Starts(s, n + 1)' = Starts(s, n)
  BY StartsGrow
<1>4. e.type = "RUN_STARTED" => ~ ClosesIt(e, s)
  BY DEF ClosesIt
<1> DEFINE Waits(p, q) == p < q /\ \A k \in p + 1..q - 1 : ~ IsClosing(k, s)
           WaitsNow(p, q) == p < q /\ \A k \in p + 1..q - 1 : ~ IsClosing(k, s)'
<1>5. ASSUME NEW p \in 1..n, NEW q \in 1..n PROVE WaitsNow(p, q) <=> Waits(p, q)
  <2>1. p + 1..q - 1 \subseteq 1..n
    BY <1>1
  <2> QED BY <1>2, <2>1
<1>6. ASSUME NEW q \in 1..n + 1 PROVE ~ WaitsNow(n + 1, q)
  BY <1>1
<1>7. ASSUME NEW p \in Starts(s, n) PROVE WaitsNow(p, n + 1) <=> p \in Unclosed(s, n)
  <2>1. p \in 1..n /\ p < n + 1 /\ p + 1..n \subseteq 1..n /\ (n + 1) - 1 = n
    BY <1>1, <1>3
  <2>2. WaitsNow(p, n + 1) <=> \A k \in p + 1..n : ~ IsClosing(k, s)'
    <3>1. ASSUME NEW q, q = n, NEW r, r = n + 1
          PROVE  WaitsNow(p, r) <=> p < r /\ \A k \in p + 1..q : ~ IsClosing(k, s)'
      <4>1. r - 1 = q
        BY <1>1, <3>1
      <4> QED BY <4>1
    <3> QED BY <2>1, <3>1
  <2>3. WaitsNow(p, n + 1) <=> \A k \in p + 1..n : ~ IsClosing(k, s)
    BY <1>2, <2>1, <2>2
  <2> QED BY <2>3 DEF Unclosed
<1>8. /\ FinalClosings(s, n) =
           {q \in 1..n : /\ IsClosing(q, s) /\ ~ IsSuspension(q, s)
                         /\ \E p \in Starts(s, n) : Waits(p, q)}
      /\ FinalClosings(s, n + 1)' =
           {q \in 1..n + 1 : /\ IsClosing(q, s)' /\ ~ IsSuspension(q, s)'
                             /\ \E p \in Starts(s, n + 1)' : WaitsNow(p, q)}
  BY DEF FinalClosings
<1> HIDE DEF Waits, WaitsNow
<1>9. ASSUME NEW q \in 1..n
      PROVE  q \in FinalClosings(s, n + 1)' <=>
               e.type # "RUN_STARTED" /\ q \in FinalClosings(s, n)
  <2>1. q \in 1..n + 1
    BY <1>1
  <2>2. (\E p \in Starts(s, n + 1)' : WaitsNow(p, q)) <=>
          e.type # "RUN_STARTED" /\ \E p \in Starts(s, n) : Waits(p, q)
    <3>1. StartsIt(e, s) => e.type # "RUN_STARTED"
      BY DEF StartsIt
    <3> QED BY <1>3, <1>5, <1>6, <2>1, <3>1
  <2> QED BY <1>2, <1>8, <2>1, <2>2
<1>10. n + 1 \in FinalClosings(s, n + 1)' <=>
         ClosesIt(e, s) /\ ~ SuspendsIt(e, s) /\ Unclosed(s, n) # {}
  <2>1. n + 1 \in 1..n + 1
    BY <1>1
  <2>2. ClosesIt(e, s) => Starts(s, n + 1)' = Starts(s, n)
    BY <1>3, <1>4 DEF StartsIt, ClosesIt
  <2>3. Unclosed(s, n) \subseteq Starts(s, n)
    BY DEF Unclosed
  <2> QED BY <1>2, <1>7, <1>8, <2>1, <2>2, <2>3
<1>11. /\ FinalClosings(s, n) \subseteq 1..n
       /\ FinalClosings(s, n + 1)' \subseteq 1..n \cup {n + 1}
       /\ n + 1 \notin 1..n
  <2>1. 1..n + 1 = 1..n \cup {n + 1} /\ n + 1 \notin 1..n
    BY <1>1
  <2> QED BY <1>8, <2>1
<1> HIDE DEF ClosesIt, SuspendsIt
<1> QED BY <1>4, <1>9, <1>10, <1>11

LEMMA DeathsGrow ==
  ASSUME NEW n, NEW i, NEW e, Grows(n, i, e), NEW s
  PROVE  LET kills == /\ ClosesIt(e, s) /\ ~ SuspendsIt(e, s)
                      /\ Unclosed(s, n) # {}
         IN  /\ e.type = "RUN_STARTED" =>
                  Deaths(s, n + 1)' = {} /\ FinalClosings(s, n + 1)' = {}
             /\ e.type # "RUN_STARTED" /\ Deaths(s, n) # {} =>
                  Deaths(s, n + 1)' = Deaths(s, n)
             /\ FinalClosings(s, n) = {} /\ kills => Deaths(s, n + 1)' = {n + 1}
             /\ FinalClosings(s, n) = {} /\ ~ kills =>
                  Deaths(s, n + 1)' = {} /\ FinalClosings(s, n + 1)' = {}
<1> DEFINE kills == ClosesIt(e, s) /\ ~ SuspendsIt(e, s) /\ Unclosed(s, n) # {}
<1>1. n \in Nat
  BY DEF Grows
<1>2. /\ FinalClosings(s, n) \subseteq 1..n
      /\ e.type = "RUN_STARTED" => FinalClosings(s, n + 1)' = {}
      /\ kills => FinalClosings(s, n + 1)' = FinalClosings(s, n) \cup {n + 1}
      /\ ~ kills /\ e.type # "RUN_STARTED" =>
           FinalClosings(s, n + 1)' = FinalClosings(s, n)
  BY FinalClosingsGrow
<1>3. /\ Deaths(s, n) = First(FinalClosings(s, n))
      /\ Deaths(s, n + 1)' = First(FinalClosings(s, n + 1)')
  BY DEF Deaths, First
<1>4. First({}) = {}
  BY DEF First
<1> DEFINE before == FinalClosings(s, n)
<1>5. /\ before = {} => First(before \cup {n + 1}) = {n + 1}
      /\ First(before) # {} => First(before \cup {n + 1}) = First(before)
  BY <1>1, <1>2, FirstOfMore
<1> HIDE DEF kills
<1> SUFFICES
      /\ e.type = "RUN_STARTED" => Deaths(s, n + 1)' = {} /\ FinalClosings(s, n + 1)' = {}
      /\ e.type # "RUN_STARTED" /\ Deaths(s, n) # {} => Deaths(s, n + 1)' = Deaths(s, n)
      /\ FinalClosings(s, n) = {} /\ kills => Deaths(s, n + 1)' = {n + 1}
      /\ FinalClosings(s, n) = {} /\ ~ kills =>
           Deaths(s, n + 1)' = {} /\ FinalClosings(s, n + 1)' = {}
  BY DEF kills
<1> QED BY <1>2, <1>3, <1>4, <1>5

\* Of a subagent that is not gone, the start that holds it open is the first one that
\* waits for a closing; of one that is gone, none does.
LEMMA OpeningsGrow ==
  ASSUME NEW n, NEW i, NEW e, Grows(n, i, e), NEW s
  PROVE  /\ Openings(s, n) \subseteq 1..n
         /\ Deaths(s, n) # {} => Openings(s, n) = {}
         /\ Deaths(s, n) = {} => Openings(s, n) \subseteq Unclosed(s, n)
         /\ Deaths(s, n + 1)' # {} => Openings(s, n + 1)' = {}
         /\ e.type = "RUN_STARTED" \/ ClosesIt(e, s) => Openings(s, n + 1)' = {}
         /\ StartsIt(e, s) /\ Unclosed(s, n) = {} /\ Deaths(s, n + 1)' = {} =>
              Openings(s, n + 1)' = {n + 1}
         /\ StartsIt(e, s) /\ Openings(s, n) # {} /\ Deaths(s, n + 1)' = {} =>
              Openings(s, n + 1)' = Openings(s, n)
         /\ /\ ~ StartsIt(e, s) /\ e.type # "RUN_STARTED" /\ ~ ClosesIt(e, s)
            /\ Deaths(s, n + 1)' = {} /\ Deaths(s, n) = {}
            => Openings(s, n + 1)' = Openings(s, n)
<1> DEFINE before == Unclosed(s, n)
           now == Unclosed(s, n + 1)'
<1>1. n \in Nat
  BY DEF Grows
<1>2. /\ before \subseteq 1..n
      /\ StartsIt(e, s) => now = before \cup {n + 1}
      /\ e.type = "RUN_STARTED" \/ ClosesIt(e, s) => now = {}
      /\ ~ StartsIt(e, s) /\ e.type # "RUN_STARTED" /\ ~ ClosesIt(e, s) => now = before
  BY UnclosedGrow
<1>3. /\ Openings(s, n) = IF Deaths(s, n) # {} THEN {} ELSE First(before)
      /\ Openings(s, n + 1)' = IF Deaths(s, n + 1)' # {} THEN {} ELSE First(now)
  BY DEF Openings, First
<1>4. First({}) = {}
  BY DEF First
<1> HIDE DEF now
<1>5. /\ First(before) \subseteq before
      /\ before = {} => First(before \cup {n + 1}) = {n + 1}
      /\ First(before) # {} => First(before \cup {n + 1}) = First(before)
  BY <1>1, <1>2, FirstOfMore
<1> HIDE DEF before
<1>6. Openings(s, n) \subseteq before /\ Openings(s, n) \subseteq 1..n
  BY <1>2, <1>3, <1>5
<1>7. /\ e.type = "RUN_STARTED" \/ ClosesIt(e, s) => Openings(s, n + 1)' = {}
      /\ StartsIt(e, s) /\ before = {} /\ Deaths(s, n + 1)' = {} =>
           Openings(s, n + 1)' = {n + 1}
  BY <1>2, <1>3, <1>4, <1>5
<1>8. StartsIt(e, s) /\ Openings(s, n) # {} /\ Deaths(s, n + 1)' = {} =>
        Openings(s, n + 1)' = Openings(s, n)
  BY <1>2, <1>3, <1>5
<1>9. /\ ~ StartsIt(e, s) /\ e.type # "RUN_STARTED" /\ ~ ClosesIt(e, s)
      /\ Deaths(s, n + 1)' = {} /\ Deaths(s, n) = {}
      => Openings(s, n + 1)' = Openings(s, n)
  BY <1>2, <1>3
<1> QED BY <1>3, <1>6, <1>7, <1>8, <1>9 DEF before

\* What a step of the stream is to the subagent rules, and the entry it logs.
SubagentSees(i, e) ==
  \/ i = eventCount /\ e \in SubagentInputs /\ SubagentEvent(e)
  \/ /\ i = eventCount /\ SubagentsElsewhere
     /\ e.type \notin {"SUBAGENT_STARTED", "SUBAGENT_FINISHED", "SUBAGENT_ERROR", "RUN_STARTED",
                       "RUN_FINISHED", "RUN_ERROR", "END_OF_STREAM", "END_AFTER_RUN"}
  \/ i = eventCount /\ SubagentsNewRun /\ e = Mark("RUN_STARTED")
  \/ \E type \in TerminalTypes : i = eventCount /\ SubagentsEnd(type) /\ e = Mark(type)
  \/ i = AtEndOfStream /\ SubagentsFinalize /\ e = EndOfStreamMark

LEMMA SubagentView ==
  ASSUME StreamInv, HistoryNext
  PROVE  \E i, e : Logs(i, e) /\ SubagentSees(i, e)
<1>1. ASSUME NEW e \in StepInputs \cup ReasoningInputs \cup StateInputs
      PROVE  e.type \notin {"SUBAGENT_STARTED", "SUBAGENT_FINISHED", "SUBAGENT_ERROR",
                            "RUN_STARTED", "RUN_FINISHED", "RUN_ERROR", "END_OF_STREAM",
                            "END_AFTER_RUN"}
  BY StepInputsAssumption, ReasoningInputsAssumption, StateInputsAssumption
     DEF StepEvents, ReasoningEvents, StateEvents
<1>2. ASSUME NEW e \in StepInputs \cup ReasoningInputs \cup StateInputs,
             SubagentsElsewhere, Logs(eventCount, e)
      PROVE  \E i, l : Logs(i, l) /\ SubagentSees(i, l)
  BY <1>1, <1>2 DEF SubagentSees
<1>3. ASSUME NEW e \in SubagentInputs, SubagentEvent(e), Logs(eventCount, e)
      PROVE  \E i, l : Logs(i, l) /\ SubagentSees(i, l)
  BY <1>3 DEF SubagentSees
<1>4. CASE ReceivesOther \/ ReceivesUnjudged
  <2>1. Mark("OTHER").type = "OTHER" /\ Mark("UNJUDGED").type = "UNJUDGED"
    BY DEF Mark
  <2> QED BY <1>4, <2>1 DEF ReceivesOther, ReceivesUnjudged, SubagentSees
<1>5. CASE ReceivesNewRun
  BY <1>5 DEF ReceivesNewRun, SubagentSees
<1>6. ASSUME NEW type \in TerminalTypes, ReceivesTerminal(type)
      PROVE  \E i, l : Logs(i, l) /\ SubagentSees(i, l)
  BY <1>6 DEF ReceivesTerminal, SubagentSees
<1>7. CASE EndsStream
  BY <1>7 DEF EndsStream, SubagentSees
<1> QED BY <1>2, <1>3, <1>4, <1>5, <1>6, <1>7, StepCases

\* An entry that is not about s, when the step leaves what is known of s alone.
LEMMA SubagentUndisturbed ==
  ASSUME NEW n, NEW i, NEW e, Grows(n, i, e), NEW s, SubagentMirrored(s, n),
         ~ StartsIt(e, s), ~ ClosesIt(e, s), e.type # "RUN_STARTED",
         s \in knownSubagentRunIds' <=> s \in knownSubagentRunIds,
         s \in DOMAIN openSubagents' <=> s \in DOMAIN openSubagents,
         s \in DOMAIN openSubagents => openSubagents'[s] = openSubagents[s],
         s \in GoneSubagents' <=> s \in GoneSubagents,
         s \in GoneSubagents => closedSubagents'[s] = closedSubagents[s]
  PROVE  SubagentMirrored(s, n + 1)'
<1>1. /\ n \in Nat
      /\ \A p \in 1..n : log'[p] = log[p]
  BY DEF Grows
<1>2. Starts(s, n + 1)' = Starts(s, n) /\ Unclosed(s, n + 1)' = Unclosed(s, n)
  BY StartsGrow, UnclosedGrow
<1>3. Deaths(s, n) # {} => Deaths(s, n + 1)' = Deaths(s, n)
  BY DeathsGrow
<1>4. Deaths(s, n) = {} => Deaths(s, n + 1)' = {} /\ FinalClosings(s, n + 1)' = {}
  BY DeathsGrow DEF SubagentMirrored
<1>5. /\ Openings(s, n + 1)' = Openings(s, n)
      /\ Openings(s, n) \subseteq 1..n
  BY <1>3, <1>4, OpeningsGrow
<1>6. Deaths(s, n) \subseteq 1..n
  BY FinalClosingsGrow DEF Deaths, First
<1>7. \A p \in Openings(s, n + 1)' : openSubagents'[s] = log'[p].at
  BY <1>1, <1>5 DEF SubagentMirrored
<1>8. \A q \in Deaths(s, n + 1)' : closedSubagents'[s].index = log'[q].at
  BY <1>1, <1>3, <1>4, <1>6 DEF SubagentMirrored
<1>9. /\ s \in knownSubagentRunIds' <=> Starts(s, n + 1)' # {}
      /\ s \in DOMAIN openSubagents' <=> Openings(s, n + 1)' # {}
      /\ s \in GoneSubagents' <=> Deaths(s, n + 1)' # {}
  BY <1>2, <1>3, <1>4, <1>5 DEF SubagentMirrored
<1>10. Deaths(s, n + 1)' = {} => FinalClosings(s, n + 1)' = {}
  BY <1>3, <1>4
<1>11. s \notin DOMAIN openSubagents' \cup GoneSubagents' => Unclosed(s, n + 1)' = {}
  BY <1>2 DEF SubagentMirrored
<1> QED BY <1>7, <1>8, <1>9, <1>10, <1>11 DEF SubagentMirrored

\* A start opens a subagent that is neither open nor gone, and is refused otherwise.
LEMMA SubagentStartMirrored ==
  ASSUME NEW n, NEW i, NEW e, Grows(n, i, e), NEW s \in SubagentIds, SubagentMirrored(s, n),
         i = eventCount, SubagentStarted(e)
  PROVE  SubagentMirrored(s, n + 1)'
<1> DEFINE t == e.subagentRunId
<1>1. /\ n \in Nat
      /\ \A p \in 1..n : log'[p] = log[p]
      /\ log'[n + 1] = [at |-> i, event |-> e]
  BY DEF Grows
<1>2. e.type = "SUBAGENT_STARTED" /\ knownSubagentRunIds' = knownSubagentRunIds \cup ({t} \ {None})
  BY DEF SubagentStarted, Knows
<1>3. ~ ClosesIt(e, s) /\ (StartsIt(e, s) <=> s = t) /\ e.type # "RUN_STARTED"
  BY <1>2 DEF ClosesIt, StartsIt
<1>4. CASE s # t
  <2>1. /\ s \in DOMAIN openSubagents' <=> s \in DOMAIN openSubagents
        /\ s \in DOMAIN openSubagents => openSubagents'[s] = openSubagents[s]
    BY <1>4 DEF SubagentStarted, Opens, Put
  <2>2. /\ s \in DOMAIN closedSubagents' <=> s \in DOMAIN closedSubagents
        /\ s \in DOMAIN closedSubagents => closedSubagents'[s] = closedSubagents[s]
    BY <1>4 DEF SubagentStarted, Opens, Drop
  <2>3. /\ s \in GoneSubagents' <=> s \in GoneSubagents
        /\ s \in GoneSubagents => closedSubagents'[s] = closedSubagents[s]
    BY <2>2 DEF GoneSubagents
  <2>4. s \in knownSubagentRunIds' <=> s \in knownSubagentRunIds
    BY <1>2, <1>4
  <2> QED BY <1>3, <1>4, <2>1, <2>3, <2>4, SubagentUndisturbed
<1>5. CASE s = t
  <2>1. s # None /\ s \in knownSubagentRunIds'
    BY <1>2, <1>5, OwnersAssumption DEF SubagentIds
  <2>2. /\ Starts(s, n + 1)' = Starts(s, n) \cup {n + 1}
        /\ Unclosed(s, n + 1)' = Unclosed(s, n) \cup {n + 1}
    BY <1>3, <1>5, StartsGrow, UnclosedGrow
  <2>3. Deaths(s, n) # {} => Deaths(s, n + 1)' = Deaths(s, n)
    BY <1>3, DeathsGrow
  <2>4. Deaths(s, n) = {} => Deaths(s, n + 1)' = {} /\ FinalClosings(s, n + 1)' = {}
    BY <1>3, DeathsGrow DEF SubagentMirrored
  <2>5. Deaths(s, n) \subseteq 1..n /\ Openings(s, n) \subseteq 1..n
    BY FinalClosingsGrow, OpeningsGrow DEF Deaths, First
  <2>6. CASE UNCHANGED <<openSubagents, closedSubagents>> /\ s \in DOMAIN openSubagents
    <3>1. Openings(s, n) # {} /\ Deaths(s, n) = {}
      BY <2>6, OpeningsGrow DEF SubagentMirrored
    <3>2. Openings(s, n + 1)' = Openings(s, n) /\ Deaths(s, n + 1)' = {}
          /\ FinalClosings(s, n + 1)' = {}
      BY <1>3, <1>5, <2>4, <3>1, OpeningsGrow
    <3>3. s \notin GoneSubagents'
      BY <2>6, <3>1 DEF SubagentMirrored, GoneSubagents
    <3> QED BY <1>1, <2>1, <2>2, <2>5, <2>6, <3>1, <3>2, <3>3 DEF SubagentMirrored
  <2>7. CASE UNCHANGED <<openSubagents, closedSubagents>> /\ s \in GoneSubagents
    <3>1. Deaths(s, n + 1)' = Deaths(s, n) /\ Deaths(s, n) # {}
      BY <2>3, <2>7 DEF SubagentMirrored
    <3>2. Openings(s, n + 1)' = {} /\ Openings(s, n) = {}
      BY <3>1, OpeningsGrow
    <3>3. s \in GoneSubagents' /\ s \notin DOMAIN openSubagents'
      BY <2>7, <3>2 DEF SubagentMirrored, GoneSubagents
    <3>4. \A q \in Deaths(s, n + 1)' : closedSubagents'[s].index = log'[q].at
      BY <1>1, <2>5, <2>7, <3>1 DEF SubagentMirrored
    <3> QED BY <2>1, <2>2, <3>1, <3>2, <3>3, <3>4 DEF SubagentMirrored
  <2>8. CASE s \notin DOMAIN openSubagents \cup GoneSubagents /\ Opens(s)
    <3>1. Deaths(s, n) = {} /\ Unclosed(s, n) = {}
      BY <2>8 DEF SubagentMirrored
    <3>2. /\ Openings(s, n + 1)' = {n + 1} /\ Deaths(s, n + 1)' = {}
          /\ FinalClosings(s, n + 1)' = {}
      BY <1>3, <1>5, <2>4, <3>1, OpeningsGrow
    <3>3. /\ s \in DOMAIN openSubagents' /\ openSubagents'[s] = eventCount
          /\ s \notin DOMAIN closedSubagents'
      BY <2>8 DEF Opens, Put, Drop
    <3>4. s \notin GoneSubagents'
      BY <3>3 DEF GoneSubagents
    <3>5. log'[n + 1].at = eventCount
      BY <1>1
    <3> QED BY <2>1, <2>2, <3>2, <3>3, <3>4, <3>5 DEF SubagentMirrored
  <2> QED BY <1>5, <2>1, <2>6, <2>7, <2>8 DEF SubagentStarted
<1> QED BY <1>4, <1>5

\* A closing closes a subagent that is open, and is refused otherwise.
LEMMA SubagentClosingMirrored ==
  ASSUME SubagentInv, NEW n, NEW i, NEW e, Grows(n, i, e), NEW s \in SubagentIds,
         SubagentMirrored(s, n), i = eventCount, NEW rule, NEW resumable \in BOOLEAN,
         e.type \in {"SUBAGENT_FINISHED", "SUBAGENT_ERROR"},
         resumable <=> e.type = "SUBAGENT_FINISHED" /\ e.suspended,
         Closes(e, rule, resumable)
  PROVE  SubagentMirrored(s, n + 1)'
<1> DEFINE t == e.subagentRunId
<1>1. /\ n \in Nat
      /\ \A p \in 1..n : log'[p] = log[p]
      /\ log'[n + 1] = [at |-> i, event |-> e]
  BY DEF Grows
<1>2. /\ ~ StartsIt(e, s) /\ (ClosesIt(e, s) <=> s = t) /\ e.type # "RUN_STARTED"
      /\ s = t => (SuspendsIt(e, s) <=> resumable)
  BY DEF ClosesIt, StartsIt, SuspendsIt
<1>3. UNCHANGED knownSubagentRunIds
  BY DEF Closes
<1>4. CASE s # t
  <2>1. /\ s \in DOMAIN openSubagents' <=> s \in DOMAIN openSubagents
        /\ s \in DOMAIN openSubagents => openSubagents'[s] = openSubagents[s]
    BY <1>4 DEF Closes, Drop
  <2>2. /\ s \in DOMAIN closedSubagents' <=> s \in DOMAIN closedSubagents
        /\ s \in DOMAIN closedSubagents => closedSubagents'[s] = closedSubagents[s]
    BY <1>4 DEF Closes, Put
  <2>3. /\ s \in GoneSubagents' <=> s \in GoneSubagents
        /\ s \in GoneSubagents => closedSubagents'[s] = closedSubagents[s]
    BY <2>2 DEF GoneSubagents
  <2> QED BY <1>2, <1>3, <1>4, <2>1, <2>3, SubagentUndisturbed
<1>5. CASE s = t
  <2>1. s # None
    BY OwnersAssumption DEF SubagentIds
  <2>2. Starts(s, n + 1)' = Starts(s, n) /\ Unclosed(s, n + 1)' = {}
    BY <1>2, <1>5, StartsGrow, UnclosedGrow
  <2>3. Openings(s, n + 1)' = {}
    BY <1>2, <1>5, OpeningsGrow
  <2>4. CASE s \notin DOMAIN openSubagents /\ UNCHANGED <<openSubagents, closedSubagents>>
    <3>1. GoneSubagents' = GoneSubagents
      BY <2>4 DEF GoneSubagents
    <3>2. CASE s \in GoneSubagents
      <4>1. Deaths(s, n + 1)' = Deaths(s, n) /\ Deaths(s, n) # {} /\ Deaths(s, n) \subseteq 1..n
        BY <1>2, <3>2, DeathsGrow, FinalClosingsGrow DEF SubagentMirrored, Deaths, First
      <4>2. \A q \in Deaths(s, n + 1)' : closedSubagents'[s].index = log'[q].at
        BY <1>1, <2>4, <4>1 DEF SubagentMirrored
      <4> QED BY <1>3, <2>2, <2>3, <2>4, <3>1, <3>2, <4>1, <4>2 DEF SubagentMirrored
    <3>3. CASE s \notin GoneSubagents
      <4>1. Unclosed(s, n) = {} /\ FinalClosings(s, n) = {}
        BY <2>4, <3>3 DEF SubagentMirrored
      <4>2. Deaths(s, n + 1)' = {} /\ FinalClosings(s, n + 1)' = {}
        BY <4>1, DeathsGrow
      <4> QED BY <1>3, <2>2, <2>3, <2>4, <3>1, <3>3, <4>2 DEF SubagentMirrored
    <3> QED BY <3>2, <3>3
  <2>5. CASE /\ s \in DOMAIN openSubagents
             /\ openSubagents' = Drop(openSubagents, s)
             /\ closedSubagents' =
                  Put(closedSubagents, s, [index |-> eventCount, resumable |-> resumable])
    <3>1. Openings(s, n) # {} /\ Deaths(s, n) = {} /\ FinalClosings(s, n) = {}
      BY <2>5, OpeningsGrow DEF SubagentMirrored
    <3>2. Unclosed(s, n) # {}
      BY <3>1, OpeningsGrow
    <3>3. s \notin DOMAIN openSubagents'
      BY <2>5 DEF Drop
    <3>4. /\ s \in DOMAIN closedSubagents'
          /\ closedSubagents'[s] = [index |-> eventCount, resumable |-> resumable]
      BY <2>5 DEF Put
    <3>5. closedSubagents'[s].index = eventCount /\ closedSubagents'[s].resumable = resumable
      BY <3>4
    <3>6. s \in GoneSubagents' <=> ~resumable
      BY <3>4, <3>5 DEF GoneSubagents
    <3>7. resumable => Deaths(s, n + 1)' = {} /\ FinalClosings(s, n + 1)' = {}
      BY <1>2, <1>5, <3>1, DeathsGrow
    <3>8. ~resumable => Deaths(s, n + 1)' = {n + 1}
      BY <1>2, <1>5, <3>1, <3>2, DeathsGrow
    <3>9. log'[n + 1].at = eventCount
      BY <1>1
    <3> QED BY <1>3, <2>2, <2>3, <3>3, <3>5, <3>6, <3>7, <3>8, <3>9 DEF SubagentMirrored
  <2> QED BY <1>5, <2>1, <2>4, <2>5 DEF Closes
<1> QED BY <1>4, <1>5

LEMMA SubagentsMirrorGrow ==
  ASSUME SubagentInv, NEW n, NEW i, NEW e, Grows(n, i, e), SubagentsMirror,
         SubagentSees(i, e)
  PROVE  SubagentsMirror'
<1>1. Len(log) = n /\ Len(log') = n + 1
  BY DEF Grows
<1> SUFFICES ASSUME NEW s \in SubagentIds PROVE SubagentMirrored(s, n + 1)'
  BY <1>1 DEF SubagentsMirror
<1>2. SubagentMirrored(s, n)
  BY <1>1 DEF SubagentsMirror
<1>3. CASE i = eventCount /\ e \in SubagentInputs /\ SubagentEvent(e)
  <2>1. CASE SubagentStarted(e)
    BY <1>2, <1>3, <2>1, SubagentStartMirrored
  <2>2. CASE SubagentFinished(e)
    <3>1. e.type = "SUBAGENT_FINISHED" /\ e.suspended \in BOOLEAN
      BY <1>3, <2>2, SubagentInputsAssumption DEF SubagentFinished, SubagentEvents
    <3> QED BY <1>2, <1>3, <2>2, <3>1, SubagentClosingMirrored DEF SubagentFinished
  <2>3. CASE SubagentError(e)
    BY <1>2, <1>3, <2>3, SubagentClosingMirrored DEF SubagentError
  <2> QED BY <1>3, <2>1, <2>2, <2>3 DEF SubagentEvent
<1>4. CASE /\ UNCHANGED subagentLifeVars
           /\ e.type \notin {"SUBAGENT_STARTED", "SUBAGENT_FINISHED", "SUBAGENT_ERROR",
                             "RUN_STARTED"}
  <2>1. ~ StartsIt(e, s) /\ ~ ClosesIt(e, s) /\ e.type # "RUN_STARTED"
    BY <1>4 DEF StartsIt, ClosesIt
  <2>2. UNCHANGED <<openSubagents, closedSubagents, knownSubagentRunIds, GoneSubagents>>
    BY <1>4 DEF subagentLifeVars, GoneSubagents
  <2> QED BY <1>2, <2>1, <2>2, SubagentUndisturbed
<1>5. CASE SubagentsNewRun /\ e = Mark("RUN_STARTED")
  <2>1. e.type = "RUN_STARTED"
    BY <1>5 DEF Mark
  <2>2. /\ openSubagents' = EmptyDict /\ closedSubagents' = EmptyDict
        /\ knownSubagentRunIds' = {}
    BY <1>5 DEF SubagentsNewRun
  <2>3. GoneSubagents' = {} /\ DOMAIN openSubagents' = {}
    BY <2>2, EmptyDictType DEF GoneSubagents
  <2>4. Starts(s, n + 1)' = {} /\ Unclosed(s, n + 1)' = {} /\ Openings(s, n + 1)' = {}
    BY <2>1, StartsGrow, UnclosedGrow, OpeningsGrow DEF StartsIt
  <2>5. Deaths(s, n + 1)' = {} /\ FinalClosings(s, n + 1)' = {}
    BY <2>1, DeathsGrow
  <2> QED BY <2>2, <2>3, <2>4, <2>5 DEF SubagentMirrored
<1>6. \/ SubagentsElsewhere
      \/ \E type \in TerminalTypes : SubagentsEnd(type)
      \/ SubagentsFinalize
      => UNCHANGED subagentLifeVars
  BY DEF SubagentsElsewhere, SubagentsEnd, SubagentsFinalize
<1>7. \A type \in TerminalTypes :
        Mark(type).type \in {"RUN_FINISHED", "RUN_ERROR"}
        /\ EndOfStreamMark.type \in {"END_OF_STREAM", "END_AFTER_RUN"}
  BY DEF Mark, TerminalTypes, EndOfStreamMark
<1> QED BY <1>3, <1>4, <1>5, <1>6, <1>7 DEF SubagentSees, TerminalTypes
\* What the stream said up to the entry before stays said.
LEMMA SubagentPast ==
  ASSUME NEW n, NEW i, NEW e, Grows(n, i, e), NEW s
  PROVE  Openings(s, n)' = Openings(s, n) /\ Deaths(s, n)' = Deaths(s, n)
<1>1. n \in Nat
  BY DEF Grows
<1>2. \A q \in 1..n : /\ IsSubagent(q, "SUBAGENT_STARTED", s)' <=>
                           IsSubagent(q, "SUBAGENT_STARTED", s)
                      /\ IsClosing(q, s)' <=> IsClosing(q, s)
                      /\ IsSuspension(q, s)' <=> IsSuspension(q, s)
  BY EntriesOfSubagent
<1>3. RunPositions(n)' = RunPositions(n) /\ RunPositions(n) \subseteq 1..n
  BY <1>1, RunGrows
<1>4. Starts(s, n)' = Starts(s, n) /\ Starts(s, n) \subseteq 1..n
  BY <1>2, <1>3 DEF Starts
<1> DEFINE Free(p) == \A q \in p + 1..n : ~ IsClosing(q, s)
           FreeNow(p) == \A q \in p + 1..n : ~ IsClosing(q, s)'
<1>5. ASSUME NEW p \in 1..n PROVE FreeNow(p) <=> Free(p)
  <2>1. p + 1..n \subseteq 1..n
    BY <1>1
  <2> QED BY <1>2, <2>1
<1>6. Unclosed(s, n)' = Unclosed(s, n)
  <2>1. /\ Unclosed(s, n) = {p \in Starts(s, n) : Free(p)}
        /\ Unclosed(s, n)' = {p \in Starts(s, n)' : FreeNow(p)}
    BY DEF Unclosed
  <2> HIDE DEF Free, FreeNow
  <2> QED BY <1>4, <1>5, <2>1
<1> DEFINE Waits(p, q) == p < q /\ \A k \in p + 1..q - 1 : ~ IsClosing(k, s)
           WaitsNow(p, q) == p < q /\ \A k \in p + 1..q - 1 : ~ IsClosing(k, s)'
<1>7. ASSUME NEW p \in 1..n, NEW q \in 1..n PROVE WaitsNow(p, q) <=> Waits(p, q)
  <2>1. p + 1..q - 1 \subseteq 1..n
    BY <1>1
  <2> QED BY <1>2, <2>1
<1>8. FinalClosings(s, n)' = FinalClosings(s, n)
  <2>1. /\ FinalClosings(s, n) =
             {q \in 1..n : /\ IsClosing(q, s) /\ ~ IsSuspension(q, s)
                           /\ \E p \in Starts(s, n) : Waits(p, q)}
        /\ FinalClosings(s, n)' =
             {q \in 1..n : /\ IsClosing(q, s)' /\ ~ IsSuspension(q, s)'
                           /\ \E p \in Starts(s, n)' : WaitsNow(p, q)}
    BY DEF FinalClosings
  <2> HIDE DEF Waits, WaitsNow
  <2> QED BY <1>2, <1>4, <1>7, <2>1
<1>9. Deaths(s, n)' = Deaths(s, n)
  BY <1>8 DEF Deaths, First
<1> QED BY <1>6, <1>9 DEF Openings, First

\* What is left open at the end, as the stream and the dictionary have it.
LEMMA UnterminatedSubagent ==
  ASSUME SubagentTypeOK', SubagentsMirror', NEW n, n = Len(log'), NEW at
  PROVE  UnterminatedSubagents(at)' = LeftOpen(at, n)'
<1>1. DOMAIN openSubagents' \subseteq SubagentIds
  BY DEF SubagentTypeOK, IsDict
<1>2. ASSUME NEW s \in SubagentIds
      PROVE  /\ s \in DOMAIN openSubagents' <=> Openings(s, n)' # {}
             /\ \A p \in Openings(s, n)' : openSubagents'[s] = log'[p].at
  BY DEF SubagentsMirror, SubagentMirrored
<1> DEFINE Report(s, index) == Finding("AGUI604", at, s, index)
           Reports == {Report(s, openSubagents'[s]) : s \in DOMAIN openSubagents'}
           Left(s) == {Report(s, log'[p].at) : p \in Openings(s, n)'}
<1>3. UnterminatedSubagents(at)' = Reports
  BY DEF UnterminatedSubagents
<1> HIDE DEF Report
<1>4. ASSUME NEW s \in SubagentIds PROVE Left(s) \subseteq Reports
  BY <1>2
<1>5. ASSUME NEW s \in DOMAIN openSubagents' PROVE Report(s, openSubagents'[s]) \in Left(s)
  BY <1>1, <1>2
<1> HIDE DEF Left
<1>6. Reports = UNION {Left(s) : s \in SubagentIds}
  BY <1>1, <1>4, <1>5
<1> QED BY <1>3, <1>6 DEF LeftOpen, Left, Report

\* The index a refused start is related to.
LEMMA BlockedBy ==
  ASSUME NEW n, NEW i, NEW e, Grows(n, i, e), NEW s, SubagentMirrored(s, n)
  PROVE  LET blocking == Openings(s, n) \cup Deaths(s, n)
         IN  /\ blocking = {} <=> s \notin DOMAIN openSubagents \cup GoneSubagents
             /\ s \in DOMAIN openSubagents => IndicesOf(blocking)' = {openSubagents[s]}
             /\ s \in GoneSubagents \ DOMAIN openSubagents =>
                  IndicesOf(blocking)' = {closedSubagents[s].index}
<1> DEFINE blocking == Openings(s, n) \cup Deaths(s, n)
<1>1. /\ \A p \in 1..n : log'[p] = log[p]
      /\ Openings(s, n) \subseteq 1..n /\ Deaths(s, n) \subseteq 1..n
      /\ Deaths(s, n) # {} => Openings(s, n) = {}
  BY OpeningsGrow, FinalClosingsGrow DEF Grows, Deaths, First
<1>2. Openings(s, n)' = Openings(s, n) /\ Deaths(s, n)' = Deaths(s, n)
  BY SubagentPast
<1>3. IndicesOf(blocking)' = {log'[p].at : p \in blocking}
  BY <1>2 DEF IndicesOf
<1>4. {log'[p].at : p \in blocking} = {log[p].at : p \in blocking}
  BY <1>1
<1> DEFINE told == {log[p].at : p \in blocking}
<1>5. s \in DOMAIN openSubagents => told = {openSubagents[s]}
  BY <1>1 DEF SubagentMirrored
<1>6. s \in GoneSubagents \ DOMAIN openSubagents => told = {closedSubagents[s].index}
  BY <1>1 DEF SubagentMirrored
<1>7. blocking = {} <=> s \notin DOMAIN openSubagents \cup GoneSubagents
  BY DEF SubagentMirrored
<1> QED BY <1>3, <1>4, <1>5, <1>6, <1>7

LEMMA SubagentToldExactly ==
  ASSUME NEW n, NEW i, NEW e, Grows(n, i, e), SubagentsMirror, SubagentsMirror',
         SubagentTypeOK, SubagentTypeOK', SubagentSees(i, e)
  PROVE  subagentFound' = SubagentDeserved(n + 1)'
<1>1. /\ n \in Nat /\ Len(log) = n /\ Len(log') = n + 1 /\ (n + 1) - 1 = n
      /\ log'[n + 1] = [at |-> i, event |-> e]
  BY DEF Grows
<1>2. log'[n + 1].at = i /\ log'[n + 1].event = e
  BY <1>1
<1> DEFINE s == e.subagentRunId
           blocking == Openings(s, n) \cup Deaths(s, n)
           Only(rule, id, indices) == {Finding(rule, i, id, k) : k \in indices}
<1>3. /\ Openings(s, n)' = Openings(s, n) /\ Deaths(s, n)' = Deaths(s, n)
  BY SubagentPast
<1>4. SubagentDeserved(n + 1)' =
        CASE e.type = "SUBAGENT_STARTED" /\ s # None ->
               IF blocking # {} THEN Only("AGUI601", s, IndicesOf(blocking)')
               ELSE IF \/ e.parentSubagentRunId = None
                       \/ Starts(e.parentSubagentRunId, n + 1)' # {} THEN {}
               ELSE Only("AGUI605", e.parentSubagentRunId, {None})
          [] e.type = "SUBAGENT_FINISHED" /\ s # None /\ Openings(s, n) = {} ->
               Only("AGUI602", s, {None})
          [] e.type = "SUBAGENT_ERROR" /\ s # None /\ Openings(s, n) = {} ->
               Only("AGUI603", s, {None})
          [] e.type \in {"RUN_FINISHED", "END_OF_STREAM"} -> LeftOpen(i, n + 1)'
          [] OTHER -> {}
  BY <1>1, <1>2, <1>3 DEF SubagentDeserved
<1>5. UnterminatedSubagents(i)' = LeftOpen(i, n + 1)'
  BY <1>1, UnterminatedSubagent
<1>6. UNCHANGED subagentLifeVars => UnterminatedSubagents(i)' = UnterminatedSubagents(i)
  BY DEF subagentLifeVars, UnterminatedSubagents
<1>7. \A id \in SubagentIds : /\ SubagentMirrored(id, n)
                              /\ id \in knownSubagentRunIds' <=> Starts(id, n + 1)' # {}
  BY <1>1 DEF SubagentsMirror, SubagentMirrored
<1>8. \A rule, id, k : Only(rule, id, {k}) = {Finding(rule, i, id, k)}
  OBVIOUS
<1> HIDE DEF Only
<1>9. CASE i = eventCount /\ e \in SubagentInputs /\ SubagentEvent(e)
  <2>1. CASE SubagentStarted(e)
    <3>1. /\ e.type = "SUBAGENT_STARTED"
          /\ s \in SubagentIds \cup {None} /\ e.parentSubagentRunId \in SubagentIds \cup {None}
          /\ None \notin SubagentIds
      BY <1>9, <2>1, SubagentInputsAssumption, OwnersAssumption
         DEF SubagentStarted, SubagentEvents, SubagentIds
    <3>2. DOMAIN openSubagents \subseteq SubagentIds /\ GoneSubagents \subseteq SubagentIds
      BY DEF SubagentTypeOK, IsDict, GoneSubagents
    <3>3. /\ s = None => subagentFound' = {}
          /\ s \in DOMAIN openSubagents => ReportSubagent("AGUI601", s, openSubagents[s])
          /\ s \in GoneSubagents \ DOMAIN openSubagents =>
               ReportSubagent("AGUI601", s, closedSubagents[s].index)
          /\ s \in SubagentIds \ (DOMAIN openSubagents \cup GoneSubagents) =>
               IF e.parentSubagentRunId \in knownSubagentRunIds' \cup {None}
               THEN subagentFound' = {}
               ELSE ReportSubagent("AGUI605", e.parentSubagentRunId, None)
      BY <2>1, <3>1, <3>2 DEF SubagentStarted
    <3>4. CASE s = None
      BY <1>4, <3>1, <3>3, <3>4
    <3>5. CASE s \in SubagentIds
      <4>1. /\ blocking = {} <=> s \notin DOMAIN openSubagents \cup GoneSubagents
            /\ s \in DOMAIN openSubagents => IndicesOf(blocking)' = {openSubagents[s]}
            /\ s \in GoneSubagents \ DOMAIN openSubagents =>
                 IndicesOf(blocking)' = {closedSubagents[s].index}
        BY <1>7, <3>5, BlockedBy
      <4>2. CASE blocking # {}
        <5>1. subagentFound' = Only("AGUI601", s, IndicesOf(blocking)')
          <6>1. CASE s \in DOMAIN openSubagents
            BY <1>8, <1>9, <3>3, <4>1, <6>1 DEF ReportSubagent
          <6>2. CASE s \in GoneSubagents \ DOMAIN openSubagents
            BY <1>8, <1>9, <3>3, <4>1, <6>2 DEF ReportSubagent
          <6> QED BY <4>1, <4>2, <6>1, <6>2
        <5> QED BY <1>4, <3>1, <3>5, <4>2, <5>1
      <4>3. CASE blocking = {}
        <5>1. e.parentSubagentRunId \in knownSubagentRunIds' \cup {None} <=>
                \/ e.parentSubagentRunId = None
                \/ Starts(e.parentSubagentRunId, n + 1)' # {}
          <6>1. e.parentSubagentRunId = None \/ e.parentSubagentRunId \in SubagentIds
            BY <3>1
          <6> QED BY <1>7, <6>1
        <5>2. IF \/ e.parentSubagentRunId = None
                 \/ Starts(e.parentSubagentRunId, n + 1)' # {}
              THEN subagentFound' = {}
              ELSE subagentFound' = Only("AGUI605", e.parentSubagentRunId, {None})
          BY <1>8, <1>9, <3>3, <3>5, <4>1, <4>3, <5>1 DEF ReportSubagent
        <5> QED BY <1>4, <3>1, <3>5, <4>3, <5>2
      <4> QED BY <4>2, <4>3
    <3> QED BY <3>1, <3>4, <3>5
  <2>2. ASSUME SubagentFinished(e) \/ SubagentError(e)
        PROVE  subagentFound' = SubagentDeserved(n + 1)'
    <3>1. /\ e.type \in {"SUBAGENT_FINISHED", "SUBAGENT_ERROR"}
          /\ s \in SubagentIds \cup {None} /\ None \notin SubagentIds
      BY <1>9, <2>2, SubagentInputsAssumption, OwnersAssumption
         DEF SubagentFinished, SubagentError, SubagentEvents, SubagentIds
    <3>2. s \in SubagentIds => (s \in DOMAIN openSubagents <=> Openings(s, n) # {})
      BY <1>7 DEF SubagentMirrored
    <3>3. /\ s = None => subagentFound' = {}
          /\ s \in SubagentIds /\ s \in DOMAIN openSubagents => subagentFound' = {}
          /\ s \in SubagentIds /\ s \notin DOMAIN openSubagents =>
               ReportSubagent(IF e.type = "SUBAGENT_FINISHED" THEN "AGUI602" ELSE "AGUI603",
                              s, None)
      BY <2>2, <3>1 DEF SubagentFinished, SubagentError, Closes
    <3> QED BY <1>4, <1>8, <1>9, <3>1, <3>2, <3>3 DEF ReportSubagent
  <2> QED BY <1>9, <2>1, <2>2 DEF SubagentEvent
<1>10. CASE /\ SubagentsElsewhere
            /\ e.type \notin {"SUBAGENT_STARTED", "SUBAGENT_FINISHED", "SUBAGENT_ERROR",
                              "RUN_STARTED", "RUN_FINISHED", "RUN_ERROR", "END_OF_STREAM",
                              "END_AFTER_RUN"}
  BY <1>4, <1>10 DEF SubagentsElsewhere
<1>11. CASE SubagentsNewRun /\ e = Mark("RUN_STARTED")
  BY <1>4, <1>11 DEF SubagentsNewRun, Mark
<1>12. ASSUME NEW type \in TerminalTypes, i = eventCount, SubagentsEnd(type), e = Mark(type)
       PROVE  subagentFound' = SubagentDeserved(n + 1)'
  BY <1>4, <1>5, <1>6, <1>12 DEF SubagentsEnd, Mark, TerminalTypes
<1>13. CASE i = AtEndOfStream /\ SubagentsFinalize /\ e = EndOfStreamMark
  BY <1>4, <1>5, <1>6, <1>13 DEF SubagentsFinalize, EndOfStreamMark, Mark
<1> QED BY <1>9, <1>10, <1>11, <1>12, <1>13 DEF SubagentSees
\* For any stream, the subagent rules report every event exactly as the stream up to
\* it deserves, however often a subagent is suspended, resumed and closed.
THEOREM SubagentsExact == HistorySpec => []SubagentFindingsExact
<1> DEFINE Inv == SubagentsMirror /\ SubagentFindingsExact
<1>1. HistoryInit => Inv
  <2> SUFFICES ASSUME HistoryInit PROVE Inv
    OBVIOUS
  <2>1. log = <<>> /\ Len(log) = 0
    BY DEF HistoryInit
  <2>2. ASSUME NEW s \in SubagentIds
        PROVE  /\ Starts(s, 0) = {} /\ Unclosed(s, 0) = {} /\ FinalClosings(s, 0) = {}
               /\ Deaths(s, 0) = {} /\ Openings(s, 0) = {}
    BY DEF Starts, RunPositions, Unclosed, FinalClosings, Deaths, Openings, First
  <2>3. /\ DOMAIN openSubagents = {} /\ GoneSubagents = {} /\ knownSubagentRunIds = {}
    BY EmptyDictType DEF HistoryInit, SubagentInit, GoneSubagents
  <2> QED BY <2>1, <2>2, <2>3 DEF SubagentsMirror, SubagentMirrored, SubagentFindingsExact
<1>2. /\ StreamTypeInv /\ SubagentInv /\ SubagentInv'
      /\ Inv /\ [HistoryNext]_historyVars
      => Inv'
  <2> SUFFICES ASSUME StreamTypeInv, SubagentInv, SubagentInv', Inv, [HistoryNext]_historyVars
               PROVE  Inv'
    OBVIOUS
  <2>1. CASE UNCHANGED historyVars
    <3>1. UNCHANGED <<log, openSubagents, closedSubagents, knownSubagentRunIds, subagentFound>>
      BY <2>1 DEF historyVars, subagentVars, subagentLifeVars
    <3>2. ASSUME NEW s, NEW n
          PROVE  /\ Starts(s, n)' = Starts(s, n) /\ Unclosed(s, n)' = Unclosed(s, n)
                 /\ FinalClosings(s, n)' = FinalClosings(s, n)
                 /\ Deaths(s, n)' = Deaths(s, n) /\ Openings(s, n)' = Openings(s, n)
      BY <3>1 DEF Starts, RunPositions, Unclosed, FinalClosings, Deaths, Openings, First,
                  IsSubagent, IsClosing, IsSuspension, TypeAt
    <3>3. SubagentsMirror'
      <4>1. ASSUME NEW s, NEW n, SubagentMirrored(s, n) PROVE SubagentMirrored(s, n)'
        BY <3>1, <3>2, <4>1 DEF SubagentMirrored, GoneSubagents
      <4> QED BY <3>1, <4>1 DEF SubagentsMirror
    <3>4. SubagentDeserved(Len(log))' = SubagentDeserved(Len(log))
      <4>1. ASSUME NEW at, NEW n PROVE LeftOpen(at, n)' = LeftOpen(at, n)
        BY <3>1, <3>2 DEF LeftOpen
      <4>2. ASSUME NEW s, NEW n
            PROVE  IndicesOf(Openings(s, n) \cup Deaths(s, n))' =
                     IndicesOf(Openings(s, n) \cup Deaths(s, n))
        BY <3>1, <3>2 DEF IndicesOf
      <4>3. ASSUME NEW n PROVE SubagentDeserved(n)' = SubagentDeserved(n)
        BY <3>1, <3>2, <4>1, <4>2 DEF SubagentDeserved
      <4> QED BY <3>1, <4>3
    <3> QED BY <3>1, <3>3, <3>4 DEF SubagentFindingsExact
  <2>2. CASE HistoryNext
    <3>1. StreamInv
      BY DEF StreamTypeInv
    <3>2. PICK i, e : Logs(i, e) /\ SubagentSees(i, e)
      BY <2>2, <3>1, SubagentView
    <3>3. PICK n : Grows(n, i, e)
      BY <3>1, <3>2, NextEntry DEF StreamInv
    <3>4. SubagentsMirror'
      BY <3>2, <3>3, SubagentsMirrorGrow
    <3>5. subagentFound' = SubagentDeserved(n + 1)'
      BY <3>2, <3>3, <3>4, SubagentToldExactly DEF SubagentInv
    <3>6. Len(log') = n + 1
      BY <3>3 DEF Grows
    <3> QED BY <3>4, <3>5, <3>6 DEF SubagentFindingsExact
  <2> QED BY <2>1, <2>2
<1> QED BY <1>1, <1>2, StreamTypes, RunImplementsComponents, SubagentInvariant, PTL
        DEF HistorySpec

-----------------------------------------------------------------------------
(* What the step rules remember is what the stream says.                   *)

\* What event e changes of the starts of s less its finishes.
Balance(e, s) ==
  IF e.type = "STEP_STARTED" /\ e.stepName = s THEN 1
  ELSE IF e.type = "STEP_FINISHED" /\ e.stepName = s THEN -1 ELSE 0

\* One more position adds its own balance, wherever the counting begins.
LEMMA SurplusGrows ==
  ASSUME NEW n, NEW i, NEW e, Grows(n, i, e), NEW s, NEW p \in 1..n + 1
  PROVE  /\ Surplus(s, p, n) \in Int
         /\ Surplus(s, p, n + 1)' = Surplus(s, p, n) + Balance(e, s)
         /\ p = n + 1 => Surplus(s, p, n) = 0
<1>1. n \in Nat /\ \A q \in 1..n : log'[q] = log[q]
  BY DEF Grows
<1>2. log'[n + 1].event = e
  BY DEF Grows
<1>3. ASSUME NEW type
      PROVE  /\ Cardinality({q \in p..n : IsStep(q, type, s)}) \in Nat
             /\ Cardinality({q \in p..n + 1 : IsStep(q, type, s)'}) =
                  Cardinality({q \in p..n : IsStep(q, type, s)})
                  + (IF e.type = type /\ e.stepName = s THEN 1 ELSE 0)
             /\ p = n + 1 => Cardinality({q \in p..n : IsStep(q, type, s)}) = 0
  <2> DEFINE before == {q \in p..n : IsStep(q, type, s)}
             after == {q \in p..n + 1 : IsStep(q, type, s)'}
  <2>1. before \subseteq 1..n
    BY <1>1
  <2>2. /\ IsStep(n + 1, type, s)' <=> e.type = type /\ e.stepName = s
        /\ \A q \in p..n : IsStep(q, type, s)' <=> IsStep(q, type, s)
    BY <1>1, <1>2 DEF IsStep, TypeAt
  <2>3. p..n + 1 = (p..n) \cup {n + 1} /\ n + 1 \notin p..n
    BY <1>1
  <2>4. after = IF e.type = type /\ e.stepName = s THEN before \cup {n + 1} ELSE before
    BY <2>2, <2>3
  <2>5. p = n + 1 => before = {}
    BY <1>1
  <2> HIDE DEF before, after
  <2>6. Cardinality(before) \in Nat /\ Cardinality(before \cup {n + 1}) = Cardinality(before) + 1
    BY <1>1, <2>1, NthOfMore
  <2>7. before = {} => Cardinality(before) = 0
    BY FS_EmptySet
  <2>8. /\ Cardinality(before) \in Nat
        /\ Cardinality(after) =
             Cardinality(before) + (IF e.type = type /\ e.stepName = s THEN 1 ELSE 0)
        /\ p = n + 1 => Cardinality(before) = 0
    BY <2>4, <2>5, <2>6, <2>7
  <2> QED BY <2>8 DEF before, after
<1> DEFINE S == Cardinality({q \in p..n : IsStep(q, "STEP_STARTED", s)})
           F == Cardinality({q \in p..n : IsStep(q, "STEP_FINISHED", s)})
           T == Cardinality({q \in p..n + 1 : IsStep(q, "STEP_STARTED", s)'})
           G == Cardinality({q \in p..n + 1 : IsStep(q, "STEP_FINISHED", s)'})
<1>4. /\ S \in Nat /\ F \in Nat
      /\ T = S + (IF e.type = "STEP_STARTED" /\ e.stepName = s THEN 1 ELSE 0)
      /\ G = F + (IF e.type = "STEP_FINISHED" /\ e.stepName = s THEN 1 ELSE 0)
      /\ p = n + 1 => S = 0 /\ F = 0
  BY <1>3
<1>5. Surplus(s, p, n) = S - F /\ Surplus(s, p, n + 1)' = T - G
  BY DEF Surplus
<1> HIDE DEF S, F, T, G
<1> QED BY <1>4, <1>5 DEF Balance

\* What the stream said of a step up to an earlier position it still says.
LEMMA StepPast ==
  ASSUME NEW n, NEW i, NEW e, Grows(n, i, e), NEW s
  PROVE  /\ \A k \in 0..n : Unanswered(s, k)' = Unanswered(s, k)
         /\ Opening(s, n)' = Opening(s, n)
<1>1. /\ n \in Nat
      /\ \A k \in 0..n : RunPositions(k)' = RunPositions(k) /\ RunPositions(k) \subseteq 1..k
  BY RunGrows DEF Grows, RunPositions
<1>2. ASSUME NEW k \in 0..n, NEW p \in RunPositions(k)
      PROVE  Surplus(s, p, k)' = Surplus(s, p, k)
  <2>1. p \in 1..k
    BY <1>1
  <2>2. \A q \in p..k : log'[q] = log[q]
    BY <1>1, <2>1 DEF Grows
  <2> QED BY <2>2 DEF Surplus, IsStep, TypeAt
<1>3. ASSUME NEW k \in 0..n PROVE Unanswered(s, k)' = Unanswered(s, k)
  <2>1. RunPositions(k)' = RunPositions(k)
    BY <1>1
  <2>2. {Surplus(s, p, k)' : p \in RunPositions(k)} = {Surplus(s, p, k) : p \in RunPositions(k)}
    BY <1>2
  <2>3. Unanswered(s, k)' = Max({0} \cup {Surplus(s, p, k)' : p \in RunPositions(k)})
    BY <2>1 DEF Unanswered, Max
  <2> QED BY <2>2, <2>3 DEF Unanswered
<1>4. \A p \in RunPositions(n) : p..n \subseteq 0..n
  BY <1>1
<1>5. \A p \in RunPositions(n) :
        (\A q \in p..n : Unanswered(s, q)' > 0) <=> (\A q \in p..n : Unanswered(s, q) > 0)
  BY <1>3, <1>4
<1>6. {p \in RunPositions(n) : \A q \in p..n : Unanswered(s, q)' > 0} =
        {p \in RunPositions(n) : \A q \in p..n : Unanswered(s, q) > 0}
  BY <1>5
<1>7. Opening(s, n)' = First({p \in RunPositions(n) : \A q \in p..n : Unanswered(s, q)' > 0})
  <2>1. RunPositions(n)' = RunPositions(n)
    BY <1>1
  <2> QED BY <2>1 DEF Opening, First
<1> QED BY <1>3, <1>6, <1>7 DEF Opening

\* c is the largest surplus of s over the endings of the run at n, and of none.
Peak(s, n, c) ==
  /\ c \in {0} \cup {Surplus(s, p, n) : p \in RunPositions(n)}
  /\ c \in Nat
  /\ \A p \in RunPositions(n) : Surplus(s, p, n) \in Int /\ Surplus(s, p, n) <= c

LEMMA MaxIs ==
  ASSUME NEW S, NEW c \in S, \A x \in S : x \in Int /\ c >= x
  PROVE  Max(S) = c
<1>1. \A x \in S : (\A y \in S : x >= y) <=> x = c
  OBVIOUS
<1> QED BY <1>1 DEF Max

\* The counter a step of the engine makes of c: it never falls below none.
Recount(c, e, s) ==
  IF e.type = "RUN_STARTED" \/ c + Balance(e, s) < 0 THEN 0 ELSE c + Balance(e, s)

LEMMA PeakGrows ==
  ASSUME NEW n, NEW i, NEW e, Grows(n, i, e), NEW s, NEW c, Peak(s, n, c)
  PROVE  /\ Unanswered(s, n) = c
         /\ Peak(s, n + 1, Recount(c, e, s))'
         /\ Unanswered(s, n + 1)' = Recount(c, e, s)
<1>0. PICK d : d = Recount(c, e, s)
  OBVIOUS
<1>1. /\ n \in Nat /\ RunPositions(n) \subseteq 1..n
      /\ RunPositions(n + 1)' =
           (IF e.type = "RUN_STARTED" THEN {} ELSE RunPositions(n)) \cup {n + 1}
  BY RunGrows DEF Grows
<1>2. \A p \in 1..n + 1 :
        /\ Surplus(s, p, n) \in Int
        /\ Surplus(s, p, n + 1)' = Surplus(s, p, n) + Balance(e, s)
        /\ p = n + 1 => Surplus(s, p, n) = 0
  BY SurplusGrows
<1>3. Balance(e, s) \in {-1, 0, 1} /\ c \in Nat
  BY DEF Balance, Peak
<1>4. d \in Nat
  BY <1>0, <1>3 DEF Recount
<1>5. Surplus(s, n + 1, n + 1)' = Balance(e, s)
  BY <1>1, <1>2, <1>3
<1>6. \A p \in RunPositions(n) : p \in 1..n + 1
  BY <1>1
<1>7. \A p \in RunPositions(n + 1)' : Surplus(s, p, n + 1)' \in Int /\ Surplus(s, p, n + 1)' <= d
  <2> SUFFICES ASSUME NEW p \in RunPositions(n + 1)'
               PROVE  Surplus(s, p, n + 1)' \in Int /\ Surplus(s, p, n + 1)' <= d
    OBVIOUS
  <2>1. CASE p = n + 1
    <3>1. e.type = "RUN_STARTED" => Balance(e, s) = 0
      BY DEF Balance
    <3> QED BY <1>0, <1>3, <1>5, <2>1, <3>1 DEF Recount
  <2>2. CASE e.type # "RUN_STARTED" /\ p \in RunPositions(n)
    <3>1. Surplus(s, p, n) <= c
      BY <2>2 DEF Peak
    <3> QED BY <1>0, <1>2, <1>3, <1>6, <2>2, <3>1 DEF Recount
  <2> QED BY <1>1, <2>1, <2>2
<1>8. d \in {0} \cup {Surplus(s, p, n + 1)' : p \in RunPositions(n + 1)'}
  <2> SUFFICES ASSUME d # 0 PROVE \E p \in RunPositions(n + 1)' : Surplus(s, p, n + 1)' = d
    OBVIOUS
  <2>1. e.type # "RUN_STARTED" /\ d = c + Balance(e, s)
    BY <1>0 DEF Recount
  <2>2. CASE c = 0
    BY <1>1, <1>3, <1>5, <2>1, <2>2
  <2>3. CASE c # 0
    <3>1. PICK p \in RunPositions(n) : Surplus(s, p, n) = c
      BY <2>3 DEF Peak
    <3> QED BY <1>1, <1>2, <1>6, <2>1, <3>1
  <2> QED BY <2>2, <2>3
<1>9. Peak(s, n + 1, d)'
  BY <1>4, <1>7, <1>8 DEF Peak
<1>10. Unanswered(s, n + 1)' = d
  <2> DEFINE S == {0} \cup {Surplus(s, p, n + 1)' : p \in RunPositions(n + 1)'}
  <2>1. d \in S /\ \A x \in S : x \in Int /\ d >= x
    BY <1>4, <1>7, <1>8
  <2>2. Unanswered(s, n + 1)' = Max(S)
    BY DEF Unanswered, Max
  <2> HIDE DEF S
  <2> QED BY <2>1, <2>2, MaxIs
<1>11. Unanswered(s, n) = c
  <2> DEFINE S == {0} \cup {Surplus(s, p, n) : p \in RunPositions(n)}
  <2>1. c \in S /\ \A x \in S : x \in Int /\ c >= x
    BY <1>2, <1>6 DEF Peak
  <2> HIDE DEF S
  <2> QED BY <2>1, MaxIs DEF Unanswered, S
<1> QED BY <1>0, <1>9, <1>10, <1>11

\* The start that opened a step, once more is known.
LEMMA OpeningGrows ==
  ASSUME NEW n, NEW i, NEW e, Grows(n, i, e), NEW s, Unanswered(s, n) \in Nat,
         Unanswered(s, n + 1)' \in Nat
  PROVE  /\ Opening(s, n) \subseteq 1..n
         /\ Unanswered(s, n + 1)' = 0 => Opening(s, n + 1)' = {}
         /\ Unanswered(s, n + 1)' # 0 /\ Unanswered(s, n) = 0 => Opening(s, n + 1)' = {n + 1}
         /\ /\ Unanswered(s, n + 1)' # 0 /\ e.type # "RUN_STARTED" /\ Opening(s, n) # {}
            => Opening(s, n + 1)' = Opening(s, n)
<1>1. /\ n \in Nat /\ RunPositions(n) \subseteq 1..n
      /\ RunPositions(n + 1)' =
           (IF e.type = "RUN_STARTED" THEN {} ELSE RunPositions(n)) \cup {n + 1}
  BY RunGrows DEF Grows
<1>2. \A k \in 0..n : Unanswered(s, k)' = Unanswered(s, k)
  BY StepPast
<1> DEFINE Holds(k) == Unanswered(s, k) > 0
           before == {p \in RunPositions(n) : \A q \in p..n : Holds(q)}
           after == {p \in RunPositions(n + 1)' : \A q \in p..n + 1 : Holds(q)'}
<1>3. Opening(s, n) = First(before) /\ Opening(s, n + 1)' = First(after)
  BY DEF Opening, First
<1>4. /\ \A k \in 0..n : Holds(k)' <=> Holds(k)
      /\ Holds(n + 1)' <=> Unanswered(s, n + 1)' # 0
      /\ Unanswered(s, n) = 0 => ~ Holds(n)
  BY <1>2
<1> HIDE DEF Holds
<1>5. \A p \in 1..n : /\ p..n + 1 = (p..n) \cup {n + 1} /\ p..n \subseteq 0..n /\ n \in p..n
  BY <1>1
<1>6. \A p \in 1..n :
        (\A q \in p..n + 1 : Holds(q)') <=> (\A q \in p..n : Holds(q)) /\ Holds(n + 1)'
  BY <1>4, <1>5
<1>7. (n + 1)..(n + 1) = {n + 1} /\ \A p \in RunPositions(n) : p \in 1..n
  BY <1>1
<1>8. CASE Unanswered(s, n + 1)' = 0
  <2>1. after = {}
    BY <1>1, <1>4, <1>6, <1>7, <1>8
  <2>2. First(after) = {}
    BY <2>1 DEF First
  <2>3. First(before) \subseteq 1..n
    BY <1>7 DEF First
  <2> QED BY <1>3, <1>8, <2>2, <2>3
<1>9. CASE Unanswered(s, n + 1)' # 0
  <2>1. after = (IF e.type = "RUN_STARTED" THEN {} ELSE before) \cup {n + 1}
    BY <1>1, <1>4, <1>6, <1>7, <1>9
  <2>2. before \subseteq 1..n
    BY <1>7
  <2>3. Unanswered(s, n) = 0 => before = {}
    BY <1>4, <1>5, <1>7
  <2> HIDE DEF before, after
  <2>4. /\ First(before) \subseteq before
        /\ before = {} => First(before \cup {n + 1}) = {n + 1}
        /\ First(before) # {} => First(before \cup {n + 1}) = First(before)
    BY <1>1, <2>2, FirstOfMore
  <2>5. First({n + 1}) = {n + 1}
    BY <1>1 DEF First
  <2> QED BY <1>3, <1>9, <2>1, <2>2, <2>3, <2>4, <2>5
<1> QED BY <1>8, <1>9, <1>3

\* The starts of s the engine counts, and the entry it keeps of s.
Counted(s) == IF s \in DOMAIN openSteps THEN openSteps[s].count ELSE 0

StepMirrored(s, n) ==
  /\ Peak(s, n, Counted(s))
  /\ Counted(s) # 0 <=> Opening(s, n) # {}
  /\ \A p \in Opening(s, n) :
       openSteps[s].first = log[p].at /\ openSteps[s].owner = log[p].event.subagentRunId

StepsMirror == \A s \in StepNames : StepMirrored(s, Len(log))

\* What a step of the stream is to the steps, for the index and the event it logs.
StepSees(i, e) ==
  \/ i = eventCount /\ e \in StepInputs /\ StepEvent(e)
  \/ /\ StepsElsewhere
     /\ e.type \in {"REASONING_START", "REASONING_END", "REASONING_MESSAGE_START",
                    "REASONING_MESSAGE_CONTENT", "REASONING_MESSAGE_END",
                    "REASONING_MESSAGE_CHUNK", "SUBAGENT_STARTED", "SUBAGENT_FINISHED",
                    "SUBAGENT_ERROR", "STATE_SNAPSHOT", "STATE_DELTA", "OTHER", "UNJUDGED"}
  \/ StepsNewRun /\ e = Mark("RUN_STARTED")
  \/ \E type \in TerminalTypes : i = eventCount /\ StepsEnd(type) /\ e = Mark(type)
  \/ i = AtEndOfStream /\ StepsFinalize /\ e = EndOfStreamMark

LEMMA StepView ==
  ASSUME StreamInv, HistoryNext
  PROVE  \E i, e : Logs(i, e) /\ StepSees(i, e)
<1>1. ASSUME NEW e \in ReasoningInputs \cup SubagentInputs \cup StateInputs
      PROVE  e.type \in {"REASONING_START", "REASONING_END", "REASONING_MESSAGE_START",
                         "REASONING_MESSAGE_CONTENT", "REASONING_MESSAGE_END",
                         "REASONING_MESSAGE_CHUNK", "SUBAGENT_STARTED", "SUBAGENT_FINISHED",
                         "SUBAGENT_ERROR", "STATE_SNAPSHOT", "STATE_DELTA", "OTHER", "UNJUDGED"}
  BY ReasoningInputsAssumption, SubagentInputsAssumption, StateInputsAssumption
     DEF ReasoningEvents, SubagentEvents, StateEvents
<1>2. ASSUME NEW e \in ReasoningInputs \cup SubagentInputs \cup StateInputs,
             StepsElsewhere, Logs(eventCount, e)
      PROVE  \E i, l : Logs(i, l) /\ StepSees(i, l)
  BY <1>1, <1>2 DEF StepSees
<1>3. ASSUME NEW e \in StepInputs, StepEvent(e), Logs(eventCount, e)
      PROVE  \E i, l : Logs(i, l) /\ StepSees(i, l)
  BY <1>3 DEF StepSees
<1>4. CASE ReceivesOther \/ ReceivesUnjudged
  <2>1. Mark("OTHER").type = "OTHER" /\ Mark("UNJUDGED").type = "UNJUDGED"
    BY DEF Mark
  <2> QED BY <1>4, <2>1 DEF ReceivesOther, ReceivesUnjudged, StepSees
<1>5. CASE ReceivesNewRun
  BY <1>5 DEF ReceivesNewRun, StepSees
<1>6. ASSUME NEW type \in TerminalTypes, ReceivesTerminal(type)
      PROVE  \E i, l : Logs(i, l) /\ StepSees(i, l)
  BY <1>6 DEF ReceivesTerminal, StepSees
<1>7. CASE EndsStream
  BY <1>7 DEF EndsStream, StepSees
<1> QED BY <1>2, <1>3, <1>4, <1>5, <1>6, <1>7, StepCases

\* The dictionary of open steps changes as the entry says.
StepMoves(s, i, e) ==
  /\ Counted(s)' = Recount(Counted(s), e, s)
  /\ Counted(s) = 0 /\ Counted(s)' # 0 =>
       openSteps'[s].first = i /\ openSteps'[s].owner = e.subagentRunId
  /\ Counted(s) # 0 /\ Counted(s)' # 0 =>
       /\ openSteps'[s].first = openSteps[s].first
       /\ openSteps'[s].owner = openSteps[s].owner

LEMMA CountedType ==
  ASSUME StepTypeOK, NEW s \in StepNames
  PROVE  /\ Counted(s) \in Nat
         /\ s \in DOMAIN openSteps <=> Counted(s) # 0
         /\ s \in DOMAIN openSteps => openSteps[s] \in [count : Nat \ {0}, first : Nat, owner : Tags]
BY DEF StepTypeOK, IsDict, Counted

\* An entry that neither touches the dictionary nor is about a step.
LEMMA StepsStand ==
  ASSUME StepTypeOK, NEW s \in StepNames, NEW i, NEW e, UNCHANGED openSteps,
         Balance(e, s) = 0, e.type # "RUN_STARTED"
  PROVE  StepMoves(s, i, e)
<1>1. Counted(s) \in Nat /\ Counted(s)' = Counted(s)
  BY CountedType DEF Counted
<1> QED BY <1>1 DEF StepMoves, Recount

LEMMA StepStartedMoves ==
  ASSUME StepTypeOK, NEW s \in StepNames, NEW e, StepStarted(e)
  PROVE  StepMoves(s, eventCount, e)
<1>1. e.type = "STEP_STARTED" /\ s # None
  BY StepNamesAssumption DEF StepStarted
<1>2. CASE e.stepName # s /\ (s \in DOMAIN openSteps' <=> s \in DOMAIN openSteps)
           /\ (s \in DOMAIN openSteps => openSteps'[s] = openSteps[s])
  <2>1. Balance(e, s) = 0
    BY <1>1, <1>2 DEF Balance
  <2>2. Counted(s)' = Counted(s) /\ Counted(s) \in Nat
    BY <1>2, CountedType DEF Counted
  <2>3. Recount(Counted(s), e, s) = Counted(s)
    BY <1>1, <2>1, <2>2 DEF Recount
  <2> QED BY <1>2, <2>2, <2>3, CountedType DEF StepMoves
<1>3. CASE e.stepName = s /\ s \in DOMAIN openSteps
           /\ openSteps' = [openSteps EXCEPT ![s].count = @ + 1]
  <2>1. Balance(e, s) = 1
    BY <1>1, <1>3 DEF Balance
  <2>2. openSteps[s] \in [count : Nat \ {0}, first : Nat, owner : Tags]
    BY <1>3, CountedType
  <2>3. /\ s \in DOMAIN openSteps'
        /\ openSteps'[s].count = openSteps[s].count + 1
        /\ openSteps'[s].first = openSteps[s].first
        /\ openSteps'[s].owner = openSteps[s].owner
    BY <1>3, <2>2
  <2>4. Counted(s)' = Counted(s) + 1 /\ Counted(s) \in Nat \ {0}
    BY <1>3, <2>2, <2>3 DEF Counted
  <2>5. Recount(Counted(s), e, s) = Counted(s) + 1
    BY <1>1, <2>1, <2>4 DEF Recount
  <2> QED BY <2>3, <2>4, <2>5 DEF StepMoves
<1>4. CASE e.stepName = s /\ s \notin DOMAIN openSteps
           /\ openSteps' = Put(openSteps, s,
                [count |-> 1, first |-> eventCount, owner |-> e.subagentRunId])
  <2>1. Balance(e, s) = 1
    BY <1>1, <1>4 DEF Balance
  <2>2. s \in DOMAIN openSteps' /\
        openSteps'[s] = [count |-> 1, first |-> eventCount, owner |-> e.subagentRunId]
    BY <1>4 DEF Put
  <2>3. Counted(s) = 0 /\ Counted(s)' = 1
    BY <1>4, <2>2 DEF Counted
  <2>4. Recount(Counted(s), e, s) = 1
    BY <1>1, <2>1, <2>3 DEF Recount
  <2> QED BY <2>2, <2>3, <2>4 DEF StepMoves
<1>5. CASE e.stepName = None /\ UNCHANGED openSteps
  BY <1>1, <1>2, <1>5
<1>6. CASE e.stepName \in DOMAIN openSteps
           /\ openSteps' = [openSteps EXCEPT ![e.stepName].count = @ + 1]
  BY <1>2, <1>3, <1>6
<1>7. CASE e.stepName \in StepNames \ DOMAIN openSteps
           /\ openSteps' = Put(openSteps, e.stepName,
                [count |-> 1, first |-> eventCount, owner |-> e.subagentRunId])
  <2>1. /\ DOMAIN openSteps' = DOMAIN openSteps \cup {e.stepName}
        /\ \A x \in DOMAIN openSteps : x # e.stepName => openSteps'[x] = openSteps[x]
    BY <1>7 DEF Put
  <2> QED BY <1>2, <1>4, <1>7, <2>1
<1> QED BY <1>5, <1>6, <1>7 DEF StepStarted

LEMMA StepFinishedMoves ==
  ASSUME StepTypeOK, NEW s \in StepNames, NEW e, StepFinished(e)
  PROVE  StepMoves(s, eventCount, e)
<1>1. e.type = "STEP_FINISHED" /\ s # None
  BY StepNamesAssumption DEF StepFinished
<1>2. CASE e.stepName # s /\ (s \in DOMAIN openSteps' <=> s \in DOMAIN openSteps)
           /\ (s \in DOMAIN openSteps => openSteps'[s] = openSteps[s])
  <2>1. Balance(e, s) = 0
    BY <1>1, <1>2 DEF Balance
  <2>2. Counted(s)' = Counted(s) /\ Counted(s) \in Nat
    BY <1>2, CountedType DEF Counted
  <2>3. Recount(Counted(s), e, s) = Counted(s)
    BY <1>1, <2>1, <2>2 DEF Recount
  <2> QED BY <1>2, <2>2, <2>3, CountedType DEF StepMoves
<1>3. CASE e.stepName = s /\ s \notin DOMAIN openSteps /\ UNCHANGED openSteps
  <2>1. Balance(e, s) = -1 /\ Counted(s) = 0 /\ Counted(s)' = 0
    BY <1>1, <1>3 DEF Balance, Counted
  <2>2. Recount(Counted(s), e, s) = 0
    BY <2>1 DEF Recount
  <2> QED BY <2>1, <2>2 DEF StepMoves
<1>4. CASE e.stepName = s /\ s \in DOMAIN openSteps /\ openSteps[s].count = 1
           /\ openSteps' = Drop(openSteps, s)
  <2>1. Balance(e, s) = -1 /\ Counted(s) = 1
    BY <1>1, <1>4 DEF Balance, Counted
  <2>2. Counted(s)' = 0
    <3>1. s \notin DOMAIN openSteps'
      BY <1>4 DEF Drop
    <3> QED BY <3>1 DEF Counted
  <2>3. Recount(Counted(s), e, s) = 0
    BY <1>1, <2>1 DEF Recount
  <2> QED BY <2>2, <2>3 DEF StepMoves
<1>5. CASE e.stepName = s /\ s \in DOMAIN openSteps /\ openSteps[s].count # 1
           /\ openSteps' = [openSteps EXCEPT ![s].count = @ - 1]
  <2>1. Balance(e, s) = -1
    BY <1>1, <1>5 DEF Balance
  <2>2. openSteps[s] \in [count : Nat \ {0}, first : Nat, owner : Tags]
    BY <1>5, CountedType
  <2>3. /\ s \in DOMAIN openSteps'
        /\ openSteps'[s].count = openSteps[s].count - 1
        /\ openSteps'[s].first = openSteps[s].first
        /\ openSteps'[s].owner = openSteps[s].owner
    BY <1>5, <2>2
  <2>4. Counted(s)' = Counted(s) - 1 /\ Counted(s) \in Nat /\ Counted(s) > 1
    BY <1>5, <2>2, <2>3 DEF Counted
  <2>5. Recount(Counted(s), e, s) = Counted(s) - 1
    BY <1>1, <2>1, <2>4 DEF Recount
  <2> QED BY <2>3, <2>4, <2>5 DEF StepMoves
<1>6. CASE e.stepName \notin DOMAIN openSteps /\ UNCHANGED openSteps
  BY <1>2, <1>3, <1>6
<1>7. CASE e.stepName \in DOMAIN openSteps /\ openSteps[e.stepName].count = 1
           /\ openSteps' = Drop(openSteps, e.stepName)
  <2>1. /\ DOMAIN openSteps' = DOMAIN openSteps \ {e.stepName}
        /\ \A x \in DOMAIN openSteps : x # e.stepName => openSteps'[x] = openSteps[x]
    BY <1>7, DropKeys
  <2> QED BY <1>2, <1>4, <1>7, <2>1
<1>8. CASE e.stepName \in DOMAIN openSteps /\ openSteps[e.stepName].count # 1
           /\ openSteps' = [openSteps EXCEPT ![e.stepName].count = @ - 1]
  BY <1>2, <1>5, <1>8
<1>9. None \notin DOMAIN openSteps
  BY StepNamesAssumption DEF StepTypeOK, IsDict
<1> QED BY <1>6, <1>7, <1>8, <1>9 DEF StepFinished

LEMMA StepsMove ==
  ASSUME StepTypeOK, NEW s \in StepNames, NEW i, NEW e, StepSees(i, e)
  PROVE  StepMoves(s, i, e)
<1>1. CASE i = eventCount /\ StepEvent(e)
  BY <1>1, StepStartedMoves, StepFinishedMoves DEF StepEvent
<1>2. CASE /\ UNCHANGED openSteps
           /\ e.type \notin {"STEP_STARTED", "STEP_FINISHED", "RUN_STARTED"}
  <2>1. Balance(e, s) = 0
    BY <1>2 DEF Balance
  <2> QED BY <1>2, <2>1, StepsStand
<1>3. CASE StepsNewRun /\ e = Mark("RUN_STARTED")
  <2>1. s \notin DOMAIN openSteps'
    BY <1>3, EmptyDictType DEF StepsNewRun
  <2>2. Counted(s)' = 0
    BY <2>1 DEF Counted
  <2>3. Recount(Counted(s), e, s) = 0
    BY <1>3 DEF Recount, Mark
  <2> QED BY <2>2, <2>3 DEF StepMoves
<1>4. ASSUME NEW type \in TerminalTypes, StepsEnd(type), e = Mark(type)
      PROVE  StepMoves(s, i, e)
  <2>1. /\ UNCHANGED openSteps
        /\ e.type \notin {"STEP_STARTED", "STEP_FINISHED", "RUN_STARTED"}
    BY <1>4 DEF StepsEnd, Mark, TerminalTypes
  <2> QED BY <1>2, <2>1
<1>5. CASE StepsFinalize /\ e = EndOfStreamMark
  <2>1. /\ UNCHANGED openSteps
        /\ e.type \notin {"STEP_STARTED", "STEP_FINISHED", "RUN_STARTED"}
    BY <1>5 DEF StepsFinalize, EndOfStreamMark, Mark
  <2> QED BY <1>2, <2>1
<1>6. CASE /\ StepsElsewhere
           /\ e.type \in {"REASONING_START", "REASONING_END", "REASONING_MESSAGE_START",
                    "REASONING_MESSAGE_CONTENT", "REASONING_MESSAGE_END",
                    "REASONING_MESSAGE_CHUNK", "SUBAGENT_STARTED", "SUBAGENT_FINISHED",
                    "SUBAGENT_ERROR", "STATE_SNAPSHOT", "STATE_DELTA", "OTHER", "UNJUDGED"}
  <2>1. /\ UNCHANGED openSteps
        /\ e.type \notin {"STEP_STARTED", "STEP_FINISHED", "RUN_STARTED"}
    BY <1>6 DEF StepsElsewhere
  <2> QED BY <1>2, <2>1
<1> QED BY <1>1, <1>3, <1>4, <1>5, <1>6 DEF StepSees

\* The mirror of a step follows the stream.
LEMMA StepMirrorGrows ==
  ASSUME StepTypeOK, StepTypeOK', NEW s \in StepNames, NEW n, NEW i, NEW e, Grows(n, i, e),
         StepMirrored(s, n), StepMoves(s, i, e)
  PROVE  /\ Unanswered(s, n) = Counted(s)
         /\ StepMirrored(s, n + 1)' /\ Unanswered(s, n + 1)' = Counted(s)'
<1>1. PICK c : c = Counted(s)
  OBVIOUS
<1>2. Peak(s, n, c)
  BY <1>1 DEF StepMirrored
<1>3. /\ Unanswered(s, n) = c
      /\ Peak(s, n + 1, Recount(c, e, s))'
      /\ Unanswered(s, n + 1)' = Recount(c, e, s)
  BY <1>2, PeakGrows
<1>4. Counted(s)' = Recount(c, e, s)
  BY <1>1 DEF StepMoves
<1>5. c \in Nat /\ Counted(s)' \in Nat
  BY <1>1, CountedType DEF Counted, StepTypeOK, IsDict
<1>6. /\ Opening(s, n) \subseteq 1..n
      /\ Counted(s)' = 0 => Opening(s, n + 1)' = {}
      /\ Counted(s)' # 0 /\ c = 0 => Opening(s, n + 1)' = {n + 1}
      /\ /\ Counted(s)' # 0 /\ e.type # "RUN_STARTED" /\ Opening(s, n) # {}
         => Opening(s, n + 1)' = Opening(s, n)
  BY <1>3, <1>4, <1>5, OpeningGrows
<1>7. /\ n \in Nat /\ \A p \in 1..n : log'[p] = log[p]
      /\ log'[n + 1].at = i /\ log'[n + 1].event = e
  BY DEF Grows
<1>8. e.type = "RUN_STARTED" => Counted(s)' = 0
  BY <1>4 DEF Recount
<1>9. Peak(s, n + 1, Counted(s))'
  BY <1>3, <1>4 DEF Peak
<1>10. c # 0 => Opening(s, n) # {}
  BY <1>1 DEF StepMirrored
<1>11. \A p \in Opening(s, n + 1)' :
         openSteps'[s].first = log'[p].at /\ openSteps'[s].owner = log'[p].event.subagentRunId
  <2>1. CASE Counted(s)' = 0
    BY <1>6, <2>1
  <2>2. CASE Counted(s)' # 0 /\ c = 0
    BY <1>1, <1>6, <1>7, <2>2 DEF StepMoves
  <2>3. CASE Counted(s)' # 0 /\ c # 0
    <3>1. Opening(s, n + 1)' = Opening(s, n)
      BY <1>6, <1>8, <1>10, <2>3
    <3>2. \A p \in Opening(s, n) : openSteps[s].first = log[p].at
                                   /\ openSteps[s].owner = log[p].event.subagentRunId
      BY DEF StepMirrored
    <3>3. openSteps'[s].first = openSteps[s].first /\ openSteps'[s].owner = openSteps[s].owner
      BY <1>1, <2>3 DEF StepMoves
    <3> QED BY <1>6, <1>7, <3>1, <3>2, <3>3
  <2> QED BY <2>1, <2>2, <2>3
<1>12. Counted(s)' # 0 <=> Opening(s, n + 1)' # {}
  BY <1>6, <1>8, <1>10
<1>13. StepMirrored(s, n + 1)'
  BY <1>9, <1>11, <1>12 DEF StepMirrored
<1> QED BY <1>1, <1>3, <1>4, <1>13

\* What is left open at the end, as the stream and the dictionary have it.
LEMMA UnfinishedSteps ==
  ASSUME StepTypeOK', NEW n, NEW i, \A s \in StepNames : StepMirrored(s, n)'
  PROVE  UnterminatedSteps(i)' = LeftUnfinished(i, n)'
<1> DEFINE Left(s) == {Finding("AGUI007", i, s, log'[p].at) : p \in Opening(s, n)'}
<1>1. ASSUME NEW s \in StepNames
      PROVE  Left(s) = IF s \in DOMAIN openSteps'
                       THEN {Finding("AGUI007", i, s, openSteps'[s].first)} ELSE {}
  <2>1. /\ Counted(s)' # 0 <=> Opening(s, n)' # {}
        /\ \A p \in Opening(s, n)' : openSteps'[s].first = log'[p].at
    BY DEF StepMirrored
  <2>2. s \in DOMAIN openSteps' <=> Counted(s)' # 0
    BY DEF Counted, StepTypeOK, IsDict
  <2>3. {log'[p].at : p \in Opening(s, n)'} =
          IF s \in DOMAIN openSteps' THEN {openSteps'[s].first} ELSE {}
    BY <2>1, <2>2
  <2>4. Left(s) = {Finding("AGUI007", i, s, k) : k \in {log'[p].at : p \in Opening(s, n)'}}
    BY DEF Finding
  <2> QED BY <2>3, <2>4
<1> HIDE DEF Left
<1>2. DOMAIN openSteps' \subseteq StepNames
  BY DEF StepTypeOK, IsDict
<1>3. UNION {Left(s) : s \in StepNames} =
        {Finding("AGUI007", i, s, openSteps'[s].first) : s \in DOMAIN openSteps'}
  BY <1>1, <1>2
<1>4. UnterminatedSteps(i)' =
        {Finding("AGUI007", i, s, openSteps'[s].first) : s \in DOMAIN openSteps'}
  BY DEF UnterminatedSteps, Finding
<1> QED BY <1>3, <1>4 DEF Left, LeftUnfinished

LEMMA StepToldExactly ==
  ASSUME StepTypeOK, StepTypeOK', NEW n, NEW i, NEW e, Grows(n, i, e), StepSees(i, e),
         \A s \in StepNames : StepMirrored(s, n),
         \A s \in StepNames : StepMirrored(s, n + 1)',
         \A s \in StepNames : Unanswered(s, n) = Counted(s)
  PROVE  stepFound' = StepDeserved(n + 1)'
<1>1. n \in Nat /\ log'[n + 1].at = i /\ log'[n + 1].event = e /\ (n + 1) - 1 = n
  BY DEF Grows
<1>2. \A p \in 1..n : log'[p] = log[p]
  BY DEF Grows
<1>3. StepDeserved(n + 1)' =
        CASE e.type = "STEP_FINISHED" /\ e.stepName # None ->
               IF Unanswered(e.stepName, n)' = 0 THEN {Finding("AGUI006", i, e.stepName, None)}
               ELSE DisownedStep(i, e.stepName, e.subagentRunId, n)'
          [] e.type \in {"RUN_FINISHED", "END_OF_STREAM"} -> LeftUnfinished(i, n + 1)'
          [] OTHER -> {}
  BY <1>1 DEF StepDeserved
<1>4. UnterminatedSteps(i)' = LeftUnfinished(i, n + 1)'
  BY UnfinishedSteps
<1>5. StepDeserved(n + 1)' =
        CASE e.type = "STEP_FINISHED" /\ e.stepName # None ->
               IF Unanswered(e.stepName, n)' = 0 THEN {Finding("AGUI006", i, e.stepName, None)}
               ELSE DisownedStep(i, e.stepName, e.subagentRunId, n)'
          [] e.type \in {"RUN_FINISHED", "END_OF_STREAM"} -> UnterminatedSteps(i)'
          [] OTHER -> {}
  BY <1>3, <1>4
<1>6. ASSUME NEW s \in StepNames
      PROVE  /\ Unanswered(s, n)' = 0 <=> s \notin DOMAIN openSteps
             /\ s \in DOMAIN openSteps =>
                  DisownedStep(i, s, e.subagentRunId, n)' =
                    OwnerFindings(i, s, e.subagentRunId, openSteps[s].owner)
  <2>1. Unanswered(s, n)' = Counted(s) /\ Opening(s, n)' = Opening(s, n)
    BY <1>1, StepPast
  <2>2. s \in DOMAIN openSteps <=> Counted(s) # 0
    BY CountedType
  <2>3. /\ Counted(s) # 0 <=> Opening(s, n) # {}
        /\ \A p \in Opening(s, n) : openSteps[s].owner = log[p].event.subagentRunId
    BY DEF StepMirrored
  <2>4. Opening(s, n) \subseteq 1..n
    BY <1>1 DEF Opening, First, RunPositions
  <2>5. DisownedStep(i, s, e.subagentRunId, n)' =
          UNION {OwnerFindings(i, s, e.subagentRunId, o) :
                 o \in {log'[p].event.subagentRunId : p \in Opening(s, n)}}
    BY <2>1 DEF DisownedStep, OwnerFindings
  <2>6. s \in DOMAIN openSteps =>
          {log'[p].event.subagentRunId : p \in Opening(s, n)} = {openSteps[s].owner}
    BY <1>2, <2>2, <2>3, <2>4
  <2> QED BY <2>1, <2>2, <2>5, <2>6
<1>7. UNCHANGED openSteps => UnterminatedSteps(i)' = UnterminatedSteps(i)
  BY DEF UnterminatedSteps
<1>8. CASE i = eventCount /\ e \in StepInputs /\ StepEvent(e)
  <2>1. CASE StepStarted(e)
    BY <1>5, <2>1 DEF StepStarted
  <2>2. CASE StepFinished(e)
    <3>1. e.type = "STEP_FINISHED" /\ e.stepName \in StepNames \cup {None}
      BY <1>8, <2>2, StepInputsAssumption DEF StepFinished, StepEvents
    <3>2. CASE e.stepName = None
      <4>1. stepFound' = {}
        BY <2>2, <3>2, StepNamesAssumption DEF StepFinished, StepTypeOK, IsDict
      <4> QED BY <1>5, <3>1, <3>2, <4>1
    <3>3. CASE e.stepName \in StepNames \ DOMAIN openSteps
      <4>1. stepFound' = {Finding("AGUI006", i, e.stepName, None)}
        BY <1>8, <2>2, <3>3, StepNamesAssumption DEF StepFinished
      <4> QED BY <1>5, <1>6, <3>1, <3>3, <4>1, StepNamesAssumption
    <3>4. CASE e.stepName \in StepNames /\ e.stepName \in DOMAIN openSteps
      <4>1. stepFound' = OwnerFindings(i, e.stepName, e.subagentRunId,
                                       openSteps[e.stepName].owner)
        BY <1>8, <2>2, <3>4, StepNamesAssumption DEF StepFinished
      <4> QED BY <1>5, <1>6, <3>1, <3>4, <4>1, StepNamesAssumption
    <3> QED BY <3>1, <3>2, <3>3, <3>4
  <2> QED BY <1>8, <2>1, <2>2 DEF StepEvent
<1>9. CASE /\ StepsElsewhere
           /\ e.type \notin {"STEP_STARTED", "STEP_FINISHED", "RUN_FINISHED", "END_OF_STREAM"}
  BY <1>5, <1>9 DEF StepsElsewhere
<1>10. CASE StepsNewRun /\ e = Mark("RUN_STARTED")
  BY <1>5, <1>10 DEF StepsNewRun, Mark
<1>11. ASSUME NEW type \in TerminalTypes, i = eventCount, StepsEnd(type), e = Mark(type)
       PROVE  stepFound' = StepDeserved(n + 1)'
  BY <1>5, <1>7, <1>11 DEF StepsEnd, Mark, TerminalTypes
<1>12. CASE i = AtEndOfStream /\ StepsFinalize /\ e = EndOfStreamMark
  BY <1>5, <1>7, <1>12 DEF StepsFinalize, EndOfStreamMark, Mark
<1> QED BY <1>8, <1>9, <1>10, <1>11, <1>12 DEF StepSees

\* The mirror holds in every stream, and every step event is reported as it deserves.
StepHistoryInv == StepsMirror /\ StepFindingsExact

LEMMA StepHistoryInvariant == HistorySpec => []StepHistoryInv
<1>1. HistoryInit => StepHistoryInv
  <2> SUFFICES ASSUME HistoryInit PROVE StepHistoryInv
    OBVIOUS
  <2>1. log = <<>> /\ Len(log) = 0
    BY DEF HistoryInit
  <2>2. RunPositions(0) = {}
    BY DEF RunPositions
  <2>3. ASSUME NEW s \in StepNames PROVE StepMirrored(s, 0)
    <3>1. Counted(s) = 0
      BY EmptyDictType DEF HistoryInit, StepInit, Counted
    <3>2. Opening(s, 0) = {}
      BY <2>2 DEF Opening, First
    <3> QED BY <2>2, <3>1, <3>2 DEF StepMirrored, Peak
  <2> QED BY <2>1, <2>3 DEF StepHistoryInv, StepsMirror, StepFindingsExact
<1>2. StreamTypeInv /\ StreamTypeInv' /\ StepHistoryInv /\ [HistoryNext]_historyVars =>
        StepHistoryInv'
  <2> SUFFICES ASSUME StreamTypeInv, StreamTypeInv', StepHistoryInv, [HistoryNext]_historyVars
               PROVE  StepHistoryInv'
    OBVIOUS
  <2>1. CASE UNCHANGED historyVars
    <3>1. UNCHANGED <<log, openSteps, stepFound>>
      BY <2>1 DEF historyVars, stepVars
    <3>2. ASSUME NEW s, NEW n
          PROVE  /\ Unanswered(s, n)' = Unanswered(s, n)
                 /\ Opening(s, n)' = Opening(s, n)
                 /\ StepMirrored(s, n)' <=> StepMirrored(s, n)
      BY <3>1 DEF StepMirrored, Counted, Peak, Opening, Unanswered, Surplus, IsStep, TypeAt,
                  RunPositions, First
    <3>3. ASSUME NEW n PROVE StepDeserved(n)' = StepDeserved(n)
      BY <3>1 DEF StepDeserved, DisownedStep, LeftUnfinished, Opening, Unanswered, Surplus, IsStep,
                         TypeAt, RunPositions, First
    <3> QED BY <3>1, <3>2, <3>3 DEF StepHistoryInv, StepsMirror, StepFindingsExact
  <2>2. CASE HistoryNext
    <3>1. StepTypeOK /\ StepTypeOK' /\ StreamInv
      BY DEF StreamTypeInv
    <3>2. PICK i, e : Logs(i, e) /\ StepSees(i, e)
      BY <2>2, <3>1, StepView
    <3>3. PICK n : Grows(n, i, e)
      BY <3>1, <3>2, NextEntry DEF StreamInv
    <3>4. Len(log) = n /\ Len(log') = n + 1
      BY <3>3 DEF Grows
    <3>5. \A s \in StepNames : StepMirrored(s, n)
      BY <3>4 DEF StepHistoryInv, StepsMirror
    <3>6. \A s \in StepNames : StepMoves(s, i, e)
      BY <3>1, <3>2, StepsMove
    <3>7. ASSUME NEW s \in StepNames
          PROVE  Unanswered(s, n) = Counted(s) /\ StepMirrored(s, n + 1)'
      BY <3>1, <3>3, <3>5, <3>6, StepMirrorGrows
    <3>8. stepFound' = StepDeserved(n + 1)'
      BY <3>1, <3>2, <3>3, <3>5, <3>7, StepToldExactly
    <3> QED BY <3>4, <3>7, <3>8 DEF StepHistoryInv, StepsMirror, StepFindingsExact
  <2> QED BY <2>1, <2>2
<1> QED BY <1>1, <1>2, StreamTypes, PTL DEF HistorySpec

\* For any stream, any names and any bound, the step rules report every input exactly
\* as the stream up to it deserves.
THEOREM StepsExact == HistorySpec => []StepFindingsExact
<1>1. StepHistoryInv => StepFindingsExact
  BY DEF StepHistoryInv
<1> QED BY <1>1, StepHistoryInvariant, PTL

\* For any stream, the counter of a step is the number of its starts that no finish
\* has answered.
THEOREM StepsCounted == HistorySpec => []StepCountsExact
<1>1. StepHistoryInv => StepCountsExact
  <2> SUFFICES ASSUME StepHistoryInv, NEW s \in StepNames
               PROVE  Unanswered(s, Len(log)) = Counted(s)
    BY DEF StepCountsExact, Counted
  <2>1. Peak(s, Len(log), Counted(s))
    BY DEF StepHistoryInv, StepsMirror, StepMirrored
  <2> DEFINE S == {0} \cup {Surplus(s, p, Len(log)) : p \in RunPositions(Len(log))}
  <2>2. Counted(s) \in S /\ \A x \in S : x \in Int /\ Counted(s) >= x
    BY <2>1 DEF Peak
  <2> HIDE DEF S
  <2>3. Max(S) = Counted(s)
    BY <2>2, MaxIs
  <2> QED BY <2>3 DEF Unanswered, S
<1> QED BY <1>1, StepHistoryInvariant, PTL

-----------------------------------------------------------------------------
(* What the state rules remember is what the stream says.                  *)

\* d is the replay of the positions p..n.
IsReplay(d, p, n) ==
  d = [q \in p..n |-> IF q = p THEN log[p].event.snapshot ELSE Try(d[q - 1], log[q].event)]

LEMMA ReplayedIs ==
  ASSUME NEW p, NEW n, NEW d, IsReplay(d, p, n)
  PROVE  IsReplay(Replayed(p, n), p, n)
BY DEF IsReplay, Replayed

LEMMA ReplayedIsNext ==
  ASSUME NEW p, NEW n, NEW d, IsReplay(d, p, n)'
  PROVE  IsReplay(Replayed(p, n), p, n)'
BY DEF IsReplay, Replayed

\* Two replays agree as far as both go, for what is past does not change.
LEMMA ReplaysAgree ==
  ASSUME NEW n, NEW i, NEW e, Grows(n, i, e), NEW p \in 1..n, NEW m \in {n, n + 1},
         NEW d, IsReplay(d, p, n), NEW f, IsReplay(f, p, m)'
  PROVE  f[n] = d[n]
<1>1. n \in Nat /\ \A q \in 1..n : log'[q] = log[q]
  BY DEF Grows
<1> DEFINE S == {k \in Nat : p + k <= n => f[p + k] = d[p + k]}
<1>2. ASSUME NEW q \in p..n
      PROVE  /\ d[q] = IF q = p THEN log[p].event.snapshot ELSE Try(d[q - 1], log[q].event)
             /\ f[q] = IF q = p THEN log[p].event.snapshot ELSE Try(f[q - 1], log[q].event)
  <2>1. q \in p..m /\ log'[q] = log[q] /\ log'[p] = log[p]
    BY <1>1
  <2>2. d[q] = IF q = p THEN log[p].event.snapshot ELSE Try(d[q - 1], log[q].event)
    BY DEF IsReplay
  <2>3. f[q] = IF q = p THEN log'[p].event.snapshot ELSE Try(f[q - 1], log'[q].event)
    BY <2>1 DEF IsReplay
  <2> QED BY <2>1, <2>2, <2>3
<1>3. 0 \in S
  <2>1. p \in p..n /\ p + 0 = p
    BY <1>1
  <2> QED BY <1>2, <2>1
<1>4. ASSUME NEW k \in Nat, k \in S PROVE k + 1 \in S
  <2> SUFFICES ASSUME p + (k + 1) <= n PROVE f[p + (k + 1)] = d[p + (k + 1)]
    OBVIOUS
  <2>1. f[p + k] = d[p + k]
    BY <1>1, <1>4
  <2>2. /\ p + (k + 1) \in p..n /\ p + (k + 1) # p /\ (p + (k + 1)) - 1 = p + k
    BY <1>1
  <2> QED BY <1>2, <2>1, <2>2
<1> HIDE DEF S
<1>5. \A k \in Nat : k \in S
  BY <1>3, <1>4, SetInduction
<1>6. n - p \in Nat /\ p + (n - p) = n
  BY <1>1
<1> QED BY <1>1, <1>5, <1>6 DEF S

\* The replay of one more position: as before, with the event of that position.
LEMMA ReplayGrows ==
  ASSUME NEW n, NEW i, NEW e, Grows(n, i, e), NEW p \in 1..n, IsReplay(Replayed(p, n), p, n)
  PROVE  /\ Replayed(p, n)'[n] = Replayed(p, n)[n]
         /\ IsReplay(Replayed(p, n + 1), p, n + 1)'
         /\ Replayed(p, n + 1)'[n + 1] = Try(Replayed(p, n)[n], e)
<1>1. n \in Nat /\ \A q \in 1..n : log'[q] = log[q]
  BY DEF Grows
<1>2. log'[n + 1].event = e
  BY DEF Grows
<1>3. PICK d : d = Replayed(p, n)
  OBVIOUS
<1>4. d = [q \in p..n |-> IF q = p THEN log[p].event.snapshot ELSE Try(d[q - 1], log[q].event)]
  BY <1>3 DEF IsReplay
<1> DEFINE f == [q \in p..n + 1 |-> IF q = n + 1 THEN Try(d[n], e) ELSE d[q]]
<1>5. IsReplay(Replayed(p, n), p, n)'
  <2>1. [q \in p..n |-> IF q = p THEN log[p].event.snapshot ELSE Try(d[q - 1], log[q].event)] =
        [q \in p..n |-> IF q = p THEN log'[p].event.snapshot ELSE Try(d[q - 1], log'[q].event)]
    BY <1>1
  <2>2. IsReplay(d, p, n)'
    BY <1>4, <2>1 DEF IsReplay
  <2> QED BY <2>2, ReplayedIsNext
<1>6. \E g : IsReplay(g, p, n + 1)'
  <2>1. ASSUME NEW q \in p..n + 1
        PROVE  f[q] = IF q = p THEN log'[p].event.snapshot ELSE Try(f[q - 1], log'[q].event)
    <3>1. CASE q = n + 1
      <4>1. q # p /\ q - 1 = n /\ n \in p..n + 1 /\ n # n + 1
        BY <1>1, <3>1
      <4> QED BY <1>2, <3>1, <4>1
    <3>2. CASE q # n + 1
      <4>1. q \in p..n /\ f[q] = d[q] /\ log'[q] = log[q] /\ log'[p] = log[p]
        BY <1>1, <3>2
      <4>2. q # p => q - 1 \in p..n + 1 /\ q - 1 # n + 1 /\ f[q - 1] = d[q - 1]
        BY <1>1, <3>2
      <4>3. d[q] = IF q = p THEN log[p].event.snapshot ELSE Try(d[q - 1], log[q].event)
        BY <1>4, <4>1
      <4> QED BY <4>1, <4>2, <4>3
    <3> QED BY <3>1, <3>2
  <2>2. f = [q \in p..n + 1 |-> f[q]]
    OBVIOUS
  <2>3. PICK g : g = f
    OBVIOUS
  <2> HIDE DEF f
  <2>4. g = [q \in p..n + 1 |->
              IF q = p THEN log'[p].event.snapshot ELSE Try(g[q - 1], log'[q].event)]
    BY <2>1, <2>2, <2>3
  <2> QED BY <2>4 DEF IsReplay
<1>7. IsReplay(Replayed(p, n + 1), p, n + 1)'
  BY <1>6, ReplayedIsNext
<1>8. PICK g : g = Replayed(p, n + 1)'
  OBVIOUS
<1>9. PICK h : h = Replayed(p, n)'
  OBVIOUS
<1>10. IsReplay(d, p, n) /\ IsReplay(g, p, n + 1)' /\ IsReplay(h, p, n)'
  BY <1>3, <1>5, <1>7, <1>8, <1>9
<1>11. g[n] = d[n] /\ h[n] = d[n]
  BY <1>10, ReplaysAgree
<1>12. g[n + 1] = Try(g[n], e)
  <2>1. n + 1 \in p..n + 1 /\ n + 1 # p /\ (n + 1) - 1 = n
    BY <1>1
  <2>2. g = [q \in p..n + 1 |->
              IF q = p THEN log'[p].event.snapshot ELSE Try(g[q - 1], log'[q].event)]
    BY <1>10 DEF IsReplay
  <2> QED BY <1>2, <2>1, <2>2
<1> QED BY <1>3, <1>7, <1>8, <1>9, <1>11, <1>12

\* A replay that begins with the last position.
LEMMA ReplayBegins ==
  ASSUME NEW n, NEW i, NEW e, Grows(n, i, e)
  PROVE  /\ IsReplay(Replayed(n + 1, n + 1), n + 1, n + 1)'
         /\ Replayed(n + 1, n + 1)'[n + 1] = e.snapshot
<1>1. n \in Nat /\ log'[n + 1].event = e
  BY DEF Grows
<1>2. PICK k : k = n + 1
  OBVIOUS
<1>3. k..k = {k}
  BY <1>1, <1>2
<1>4. PICK d : d = [q \in k..k |-> e.snapshot]
  OBVIOUS
<1>5. d = [q \in k..k |-> IF q = k THEN log'[k].event.snapshot ELSE Try(d[q - 1], log'[q].event)]
  BY <1>1, <1>2, <1>3, <1>4
<1>6. IsReplay(d, k, k)'
  BY <1>5 DEF IsReplay
<1>7. IsReplay(Replayed(k, k), k, k)'
  BY <1>6, ReplayedIsNext
<1>8. PICK g : g = Replayed(k, k)'
  OBVIOUS
<1>9. g = [q \in k..k |-> IF q = k THEN log'[k].event.snapshot ELSE Try(g[q - 1], log'[q].event)]
  BY <1>7, <1>8 DEF IsReplay
<1>10. g[k] = e.snapshot
  BY <1>1, <1>2, <1>3, <1>9
<1> QED BY <1>2, <1>7, <1>8, <1>10

\* The base and the patches since, once more is known.
LEMMA BaseGrows ==
  ASSUME NEW n, NEW i, NEW e, Grows(n, i, e)
  PROVE  /\ Base(n) \subseteq 1..n /\ Base(n)' = Base(n)
         /\ SnapshotsIn(1..n)' = SnapshotsIn(1..n)
         /\ e.type = "STATE_SNAPSHOT" => Base(n + 1)' = {n + 1}
         /\ e.type = "RUN_STARTED" => Base(n + 1)' = {}
         /\ e.type \notin {"STATE_SNAPSHOT", "RUN_STARTED"} => Base(n + 1)' = Base(n)
         /\ e.type # "STATE_SNAPSHOT" => SnapshotsIn(1..n + 1)' = SnapshotsIn(1..n)
         /\ e.type = "STATE_SNAPSHOT" => SnapshotsIn(1..n + 1)' # {}
<1>1. n \in Nat /\ \A q \in 1..n : log'[q] = log[q]
  BY DEF Grows
<1>2. log'[n + 1].event = e
  BY DEF Grows
<1>3. /\ RunPositions(n) \subseteq 1..n /\ RunPositions(n)' = RunPositions(n)
      /\ RunPositions(n + 1)' =
           (IF e.type = "RUN_STARTED" THEN {} ELSE RunPositions(n)) \cup {n + 1}
  BY <1>1, RunGrows
<1>4. ASSUME NEW positions, positions \subseteq 1..n
      PROVE  /\ {p \in positions : TypeAt(p)' = "STATE_SNAPSHOT"} = SnapshotsIn(positions)
             /\ {p \in positions \cup {n + 1} : TypeAt(p)' = "STATE_SNAPSHOT"} =
                  SnapshotsIn(positions) \cup
                  (IF e.type = "STATE_SNAPSHOT" THEN {n + 1} ELSE {})
             /\ SnapshotsIn(positions) \subseteq 1..n
  BY <1>1, <1>2, <1>4 DEF SnapshotsIn, TypeAt
<1>5. Base(n) \subseteq 1..n
  BY <1>3, <1>4 DEF Base, Latest
<1>6. Base(n)' = Base(n)
  <2>1. Base(n)' = Latest({p \in RunPositions(n) : TypeAt(p)' = "STATE_SNAPSHOT"})
    BY <1>3 DEF Base, SnapshotsIn, Latest
  <2> QED BY <1>3, <1>4, <2>1 DEF Base
<1>7. PICK S : S = {p \in RunPositions(n + 1)' : TypeAt(p)' = "STATE_SNAPSHOT"}
  OBVIOUS
<1>13. Base(n + 1)' = Latest(S)
  BY <1>7 DEF Base, SnapshotsIn, Latest
<1>8. ASSUME e.type = "RUN_STARTED" PROVE Base(n + 1)' = {}
  <2>1. S = {}
    BY <1>2, <1>3, <1>7, <1>8 DEF TypeAt
  <2>2. Base(n + 1)' = {}
    BY <1>13, <2>1 DEF Latest
  <2> QED BY <1>8, <2>2
<1>9. ASSUME e.type # "RUN_STARTED"
      PROVE  /\ e.type = "STATE_SNAPSHOT" => Base(n + 1)' = {n + 1}
             /\ e.type \notin {"STATE_SNAPSHOT", "RUN_STARTED"} => Base(n + 1)' = Base(n)
  <2>1. S = SnapshotsIn(RunPositions(n)) \cup (IF e.type = "STATE_SNAPSHOT" THEN {n + 1} ELSE {})
    BY <1>3, <1>4, <1>7, <1>9
  <2>2. Latest(SnapshotsIn(RunPositions(n)) \cup {n + 1}) = {n + 1}
    BY <1>1, <1>3, <1>4, LatestOfMore
  <2>3. e.type = "STATE_SNAPSHOT" => Base(n + 1)' = {n + 1}
    BY <1>13, <2>1, <2>2
  <2>4. e.type # "STATE_SNAPSHOT" => Base(n + 1)' = Base(n)
    <3>1. e.type # "STATE_SNAPSHOT" => S = SnapshotsIn(RunPositions(n))
      BY <2>1
    <3>2. Base(n) = Latest(SnapshotsIn(RunPositions(n)))
      BY DEF Base
    <3> QED BY <1>13, <3>1, <3>2
  <2> QED BY <1>9, <2>3, <2>4
<1>10. SnapshotsIn(1..n)' = SnapshotsIn(1..n)
  BY <1>4 DEF SnapshotsIn
<1>11. SnapshotsIn(1..n + 1)' =
         SnapshotsIn(1..n) \cup (IF e.type = "STATE_SNAPSHOT" THEN {n + 1} ELSE {})
  <2>1. 1..n + 1 = (1..n) \cup {n + 1}
    BY <1>1
  <2> QED BY <1>4, <2>1 DEF SnapshotsIn
<1>12. /\ e.type = "STATE_SNAPSHOT" => Base(n + 1)' = {n + 1}
       /\ e.type = "RUN_STARTED" => Base(n + 1)' = {}
       /\ e.type \notin {"STATE_SNAPSHOT", "RUN_STARTED"} => Base(n + 1)' = Base(n)
  BY <1>8, <1>9
<1> QED BY <1>5, <1>6, <1>10, <1>11, <1>12

LEMMA SinceGrows ==
  ASSUME NEW n, NEW i, NEW e, Grows(n, i, e)
  PROVE  /\ Since(n) \subseteq 1..n /\ Since(n)' = Since(n)
         /\ e.type \in {"STATE_SNAPSHOT", "RUN_STARTED"} => Since(n + 1)' = {}
         /\ IsPatch(e) => Since(n + 1)' = Since(n) \cup {n + 1}
         /\ /\ e.type \notin {"STATE_SNAPSHOT", "RUN_STARTED"} /\ ~ IsPatch(e)
            => Since(n + 1)' = Since(n)
<1>1. n \in Nat /\ \A q \in 1..n : log'[q] = log[q]
  BY DEF Grows
<1>2. log'[n + 1].event = e
  BY DEF Grows
<1>3. /\ RunPositions(n) \subseteq 1..n /\ RunPositions(n)' = RunPositions(n)
      /\ RunPositions(n + 1)' =
           (IF e.type = "RUN_STARTED" THEN {} ELSE RunPositions(n)) \cup {n + 1}
  BY <1>1, RunGrows
<1>4. /\ Base(n) \subseteq 1..n /\ Base(n)' = Base(n)
      /\ e.type = "STATE_SNAPSHOT" => Base(n + 1)' = {n + 1}
      /\ e.type = "RUN_STARTED" => Base(n + 1)' = {}
      /\ e.type \notin {"STATE_SNAPSHOT", "RUN_STARTED"} => Base(n + 1)' = Base(n)
  BY BaseGrows
<1>5. Since(n) \subseteq 1..n /\ Since(n)' = Since(n)
  BY <1>1, <1>3, <1>4 DEF Since, IsPatch
<1>6. Since(n + 1)' =
        {q \in RunPositions(n + 1)' : IsPatch(log'[q].event) /\ \A p \in Base(n + 1)' : p < q}
  BY DEF Since, IsPatch
<1>7. CASE e.type = "STATE_SNAPSHOT"
  BY <1>1, <1>2, <1>3, <1>4, <1>5, <1>6, <1>7 DEF IsPatch
<1>8. CASE e.type = "RUN_STARTED"
  BY <1>2, <1>3, <1>5, <1>6, <1>8 DEF IsPatch
<1>9. CASE e.type \notin {"STATE_SNAPSHOT", "RUN_STARTED"}
  <2>1. \A q \in RunPositions(n) : log'[q] = log[q]
    BY <1>1, <1>3
  <2>2. \A p \in Base(n) : p < n + 1
    BY <1>1, <1>4
  <2>3. Since(n + 1)' = {q \in RunPositions(n) \cup {n + 1} :
                           IsPatch(log'[q].event) /\ \A p \in Base(n) : p < q}
    BY <1>3, <1>4, <1>6, <1>9
  <2>4. Since(n + 1)' = Since(n) \cup (IF IsPatch(e) THEN {n + 1} ELSE {})
    BY <1>2, <2>1, <2>2, <2>3 DEF Since
  <2> QED BY <1>5, <1>9, <2>4
<1>10. IsPatch(e) => e.type \notin {"STATE_SNAPSHOT", "RUN_STARTED"}
  BY DEF IsPatch
<1> QED BY <1>5, <1>7, <1>8, <1>9, <1>10

\* The document, the count of patches and the latch of the stream mirror the stream.
StateMirrored(n) ==
  /\ known <=> Base(n) # {}
  /\ \A p \in Base(n) : IsReplay(Replayed(p, n), p, n) /\ value = Replayed(p, n)[n]
  /\ deltasSinceSnapshot = Cardinality(Since(n))
  /\ anySnapshot <=> SnapshotsIn(1..n) # {}

\* What a step of the stream is to the state, for the index and the event it logs.
StateSees(i, e) ==
  \/ i = eventCount /\ e \in StateInputs /\ StateEvent(e)
  \/ /\ StateElsewhere
     /\ e.type \in {"STEP_STARTED", "STEP_FINISHED", "REASONING_START", "REASONING_END",
                    "REASONING_MESSAGE_START", "REASONING_MESSAGE_CONTENT",
                    "REASONING_MESSAGE_END", "REASONING_MESSAGE_CHUNK", "SUBAGENT_STARTED",
                    "SUBAGENT_FINISHED", "SUBAGENT_ERROR", "OTHER", "UNJUDGED"}
  \/ StateNewRun /\ e = Mark("RUN_STARTED")
  \/ \E type \in TerminalTypes : StateEnds(type) /\ e = Mark(type)
  \/ i = AtEndOfStream /\ StateFinalize /\ e = EndOfStreamMark

LEMMA StateView ==
  ASSUME StreamInv, HistoryNext
  PROVE  \E i, e : Logs(i, e) /\ StateSees(i, e)
<1>1. ASSUME NEW e \in StepInputs \cup ReasoningInputs \cup SubagentInputs
      PROVE  e.type \in {"STEP_STARTED", "STEP_FINISHED", "REASONING_START", "REASONING_END",
                    "REASONING_MESSAGE_START", "REASONING_MESSAGE_CONTENT",
                    "REASONING_MESSAGE_END", "REASONING_MESSAGE_CHUNK", "SUBAGENT_STARTED",
                    "SUBAGENT_FINISHED", "SUBAGENT_ERROR", "OTHER", "UNJUDGED"}
  BY StepInputsAssumption, ReasoningInputsAssumption, SubagentInputsAssumption
     DEF StepEvents, ReasoningEvents, SubagentEvents
<1>2. ASSUME NEW e \in StepInputs \cup ReasoningInputs \cup SubagentInputs,
             StateElsewhere, Logs(eventCount, e)
      PROVE  \E i, l : Logs(i, l) /\ StateSees(i, l)
  BY <1>1, <1>2 DEF StateSees
<1>3. ASSUME NEW e \in StateInputs, StateEvent(e), Logs(eventCount, e)
      PROVE  \E i, l : Logs(i, l) /\ StateSees(i, l)
  BY <1>3 DEF StateSees
<1>4. CASE ReceivesOther \/ ReceivesUnjudged
  <2>1. Mark("OTHER").type = "OTHER" /\ Mark("UNJUDGED").type = "UNJUDGED"
    BY DEF Mark
  <2> QED BY <1>4, <2>1 DEF ReceivesOther, ReceivesUnjudged, StateSees
<1>5. CASE ReceivesNewRun
  BY <1>5 DEF ReceivesNewRun, StateSees
<1>6. ASSUME NEW type \in TerminalTypes, ReceivesTerminal(type)
      PROVE  \E i, l : Logs(i, l) /\ StateSees(i, l)
  BY <1>6 DEF ReceivesTerminal, StateSees
<1>7. CASE EndsStream
  BY <1>7 DEF EndsStream, StateSees
<1> QED BY <1>2, <1>3, <1>4, <1>5, <1>6, <1>7, StepCases

\* The state changes as the entry says.
StateMoves(e) ==
  /\ known' <=> e.type = "STATE_SNAPSHOT" \/ (e.type # "RUN_STARTED" /\ known)
  /\ e.type = "STATE_SNAPSHOT" => value' = e.snapshot
  /\ e.type \notin {"STATE_SNAPSHOT", "RUN_STARTED"} /\ known => value' = Try(value, e)
  /\ deltasSinceSnapshot' =
       IF e.type \in {"STATE_SNAPSHOT", "RUN_STARTED"} THEN 0
       ELSE IF IsPatch(e) THEN deltasSinceSnapshot + 1 ELSE deltasSinceSnapshot
  /\ anySnapshot' <=> anySnapshot \/ e.type = "STATE_SNAPSHOT"

LEMMA StateMoved ==
  ASSUME NEW i, NEW e, StateSees(i, e)
  PROVE  StateMoves(e)
<1>1. ASSUME e.type \notin {"STATE_SNAPSHOT", "RUN_STARTED"}, ~ IsPatch(e),
             UNCHANGED <<stateInfo, anySnapshot>>
      PROVE  StateMoves(e)
  BY <1>1 DEF StateMoves, Try, stateInfo
<1>2. CASE StateEvent(e)
  <2>1. CASE StateSnapshot(e)
    BY <2>1 DEF StateSnapshot, StateMoves
  <2>2. CASE StateDelta(e) /\ PatchDelta(e)
    <3>1. IsPatch(e) /\ e.type \notin {"STATE_SNAPSHOT", "RUN_STARTED"}
      BY <2>2 DEF StateDelta, PatchDelta, IsPatch
    <3>2. known => value' = Try(value, e)
      BY <2>2, <3>1 DEF PatchDelta, Patched, Try
    <3>3. /\ UNCHANGED <<known, anySnapshot>>
          /\ deltasSinceSnapshot' = deltasSinceSnapshot + 1
      BY <2>2 DEF StateDelta, PatchDelta
    <3> QED BY <3>1, <3>2, <3>3 DEF StateMoves
  <2>3. CASE StateDelta(e) /\ NoPatchDelta(e)
    <3>1. ~ IsPatch(e) /\ e.type \notin {"STATE_SNAPSHOT", "RUN_STARTED"}
      BY <2>3, PatchesAssumption DEF StateDelta, NoPatchDelta, IsPatch
    <3> QED BY <1>1, <2>3, <3>1 DEF StateDelta, NoPatchDelta
  <2> QED BY <1>2, <2>1, <2>2, <2>3 DEF StateEvent, StateDelta
<1>3. CASE /\ StateElsewhere
           /\ e.type \in {"STEP_STARTED", "STEP_FINISHED", "REASONING_START", "REASONING_END",
                    "REASONING_MESSAGE_START", "REASONING_MESSAGE_CONTENT",
                    "REASONING_MESSAGE_END", "REASONING_MESSAGE_CHUNK", "SUBAGENT_STARTED",
                    "SUBAGENT_FINISHED", "SUBAGENT_ERROR", "OTHER", "UNJUDGED"}
  BY <1>1, <1>3 DEF StateElsewhere, IsPatch
<1>4. CASE StateNewRun /\ e = Mark("RUN_STARTED")
  <2>1. e.type = "RUN_STARTED"
    BY <1>4 DEF Mark
  <2> QED BY <1>4, <2>1 DEF StateNewRun, FreshState, StateMoves
<1>5. ASSUME NEW type \in TerminalTypes, StateEnds(type), e = Mark(type)
      PROVE  StateMoves(e)
  <2>1. e.type \notin {"STATE_SNAPSHOT", "RUN_STARTED", "STATE_DELTA"}
    BY <1>5 DEF Mark, TerminalTypes
  <2> QED BY <1>1, <1>5, <2>1 DEF StateEnds, IsPatch
<1>6. CASE StateFinalize /\ e = EndOfStreamMark
  <2>1. e.type \notin {"STATE_SNAPSHOT", "RUN_STARTED", "STATE_DELTA"}
    BY <1>6 DEF Mark, EndOfStreamMark
  <2> QED BY <1>1, <1>6, <2>1 DEF StateFinalize, IsPatch
<1> QED BY <1>2, <1>3, <1>4, <1>5, <1>6 DEF StateSees

LEMMA StateMirrorGrows ==
  ASSUME NEW n, NEW i, NEW e, Grows(n, i, e), StateMirrored(n), StateMoves(e)
  PROVE  StateMirrored(n + 1)'
<1>1. n \in Nat
  BY DEF Grows
<1>2. known' <=> Base(n + 1)' # {}
  BY BaseGrows DEF StateMirrored, StateMoves
<1>3. anySnapshot' <=> SnapshotsIn(1..n + 1)' # {}
  BY BaseGrows DEF StateMirrored, StateMoves
<1>4. deltasSinceSnapshot' = Cardinality(Since(n + 1)')
  <2>1. Since(n) \subseteq 1..n
    BY SinceGrows
  <2>2. Cardinality(Since(n) \cup {n + 1}) = Cardinality(Since(n)) + 1
    BY <1>1, <2>1, NthOfMore
  <2>3. CASE e.type \in {"STATE_SNAPSHOT", "RUN_STARTED"}
    <3>1. Since(n + 1)' = {}
      BY <2>3, SinceGrows
    <3> QED BY <2>3, <3>1, FS_EmptySet DEF StateMoves
  <2>4. CASE e.type \notin {"STATE_SNAPSHOT", "RUN_STARTED"} /\ IsPatch(e)
    <3>1. Since(n + 1)' = Since(n) \cup {n + 1}
      BY <2>4, SinceGrows
    <3> QED BY <2>2, <2>4, <3>1 DEF StateMirrored, StateMoves
  <2>5. CASE e.type \notin {"STATE_SNAPSHOT", "RUN_STARTED"} /\ ~ IsPatch(e)
    <3>1. Since(n + 1)' = Since(n)
      BY <2>5, SinceGrows
    <3> QED BY <2>5, <3>1 DEF StateMirrored, StateMoves
  <2> QED BY <2>3, <2>4, <2>5
<1>5. ASSUME NEW p \in Base(n + 1)'
      PROVE  IsReplay(Replayed(p, n + 1), p, n + 1)' /\ value' = Replayed(p, n + 1)'[n + 1]
  <2>1. CASE e.type = "STATE_SNAPSHOT"
    <3>1. p = n + 1
      BY <1>5, <2>1, BaseGrows
    <3> QED BY <2>1, <3>1, ReplayBegins DEF StateMoves
  <2>2. CASE e.type # "STATE_SNAPSHOT"
    <3>1. e.type # "RUN_STARTED" /\ p \in Base(n) /\ p \in 1..n
      BY <1>5, <2>2, BaseGrows
    <3>2. IsReplay(Replayed(p, n), p, n) /\ value = Replayed(p, n)[n] /\ known
      BY <3>1 DEF StateMirrored
    <3>3. /\ IsReplay(Replayed(p, n + 1), p, n + 1)'
          /\ Replayed(p, n + 1)'[n + 1] = Try(Replayed(p, n)[n], e)
      BY <3>1, <3>2, ReplayGrows
    <3> QED BY <2>2, <3>1, <3>2, <3>3 DEF StateMoves
  <2> QED BY <2>1, <2>2
<1> QED BY <1>2, <1>3, <1>4, <1>5 DEF StateMirrored


\* The document of the stream, seen from the next state, is the one the engine holds.
LEMMA StateReplayed ==
  ASSUME NEW n, NEW i, NEW e, Grows(n, i, e), StateMirrored(n)
  PROVE  Replay(n)' = IF known THEN {value} ELSE {}
<1>1. Base(n) \subseteq 1..n /\ Base(n)' = Base(n)
  BY BaseGrows
<1>2. ASSUME NEW p \in Base(n) PROVE Replayed(p, n)'[n] = value
  BY <1>1, ReplayGrows DEF StateMirrored
<1>3. Replay(n)' = {Replayed(p, n)'[n] : p \in Base(n)}
  BY <1>1 DEF Replay
<1>4. PICK R : R = Replay(n)'
  OBVIOUS
<1>5. CASE Base(n) = {}
  <2>1. R = {}
    BY <1>3, <1>4, <1>5
  <2> QED BY <1>4, <1>5, <2>1 DEF StateMirrored
<1>6. CASE Base(n) # {}
  <2>1. R = {value}
    BY <1>2, <1>3, <1>4, <1>6
  <2> QED BY <1>4, <1>6, <2>1 DEF StateMirrored
<1> QED BY <1>5, <1>6

\* A patch is groundless for the stream exactly when it is unfounded for the engine.
LEMMA StateGrounds ==
  ASSUME StateTypeOK, StateIsFounded, NEW n, NEW i, NEW e, Grows(n, i, e),
         StateMirrored(n), IsPatch(e)
  PROVE  Groundless(n + 1)' <=> Unfounded
<1>1. n \in Nat
  BY DEF Grows
<1>2. e.type \notin {"STATE_SNAPSHOT", "RUN_STARTED"}
  BY DEF IsPatch
<1>3. Base(n + 1)' = Base(n)
  BY <1>2, BaseGrows
<1>4. Since(n + 1)' = Since(n) \cup {n + 1} /\ Since(n) \subseteq 1..n
  BY SinceGrows
<1>5. Since(n + 1)' = {n + 1} <=> Since(n) = {}
  BY <1>1, <1>4
<1>6. Since(n) = {} <=> deltasSinceSnapshot = 0
  <2>1. IsFiniteSet(Since(n))
    BY <1>1, <1>4, FS_Interval, FS_Subset
  <2> QED BY <2>1, FS_EmptySet DEF StateMirrored
<1>7. Base(n) = {} <=> ~ known
  BY DEF StateMirrored
<1>8. Groundless(n + 1)' <=> Base(n + 1)' = {} /\ Since(n + 1)' = {n + 1}
  BY DEF Groundless
<1>9. /\ known = snapshotSeen
      /\ ~ snapshotSeen => (agui301Fired <=> deltasSinceSnapshot # 0)
  BY DEF StateIsFounded, StateTypeOK
<1> QED BY <1>3, <1>5, <1>6, <1>7, <1>8, <1>9 DEF Unfounded, StateTypeOK

LEMMA StateToldExactly ==
  ASSUME StateTypeOK, StateIsFounded, NEW n, NEW i, NEW e, Grows(n, i, e), StateSees(i, e),
         StateMirrored(n)
  PROVE  stateFound' = StateDeserved(n + 1)'
<1>1. n \in Nat /\ log'[n + 1].at = i /\ log'[n + 1].event = e /\ (n + 1) - 1 = n
  BY DEF Grows
<1>2. Cardinality(Since(n)') = deltasSinceSnapshot
  <2>1. Since(n)' = Since(n)
    BY SinceGrows
  <2> QED BY <2>1 DEF StateMirrored
<1>3. StateDeserved(n + 1)' =
        CASE e.type = "STATE_SNAPSHOT" ->
               IF deltasSinceSnapshot > 0
               THEN {Finding("AGUI304", i, deltasSinceSnapshot, None)} ELSE {}
          [] IsPatch(e) ->
               (IF Groundless(n + 1)' THEN {Finding("AGUI301", i, None, None)} ELSE {})
               \cup (IF Refused(n + 1)' THEN {Finding("AGUI302", i, None, None)} ELSE {})
          [] e.type = "STATE_DELTA" /\ e.delta \notin Patches ->
               IF e.delta = "BAD_SHAPE" THEN {Finding("AGUI303", i, None, None)} ELSE {}
          [] e.type \in {"END_OF_STREAM", "END_AFTER_RUN"} ->
               IF DeclaresSharedState /\ SnapshotsIn(1..n + 1)' = {}
               THEN {Finding("AGUI305", i, None, None)} ELSE {}
          [] OTHER -> {}
  BY <1>1, <1>2 DEF StateDeserved, Note, IsPatch, Finding
<1>4. CASE i = eventCount /\ e \in StateInputs /\ StateEvent(e)
  <2>1. CASE StateSnapshot(e)
    BY <1>3, <1>4, <2>1 DEF StateSnapshot, StateReport, IsPatch
  <2>2. CASE StateDelta(e) /\ PatchDelta(e)
    <3>1. IsPatch(e) /\ e.type # "STATE_SNAPSHOT"
      BY <2>2 DEF StateDelta, PatchDelta, IsPatch
    <3>2. Groundless(n + 1)' <=> Unfounded
      BY <3>1, StateGrounds
    <3>3. PICK a : a = Applied[value, e.delta]
      OBVIOUS
    <3>4. Refused(n + 1)' <=> known /\ a = None
      <4>1. PICK R : R = Replay(n)'
        OBVIOUS
      <4>2. R = IF known THEN {value} ELSE {}
        BY <4>1, StateReplayed
      <4>3. Refused(n + 1)' <=> \E d \in R : Applied[d, e.delta] = None
        BY <1>1, <4>1 DEF Refused
      <4>4. CASE known
        BY <3>3, <4>2, <4>3, <4>4
      <4>5. CASE ~ known
        BY <3>3, <4>2, <4>3, <4>5
      <4> QED BY <4>4, <4>5
    <3>5. stateFound' = (IF Unfounded THEN StateReport("AGUI301", None) ELSE {})
                        \cup (IF known /\ a = None THEN StateReport("AGUI302", None) ELSE {})
      BY <2>2, <3>3 DEF PatchDelta
    <3>6. StateDeserved(n + 1)' =
            (IF Groundless(n + 1)' THEN {Finding("AGUI301", i, None, None)} ELSE {})
            \cup (IF Refused(n + 1)' THEN {Finding("AGUI302", i, None, None)} ELSE {})
      BY <1>3, <3>1 DEF IsPatch
    <3> QED BY <1>4, <3>2, <3>4, <3>5, <3>6 DEF StateReport
  <2>3. CASE StateDelta(e) /\ NoPatchDelta(e)
    <3>1. e.type = "STATE_DELTA" /\ e.delta \notin Patches
      BY <2>3, PatchesAssumption DEF StateDelta, NoPatchDelta
    <3>2. StateDeserved(n + 1)' =
            IF e.delta = "BAD_SHAPE" THEN {Finding("AGUI303", i, None, None)} ELSE {}
      BY <1>3, <3>1 DEF IsPatch
    <3> QED BY <1>4, <2>3, <3>2 DEF NoPatchDelta, StateReport
  <2> QED BY <1>4, <2>1, <2>2, <2>3 DEF StateEvent, StateDelta
<1>5. ASSUME stateFound' = {},
             e.type \notin {"STATE_SNAPSHOT", "STATE_DELTA", "END_OF_STREAM", "END_AFTER_RUN"}
      PROVE  stateFound' = StateDeserved(n + 1)'
  BY <1>3, <1>5 DEF IsPatch
<1>6. CASE /\ StateElsewhere
           /\ e.type \in {"STEP_STARTED", "STEP_FINISHED", "REASONING_START", "REASONING_END",
                    "REASONING_MESSAGE_START", "REASONING_MESSAGE_CONTENT",
                    "REASONING_MESSAGE_END", "REASONING_MESSAGE_CHUNK", "SUBAGENT_STARTED",
                    "SUBAGENT_FINISHED", "SUBAGENT_ERROR", "OTHER", "UNJUDGED"}
  BY <1>5, <1>6 DEF StateElsewhere
<1>7. CASE StateNewRun /\ e = Mark("RUN_STARTED")
  BY <1>5, <1>7 DEF StateNewRun, Mark
<1>8. ASSUME NEW type \in TerminalTypes, StateEnds(type), e = Mark(type)
      PROVE  stateFound' = StateDeserved(n + 1)'
  BY <1>5, <1>8 DEF StateEnds, Mark, TerminalTypes
<1>9. CASE i = AtEndOfStream /\ StateFinalize /\ e = EndOfStreamMark
  <2>1. e.type \in {"END_OF_STREAM", "END_AFTER_RUN"}
    BY <1>9 DEF EndOfStreamMark, Mark
  <2>2. SnapshotsIn(1..n + 1)' = {} <=> ~ anySnapshot
    <3>1. SnapshotsIn(1..n + 1)' = SnapshotsIn(1..n)
      BY <2>1, BaseGrows
    <3> QED BY <3>1 DEF StateMirrored
  <2>3. StateDeserved(n + 1)' =
          IF DeclaresSharedState /\ SnapshotsIn(1..n + 1)' = {}
          THEN {Finding("AGUI305", i, None, None)} ELSE {}
    BY <1>3, <2>1 DEF IsPatch
  <2> QED BY <1>9, <2>2, <2>3 DEF StateFinalize
<1> QED BY <1>4, <1>6, <1>7, <1>8, <1>9 DEF StateSees

\* The mirror holds in every stream, and every input is reported as it deserves.
StateHistoryInv == StateMirrored(Len(log)) /\ StateFindingsExact

LEMMA StateHistoryInvariant == HistorySpec => []StateHistoryInv
<1>1. HistoryInit => StateHistoryInv
  <2> SUFFICES ASSUME HistoryInit PROVE StateHistoryInv
    OBVIOUS
  <2>1. log = <<>> /\ Len(log) = 0
    BY DEF HistoryInit
  <2>2. RunPositions(0) = {} /\ SnapshotsIn(1..0) = {}
    BY DEF RunPositions, SnapshotsIn
  <2>3. Base(0) = {} /\ Since(0) = {}
    BY <2>2 DEF Base, Since, SnapshotsIn, Latest
  <2>4. ~ known /\ ~ anySnapshot /\ deltasSinceSnapshot = 0
    BY DEF HistoryInit, StateInit
  <2> QED BY <2>1, <2>2, <2>3, <2>4, FS_EmptySet
          DEF StateHistoryInv, StateMirrored, StateFindingsExact
<1>2. StreamTypeInv /\ StateInv /\ StateHistoryInv /\ [HistoryNext]_historyVars =>
        StateHistoryInv'
  <2> SUFFICES ASSUME StreamTypeInv, StateInv, StateHistoryInv, [HistoryNext]_historyVars
               PROVE  StateHistoryInv'
    OBVIOUS
  <2>1. CASE UNCHANGED historyVars
    <3>1. UNCHANGED <<log, known, value, deltasSinceSnapshot, anySnapshot, stateFound>>
      BY <2>1 DEF historyVars, stateVars, stateInfo
    <3>2. ASSUME NEW n
          PROVE  /\ Base(n)' = Base(n) /\ Since(n)' = Since(n)
                 /\ SnapshotsIn(1..n)' = SnapshotsIn(1..n)
      BY <3>1 DEF Base, Since, SnapshotsIn, RunPositions, TypeAt, Latest, IsPatch
    <3>3. ASSUME NEW p, NEW n
          PROVE  /\ Replayed(p, n)' = Replayed(p, n)
                 /\ IsReplay(Replayed(p, n), p, n)' <=> IsReplay(Replayed(p, n), p, n)
      BY <3>1 DEF Replayed, IsReplay
    <3>4. ASSUME NEW n PROVE Replay(n)' = Replay(n)
      BY <3>2, <3>3 DEF Replay
    <3>5. StateMirrored(Len(log))'
      BY <3>1, <3>2, <3>3 DEF StateHistoryInv, StateMirrored
    <3>6. ASSUME NEW n
          PROVE  /\ Groundless(n)' <=> Groundless(n)
                 /\ Refused(n)' <=> Refused(n)
      BY <3>1, <3>2, <3>4 DEF Groundless, Refused
    <3>7. ASSUME NEW n PROVE StateDeserved(n)' = StateDeserved(n)
      <4>1. PICK e, i, d : /\ e = log[n].event /\ i = log[n].at
                           /\ d = Cardinality(Since(n - 1))
        OBVIOUS
      <4>2. /\ log'[n].event = e /\ log'[n].at = i
            /\ Cardinality(Since(n - 1)') = d
        BY <3>1, <3>2, <4>1
      <4>3. CASE e.type = "STATE_SNAPSHOT"
        BY <4>1, <4>2, <4>3 DEF StateDeserved, Note, IsPatch
      <4>4. CASE IsPatch(e)
        BY <3>6, <4>1, <4>2, <4>4 DEF StateDeserved, Note, IsPatch
      <4>5. CASE e.type = "STATE_DELTA" /\ ~ IsPatch(e)
        BY <4>1, <4>2, <4>5 DEF StateDeserved, Note, IsPatch
      <4>6. CASE e.type \notin {"STATE_SNAPSHOT", "STATE_DELTA"}
        BY <3>2, <4>1, <4>2, <4>6 DEF StateDeserved, Note, IsPatch
      <4> QED BY <4>3, <4>4, <4>5, <4>6
    <3> QED BY <3>1, <3>5, <3>7 DEF StateHistoryInv, StateFindingsExact
  <2>2. CASE HistoryNext
    <3>1. StreamInv
      BY DEF StreamTypeInv
    <3>2. PICK i, e : Logs(i, e) /\ StateSees(i, e)
      BY <2>2, <3>1, StateView
    <3>3. PICK n : Grows(n, i, e)
      BY <3>1, <3>2, NextEntry DEF StreamInv
    <3>4. Len(log) = n /\ Len(log') = n + 1
      BY <3>3 DEF Grows
    <3>5. StateMirrored(n)
      BY <3>4 DEF StateHistoryInv
    <3>6. StateMirrored(n + 1)'
      BY <3>2, <3>3, <3>5, StateMoved, StateMirrorGrows
    <3>7. stateFound' = StateDeserved(n + 1)'
      BY <3>2, <3>3, <3>5, StateToldExactly DEF StateInv
    <3> QED BY <3>4, <3>6, <3>7 DEF StateHistoryInv, StateFindingsExact
  <2> QED BY <2>1, <2>2
<1> QED BY <1>1, <1>2, StreamTypes, RunImplementsComponents, StateInvariant, PTL
        DEF HistorySpec

\* For any stream, any documents and patches and any bound, the rules of the shared
\* state report every input exactly as the stream up to it deserves.
THEOREM StateExact == HistorySpec => []StateFindingsExact
<1>1. StateHistoryInv => StateFindingsExact
  BY DEF StateHistoryInv
<1> QED BY <1>1, StateHistoryInvariant, PTL

\* For any stream, the engine holds the document the stream describes: the last
\* snapshot of the run with the patches since then.
THEOREM StateValueTold == HistorySpec => []StateValueExact
<1>1. StateHistoryInv => StateValueExact
  <2> SUFFICES ASSUME StateHistoryInv PROVE StateValueExact
    OBVIOUS
  <2>1. Replay(Len(log)) = {value : p \in Base(Len(log))}
    BY DEF StateHistoryInv, StateMirrored, Replay
  <2>2. known <=> Base(Len(log)) # {}
    BY DEF StateHistoryInv, StateMirrored
  <2> QED BY <2>1, <2>2 DEF StateValueExact
<1> QED BY <1>1, StateHistoryInvariant, PTL

=============================================================================
