---------------------------- MODULE SharedState ----------------------------
(***************************************************************************)
(* The shared state of one run (rules/checks/state.py): the document that  *)
(* STATE_SNAPSHOT establishes and STATE_DELTA patches, and rules AGUI301   *)
(* to AGUI305.                                                             *)
(*                                                                         *)
(* A patch is what it does to each document: Applied says what apply_patch *)
(* returns, None when it refuses the patch.                                *)
(***************************************************************************)
EXTENDS RunScope

CONSTANTS
  Documents,             \* JSON values, among them the null of a missing snapshot
  Patches,               \* well-shaped patch documents
  Applied,               \* <<document, patch>> -> document, or None
  DeclaresSharedState,   \* "shared-state" is in ValidatorOptions.features
  StateInputs            \* bound: the state events a producer may send

\* A delta that is no patch: not an array; an array validate_patch_shape turns
\* down; an array whose "op" is a list or an object, on which it raises.
NotPatches == {"NOT_ARRAY", "BAD_SHAPE", "UNHASHABLE_OP"}

StateEvents ==
  [type : {"STATE_SNAPSHOT"}, snapshot : Documents]
  \cup [type : {"STATE_DELTA"}, delta : Patches \cup NotPatches]

ASSUME DocumentsAssumption == None \notin Documents
ASSUME PatchesAssumption == Patches \cap NotPatches = {}
ASSUME AppliedAssumption == Applied \in [Documents \X Patches -> Documents \cup {None}]
ASSUME DeclaresAssumption == DeclaresSharedState \in BOOLEAN
ASSUME StateInputsAssumption == StateInputs \subseteq StateEvents

VARIABLES
  known,                 \* StateInfo.known
  value,                 \* StateInfo.value, None before it is known
  snapshotSeen,          \* StateInfo.snapshot_seen
  deltasSinceSnapshot,   \* StateInfo.deltas_since_snapshot
  agui301Fired,          \* StateInfo.agui301_fired
  anySnapshot,           \* StreamState.any_snapshot
  internalErrors,        \* length of Validator._internal_errors
  stateFound             \* diagnostics of these rules for the last input

stateInfo == <<known, value, snapshotSeen, deltasSinceSnapshot, agui301Fired>>
stateVars == <<scopeVars, stateInfo, anySnapshot, internalErrors, stateFound>>

StateFindings ==
  [rule : {"AGUI301", "AGUI302", "AGUI303", "AGUI304", "AGUI305"}, at : Indices,
   id : Nat \cup {None}, related : {None}]

StateTypeOK ==
  /\ ScopeTypeOK
  /\ known \in BOOLEAN
  /\ value \in IF known THEN Documents ELSE {None}
  /\ snapshotSeen \in BOOLEAN
  /\ deltasSinceSnapshot \in Nat
  /\ agui301Fired \in BOOLEAN
  /\ anySnapshot \in BOOLEAN
  /\ internalErrors \in Nat
  /\ stateFound \subseteq StateFindings

\* Mutant: the count of deltas goes on in the next run.
FreshStateKeepsCount ==
  /\ known' = FALSE
  /\ value' = None
  /\ snapshotSeen' = FALSE
  /\ agui301Fired' = FALSE
  /\ UNCHANGED deltasSinceSnapshot

FreshState ==
  /\ known' = FALSE
  /\ value' = None
  /\ snapshotSeen' = FALSE
  /\ deltasSinceSnapshot' = 0
  /\ agui301Fired' = FALSE

StateInit ==
  /\ ScopeInit
  /\ known = FALSE
  /\ value = None
  /\ snapshotSeen = FALSE
  /\ deltasSinceSnapshot = 0
  /\ agui301Fired = FALSE
  /\ anySnapshot = FALSE
  /\ internalErrors = 0
  /\ stateFound = {}

-----------------------------------------------------------------------------
StateReport(rule, id) == {Finding(rule, eventCount, id, None)}

\* Mutant: the count of deltas goes on across snapshots.
SnapshotKeepsCount(e) ==
  /\ e.type = "STATE_SNAPSHOT"
  /\ Judged
  /\ stateFound' = IF deltasSinceSnapshot > 0
                   THEN StateReport("AGUI304", deltasSinceSnapshot) ELSE {}
  /\ known' = TRUE
  /\ value' = e.snapshot
  /\ snapshotSeen' = TRUE
  /\ anySnapshot' = TRUE
  /\ UNCHANGED <<deltasSinceSnapshot, agui301Fired, internalErrors>>

StateSnapshot(e) ==
  /\ e.type = "STATE_SNAPSHOT"
  /\ Judged
  /\ stateFound' = IF deltasSinceSnapshot > 0
                   THEN StateReport("AGUI304", deltasSinceSnapshot) ELSE {}
  /\ known' = TRUE
  /\ value' = e.snapshot
  /\ snapshotSeen' = TRUE
  /\ deltasSinceSnapshot' = 0
  /\ anySnapshot' = TRUE
  /\ UNCHANGED <<agui301Fired, internalErrors>>

\* The document after the patch: a patch that is refused changes nothing.
Patched(patch) ==
  IF known /\ Applied[value, patch] # None THEN Applied[value, patch] ELSE value

\* AGUI301, once in a run: the base of the patch was never seen.
Unfounded == ~snapshotSeen /\ ~agui301Fired

PatchDelta(e) ==
  /\ e.delta \in Patches
  /\ value' = Patched(e.delta)
  /\ deltasSinceSnapshot' = deltasSinceSnapshot + 1
  /\ agui301Fired' = (agui301Fired \/ Unfounded)
  /\ stateFound' =
       (IF Unfounded THEN StateReport("AGUI301", None) ELSE {})
       \cup IF known /\ Applied[value, e.delta] = None
            THEN StateReport("AGUI302", None) ELSE {}
  /\ UNCHANGED <<known, snapshotSeen, internalErrors>>

\* An exception in the handler is kept for the report and the event judged no
\* further: what the handler would have reported is lost.
NoPatchDelta(e) ==
  /\ e.delta \in NotPatches
  /\ stateFound' = IF e.delta = "BAD_SHAPE" THEN StateReport("AGUI303", None) ELSE {}
  /\ internalErrors' = internalErrors + (IF e.delta = "UNHASHABLE_OP" THEN 1 ELSE 0)
  /\ UNCHANGED stateInfo

StateDelta(e) ==
  /\ e.type = "STATE_DELTA"
  /\ Judged
  /\ PatchDelta(e) \/ NoPatchDelta(e)
  /\ UNCHANGED anySnapshot

StateEvent(e) == StateSnapshot(e) \/ StateDelta(e)

-----------------------------------------------------------------------------
\* Inputs of the other components, judged or not.
StateElsewhere ==
  /\ Unjudged
  /\ stateFound' = {}
  /\ UNCHANGED <<stateInfo, anySnapshot, internalErrors>>

\* Mutant: the state of the run that ended is the base of the next run's deltas.
InheritsState ==
  /\ NewRun
  /\ stateFound' = {}
  /\ UNCHANGED <<stateInfo, anySnapshot, internalErrors>>

StateNewRun ==
  /\ NewRun
  /\ FreshState
  /\ stateFound' = {}
  /\ UNCHANGED <<anySnapshot, internalErrors>>

StateEnds(type) ==
  /\ Ends(type)
  /\ stateFound' = {}
  /\ UNCHANGED <<stateInfo, anySnapshot, internalErrors>>

\* AGUI305 is asked of the stream, not of its last run.
StateFinalize ==
  /\ Finalizes
  /\ stateFound' = IF DeclaresSharedState /\ ~anySnapshot
                   THEN {Finding("AGUI305", AtEndOfStream, None, None)} ELSE {}
  /\ UNCHANGED <<stateInfo, anySnapshot, internalErrors>>

StateNext ==
  \/ \E e \in StateInputs : StateEvent(e)
  \/ StateElsewhere
  \/ StateNewRun
  \/ \E type \in TerminalTypes : StateEnds(type)
  \/ StateFinalize

StateSpec == StateInit /\ [][StateNext]_stateVars

-----------------------------------------------------------------------------
\* A run judges patches on a document exactly when it saw a snapshot, a run that
\* saw one has been seen by the stream, and a run that reported AGUI301 had
\* received a delta it could not judge.
StateIsFounded ==
  /\ known = snapshotSeen
  /\ snapshotSeen => anySnapshot
  /\ agui301Fired /\ ~snapshotSeen => deltasSinceSnapshot > 0
  /\ ~agui301Fired /\ ~snapshotSeen => deltasSinceSnapshot = 0

=============================================================================
