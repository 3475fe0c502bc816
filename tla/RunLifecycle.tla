---------------------------- MODULE RunLifecycle ----------------------------
(***************************************************************************)
(* The run scopes of one stream (engine.py, lifecycle.py): where a run     *)
(* starts and ends, the implicit run of a stream that never announced one, *)
(* what may follow a terminal event, and rules AGUI001 to AGUI005,         *)
(* AGUI008, AGUI502, AGUI503 and AGUI901 to AGUI903.                       *)
(***************************************************************************)
EXTENDS RunScope

CONSTANTS
  RunIds,
  ThreadIds,
  StreamInputs   \* bound: the inputs a producer may send

\* Inputs the engine turns away before any rule of the run sees them: text that
\* is not a JSON object, an object with no type, an event of an unknown type.
UnreadableInputs == [type : {"MALFORMED", "UNTYPED"}]
UnknownEvents == [type : {"UNKNOWN"}, timestamp : {None, "number", "other"}]

RunEvents ==
  [type : {"RUN_STARTED", "RUN_FINISHED"}, runId : RunIds \cup {None},
   threadId : ThreadIds \cup {None}, timestamp : {None, "number", "other"}]
  \cup [type : {"RUN_ERROR", "EVENT"}, timestamp : {None, "number", "other"}]

\* RAW that wraps a typed event, CUSTOM with a bare name: noted, not refused.
NotedEvents == [type : {"RAW", "CUSTOM"}, timestamp : {None, "number", "other"},
                noted : BOOLEAN]

\* The current run, as these rules see it.
Runs == [runId : RunIds \cup {None}, threadId : ThreadIds \cup {None},
         start : Nat, implicit : BOOLEAN]

ASSUME RunIdsAssumption == None \notin RunIds \cup ThreadIds
ASSUME NoRunAssumption == None \notin Runs
ASSUME StreamInputsAssumption ==
  StreamInputs \subseteq UnreadableInputs \cup UnknownEvents \cup RunEvents \cup NotedEvents

VARIABLES
  run,              \* None before the first run
  agui001Fired,     \* StreamState.agui001_fired
  sawTimestamp,     \* StreamState.saw_timestamp
  lifecycleFound    \* diagnostics of these rules for the last input

lifecycleVars == <<scopeVars, run, agui001Fired, sawTimestamp, lifecycleFound>>

LifecycleFindings ==
  [rule : {"AGUI001", "AGUI002", "AGUI003", "AGUI004", "AGUI005", "AGUI008", "AGUI502",
           "AGUI503", "AGUI504", "AGUI901", "AGUI902", "AGUI903"},
   at : Indices, id : {None, "type", "timestamp", "runId", "threadId"},
   related : Nat \cup {None}]

RunTypeOK ==
  /\ ScopeTypeOK
  /\ run \in Runs \cup {None}
  /\ agui001Fired \in BOOLEAN
  /\ sawTimestamp \in BOOLEAN
  /\ lifecycleFound \subseteq LifecycleFindings

LifecycleInit ==
  /\ ScopeInit
  /\ run = None
  /\ agui001Fired = FALSE
  /\ sawTimestamp = FALSE
  /\ lifecycleFound = {}

-----------------------------------------------------------------------------
Note(rule, id, related) == {Finding(rule, eventCount, id, related)}

\* AGUI504 for the fields these rules read: a timestamp that is no number, an id
\* that is missing or no string.
SchemaFindings(e) ==
  (IF e.timestamp = "other" THEN Note("AGUI504", "timestamp", None) ELSE {})
  \cup
  (IF e.type \notin {"RUN_STARTED", "RUN_FINISHED"} THEN {}
   ELSE UNION {IF e[field] = None THEN Note("AGUI504", field, None) ELSE {} :
               field \in {"runId", "threadId"}})

Observes(e) == sawTimestamp' = (sawTimestamp \/ e.timestamp = "number")

Unreadable(e) ==
  /\ e.type \in {"MALFORMED", "UNTYPED"}
  /\ Unjudged
  /\ lifecycleFound' = IF e.type = "MALFORMED" THEN Note("AGUI502", None, None)
                       ELSE Note("AGUI504", "type", None)
  /\ UNCHANGED <<run, agui001Fired, sawTimestamp>>

UnknownType(e) ==
  /\ e.type = "UNKNOWN"
  /\ Unjudged
  /\ Observes(e)
  /\ lifecycleFound' = SchemaFindings(e) \cup Note("AGUI503", None, None)
  /\ UNCHANGED <<run, agui001Fired>>

-----------------------------------------------------------------------------
Announced(e) ==
  [runId |-> e.runId, threadId |-> e.threadId, start |-> eventCount, implicit |-> FALSE]

\* Mutant: a late RUN_STARTED becomes the start of the implicit run.
LegitimizedAnew(e) == Announced(e)

\* The late start of an implicit run names it; its first event stays its start.
Legitimized(e) ==
  [run EXCEPT !.runId = e.runId, !.threadId = e.threadId, !.implicit = FALSE]

RunStarted(e) ==
  /\ e.type = "RUN_STARTED"
  /\ Observes(e)
  /\ UNCHANGED agui001Fired
  /\ \/ /\ run = None
        /\ Judged
        /\ run' = Announced(e)
        /\ lifecycleFound' = SchemaFindings(e)
     \/ /\ run # None
        /\ NewRun
        /\ run' = Announced(e)
        /\ lifecycleFound' = SchemaFindings(e)
     \/ /\ run # None
        /\ run.implicit
        /\ Judged
        /\ run' = Legitimized(e)
        /\ lifecycleFound' = SchemaFindings(e)
     \/ /\ run # None
        /\ ~run.implicit
        /\ Judged
        /\ lifecycleFound' = SchemaFindings(e) \cup Note("AGUI002", None, run.start)
        /\ UNCHANGED run

\* Mutants: the implicit run starts nowhere, or at the event after its first.
ImplicitRunAt(start) ==
  /\ run' = IF run # None THEN run
            ELSE [runId |-> None, threadId |-> None, start |-> start, implicit |-> TRUE]
  /\ agui001Fired' = (agui001Fired \/ run = None)
EnsuresRunNowhere == ImplicitRunAt(AtEndOfStream)
EnsuresRunLate == ImplicitRunAt(eventCount + 1)

\* _ensure_run: any other known event opens the implicit run if there is none,
\* which is reported once.
EnsuresRun ==
  /\ run' = IF run # None THEN run
            ELSE [runId |-> None, threadId |-> None, start |-> eventCount, implicit |-> TRUE]
  /\ agui001Fired' = (agui001Fired \/ run = None)

OpeningFindings ==
  IF run = None /\ ~agui001Fired THEN Note("AGUI001", None, None) ELSE {}

\* Mutant: an id the run never had is compared as well.
UnstableNeverNamed(e) ==
  UNION {IF e[field] \notin {None, run'[field]}
         THEN Note("AGUI008", field, run'.start) ELSE {} : field \in {"runId", "threadId"}}

\* AGUI008: RUN_FINISHED repeats the ids its RUN_STARTED gave; ids missing from
\* either are not compared, nor those of an implicit run.
UnstableIds(e) ==
  UNION {IF None # e[field] /\ run'[field] \notin {None, e[field]} /\ ~run'.implicit
         THEN Note("AGUI008", field, run'.start) ELSE {} : field \in {"runId", "threadId"}}

RunEnds(e) ==
  /\ e.type \in TerminalTypes
  /\ Ends(e.type)
  /\ Observes(e)
  /\ EnsuresRun
  /\ lifecycleFound' = SchemaFindings(e) \cup OpeningFindings
                       \cup IF e.type = "RUN_FINISHED" THEN UnstableIds(e) ELSE {}

\* AGUI901 and AGUI903 speak of events that are allowed.
Advice(e) ==
  IF e.type = "EVENT" \/ ~e.noted THEN {}
  ELSE Note(IF e.type = "RAW" THEN "AGUI901" ELSE "AGUI903", None, None)

OrdinaryEvent(e) ==
  /\ e.type \in {"EVENT", "RAW", "CUSTOM"}
  /\ Judged
  /\ Observes(e)
  /\ EnsuresRun
  /\ lifecycleFound' = SchemaFindings(e) \cup OpeningFindings \cup Advice(e)

AfterTerminal(e) ==
  /\ e.type \in TerminalTypes \cup {"EVENT", "RAW", "CUSTOM"}
  /\ terminal # None
  /\ Unjudged
  /\ Observes(e)
  /\ lifecycleFound' =
       SchemaFindings(e)
       \cup Note(IF e.type \in TerminalTypes \ {terminal.type} THEN "AGUI005" ELSE "AGUI004",
                 None, terminal.index)
  /\ UNCHANGED <<run, agui001Fired>>

UnterminatedRun ==
  IF run # None /\ terminal = None
  THEN {Finding("AGUI003", AtEndOfStream, None, run.start)} ELSE {}

LifecycleFinalize ==
  /\ Finalizes
  /\ lifecycleFound' =
       UnterminatedRun
       \cup IF eventCount > 0 /\ ~sawTimestamp
            THEN {Finding("AGUI902", AtEndOfStream, None, None)} ELSE {}
  /\ UNCHANGED <<run, agui001Fired, sawTimestamp>>

StreamInput(e) ==
  \/ Unreadable(e)
  \/ UnknownType(e)
  \/ RunStarted(e)
  \/ RunEnds(e)
  \/ OrdinaryEvent(e)
  \/ AfterTerminal(e)

LifecycleNext ==
  \/ \E e \in StreamInputs : StreamInput(e)
  \/ LifecycleFinalize

LifecycleSpec == LifecycleInit /\ [][LifecycleNext]_lifecycleVars

-----------------------------------------------------------------------------
\* A run keeps the event that began it until the next run, and once announced it
\* keeps its ids: a duplicate RUN_STARTED, or one after the late start of an
\* implicit run, renames nothing (engine.py: the duplicate is reported and the
\* active run goes on).
KeepsItsName ==
  /\ run'.start = run.start
  /\ ~run.implicit => run' = run

RunKeepsItsName == [][ run # None /\ SameRun => KeepsItsName ]_lifecycleVars

\* A terminal event belongs to a run that began no later than it, a run begins at
\* an event that was fed, and an implicit run was reported (AGUI001), so that the
\* related event of a lifecycle diagnostic is one the reader can look up.
TerminalFollowsStart ==
  /\ terminal # None => run # None /\ run.start <= terminal.index
  /\ run # None => run.start < eventCount
  /\ run # None /\ run.implicit => agui001Fired

=============================================================================
