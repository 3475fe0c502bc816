------------------------------ MODULE RunScope ------------------------------
(***************************************************************************)
(* The part of the engine every rule component sees (engine.py): the       *)
(* position in the stream, whether the current run has reached a terminal  *)
(* event, and whether finalize() ran.  A component sees an input in one of *)
(* the ways listed below; the Validator module decides which input is      *)
(* which.                                                                  *)
(***************************************************************************)
EXTENDS Integers, FiniteSets, Dicts

CONSTANTS
  None,       \* Python's None: a field that is absent or not a string
  Owners,     \* subagent ids that may tag an event; None stands for the run
  MaxEvents   \* bound: number of inputs fed in one behaviour

ASSUME MaxEventsAssumption == MaxEvents \in Nat
ASSUME OwnersAssumption == None \notin Owners

VARIABLES
  eventCount,   \* StreamState.event_count
  terminal,     \* RunState.terminal: None or the terminal event
  finalized     \* Validator._finalized

scopeVars == <<eventCount, terminal, finalized>>

TerminalTypes == {"RUN_FINISHED", "RUN_ERROR"}

ASSUME NoTerminalAssumption == None \notin [type : TerminalTypes, index : Nat]

ScopeTypeOK ==
  /\ eventCount \in Nat
  /\ terminal \in [type : TerminalTypes, index : Nat] \cup {None}
  /\ finalized \in BOOLEAN

ScopeInit == eventCount = 0 /\ terminal = None /\ finalized = FALSE

\* The event index given to what finalize() reports.
AtEndOfStream == -1

Indices == Nat \cup {AtEndOfStream}

Tags == Owners \cup {None}

-----------------------------------------------------------------------------
\* feed() numbers every input, judged or not.
Fed ==
  /\ eventCount < MaxEvents
  /\ eventCount' = eventCount + 1
  /\ UNCHANGED finalized

\* An event of a known type while the run is open: it reaches _close_chunks
\* and the handler of its category, or it is a RUN_STARTED of the open run.
Judged == Fed /\ terminal = None /\ UNCHANGED terminal

\* An input that leaves the run state alone: malformed, untyped, of an
\* unknown type, or anything but RUN_STARTED after the terminal event.
Unjudged == Fed /\ UNCHANGED terminal

\* RUN_STARTED after a terminal event opens a fresh RunState.
NewRun == Fed /\ terminal # None /\ terminal' = None

\* RUN_FINISHED or RUN_ERROR of the open run.
Ends(type) ==
  /\ Fed
  /\ terminal = None
  /\ terminal' = [type |-> type, index |-> eventCount]

\* The step belongs to the run that was current before it.
SameRun == terminal # None => terminal' # None

Finalizes ==
  /\ ~finalized
  /\ finalized' = TRUE
  /\ UNCHANGED <<eventCount, terminal>>

-----------------------------------------------------------------------------
\* A diagnostic: the rule, the event it is about, the entity it names and the
\* related event (relatedEventIndex), None when there is none.
Finding(rule, at, id, related) ==
  [rule |-> rule, at |-> at, id |-> id, related |-> related]

\* AGUI606: an event that tags itself must name the owner of its entity.
OwnerFindings(at, id, tag, owner) ==
  IF tag # None /\ tag # owner THEN {Finding("AGUI606", at, id, None)} ELSE {}

=============================================================================
