----------------------------- MODULE Subagents -----------------------------
(***************************************************************************)
(* Subagents of one run (rules/checks/subagents.py): started, finished,    *)
(* suspended and resumed by id, rules AGUI601 to AGUI605.                  *)
(***************************************************************************)
EXTENDS RunScope

CONSTANT SubagentInputs   \* bound: the subagent events a producer may send

SubagentIds == Owners

SubagentEvents ==
  [type : {"SUBAGENT_STARTED"}, subagentRunId : SubagentIds \cup {None},
   parentSubagentRunId : SubagentIds \cup {None}]
  \cup
  [type : {"SUBAGENT_FINISHED"}, subagentRunId : SubagentIds \cup {None},
   suspended : BOOLEAN]
  \cup
  [type : {"SUBAGENT_ERROR"}, subagentRunId : SubagentIds \cup {None}]

ASSUME SubagentInputsAssumption == SubagentInputs \subseteq SubagentEvents

VARIABLES
  openSubagents,         \* id -> index of the SUBAGENT_STARTED that opened it
  closedSubagents,       \* id -> [index, resumable]
  knownSubagentRunIds,   \* ids a SUBAGENT_STARTED named, refused ones included
  subagentFound          \* diagnostics of these rules for the last input

subagentLifeVars == <<openSubagents, closedSubagents, knownSubagentRunIds>>
subagentVars == <<scopeVars, subagentLifeVars, subagentFound>>

SubagentFindings ==
  [rule : {"AGUI601", "AGUI602", "AGUI603", "AGUI604", "AGUI605"}, at : Indices,
   id : SubagentIds, related : Nat \cup {None}]

SubagentTypeOK ==
  /\ ScopeTypeOK
  /\ IsDict(openSubagents, SubagentIds, Nat)
  /\ IsDict(closedSubagents, SubagentIds, [index : Nat, resumable : BOOLEAN])
  /\ knownSubagentRunIds \subseteq SubagentIds
  /\ subagentFound \subseteq SubagentFindings

SubagentInit ==
  /\ ScopeInit
  /\ openSubagents = EmptyDict
  /\ closedSubagents = EmptyDict
  /\ knownSubagentRunIds = {}
  /\ subagentFound = {}

-----------------------------------------------------------------------------
ReportSubagent(rule, id, related) ==
  subagentFound' = {Finding(rule, eventCount, id, related)}

\* Mutant: a suspended subagent may not resume.
NoneResumes == DOMAIN closedSubagents

\* Closed for good: not by SUBAGENT_FINISHED with outcome "suspended".
GoneSubagents == {s \in DOMAIN closedSubagents : ~closedSubagents[s].resumable}

Knows(s) == knownSubagentRunIds' = knownSubagentRunIds \cup ({s} \ {None})

\* Mutant: a subagent that resumes is still remembered as closed.
ResumesTwice(s) ==
  openSubagents' = Put(openSubagents, s, eventCount) /\ UNCHANGED closedSubagents

Opens(s) ==
  /\ openSubagents' = Put(openSubagents, s, eventCount)
  /\ closedSubagents' = Drop(closedSubagents, s)

\* The id becomes known before anything is checked, so a subagent may name
\* itself as its parent.
SubagentStarted(e) ==
  LET s == e.subagentRunId
      parent == e.parentSubagentRunId
  IN  /\ e.type = "SUBAGENT_STARTED"
      /\ Judged
      /\ Knows(s)
      /\ \/ /\ s = None
            /\ subagentFound' = {}
            /\ UNCHANGED <<openSubagents, closedSubagents>>
         \/ /\ s \in DOMAIN openSubagents
            /\ ReportSubagent("AGUI601", s, openSubagents[s])
            /\ UNCHANGED <<openSubagents, closedSubagents>>
         \/ /\ s \in GoneSubagents \ DOMAIN openSubagents
            /\ ReportSubagent("AGUI601", s, closedSubagents[s].index)
            /\ UNCHANGED <<openSubagents, closedSubagents>>
         \/ /\ s \in SubagentIds \ (DOMAIN openSubagents \cup GoneSubagents)
            /\ Opens(s)
            /\ IF parent \in knownSubagentRunIds' \cup {None} THEN subagentFound' = {}
               ELSE ReportSubagent("AGUI605", parent, None)

\* Mutant: a subagent is closed whether it is open or not.
ClosesAgain(e, rule, resumable) ==
  /\ Judged
  /\ e.subagentRunId # None
  /\ subagentFound' = {}
  /\ openSubagents' = Drop(openSubagents, e.subagentRunId)
  /\ closedSubagents' = Put(closedSubagents, e.subagentRunId,
                            [index |-> eventCount, resumable |-> resumable])
  /\ UNCHANGED knownSubagentRunIds

\* SUBAGENT_FINISHED (AGUI602 when not open) and SUBAGENT_ERROR (AGUI603).
Closes(e, rule, resumable) ==
  LET s == e.subagentRunId
  IN  /\ Judged
      /\ UNCHANGED knownSubagentRunIds
      /\ \/ /\ s = None
            /\ subagentFound' = {}
            /\ UNCHANGED <<openSubagents, closedSubagents>>
         \/ /\ s \in SubagentIds \ DOMAIN openSubagents
            /\ ReportSubagent(rule, s, None)
            /\ UNCHANGED <<openSubagents, closedSubagents>>
         \/ /\ s \in DOMAIN openSubagents
            /\ openSubagents' = Drop(openSubagents, s)
            /\ closedSubagents' =
                 Put(closedSubagents, s, [index |-> eventCount, resumable |-> resumable])
            /\ subagentFound' = {}

SubagentFinished(e) == e.type = "SUBAGENT_FINISHED" /\ Closes(e, "AGUI602", e.suspended)

SubagentError(e) == e.type = "SUBAGENT_ERROR" /\ Closes(e, "AGUI603", FALSE)

SubagentEvent(e) == SubagentStarted(e) \/ SubagentFinished(e) \/ SubagentError(e)

-----------------------------------------------------------------------------
\* Inputs of the other components, judged or not.
SubagentsElsewhere ==
  Unjudged /\ subagentFound' = {} /\ UNCHANGED subagentLifeVars

SubagentsNewRun ==
  /\ NewRun
  /\ openSubagents' = EmptyDict
  /\ closedSubagents' = EmptyDict
  /\ knownSubagentRunIds' = {}
  /\ subagentFound' = {}

\* AGUI604: end_of_run_subagents.
UnterminatedSubagents(at) ==
  {Finding("AGUI604", at, s, openSubagents[s]) : s \in DOMAIN openSubagents}

SubagentsEnd(type) ==
  /\ Ends(type)
  /\ UNCHANGED subagentLifeVars
  /\ subagentFound' = IF type = "RUN_FINISHED" THEN UnterminatedSubagents(eventCount) ELSE {}

SubagentsFinalize ==
  /\ Finalizes
  /\ UNCHANGED subagentLifeVars
  /\ subagentFound' = IF terminal = None THEN UnterminatedSubagents(AtEndOfStream) ELSE {}

SubagentNext ==
  \/ \E e \in SubagentInputs : SubagentEvent(e)
  \/ SubagentsElsewhere
  \/ SubagentsNewRun
  \/ \E type \in TerminalTypes : SubagentsEnd(type)
  \/ SubagentsFinalize

SubagentSpec == SubagentInit /\ [][SubagentNext]_subagentVars

-----------------------------------------------------------------------------
\* A subagent is open or closed, never both, and every one of them is known, so
\* that a child naming it is not reported.
SubagentHasOneForm ==
  /\ DOMAIN openSubagents \cap DOMAIN closedSubagents = {}
  /\ DOMAIN openSubagents \cup DOMAIN closedSubagents \subseteq knownSubagentRunIds

\* Within a run a subagent leaves the closed set only by resuming, and one that
\* finished without suspending, or failed, never comes back.
GoneForGood ==
  \A s \in GoneSubagents :
    s \in DOMAIN closedSubagents' /\ closedSubagents'[s] = closedSubagents[s]

SuspendedOnlyResume ==
  \A s \in DOMAIN closedSubagents \ DOMAIN closedSubagents' :
    closedSubagents[s].resumable /\ s \in DOMAIN openSubagents'

SubagentsNeverReturn ==
  [][ SameRun => GoneForGood /\ SuspendedOnlyResume ]_subagentVars

=============================================================================
