------------------------------- MODULE Steps -------------------------------
(***************************************************************************)
(* Steps of one run (rules/checks/lifecycle.py): re-entrant steps paired   *)
(* by name, rules AGUI006, AGUI007 and AGUI606.                            *)
(***************************************************************************)
EXTENDS RunScope

CONSTANTS
  StepNames,
  StepInputs   \* bound: the step events a producer may send

StepEvents ==
  [type : {"STEP_STARTED", "STEP_FINISHED"}, stepName : StepNames \cup {None},
   subagentRunId : Owners \cup {None}]

ASSUME StepNamesAssumption == None \notin StepNames
ASSUME StepInputsAssumption == StepInputs \subseteq StepEvents

VARIABLES
  openSteps,   \* name -> [count, first, owner]
  stepFound    \* diagnostics of these rules for the last input

stepVars == <<scopeVars, openSteps, stepFound>>

StepFindings ==
  [rule : {"AGUI006", "AGUI007", "AGUI606"}, at : Indices, id : StepNames,
   related : Nat \cup {None}]

StepTypeOK ==
  /\ ScopeTypeOK
  /\ IsDict(openSteps, StepNames, [count : Nat \ {0}, first : Nat, owner : Tags])
  /\ stepFound \subseteq StepFindings

StepInit == ScopeInit /\ openSteps = EmptyDict /\ stepFound = {}

-----------------------------------------------------------------------------
\* Mutant: a re-entrant start opens the step anew.
ReopensStep(e) ==
  /\ e.type = "STEP_STARTED"
  /\ Judged
  /\ stepFound' = {}
  /\ IF e.stepName = None THEN UNCHANGED openSteps
     ELSE openSteps' = Put(openSteps, e.stepName,
            [count |-> 1, first |-> eventCount, owner |-> e.subagentRunId])

\* The owner is fixed by whoever opens the step first; a re-entrant start only
\* counts.
StepStarted(e) ==
  LET s == e.stepName
  IN  /\ e.type = "STEP_STARTED"
      /\ Judged
      /\ stepFound' = {}
      /\ \/ s = None /\ UNCHANGED openSteps
         \/ /\ s \in DOMAIN openSteps
            /\ openSteps' = [openSteps EXCEPT ![s].count = @ + 1]
         \/ /\ s \in StepNames \ DOMAIN openSteps
            /\ openSteps' = Put(openSteps, s,
                 [count |-> 1, first |-> eventCount, owner |-> e.subagentRunId])

\* Mutant: the last finish leaves the step open, with no start to answer.
LeavesEmptyStep(e) ==
  /\ e.type = "STEP_FINISHED"
  /\ Judged
  /\ stepFound' = {}
  /\ e.stepName \in DOMAIN openSteps
  /\ openSteps' = [openSteps EXCEPT ![e.stepName].count = @ - 1]

StepFinished(e) ==
  LET s == e.stepName
  IN  /\ e.type = "STEP_FINISHED"
      /\ Judged
      /\ \/ /\ s = None
            /\ stepFound' = {}
            /\ UNCHANGED openSteps
         \/ /\ s \in StepNames \ DOMAIN openSteps
            /\ stepFound' = {Finding("AGUI006", eventCount, s, None)}
            /\ UNCHANGED openSteps
         \/ /\ s \in DOMAIN openSteps
            /\ stepFound' = OwnerFindings(eventCount, s, e.subagentRunId, openSteps[s].owner)
            /\ openSteps' = IF openSteps[s].count = 1 THEN Drop(openSteps, s)
                            ELSE [openSteps EXCEPT ![s].count = @ - 1]

StepEvent(e) == StepStarted(e) \/ StepFinished(e)

-----------------------------------------------------------------------------
\* Inputs of the other components, judged or not.
StepsElsewhere == Unjudged /\ UNCHANGED openSteps /\ stepFound' = {}

StepsNewRun == NewRun /\ openSteps' = EmptyDict /\ stepFound' = {}

\* Mutant: the step is reported without the start it is about.
UnterminatedNowhere(at) ==
  {Finding("AGUI007", at, s, None) : s \in DOMAIN openSteps}

\* AGUI007: end_of_run_steps.
UnterminatedSteps(at) ==
  {Finding("AGUI007", at, s, openSteps[s].first) : s \in DOMAIN openSteps}

StepsEnd(type) ==
  /\ Ends(type)
  /\ UNCHANGED openSteps
  /\ stepFound' = IF type = "RUN_FINISHED" THEN UnterminatedSteps(eventCount) ELSE {}

StepsFinalize ==
  /\ Finalizes
  /\ UNCHANGED openSteps
  /\ stepFound' = IF terminal = None THEN UnterminatedSteps(AtEndOfStream) ELSE {}

StepNext ==
  \/ \E e \in StepInputs : StepEvent(e)
  \/ StepsElsewhere
  \/ StepsNewRun
  \/ \E type \in TerminalTypes : StepsEnd(type)
  \/ StepsFinalize

StepSpec == StepInit /\ [][StepNext]_stepVars

=============================================================================
