------------------------------- MODULE Report -------------------------------
(***************************************************************************)
(* What a caller is told of a stream (engine.py: _make_emit,               *)
(* emit_external, mark_skipped, report; rules/catalog.py, spec/catalog.json;*)
(* cli_args.py: decide_exit_code): the findings with the severities of the *)
(* catalog and of the caller, the rules skipped, and the exit code.        *)
(***************************************************************************)
EXTENDS Integers, Sequences, FiniteSets

CatalogErrors ==
  {"AGUI001", "AGUI002", "AGUI003", "AGUI004", "AGUI005", "AGUI006", "AGUI007",
   "AGUI101", "AGUI102", "AGUI103", "AGUI104", "AGUI106",
   "AGUI201", "AGUI202", "AGUI203", "AGUI204", "AGUI205", "AGUI207",
   "AGUI302", "AGUI303", "AGUI401", "AGUI501", "AGUI502", "AGUI503", "AGUI504", "AGUI508",
   "AGUI601", "AGUI602", "AGUI603", "AGUI604"}
CatalogWarnings ==
  {"AGUI008", "AGUI105", "AGUI206", "AGUI305", "AGUI402", "AGUI505", "AGUI605", "AGUI606"}
CatalogInfos ==
  {"AGUI208", "AGUI301", "AGUI304", "AGUI506", "AGUI507", "AGUI901", "AGUI902", "AGUI903"}

Rules == CatalogErrors \cup CatalogWarnings \cup CatalogInfos
TransportRules == {"AGUI501", "AGUI505", "AGUI506", "AGUI507", "AGUI508"}
Severities == {"error", "warning", "info"}
Overrides == Severities \cup {"off"}

\* The texts --rule and --off accept: well formed, and not all of them rules.
RuleIds == Rules \cup {"AGUI999"}

VARIABLES
  overrides,      \* Validator._overrides
  layers,         \* Validator._layers
  features,       \* Validator._declared_features
  diagnostics,    \* Validator._diagnostics
  explicitSkips,  \* rules a layer marked as skipped
  listener,       \* on_diagnostic: "none", one that "hears", one that may break ("breaks")
  told            \* the diagnostics on_diagnostic was called with

optionVars == <<overrides, layers, features, listener>>

Diagnostics == [rule : Rules, severity : Severities]

CatalogSeverity(rule) ==
  CASE rule \in CatalogErrors -> "error"
    [] rule \in CatalogWarnings -> "warning"
    [] rule \in CatalogInfos -> "info"

\* The severity a rule itself gives a diagnostic comes between the two in the code;
\* only AGUI503 gives one, "info" for the event types documented as drafts
\* (engine.py:255).  An unknown type is none of those here: it is an error.
SeverityOf(rule) ==
  IF rule \in DOMAIN overrides THEN overrides[rule] ELSE CatalogSeverity(rule)

IsOff(rule) == rule \in DOMAIN overrides /\ overrides[rule] = "off"

Diagnosis(rule) == [rule |-> rule, severity |-> SeverityOf(rule)]

\* emit, for one rule after the other: the diagnostics of those broken, without
\* those set to "off".
Emitted(rules) ==
  LET batch[i \in 0..Len(rules)] ==
        IF i = 0 THEN <<>>
        ELSE IF IsOff(rules[i]) THEN batch[i - 1]
        ELSE Append(batch[i - 1], Diagnosis(rules[i]))
  IN  batch[Len(rules)]

ReportedRules == {diagnostics[i].rule : i \in DOMAIN diagnostics}

\* The listener is called with each diagnostic of a batch.  One that breaks stops
\* the batch: at its first diagnostic, or before it when on_event broke.
Tells(batch) == told' = IF listener = "none" THEN told ELSE told \o batch
TellsUntilBroken(batch, least) ==
  /\ listener = "breaks"
  /\ \E n \in least..Len(batch) : told' = told \o SubSeq(batch, 1, n)

-----------------------------------------------------------------------------
Skip(rule, reason) == [rule |-> rule, reason |-> reason]

\* What the report says itself of the rules nobody evaluated.
ComputedSkips ==
  {Skip(rule, "no transport") :
     rule \in {r \in TransportRules : "transport" \notin layers /\ ~IsOff(r)}}
  \cup {Skip(rule, "undeclared feature") :
          rule \in {r \in {"AGUI305"} : "shared-state" \notin features /\ ~IsOff(r)}}
  \cup {Skip(rule, "off") : rule \in {r \in Rules : IsOff(r)}}

ExplicitSkips == {Skip(rule, "marked") : rule \in explicitSkips}

\* Mutant: what a layer marked is added to what the report says itself.
SkippedTwice == ComputedSkips \cup ExplicitSkips

\* report().skipped: what a layer marked replaces what the report says itself.
Skipped == {s \in ComputedSkips : s.rule \notin explicitSkips} \cup ExplicitSkips

\* Summary
Count(severity) ==
  Cardinality({i \in DOMAIN diagnostics : diagnostics[i].severity = severity})

NoLimit == -1

\* decide_exit_code
ExitCode(failOn, maxWarnings) ==
  IF failOn # "none" /\ \/ Count("error") > 0
                        \/ failOn = "warning" /\ Count("warning") > 0
                        \/ maxWarnings # NoLimit /\ Count("warning") > maxWarnings
  THEN 1 ELSE 0

=============================================================================
