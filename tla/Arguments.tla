----------------------------- MODULE Arguments -----------------------------
(***************************************************************************)
(* The command line of ag-ui-validate (cli_args.py: parse_cli_args and the *)
(* functions of _FLAGS), read one argument after the other.  An argument   *)
(* is a record of its text, of the flag it names, if any, and of the value *)
(* that follows a "=" in it, if any.                                       *)
(***************************************************************************)
EXTENDS Report, Dicts

CONSTANTS
  CommandLines,   \* bound: the command lines considered
  Assignments,    \* the texts "AGUI###=severity", and what they assign
  Counts,         \* the texts of non-negative integers, and their value
  Durations,      \* the texts of positive numbers of seconds, and their milliseconds
  FeatureLists,   \* the texts of lists of features, and the features
  Headers         \* the texts of the form "Name: value"

ASSUME CommandLinesAssumption ==
  \A line \in CommandLines : Len(line) \in Nat /\ DOMAIN line = 1..Len(line)
ASSUME AssignmentsAssumption ==
  \A text \in DOMAIN Assignments : Assignments[text].severity \in Overrides

\* Of an argument: it is no flag, or has no value of its own.
Absent == "absent"

Formats == {"--json", "--sarif", "--junit"}
Files == {"--json-file", "--sarif-file", "--junit-file"}
Switches == Formats \cup {"--help", "--version", "--no-color", "--group"}
ValueFlags ==
  Files \cup {"--off", "--rule", "--max-warnings", "--fail-on", "--timeout", "--header", "--features"}

FailOns == {"error", "warning", "none"}

VARIABLES
  argv,      \* the command line, until it is parsed
  position,  \* the next argument
  targets,
  config,
  parsed     \* "no", "ok" or "error"

argumentVars == <<argv, position, targets, config, parsed>>

DefaultConfig ==
  [target |-> Absent, format |-> "pretty", group |-> FALSE, overrides |-> EmptyDict,
   maxWarnings |-> NoLimit, failOn |-> "error", timeout |-> NoLimit, features |-> {},
   files |-> {}, help |-> FALSE, version |-> FALSE]

ArgumentsInit ==
  /\ argv \in CommandLines
  /\ position = 1
  /\ targets = <<>>
  /\ config = DefaultConfig
  /\ parsed = "no"

-----------------------------------------------------------------------------
Arg == argv[position]

\* The texts a flag takes for its value.
Takes(flag, value) ==
  CASE flag = "--off" -> value \in RuleIds
    [] flag = "--rule" -> value \in DOMAIN Assignments
    [] flag = "--max-warnings" -> value \in DOMAIN Counts
    [] flag = "--fail-on" -> value \in FailOns
    [] flag = "--timeout" -> value \in DOMAIN Durations
    [] flag = "--header" -> value \in Headers
    [] flag \in Formats -> config.format \in {"pretty", flag}
    [] OTHER -> TRUE

\* Mutant: the first override of a rule stays.
FirstOverride(rule, severity) ==
  IF rule \in DOMAIN config.overrides THEN config.overrides ELSE Put(config.overrides, rule, severity)

\* --off and --rule write to the same dictionary.
Override(rule, severity) == Put(config.overrides, rule, severity)

Applied(flag, value) ==
  CASE flag = "--off" -> [config EXCEPT !.overrides = Override(value, "off")]
    [] flag = "--rule" ->
         [config EXCEPT !.overrides = Override(Assignments[value].rule, Assignments[value].severity)]
    [] flag = "--max-warnings" -> [config EXCEPT !.maxWarnings = Counts[value]]
    [] flag = "--fail-on" -> [config EXCEPT !.failOn = value]
    [] flag = "--timeout" -> [config EXCEPT !.timeout = Durations[value]]
    [] flag = "--features" ->
         [config EXCEPT !.features = IF value \in DOMAIN FeatureLists THEN FeatureLists[value] ELSE {}]
    [] flag \in Formats -> [config EXCEPT !.format = flag]
    [] flag \in Files -> [config EXCEPT !.files = @ \cup {flag}]
    [] flag = "--group" -> [config EXCEPT !.group = TRUE]
    [] flag = "--help" -> [config EXCEPT !.help = TRUE]
    [] flag = "--version" -> [config EXCEPT !.version = TRUE]
    [] flag \in {"--no-color", "--header"} -> config

Refuses == parsed' = "error" /\ UNCHANGED <<argv, position, targets, config>>

Target ==
  /\ Arg.flag = Absent
  /\ targets' = Append(targets, Arg.text)
  /\ position' = position + 1
  /\ UNCHANGED <<argv, config, parsed>>

UnknownFlag == Arg.flag \notin Switches \cup ValueFlags \cup {Absent} /\ Refuses

Switch ==
  /\ Arg.flag \in Switches
  /\ IF Arg.inline # Absent \/ ~Takes(Arg.flag, Absent) THEN Refuses
     ELSE /\ config' = Applied(Arg.flag, Absent)
          /\ position' = position + 1
          /\ UNCHANGED <<argv, targets, parsed>>

\* The value is what follows the "=", or the next argument, whatever it is.
ValueFlag ==
  LET isInline == Arg.inline # Absent
      value == IF isInline THEN Arg.inline ELSE argv[position + 1].text
  IN  /\ Arg.flag \in ValueFlags
      /\ IF ~isInline /\ position = Len(argv) THEN Refuses
         ELSE IF ~Takes(Arg.flag, value) THEN Refuses
         ELSE /\ config' = Applied(Arg.flag, value)
              /\ position' = position + (IF isInline THEN 1 ELSE 2)
              /\ UNCHANGED <<argv, targets, parsed>>

ReadsArgument ==
  /\ parsed = "no" /\ position <= Len(argv)
  /\ Target \/ UnknownFlag \/ Switch \/ ValueFlag

ChecksArguments ==
  /\ parsed = "no" /\ position > Len(argv)
  /\ IF \/ config.group /\ config.format # "pretty"
        \/ Len(targets) > 1
        \/ targets = <<>> /\ ~config.help /\ ~config.version
     THEN Refuses
     ELSE /\ parsed' = "ok"
          /\ config' = [config EXCEPT !.target = IF targets = <<>> THEN Absent ELSE Head(targets)]
          /\ UNCHANGED <<argv, position, targets>>

ParsesArguments == ReadsArgument \/ ChecksArguments

-----------------------------------------------------------------------------
\* Which arguments are the value of the one before them.
IsValue[p \in Nat] ==
  /\ p > 1
  /\ ~IsValue[p - 1]
  /\ argv[p - 1].flag \in ValueFlags /\ argv[p - 1].inline = Absent

OwnArguments == {p \in DOMAIN argv : ~IsValue[p]}
Uses(flags) == {p \in OwnArguments : argv[p].flag \in flags}
ValueOf(p) == IF argv[p].inline # Absent THEN argv[p].inline ELSE argv[p + 1].text
LatestOf(positions) == CHOOSE p \in positions : \A q \in positions : q <= p

\* What a flag was last given, by a table of its texts.
Given(flag, meaning, default) ==
  IF Uses({flag}) = {} THEN default ELSE meaning[ValueOf(LatestOf(Uses({flag})))]

\* The rule and the severity that one use of --off or --rule sets.
Sets(p) ==
  IF argv[p].flag = "--off" THEN [rule |-> ValueOf(p), severity |-> "off"]
  ELSE Assignments[ValueOf(p)]

\* The parser takes each argument for what it stands for, a target, a flag or the
\* value of the flag before it, lets the last of several uses count, rule by rule
\* for --off and --rule, and refuses a command line when one of its arguments
\* cannot stand where it does (cli_args.py, parse_cli_args).
ParsedAsWritten ==
  /\ parsed = "ok" =>
       LET overridings == Uses({"--off", "--rule"})
           own == {p \in OwnArguments : argv[p].flag = Absent}
           LastOn(rule) == LatestOf({p \in overridings : Sets(p).rule = rule})
       IN  /\ Uses(Switches \cup ValueFlags) \cup own = OwnArguments
           /\ config.target = IF own = {} THEN Absent ELSE argv[LatestOf(own)].text
           /\ Cardinality(own) <= 1 /\ (own = {} => config.help \/ config.version)
           /\ {argv[p].flag : p \in Uses(Formats)} \cup {"pretty"} = {config.format, "pretty"}
           /\ config.overrides =
                [rule \in {Sets(p).rule : p \in overridings} |-> Sets(LastOn(rule)).severity]
           /\ config.maxWarnings = Given("--max-warnings", Counts, NoLimit)
           /\ config.timeout = Given("--timeout", Durations, NoLimit)
           /\ config.failOn = Given("--fail-on", [f \in FailOns |-> f], "error")
           /\ config.files = {argv[p].flag : p \in Uses(Files)}
           /\ config.group = (Uses({"--group"}) # {}) /\ (config.group => config.format = "pretty")

=============================================================================
