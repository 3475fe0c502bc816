------------------------------ MODULE Command ------------------------------
(***************************************************************************)
(* A call of the validator from its beginning to what the caller gets:     *)
(* the command ag-ui-validate (cli.py), which parses its command line,     *)
(* validates an endpoint or a recording and answers with an exit code, and *)
(* the assertions of the pytest plugin (pytest_plugin.py), which answer    *)
(* with an AssertionError.                                                 *)
(***************************************************************************)
EXTENDS Transport, Arguments

CONSTANTS
  Urls,      \* the texts that name an endpoint
  Options    \* bound: the options of the calls made from Python

ASSUME OptionsAssumption ==
  \A o \in Options :
    /\ DOMAIN o = {"overrides", "features", "listener", "maxWarnings"}
    /\ \A rule \in DOMAIN o.overrides : o.overrides[rule] \in Overrides
    /\ o.listener \in {"none", "hears", "breaks"}
ASSUME NoVerdictAssumption == None # 0

VARIABLE verdict   \* None, the exit code, or 1 for an AssertionError

commandVars == <<transportVars, argumentVars, verdict>>

Answers(code) == verdict' = code

FromCommandLine ==
  /\ ArgumentsInit
  /\ pc = "main" /\ call = None /\ payloads = {}
  /\ overrides = EmptyDict /\ features = {} /\ listener = "none" /\ layers = {}

FromPython ==
  \E o \in Options :
    /\ call \in Calls /\ payloads \in Producers
    /\ pc = Start(call) /\ layers = LayersOf(call)
    /\ overrides = o.overrides /\ features = o.features
    /\ listener = IF call.source = "list" THEN "none" ELSE o.listener
    /\ argv = <<>> /\ position = 1 /\ targets = <<>> /\ parsed = "no"
    /\ config = [DefaultConfig EXCEPT !.maxWarnings = o.maxWarnings]

CommandInit == FreshInit /\ verdict = None /\ (FromCommandLine \/ FromPython)

-----------------------------------------------------------------------------
Parses == pc = "main" /\ ParsesArguments /\ UNCHANGED <<transportVars, verdict>>

\* A command line that cannot be run, one that asks for help, and a standard
\* input that is a terminal.
AnswersAtOnce ==
  /\ pc = "main" /\ parsed # "no" /\ verdict = None
  /\ \/ parsed = "error" /\ Answers(2)
     \/ parsed = "ok" /\ (config.help \/ config.version) /\ Answers(0)
     \/ parsed = "ok" /\ ~config.help /\ ~config.version /\ config.target = "-" /\ Answers(2)
  /\ UNCHANGED <<transportVars, argumentVars>>

CallOf(c, contentType) ==
  IF c.target \in Urls
  THEN [source |-> "endpoint", contentType |-> contentType, timeout |-> c.timeout # NoLimit]
  ELSE [source |-> "recording", contentType |-> None, timeout |-> FALSE]

\* The target is validated; only the pretty output has a listener.  Nothing reads
\* the command line any more.
Validates ==
  /\ pc = "main" /\ parsed = "ok" /\ ~config.help /\ ~config.version
  /\ \E contentType \in {None, "sse", "ndjson", "other"} : call' = CallOf(config, contentType)
  /\ payloads' \in Producers
  /\ pc' = Start(call') /\ layers' = LayersOf(call')
  /\ overrides' = config.overrides /\ features' = config.features
  /\ listener' = IF config.format = "pretty" /\ ~config.group THEN "hears" ELSE "none"
  /\ argv' = <<>> /\ position' = 1 /\ targets' = <<>> /\ parsed' = "no"
  /\ UNCHANGED <<coreVars, readVars, reportVars, runOpen, failure, config, verdict>>

\* The report is written and the exit code decided; a file that cannot be written
\* is a failure of the tool.
Concludes ==
  /\ Done /\ verdict = None /\ call.source # "body"
  /\ \/ Raised /\ Answers(2)
     \/ Returned /\ config.files # {} /\ Answers(2)
     \/ Returned /\ Answers(ExitCode(config.failOn, config.maxWarnings))
  /\ UNCHANGED <<transportVars, argumentVars>>

CommandNext ==
  \/ Parses \/ AnswersAtOnce \/ Validates \/ Concludes
  \/ (Works \/ Network) /\ UNCHANGED <<argumentVars, verdict>>

HasTimeout == call # None /\ call.timeout

\* The validator runs on.  The endpoint answers when it likes; with a timeout the
\* client waits no longer than that for the response or for any chunk.
CommandFairness ==
  /\ WF_commandVars(Parses \/ AnswersAtOnce \/ Validates \/ Concludes)
  /\ WF_commandVars(Works /\ UNCHANGED <<argumentVars, verdict>>)
  /\ WF_commandVars(HasTimeout /\ (FetchFails \/ TimesOut)
                    /\ UNCHANGED <<argumentVars, verdict>>)

CommandSpec == CommandInit /\ [][CommandNext]_commandVars /\ CommandFairness

-----------------------------------------------------------------------------
(* A stream that stops inside a run is never called clean, whatever stopped *)
(* it, unless the caller set AGUI003 aside or asked for no failure (cli.py, *)
(* pytest_plugin.py; engine.py, finalize), or a handler of the core broke.  *)
BrokenRunsAreNotClean ==
  verdict = 0 /\ Returned /\ config.failOn # "none" /\ "AGUI003" \notin DOMAIN overrides =>
    (run # None /\ terminal = None => internalError)

Answered == verdict # None \/ (Done /\ call.source = "body")
Sends == Chunk /\ UNCHANGED <<argumentVars, verdict>>

(* Every call comes to an end, unless the network goes on sending for ever  *)
(* or, when no timeout was given, leaves the reader waiting (validate_body,*)
(* validate_endpoint, cli.py).                                              *)
Returns ==
  \/ <>Answered
  \/ []<><<Sends>>_commandVars
  \/ <>[](~HasTimeout /\ (waiting \/ pc = "fetch"))

(* transport_error is "present when the connection failed mid-stream", and by *)
(* nothing else (transport/__init__.py:120, TransportResult).               *)
TransportErrorMeansFailure == failure \in {None, "connection"}

=============================================================================
