----------------------------- MODULE Transport -----------------------------
(***************************************************************************)
(* Reading one response (transport/__init__.py: validate_endpoint,         *)
(* validate_body, _sniff_format, feed_raw; the calls of pytest_plugin.py   *)
(* that validate a list): the connection, the run as the transport layer   *)
(* sees it, the core it feeds (RunLifecycle), the listener it tells, and   *)
(* what is left when any of them fails.                                    *)
(*                                                                         *)
(* What the other components of the core would say of an event is left     *)
(* open: an event may break any of the CategoryRules.                      *)
(***************************************************************************)
EXTENDS RunLifecycle, Report, Functions

CONSTANTS
  Calls,           \* bound: the ways the validator is called from Python
  Producers,       \* bound: the sets of payloads a producer may choose from
  CategoryRules    \* the rules an event may break in the handler of its category

Nestings == {"no", "arguments", "payload"}

\* The content type is None when there is no response to have one.
CallRecords ==
  [source : {"endpoint", "body", "recording", "list"},
   contentType : {None, "sse", "ndjson", "other"}, timeout : BOOLEAN]

ASSUME NoCallAssumption == None \notin CallRecords
ASSUME NoTextAssumption ==
  None \notin {"sse", "ndjson", "other", "connection", "listener", "payload"}
ASSUME CallsAssumption == Calls \subseteq CallRecords
ASSUME ProducersAssumption ==
  \A payloads \in Producers : payloads \subseteq [event : StreamInputs, nested : Nestings]
ASSUME CategoryRulesAssumption ==
  CategoryRules \subseteq Rules \ (TransportRules \cup {"AGUI305"})

VARIABLES
  call,
  payloads,       \* what the producer sends
  pc,             \* where the caller waits for us
  format,
  waiting,        \* a read is under way
  over,           \* the body is complete
  chunks,         \* chunk_count, counted to two
  late,           \* a gap longer than the keepalive window was seen
  runOpen,        \* run_open
  failure,        \* transport_error: None or what raised
  deepChunk,      \* the open tool call chunk has arguments json.loads cannot nest
  internalError   \* Validator._internal_errors is not empty

callVars == <<call, payloads, optionVars>>
coreVars == <<lifecycleVars, deepChunk, internalError>>
readVars == <<format, waiting, over, chunks, late>>
reportVars == <<diagnostics, explicitSkips, told>>
transportVars == <<coreVars, readVars, reportVars, callVars, pc, runOpen, failure>>

Recorded == call.source = "recording"

Returned == pc = "returned"
Raised == pc \in {"TransportError", "Exception"}
Done == Returned \/ Raised

\* Where a call begins, and the layers it validates with.
Start(c) ==
  CASE c.source = "endpoint" -> "fetch"
    [] c.source = "list" -> "list"
    [] OTHER -> "open"
LayersOf(c) == IF c.source = "list" THEN {"core"} ELSE {"core", "transport"}

FreshInit ==
  /\ LifecycleInit
  /\ format = None /\ waiting = FALSE /\ over = FALSE /\ chunks = 0 /\ late = FALSE
  /\ runOpen = FALSE /\ failure = None
  /\ deepChunk = FALSE /\ internalError = FALSE
  /\ diagnostics = <<>> /\ explicitSkips = {} /\ told = <<>>

\* Where an exception that escapes the reading loop leads: a broken recording is
\* the caller's, a broken connection is noted.
Escapes(what) ==
  IF Recorded THEN pc' = "TransportError" /\ UNCHANGED failure
  ELSE pc' = "failed" /\ failure' = what

-----------------------------------------------------------------------------
(* validate_endpoint *)

\* The request fails, or the response is not 2xx or has no body.
FetchFails ==
  /\ pc = "fetch"
  /\ pc' = "TransportError"
  /\ UNCHANGED <<coreVars, readVars, reportVars, callVars, runOpen, failure>>

Fetches ==
  /\ pc = "fetch"
  /\ pc' = "open"
  /\ UNCHANGED <<coreVars, readVars, reportVars, callVars, runOpen, failure>>

-----------------------------------------------------------------------------
(* validate_body, before the first chunk *)

Knows == call.contentType \in {"sse", "ndjson"}

MarkedSkips ==
  (IF call.contentType = None THEN {"AGUI505"} ELSE {})
  \cup (IF Recorded THEN {"AGUI506", "AGUI507", "AGUI508"} ELSE {})

Opens ==
  LET batch == Emitted(IF call.contentType = "other" THEN <<"AGUI505">> ELSE <<>>)
  IN  /\ pc = "open"
      /\ diagnostics' = diagnostics \o batch
      /\ format' = IF Knows THEN call.contentType ELSE None
      /\ \/ /\ Tells(batch)
            /\ pc' = IF Knows THEN "read" ELSE "sniff"
            /\ explicitSkips' = MarkedSkips \cup
                 IF call.contentType = "ndjson" THEN {"AGUI501"} ELSE {}
         \/ /\ TellsUntilBroken(batch, 1) /\ batch # <<>>
            /\ pc' = "Exception"
            /\ UNCHANGED explicitSkips
      /\ UNCHANGED <<coreVars, waiting, over, chunks, late, callVars, runOpen, failure>>

-----------------------------------------------------------------------------
(* The connection *)

Reading == pc \in {"sniff", "read"}

\* A read begins when every item of the last chunk was handled.
Asks ==
  /\ Reading /\ ~waiting /\ ~over
  /\ waiting' = TRUE
  /\ UNCHANGED <<coreVars, format, over, chunks, late, reportVars, callVars, pc, runOpen, failure>>

\* tapped: the gap before a chunk is measured, but for the first.
Chunk ==
  /\ waiting
  /\ waiting' = FALSE
  /\ chunks' = IF chunks = 2 THEN 2 ELSE chunks + 1
  /\ late' \in IF chunks = 0 THEN {late} ELSE {late, TRUE}
  /\ UNCHANGED <<coreVars, format, over, reportVars, callVars, pc, runOpen, failure>>

EndOfBody ==
  /\ waiting
  /\ waiting' = FALSE /\ over' = TRUE
  /\ UNCHANGED <<coreVars, format, chunks, late, reportVars, callVars, pc, runOpen, failure>>

\* Mutant: the reader that failed is asked again.
BreaksUnnoticed ==
  /\ waiting
  /\ IF pc = "sniff" THEN pc' = "Exception" /\ UNCHANGED failure ELSE Escapes("connection")
  /\ UNCHANGED <<coreVars, readVars, reportVars, callVars, runOpen>>

\* While the format is guessed nothing catches what the read raises.
Breaks ==
  /\ waiting
  /\ waiting' = FALSE
  /\ IF pc = "sniff" THEN pc' = "Exception" /\ UNCHANGED failure ELSE Escapes("connection")
  /\ UNCHANGED <<coreVars, format, over, chunks, late, reportVars, callVars, runOpen>>

ReadFails == Breaks

\* Mutant: the timeout bounds the wait for the first chunk.
TimesOutConnecting == waiting /\ call.timeout /\ chunks = 0 /\ Breaks

\* The timeout of the HTTP client bounds each read.
TimesOut == waiting /\ call.timeout /\ Breaks

\* _sniff_format: the first line was read, or the body is over.
Sniffed ==
  /\ pc = "sniff" /\ ~waiting /\ (chunks > 0 \/ over)
  /\ pc' = "read"
  /\ format' \in {"sse", "ndjson"}
  /\ explicitSkips' = explicitSkips \cup IF format' = "ndjson" THEN {"AGUI501"} ELSE {}
  /\ UNCHANGED <<coreVars, waiting, over, chunks, late, diagnostics, told, callVars, runOpen, failure>>

-----------------------------------------------------------------------------
(* feed_raw *)

\* The core's handlers parse the arguments of a tool call chunk that ends here.
ClosesDeepChunk(p) ==
  /\ deepChunk /\ terminal = None
  /\ p.event.type \notin {"MALFORMED", "UNTYPED", "UNKNOWN"}
  /\ p.nested # "arguments"

\* What raises in a handler ends it and is kept in internal_errors: the event has
\* been counted and its schema checked, and no more.
HandlerFails(p) ==
  /\ ClosesDeepChunk(p)
  /\ Unjudged /\ Observes(p.event)
  /\ lifecycleFound' = SchemaFindings(p.event)
  /\ deepChunk' = FALSE /\ internalError' = TRUE
  /\ UNCHANGED <<run, agui001Fired>>

ParserFails ==
  /\ Unjudged
  /\ lifecycleFound' = {}
  /\ internalError' = TRUE
  /\ UNCHANGED <<run, agui001Fired, sawTimestamp, deepChunk>>

Handles(p) ==
  /\ ~ClosesDeepChunk(p)
  /\ StreamInput(p.event)
  /\ deepChunk' = (terminal' = None /\ (deepChunk \/ p.nested = "arguments"))
  /\ UNCHANGED internalError

Feeds(p) ==
  IF p.nested = "payload" THEN ParserFails ELSE Handles(p) \/ HandlerFails(p)

\* Besides the rules of its place in the run, an event that a handler judges to
\* its end may break one of its category.
Broken(p) ==
  {<<>>} \cup IF /\ p.event.type = "EVENT" /\ terminal = None
                 /\ ~ClosesDeepChunk(p)
              THEN {<<rule>> : rule \in CategoryRules} ELSE {}

InOrder(findings) ==
  LET n == Cardinality(findings)
      order == CHOOSE f \in [1..n -> findings] : IsInjective(f)
  IN  [i \in 1..n |-> order[i].rule]

\* Mutant: only RUN_FINISHED closes the run.
RunOpenUntilFinished(p) ==
  runOpen' = CASE p.event.type = "RUN_STARTED" -> TRUE
               [] p.event.type = "RUN_FINISHED" -> FALSE
               [] OTHER -> runOpen

\* run_open follows the types of the payloads, whatever the core makes of them.
RunOpenFollows(p) ==
  runOpen' = CASE p.nested = "payload" -> runOpen
               [] p.event.type = "RUN_STARTED" -> TRUE
               [] p.event.type \in TerminalTypes -> FALSE
               [] OTHER -> runOpen

\* An item of the last chunk.  A payload json.loads cannot nest raises again
\* here, before the listener is called.
Item(p) ==
  /\ pc = "read" /\ ~waiting /\ chunks > 0
  /\ Feeds(p)
  /\ RunOpenFollows(p)
  /\ \/ /\ p.nested = "payload"
        /\ Escapes("payload")
        /\ UNCHANGED <<diagnostics, told>>
     \/ /\ p.nested # "payload"
        /\ \E rest \in Broken(p) :
             LET batch == Emitted(InOrder(lifecycleFound') \o rest)
             IN  /\ diagnostics' = diagnostics \o batch
                 /\ \/ Tells(batch) /\ UNCHANGED <<pc, failure>>
                    \/ TellsUntilBroken(batch, 0) /\ Escapes("listener")
  /\ UNCHANGED <<readVars, explicitSkips, callVars>>

\* An anomaly of the SSE framing.
FramingProblem ==
  LET batch == Emitted(<<"AGUI501">>)
  IN  /\ pc = "read" /\ format = "sse" /\ ~waiting /\ chunks > 0
      /\ "AGUI501" \notin ReportedRules   \* bound: one is enough
      /\ diagnostics' = diagnostics \o batch
      /\ \/ Tells(batch) /\ UNCHANGED <<pc, failure>>
         \/ TellsUntilBroken(batch, 1) /\ batch # <<>> /\ Escapes("listener")
      /\ UNCHANGED <<coreVars, readVars, explicitSkips, callVars, runOpen>>

-----------------------------------------------------------------------------
(* validate_body, after the loop *)

\* Mutant: every exception is told as a dropped run.
AlwaysDropped == <<"AGUI508">>

\* AGUI508 follows run_open.
DropRules == IF runOpen THEN <<"AGUI508">> ELSE <<>>

HandlesFailure ==
  LET batch == Emitted(DropRules)
  IN  /\ pc = "failed"
      /\ diagnostics' = diagnostics \o batch
      /\ \/ Tells(batch) /\ pc' = "wrap up"
         \/ TellsUntilBroken(batch, 1) /\ batch # <<>> /\ pc' = "Exception"
      /\ UNCHANGED <<coreVars, readVars, explicitSkips, callVars, runOpen, failure>>

LeavesLoop ==
  /\ pc = "read" /\ over /\ ~waiting
  /\ pc' = "wrap up"
  /\ UNCHANGED <<coreVars, readVars, reportVars, callVars, runOpen, failure>>

\* AGUI506 and AGUI507: the last gap lasts until now.
TimingRules(nowLate) ==
  IF Recorded THEN <<>>
  ELSE (IF late \/ (chunks > 0 /\ nowLate) THEN <<"AGUI506">> ELSE <<>>)
       \o IF chunks = 1 /\ eventCount >= 3 THEN <<"AGUI507">> ELSE <<>>

\* Mutant: a run whose connection broke is not finalized.
FinalizesUnbroken ==
  IF failure # None
  THEN Finalizes /\ lifecycleFound' = {} /\ UNCHANGED <<run, agui001Fired, sawTimestamp, internalError, deepChunk>>
  ELSE LifecycleFinalize /\ UNCHANGED <<internalError, deepChunk>>

\* finalize(): the chunk it closes may raise, and then nothing more is said.
FinalizeRaises == deepChunk /\ terminal = None

Finalize ==
  IF FinalizeRaises
  THEN /\ Finalizes /\ lifecycleFound' = {} /\ internalError' = TRUE
       /\ deepChunk' = FALSE /\ UNCHANGED <<run, agui001Fired, sawTimestamp>>
  ELSE LifecycleFinalize /\ UNCHANGED <<internalError, deepChunk>>

\* AGUI305: a feature declared and no snapshot in the stream, which the category
\* handlers decide.
FeatureRules ==
  {<<>>} \cup IF "shared-state" \in features /\ ~FinalizeRaises THEN {<<"AGUI305">>} ELSE {}

\* Mutant: the findings of finalize() are not told.
EndsUntold(before, batch) == Tells(before)

\* The listener is told what finalize() found.
EndsTold(before, batch) == Tells(before \o batch)

WrapsUp ==
  /\ pc = "wrap up"
  /\ Finalize
  /\ \E nowLate \in BOOLEAN, feature \in FeatureRules :
       LET before == Emitted(TimingRules(nowLate))
           batch == Emitted(InOrder(lifecycleFound') \o feature)
       IN  /\ diagnostics' = diagnostics \o (before \o batch)
           /\ \/ EndsTold(before, batch) /\ pc' = "returned"
              \/ /\ before \o batch # <<>>
                 /\ TellsUntilBroken(before \o batch, 1)
                 /\ pc' = "Exception"
  /\ UNCHANGED <<readVars, explicitSkips, callVars, runOpen, failure>>

-----------------------------------------------------------------------------
(* pytest_plugin: validate_agui *)

ListItem(p) ==
  /\ pc = "list"
  /\ Feeds(p)
  /\ \E rest \in Broken(p) :
       diagnostics' = diagnostics \o Emitted(InOrder(lifecycleFound') \o rest)
  /\ UNCHANGED <<readVars, explicitSkips, told, callVars, pc, runOpen, failure>>

ListEnds ==
  /\ pc = "list"
  /\ Finalize
  /\ \E feature \in FeatureRules :
       diagnostics' = diagnostics \o Emitted(InOrder(lifecycleFound') \o feature)
  /\ pc' = "returned"
  /\ UNCHANGED <<readVars, explicitSkips, told, callVars, runOpen, failure>>

-----------------------------------------------------------------------------
\* What the validator does by itself, once it has what it waits for.
Works ==
  \/ Opens \/ Asks \/ Sniffed
  \/ \E p \in payloads : Item(p) \/ ListItem(p)
  \/ FramingProblem
  \/ HandlesFailure \/ LeavesLoop \/ WrapsUp \/ ListEnds

Network == FetchFails \/ Fetches \/ Chunk \/ EndOfBody \/ ReadFails \/ TimesOut

-----------------------------------------------------------------------------
TransportTypeOK ==
  /\ RunTypeOK
  /\ call \in CallRecords \cup {None}
  /\ pc \in {"main", "fetch", "open", "sniff", "read", "failed", "wrap up", "list",
             "returned", "TransportError", "Exception"}
  /\ format \in {None, "sse", "ndjson"}
  /\ chunks \in 0..2
  /\ {waiting, over, late, runOpen, deepChunk, internalError} \subseteq BOOLEAN
  /\ failure \in {None, "connection", "listener", "payload"}
  /\ diagnostics \in Seq(Diagnostics) /\ told \in Seq(Diagnostics)
  /\ explicitSkips \subseteq TransportRules
  /\ waiting => Reading /\ ~over
  /\ Returned => finalized

InAnnouncedRun == run # None /\ terminal = None /\ ~run.implicit

\* The transport layer and the core keep apart whether a run is open: one follows
\* the types of the payloads, the other the run scopes.  They agree, the implicit
\* run excepted, while no handler of the core broke (transport/__init__.py,
\* feed_raw; engine.py, _process_event).
RunOpenAgrees ==
  ~internalError /\ call # None /\ call.source # "list" => (runOpen <=> InAnnouncedRun)

\* A reading loop that ends in an exception inside an announced run is reported
\* (AGUI508), and nothing else is; the run is then reported as unterminated too:
\* "both are true statements about the observed stream" (transport/__init__.py,
\* validate_body; engine.py, finalize).
DropsAreTold ==
  Returned /\ ~internalError =>
    /\ ~IsOff("AGUI508") =>
         ("AGUI508" \in ReportedRules <=> failure # None /\ InAnnouncedRun)
    /\ "AGUI508" \in ReportedRules /\ ~IsOff("AGUI003") => "AGUI003" \in ReportedRules

\* A listener hears of every diagnostic, in the order of the report, wherever it
\* arises: at an event, in the framing, after the loop or at the end.
ListenerHearsAll == listener = "hears" => told = diagnostics

\* A rule the report lists as skipped is listed once and reported nothing.
SkippedAreSilent ==
  Returned =>
    \A s \in Skipped : /\ \A t \in Skipped : t.rule = s.rule => t = s
                       /\ s.rule \notin ReportedRules

=============================================================================
