----------------------------- MODULE MCCommand -----------------------------
(***************************************************************************)
(* TLC instance of Command.  A producer chooses among four payloads, a     *)
(* user among the arguments of one family; calls from Python add the       *)
(* listeners and the bodies the command line does not have.                *)
(***************************************************************************)
EXTENDS Command

CONSTANTS r0, t0

Event(type) == [type |-> type, timestamp |-> None]
RunEvent(type) == [type |-> type, runId |-> r0, threadId |-> t0, timestamp |-> None]
Malformed == [type |-> "MALFORMED"]

MCInputs ==
  {RunEvent("RUN_STARTED"), RunEvent("RUN_FINISHED"), Event("RUN_ERROR"), Event("EVENT"), Malformed}

Payload(event, nested) == [event |-> event, nested |-> nested]
Started == Payload(RunEvent("RUN_STARTED"), "no")
Finished == Payload(RunEvent("RUN_FINISHED"), "no")

MCProducers ==
  { {Started, Finished, Payload(Event("EVENT"), "no")},
    {Started, Payload(Event("RUN_ERROR"), "no"), Payload(Malformed, "payload")},
    {Started, Finished, Payload(Event("EVENT"), "arguments")} }

MCCalls ==
  [source : {"body"}, contentType : {None, "ndjson"}, timeout : {FALSE}]
  \cup [source : {"endpoint"}, contentType : {"other"}, timeout : {TRUE}]
  \cup [source : {"recording", "list"}, contentType : {None}, timeout : {FALSE}]

MCOptions ==
  { [overrides |-> EmptyDict, features |-> {"shared-state"}, listener |-> "hears", maxWarnings |-> 0],
    [overrides |-> [rule \in {"AGUI508"} |-> "off"], features |-> {}, listener |-> "breaks",
     maxWarnings |-> NoLimit] }

-----------------------------------------------------------------------------
Argument(text, flag, inline) == [text |-> text, flag |-> flag, inline |-> inline]
Plain(text) == Argument(text, Absent, Absent)
Flag(flag) == Argument(flag, flag, Absent)

MCUrls == {"http://agent"}
MCAssignments == [t \in {"AGUI003=info"} |-> [rule |-> "AGUI003", severity |-> "info"]]
MCCounts == [t \in {"0"} |-> 0]
MCDurations == [t \in {"1"} |-> 1000]
MCFeatureLists == [t \in {"shared-state"} |-> {"shared-state"}]

Overriding ==
  {Plain("http://agent"), Argument("--off=AGUI003", "--off", "AGUI003"), Flag("--rule"), Flag("--off"),
   Plain("AGUI003=info"), Argument("--timeout=1", "--timeout", "1")}
Writing ==
  {Plain("http://agent"), Plain("-"), Flag("--json"), Flag("--group"), Flag("--json-file"),
   Argument("--sarif=", "--sarif", ""), Flag("--sarif")}
Failing ==
  {Plain("stream.jsonl"), Flag("--fail-on"), Plain("none"), Flag("--max-warnings"), Plain("0"),
   Flag("--help"), Flag("--bogus")}

\* At most four arguments that override, three of the others.
MCCommandLines ==
  UNION {[1..n -> Overriding] : n \in 1..4}
  \cup UNION {[1..n -> Writing] \cup [1..n -> Failing] : n \in 1..3}

=============================================================================
