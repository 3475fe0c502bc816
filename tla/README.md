# A verification development of ag-ui-validate

`ag-ui-validate` reads a stream of AG-UI protocol events and reports the rules
the stream breaks (AGUI001 to AGUI903). It exists twice, in Python (`py/`) and in
TypeScript (`js/`), kept equal by a parity test. The modules here are translated
from the Python source (`py/src/ag_ui_validate`).

A validator has one way of being right: for every stream it reports what the
stream deserves, at the event that deserves it, and nothing else. Most properties
of the engine say that, by comparing the state machine's findings with a
declarative statement about the whole stream, which the state machine does not
remember. Around the engine the question is another one: that the engine is fed
what was sent, and that its user learns what it found, whatever the network, a
callback or a handler does.

## The system

| Part | Source | State | Operations |
|---|---|---|---|
| Engine | `engine.py` | event counter, finalized flag, current run, latches of the stream, diagnostics, internal errors | `feed`, `finalize`, `emit_external`, `mark_skipped`, `report` |
| Run lifecycle | `engine.py`, `lifecycle.py` | name, start, terminal event, implicit flag of the run | RUN_STARTED, RUN_FINISHED, RUN_ERROR, first event of an unannounced run |
| Text messages | `text.py` | open, closed, known messages, owners, text chunk stream | START, CONTENT, END, CHUNK |
| Tool calls | `toolcalls.py` | open, closed, known calls, their arguments, tool chunk stream | START, ARGS, END, RESULT, CHUNK |
| Steps | `lifecycle.py` | counter, first index and owner of each open step | STARTED, FINISHED |
| Reasoning | `reasoning.py` | open blocks and messages, reasoning chunk stream | START, END, message START, CONTENT, END, CHUNK |
| Subagents | `subagents.py` | open, closed (resumable or not) and known subagents | STARTED, FINISHED, ERROR |
| Shared state | `state.py` | the document, whether known, deltas since the last snapshot | STATE_SNAPSHOT, STATE_DELTA, MESSAGES_SNAPSHOT |
| JSON Patch | `protocol/jsonpatch.py` | the copy being patched | six operations |
| Readers | `transport/sse.py`, `transport/ndjson.py`, `_sniff_format` | text buffer, frame so far, id in force, chunks held | next chunk, next line, end of body |
| Transport | `transport/__init__.py` | read under way, chunk count, gaps, `run_open`, `transport_error` | `validate_endpoint`, `validate_body`, `feed_raw` |
| Report | `engine.py`, `cli_args.py` | overrides, layers, explicit skips | severities, summary, skipped rules, exit code |
| Command line | `cli.py`, `cli_args.py` | position, targets, configuration | `parse_cli_args`, `_run`, `main` |
| pytest plugin | `pytest_plugin.py` | none | `validate_agui`, `assert_valid_agui`, the endpoint forms |

How they interact. The command or a test calls the transport; the transport pulls
chunks from the connection, a reader cuts them into items, and `feed_raw` hands
each payload to `feed` and each finding to the caller's listener. `feed` numbers
the input, turns away what it cannot read or does not know, checks the schema,
places the event in a run, closes the chunk streams of the other forms and calls
the handler of the event's category. The handlers share the `RunState`: tool calls
read the owners of messages and the known message ids, MESSAGES_SNAPSHOT (a state
event) teaches ids to both, and the end of a run calls the end-of-run check of
every component. After the body the transport adds its own findings, calls
`finalize`, and the report decides the exit code or the assertion.

Which behaviours are hard. Inside the engine nothing runs concurrently: what is
hard is the *protocol*. Every handler decides by state that other handlers, the
implicit closing of chunks, a new run or a swallowed exception changed before.
Around it, the network cuts the body where it likes, fails or falls silent at any
read, and listeners raise. An exception half-way through a handler keeps what was
done and loses the rest; the transport and the core each keep their own idea of
whether a run is open. `PROJECT.json` lists the hazards with their lines and the
properties aimed at them.

What makes each part right:

- run lifecycle: one scope at a time, named once, ended once; nothing changes it
  after its end but a new run;
- text, tool calls: an id is in one form (open, streaming as chunks, closed) and
  moves forward only; owners are the first event's; unterminated work is
  reported at a clean end, once;
- steps: counters are the excess of starts over matched finishes;
- reasoning: content belongs to an open message;
- subagents: only a suspended one resumes;
- shared state: the document is the last snapshot with the deltas that applied
  since, of this run;
- JSON Patch: all or nothing, and what RFC 6902 says;
- engine: each component sees exactly the steps its own module allows;
- readers: the items are those of the text, wherever it was cut;
- transport: a drop inside a run is told, and nothing else is; the call ends when
  the network lets it;
- report: the listener hears all of it, a skipped rule is silent, a stream that
  stopped inside a run is not called clean.

## The modules

    Dicts            Python dictionaries: Put, Drop
    RunScope         what every component sees of the engine: position, terminal, finalized
      TextMessages   ToolCalls   Steps   Reasoning   Subagents   SharedState   RunLifecycle
    Validator        the composition: an INSTANCE of each of the seven
    Positions        sets of positions in a sequence: the first, the latest, the n-th, their values
    StreamLog        the stream remembered: the positions of the run
      Forms          the two forms of an id: opened by START, streamed by chunks, closed
        TextHistory    ToolHistory
      LifecycleHistory
      RunHistory     StepHistory, ReasoningHistory, SubagentHistory, StateHistory of one stream
    JsonPatch        apply_patch as a state machine
    PatchReference   RFC 6902 stated over flat documents
    StreamText       the symbols a body is made of, and the items of a text, read off the whole
      EventStream    what a reader promises: the items of what has arrived, in order
      Framing        the readers, chunk by chunk and line by line
    Report           severities, overrides, skipped rules, exit code
      Transport      a call of validate_endpoint, validate_body or validate_agui over RunLifecycle
      Arguments      parse_cli_args
      Command        the command and the plugin: Transport and Arguments together
    *_proofs         proofs about a module (Command_proofs: RunLifecycle and the layers over it);
                     RunScopeTheorems and PositionTheorems hold the shared lemmas
    MC*              TLC instances

Each component module of the engine describes the component and, as an
environment, what the rest of the engine may do to it. A step is one call of
`feed` or `finalize`, as in the code: `feed` is synchronous. What an input is to a
component is one of six things, defined once in `RunScope`: an event of its own
(`Judged`), an event of another component (`...Elsewhere`: chunk streams close),
an input no rule judges (`...Unjudged`), a new run (`...NewRun`), the terminal
event (`...Ends`) and `finalize` (`...Finalize`).

| TLA+ | Code |
|---|---|
| `eventCount`, `terminal`, `finalized` | `StreamState.event_count`, `RunState.terminal`, `Validator._finalized` |
| `openMessages`, `closedMessages`, `messageOwner`, `textChunk`, ... | the fields of `RunState`, in the source's names |
| `textFound`, `toolFound`, ... | the diagnostics the component emitted for the last input, as a set of [rule, at, id, related] |
| `CloseTextChunk`, `CloseToolChunkAndReport` | `close_text_chunk`, `close_tool_chunk` (with `_check_args_json`) |
| `TextMessageStart` ... `TextMessageChunk` | the branches of `handle_text_event`, early returns included |
| `UnterminatedMessages`, `UnterminatedCalls`, ... | `end_of_run_text`, `end_of_run_tool_calls`, ... |
| `EnsuresRun`, `Legitimized`, `RunStarted`, `RunEnds` | `_ensure_run` and steps 6 to 8 of `_process_event` |
| `FeedText`, `FeedTerminal`, ... | a path through `_process_event`, all components moving together |
| `Patched` / `Applied` | the outcome of `apply_patch`; a parameter in SharedState, modelled in JsonPatch |
| `Receive`, `Replay`, `Decide` | the loops over `source`, `replay` and the guess of `_sniff_format` |
| `Dispatch`, `CommentLine`, `Field`, `UnknownField` | the branches of `handle_line`; `LineEnd` and `AfterLine` are `drain` |
| `Item` | `feed_raw`, the second `json.loads` and the calls to the listener included |
| `Escapes` | the `except` clause of `validate_body`; `HandlesFailure` is the rest of it |
| `HandlerFails`, `ParserFails` | the `except` clause of `feed` |
| `Opens`, `LeavesLoop`, `WrapsUp` | `validate_body` before, at the end of and after the loop |
| `pc` | where the caller waits: main, fetch, open, sniff, read, failed, wrap up, list, and how the call ended |

Abstractions. Ids, names and documents are model values. An argument text is the
sequence of its fragments, and `JsonTexts` says which texts are JSON. `None`
stands for an absent field or one that is no string (`str_field`). A finding
keeps the rule, the index it is about, the entity it names and the related
index; wording and pointers are left out. A delta is a patch, no array, a list
that is not a patch, or one whose "op" cannot be hashed. In JsonPatch a pointer is
its sequence of unescaped tokens and `IndexOf` says which token writes which array
index; a failing operation leaves `result` alone, because the code drops the copy
it was changing.

In Framing a text is a sequence of symbols, a symbol being all that the readers
tell apart: the field names with their colon, white space, line ends, the byte
order mark, what opens a JSON text, NUL, and the rest. Decoding leaves one trace:
a body cut inside a character ends with a replacement character (`EndOfBody`).

Transport leaves open what Framing decides: a chunk is an occasion for any number
of items, each a payload of the producer's. A payload may be nested too deeply for
`json.loads`, in its arguments or as a whole. Of the findings of the other
components it keeps that an event handled to its end may break one rule
(`CategoryRules`), and of clocks whether a gap was late. `Command` reuses the
variables of a parsed command line no more (`Validates`), so that the calls it
makes are counted once.

Of severities, `Report` leaves out the one a rule may give a diagnostic itself: in
the code it comes between the caller's override and the catalog's, and only
AGUI503 uses it, "info" for an event type documented as a draft. The unknown types
of RunLifecycle are none of those, so that AGUI503 is an error, as the catalog says.

`Validator` takes the schema check into account only for the ids a component's
event must carry (`ValidatesSchema`); RunLifecycle models that of timestamps and
of run ids.

## The runs

| Run | Instance | Bounds | What it shows |
|---|---|---|---|
| `text` | MCTextHistory | 5 inputs, 2 ids, 1 subagent, 9 events | findings and open messages are those the stream deserves; an id has one form; a closed message and an owner never change |
| `toolcalls` | MCToolHistory | 5 inputs, 2 calls, 2 fragments, 8 events | the same for calls; arguments are judged in order, once, when the call closes |
| `runhistory` | MCRunHistory | 5 inputs of one of five alphabets | steps, reasoning, subagents and state: counters, returns, the replay of the document, and the findings of each |
| `lifecycle` | MCLifecycle | 5 inputs, 2 runs, 13 inputs | run scopes, latches, end of stream |
| `validator` | MCValidator | 5 inputs, 1 id of each kind | debris at clean ends only and all of it; an ended run is frozen; only its own chunks continue a chunk stream; the composition implements each component's specification |
| `jsonpatch` | MCJsonPatch | 2 operations, 5 documents, 8 pointers | the result is RFC 6902's; a misshapen patch changes nothing |
| `framing` | MCFraming | bodies of 6 to 9 symbols, chunks of 1 or 2 | what was delivered begins the items of all that has arrived; the readers implement the event stream format, and deliver all of it in the end |
| `command` | MCCommand | 3 inputs, command lines of 3 or 4 arguments, 3 producers, 5 kinds of call | transport and core agree on the run; drops are told; the listener hears all; skipped rules are silent; the parser reads what was written; broken runs are not clean; calls return |
| `new_runs` | MCLifecycle | as `lifecycle` | violated: SQ-6 of docs/spec-questions.md |
| `mixing_forms` | MCTextHistory | as `text` | violated: SQ-9 of docs/spec-questions.md |
| `bad_patch` | MCRunHistory | as `runhistory` | violated: an "op" that is a list or an object raises |
| `transport_error` | MCCommand | as `command` | violated: transport_error without a connection that failed |

The bounds. `MaxEvents` is 5 inputs, and `finalize` after each prefix. Five is
enough for the longest patterns the handlers distinguish: a run that opens
something, closes it, uses it again, ends, and starts anew; or a chunk, its
implicit closing, an explicit event of the same id and a terminal event. A run
that remembers its stream merges few states, so the inputs are a selection: each
rule of the component has an event that fires it and one that just does not. In
`runhistory` a stream is drawn from the events of one component or from a mixed
alphabet, since the four share no rule but do share the closing of chunks and the
end of the run. In `jsonpatch` two operations are enough for the second to meet
what the first moved; the pointers lead to members, elements, one past the end,
"-" and nowhere.

In `framing` every family of bodies is about one thing: two frames with names
between them, lines ended by CR, LF or both over any cut, ids and NUL, comments
and byte order marks, the guess, and NDJSON. Two symbols a chunk cut a CRLF in
every way, `SniffLimit` is 3 for the 4096 of the code, so that a first line can be
longer than what is looked at. In `command` three inputs let a run start, fail
inside a handler and go on; what an option means is in the family of command lines
that uses it; AGUI501 is reported once (a second adds nothing a first does not).

`ComponentsImplemented` is the refinement that makes the component runs say
something of the engine: the validator's steps, seen through the variables of a
component, are steps of that component's specification. It does not say which of
them: to a component, an event that closes no chunks looks like an input that no
rule judges. `OthersInterruptChunks` does, over the three kinds of chunk streams at
once: an input that was not turned away leaves a stream open only if it is a chunk
of its form. `ReadsTheStream` is the
refinement of the readers: `EventStream` is read off the whole text received, as
the WHATWG format defines it, and knows no buffer, chunk or frame; Framing
delivers, in order, what `EventStream` says the text contains. `ReadsToTheEnd` adds
that all of it is delivered in the end, and `DeliveredIsSettled` what the steps
alone do not say: text that arrives later revises nothing that was delivered.

`CHECK_DEADLOCK FALSE` is said everywhere because a stream ends: after
`MaxEvents` inputs and `finalize`, after `apply_patch` returned, after a body was
read or a call answered, nothing is left to do.

The history modules stop feeding at `finalize`, as every caller in the repository
does; the component modules and `Validator` do not.

Fairness. The engine states none: `feed` and `finalize` are synchronous calls that
return, and whether a producer sends another event is nobody's promise. `Framing`
assumes `WF(Reads)`: a generator that has a line to take or a chunk to replay runs
on; nothing is asked of the network, so the promise is that everything the text
received settles is delivered (`ReadsToTheEnd`, the `Progress` of EventStream).
`Command` assumes weak fairness of the program's own steps and of the timeout,
when there is one; of the endpoint, nothing. Under that, `Returns` says exactly
when a call ends: always, unless the network goes on sending for ever or, without
a timeout, leaves the reader waiting. A read of a file or of a list is a network
that always answers.

## What disagrees with its documentation

1. SQ-9 says that mixing the chunk form and the explicit form of an id is not
   flagged. It is, when the chunk comes first: the chunk stream closes before the
   explicit event is handled (`mixing_forms`).
2. A STATE_DELTA whose operation has a list or an object as "op" raises inside
   `validate_patch_shape`, and no rule reports it (`bad_patch`).
3. `transport_error` is "present when the connection failed mid-stream"
   (transport/__init__.py:120). A payload nested too deeply raises RecursionError
   in the second `json.loads` of `feed_raw`, and so does a listener of its own: the
   loop takes both for a dropped connection and the rest of a healthy body is not
   read (`transport_error`).
4. SQ-6 (docs/spec-questions.md:100) says that "a `RUN_STARTED` with a new `runId`
   after a clean terminal event opens a new run scope (no diagnostic). Any *other*
   event after a terminal event is AGUI004". The code opens one for every
   RUN_STARTED after any terminal event (engine.py:285): one that repeats a runId,
   one without, and one that follows a RUN_ERROR, though the comment there speaks
   of "a clean terminal" too. None is reported (`new_runs` stops at a RUN_ERROR
   followed by a RUN_STARTED; r0 started, finished and started again is another of
   its counterexamples). `LifecycleFindingsExact` and its theorem follow the code
   here: a RUN_STARTED after a terminal event deserves nothing for its place, by the
   rule of the code and not by that of SQ-6.

Seen while modelling, in the modules, and stated by no run of their own:

- the comment at reasoning.py:81 says chunked reasoning closes on non-reasoning
  events. It closes on any event that is not a reasoning chunk, which also makes
  `open_chunk` at reasoning.py:44 always false (`ReasoningContent`,
  `OthersInterruptChunks`);
- the timeout of the HTTP client bounds each operation, while the usage text says
  "abort the request after this long" (cli_args.py:89); `Returns` allows for a
  server that goes on sending;
- a read that fails while the format is guessed (transport/__init__.py:235) is
  outside the `try`: it escapes as it is, for recordings too (`Breaks`), where the
  comment at line 104 promises a TransportError;
- arguments nested too deeply end the handler that closes their chunk, and the
  event is lost: after a RUN_FINISHED lost so, `finalize` reports a false AGUI003,
  and when `finalize` itself closes the chunk AGUI003 is missing and the exit code
  is 0 (`HandlerFails`, `FinalizeRaises`). `RunOpenAgrees`, `DropsAreTold` and
  `BrokenRunsAreNotClean` except the runs in which a handler broke, and only them;
- the exit code looks neither at `transport_error` nor at `internal_errors`;
- an NDJSON body that opens with a byte order mark is guessed to be an event
  stream (`Guess`).

## What is proved

For every value of the constants and streams of any length (`MaxEvents` is any
natural number), by TLAPS:

| Module | Invariant | Theorems |
|---|---|---|
| TextMessages_proofs | `TextInv`: types, one form per message, no chunk stream in a run that ended, open messages have the recorded owner | `TextTypeCorrect`, `MessagesHaveOneForm`, `ChunksEndWithTheirRun`, `MessageHistoryStable` |
| | `HistoryInv`: `TextInv`, and `MessageMirrored` for every message | `TextExact`, `OpenMessagesTold`, `HistoryImplementsText` |
| ToolCalls_proofs | `ToolInv`: types, one form per call | `ToolTypeCorrect`, `CallsHaveOneForm`, `CallHistoryStable` |
| | `HistoryInv`: `ToolInv`, `CallMirrored` for every call, `SharedMirrored` for what the snapshots and messages taught | `ToolExact`, `OpenCallsTold`, `HistoryImplementsTools` |
| RunHistory_proofs | `SubagentInv`: types, one form per subagent | `SubagentTypeCorrect`, `SubagentsHaveOneForm`, `SubagentsStayGone` |
| | `StateInv`: types, and documents are founded on a snapshot | `StateTypeCorrect`, `StateFounded` |
| | none: step by step; types of steps and reasoning | `RunImplementsComponents`, `RunComponentsTypeCorrect` |
| | the reasoning and subagent dictionaries mirror the stream | `ReasoningExact`, `SubagentsExact` |
| | `StepMirrored` for every step: its counter is the peak of its surplus | `StepsExact`, `StepsCounted` |
| | `StateInv`, and `StateMirrored`: the document is the replay of the stream | `StateExact`, `StateValueTold` |
| Validator_proofs | none: step by step | `ValidatorImplementsComponents`, `EndedRunsAreFrozen`, `DebrisIsToldAtCleanEnds` |
| | `ChunksEnd`: no chunk stream outlives its run | `ChunksAreInterrupted` |
| | `DebrisInv`: the terminal event was fed, a run holds finitely many entities, and the statement | `DebrisIsTold` |
| Command_proofs | `LifecycleInv`: types, and terminals follow starts | `RunTypeCorrect`, `TerminalsFollowStarts`, `RunsKeepTheirNames` |
| | `HistoryInv`: `LifecycleInv`, and the run scope is what the stream announced | `LifecycleExact`, `HistoryImplementsLifecycle` |
| | `CommandInv`: the invariant of the run scopes, what holds before a call begins, the agreement of the layers, what the listener heard | `ScopesSurviveExceptions`, `LayersAgree`, `ListenersHearAll` |
| | `CallInv`: `CommandInv`, the report has grounds and is complete (`ReportInv`), the exit code follows from it (`VerdictInv`) | `TransportTypeCorrect`, `DropsTold`, `SkippedSilent`, `BrokenRunsNotClean` |
| | `ArgumentsInv`: the configuration and the targets are what the arguments before the position say | `CommandLinesParsed` |
| Framing_proofs | `ReadingInv`: what was read ends where a line ends; the frame so far and the items delivered are those of the lines read | `ReadingInvHolds`, `FramingTypeCorrect`, `WhatIsDeliveredStands`, `ReadersDeliverInOrder` |

The argument. That an id has one form is not inductive by itself: START admits an
id that is neither open nor closed, so the invariant must also say that no chunk
stream holds it, which is true because the stream was closed into
`closedMessages` before the handler looked; and for messages, that exactly the
ids that took a form have an owner, so that a first event never overwrites one.
Types are part of the invariant because the dictionaries' domains are what the
handlers test. The action properties (what is closed stays closed, an owner never
changes, a run keeps its name, a subagent stays gone) follow step by step from
the invariant in the state before.

That the findings are exact compares a state machine, which keeps dictionaries
of the present, with statements about every position of the stream. The
invariant between the two is a mirror: each dictionary entry is what the stream
says of its id now (`MessageMirrored`: a message has an owner exactly when some
event of the run introduced it, is open exactly when no END followed, and its
entry names the position that opened it). One lemma per statement says what one
more position of the log changes (`...Grows`), one that what the stream said of
the past it still says (`...Past`), one per handler that the dictionaries move
alike (`...Moves`), and then the findings follow from the mirror. Messages and
tool calls have the same two forms, so what the stream says of them is written
once (`Forms`) and its lemmas are proved once (`RunScopeTheorems`), for a kind of
id given by the names of its events.

The arguments of a call are a selection from the stream: the deltas at the
positions that extend the call, in order (`Deltas`). Its mirror says that this
sequence is the one accumulated, and one more position appends to it or leaves it
(`ArgumentsMove`), because a new position is later than every old one and so is
the last of the selection. That a set of positions which is not empty has a first
one and a last one, and that the n-th exists, are inductions (`FirstExists`,
`LatestExists`, `NthExists`). The theorem about induction in the library takes an
operator, which the provers here cannot instantiate; `SetInduction` says the same
with a set, and is proved from the well-foundedness of strict inclusion among
finite sets.

The counter of a step is told by the stream as the greatest surplus of starts over
finishes that any suffix of the run has, and 0 when none has one: the finishes that
found nothing open count for nothing. The mirror says so without a maximum (`Peak`:
the counter is one of these numbers, and no other is greater), one more position
adds the same to each of them (`SurplusGrows`), and `MaxIs` turns the peak into the
`Max` of the statement. The document of the shared state is told as a replay, a
recursive function over the positions from the last snapshot on; that two replays
agree on the past is an induction over these positions (`ReplaysAgree`), that the
next position tries one more patch follows from it (`ReplayGrows`), and what
patches do to documents stays a parameter.

`ValidatorImplementsComponents` needs no invariant: it has one lemma per
component, and each goes through the paths of `feed` and finds the step of the
component's specification that the path is. With it what is proved of a component
under its own specification is proved of the validator.
`DebrisIsToldAtCleanEnds` rests on the same lemmas: each step of a component
reports unterminated work only if the step is the RUN_FINISHED of the run, or
`finalize` while the run is open (`Fits`). That the clean end reports all of it, and
each entity once, counts: the dictionaries are finite, because a step adds at most
one key (`AddsOne`), each of the six reports one finding for each key
(`OneFindingEach`), and no finding belongs to two of them (`DebrisCount`). Whatever
comes after the RUN_FINISHED moves the position on, so that the report judged is
always that of the step which ended the run (`DebrisStep`).

`CommandInv` carries `LifecycleInv` through a call in which handlers, the parser
and the listener may raise: an event lost half-way leaves the run scope as it was,
which the types of the events alone would not tell. That the transport's flag and
the run scope agree is then a matter of the four kinds of payload
(`InputsAgree`); the exception that breaks the agreement sets `internalError`,
which the property excepts.

What is reported of a call is a sequence that only grows, made of batches; `ReportInv`
looks at it in two directions. What was reported has grounds (`Grounds`): a rule of
the transport layer is reported by a transport, AGUI501 by an event stream, AGUI508
after a failure inside an announced run. And what must be reported by now is
(`Concluded`): AGUI508 from the place where failures are handled on, AGUI003 once
the call returned with a run open. Neither is inductive without the course of the
call (`Course`): which places a failure leads to, that a list is validated by the
core alone, that nothing is marked before the body is opened. That a rule listed as
skipped was never reported then compares the marks with the grounds, and an exit
code 0 after a stream that stopped inside a run contradicts AGUI003, which counts
as an error unless it was overridden. `EmittedIsBatch` says what one call of `emit`
after the other adds, by induction over the rules; `InOrderIs` that findings, in
whatever order, are all listed, and that they are finitely many is a lemma of each
handler (`InputFindsFinitely`).

`ParsedAsWritten` looks back at a whole command line, the parser only ahead. Which
arguments are values is a table in which each entry depends on the one before
(`IsValue`); that there is one is not taken from induction but from saying what is in
it, the arguments before which the flags that take one are odd in number
(`TableExists`). The statement is then cut at the position of the parser
(`ReadSoFar`): every definition of it takes the arguments before n, one more
argument changes it in one way (`UsesGrow`, `GivenGrows`, `OverridesGrow`), and that
is what the function of the flag does to the configuration (`AppliedFields`,
`FlagRead`). Past the last argument the cut is the statement.

The readers go through the text once and forget it; `StreamText` reads the items
off the whole text, a line known by the position where it ends, and forgets
nothing. `ReadingInv` puts the one inside the other. The text received is what was
read, the buffer and the chunks held, in this order (`PlaceInv`), and what was read
ends where a line ends or at the byte order mark (`MarkInv`), which is what makes
the buffer's first line the next line of the text (`LineEndIs`, `LineTaken`). The
frame so far, with the id in force, is that of the lines read (`FrameInv`), and the
items delivered are theirs (`ItemsInv`). Three things then have to be shown. Text
that arrives changes no line already read (`LinesStay`, `TextArrives`): a CR that
ends the text is no end yet, so that a cut inside a CRLF is no different from one
elsewhere. The end of the body does not either: it settles only what was held back.
And one more line changes the frame, the id and the items exactly as the branch of
`handle_line` does that takes it (`FrameOfMore`, `ItemsOfMore`); that a new position,
being the last, appends its value to those in order is `ValuesInOrderOfMore`. The
refinement follows from the invariant before and after each step: a step that
delivers an item appends the next of those the text has settled (`Delivery`),
the guess made over the chunks held is the one over the text (`DecideGuesses`), and
a reader that closes has delivered all. The lengths of bodies, chunks and of
what is looked at for the guess are any.

The assumptions are the named ASSUMEs of the modules: inputs are of the events'
types, a patch applied to a document gives a document or fails, payloads are
inputs of the stream, what an event breaks besides is a rule of its category, an
override is a severity or "off", a command line is a sequence, and `None` is no id,
no owner, no terminal event, no chunk stream, no format and no failure. Those about
`None` hold in Python because `None` is no string and no record; here `None` could
be any value, so they are said.

`TerminalFollowsStart`, `SubagentHasOneForm` and `StateIsFounded` are proved and
checked by no run: they are the parts of inductive invariants that the exact
findings of their components rest on, and a run of those shows more.

Only model-checked: JSON Patch (`PatchTypeOK`, `PatchResultExact`), because documents
are trees of any depth and `apply_patch` and its reference are recursive operators,
about which nothing can be said here without induction over data; and liveness
(`Returns`, `ReadsToTheEnd`), which is out of the prover's reach.

## What is not modelled

Messages and pointers of diagnostics; the feature matrix, which no rule reads; the
schema checks of fields no rule of ordering reads; the four output formats; the
loading of the catalog; a standard output that cannot be written; the TypeScript
package with its matcher and its action; the development scripts. The rule catalog
and the event table are data. UTF-8 decoding, floats and clocks are abstracted as
said above.

## Plan

1. Done: the run scope, the seven components, their composition, JSON Patch.
2. Done: the readers, the transport, the report, the command line and the plugin,
   with their refinement, their fault model and their liveness.
3. An abstract producer: a stream made by a well-behaved agent has an empty
   report.
4. SharedState with JsonPatch's outcome for `Applied`; the items of Framing as the
   payloads of Transport.
5. Done: the readers' items do not depend on the cut, for texts of any length
   (`WhatIsDeliveredStands`, `ReadersDeliverInOrder`).
