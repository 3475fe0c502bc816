------------------------------ MODULE Framing ------------------------------
(***************************************************************************)
(* The readers of a response body: the event stream parser                 *)
(* (transport/sse.py), the NDJSON splitter (transport/ndjson.py) and the   *)
(* guess of the format (_sniff_format, transport/__init__.py).  The body   *)
(* arrives in chunks cut anywhere.  A reader pulls: it asks for the next   *)
(* chunk when it has drained the last one.                                 *)
(***************************************************************************)
EXTENDS StreamText, FiniteSets, SequencesExt

CONSTANTS
  Bodies,       \* bound: the bodies of one behaviour: symbols, formats, length
  SniffLimit,   \* characters read at most before the format is guessed
  MaxChunk      \* bound: length of a chunk

ASSUME FramingAssumption ==
  /\ \A b \in Bodies : /\ b.symbols \subseteq Symbols /\ b.length \in Nat
                        /\ b.formats \subseteq {"sse", "ndjson", "unknown"}
  /\ {SniffLimit, MaxChunk} \subseteq Nat \ {0}

VARIABLES
  body,           \* the bodies considered
  received,       \* the text that has arrived
  ended,          \* the body is complete
  format,         \* "unknown" while _sniff_format reads
  delivered,      \* the items yielded
  held,           \* chunks read before the format was known, to be replayed
  buffer,         \* the text that belongs to no finished line
  sawFirstChars,
  dataLines, eventName,   \* the frame so far
  lastId,         \* the id in force, in a set: it may be none
  closed          \* the generator has returned

bodyVars == <<body, received, ended>>
frameVars == <<dataLines, eventName, lastId>>
bufferVars == <<buffer, sawFirstChars>>
framingVars == <<bodyVars, format, delivered, held, bufferVars, frameVars, closed>>

FramingInit ==
  /\ body \in Bodies
  /\ received = <<>> /\ ended = FALSE
  /\ format \in body.formats     \* the content type tells, or nothing does
  /\ delivered = <<>>
  /\ held = <<>>
  /\ buffer = <<>> /\ sawFirstChars = FALSE
  /\ dataLines = <<>> /\ eventName = <<>> /\ lastId = {}
  /\ closed = FALSE

-----------------------------------------------------------------------------
(* Lines *)

\* str.find: the first position of a symbol, 0 when there is none.
Find(symbol) == SelectInSeq(buffer, LAMBDA s : s = symbol)

\* The reader knows that nothing follows the buffer.
AtEnd == ended /\ held = <<>>

\* Mutant: a CR at the end of a chunk ends its line at once.
EndsAtCR == Find("CR") # 0 /\ (Find("LF") = 0 \/ Find("CR") < Find("LF"))

\* A CR before any LF ends a line of an event stream; one at the end of a chunk
\* may be half of a CRLF and waits.
EndsWithCR ==
  /\ Find("CR") # 0 /\ (Find("LF") = 0 \/ Find("CR") < Find("LF"))
  /\ Find("CR") # Len(buffer) \/ AtEnd

WaitsForLF ==
  Find("CR") # 0 /\ (Find("LF") = 0 \/ Find("CR") < Find("LF")) /\ ~EndsWithCR

\* Where the next line ends, 0 when it does not yet.
LineEnd ==
  CASE format = "sse" /\ EndsWithCR -> Find("CR")
    [] format = "sse" /\ WaitsForLF -> 0
    [] OTHER -> Find("LF")

Line == SubSeq(buffer, 1, LineEnd - 1)

\* A CR and the LF after it are one end.
AfterLine ==
  LET isCRLF == /\ buffer[LineEnd] = "CR" /\ LineEnd < Len(buffer)
                /\ buffer[LineEnd + 1] = "LF"
  IN  SubSeq(buffer, LineEnd + (IF isCRLF THEN 2 ELSE 1), Len(buffer))

-----------------------------------------------------------------------------
(* Chunks *)

\* One byte order mark at the start of an event stream is dropped.
Buffers(chunk) ==
  /\ buffer' = IF format = "sse" /\ ~sawFirstChars /\ StartsWith(buffer \o chunk, "BOM")
               THEN Tail(buffer \o chunk) ELSE buffer \o chunk
  /\ sawFirstChars' = TRUE

Sniffs ==
  /\ format = "unknown" /\ ~ended
  /\ "LF" \notin ToSet(received) /\ Len(received) < SniffLimit

\* The reader asks for a chunk: to see the first line, or with nothing left to
\* replay and no line left to take.
Asks == Sniffs \/ (format # "unknown" /\ held = <<>> /\ LineEnd = 0)

Receive ==
  /\ Asks /\ ~ended
  /\ \E n \in 1..MaxChunk : \E chunk \in [1..n -> body.symbols] :
       /\ Len(received) + n <= body.length
       /\ received' = received \o chunk
       /\ IF format = "unknown"
          THEN held' = Append(held, chunk) /\ UNCHANGED bufferVars
          ELSE Buffers(chunk) /\ UNCHANGED held
  /\ UNCHANGED <<body, ended, format, delivered, frameVars, closed>>

\* The body ends.  The decoder turns a character cut in half into a replacement
\* character; while the format is unknown that happens when the chunks held are
\* replayed.
EndOfBody ==
  /\ Asks /\ ~ended
  /\ ended' = TRUE
  /\ \E remainder \in {<<>>, <<"x">>} :
       /\ received' = received \o remainder
       /\ IF format = "unknown"
          THEN held' = (IF remainder = <<>> THEN held ELSE Append(held, remainder)) /\ UNCHANGED buffer
          ELSE buffer' = buffer \o remainder /\ UNCHANGED held
  /\ UNCHANGED <<body, format, delivered, sawFirstChars, frameVars, closed>>

\* Mutant: the guess looks at the first chunk alone.
DecidesAtOnce ==
  /\ format = "unknown" /\ held # <<>>
  /\ format' = IF OpensJson(Head(held)) THEN "ndjson" ELSE "sse"
  /\ UNCHANGED <<bodyVars, delivered, held, bufferVars, frameVars, closed>>

\* _sniff_format: NDJSON is guessed when the first line opens a JSON text.
Decide ==
  /\ format = "unknown" /\ ~Sniffs
  /\ format' = IF OpensJson(FirstLine(FlattenSeq(held))) THEN "ndjson" ELSE "sse"
  /\ UNCHANGED <<bodyVars, delivered, held, bufferVars, frameVars, closed>>

\* Mutant: the chunk read last is replayed first.
ReplaysLastFirst ==
  /\ format # "unknown" /\ held # <<>> /\ LineEnd = 0
  /\ Buffers(Last(held))
  /\ held' = Front(held)
  /\ UNCHANGED <<bodyVars, format, delivered, frameVars, closed>>

\* replay: the chunks held are read before those still to come.
Replay ==
  /\ format # "unknown" /\ held # <<>> /\ LineEnd = 0
  /\ Buffers(Head(held))
  /\ held' = Tail(held)
  /\ UNCHANGED <<bodyVars, format, delivered, frameVars, closed>>

-----------------------------------------------------------------------------
(* sse_items: handle_line *)

TakesLine ==
  /\ LineEnd # 0
  /\ buffer' = AfterLine
  /\ UNCHANGED <<bodyVars, format, held, sawFirstChars, closed>>

Delivers(item) == delivered' = Append(delivered, item)

\* Mutant: the name of an event that carried no data is kept for the next one.
DispatchKeepsName ==
  /\ format = "sse" /\ TakesLine /\ Line = <<>>
  /\ dataLines' = <<>> /\ UNCHANGED lastId
  /\ IF dataLines \in {<<>>, <<(<<>>)>>} THEN UNCHANGED <<delivered, eventName>>
     ELSE Delivers(Event(dataLines, {eventName} \ {<<>>}, lastId)) /\ eventName' = <<>>

\* A blank line dispatches the frame; one without data is dropped.
Dispatch ==
  /\ format = "sse" /\ TakesLine /\ Line = <<>>
  /\ dataLines' = <<>> /\ eventName' = <<>> /\ UNCHANGED lastId
  /\ IF dataLines \in {<<>>, <<(<<>>)>>} THEN UNCHANGED delivered
     ELSE Delivers(Event(dataLines, {eventName} \ {<<>>}, lastId))

CommentLine ==
  /\ format = "sse" /\ TakesLine /\ StartsWith(Line, ":")
  /\ Delivers(Comment(Tail(Line)))
  /\ UNCHANGED frameVars

Field ==
  /\ format = "sse" /\ TakesLine /\ Line # <<>> /\ Head(Line) \in Fields
  /\ dataLines' = IF Head(Line) = "data:" THEN Append(dataLines, Valued(Line)) ELSE dataLines
  /\ eventName' = IF Head(Line) = "event:" THEN Valued(Line) ELSE eventName
  /\ lastId' = IF Head(Line) = "id:" /\ "NUL" \notin ToSet(Line) THEN {Valued(Line)} ELSE lastId
  /\ UNCHANGED delivered

\* A field of no known name is ignored, but one that looks like a payload without
\* its "data:" is told.
UnknownField ==
  /\ format = "sse" /\ TakesLine /\ Line # <<>> /\ Head(Line) \notin Fields \cup {":"}
  /\ IF OpensJson(Line) THEN Delivers(Problem("json-line-without-data-prefix"))
     ELSE UNCHANGED delivered
  /\ UNCHANGED frameVars

\* Mutant: a frame pending when the body ends is not told.
ClosesQuietly ==
  /\ format = "sse" /\ AtEnd /\ LineEnd = 0 /\ ~closed
  /\ closed' = TRUE
  /\ IF buffer # <<>> THEN Delivers(Problem("truncated-frame")) ELSE UNCHANGED delivered
  /\ UNCHANGED <<bodyVars, format, held, bufferVars, frameVars>>

\* The end of sse_items: a line or a frame cut off by the end is told.
CloseStream ==
  /\ format = "sse" /\ AtEnd /\ LineEnd = 0 /\ ~closed
  /\ closed' = TRUE
  /\ IF buffer # <<>> \/ dataLines # <<>> THEN Delivers(Problem("truncated-frame"))
     ELSE UNCHANGED delivered
  /\ UNCHANGED <<bodyVars, format, held, bufferVars, frameVars>>

-----------------------------------------------------------------------------
(* ndjson_lines *)

\* _clean: the CR of a CRLF goes; a line of white space is no line.
Cleans(line) ==
  LET trimmed == IF line # <<>> /\ line[Len(line)] = "CR" THEN SubSeq(line, 1, Len(line) - 1) ELSE line
  IN  IF Unindented(trimmed) = <<>> THEN UNCHANGED delivered ELSE Delivers(trimmed)

NdjsonLine ==
  /\ format = "ndjson" /\ TakesLine
  /\ Cleans(Line)
  /\ UNCHANGED frameVars

\* The last line needs no end.
CloseLines ==
  /\ format = "ndjson" /\ AtEnd /\ LineEnd = 0 /\ ~closed
  /\ closed' = TRUE
  /\ Cleans(buffer)
  /\ UNCHANGED <<bodyVars, format, held, bufferVars, frameVars>>

-----------------------------------------------------------------------------
Reads ==
  \/ Decide \/ Replay
  \/ Dispatch \/ CommentLine \/ Field \/ UnknownField \/ CloseStream
  \/ NdjsonLine \/ CloseLines

FramingNext == Receive \/ EndOfBody \/ Reads

\* The reader runs on; nothing is asked of the network.
FramingSpec == FramingInit /\ [][FramingNext]_framingVars /\ WF_framingVars(Reads)

-----------------------------------------------------------------------------
(* The variables keep their types; until the format is known nothing is     *)
(* parsed, and the text parsed and the chunks still held make up the text   *)
(* received; and a buffer at rest holds no finished line.                   *)
FramingTypeOK ==
  /\ received \in Texts /\ buffer \in Texts /\ eventName \in Texts
  /\ held \in Seq(Texts) /\ dataLines \in Seq(Texts)
  /\ lastId \subseteq Texts /\ Cardinality(lastId) <= 1
  /\ format \in {"sse", "ndjson", "unknown"}
  /\ {ended, sawFirstChars, closed} \subseteq BOOLEAN
  /\ format = "unknown" => delivered = <<>> /\ buffer = <<>> /\ FlattenSeq(held) = received
  /\ IsSuffix(FlattenSeq(held), received)
  /\ closed => AtEnd /\ LineEnd = 0

Stream == INSTANCE EventStream WITH
  received <- received, ended <- ended, format <- format, delivered <- delivered

(* However the network cuts the body, what the readers have delivered begins *)
(* the items of all the text that has arrived: no text that comes later      *)
(* revises it, and a reader that has returned has left none out.             *)
DeliveredIsSettled ==
  /\ IsPrefix(delivered, Stream!Available)
  /\ closed => delivered = Stream!Available

(* Step by step, the readers (sse_items, ndjson_lines, behind _sniff_format)  *)
(* yield the next item of the text received, and none that the text has not  *)
(* settled, and guess the format as the first line tells.                    *)
ReadsTheStream == Stream!Safety

(* And every one of them in the end.                                         *)
ReadsToTheEnd == Stream!Progress

=============================================================================
