---------------------------- MODULE StreamText -----------------------------
(***************************************************************************)
(* The vocabulary of the readers (transport/sse.py, transport/ndjson.py):  *)
(* what a response body is made of and the items a reader hands on.        *)
(*                                                                         *)
(* A text is a sequence of symbols: the field names with their colon, the  *)
(* ":" of a comment, white space, the line ends, the byte order mark, the  *)
(* brace or bracket that opens a JSON text, NUL, and any other text.       *)
(*                                                                         *)
(* The items of a text are read off the whole text: those of the WHATWG    *)
(* event stream format (https://html.spec.whatwg.org, "event stream        *)
(* interpretation"), with the two anomalies rule AGUI501 reports, or the   *)
(* lines of NDJSON.  Only EventStream uses them: how the readers find them *)
(* piece by piece is Framing's.                                            *)
(***************************************************************************)
EXTENDS Naturals, SequencesExt, Positions

Fields == {"data:", "event:", "id:", "retry:"}
Blank == {"SP", "CR"}
Symbols == Fields \cup Blank \cup {"LF", "BOM", ":", "{", "NUL", "x"}
Texts == Seq(Symbols)

StartsWith(text, symbol) == text # <<>> /\ Head(text) = symbol

\* str.lstrip
Unindented(text) ==
  LET first == SelectInSeq(text, LAMBDA symbol : symbol \notin Blank)
  IN  IF first = 0 THEN <<>> ELSE SubSeq(text, first, Len(text))

OpensJson(text) == StartsWith(Unindented(text), "{")

\* What precedes the first LF.
FirstLine(text) ==
  LET lf == SelectInSeq(text, LAMBDA symbol : symbol = "LF")
  IN  IF lf = 0 THEN text ELSE SubSeq(text, 1, lf - 1)

\* The value of a field: what follows the colon and one space.
Valued(line) ==
  IF StartsWith(Tail(line), "SP") THEN Tail(Tail(line)) ELSE Tail(line)

\* SseEvent, SseComment, SseProblem; an NDJSON line is handed on as it is.  The
\* name and the id of an event are sets: it may have none.
Event(data, name, id) == [kind |-> "event", data |-> data, name |-> name, id |-> id]
Comment(text) == [kind |-> "comment", text |-> text]
Problem(code) == [kind |-> "problem", code |-> code]

-----------------------------------------------------------------------------
(* The items of a text.  A line is known by the position where it ends.     *)

\* A line ends with LF; in an event stream with CR too, and a CR and the LF after
\* it are one end.  A CR that ends a text settles nothing unless the text is
\* whole: LF may follow.
IsEnd(text, whole, form, i) ==
  \/ text[i] = "LF"
  \/ /\ form = "sse" /\ text[i] = "CR"
     /\ IF i = Len(text) THEN whole ELSE text[i + 1] # "LF"

Ends(text, whole, form) == {i \in 1..Len(text) : IsEnd(text, whole, form, i)}

\* One byte order mark may open an event stream.
Opening(text, form) == IF form = "sse" /\ StartsWith(text, "BOM") THEN 1 ELSE 0

\* Where the text left of position e was cut last.
Cut(text, whole, form, e) ==
  The(Latest({i \in {Opening(text, form)} \cup Ends(text, whole, form) : i < e}))

LineAt(text, whole, form, e) ==
  LET isCRLF == form = "sse" /\ e > 1 /\ text[e] = "LF" /\ text[e - 1] = "CR"
  IN  SubSeq(text, Cut(text, whole, form, e) + 1, IF isCRLF THEN e - 2 ELSE e - 1)

Lines(text, whole, form) ==
  [e \in Ends(text, whole, form) |-> LineAt(text, whole, form, e)]

\* What follows the last end.
Rest(text, whole, form) ==
  SubSeq(text, Cut(text, whole, form, Len(text) + 1) + 1, Len(text))

Upto(lines, n) == [p \in {p \in DOMAIN lines : p <= n} |-> lines[p]]

-----------------------------------------------------------------------------
(* Event streams *)

\* The lines since the last blank one.
Frame(lines) == {p \in DOMAIN lines : \A q \in DOMAIN lines : p <= q => lines[q] # <<>>}

Having(lines, field) == {p \in DOMAIN lines : StartsWith(lines[p], field)}

Data(lines) ==
  ValuesInOrder([p \in Frame(lines) \cap Having(lines, "data:") |-> Valued(lines[p])])

Name(lines) ==
  {Valued(lines[p]) : p \in Latest(Frame(lines) \cap Having(lines, "event:"))} \ {<<>>}

Id(lines) ==
  {Valued(lines[p]) : p \in Latest({q \in Having(lines, "id:") : "NUL" \notin ToSet(lines[q])})}

\* What a line completes after the lines before it: at most one item.
SseItem(lines, line) ==
  IF line = <<>>
  THEN IF Data(lines) \in {<<>>, <<(<<>>)>>} THEN {}
       ELSE {Event(Data(lines), Name(lines), Id(lines))}
  ELSE IF StartsWith(line, ":") THEN {Comment(Tail(line))}
  ELSE IF OpensJson(line) THEN {Problem("json-line-without-data-prefix")}
  ELSE {}

\* A line or a frame that the end of the text cuts off is told.
Truncated(lines, rest) ==
  IF rest # <<>> \/ Data(lines) # <<>> THEN {Problem("truncated-frame")} ELSE {}

-----------------------------------------------------------------------------
\* The lines of NDJSON that hold something, without the CR of a CRLF; the last
\* one needs no end.
NdjsonItem(line) ==
  IF Unindented(line) = <<>> THEN {}
  ELSE {IF line[Len(line)] = "CR" THEN SubSeq(line, 1, Len(line) - 1) ELSE line}

-----------------------------------------------------------------------------
Item(form, lines, line) ==
  IF form = "sse" THEN SseItem(lines, line) ELSE NdjsonItem(line)

LastItem(form, lines, rest) ==
  IF form = "sse" THEN Truncated(lines, rest) ELSE NdjsonItem(rest)

\* Where a line completes an item, the item.
ItemsOf(form, lines) ==
  [e \in {e \in DOMAIN lines : Item(form, Upto(lines, e - 1), lines[e]) # {}} |->
     The(Item(form, Upto(lines, e - 1), lines[e]))]

\* The items a text has settled, in its order.
Items(text, whole, form) ==
  LET lines == Lines(text, whole, form)
      last  == LastItem(form, lines, Rest(text, whole, form))
  IN  ValuesInOrder(ItemsOf(form, lines)) \o IF whole /\ last # {} THEN <<The(last)>> ELSE <<>>

=============================================================================
