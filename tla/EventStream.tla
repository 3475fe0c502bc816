---------------------------- MODULE EventStream ----------------------------
(***************************************************************************)
(* What a reader of a response body promises, however the network cuts the *)
(* body: it delivers the items of the text received, in order, and every   *)
(* one the text has settled.                                               *)
(***************************************************************************)
EXTENDS StreamText

CONSTANT
  SniffLimit    \* characters read at most before the format is guessed

VARIABLES
  received,     \* the text that has arrived
  ended,        \* the body is complete
  format,       \* "sse", "ndjson", or "unknown" until the first line tells
  delivered     \* the items handed to the caller

streamVars == <<received, ended, format, delivered>>

\* What the text received has settled; nothing before the format is known.
Available == IF format = "unknown" THEN <<>> ELSE Items(received, ended, format)

-----------------------------------------------------------------------------
Init ==
  /\ received = <<>>
  /\ ended = FALSE
  /\ format \in {"sse", "ndjson", "unknown"}
  /\ delivered = <<>>

Arrive ==
  /\ ~ended
  /\ IsStrictPrefix(received, received')
  /\ UNCHANGED <<ended, format, delivered>>

\* A body cut inside a character ends with a replacement character.
End ==
  /\ ~ended
  /\ ended' = TRUE
  /\ received' \in {received, Append(received, "x")}
  /\ UNCHANGED <<format, delivered>>

\* NDJSON opens with a JSON text, and the first line tells.  One that opens with
\* SniffLimit characters of white space may be taken for either.
Guess ==
  LET first == FirstLine(received)
      told == Unindented(first) # <<>> \/ first # received \/ ended
      blank == \A i \in 1..SniffLimit : i \in DOMAIN first /\ first[i] \in Blank
  IN  /\ format = "unknown"
      /\ format' \in {"sse", "ndjson"}
      /\ told \/ blank
      /\ blank \/ (format' = "ndjson" <=> OpensJson(first))
      /\ UNCHANGED <<received, ended, delivered>>

Deliver ==
  /\ UNCHANGED <<received, ended, format>>
  /\ LET items == Available
         k == Len(delivered) + 1
     IN  k \in DOMAIN items /\ delivered' = Append(delivered, items[k])

Next == Arrive \/ End \/ Guess \/ Deliver

\* Nothing obliges the network to send or to end, but again and again the reader
\* has delivered all there is, and a body that ended has a format.
Progress == []<>(delivered = Available) /\ (ended ~> format # "unknown")

Safety == Init /\ [][Next]_streamVars

Spec == Safety /\ Progress

=============================================================================
