----------------------------- MODULE MCFraming -----------------------------
(* Bodies of six to nine symbols, each family about one thing the readers   *)
(* must get right: the frame, the line ends, the ids, the guess, the byte    *)
(* order mark, the lines of NDJSON.                                          *)
EXTENDS Framing

Family(symbols, formats, length) == [symbols |-> symbols, formats |-> formats, length |-> length]

MCBodies ==
  { Family({"data:", "event:", "LF"}, {"sse"}, 9),
    Family({"data:", "CR", "LF"}, {"sse"}, 8),
    Family({"data:", "id:", "LF", "NUL"}, {"sse"}, 6),
    Family({":", "BOM", "LF", "retry:"}, {"sse"}, 6),
    Family({"{", "SP", "LF", "data:"}, {"sse", "unknown"}, 6),
    Family({"{", "CR", "LF", "BOM"}, {"sse", "ndjson", "unknown"}, 6) }

=============================================================================
