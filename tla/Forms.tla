------------------------------- MODULE Forms -------------------------------
(***************************************************************************)
(* What the stream says of the forms a message or a tool call takes in a   *)
(* run: opened by a START until its END, or streamed by CHUNKs until       *)
(* something else is judged.  Stated by quantifiers over positions of the  *)
(* log, for both kinds at once.                                            *)
(***************************************************************************)
EXTENDS StreamLog

Message ==
  [field |-> "messageId", start |-> "TEXT_MESSAGE_START",
   chunk |-> "TEXT_MESSAGE_CHUNK", end |-> "TEXT_MESSAGE_END"]

Call ==
  [field |-> "toolCallId", start |-> "TOOL_CALL_START",
   chunk |-> "TOOL_CALL_CHUNK", end |-> "TOOL_CALL_END"]

\* An event of the type that names the entity.
Names(kind, e, type, id) == e.type = type /\ e[kind.field] = id

NamedAt(kind, p, type, id) == Names(kind, log[p].event, type, id)

\* The START and CHUNK that name id in the run of position n: the first of them
\* decides the form of the entity.
Introducers(kind, id, n) ==
  {p \in RunPositions(n) : \/ NamedAt(kind, p, kind.start, id)
                           \/ NamedAt(kind, p, kind.chunk, id)}

IntroducedAt(kind, id, n) == First(Introducers(kind, id, n))

\* The START that holds id open at n: it introduced id and no END named id since.
StartedAt(kind, id, n) ==
  {p \in IntroducedAt(kind, id, n) :
     /\ NamedAt(kind, p, kind.start, id)
     /\ \A q \in p + 1..n : ~ NamedAt(kind, q, kind.end, id)}

Started(kind, id, n) == StartedAt(kind, id, n) # {}

\* Position q ends the chunk stream of id: it is judged and is not a chunk that
\* has no id, names id, or names an entity that a START holds open.
EndsStreamOf(kind, q, id) ==
  /\ Judges(q)
  /\ ~ /\ TypeAt(q) = kind.chunk
       /\ \/ log[q].event[kind.field] \in {None, id}
          \/ Started(kind, log[q].event[kind.field], q - 1)

\* The chunk that holds the chunk stream of id open at n.
StreamedAt(kind, id, n) ==
  {p \in IntroducedAt(kind, id, n) :
     /\ NamedAt(kind, p, kind.chunk, id)
     /\ \A q \in p + 1..n : ~ EndsStreamOf(kind, q, id)}

\* Position q ends id, introduced at p, in the form it has.
EndsForm(kind, q, p, id) ==
  IF NamedAt(kind, p, kind.start, id)
  THEN NamedAt(kind, q, kind.end, id) ELSE EndsStreamOf(kind, q, id)

Closers(kind, id, n) ==
  {q \in 1..n : \E p \in IntroducedAt(kind, id, n) : p < q /\ EndsForm(kind, q, p, id)}

\* The position, up to n, that closed id.
ClosedAt(kind, id, n) == First(Closers(kind, id, n))

=============================================================================
