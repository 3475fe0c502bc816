--------------------------- MODULE MCTextHistory ---------------------------
(***************************************************************************)
(* TLC instance of TextHistory: a selection of text events that covers     *)
(* every rule, since a run that remembers its stream merges no states.     *)
(***************************************************************************)
EXTENDS TextHistory, TLC

CONSTANTS m1, m2, s1

TextEvt(type, m, tag) == [type |-> type, messageId |-> m, subagentRunId |-> tag]
Content(m, tag, empty) == TextEvt("TEXT_MESSAGE_CONTENT", m, tag) @@ [emptyDelta |-> empty]

SomeTextEvents ==
  {TextEvt("TEXT_MESSAGE_START", m1, None),
   TextEvt("TEXT_MESSAGE_START", m1, s1),
   TextEvt("TEXT_MESSAGE_START", m2, None),
   Content(m1, None, TRUE),
   Content(m1, s1, FALSE),
   TextEvt("TEXT_MESSAGE_END", m1, s1),
   TextEvt("TEXT_MESSAGE_CHUNK", m1, None),
   TextEvt("TEXT_MESSAGE_CHUNK", m2, None),
   TextEvt("TEXT_MESSAGE_CHUNK", None, None)}

NothingOrOneId == {{}, {m2}}

=============================================================================
