------------------------ MODULE TextMessages_proofs ------------------------
(***************************************************************************)
(* Theorems about TextMessages, for any set of ids and tags and any bound, *)
(* and about what the rules report of a stream: the dictionaries mirror    *)
(* what TextHistory reads off the whole of it.                             *)
(***************************************************************************)
EXTENDS TextHistory, RunScopeTheorems

\* The inductive invariant.
TextInv ==
  /\ TextTypeOK
  /\ MessageHasOneForm
  /\ NoChunkOutlivesRun
  /\ OpenOwnersAgree

-----------------------------------------------------------------------------
\* Closing the chunk stream adds its id, if any, to the closed messages and
\* changes no entry.
LEMMA ClosingKeepsClosed ==
  ASSUME TextInv, NEW at \in Indices
  PROVE  LET closed == ClosedOnceChunkEnds(at)
         IN  /\ IsDict(closed, MessageIds, Indices)
             /\ DOMAIN closed = DOMAIN closedMessages \cup ({textChunk} \ {None})
             /\ \A m \in DOMAIN closedMessages : closed[m] = closedMessages[m]
<1> USE DEF TextInv, TextTypeOK, Indices
<1>1. CASE textChunk = None
  BY <1>1 DEF ClosedOnceChunkEnds
<1>2. CASE textChunk # None
  <2>1. ClosedOnceChunkEnds(at) = Put(closedMessages, textChunk, at)
    BY <1>2 DEF ClosedOnceChunkEnds
  <2>2. textChunk \in MessageIds /\ textChunk \notin DOMAIN closedMessages
    BY <1>2 DEF MessageHasOneForm
  <2>3. IsDict(Put(closedMessages, textChunk, at), MessageIds, Indices)
    BY <2>2, PutType
  <2>4. DOMAIN ClosedOnceChunkEnds(at) = DOMAIN closedMessages \cup {textChunk}
    BY <2>1 DEF Put
  <2>5. \A m \in DOMAIN closedMessages : ClosedOnceChunkEnds(at)[m] = closedMessages[m]
    BY <2>1, <2>2 DEF Put
  <2> QED BY <1>2, <2>1, <2>3, <2>4, <2>5
<1> QED BY <1>1, <1>2

\* A step that closes the chunk stream, leaves the open messages alone and
\* remembers no message preserves the invariant.
LEMMA ClosingPreserves ==
  ASSUME TextInv, ScopeTypeOK', NEW at \in Indices,
         CloseTextChunk(at),
         UNCHANGED <<openMessages, messageOwner>>,
         knownMessageIds \subseteq knownMessageIds',
         knownMessageIds' \subseteq MessageIds,
         textFound' \subseteq TextFindings
  PROVE  TextInv'
<1>1. /\ IsDict(closedMessages', MessageIds, Indices)
      /\ DOMAIN closedMessages' = DOMAIN closedMessages \cup ({textChunk} \ {None})
      /\ textChunk' = None
  BY ClosingKeepsClosed DEF CloseTextChunk
<1>2. TextTypeOK'
  BY <1>1 DEF TextInv, TextTypeOK, Indices
<1>3. MessageHasOneForm'
  <2>1. None \notin MessageIds /\ DOMAIN openMessages \subseteq MessageIds
    BY MessageIdsAssumption DEF TextInv, TextTypeOK, IsDict
  <2>2. DOMAIN closedMessages' \subseteq MessageIds
    BY <1>1 DEF IsDict
  <2> QED BY <1>1, <2>1, <2>2 DEF TextInv, MessageHasOneForm
<1>4. NoChunkOutlivesRun'
  BY <1>1 DEF NoChunkOutlivesRun
<1>5. OpenOwnersAgree'
  BY DEF TextInv, OpenOwnersAgree
<1> QED BY <1>2, <1>3, <1>4, <1>5 DEF TextInv

\* A finding built from the components of the type is in the type.
LEMMA FindingType ==
  ASSUME NEW rule \in TextRules, NEW at \in Indices,
         NEW id \in MessageIds \cup {None}, NEW related \in Indices \cup {None}
  PROVE  {Finding(rule, at, id, related)} \subseteq
           TextFindings
BY DEF Finding, TextFindings

LEMMA OwnerFindingsType ==
  ASSUME NEW at \in Indices, NEW id \in MessageIds, NEW tag, NEW owner
  PROVE  OwnerFindings(at, id, tag, owner) \subseteq
           TextFindings
BY DEF OwnerFindings, Finding, TextRules, TextFindings

-----------------------------------------------------------------------------
\* The index of an open or closed message is a legal related event.
LEMMA RelatedType ==
  ASSUME TextInv, NEW m
  PROVE  /\ m \in DOMAIN openMessages =>
              openMessages[m].start \in Indices /\ openMessages[m].owner \in Tags
         /\ m \in DOMAIN ClosedOnceChunkEnds(eventCount) =>
              ClosedOnceChunkEnds(eventCount)[m] \in Indices
         /\ DOMAIN openMessages \subseteq MessageIds
         /\ DOMAIN ClosedOnceChunkEnds(eventCount) \subseteq MessageIds
<1>1. eventCount \in Indices
  BY DEF TextInv, TextTypeOK, ScopeTypeOK, Indices
<1>2. IsDict(ClosedOnceChunkEnds(eventCount), MessageIds, Indices)
  BY <1>1, ClosingKeepsClosed
<1> QED BY <1>2 DEF TextInv, TextTypeOK, IsDict, Indices, AtEndOfStream

LEMMA StartPreserves ==
  ASSUME TextInv, NEW e \in TextEvents, TextMessageStart(e)
  PROVE  TextInv'
<1> DEFINE m == e.messageId
           closed == ClosedOnceChunkEnds(eventCount)
<1>1. /\ ScopeTypeOK'
      /\ eventCount \in Indices /\ eventCount \in Nat
      /\ CloseTextChunk(eventCount)
      /\ m \in MessageIds \cup {None} /\ e.subagentRunId \in Tags
      /\ Judged
  BY ScopePreserved
     DEF TextInv, TextTypeOK, ScopeTypeOK, Indices, TextMessageStart, TextEvents, Tags
<1>2. CASE UNCHANGED openMessages /\ RememberNothing
  <2>1. textFound' \subseteq TextFindings
    <3>1. CASE Reports({})
      BY <3>1 DEF Reports
    <3>2. CASE m \in DOMAIN openMessages /\ ReportsOnId("AGUI106", m, openMessages[m].start)
      BY <1>1, <3>2, RelatedType, FindingType DEF ReportsOnId, Reports, TextRules
    <3>3. CASE m \in DOMAIN closed /\ ReportsOnId("AGUI104", m, closed[m])
      BY <1>1, <3>3, RelatedType, FindingType DEF ReportsOnId, Reports, TextRules
    <3> QED BY <3>1, <3>2, <3>3 DEF TextMessageStart
  <2> QED BY <1>1, <1>2, <2>1, ClosingPreserves DEF RememberNothing, TextInv, TextTypeOK
<1>3. CASE /\ m \in MessageIds \ (DOMAIN openMessages \cup DOMAIN closed)
           /\ openMessages' = Put(openMessages, m,
                                  [start |-> eventCount, owner |-> e.subagentRunId])
           /\ Remember(e)
           /\ Reports({})
  <2>1. /\ IsDict(closedMessages', MessageIds, Indices)
        /\ DOMAIN closedMessages' = DOMAIN closedMessages \cup ({textChunk} \ {None})
        /\ closedMessages' = closed /\ textChunk' = None
    BY <1>1, ClosingKeepsClosed DEF CloseTextChunk
  <2>2. /\ IsDict(openMessages', MessageIds, [start : Nat, owner : Tags])
        /\ DOMAIN openMessages' = DOMAIN openMessages \cup {m}
        /\ DOMAIN openMessages' \subseteq MessageIds
    <3>1. [start |-> eventCount, owner |-> e.subagentRunId] \in [start : Nat, owner : Tags]
      BY <1>1
    <3>2. IsDict(openMessages', MessageIds, [start : Nat, owner : Tags])
      BY <1>3, <3>1, PutType DEF TextInv, TextTypeOK
    <3> QED BY <1>3, <3>2 DEF Put, IsDict
  <2>3. /\ IsDict(messageOwner', MessageIds, Tags)
        /\ DOMAIN messageOwner' = DOMAIN messageOwner \cup {m}
    BY <1>1, <1>3, PutType DEF Remember, Put, TextInv, TextTypeOK
  <2>4. TextTypeOK'
    BY <1>1, <1>3, <2>1, <2>2, <2>3
       DEF TextInv, TextTypeOK, Remember, Reports, Indices
  <2>5. MessageHasOneForm'
    <3>1. DOMAIN closed = DOMAIN closedMessages' /\ m \notin DOMAIN closedMessages'
      BY <1>3, <2>1
    <3>2. DOMAIN openMessages' \cap DOMAIN closedMessages' = {}
      BY <2>1, <2>2, <3>1 DEF TextInv, MessageHasOneForm
    <3>3. textChunk' \notin DOMAIN openMessages' \cup DOMAIN closedMessages'
      BY <2>1, <2>2, MessageIdsAssumption DEF IsDict
    <3>4. DOMAIN messageOwner' = DOMAIN openMessages' \cup DOMAIN closedMessages'
      BY <2>1, <2>2, <2>3 DEF TextInv, MessageHasOneForm
    <3>5. DOMAIN messageOwner' \subseteq knownMessageIds'
      BY <1>3, <2>3 DEF TextInv, MessageHasOneForm, Remember
    <3> QED BY <2>1, <3>2, <3>3, <3>4, <3>5 DEF MessageHasOneForm
  <2>6. NoChunkOutlivesRun'
    BY <2>1 DEF NoChunkOutlivesRun
  <2>7. OpenOwnersAgree'
    <3>1. /\ openMessages'[m].owner = messageOwner'[m]
          /\ \A k \in DOMAIN openMessages : k # m =>
               openMessages'[k] = openMessages[k] /\ messageOwner'[k] = messageOwner[k]
      BY <1>3 DEF Put, Remember, TextInv, MessageHasOneForm
    <3> QED BY <2>2, <3>1, <1>3 DEF OpenOwnersAgree, TextInv
  <2> QED BY <2>4, <2>5, <2>6, <2>7 DEF TextInv
<1> QED BY <1>2, <1>3 DEF TextMessageStart

LEMMA ContentPreserves ==
  ASSUME TextInv, NEW e \in TextEvents, TextMessageContent(e)
  PROVE  TextInv'
<1> DEFINE m == e.messageId
           closed == ClosedOnceChunkEnds(eventCount)
<1>1. /\ ScopeTypeOK'
      /\ eventCount \in Indices
      /\ CloseTextChunk(eventCount)
      /\ UNCHANGED openMessages /\ RememberNothing
      /\ m \in MessageIds \cup {None}
  BY ScopePreserved
     DEF TextInv, TextTypeOK, ScopeTypeOK, Indices, TextMessageContent, TextEvents
<1>2. textFound' \subseteq TextFindings
  <2>1. CASE m = None
    BY <2>1, MessageIdsAssumption DEF Reports, TextMessageContent, TextInv, TextTypeOK, IsDict
  <2>2. CASE m \in MessageIds \ DOMAIN openMessages
    <3>1. (IF m \in DOMAIN closed THEN closed[m] ELSE None) \in Indices \cup {None}
      BY RelatedType
    <3>2. {Finding("AGUI101", eventCount, m,
                   IF m \in DOMAIN closed THEN closed[m] ELSE None)} \subseteq TextFindings
      BY <1>1, <3>1, FindingType DEF TextRules
    <3> QED BY <2>2, <3>2, MessageIdsAssumption DEF TextMessageContent, ReportsOnId, Reports
  <2>3. CASE m \in DOMAIN openMessages
    <3>1. m \in MessageIds /\ openMessages[m].start \in Indices
      BY <2>3, RelatedType
    <3>2. {Finding("AGUI105", eventCount, m, openMessages[m].start)} \subseteq TextFindings
      BY <1>1, <3>1, FindingType DEF TextRules
    <3>3. OwnerFindings(eventCount, m, e.subagentRunId, openMessages[m].owner) \subseteq TextFindings
      BY <1>1, <3>1, OwnerFindingsType
    <3> QED BY <2>3, <3>1, <3>2, <3>3, MessageIdsAssumption DEF TextMessageContent, Reports
  <2> QED BY <1>1, <2>1, <2>2, <2>3
<1> QED BY <1>1, <1>2, ClosingPreserves DEF RememberNothing, TextInv, TextTypeOK

LEMMA EndPreserves ==
  ASSUME TextInv, NEW e \in TextEvents, TextMessageEnd(e)
  PROVE  TextInv'
<1> DEFINE m == e.messageId
           closed == ClosedOnceChunkEnds(eventCount)
<1>1. /\ ScopeTypeOK'
      /\ eventCount \in Indices
      /\ textChunk' = None /\ RememberNothing
      /\ m \in MessageIds \cup {None}
  BY ScopePreserved
     DEF TextInv, TextTypeOK, ScopeTypeOK, Indices, TextMessageEnd, TextEvents
<1>2. /\ IsDict(closed, MessageIds, Indices)
      /\ DOMAIN closed = DOMAIN closedMessages \cup ({textChunk} \ {None})
  BY <1>1, ClosingKeepsClosed
<1>3. CASE closedMessages' = closed /\ UNCHANGED openMessages
  <2>1. textFound' \subseteq TextFindings
    <3>1. CASE m = None
      BY <3>1, MessageIdsAssumption DEF Reports, TextMessageEnd, TextInv, TextTypeOK, IsDict
    <3>2. CASE m \in MessageIds \ DOMAIN openMessages
      <4>1. {Finding("AGUI102", eventCount, m, None)} \subseteq TextFindings
        BY <1>1, <3>2, FindingType DEF TextRules
      <4> QED BY <3>2, <4>1, MessageIdsAssumption DEF TextMessageEnd, ReportsOnId, Reports
    <3>3. CASE m \in DOMAIN openMessages
      BY <1>1, <3>3, RelatedType, OwnerFindingsType, MessageIdsAssumption
         DEF TextMessageEnd, Reports
    <3> QED BY <1>1, <3>1, <3>2, <3>3
  <2> QED BY <1>1, <1>3, <2>1, ClosingPreserves
          DEF CloseTextChunk, RememberNothing, TextInv, TextTypeOK
<1>4. CASE /\ m \in DOMAIN openMessages
           /\ Reports(OwnerFindings(eventCount, m, e.subagentRunId, openMessages[m].owner))
           /\ openMessages' = Drop(openMessages, m)
           /\ closedMessages' = Put(closed, m, eventCount)
  <2>1. m \in MessageIds
    BY <1>4, RelatedType
  <2>2. /\ IsDict(openMessages', MessageIds, [start : Nat, owner : Tags])
        /\ DOMAIN openMessages' = DOMAIN openMessages \ {m}
        /\ \A k \in DOMAIN openMessages' : openMessages'[k] = openMessages[k]
    BY <1>4, DropType DEF Drop, TextInv, TextTypeOK
  <2>3. /\ IsDict(closedMessages', MessageIds, Indices)
        /\ DOMAIN closedMessages' = DOMAIN closed \cup {m}
    <3>1. IsDict(Put(closed, m, eventCount), MessageIds, Indices)
      BY <1>1, <1>2, <2>1, PutType
    <3> QED BY <1>4, <3>1 DEF Put
  <2>4. textFound' \subseteq TextFindings
    BY <1>1, <1>4, <2>1, OwnerFindingsType DEF Reports
  <2>5. TextTypeOK'
    BY <1>1, <2>2, <2>3, <2>4 DEF TextInv, TextTypeOK, RememberNothing
  <2>6. MessageHasOneForm'
    <3>1. DOMAIN openMessages' \cap DOMAIN closedMessages' = {}
      BY <1>2, <2>2, <2>3 DEF TextInv, MessageHasOneForm
    <3>2. textChunk' \notin DOMAIN openMessages' \cup DOMAIN closedMessages'
      BY <1>1, <2>2, <2>3, MessageIdsAssumption DEF IsDict
    <3>3. DOMAIN messageOwner' = DOMAIN openMessages' \cup DOMAIN closedMessages'
      BY <1>1, <1>2, <1>4, <2>2, <2>3 DEF TextInv, MessageHasOneForm, RememberNothing
    <3> QED BY <1>1, <3>1, <3>2, <3>3
            DEF TextInv, MessageHasOneForm, RememberNothing
  <2>7. NoChunkOutlivesRun'
    BY <1>1 DEF NoChunkOutlivesRun
  <2>8. OpenOwnersAgree'
    BY <1>1, <2>2 DEF TextInv, OpenOwnersAgree, RememberNothing
  <2> QED BY <2>5, <2>6, <2>7, <2>8 DEF TextInv
<1> QED BY <1>3, <1>4 DEF TextMessageEnd

LEMMA ChunkPreserves ==
  ASSUME TextInv, NEW e \in TextEvents, TextMessageChunk(e)
  PROVE  TextInv'
<1> DEFINE m == e.messageId
           closed == ClosedOnceChunkEnds(eventCount)
<1>1. /\ ScopeTypeOK' /\ terminal = None /\ UNCHANGED terminal
      /\ eventCount \in Indices
      /\ UNCHANGED openMessages
      /\ m \in MessageIds \cup {None} /\ e.subagentRunId \in Tags
  BY ScopePreserved
     DEF TextInv, TextTypeOK, ScopeTypeOK, Indices, TextMessageChunk, TextEvents,
         Judged, Tags
<1>2. /\ IsDict(closed, MessageIds, Indices)
      /\ DOMAIN closed = DOMAIN closedMessages \cup ({textChunk} \ {None})
  BY <1>1, ClosingKeepsClosed
<1>3. CASE UNCHANGED <<closedMessages, textChunk>> /\ RememberNothing
  <2>1. textFound' \subseteq TextFindings
    <3>1. {Finding("AGUI504", eventCount, None, None)} \subseteq TextFindings
      BY <1>1, FindingType DEF TextRules
    <3>2. CASE Reports({})
      BY <3>2 DEF Reports
    <3>3. CASE Reports(IF textChunk = None
                       THEN {Finding("AGUI504", eventCount, None, None)} ELSE {})
      BY <3>1, <3>3 DEF Reports
    <3>4. CASE /\ m \in DOMAIN closed
               /\ ReportsOnId("AGUI104", m, closed[m])
      <4>1. {Finding("AGUI104", eventCount, m, closed[m])} \subseteq TextFindings
        BY <1>1, <3>4, RelatedType, FindingType DEF TextRules
      <4> QED BY <3>4, <4>1 DEF ReportsOnId, Reports
    <3> QED BY <3>2, <3>3, <3>4 DEF TextMessageChunk
  <2> QED BY <1>1, <1>3, <2>1
          DEF TextInv, TextTypeOK, RememberNothing, MessageHasOneForm,
              NoChunkOutlivesRun, OpenOwnersAgree
<1>4. CASE /\ m \in DOMAIN closed
           /\ CloseTextChunk(eventCount)
           /\ ReportsOnId("AGUI104", m, closed[m])
           /\ RememberNothing
  <2>1. {Finding("AGUI104", eventCount, m, closed[m])} \subseteq TextFindings
    BY <1>1, <1>4, RelatedType, FindingType DEF TextRules
  <2> QED BY <1>1, <1>4, <2>1, ClosingPreserves
          DEF ReportsOnId, Reports, RememberNothing, TextInv, TextTypeOK
<1>5. CASE /\ m \in MessageIds \ (DOMAIN openMessages \cup DOMAIN closed)
           /\ closedMessages' = closed
           /\ textChunk' = m
           /\ Remember(e)
           /\ Reports({})
  <2>1. /\ IsDict(messageOwner', MessageIds, Tags)
        /\ DOMAIN messageOwner' = DOMAIN messageOwner \cup {m}
    <3>1. IsDict(Put(messageOwner, m, e.subagentRunId), MessageIds, Tags)
      BY <1>1, <1>5, PutType DEF TextInv, TextTypeOK
    <3> QED BY <1>5, <3>1 DEF Remember, Put
  <2>2. TextTypeOK'
    BY <1>1, <1>2, <1>5, <2>1 DEF TextInv, TextTypeOK, Remember, Reports
  <2>3. MessageHasOneForm'
    <3>1. DOMAIN messageOwner' =
            DOMAIN openMessages' \cup DOMAIN closedMessages' \cup ({textChunk'} \ {None})
      BY <1>1, <1>2, <1>5, <2>1, MessageIdsAssumption DEF TextInv, MessageHasOneForm
    <3>2. DOMAIN openMessages' \cap DOMAIN closedMessages' = {}
      BY <1>1, <1>2, <1>5 DEF TextInv, MessageHasOneForm
    <3> QED BY <1>1, <1>5, <2>1, <3>1, <3>2 DEF TextInv, MessageHasOneForm, Remember
  <2>4. NoChunkOutlivesRun'
    BY <1>1 DEF NoChunkOutlivesRun
  <2>5. OpenOwnersAgree'
    <3>1. \A k \in DOMAIN messageOwner : k # m => messageOwner'[k] = messageOwner[k]
      BY <1>5 DEF Remember, Put
    <3> QED BY <1>1, <1>5, <3>1 DEF TextInv, OpenOwnersAgree, MessageHasOneForm
  <2> QED BY <2>2, <2>3, <2>4, <2>5 DEF TextInv
<1> QED BY <1>3, <1>4, <1>5 DEF TextMessageChunk

\* The diagnostics of the end of a run are legal ones.
LEMMA UnterminatedType ==
  ASSUME TextInv, NEW at \in Indices
  PROVE  UnterminatedMessages(at) \subseteq TextFindings
<1>1. ASSUME NEW m \in DOMAIN openMessages
      PROVE  Finding("AGUI103", at, m, openMessages[m].start) \in TextFindings
  BY RelatedType DEF Finding, TextFindings, TextRules
<1> QED BY <1>1 DEF UnterminatedMessages

\* The inputs of the other components and the end of the stream.
LEMMA EnvironmentPreserves ==
  ASSUME TextInv,
         \/ \E ms \in Learnable : TextElsewhere /\ LearnMessageIds(ms)
         \/ TextUnjudged
         \/ TextNewRun
         \/ \E type \in TerminalTypes : TextEnds(type)
         \/ TextFinalize
  PROVE  TextInv'
<1>1. eventCount \in Indices /\ AtEndOfStream \in Indices
  BY DEF TextInv, TextTypeOK, ScopeTypeOK, Indices
<1>2. ASSUME NEW ms \in Learnable, TextElsewhere, LearnMessageIds(ms)
      PROVE  TextInv'
  <2>1. ScopeTypeOK'
    BY <1>2, ScopePreserved DEF TextElsewhere, TextInv, TextTypeOK
  <2>2. /\ knownMessageIds \subseteq knownMessageIds'
        /\ knownMessageIds' \subseteq MessageIds
    BY <1>2, LearnableAssumption DEF LearnMessageIds, TextInv, TextTypeOK
  <2>3. textFound' \subseteq TextFindings
    BY <1>2 DEF TextElsewhere, Reports
  <2> QED BY <1>1, <1>2, <2>1, <2>2, <2>3, ClosingPreserves DEF TextElsewhere
<1>3. CASE TextUnjudged
  <2>1. ScopeTypeOK'
    BY <1>3, ScopePreserved DEF TextUnjudged, TextInv, TextTypeOK
  <2>2. UNCHANGED <<messageVars, knownMessageIds, messageOwner, terminal>>
    BY <1>3 DEF TextUnjudged, RememberNothing, Unjudged
  <2>3. textFound' = {}
    BY <1>3 DEF TextUnjudged, Reports
  <2> QED BY <2>1, <2>2, <2>3
          DEF messageVars, TextInv, TextTypeOK, MessageHasOneForm, NoChunkOutlivesRun,
              OpenOwnersAgree
<1>4. CASE TextNewRun
  <2>1. ScopeTypeOK'
    BY <1>4, ScopePreserved DEF TextNewRun, TextInv, TextTypeOK
  <2>2. /\ openMessages' = EmptyDict /\ closedMessages' = EmptyDict
        /\ messageOwner' = EmptyDict /\ knownMessageIds' = {} /\ textChunk' = None
        /\ textFound' = {}
    BY <1>4 DEF TextNewRun, Reports
  <2>3. /\ DOMAIN EmptyDict = {}
        /\ IsDict(EmptyDict, MessageIds, [start : Nat, owner : Tags])
        /\ IsDict(EmptyDict, MessageIds, Indices)
        /\ IsDict(EmptyDict, MessageIds, Tags)
    BY EmptyDictType
  <2>4. TextTypeOK'
    BY <2>1, <2>2, <2>3 DEF TextTypeOK
  <2> QED BY <2>2, <2>3, <2>4
          DEF TextInv, MessageHasOneForm, NoChunkOutlivesRun, OpenOwnersAgree
<1>5. ASSUME NEW type \in TerminalTypes, TextEnds(type)
      PROVE  TextInv'
  <2>1. ScopeTypeOK'
    BY <1>5, ScopePreserved DEF TextEnds, TextInv, TextTypeOK
  <2>2. textFound' \subseteq TextFindings
    BY <1>1, <1>5, UnterminatedType DEF TextEnds, Reports
  <2> QED BY <1>1, <1>5, <2>1, <2>2, ClosingPreserves
          DEF TextEnds, RememberNothing, TextInv, TextTypeOK
<1>6. CASE TextFinalize
  <2>1. ScopeTypeOK' /\ UNCHANGED terminal
    BY <1>6, ScopePreserved DEF TextFinalize, Finalizes, TextInv, TextTypeOK
  <2>2. CASE terminal = None
    <3>1. textFound' \subseteq TextFindings
      BY <1>1, <1>6, <2>2, UnterminatedType DEF TextFinalize, Reports
    <3> QED BY <1>1, <1>6, <2>1, <2>2, <3>1, ClosingPreserves
            DEF TextFinalize, RememberNothing, TextInv, TextTypeOK
  <2>3. CASE terminal # None
    <3>1. /\ UNCHANGED <<openMessages, closedMessages, textChunk,
                         knownMessageIds, messageOwner>>
          /\ textFound' = {}
      BY <1>6, <2>3 DEF TextFinalize, RememberNothing, Reports
    <3> QED BY <2>1, <3>1
            DEF TextInv, TextTypeOK, MessageHasOneForm, NoChunkOutlivesRun,
                OpenOwnersAgree
  <2> QED BY <2>2, <2>3
<1> QED BY <1>2, <1>3, <1>4, <1>5, <1>6

-----------------------------------------------------------------------------
LEMMA TextInitInv == TextInit => TextInv
<1> SUFFICES ASSUME TextInit PROVE TextInv
  OBVIOUS
<1>1. /\ DOMAIN EmptyDict = {}
      /\ IsDict(EmptyDict, MessageIds, [start : Nat, owner : Tags])
      /\ IsDict(EmptyDict, MessageIds, Indices)
      /\ IsDict(EmptyDict, MessageIds, Tags)
  BY EmptyDictType
<1> QED BY <1>1
        DEF TextInit, ScopeInit, TextInv, TextTypeOK, ScopeTypeOK, MessageHasOneForm,
            NoChunkOutlivesRun, OpenOwnersAgree

LEMMA TextNextInv == TextInv /\ [TextNext]_textVars => TextInv'
<1> SUFFICES ASSUME TextInv, [TextNext]_textVars PROVE TextInv'
  OBVIOUS
<1>1. ASSUME NEW e \in TextInputs, TextEvent(e) PROVE TextInv'
  <2>1. e \in TextEvents
    BY TextInputsAssumption
  <2> QED BY <1>1, <2>1, StartPreserves, ContentPreserves, EndPreserves, ChunkPreserves
          DEF TextEvent
<1>2. CASE UNCHANGED textVars
  BY <1>2 DEF textVars, scopeVars, messageVars, TextInv, TextTypeOK, ScopeTypeOK,
              MessageHasOneForm, NoChunkOutlivesRun, OpenOwnersAgree
<1> QED BY <1>1, <1>2, EnvironmentPreserves DEF TextNext

\* The inductive invariant holds in every reachable state.
THEOREM TextInvariant == TextSpec => []TextInv
BY TextInitInv, TextNextInv, PTL DEF TextSpec

\* Type correctness of the message dictionaries and of what the rules report.
THEOREM TextTypeCorrect == TextSpec => []TextTypeOK
<1>1. TextInv => TextTypeOK
  BY DEF TextInv
<1> QED BY <1>1, TextInvariant, PTL

\* For any ids and any stream, no message id is ever in two forms at once, and
\* exactly the ids that took a form have a recorded owner.
THEOREM MessagesHaveOneForm == TextSpec => []MessageHasOneForm
<1>1. TextInv => MessageHasOneForm
  BY DEF TextInv
<1> QED BY <1>1, TextInvariant, PTL

\* For any stream, no chunk stream survives the terminal event of its run.
THEOREM ChunksEndWithTheirRun == TextSpec => []NoChunkOutlivesRun
<1>1. TextInv => NoChunkOutlivesRun
  BY DEF TextInv
<1> QED BY <1>1, TextInvariant, PTL

-----------------------------------------------------------------------------
LEMMA StepKeepsHistory ==
  ASSUME TextInv, [TextNext]_textVars, SameRun
  PROVE  KeepsClosedMessages /\ KeepsOwners
<1> DEFINE closed == ClosedOnceChunkEnds(eventCount)
<1>1. eventCount \in Indices /\ AtEndOfStream \in Indices
  BY DEF TextInv, TextTypeOK, ScopeTypeOK, Indices
<1>2. /\ DOMAIN closedMessages \subseteq DOMAIN closed
      /\ \A m \in DOMAIN closedMessages : closed[m] = closedMessages[m]
  BY <1>1, ClosingKeepsClosed
<1>3. ASSUME NEW at \in Indices, CloseTextChunk(at)
      PROVE  KeepsClosedMessages
  BY <1>3, ClosingKeepsClosed DEF CloseTextChunk, KeepsClosedMessages
<1>4. ASSUME UNCHANGED messageOwner PROVE KeepsOwners
  BY <1>4 DEF KeepsOwners
<1>5. ASSUME NEW e \in TextEvents, Remember(e), e.messageId \notin DOMAIN messageOwner
      PROVE  KeepsOwners
  BY <1>5 DEF Remember, Put, KeepsOwners
<1>6. ASSUME NEW e \in TextEvents, TextMessageStart(e)
      PROVE  KeepsClosedMessages /\ KeepsOwners
  <2>1. KeepsClosedMessages
    BY <1>1, <1>3, <1>6 DEF TextMessageStart
  <2>2. CASE RememberNothing
    BY <1>4, <2>1, <2>2 DEF RememberNothing
  <2>3. CASE /\ e.messageId \in MessageIds \ (DOMAIN openMessages \cup DOMAIN closed)
             /\ Remember(e)
    <3>1. e.messageId \notin DOMAIN messageOwner
      BY <1>1, <2>3, ClosingKeepsClosed DEF TextInv, MessageHasOneForm
    <3> QED BY <1>5, <2>1, <2>3, <3>1
  <2> QED BY <1>6, <2>2, <2>3 DEF TextMessageStart
<1>7. ASSUME NEW e \in TextEvents, TextMessageContent(e)
      PROVE  KeepsClosedMessages /\ KeepsOwners
  BY <1>1, <1>3, <1>4, <1>7 DEF TextMessageContent, RememberNothing
<1>8. ASSUME NEW e \in TextEvents, TextMessageEnd(e)
      PROVE  KeepsClosedMessages /\ KeepsOwners
  <2>1. KeepsOwners
    BY <1>4, <1>8 DEF TextMessageEnd, RememberNothing
  <2>2. CASE closedMessages' = closed
    BY <1>2, <2>1, <2>2 DEF KeepsClosedMessages
  <2>3. CASE /\ e.messageId \in DOMAIN openMessages
             /\ closedMessages' = Put(closed, e.messageId, eventCount)
    <3>1. e.messageId \notin DOMAIN closedMessages
      BY <2>3 DEF TextInv, MessageHasOneForm
    <3>2. \A m \in DOMAIN closedMessages :
            m \in DOMAIN closedMessages' /\ closedMessages'[m] = closedMessages[m]
      BY <1>2, <2>3, <3>1 DEF Put
    <3> QED BY <2>1, <3>2 DEF KeepsClosedMessages
  <2> QED BY <1>8, <2>2, <2>3 DEF TextMessageEnd
<1>9. ASSUME NEW e \in TextEvents, TextMessageChunk(e)
      PROVE  KeepsClosedMessages /\ KeepsOwners
  <2>1. KeepsClosedMessages
    BY <1>2, <1>9 DEF TextMessageChunk, CloseTextChunk, KeepsClosedMessages
  <2>2. CASE RememberNothing
    BY <1>4, <2>1, <2>2 DEF RememberNothing
  <2>3. CASE /\ e.messageId \in MessageIds \ (DOMAIN openMessages \cup DOMAIN closed)
             /\ Remember(e)
    <3>1. e.messageId \notin DOMAIN messageOwner
      BY <1>1, <2>3, ClosingKeepsClosed DEF TextInv, MessageHasOneForm
    <3> QED BY <1>5, <2>1, <2>3, <3>1
  <2> QED BY <1>9, <2>2, <2>3 DEF TextMessageChunk
<1>10. ASSUME NEW ms \in Learnable, TextElsewhere, LearnMessageIds(ms)
       PROVE  KeepsClosedMessages /\ KeepsOwners
  BY <1>1, <1>3, <1>4, <1>10 DEF TextElsewhere
<1>11. ASSUME TextUnjudged \/ UNCHANGED textVars
       PROVE  KeepsClosedMessages /\ KeepsOwners
  BY <1>11 DEF TextUnjudged, textVars, messageVars, RememberNothing,
               KeepsClosedMessages, KeepsOwners
<1>12. ~ TextNewRun
  BY DEF TextNewRun, NewRun, SameRun
<1>13. ASSUME NEW type \in TerminalTypes, TextEnds(type)
       PROVE  KeepsClosedMessages /\ KeepsOwners
  BY <1>1, <1>3, <1>4, <1>13 DEF TextEnds, RememberNothing
<1>14. ASSUME TextFinalize
       PROVE  KeepsClosedMessages /\ KeepsOwners
  <2>1. KeepsOwners
    BY <1>4, <1>14 DEF TextFinalize, RememberNothing
  <2>2. CASE CloseTextChunk(AtEndOfStream)
    BY <1>1, <1>3, <2>1, <2>2
  <2>3. CASE UNCHANGED closedMessages
    BY <2>1, <2>3 DEF KeepsClosedMessages
  <2> QED BY <1>14, <2>2, <2>3 DEF TextFinalize
<1> QED BY <1>6, <1>7, <1>8, <1>9, <1>10, <1>11, <1>12, <1>13, <1>14,
           TextInputsAssumption DEF TextNext, TextEvent

\* For any stream, a closed message stays closed at the index recorded when it
\* closed, and the owner recorded with a message's first event never changes,
\* until the next run begins.
THEOREM MessageHistoryStable == TextSpec => MessageHistoryIsStable
<1>1. TextInv /\ [TextNext]_textVars =>
        [SameRun => KeepsClosedMessages /\ KeepsOwners]_textVars
  BY StepKeepsHistory
<1> QED BY <1>1, TextInvariant, PTL DEF TextSpec, MessageHistoryIsStable

-----------------------------------------------------------------------------
(* The dictionaries remember of each id what the whole stream says of it. *)

MessageMirrored(m, n) ==
  /\ m \in DOMAIN openMessages <=> StartedAt(Message, m, n) # {}
  /\ \A p \in StartedAt(Message, m, n) :
       openMessages[m] = [start |-> log[p].at, owner |-> log[p].event.subagentRunId]
  /\ m \in DOMAIN closedMessages <=> ClosedAt(Message, m, n) # {}
  /\ \A q \in ClosedAt(Message, m, n) : closedMessages[m] = log[q].at
  /\ textChunk = m <=> StreamedAt(Message, m, n) # {}

TextMirrored(n) == \A m \in MessageIds : MessageMirrored(m, n)

TextMirrors == TextMirrored(Len(log))

LoggedText ==
  TextInputs \cup {Mark(kind) : kind \in TerminalTypes \cup
                     {"OTHER", "UNJUDGED", "RUN_STARTED", "END_OF_STREAM", "END_AFTER_RUN"}}

\* What is logged names a message or nothing.
LEMMA LoggedFields ==
  ASSUME NEW e \in LoggedText, e.type \in MessageTypes
  PROVE  e \in TextInputs /\ e.messageId \in MessageIds \cup {None}
<1>1. ASSUME NEW kind, e = Mark(kind) PROVE e.type = kind
  BY <1>1 DEF Mark
<1>2. e \in TextInputs
  BY <1>1 DEF LoggedText, MessageTypes, TerminalTypes
<1>3. e \in TextEvents
  BY <1>2, TextInputsAssumption
<1> QED BY <1>2, <1>3 DEF TextEvents

\* What the forms of a message look for in an event.
LEMMA MessageNames ==
  ASSUME NEW e, NEW m
  PROVE  /\ Names(Message, e, Message.start, m) <=>
              e.type = "TEXT_MESSAGE_START" /\ e.messageId = m
         /\ Names(Message, e, Message.chunk, m) <=>
              e.type = "TEXT_MESSAGE_CHUNK" /\ e.messageId = m
         /\ Names(Message, e, Message.end, m) <=>
              e.type = "TEXT_MESSAGE_END" /\ e.messageId = m
         /\ e[Message.field] = e.messageId /\ Message.chunk = "TEXT_MESSAGE_CHUNK"
         /\ Message \in Kinds
BY DEF Names, Message, Kinds

-----------------------------------------------------------------------------
(* What an input does to a message, and why that keeps the mirror. *)

\* Event e introduces m; it ends the chunk stream of m, when open are the messages that a
\* START holds open.
NamesFirst(e, m) ==
  e.type \in {"TEXT_MESSAGE_START", "TEXT_MESSAGE_CHUNK"} /\ e.messageId = m

EndsStream(e, m, open) ==
  /\ e.type \notin {"UNJUDGED", "END_AFTER_RUN"}
  /\ ~ (e.type = "TEXT_MESSAGE_CHUNK" /\ e.messageId \in {None, m} \cup open)

\* The step, logged at index i as e, moves m between its forms.
MessageMoves(m, i, e) ==
  /\ m \notin DOMAIN messageOwner =>
       IF NamesFirst(e, m)
       THEN IF e.type = "TEXT_MESSAGE_START"
            THEN /\ m \in DOMAIN openMessages'
                 /\ openMessages'[m] = [start |-> i, owner |-> e.subagentRunId]
            ELSE textChunk' = m
       ELSE m \notin DOMAIN messageOwner'
  /\ m \in DOMAIN openMessages =>
       IF e.type = "TEXT_MESSAGE_END" /\ e.messageId = m
       THEN m \in DOMAIN closedMessages' /\ closedMessages'[m] = i
       ELSE m \in DOMAIN openMessages' /\ openMessages'[m] = openMessages[m]
  /\ textChunk = m =>
       IF EndsStream(e, m, DOMAIN openMessages)
       THEN m \in DOMAIN closedMessages' /\ closedMessages'[m] = i
       ELSE textChunk' = m
  /\ m \in DOMAIN closedMessages =>
       m \in DOMAIN closedMessages' /\ closedMessages'[m] = closedMessages[m]

\* The three forms exclude one another.
LEMMA OneForm ==
  ASSUME TextInv, NEW m \in MessageIds
  PROVE  /\ m \in DOMAIN openMessages => m \notin DOMAIN closedMessages /\ textChunk # m
         /\ m \in DOMAIN closedMessages => textChunk # m
         /\ m \in DOMAIN messageOwner <=>
              m \in DOMAIN openMessages \/ m \in DOMAIN closedMessages \/ textChunk = m
BY MessageIdsAssumption DEF TextInv, MessageHasOneForm

\* What the stream says ends the chunk stream of m is what the dictionaries say.
LEMMA EndsStreamTold ==
  ASSUME NEW n, TextMirrored(n), NEW e \in LoggedText, NEW m
  PROVE  EndsStreaming(Message, e, m, n) <=> EndsStream(e, m, DOMAIN openMessages)
<1>1. EndsStreaming(Message, e, m, n) <=>
        /\ e.type \notin {"UNJUDGED", "END_AFTER_RUN"}
        /\ ~ /\ e.type = "TEXT_MESSAGE_CHUNK"
             /\ e.messageId \in {None, m} \/ Started(Message, e.messageId, n)
  BY MessageNames DEF EndsStreaming
<1>2. CASE e.type = "TEXT_MESSAGE_CHUNK"
  <2>1. e.messageId \in MessageIds \cup {None}
    BY <1>2, LoggedFields DEF MessageTypes
  <2>2. e.messageId \in MessageIds =>
          (e.messageId \in DOMAIN openMessages <=> Started(Message, e.messageId, n))
    BY DEF TextMirrored, MessageMirrored, Started
  <2> QED BY <1>1, <2>1, <2>2 DEF EndsStream
<1>3. CASE e.type # "TEXT_MESSAGE_CHUNK"
  BY <1>1, <1>3 DEF EndsStream
<1> QED BY <1>2, <1>3

LEMMA MessageMirrorGrows ==
  ASSUME TextInv, TextInv', NEW m \in MessageIds, NEW n, NEW i, NEW e \in LoggedText,
         Grows(n, i, e), TextMirrored(n), MessageMoves(m, i, e), e.type # "RUN_STARTED"
  PROVE  MessageMirrored(m, n + 1)'
<1>1. /\ n \in Nat
      /\ \A p \in 1..n : log'[p] = log[p]
      /\ log'[n + 1] = [at |-> i, event |-> e]
      /\ MessageMirrored(m, n)
  BY DEF Grows, TextMirrored
<1>2. /\ m \in DOMAIN openMessages => m \notin DOMAIN closedMessages /\ textChunk # m
      /\ m \in DOMAIN closedMessages => textChunk # m
      /\ m \in DOMAIN messageOwner <=>
           m \in DOMAIN openMessages \/ m \in DOMAIN closedMessages \/ textChunk = m
  BY OneForm
<1>3. /\ m \in DOMAIN openMessages' => m \notin DOMAIN closedMessages' /\ textChunk' # m
      /\ m \in DOMAIN closedMessages' => textChunk' # m
      /\ m \in DOMAIN messageOwner' <=>
           m \in DOMAIN openMessages' \/ m \in DOMAIN closedMessages' \/ textChunk' = m
  BY MessageIdsAssumption DEF TextInv, MessageHasOneForm
<1>4. StartedAt(Message, m, n) \subseteq 1..n /\ ClosedAt(Message, m, n) \subseteq 1..n
  BY DEF StartedAt, ClosedAt, Closers, IntroducedAt, Introducers, RunPositions, First
<1>5. EndsStreaming(Message, e, m, n) <=> EndsStream(e, m, DOMAIN openMessages)
  BY EndsStreamTold
<1>6. /\ StartedAt(Message, m, n) # {} =>
           /\ StartedAt(Message, m, n + 1)' =
                (IF Names(Message, e, Message.end, m) THEN {} ELSE StartedAt(Message, m, n))
           /\ StreamedAt(Message, m, n + 1)' = {}
           /\ ClosedAt(Message, m, n + 1)' =
                (IF Names(Message, e, Message.end, m) THEN {n + 1} ELSE {})
      /\ StreamedAt(Message, m, n) # {} =>
           /\ StartedAt(Message, m, n + 1)' = {}
           /\ StreamedAt(Message, m, n + 1)' =
                (IF EndsStreaming(Message, e, m, n) THEN {} ELSE StreamedAt(Message, m, n))
           /\ ClosedAt(Message, m, n + 1)' =
                (IF EndsStreaming(Message, e, m, n) THEN {n + 1} ELSE {})
      /\ ClosedAt(Message, m, n) # {} =>
           /\ StartedAt(Message, m, n + 1)' = {} /\ StreamedAt(Message, m, n + 1)' = {}
           /\ ClosedAt(Message, m, n + 1)' = ClosedAt(Message, m, n)
  BY MessageNames, FormsMove
<1>7. CASE m \notin DOMAIN messageOwner
  <2>1. Fresh(Message, m, n)
    BY <1>1, <1>2, <1>7 DEF MessageMirrored, Fresh
  <2>2. /\ StartedAt(Message, m, n + 1)' =
             (IF e.type = "TEXT_MESSAGE_START" /\ e.messageId = m THEN {n + 1} ELSE {})
        /\ StreamedAt(Message, m, n + 1)' =
             (IF e.type = "TEXT_MESSAGE_CHUNK" /\ e.messageId = m THEN {n + 1} ELSE {})
        /\ ClosedAt(Message, m, n + 1)' = {}
    BY <2>1, MessageNames, FormsMove
  <2>3. CASE ~ NamesFirst(e, m)
    BY <1>3, <1>7, <2>2, <2>3 DEF MessageMoves, MessageMirrored, NamesFirst
  <2>4. CASE NamesFirst(e, m) /\ e.type = "TEXT_MESSAGE_START"
    BY <1>1, <1>3, <1>7, <2>2, <2>4 DEF MessageMoves, MessageMirrored, NamesFirst
  <2>5. CASE NamesFirst(e, m) /\ e.type = "TEXT_MESSAGE_CHUNK"
    BY <1>1, <1>3, <1>7, <2>2, <2>5 DEF MessageMoves, MessageMirrored, NamesFirst
  <2> QED BY <2>3, <2>4, <2>5 DEF NamesFirst
<1>8. CASE m \in DOMAIN openMessages
  <2>1. /\ StartedAt(Message, m, n + 1)' =
             (IF e.type = "TEXT_MESSAGE_END" /\ e.messageId = m
              THEN {} ELSE StartedAt(Message, m, n))
        /\ StreamedAt(Message, m, n + 1)' = {}
        /\ ClosedAt(Message, m, n + 1)' =
             (IF e.type = "TEXT_MESSAGE_END" /\ e.messageId = m THEN {n + 1} ELSE {})
    BY <1>1, <1>6, <1>8, MessageNames DEF MessageMirrored
  <2>2. CASE e.type = "TEXT_MESSAGE_END" /\ e.messageId = m
    BY <1>1, <1>3, <1>8, <2>1, <2>2 DEF MessageMoves, MessageMirrored
  <2>3. CASE ~ (e.type = "TEXT_MESSAGE_END" /\ e.messageId = m)
    <3>1. m \in DOMAIN openMessages' /\ openMessages'[m] = openMessages[m]
      BY <1>8, <2>3 DEF MessageMoves
    <3> QED BY <1>1, <1>3, <1>4, <1>8, <2>1, <2>3, <3>1 DEF MessageMirrored
  <2> QED BY <2>2, <2>3
<1>9. CASE textChunk = m
  <2>1. /\ StartedAt(Message, m, n + 1)' = {}
        /\ StreamedAt(Message, m, n + 1)' =
             (IF EndsStream(e, m, DOMAIN openMessages) THEN {} ELSE StreamedAt(Message, m, n))
        /\ ClosedAt(Message, m, n + 1)' =
             (IF EndsStream(e, m, DOMAIN openMessages) THEN {n + 1} ELSE {})
    BY <1>1, <1>5, <1>6, <1>9 DEF MessageMirrored
  <2>2. CASE EndsStream(e, m, DOMAIN openMessages)
    BY <1>1, <1>3, <1>9, <2>1, <2>2 DEF MessageMoves, MessageMirrored
  <2>3. CASE ~ EndsStream(e, m, DOMAIN openMessages)
    BY <1>1, <1>3, <1>9, <2>1, <2>3 DEF MessageMoves, MessageMirrored
  <2> QED BY <2>2, <2>3
<1>10. CASE m \in DOMAIN closedMessages
  <2>1. /\ StartedAt(Message, m, n + 1)' = {} /\ StreamedAt(Message, m, n + 1)' = {}
        /\ ClosedAt(Message, m, n + 1)' = ClosedAt(Message, m, n)
    BY <1>1, <1>6, <1>10 DEF MessageMirrored
  <2>2. m \in DOMAIN closedMessages' /\ closedMessages'[m] = closedMessages[m]
    BY <1>10 DEF MessageMoves
  <2> QED BY <1>1, <1>3, <1>4, <1>10, <2>1, <2>2 DEF MessageMirrored
<1> QED BY <1>2, <1>7, <1>8, <1>9, <1>10

\* A step that closes the chunk stream and introduces and ends no message.
LEMMA ClosingMoves ==
  ASSUME TextInv, NEW m \in MessageIds, NEW i \in Indices, NEW e,
         closedMessages' = ClosedOnceChunkEnds(i),
         UNCHANGED <<openMessages, messageOwner>>,
         textChunk = m => EndsStream(e, m, DOMAIN openMessages),
         NamesFirst(e, m) => m \in DOMAIN messageOwner,
         e.type = "TEXT_MESSAGE_END" /\ e.messageId = m => m \notin DOMAIN openMessages
  PROVE  MessageMoves(m, i, e)
<1>1. /\ DOMAIN closedMessages' = DOMAIN closedMessages \cup ({textChunk} \ {None})
      /\ \A k \in DOMAIN closedMessages : closedMessages'[k] = closedMessages[k]
  BY ClosingKeepsClosed
<1>2. textChunk = m => m \in DOMAIN closedMessages' /\ closedMessages'[m] = i
  BY MessageIdsAssumption DEF ClosedOnceChunkEnds, Put
<1> QED BY <1>1, <1>2 DEF MessageMoves

LEMMA StandingMoves ==
  ASSUME NEW m \in MessageIds, NEW i, NEW e,
         UNCHANGED <<messageVars, messageOwner>>,
         ~ EndsStream(e, m, DOMAIN openMessages),
         NamesFirst(e, m) => m \in DOMAIN messageOwner,
         e.type # "TEXT_MESSAGE_END"
  PROVE  MessageMoves(m, i, e)
BY DEF MessageMoves, messageVars

LEMMA StartMoves ==
  ASSUME TextInv, NEW m \in MessageIds, NEW i \in Indices, i = eventCount, NEW e,
         TextMessageStart(e)
  PROVE  MessageMoves(m, i, e)
<1> DEFINE k == e.messageId
           closed == ClosedOnceChunkEnds(i)
<1>1. /\ e.type = "TEXT_MESSAGE_START" /\ closedMessages' = closed /\ textChunk' = None
      /\ EndsStream(e, m, DOMAIN openMessages)
  BY DEF TextMessageStart, CloseTextChunk, EndsStream
<1>2. /\ DOMAIN closed = DOMAIN closedMessages \cup ({textChunk} \ {None})
      /\ \A x \in DOMAIN closedMessages : closed[x] = closedMessages[x]
  BY ClosingKeepsClosed
<1>3. m \in DOMAIN messageOwner <=>
        m \in DOMAIN openMessages \/ m \in DOMAIN closedMessages \/ textChunk = m
  BY OneForm
<1>4. CASE UNCHANGED openMessages /\ RememberNothing
           /\ (k = m => m \in DOMAIN openMessages \cup DOMAIN closed)
  <2>1. UNCHANGED <<openMessages, messageOwner>>
    BY <1>4 DEF RememberNothing
  <2>2. NamesFirst(e, m) => m \in DOMAIN messageOwner
    BY <1>2, <1>3, <1>4 DEF NamesFirst
  <2> QED BY <1>1, <2>1, <2>2, ClosingMoves
<1>5. CASE /\ k \in MessageIds \ (DOMAIN openMessages \cup DOMAIN closed)
           /\ openMessages' = Put(openMessages, k, [start |-> i, owner |-> e.subagentRunId])
           /\ Remember(e)
  <2>1. /\ m \in DOMAIN openMessages =>
             m \in DOMAIN openMessages' /\ openMessages'[m] = openMessages[m]
        /\ k = m => /\ m \in DOMAIN openMessages'
                    /\ openMessages'[m] = [start |-> i, owner |-> e.subagentRunId]
    BY <1>5 DEF Put
  <2>2. k # m => (m \in DOMAIN messageOwner' <=> m \in DOMAIN messageOwner)
    BY <1>5 DEF Put, Remember
  <2>3. textChunk = m => m \in DOMAIN closedMessages' /\ closedMessages'[m] = i
    BY <1>1, MessageIdsAssumption DEF ClosedOnceChunkEnds, Put
  <2>4. m \in DOMAIN closedMessages =>
          m \in DOMAIN closedMessages' /\ closedMessages'[m] = closedMessages[m]
    BY <1>1, <1>2
  <2> QED BY <1>1, <2>1, <2>2, <2>3, <2>4 DEF MessageMoves, NamesFirst
<1>6. \/ /\ UNCHANGED openMessages /\ RememberNothing
         /\ (k = m => m \in DOMAIN openMessages \cup DOMAIN closed)
      \/ /\ k \in MessageIds \ (DOMAIN openMessages \cup DOMAIN closed)
         /\ openMessages' = Put(openMessages, k, [start |-> i, owner |-> e.subagentRunId])
         /\ Remember(e)
  BY MessageIdsAssumption DEF TextMessageStart
<1> QED BY <1>4, <1>5, <1>6

LEMMA ContentMoves ==
  ASSUME TextInv, NEW m \in MessageIds, NEW i \in Indices, i = eventCount, NEW e,
         TextMessageContent(e)
  PROVE  MessageMoves(m, i, e)
<1>1. /\ e.type = "TEXT_MESSAGE_CONTENT" /\ closedMessages' = ClosedOnceChunkEnds(i)
      /\ UNCHANGED <<openMessages, messageOwner>>
  BY DEF TextMessageContent, CloseTextChunk, RememberNothing
<1>2. EndsStream(e, m, DOMAIN openMessages) /\ ~ NamesFirst(e, m)
  BY <1>1 DEF EndsStream, NamesFirst
<1> QED BY <1>1, <1>2, ClosingMoves

LEMMA EndMoves ==
  ASSUME TextInv, NEW m \in MessageIds, NEW i \in Indices, i = eventCount, NEW e,
         TextMessageEnd(e)
  PROVE  MessageMoves(m, i, e)
<1> DEFINE k == e.messageId
           closed == ClosedOnceChunkEnds(i)
<1>1. e.type = "TEXT_MESSAGE_END" /\ UNCHANGED messageOwner
  BY DEF TextMessageEnd, RememberNothing
<1>2. EndsStream(e, m, DOMAIN openMessages) /\ ~ NamesFirst(e, m)
  BY <1>1 DEF EndsStream, NamesFirst
<1>3. CASE closedMessages' = closed /\ UNCHANGED openMessages /\ k \notin DOMAIN openMessages
  BY <1>1, <1>2, <1>3, ClosingMoves
<1>4. CASE /\ k \in DOMAIN openMessages
           /\ openMessages' = Drop(openMessages, k)
           /\ closedMessages' = Put(closed, k, i)
  <2>1. /\ DOMAIN closed = DOMAIN closedMessages \cup ({textChunk} \ {None})
        /\ \A x \in DOMAIN closedMessages : closed[x] = closedMessages[x]
    BY ClosingKeepsClosed
  <2>2. textChunk = m => m \in DOMAIN closed /\ closed[m] = i
    BY MessageIdsAssumption DEF ClosedOnceChunkEnds, Put
  <2>3. k \notin DOMAIN closedMessages
    BY <1>4 DEF TextInv, MessageHasOneForm
  <2>4. /\ m \in DOMAIN openMessages /\ k # m =>
             m \in DOMAIN openMessages' /\ openMessages'[m] = openMessages[m]
        /\ k = m => m \in DOMAIN closedMessages' /\ closedMessages'[m] = i
        /\ m \in DOMAIN closed /\ k # m =>
             m \in DOMAIN closedMessages' /\ closedMessages'[m] = closed[m]
    BY <1>4 DEF Put, Drop
  <2> QED BY <1>1, <1>2, <2>1, <2>2, <2>3, <2>4 DEF MessageMoves
<1>5. k = None => k \notin DOMAIN openMessages
  BY MessageIdsAssumption DEF TextInv, TextTypeOK, IsDict
<1> QED BY <1>3, <1>4, <1>5 DEF TextMessageEnd

LEMMA ChunkMoves ==
  ASSUME TextInv, NEW m \in MessageIds, NEW i \in Indices, i = eventCount, NEW e,
         TextMessageChunk(e)
  PROVE  MessageMoves(m, i, e)
<1> DEFINE k == e.messageId
           closed == ClosedOnceChunkEnds(i)
<1>1. /\ e.type = "TEXT_MESSAGE_CHUNK" /\ UNCHANGED openMessages
      /\ EndsStream(e, m, DOMAIN openMessages) <=> k \notin {None, m} \cup DOMAIN openMessages
      /\ NamesFirst(e, m) <=> k = m
  BY DEF TextMessageChunk, EndsStream, NamesFirst
<1>2. /\ DOMAIN closed = DOMAIN closedMessages \cup ({textChunk} \ {None})
      /\ \A x \in DOMAIN closedMessages : closed[x] = closedMessages[x]
  BY ClosingKeepsClosed
<1>3. m \in DOMAIN messageOwner <=>
        m \in DOMAIN openMessages \/ m \in DOMAIN closedMessages \/ textChunk = m
  BY OneForm
<1>4. textChunk = m => m \in DOMAIN closed /\ closed[m] = i
  BY MessageIdsAssumption DEF ClosedOnceChunkEnds, Put
<1>5. CASE /\ k = None \/ k \in DOMAIN openMessages \cup {textChunk}
           /\ UNCHANGED <<closedMessages, textChunk>> /\ RememberNothing
  BY <1>1, <1>3, <1>5, MessageIdsAssumption DEF MessageMoves, RememberNothing
<1>6. CASE /\ k \in DOMAIN closed \ (DOMAIN openMessages \cup {textChunk})
           /\ closedMessages' = closed /\ RememberNothing
  <2>1. k \in DOMAIN closedMessages /\ k # None
    BY <1>2, <1>6, MessageIdsAssumption DEF TextInv, TextTypeOK, IsDict
  <2>2. textChunk = m => EndsStream(e, m, DOMAIN openMessages)
    BY <1>1, <1>6, <2>1
  <2>3. NamesFirst(e, m) => m \in DOMAIN messageOwner
    BY <1>1, <1>3, <2>1
  <2>4. UNCHANGED <<openMessages, messageOwner>>
    BY <1>1, <1>6 DEF RememberNothing
  <2> QED BY <1>1, <1>6, <2>2, <2>3, <2>4, ClosingMoves
<1>7. CASE /\ k \in MessageIds \ (DOMAIN openMessages \cup DOMAIN closed)
           /\ closedMessages' = closed /\ textChunk' = k /\ Remember(e)
  <2>1. k # m => (m \in DOMAIN messageOwner' <=> m \in DOMAIN messageOwner)
    BY <1>7 DEF Put, Remember
  <2>2. k # None /\ k \notin DOMAIN openMessages
    BY <1>7, MessageIdsAssumption
  <2>3. textChunk = m => k # m
    BY <1>4, <1>7
  <2> QED BY <1>1, <1>2, <1>4, <1>7, <2>1, <2>2, <2>3 DEF MessageMoves
<1> QED BY <1>5, <1>6, <1>7 DEF TextMessageChunk, CloseTextChunk

-----------------------------------------------------------------------------
(* What the rules report is what the stream deserves. *)

\* The indices of the events that opened and closed a message are those in the
\* dictionaries.
LEMMA IndicesTold ==
  ASSUME NEW n, NEW i, NEW e, Grows(n, i, e), NEW m,
         MessageMirrored(m, n), MessageMirrored(m, n + 1)'
  PROVE  /\ StartedAt(Message, m, (n + 1) - 1)' = StartedAt(Message, m, n)
         /\ StartedAt(Message, m, n) # {} <=> m \in DOMAIN openMessages
         /\ m \in DOMAIN openMessages =>
              /\ {log'[p].at : p \in StartedAt(Message, m, n)} = {openMessages[m].start}
              /\ \A p \in StartedAt(Message, m, n) :
                   log'[p].event.subagentRunId = openMessages[m].owner
         /\ IndicesOf(ClosedAt(Message, m, n + 1))' =
              IF m \in DOMAIN closedMessages' THEN {closedMessages'[m]} ELSE {}
<1>1. /\ n \in Nat /\ n \in 0..n /\ (n + 1) - 1 = n
      /\ \A p \in 1..n : log'[p] = log[p]
  BY DEF Grows
<1>2. StartedAt(Message, m, n)' = StartedAt(Message, m, n) /\ StartedAt(Message, m, n) \subseteq 1..n
  BY <1>1, FormsPast DEF StartedAt
<1>3. StartedAt(Message, m, (n + 1) - 1)' = StartedAt(Message, m, n)
  <2>1. PICK k : k = n
    OBVIOUS
  <2>2. (n + 1) - 1 = k
    BY <1>1, <2>1
  <2> QED BY <1>2, <2>1, <2>2
<1>4. StartedAt(Message, m, n) # {} <=> m \in DOMAIN openMessages
  BY DEF MessageMirrored
<1>5. ASSUME NEW p \in StartedAt(Message, m, n)
      PROVE  /\ log'[p].at = openMessages[m].start
             /\ log'[p].event.subagentRunId = openMessages[m].owner
  <2>1. openMessages[m] = [start |-> log[p].at, owner |-> log[p].event.subagentRunId]
    BY DEF MessageMirrored
  <2>2. log'[p] = log[p]
    BY <1>1, <1>2
  <2> QED BY <2>1, <2>2
<1>6. IndicesOf(ClosedAt(Message, m, n + 1))' =
        IF m \in DOMAIN closedMessages' THEN {closedMessages'[m]} ELSE {}
  <2>1. IndicesOf(ClosedAt(Message, m, n + 1))' = {log'[q].at : q \in ClosedAt(Message, m, n + 1)'}
    BY DEF IndicesOf
  <2>2. m \in DOMAIN closedMessages' <=> ClosedAt(Message, m, n + 1)' # {}
    BY DEF MessageMirrored
  <2>3. \A q \in ClosedAt(Message, m, n + 1)' : closedMessages'[m] = log'[q].at
    BY DEF MessageMirrored
  <2> QED BY <2>1, <2>2, <2>3
<1> QED BY <1>3, <1>4, <1>5, <1>6

\* What an event that names a message deserves.
LEMMA MessageDeserves ==
  ASSUME NEW n, NEW i, NEW e, Grows(n, i, e), NEW m, m = e.messageId, m # None,
         e.type \in MessageTypes,
         MessageMirrored(m, n), MessageMirrored(m, n + 1)'
  PROVE  /\ e.type = "TEXT_MESSAGE_START" =>
              TextDeserved(n + 1)' =
                IF m \in DOMAIN openMessages
                THEN {Finding("AGUI106", i, m, openMessages[m].start)}
                ELSE IF m \in DOMAIN closedMessages'
                THEN {Finding("AGUI104", i, m, closedMessages'[m])} ELSE {}
         /\ e.type = "TEXT_MESSAGE_CHUNK" =>
              TextDeserved(n + 1)' =
                IF m \in DOMAIN openMessages THEN {}
                ELSE IF m \in DOMAIN closedMessages'
                THEN {Finding("AGUI104", i, m, closedMessages'[m])} ELSE {}
         /\ e.type = "TEXT_MESSAGE_CONTENT" =>
              TextDeserved(n + 1)' =
                IF m \notin DOMAIN openMessages
                THEN {Finding("AGUI101", i, m, IF m \in DOMAIN closedMessages'
                                               THEN closedMessages'[m] ELSE None)}
                ELSE OwnerFindings(i, m, e.subagentRunId, openMessages[m].owner)
                     \cup (IF e.emptyDelta
                           THEN {Finding("AGUI105", i, m, openMessages[m].start)} ELSE {})
         /\ e.type = "TEXT_MESSAGE_END" =>
              TextDeserved(n + 1)' =
                IF m \notin DOMAIN openMessages THEN {Finding("AGUI102", i, m, None)}
                ELSE OwnerFindings(i, m, e.subagentRunId, openMessages[m].owner)
<1>1. log'[n + 1] = [at |-> i, event |-> e] /\ log'[n + 1].event = e /\ log'[n + 1].at = i
  BY DEF Grows
<1>2. PICK S, C : S = StartedAt(Message, m, n) /\ C = IndicesOf(ClosedAt(Message, m, n + 1))'
  OBVIOUS
<1>3. StartedAt(Message, m, (n + 1) - 1)' = S
  BY <1>2, IndicesTold
<1>4. TextDeserved(n + 1)' = OfMessage(i, e, S, C)'
  BY <1>1, <1>2, <1>3 DEF TextDeserved, MessageTypes
<1>5. C = IF m \in DOMAIN closedMessages' THEN {closedMessages'[m]} ELSE {}
  BY <1>2, IndicesTold
<1>6. S # {} <=> m \in DOMAIN openMessages
  BY <1>2, IndicesTold
<1>7. m \in DOMAIN openMessages =>
        /\ IndicesOf(S)' = {openMessages[m].start}
        /\ Disowned(i, m, e.subagentRunId, S)' =
             OwnerFindings(i, m, e.subagentRunId, openMessages[m].owner)
  <2> SUFFICES ASSUME m \in DOMAIN openMessages
               PROVE  /\ IndicesOf(S)' = {openMessages[m].start}
                      /\ Disowned(i, m, e.subagentRunId, S)' =
                           OwnerFindings(i, m, e.subagentRunId, openMessages[m].owner)
    OBVIOUS
  <2>1. /\ {log'[p].at : p \in S} = {openMessages[m].start}
        /\ \A p \in S : log'[p].event.subagentRunId = openMessages[m].owner
    <3>1. /\ {log'[p].at : p \in StartedAt(Message, m, n)} = {openMessages[m].start}
          /\ \A p \in StartedAt(Message, m, n) : log'[p].event.subagentRunId = openMessages[m].owner
      BY IndicesTold
    <3> QED BY <1>2, <3>1
  <2>2. IndicesOf(S)' = {log'[p].at : p \in S}
    BY DEF IndicesOf
  <2>3. Disowned(i, m, e.subagentRunId, S)' =
          UNION {OwnerFindings(i, m, e.subagentRunId, log'[p].event.subagentRunId) : p \in S}
    BY DEF Disowned, OwnerFindings
  <2>4. UNION {OwnerFindings(i, m, e.subagentRunId, log'[p].event.subagentRunId) : p \in S}
        = OwnerFindings(i, m, e.subagentRunId, openMessages[m].owner)
    BY <1>6, <2>1
  <2> QED BY <2>1, <2>2, <2>3, <2>4
<1>8. \A rule, x : About(rule, i, m, {x}) = {Finding(rule, i, m, x)}
  BY DEF About
<1>9. \A rule : About(rule, i, m, {}) = {}
  BY DEF About
<1>10. CASE e.type = "TEXT_MESSAGE_START"
  <2>1. OfMessage(i, e, S, C)' =
          IF S # {} THEN About("AGUI106", i, m, IndicesOf(S)') ELSE About("AGUI104", i, m, C)
    BY <1>10 DEF OfMessage, About, Finding, IndicesOf
  <2>2. CASE m \in DOMAIN openMessages
    BY <1>4, <1>6, <1>7, <1>8, <1>10, <2>1, <2>2
  <2>3. CASE m \notin DOMAIN openMessages
    BY <1>4, <1>5, <1>6, <1>8, <1>9, <1>10, <2>1, <2>3
  <2> QED BY <2>2, <2>3
<1>11. CASE e.type = "TEXT_MESSAGE_CHUNK"
  <2>1. OfMessage(i, e, S, C)' = IF S # {} THEN {} ELSE About("AGUI104", i, m, C)
    BY <1>11 DEF OfMessage, About, Finding
  <2> QED BY <1>4, <1>5, <1>6, <1>8, <1>9, <1>11, <2>1
<1>12. CASE e.type = "TEXT_MESSAGE_CONTENT"
  <2>1. OfMessage(i, e, S, C)' =
          IF S = {} THEN About("AGUI101", i, m, IF C = {} THEN {None} ELSE C)
          ELSE Disowned(i, m, e.subagentRunId, S)'
               \cup (IF e.emptyDelta THEN About("AGUI105", i, m, IndicesOf(S)') ELSE {})
    BY <1>12 DEF OfMessage, About, Finding, IndicesOf
  <2>2. CASE m \in DOMAIN openMessages
    BY <1>4, <1>6, <1>7, <1>8, <1>12, <2>1, <2>2
  <2>3. CASE m \notin DOMAIN openMessages
    BY <1>4, <1>5, <1>6, <1>8, <1>9, <1>12, <2>1, <2>3
  <2> QED BY <2>2, <2>3
<1>13. CASE e.type = "TEXT_MESSAGE_END"
  <2>1. OfMessage(i, e, S, C)' =
          IF S = {} THEN About("AGUI102", i, m, {None})
          ELSE Disowned(i, m, e.subagentRunId, S)'
    BY <1>13 DEF OfMessage, About, Finding
  <2> QED BY <1>4, <1>6, <1>7, <1>8, <1>13, <2>1
<1> QED BY <1>10, <1>11, <1>12, <1>13 DEF MessageTypes

LEMMA TextEventTold ==
  ASSUME TextInv, NEW n, NEW i, i = eventCount, NEW e \in TextInputs, Grows(n, i, e),
         TextMirrored(n), TextMirrored(n + 1)', TextEvent(e)
  PROVE  textFound' = TextDeserved(n + 1)'
<1>1. /\ log'[n + 1].event = e /\ log'[n + 1].at = i
      /\ n \in Nat /\ (n + 1) - 1 = n
  BY DEF Grows
<1>2. e.messageId \in MessageIds \cup {None} /\ e.type \in MessageTypes
  BY TextInputsAssumption DEF TextEvents, MessageTypes
<1>3. DOMAIN openMessages \subseteq MessageIds /\ DOMAIN closedMessages \subseteq MessageIds
  BY DEF TextInv, TextTypeOK, IsDict
<1>4. CASE e.messageId = None
  <2>1. TextDeserved(n + 1)' =
          IF e.type = "TEXT_MESSAGE_CHUNK"
             /\ \A m \in MessageIds : StreamedAt(Message, m, (n + 1) - 1)' = {}
          THEN {Finding("AGUI504", i, None, None)} ELSE {}
    <3>1. About("AGUI504", i, None, {None})' = {Finding("AGUI504", i, None, None)}
      BY DEF About, Finding
    <3> QED BY <1>1, <1>2, <1>4, <3>1 DEF TextDeserved, MessageTypes
  <2>2. (\A m \in MessageIds : StreamedAt(Message, m, (n + 1) - 1)' = {}) <=> textChunk = None
    <3>1. ASSUME NEW m \in MessageIds PROVE StreamedAt(Message, m, (n + 1) - 1)' = {} <=> textChunk # m
      <4>1. StreamedAt(Message, m, n)' = StreamedAt(Message, m, n)
        BY ClosersPast, MessageNames
      <4>2. PICK k : k = n
        OBVIOUS
      <4>3. (n + 1) - 1 = k
        BY <1>1, <4>2
      <4>4. StreamedAt(Message, m, (n + 1) - 1)' = StreamedAt(Message, m, n)
        BY <4>1, <4>2, <4>3
      <4> QED BY <4>4 DEF TextMirrored, MessageMirrored
    <3> QED BY <3>1, MessageIdsAssumption DEF TextInv, TextTypeOK
  <2>3. textFound' = IF e.type = "TEXT_MESSAGE_CHUNK" /\ textChunk = None
                     THEN {Finding("AGUI504", eventCount, None, None)} ELSE {}
    BY <1>3, <1>4, MessageIdsAssumption, RelatedType
       DEF TextEvent, TextMessageStart, TextMessageContent, TextMessageEnd, TextMessageChunk,
           Reports
  <2> QED BY <2>1, <2>2, <2>3
<1>5. CASE e.messageId # None
  <2>1. PICK m \in MessageIds : m = e.messageId
    BY <1>2, <1>5
  <2>2. MessageMirrored(m, n) /\ MessageMirrored(m, n + 1)' /\ m # None
    BY <1>5, <2>1 DEF TextMirrored
  <2>3. /\ e.type = "TEXT_MESSAGE_START" =>
             TextDeserved(n + 1)' =
               IF m \in DOMAIN openMessages
               THEN {Finding("AGUI106", i, m, openMessages[m].start)}
               ELSE IF m \in DOMAIN closedMessages'
               THEN {Finding("AGUI104", i, m, closedMessages'[m])} ELSE {}
        /\ e.type = "TEXT_MESSAGE_CHUNK" =>
             TextDeserved(n + 1)' =
               IF m \in DOMAIN openMessages THEN {}
               ELSE IF m \in DOMAIN closedMessages'
               THEN {Finding("AGUI104", i, m, closedMessages'[m])} ELSE {}
        /\ e.type = "TEXT_MESSAGE_CONTENT" =>
             TextDeserved(n + 1)' =
               IF m \notin DOMAIN openMessages
               THEN {Finding("AGUI101", i, m, IF m \in DOMAIN closedMessages'
                                              THEN closedMessages'[m] ELSE None)}
               ELSE OwnerFindings(i, m, e.subagentRunId, openMessages[m].owner)
                    \cup (IF e.emptyDelta
                          THEN {Finding("AGUI105", i, m, openMessages[m].start)} ELSE {})
        /\ e.type = "TEXT_MESSAGE_END" =>
             TextDeserved(n + 1)' =
               IF m \notin DOMAIN openMessages THEN {Finding("AGUI102", i, m, None)}
               ELSE OwnerFindings(i, m, e.subagentRunId, openMessages[m].owner)
    BY <1>2, <2>1, <2>2, MessageDeserves
  <2>4. CASE TextMessageStart(e)
    <3>1. e.type = "TEXT_MESSAGE_START" /\ closedMessages' = ClosedOnceChunkEnds(eventCount)
      BY <2>4 DEF TextMessageStart, CloseTextChunk
    <3>2. TextDeserved(n + 1)' =
            IF m \in DOMAIN openMessages
            THEN {Finding("AGUI106", i, m, openMessages[m].start)}
            ELSE IF m \in DOMAIN closedMessages'
            THEN {Finding("AGUI104", i, m, closedMessages'[m])} ELSE {}
      BY <2>3, <3>1
    <3> QED BY <2>1, <2>2, <2>4, <3>1, <3>2 DEF TextMessageStart, Reports, ReportsOnId
  <2>5. CASE TextMessageChunk(e)
    <3>1. e.type = "TEXT_MESSAGE_CHUNK"
      BY <2>5 DEF TextMessageChunk
    <3>2. TextDeserved(n + 1)' =
            IF m \in DOMAIN openMessages THEN {}
            ELSE IF m \in DOMAIN closedMessages'
            THEN {Finding("AGUI104", i, m, closedMessages'[m])} ELSE {}
      BY <2>3, <3>1
    <3>3. textChunk = m => m \notin DOMAIN closedMessages
      BY OneForm
    <3> QED BY <2>1, <2>2, <2>5, <3>2, <3>3
            DEF TextMessageChunk, CloseTextChunk, Reports, ReportsOnId
  <2>6. CASE TextMessageContent(e)
    <3>1. /\ e.type = "TEXT_MESSAGE_CONTENT"
          /\ closedMessages' = ClosedOnceChunkEnds(eventCount)
      BY <2>6 DEF TextMessageContent, CloseTextChunk
    <3>2. TextDeserved(n + 1)' =
            IF m \notin DOMAIN openMessages
            THEN {Finding("AGUI101", i, m, IF m \in DOMAIN closedMessages'
                                           THEN closedMessages'[m] ELSE None)}
            ELSE OwnerFindings(i, m, e.subagentRunId, openMessages[m].owner)
                 \cup (IF e.emptyDelta
                       THEN {Finding("AGUI105", i, m, openMessages[m].start)} ELSE {})
      BY <2>3, <3>1
    <3> QED BY <2>1, <2>2, <2>6, <3>1, <3>2 DEF TextMessageContent, Reports, ReportsOnId
  <2>7. CASE TextMessageEnd(e)
    <3>1. e.type = "TEXT_MESSAGE_END"
      BY <2>7 DEF TextMessageEnd
    <3>2. TextDeserved(n + 1)' =
            IF m \notin DOMAIN openMessages THEN {Finding("AGUI102", i, m, None)}
            ELSE OwnerFindings(i, m, e.subagentRunId, openMessages[m].owner)
      BY <2>3, <3>1
    <3> QED BY <2>1, <2>2, <2>7, <3>2 DEF TextMessageEnd, Reports, ReportsOnId
  <2> QED BY <2>4, <2>5, <2>6, <2>7 DEF TextEvent
<1> QED BY <1>4, <1>5

\* What an input that is no text event deserves.
LEMMA MarkDeserves ==
  ASSUME NEW n, NEW i, NEW e, Grows(n, i, e), NEW kind, kind \notin MessageTypes,
         e = Mark(kind),
         TextMirrored(n + 1)', DOMAIN openMessages' \subseteq MessageIds
  PROVE  TextDeserved(n + 1)' =
           IF kind \in {"RUN_FINISHED", "END_OF_STREAM"} THEN UnterminatedMessages(i)' ELSE {}
<1>1. log'[n + 1].event = e /\ log'[n + 1].at = i /\ e.type = kind
  BY DEF Grows, Mark
<1>2. TextDeserved(n + 1)' =
        IF kind \in {"RUN_FINISHED", "END_OF_STREAM"} THEN LeftOpen(i, n + 1)' ELSE {}
  BY <1>1 DEF TextDeserved, MessageTypes
<1> DEFINE Debris(m) == About("AGUI103", i, m, IndicesOf(StartedAt(Message, m, n + 1)))'
<1>3. LeftOpen(i, n + 1)' = UNION {Debris(m) : m \in MessageIds}
  BY DEF LeftOpen
<1>4. ASSUME NEW m \in MessageIds
      PROVE  Debris(m) = IF m \in DOMAIN openMessages'
                         THEN {Finding("AGUI103", i, m, openMessages'[m].start)} ELSE {}
  <2>1. MessageMirrored(m, n + 1)'
    BY DEF TextMirrored
  <2>2. m \in DOMAIN openMessages' <=> StartedAt(Message, m, n + 1)' # {}
    BY <2>1 DEF MessageMirrored
  <2>3. \A p \in StartedAt(Message, m, n + 1)' : openMessages'[m].start = log'[p].at
    <3> SUFFICES ASSUME NEW p \in StartedAt(Message, m, n + 1)'
                 PROVE  openMessages'[m].start = log'[p].at
      OBVIOUS
    <3>1. openMessages'[m] = [start |-> log'[p].at, owner |-> log'[p].event.subagentRunId]
      BY <2>1 DEF MessageMirrored
    <3> QED BY <3>1
  <2>4. Debris(m) = {Finding("AGUI103", i, m, k) : k \in {log'[p].at : p \in StartedAt(Message, m, n + 1)'}}
    BY DEF About, IndicesOf, Finding
  <2>5. {log'[p].at : p \in StartedAt(Message, m, n + 1)'} =
          IF m \in DOMAIN openMessages' THEN {openMessages'[m].start} ELSE {}
    BY <2>2, <2>3
  <2> QED BY <2>4, <2>5
<1> HIDE DEF Debris
<1>5. UNION {Debris(m) : m \in MessageIds} =
        {Finding("AGUI103", i, m, openMessages'[m].start) : m \in DOMAIN openMessages'}
  BY <1>4
<1>6. UnterminatedMessages(i)' =
        {Finding("AGUI103", i, m, openMessages'[m].start) : m \in DOMAIN openMessages'}
  BY DEF UnterminatedMessages, Finding
<1> QED BY <1>2, <1>3, <1>5, <1>6

-----------------------------------------------------------------------------
\* The stream's own invariant, and what the dictionaries and the log agree on.
HistoryInv ==
  /\ TextInv
  /\ IsLog(LoggedText)
  /\ TextMirrors
  /\ TextFindingsExact

LEMMA HistoryStarts == HistoryInit => HistoryInv
<1> SUFFICES ASSUME HistoryInit PROVE HistoryInv
  OBVIOUS
<1>1. log = <<>> /\ Len(log) = 0 /\ TextInit
  BY DEF HistoryInit
<1>2. TextInv
  BY <1>1, TextInitInv
<1>3. IsLog(LoggedText)
  BY <1>1 DEF IsLog
<1>4. ASSUME NEW m \in MessageIds PROVE MessageMirrored(m, 0)
  <2>1. Fresh(Message, m, 0)
    BY FormsStart
  <2>2. DOMAIN EmptyDict = {}
    BY EmptyDictType
  <2> QED BY <1>1, <2>1, <2>2, MessageIdsAssumption DEF TextInit, MessageMirrored, Fresh
<1> QED BY <1>1, <1>2, <1>3, <1>4 DEF HistoryInv, TextMirrors, TextMirrored, TextFindingsExact

LEMMA HistoryStands ==
  ASSUME HistoryInv, UNCHANGED historyVars
  PROVE  HistoryInv'
<1>1. UNCHANGED <<log, textVars>> /\ UNCHANGED <<messageVars, messageOwner, textFound>>
  BY DEF historyVars, textVars
<1>2. TextInv'
  BY <1>1, TextNextInv DEF HistoryInv
<1>3. IsLog(LoggedText)'
  BY <1>1 DEF HistoryInv, IsLog
<1>4. ASSUME NEW m, NEW n
      PROVE  /\ StartedAt(Message, m, n)' = StartedAt(Message, m, n)
             /\ StreamedAt(Message, m, n)' = StreamedAt(Message, m, n)
             /\ ClosedAt(Message, m, n)' = ClosedAt(Message, m, n)
  BY <1>1, FormsStand
<1>5. ASSUME NEW m, NEW n PROVE MessageMirrored(m, n)' <=> MessageMirrored(m, n)
  BY <1>1, <1>4 DEF MessageMirrored, messageVars
<1>6. TextMirrors'
  BY <1>1, <1>5 DEF HistoryInv, TextMirrors, TextMirrored
<1>7. ASSUME NEW n PROVE TextDeserved(n)' = TextDeserved(n)
  BY <1>1 DEF TextDeserved, OfMessage, LeftOpen, About, Disowned, IndicesOf, StartedAt,
              StreamedAt, ClosedAt, Closers, EndsForm, EndsStreamOf, Started, IntroducedAt,
              Introducers, NamedAt, Judges, TypeAt, RunPositions, First
<1>8. TextFindingsExact'
  BY <1>1, <1>7 DEF HistoryInv, TextFindingsExact
<1> QED BY <1>2, <1>3, <1>6, <1>8 DEF HistoryInv

\* The mirror and the findings after an entry that begins no run.
LEMMA MarkTold ==
  ASSUME TextInv, TextInv', NEW n, NEW i \in Indices, NEW e \in LoggedText, Grows(n, i, e),
         TextMirrored(n), NEW kind, kind \notin MessageTypes \cup {"RUN_STARTED"},
         e = Mark(kind),
         \A m \in MessageIds : MessageMoves(m, i, e),
         textFound' = IF kind \in {"RUN_FINISHED", "END_OF_STREAM"}
                      THEN UnterminatedMessages(i) ELSE {},
         UNCHANGED openMessages
  PROVE  TextMirrored(n + 1)' /\ textFound' = TextDeserved(n + 1)'
<1>1. e.type = kind
  BY DEF Mark
<1>2. TextMirrored(n + 1)'
  BY <1>1, MessageMirrorGrows DEF TextMirrored
<1>3. DOMAIN openMessages' \subseteq MessageIds
  BY DEF TextInv, TextTypeOK, IsDict
<1>4. UnterminatedMessages(i)' = UnterminatedMessages(i)
  BY DEF UnterminatedMessages, Finding
<1>5. TextDeserved(n + 1)' =
        IF kind \in {"RUN_FINISHED", "END_OF_STREAM"} THEN UnterminatedMessages(i)' ELSE {}
  BY <1>2, <1>3, MarkDeserves
<1> QED BY <1>2, <1>4, <1>5

\* A step that closes the chunk stream, logged as something else than a text event.
LEMMA ClosingMarkMoves ==
  ASSUME TextInv, NEW m \in MessageIds, NEW i \in Indices, NEW e, NEW kind, e = Mark(kind),
         kind \notin MessageTypes \cup {"UNJUDGED", "END_AFTER_RUN"},
         CloseTextChunk(i), UNCHANGED <<openMessages, messageOwner>>
  PROVE  MessageMoves(m, i, e)
<1>1. /\ EndsStream(e, m, DOMAIN openMessages) /\ ~ NamesFirst(e, m)
      /\ e.type # "TEXT_MESSAGE_END"
  BY DEF Mark, EndsStream, NamesFirst, MessageTypes
<1> QED BY <1>1, ClosingMoves DEF CloseTextChunk

LEMMA StandingMarkMoves ==
  ASSUME NEW m \in MessageIds, NEW i, NEW e, NEW kind, e = Mark(kind),
         kind \in {"UNJUDGED", "END_AFTER_RUN"},
         UNCHANGED <<messageVars, messageOwner>>
  PROVE  MessageMoves(m, i, e)
<1>1. /\ ~ EndsStream(e, m, DOMAIN openMessages) /\ ~ NamesFirst(e, m)
      /\ e.type # "TEXT_MESSAGE_END"
  BY DEF Mark, EndsStream, NamesFirst
<1> QED BY <1>1, StandingMoves

\* A new run has no message.
LEMMA NewRunTold ==
  ASSUME TextInv', NEW n, NEW i, NEW e, Grows(n, i, e), e = Mark("RUN_STARTED"), TextNewRun
  PROVE  TextMirrored(n + 1)' /\ textFound' = TextDeserved(n + 1)'
<1>1. e.type = "RUN_STARTED"
  BY DEF Mark
<1>2. ASSUME NEW m \in MessageIds PROVE MessageMirrored(m, n + 1)'
  <2>1. Fresh(Message, m, n + 1)'
    BY <1>1, MessageNames, FormsRenewed
  <2>2. /\ DOMAIN openMessages' = {} /\ DOMAIN closedMessages' = {}
        /\ DOMAIN messageOwner' = {} /\ textChunk' # m
    BY EmptyDictType, MessageIdsAssumption DEF TextNewRun
  <2> QED BY <2>1, <2>2 DEF MessageMirrored, Fresh
<1>3. TextMirrored(n + 1)'
  BY <1>2 DEF TextMirrored
<1>4. "RUN_STARTED" \notin MessageTypes /\ DOMAIN openMessages' \subseteq MessageIds
  BY DEF MessageTypes, TextInv, TextTypeOK, IsDict
<1>5. TextDeserved(n + 1)' = {}
  BY <1>3, <1>4, MarkDeserves
<1> QED BY <1>3, <1>5 DEF TextNewRun, Reports

\* Each input keeps the mirror and is reported as it deserves.
LEMMA HistoryTold ==
  ASSUME TextInv, TextInv', NEW n, NEW i \in Indices, NEW e \in LoggedText, Grows(n, i, e),
         TextMirrored(n),
         \/ e \in TextInputs /\ TextEvent(e) /\ i = eventCount
         \/ \E ms \in Learnable :
              TextElsewhere /\ LearnMessageIds(ms) /\ i = eventCount /\ e = Mark("OTHER")
         \/ TextUnjudged /\ i = eventCount /\ e = Mark("UNJUDGED")
         \/ TextNewRun /\ i = eventCount /\ e = Mark("RUN_STARTED")
         \/ \E type \in TerminalTypes : TextEnds(type) /\ i = eventCount /\ e = Mark(type)
         \/ TextFinalize /\ i = AtEndOfStream /\ e = EndOfStreamMark
  PROVE  TextMirrored(n + 1)' /\ textFound' = TextDeserved(n + 1)'
<1>1. CASE e \in TextInputs /\ TextEvent(e) /\ i = eventCount
  <2>1. \A m \in MessageIds : MessageMoves(m, i, e)
    BY <1>1, StartMoves, ContentMoves, EndMoves, ChunkMoves DEF TextEvent
  <2>2. e.type # "RUN_STARTED"
    BY <1>1 DEF TextEvent, TextMessageStart, TextMessageContent, TextMessageEnd,
                TextMessageChunk
  <2>3. TextMirrored(n + 1)'
    BY <2>1, <2>2, MessageMirrorGrows DEF TextMirrored
  <2> QED BY <1>1, <2>3, TextEventTold
<1>2. CASE \E ms \in Learnable :
             TextElsewhere /\ LearnMessageIds(ms) /\ i = eventCount /\ e = Mark("OTHER")
  <2>1. "OTHER" \notin MessageTypes \cup {"UNJUDGED", "END_AFTER_RUN", "RUN_STARTED"}
    BY DEF MessageTypes
  <2>2. /\ CloseTextChunk(i) /\ UNCHANGED <<openMessages, messageOwner>> /\ textFound' = {}
        /\ e = Mark("OTHER")
    BY <1>2 DEF TextElsewhere, Reports
  <2>3. \A m \in MessageIds : MessageMoves(m, i, e)
    BY <2>1, <2>2, ClosingMarkMoves
  <2> QED BY <2>1, <2>2, <2>3, MarkTold
<1>3. CASE TextUnjudged /\ e = Mark("UNJUDGED")
  <2>1. "UNJUDGED" \notin MessageTypes \cup {"RUN_STARTED"}
    BY DEF MessageTypes
  <2>2. UNCHANGED <<messageVars, messageOwner>> /\ textFound' = {} /\ UNCHANGED openMessages
    BY <1>3 DEF TextUnjudged, Reports, RememberNothing, messageVars
  <2>3. \A m \in MessageIds : MessageMoves(m, i, e)
    BY <1>3, <2>2, StandingMarkMoves
  <2> QED BY <1>3, <2>1, <2>2, <2>3, MarkTold
<1>4. CASE TextNewRun /\ e = Mark("RUN_STARTED")
  BY <1>4, NewRunTold
<1>5. ASSUME NEW type \in TerminalTypes, TextEnds(type), i = eventCount, e = Mark(type)
      PROVE  TextMirrored(n + 1)' /\ textFound' = TextDeserved(n + 1)'
  <2>1. type \notin MessageTypes \cup {"UNJUDGED", "END_AFTER_RUN", "RUN_STARTED", "END_OF_STREAM"}
    BY DEF MessageTypes, TerminalTypes
  <2>2. /\ CloseTextChunk(i) /\ UNCHANGED <<openMessages, messageOwner>>
        /\ textFound' = IF type = "RUN_FINISHED" THEN UnterminatedMessages(i) ELSE {}
    BY <1>5 DEF TextEnds, Reports, RememberNothing
  <2>3. \A m \in MessageIds : MessageMoves(m, i, e)
    BY <1>5, <2>1, <2>2, ClosingMarkMoves
  <2> QED BY <1>5, <2>1, <2>2, <2>3, MarkTold
<1>6. CASE TextFinalize /\ i = AtEndOfStream /\ e = EndOfStreamMark
  <2>1. UNCHANGED <<openMessages, messageOwner>>
    BY <1>6 DEF TextFinalize, RememberNothing
  <2>2. CASE terminal = None
    <3>1. "END_OF_STREAM" \notin MessageTypes \cup {"UNJUDGED", "END_AFTER_RUN", "RUN_STARTED"}
      BY DEF MessageTypes
    <3>2. /\ CloseTextChunk(i) /\ textFound' = UnterminatedMessages(i)
          /\ e = Mark("END_OF_STREAM")
      BY <1>6, <2>2 DEF TextFinalize, Reports, EndOfStreamMark
    <3>3. \A m \in MessageIds : MessageMoves(m, i, e)
      BY <2>1, <3>1, <3>2, ClosingMarkMoves
    <3> QED BY <2>1, <3>1, <3>2, <3>3, MarkTold
  <2>3. CASE terminal # None
    <3>1. "END_AFTER_RUN" \notin MessageTypes \cup {"RUN_STARTED"}
      BY DEF MessageTypes
    <3>2. UNCHANGED messageVars /\ textFound' = {} /\ e = Mark("END_AFTER_RUN")
      BY <1>6, <2>1, <2>3 DEF TextFinalize, Reports, EndOfStreamMark, messageVars
    <3>3. \A m \in MessageIds : MessageMoves(m, i, e)
      BY <2>1, <3>2, StandingMarkMoves
    <3> QED BY <2>1, <3>1, <3>2, <3>3, MarkTold
  <2> QED BY <2>2, <2>3
<1> QED BY <1>1, <1>2, <1>3, <1>4, <1>5, <1>6

LEMMA HistoryGrows ==
  ASSUME HistoryInv, HistoryNext
  PROVE  HistoryInv'
<1>1. TextInv /\ ScopeTypeOK /\ IsLog(LoggedText) /\ TextMirrored(Len(log))
  BY DEF HistoryInv, TextInv, TextTypeOK, TextMirrors
<1>2. [TextNext]_textVars
  BY DEF HistoryNext, TextNext
<1>3. TextInv'
  BY <1>1, <1>2, TextNextInv
<1>4. PICK i \in Indices, e \in LoggedText :
        /\ Logs(i, e)
        /\ \/ e \in TextInputs /\ TextEvent(e) /\ i = eventCount
           \/ \E ms \in Learnable :
                TextElsewhere /\ LearnMessageIds(ms) /\ i = eventCount /\ e = Mark("OTHER")
           \/ TextUnjudged /\ i = eventCount /\ e = Mark("UNJUDGED")
           \/ TextNewRun /\ i = eventCount /\ e = Mark("RUN_STARTED")
           \/ \E type \in TerminalTypes : TextEnds(type) /\ i = eventCount /\ e = Mark(type)
           \/ TextFinalize /\ i = AtEndOfStream /\ e = EndOfStreamMark
  <2>1. eventCount \in Indices /\ AtEndOfStream \in Indices
    BY <1>1 DEF ScopeTypeOK, Indices
  <2>2. /\ TextInputs \subseteq LoggedText /\ EndOfStreamMark \in LoggedText
        /\ \A kind \in TerminalTypes \cup {"OTHER", "UNJUDGED", "RUN_STARTED"} :
             Mark(kind) \in LoggedText
    BY DEF LoggedText, EndOfStreamMark
  <2> QED BY <2>1, <2>2 DEF HistoryNext
<1>5. PICK n : Grows(n, i, e)
  BY <1>1, <1>4, NextEntry
<1>6. IsLog(LoggedText)'
  BY <1>1, <1>4, LogGrows
<1>7. Len(log) = n /\ Len(log') = n + 1
  BY <1>5 DEF Grows
<1>8. TextMirrored(n + 1)' /\ textFound' = TextDeserved(n + 1)'
  BY <1>1, <1>3, <1>4, <1>5, <1>7, HistoryTold
<1> QED BY <1>3, <1>6, <1>7, <1>8 DEF HistoryInv, TextMirrors, TextFindingsExact

LEMMA HistoryInvariant == HistorySpec => []HistoryInv
<1>1. HistoryInv /\ [HistoryNext]_historyVars => HistoryInv'
  BY HistoryStands, HistoryGrows
<1> QED BY <1>1, HistoryStarts, PTL DEF HistorySpec

\* For any stream, any ids and any bound, the rules of text messages report every input
\* exactly as the stream up to it deserves.
THEOREM TextExact == HistorySpec => []TextFindingsExact
<1>1. HistoryInv => TextFindingsExact
  BY DEF HistoryInv
<1> QED BY <1>1, HistoryInvariant, PTL

\* For any stream, the messages the engine holds open and closed are those that the whole
\* stream says are open and closed.
THEOREM OpenMessagesTold == HistorySpec => []OpenMessagesExact
<1>1. HistoryInv => OpenMessagesExact
  <2> SUFFICES ASSUME HistoryInv, NEW m \in MessageIds
               PROVE  /\ m \in DOMAIN openMessages <=> Started(Message, m, Len(log))
                      /\ m \in DOMAIN closedMessages <=> ClosedAt(Message, m, Len(log)) # {}
    BY DEF OpenMessagesExact
  <2>1. MessageMirrored(m, Len(log))
    BY DEF HistoryInv, TextMirrors, TextMirrored
  <2> QED BY <2>1 DEF MessageMirrored, Started
<1> QED BY <1>1, HistoryInvariant, PTL

\* The log only watches: every stream is a behaviour of the text component, so that what is
\* proved of the one holds of the other.
THEOREM HistoryImplementsText == HistorySpec => TextSpec
<1>1. HistoryInit => TextInit
  BY DEF HistoryInit
<1>2. [HistoryNext]_historyVars => [TextNext]_textVars
  BY DEF HistoryNext, TextNext, historyVars
<1> QED BY <1>1, <1>2, PTL DEF HistorySpec, TextSpec

=============================================================================
