-------------------------- MODULE ToolCalls_proofs --------------------------
(***************************************************************************)
(* Theorems about ToolCalls, for any ids, fragments and JSON texts, any    *)
(* inputs and any bound.                                                   *)
(***************************************************************************)
EXTENDS ToolHistory, RunScopeTheorems

\* The inductive invariant.
ToolInv == ToolTypeOK /\ CallHasOneForm

\* The part of it about the calls: what a step that only reads the dictionaries
\* of other components has to preserve.
SharedTypeOK ==
  /\ knownToolCallIds \subseteq ToolCallIds
  /\ knownMessageIds \subseteq MessageIds
  /\ IsDict(messageOwner, MessageIds, Tags)

OpenCall == [start : Nat, args : Seq(Fragments), owner : Tags]

-----------------------------------------------------------------------------
\* A delta adds at most one fragment, at the end.
LEMMA ExtendAppends ==
  ASSUME NEW args \in Seq(Fragments), NEW delta \in Ids(Fragments)
  PROVE  /\ Extend(args, delta) \in Seq(Fragments)
         /\ SubSeq(Extend(args, delta), 1, Len(args)) = args
<1>1. CASE delta = None
  BY <1>1 DEF Extend
<1>2. CASE delta # None
  <2>1. delta \in Fragments
    BY <1>2 DEF Ids
  <2>2. SubSeq(Append(args, delta), 1, Len(args)) = args
    BY <2>1
  <2> QED BY <1>2, <2>1, <2>2 DEF Extend
<1> QED BY <1>1, <1>2

\* A finding built from the components of the type is in the type.
LEMMA ToolFindingType ==
  ASSUME NEW rule \in ToolRules, NEW at \in Indices,
         NEW id \in Ids(ToolCallIds \cup MessageIds), NEW related \in Indices \cup {None}
  PROVE  Finding(rule, at, id, related) \in ToolFindings
BY DEF Finding, ToolFindings

\* The index of every input is a legal one.
LEMMA PositionType ==
  ASSUME ToolInv
  PROVE  eventCount \in Nat /\ eventCount \in Indices /\ AtEndOfStream \in Indices
BY DEF ToolInv, ToolTypeOK, ScopeTypeOK, Indices

LEMMA AboutType ==
  ASSUME ToolInv, NEW rule \in ToolRules, NEW id \in Ids(ToolCallIds \cup MessageIds),
         NEW related \in Indices \cup {None}
  PROVE  About(rule, id, related) \subseteq ToolFindings
BY PositionType, ToolFindingType DEF About

LEMMA CallOwnerFindingsType ==
  ASSUME NEW at \in Indices, NEW id \in ToolCallIds, NEW tag, NEW owner
  PROVE  OwnerFindings(at, id, tag, owner) \subseteq ToolFindings
<1>1. Finding("AGUI606", at, id, None) \in ToolFindings
  BY ToolFindingType DEF ToolRules, Ids
<1> QED BY <1>1 DEF OwnerFindings

LEMMA ArgsFindingsType ==
  ASSUME NEW at \in Indices, NEW id \in ToolCallIds, NEW args, NEW start \in Nat
  PROVE  ArgsFindings(at, id, args, start) \subseteq ToolFindings
<1>1. Finding("AGUI204", at, id, start) \in ToolFindings
  BY ToolFindingType DEF ToolRules, Ids, Indices
<1> QED BY <1>1 DEF ArgsFindings

\* Closing the chunk stream adds its call, if any, to the closed ones, changes no
\* entry and reports legal diagnostics.
LEMMA ChunkEndKeepsClosed ==
  ASSUME ToolInv, NEW at \in Indices
  PROVE  LET closed == ClosedOnceToolChunkEnds(at)
         IN  /\ IsDict(closed, ToolCallIds, Indices)
             /\ DOMAIN closed = DOMAIN closedToolCalls \cup ({ChunkId} \ {None})
             /\ \A c \in DOMAIN closedToolCalls : closed[c] = closedToolCalls[c]
             /\ ToolChunkFindings(at) \subseteq ToolFindings
             /\ ChunkId \in Ids(ToolCallIds)
<1> USE DEF ToolInv, ToolTypeOK
<1>1. CASE toolChunk = None
  BY <1>1 DEF ClosedOnceToolChunkEnds, ChunkId, ToolChunkFindings, Ids
<1>2. CASE toolChunk # None
  <2>1. /\ ClosedOnceToolChunkEnds(at) = Put(closedToolCalls, toolChunk.id, at)
        /\ ChunkId = toolChunk.id
    BY <1>2 DEF ClosedOnceToolChunkEnds, ChunkId
  <2>2. /\ toolChunk.id \in ToolCallIds /\ toolChunk.start \in Nat
        /\ toolChunk.id # None
        /\ toolChunk.id \notin DOMAIN closedToolCalls
    BY <1>2, <2>1, ToolIdsAssumption DEF CallHasOneForm
  <2>3. IsDict(Put(closedToolCalls, toolChunk.id, at), ToolCallIds, Indices)
    BY <2>2, PutType
  <2>4. /\ DOMAIN ClosedOnceToolChunkEnds(at) = DOMAIN closedToolCalls \cup {toolChunk.id}
        /\ \A c \in DOMAIN closedToolCalls :
             ClosedOnceToolChunkEnds(at)[c] = closedToolCalls[c]
    BY <2>1, <2>2 DEF Put
  <2>5. ToolChunkFindings(at) \subseteq ToolFindings
    BY <1>2, <2>2, ArgsFindingsType DEF ToolChunkFindings
  <2> QED BY <2>1, <2>2, <2>3, <2>4, <2>5 DEF Ids
<1> QED BY <1>1, <1>2

\* What is remembered of a call has its type.
LEMMA CallType ==
  ASSUME ToolInv
  PROVE  /\ DOMAIN openToolCalls \subseteq ToolCallIds
         /\ DOMAIN ClosedOnceToolChunkEnds(eventCount) \subseteq ToolCallIds
         /\ \A c \in DOMAIN openToolCalls : openToolCalls[c] \in OpenCall
         /\ \A c \in DOMAIN ClosedOnceToolChunkEnds(eventCount) :
              ClosedOnceToolChunkEnds(eventCount)[c] \in Indices
         /\ None \notin ToolCallIds
BY PositionType, ChunkEndKeepsClosed, ToolIdsAssumption
   DEF ToolInv, ToolTypeOK, IsDict, OpenCall

-----------------------------------------------------------------------------
\* A step that closes the chunk stream and leaves the open calls alone preserves
\* the invariant.
LEMMA ChunkEndPreserves ==
  ASSUME ToolInv, ScopeTypeOK', SharedTypeOK', UNCHANGED openToolCalls,
         NEW at \in Indices, NEW findings \in SUBSET ToolFindings,
         CloseToolChunkAndReport(at, findings)
  PROVE  ToolInv'
<1>1. /\ IsDict(closedToolCalls', ToolCallIds, Indices)
      /\ DOMAIN closedToolCalls' = DOMAIN closedToolCalls \cup ({ChunkId} \ {None})
      /\ toolFound' \subseteq ToolFindings
      /\ toolChunk' = None
  BY ChunkEndKeepsClosed DEF CloseToolChunkAndReport
<1>2. ToolTypeOK'
  BY <1>1 DEF ToolInv, ToolTypeOK, SharedTypeOK
<1>3. ChunkId' = None
  BY <1>1 DEF ChunkId
<1>4. None \notin DOMAIN openToolCalls \cup DOMAIN closedToolCalls'
  BY <1>1, CallType DEF IsDict
<1>5. DOMAIN openToolCalls \cap DOMAIN closedToolCalls' = {}
  BY <1>1 DEF ToolInv, CallHasOneForm
<1> QED BY <1>2, <1>3, <1>4, <1>5 DEF ToolInv, CallHasOneForm

\* A step that changes an open call to another of its type, and may close the
\* chunk stream, preserves the invariant.
LEMMA ArgsPreserve ==
  ASSUME ToolInv, ScopeTypeOK', SharedTypeOK',
         NEW c \in DOMAIN openToolCalls, NEW delta \in Ids(Fragments),
         openToolCalls' = [openToolCalls EXCEPT ![c].args = Extend(@, delta)],
         toolFound' \subseteq ToolFindings,
         \/ UNCHANGED <<closedToolCalls, toolChunk>>
         \/ /\ toolChunk' = None
            /\ closedToolCalls' = ClosedOnceToolChunkEnds(eventCount)
  PROVE  ToolInv'
<1>1. /\ IsDict(openToolCalls', ToolCallIds, OpenCall)
      /\ DOMAIN openToolCalls' = DOMAIN openToolCalls
  <2>1. openToolCalls[c] \in OpenCall
    BY CallType
  <2>2. Extend(openToolCalls[c].args, delta) \in Seq(Fragments)
    BY <2>1, ExtendAppends DEF OpenCall
  <2>3. \A k \in DOMAIN openToolCalls : openToolCalls'[k] \in OpenCall
    BY <2>1, <2>2, CallType DEF OpenCall
  <2>4. openToolCalls' = [k \in DOMAIN openToolCalls' |-> openToolCalls'[k]]
    OBVIOUS
  <2>5. DOMAIN openToolCalls' = DOMAIN openToolCalls
    OBVIOUS
  <2> QED BY <2>3, <2>4, <2>5, CallType DEF IsDict
<1>2. CASE UNCHANGED <<closedToolCalls, toolChunk>>
  BY <1>1, <1>2 DEF ToolInv, ToolTypeOK, SharedTypeOK, CallHasOneForm, ChunkId, OpenCall
<1>3. CASE toolChunk' = None /\ closedToolCalls' = ClosedOnceToolChunkEnds(eventCount)
  <2>1. /\ IsDict(closedToolCalls', ToolCallIds, Indices)
        /\ DOMAIN closedToolCalls' = DOMAIN closedToolCalls \cup ({ChunkId} \ {None})
    BY <1>3, PositionType, ChunkEndKeepsClosed
  <2>2. ToolTypeOK'
    BY <1>1, <1>3, <2>1 DEF ToolInv, ToolTypeOK, SharedTypeOK, OpenCall
  <2>3. ChunkId' = None
    BY <1>3 DEF ChunkId
  <2>4. None \notin DOMAIN openToolCalls' \cup DOMAIN closedToolCalls'
    BY <1>1, <2>1, CallType DEF IsDict
  <2>5. DOMAIN openToolCalls' \cap DOMAIN closedToolCalls' = {}
    BY <1>1, <2>1 DEF ToolInv, CallHasOneForm
  <2> QED BY <2>2, <2>3, <2>4, <2>5 DEF ToolInv, CallHasOneForm
<1> QED BY <1>2, <1>3

LEMMA CallStartPreserves ==
  ASSUME ToolInv, NEW e \in ToolEvents, ToolCallStart(e)
  PROVE  ToolInv'
<1> DEFINE c == e.toolCallId
           closed == ClosedOnceToolChunkEnds(eventCount)
<1>1. /\ ScopeTypeOK' /\ SharedTypeOK'
      /\ c \in Ids(ToolCallIds) /\ e.parentMessageId \in Ids(MessageIds)
      /\ e.subagentRunId \in Tags
  BY ScopePreserved
     DEF ToolInv, ToolTypeOK, SharedTypeOK, sharedMessageVars, ToolCallStart, ToolEvents,
         Ids, Tags
<1>2. CASE UNCHANGED openToolCalls
  <2>1. CASE CloseToolChunkAndReport(eventCount, {})
    BY <1>1, <1>2, <2>1, PositionType, ChunkEndPreserves
  <2>2. CASE /\ c \in DOMAIN openToolCalls
             /\ CloseToolChunkAndReport(eventCount, About("AGUI205", c, openToolCalls[c].start))
    <3>1. About("AGUI205", c, openToolCalls[c].start) \subseteq ToolFindings
      BY <2>2, CallType, AboutType DEF ToolRules, Ids, OpenCall, Indices
    <3> QED BY <1>1, <1>2, <2>2, <3>1, PositionType, ChunkEndPreserves
  <2>3. CASE /\ c \in DOMAIN closed
             /\ CloseToolChunkAndReport(eventCount, About("AGUI205", c, closed[c]))
    <3>1. About("AGUI205", c, closed[c]) \subseteq ToolFindings
      BY <2>3, CallType, AboutType DEF ToolRules, Ids
    <3> QED BY <1>1, <1>2, <2>3, <3>1, PositionType, ChunkEndPreserves
  <2>4. CASE /\ c \in ToolCallIds \ DOMAIN openToolCalls
             /\ openToolCalls' = Put(openToolCalls, c,
                  [start |-> eventCount, args |-> <<>>, owner |-> CallOwner(e)])
    <3>1. c \in DOMAIN openToolCalls'
      BY <2>4 DEF Put
    <3> QED BY <1>2, <2>4, <3>1
  <2> QED BY <1>2, <2>1, <2>2, <2>3, <2>4 DEF ToolCallStart
<1>3. CASE /\ c \in ToolCallIds \ (DOMAIN openToolCalls \cup DOMAIN closed)
           /\ openToolCalls' = Put(openToolCalls, c,
                [start |-> eventCount, args |-> <<>>, owner |-> CallOwner(e)])
           /\ CloseToolChunkAndReport(eventCount,
                IF e.parentMessageId \in knownMessageIds \cup {None} THEN {}
                ELSE About("AGUI208", e.parentMessageId, None))
  <2>1. [start |-> eventCount, args |-> <<>>, owner |-> CallOwner(e)] \in OpenCall
    <3>1. CallOwner(e) \in Tags
      BY <1>1 DEF CallOwner, ToolInv, ToolTypeOK, IsDict
    <3> QED BY <3>1, PositionType DEF OpenCall
  <2>2. /\ IsDict(openToolCalls', ToolCallIds, OpenCall)
        /\ DOMAIN openToolCalls' = DOMAIN openToolCalls \cup {c}
    <3>1. IsDict(Put(openToolCalls, c,
            [start |-> eventCount, args |-> <<>>, owner |-> CallOwner(e)]), ToolCallIds, OpenCall)
      BY <1>3, <2>1, PutType DEF ToolInv, ToolTypeOK, OpenCall
    <3> QED BY <1>3, <3>1 DEF Put
  <2>3. /\ IsDict(closedToolCalls', ToolCallIds, Indices)
        /\ DOMAIN closedToolCalls' = DOMAIN closedToolCalls \cup ({ChunkId} \ {None})
        /\ closedToolCalls' = closed /\ toolChunk' = None
    BY <1>3, PositionType, ChunkEndKeepsClosed DEF CloseToolChunkAndReport
  <2>4. toolFound' \subseteq ToolFindings
    <3>1. About("AGUI208", e.parentMessageId, None) \subseteq ToolFindings
      BY <1>1, AboutType DEF ToolRules, Ids
    <3> QED BY <1>3, <3>1, PositionType, ChunkEndKeepsClosed DEF CloseToolChunkAndReport
  <2>5. ToolTypeOK'
    BY <1>1, <2>2, <2>3, <2>4 DEF ToolTypeOK, SharedTypeOK, OpenCall
  <2>6. ChunkId' = None
    BY <2>3 DEF ChunkId
  <2>7. None \notin DOMAIN openToolCalls' \cup DOMAIN closedToolCalls'
    BY <2>2, <2>3, CallType DEF IsDict
  <2>8. DOMAIN openToolCalls' \cap DOMAIN closedToolCalls' = {}
    BY <1>3, <2>2, <2>3 DEF ToolInv, CallHasOneForm
  <2> QED BY <2>5, <2>6, <2>7, <2>8 DEF ToolInv, CallHasOneForm
<1> QED BY <1>2, <1>3 DEF ToolCallStart

LEMMA CallArgsPreserves ==
  ASSUME ToolInv, NEW e \in ToolEvents, ToolCallArgs(e)
  PROVE  ToolInv'
<1> DEFINE c == e.toolCallId
<1>1. /\ ScopeTypeOK' /\ SharedTypeOK'
      /\ c \in Ids(ToolCallIds) /\ e.delta \in Ids(Fragments)
  BY ScopePreserved
     DEF ToolInv, ToolTypeOK, SharedTypeOK, sharedMessageVars, ToolCallArgs, ToolEvents, Ids
<1>2. CASE c = None
  <2>1. CloseToolChunkAndReport(eventCount, {}) /\ UNCHANGED openToolCalls
    BY <1>2, CallType DEF ToolCallArgs
  <2> QED BY <1>1, <2>1, PositionType, ChunkEndPreserves
<1>3. CASE c \in ToolCallIds \ DOMAIN openToolCalls
  <2>1. /\ CloseToolChunkAndReport(eventCount, About("AGUI201", c, None))
        /\ UNCHANGED openToolCalls
    BY <1>3, ToolIdsAssumption DEF ToolCallArgs
  <2>2. About("AGUI201", c, None) \subseteq ToolFindings
    BY <1>1, AboutType DEF ToolRules, Ids
  <2> QED BY <1>1, <2>1, <2>2, PositionType, ChunkEndPreserves
<1>4. CASE c \in DOMAIN openToolCalls
  <2>1. /\ openToolCalls' = [openToolCalls EXCEPT ![c].args = Extend(@, e.delta)]
        /\ CloseToolChunkAndReport(eventCount,
             OwnerFindings(eventCount, c, e.subagentRunId, openToolCalls[c].owner))
    BY <1>4, CallType DEF ToolCallArgs
  <2>2. toolFound' \subseteq ToolFindings
    BY <1>4, <2>1, CallType, PositionType, ChunkEndKeepsClosed, CallOwnerFindingsType
       DEF CloseToolChunkAndReport
  <2> QED BY <1>1, <1>4, <2>1, <2>2, ArgsPreserve DEF CloseToolChunkAndReport
<1> QED BY <1>1, <1>2, <1>3, <1>4 DEF Ids

LEMMA CallEndPreserves ==
  ASSUME ToolInv, NEW e \in ToolEvents, ToolCallEnd(e)
  PROVE  ToolInv'
<1> DEFINE c == e.toolCallId
           closed == ClosedOnceToolChunkEnds(eventCount)
           call == openToolCalls[c]
<1>1. /\ ScopeTypeOK' /\ SharedTypeOK'
      /\ c \in Ids(ToolCallIds)
  BY ScopePreserved
     DEF ToolInv, ToolTypeOK, SharedTypeOK, sharedMessageVars, ToolCallEnd, ToolEvents
<1>2. CASE c = None
  <2>1. CloseToolChunkAndReport(eventCount, {}) /\ UNCHANGED openToolCalls
    BY <1>2, CallType DEF ToolCallEnd
  <2> QED BY <1>1, <2>1, PositionType, ChunkEndPreserves
<1>3. CASE c \in ToolCallIds \ DOMAIN openToolCalls
  <2>1. /\ CloseToolChunkAndReport(eventCount, About("AGUI202", c, None))
        /\ UNCHANGED openToolCalls
    BY <1>3, ToolIdsAssumption DEF ToolCallEnd
  <2>2. About("AGUI202", c, None) \subseteq ToolFindings
    BY <1>1, AboutType DEF ToolRules, Ids
  <2> QED BY <1>1, <2>1, <2>2, PositionType, ChunkEndPreserves
<1>4. CASE c \in DOMAIN openToolCalls
  <2>1. /\ toolChunk' = None
        /\ openToolCalls' = Drop(openToolCalls, c)
        /\ closedToolCalls' = Put(closed, c, eventCount)
        /\ toolFound' = ToolChunkFindings(eventCount)
                        \cup OwnerFindings(eventCount, c, e.subagentRunId, call.owner)
                        \cup ArgsFindings(eventCount, c, call.args, call.start)
    BY <1>4, CallType DEF ToolCallEnd
  <2>2. c \in ToolCallIds /\ call.start \in Nat
    BY <1>4, CallType DEF OpenCall
  <2>3. toolFound' \subseteq ToolFindings
    BY <2>1, <2>2, PositionType, ChunkEndKeepsClosed, CallOwnerFindingsType, ArgsFindingsType
  <2>4. /\ IsDict(openToolCalls', ToolCallIds, OpenCall)
        /\ DOMAIN openToolCalls' = DOMAIN openToolCalls \ {c}
    <3>1. IsDict(Drop(openToolCalls, c), ToolCallIds, OpenCall)
      BY DropType DEF ToolInv, ToolTypeOK, OpenCall
    <3> QED BY <2>1, <3>1 DEF Drop
  <2>5. /\ IsDict(closedToolCalls', ToolCallIds, Indices)
        /\ DOMAIN closedToolCalls' = DOMAIN closedToolCalls \cup ({ChunkId} \ {None}) \cup {c}
    <3>1. /\ IsDict(closed, ToolCallIds, Indices)
          /\ DOMAIN closed = DOMAIN closedToolCalls \cup ({ChunkId} \ {None})
      BY PositionType, ChunkEndKeepsClosed
    <3>2. IsDict(Put(closed, c, eventCount), ToolCallIds, Indices)
      BY <2>2, <3>1, PositionType, PutType
    <3> QED BY <2>1, <3>1, <3>2 DEF Put
  <2>6. ToolTypeOK'
    BY <1>1, <2>1, <2>3, <2>4, <2>5 DEF ToolTypeOK, SharedTypeOK, OpenCall
  <2>7. ChunkId' = None
    BY <2>1 DEF ChunkId
  <2>8. None \notin DOMAIN openToolCalls' \cup DOMAIN closedToolCalls'
    BY <2>4, <2>5, CallType DEF IsDict
  <2>9. DOMAIN openToolCalls' \cap DOMAIN closedToolCalls' = {}
    BY <2>4, <2>5 DEF ToolInv, CallHasOneForm
  <2> QED BY <2>6, <2>7, <2>8, <2>9 DEF ToolInv, CallHasOneForm
<1> QED BY <1>1, <1>2, <1>3, <1>4 DEF Ids

LEMMA CallResultPreserves ==
  ASSUME ToolInv, NEW e \in ToolEvents, ToolCallResult(e)
  PROVE  ToolInv'
<1> DEFINE c == e.toolCallId
<1>1. /\ ScopeTypeOK'
      /\ c \in Ids(ToolCallIds) /\ e.messageId \in Ids(MessageIds)
  BY ScopePreserved DEF ToolInv, ToolTypeOK, ToolCallResult, ToolEvents
<1>2. SharedTypeOK' /\ UNCHANGED openToolCalls
  BY <1>1 DEF ToolInv, ToolTypeOK, SharedTypeOK, ToolCallResult, Ids
<1>3. PICK findings \in SUBSET ToolFindings : CloseToolChunkAndReport(eventCount, findings)
  <2>1. CASE CloseToolChunkAndReport(eventCount, {})
    BY <2>1
  <2>2. CASE /\ c \in DOMAIN openToolCalls
             /\ CloseToolChunkAndReport(eventCount, About("AGUI206", c, openToolCalls[c].start))
    <3>1. About("AGUI206", c, openToolCalls[c].start) \subseteq ToolFindings
      BY <2>2, CallType, AboutType DEF ToolRules, Ids, OpenCall, Indices
    <3> QED BY <2>2, <3>1
  <2>3. CASE CloseToolChunkAndReport(eventCount, About("AGUI207", c, None))
    <3>1. About("AGUI207", c, None) \subseteq ToolFindings
      BY <1>1, AboutType DEF ToolRules, Ids
    <3> QED BY <2>3, <3>1
  <2> QED BY <2>1, <2>2, <2>3 DEF ToolCallResult
<1> QED BY <1>1, <1>2, <1>3, PositionType, ChunkEndPreserves

LEMMA CallChunkPreserves ==
  ASSUME ToolInv, NEW e \in ToolEvents, ToolCallChunk(e)
  PROVE  ToolInv'
<1> DEFINE c == e.toolCallId
           closed == ClosedOnceToolChunkEnds(eventCount)
<1>1. /\ ScopeTypeOK' /\ SharedTypeOK'
      /\ c \in Ids(ToolCallIds) /\ e.delta \in Ids(Fragments)
  BY ScopePreserved
     DEF ToolInv, ToolTypeOK, SharedTypeOK, sharedMessageVars, ToolCallChunk, ToolEvents, Ids
<1>2. /\ IsDict(closed, ToolCallIds, Indices)
      /\ DOMAIN closed = DOMAIN closedToolCalls \cup ({ChunkId} \ {None})
      /\ ToolChunkFindings(eventCount) \subseteq ToolFindings
  BY PositionType, ChunkEndKeepsClosed
<1>3. About("AGUI504", None, None) \subseteq ToolFindings
  BY AboutType DEF ToolRules, Ids
<1>4. CASE /\ toolFound' = About("AGUI504", None, None)
           /\ UNCHANGED toolCallVars
  BY <1>1, <1>3, <1>4
     DEF toolCallVars, ToolInv, ToolTypeOK, SharedTypeOK, CallHasOneForm, ChunkId
<1>5. CASE /\ c \in DOMAIN openToolCalls
           /\ openToolCalls' = [openToolCalls EXCEPT ![c].args = Extend(@, e.delta)]
           /\ toolFound' = {}
           /\ UNCHANGED <<closedToolCalls, toolChunk>>
  BY <1>1, <1>5, ArgsPreserve
<1>6. CASE /\ toolChunk # None
           /\ toolChunk' = [toolChunk EXCEPT !.args = Extend(@, e.delta)]
           /\ toolFound' = {}
           /\ UNCHANGED <<openToolCalls, closedToolCalls>>
  <2>1. toolChunk \in [id : ToolCallIds, start : Nat, args : Seq(Fragments)]
    BY <1>6 DEF ToolInv, ToolTypeOK
  <2>2. Extend(toolChunk.args, e.delta) \in Seq(Fragments)
    BY <1>1, <2>1, ExtendAppends
  <2>3. /\ toolChunk' \in [id : ToolCallIds, start : Nat, args : Seq(Fragments)]
        /\ toolChunk'.id = toolChunk.id
    BY <1>6, <2>1, <2>2
  <2>4. ToolTypeOK'
    BY <1>1, <1>6, <2>3 DEF ToolInv, ToolTypeOK, SharedTypeOK
  <2>5. ChunkId' \in {None, ChunkId}
    BY <1>6, <2>3 DEF ChunkId
  <2>6. None \notin DOMAIN openToolCalls \cup DOMAIN closedToolCalls
    BY CallType DEF ToolInv, ToolTypeOK, IsDict
  <2> QED BY <1>6, <2>4, <2>5, <2>6 DEF ToolInv, CallHasOneForm
<1>7. CASE /\ c \in DOMAIN closed
           /\ CloseToolChunkAndReport(eventCount, About("AGUI205", c, closed[c]))
           /\ UNCHANGED openToolCalls
  <2>1. About("AGUI205", c, closed[c]) \subseteq ToolFindings
    BY <1>7, CallType, AboutType DEF ToolRules, Ids
  <2> QED BY <1>1, <1>7, <2>1, PositionType, ChunkEndPreserves
<1>8. CASE /\ c \in ToolCallIds \ (DOMAIN openToolCalls \cup DOMAIN closed)
           /\ toolChunk' = [id |-> c, start |-> eventCount, args |-> Extend(<<>>, e.delta)]
           /\ closedToolCalls' = closed
           /\ toolFound' = ToolChunkFindings(eventCount)
                           \cup IF e.named THEN {} ELSE About("AGUI504", None, None)
           /\ UNCHANGED openToolCalls
  <2>1. Extend(<<>>, e.delta) \in Seq(Fragments)
    <3>1. <<>> \in Seq(Fragments)
      OBVIOUS
    <3> QED BY <1>1, <3>1, ExtendAppends
  <2>2. /\ toolChunk' \in [id : ToolCallIds, start : Nat, args : Seq(Fragments)]
        /\ toolChunk'.id = c
    BY <1>8, <2>1, PositionType
  <2>3. ToolTypeOK'
    BY <1>1, <1>2, <1>3, <1>8, <2>2 DEF ToolInv, ToolTypeOK, SharedTypeOK
  <2>4. ChunkId' \in {None, c}
    BY <2>2 DEF ChunkId
  <2>5. None \notin DOMAIN openToolCalls \cup DOMAIN closed
    BY CallType
  <2>6. DOMAIN openToolCalls \cap DOMAIN closed = {}
    BY <1>2 DEF ToolInv, CallHasOneForm
  <2> QED BY <1>8, <2>3, <2>4, <2>5, <2>6 DEF ToolInv, CallHasOneForm
<1> QED BY <1>4, <1>5, <1>6, <1>7, <1>8 DEF ToolCallChunk

\* The diagnostics of the end of a run are legal ones.
LEMMA UnterminatedCallsType ==
  ASSUME ToolInv, NEW at \in Indices
  PROVE  UnterminatedCalls(at) \subseteq ToolFindings
<1>1. ASSUME NEW c \in DOMAIN openToolCalls
      PROVE  Finding("AGUI203", at, c, openToolCalls[c].start) \in ToolFindings
  BY CallType, ToolFindingType DEF OpenCall, Indices, Ids, ToolRules
<1> QED BY <1>1 DEF UnterminatedCalls

\* The inputs of the other components and the end of the stream.
LEMMA ToolEnvironmentPreserves ==
  ASSUME ToolInv,
         \/ \E seen \in SeenMessages :
              ToolElsewhere /\ UNCHANGED knownToolCallIds /\ SeeMessage(seen[1], seen[2])
         \/ ToolElsewhere /\ UNCHANGED <<knownToolCallIds, sharedMessageVars>>
         \/ \E history \in Histories :
              MessagesSnapshot(history[1], history[2]) /\ UNCHANGED messageOwner
         \/ ToolUnjudged
         \/ ToolNewRun
         \/ \E type \in TerminalTypes : ToolEnds(type)
         \/ ToolFinalize
  PROVE  ToolInv'
<1>1. ScopeTypeOK'
  BY ScopePreserved
     DEF ToolInv, ToolTypeOK, ToolElsewhere, MessagesSnapshot, ToolUnjudged, ToolNewRun,
         ToolEnds, ToolFinalize
<1>2. SharedTypeOK
  BY DEF ToolInv, ToolTypeOK, SharedTypeOK
<1>3. ASSUME ToolElsewhere, SharedTypeOK' PROVE ToolInv'
  BY <1>1, <1>3, PositionType, ChunkEndPreserves DEF ToolElsewhere
<1>4. ASSUME NEW seen \in SeenMessages, ToolElsewhere, UNCHANGED knownToolCallIds,
             SeeMessage(seen[1], seen[2])
      PROVE  ToolInv'
  <2>1. seen[1] \in MessageIds /\ seen[2] \in Tags
    BY SeenMessagesAssumption
  <2>2. IsDict(Put(messageOwner, seen[1], seen[2]), MessageIds, Tags)
    BY <1>2, <2>1, PutType DEF SharedTypeOK
  <2>3. SharedTypeOK'
    BY <1>2, <1>4, <2>1, <2>2 DEF SharedTypeOK, SeeMessage
  <2> QED BY <1>3, <1>4, <2>3
<1>5. ASSUME ToolElsewhere, UNCHANGED <<knownToolCallIds, sharedMessageVars>> PROVE ToolInv'
  BY <1>2, <1>3, <1>5 DEF SharedTypeOK, sharedMessageVars
<1>6. ASSUME NEW history \in Histories, MessagesSnapshot(history[1], history[2]),
             UNCHANGED messageOwner
      PROVE  ToolInv'
  <2>1. history[1] \subseteq MessageIds /\ history[2] \subseteq ToolCallIds
    BY HistoriesAssumption
  <2>2. SharedTypeOK'
    BY <1>2, <1>6, <2>1 DEF SharedTypeOK, MessagesSnapshot
  <2> QED BY <1>3, <1>6, <2>2 DEF MessagesSnapshot
<1>7. CASE ToolUnjudged
  BY <1>1, <1>7
     DEF ToolUnjudged, toolCallVars, sharedMessageVars, ToolInv, ToolTypeOK, CallHasOneForm,
         ChunkId
<1>8. CASE ToolNewRun
  <2>1. /\ openToolCalls' = EmptyDict /\ closedToolCalls' = EmptyDict
        /\ messageOwner' = EmptyDict
        /\ knownToolCallIds' = {} /\ knownMessageIds' = {}
        /\ toolChunk' = None /\ toolFound' = {}
    BY <1>8 DEF ToolNewRun
  <2>2. /\ DOMAIN EmptyDict = {}
        /\ IsDict(EmptyDict, ToolCallIds, OpenCall)
        /\ IsDict(EmptyDict, ToolCallIds, Indices)
        /\ IsDict(EmptyDict, MessageIds, Tags)
    BY EmptyDictType
  <2>3. ToolTypeOK'
    BY <1>1, <2>1, <2>2 DEF ToolTypeOK, OpenCall
  <2> QED BY <2>1, <2>2, <2>3 DEF ToolInv, CallHasOneForm
<1>9. ASSUME NEW type \in TerminalTypes, ToolEnds(type) PROVE ToolInv'
  <2>1. SharedTypeOK'
    BY <1>2, <1>9 DEF SharedTypeOK, sharedMessageVars, ToolEnds
  <2>2. UnterminatedCalls(eventCount) \subseteq ToolFindings
    BY PositionType, UnterminatedCallsType
  <2> QED BY <1>1, <1>9, <2>1, <2>2, PositionType, ChunkEndPreserves DEF ToolEnds
<1>10. CASE ToolFinalize
  <2>1. SharedTypeOK' /\ UNCHANGED openToolCalls
    BY <1>2, <1>10 DEF SharedTypeOK, sharedMessageVars, ToolFinalize
  <2>2. CASE CloseToolChunkAndReport(AtEndOfStream, UnterminatedCalls(AtEndOfStream))
    <3>1. UnterminatedCalls(AtEndOfStream) \subseteq ToolFindings
      BY PositionType, UnterminatedCallsType
    <3> QED BY <1>1, <2>1, <2>2, <3>1, PositionType, ChunkEndPreserves
  <2>3. CASE toolFound' = {} /\ UNCHANGED <<closedToolCalls, toolChunk>>
    BY <1>1, <2>1, <2>3 DEF ToolInv, ToolTypeOK, SharedTypeOK, CallHasOneForm, ChunkId
  <2> QED BY <1>10, <2>2, <2>3 DEF ToolFinalize
<1> QED BY <1>4, <1>5, <1>6, <1>7, <1>8, <1>9, <1>10

-----------------------------------------------------------------------------
\* The inductive invariant holds in every reachable state.
LEMMA ToolInitInv == ToolInit => ToolInv
<1> SUFFICES ASSUME ToolInit PROVE ToolInv
  OBVIOUS
<1>1. /\ DOMAIN EmptyDict = {}
      /\ IsDict(EmptyDict, ToolCallIds, OpenCall)
      /\ IsDict(EmptyDict, ToolCallIds, Indices)
      /\ IsDict(EmptyDict, MessageIds, Tags)
  BY EmptyDictType
<1> QED BY <1>1 DEF ToolInit, ScopeInit, ToolInv, ToolTypeOK, ScopeTypeOK, CallHasOneForm,
                    OpenCall

LEMMA ToolNextInv == ToolInv /\ [ToolNext]_toolVars => ToolInv'
<1> SUFFICES ASSUME ToolInv, [ToolNext]_toolVars PROVE ToolInv'
  OBVIOUS
<1>1. CASE UNCHANGED toolVars
  BY <1>1 DEF toolVars, scopeVars, toolCallVars, sharedMessageVars, ToolInv, ToolTypeOK,
              ScopeTypeOK, CallHasOneForm, ChunkId
<1>2. ASSUME NEW e \in ToolInputs, ToolEvent(e) PROVE ToolInv'
  <2>1. e \in ToolEvents
    BY ToolInputsAssumption
  <2> QED BY <1>2, <2>1, CallStartPreserves, CallArgsPreserves, CallEndPreserves,
             CallResultPreserves, CallChunkPreserves DEF ToolEvent
<1> QED BY <1>1, <1>2, ToolEnvironmentPreserves DEF ToolNext

THEOREM ToolInvariant == ToolSpec => []ToolInv
BY ToolInitInv, ToolNextInv, PTL DEF ToolSpec

\* Type correctness of the tool call dictionaries and of what the rules report.
THEOREM ToolTypeCorrect == ToolSpec => []ToolTypeOK
<1>1. ToolInv => ToolTypeOK
  BY DEF ToolInv
<1> QED BY <1>1, ToolInvariant, PTL

\* For any ids and any stream, no tool call id is ever in two forms at once.
THEOREM CallsHaveOneForm == ToolSpec => []CallHasOneForm
<1>1. ToolInv => CallHasOneForm
  BY DEF ToolInv
<1> QED BY <1>1, ToolInvariant, PTL

-----------------------------------------------------------------------------
\* A step that only adds to the closed calls, and leaves the open ones alone.
LEMMA ChunkEndKeepsHistory ==
  ASSUME ToolInv, NEW at \in Indices,
         closedToolCalls' = ClosedOnceToolChunkEnds(at)
  PROVE  KeepsClosedCalls
BY ChunkEndKeepsClosed DEF KeepsClosedCalls

LEMMA UntouchedCallsKept ==
  ASSUME ToolInv, UNCHANGED openToolCalls
  PROVE  KeepsOpenCalls
<1>1. ASSUME NEW c \in DOMAIN openToolCalls
      PROVE  SubSeq(openToolCalls[c].args, 1, Len(openToolCalls[c].args)) = openToolCalls[c].args
  BY CallType DEF OpenCall
<1> QED BY <1>1 DEF KeepsOpenCalls

\* A call that gains a delta keeps its start and owner, and the arguments it had.
LEMMA ExtendedCallKept ==
  ASSUME ToolInv, NEW c \in DOMAIN openToolCalls, NEW delta \in Ids(Fragments),
         openToolCalls' = [openToolCalls EXCEPT ![c].args = Extend(@, delta)]
  PROVE  KeepsOpenCalls
<1>1. ASSUME NEW k \in DOMAIN openToolCalls
      PROVE  /\ k \in DOMAIN openToolCalls'
             /\ openToolCalls'[k].start = openToolCalls[k].start
             /\ openToolCalls'[k].owner = openToolCalls[k].owner
             /\ SubSeq(openToolCalls'[k].args, 1, Len(openToolCalls[k].args))
                  = openToolCalls[k].args
  <2>1. openToolCalls[k] \in OpenCall
    BY CallType
  <2>2. CASE k = c
    <3>1. /\ openToolCalls'[k].args = Extend(openToolCalls[k].args, delta)
          /\ openToolCalls'[k].start = openToolCalls[k].start
          /\ openToolCalls'[k].owner = openToolCalls[k].owner
      BY <2>1, <2>2 DEF OpenCall
    <3>2. SubSeq(openToolCalls'[k].args, 1, Len(openToolCalls[k].args)) = openToolCalls[k].args
      BY <2>1, <3>1, ExtendAppends DEF OpenCall
    <3> QED BY <3>1, <3>2
  <2>3. CASE k # c
    <3>1. openToolCalls'[k] = openToolCalls[k]
      BY <2>3
    <3>2. SubSeq(openToolCalls[k].args, 1, Len(openToolCalls[k].args)) = openToolCalls[k].args
      BY <2>1 DEF OpenCall
    <3> QED BY <3>1, <3>2
  <2> QED BY <2>2, <2>3
<1> QED BY <1>1 DEF KeepsOpenCalls

\* What a tool call event does to the calls it does not name.
LEMMA EventKeepsCalls ==
  ASSUME ToolInv, NEW e \in ToolEvents, ToolEvent(e)
  PROVE  KeepsClosedCalls /\ KeepsOpenCalls
<1> DEFINE c == e.toolCallId
           closed == ClosedOnceToolChunkEnds(eventCount)
<1>1. ASSUME NEW findings, CloseToolChunkAndReport(eventCount, findings)
      PROVE  KeepsClosedCalls
  BY <1>1, PositionType, ChunkEndKeepsHistory DEF CloseToolChunkAndReport
<1>2. CASE ToolCallStart(e)
  <2>1. KeepsClosedCalls
    BY <1>1, <1>2 DEF ToolCallStart
  <2>2. CASE UNCHANGED openToolCalls
    BY <2>1, <2>2, UntouchedCallsKept
  <2>3. CASE /\ c \in ToolCallIds \ (DOMAIN openToolCalls \cup DOMAIN closed)
             /\ openToolCalls' = Put(openToolCalls, c,
                  [start |-> eventCount, args |-> <<>>, owner |-> CallOwner(e)])
    <3>1. \A k \in DOMAIN openToolCalls :
            k \in DOMAIN openToolCalls' /\ openToolCalls'[k] = openToolCalls[k]
      BY <2>3 DEF Put
    <3>2. \A k \in DOMAIN openToolCalls :
            SubSeq(openToolCalls[k].args, 1, Len(openToolCalls[k].args)) = openToolCalls[k].args
      BY CallType DEF OpenCall
    <3> QED BY <2>1, <3>1, <3>2 DEF KeepsOpenCalls
  <2> QED BY <1>2, <2>2, <2>3 DEF ToolCallStart
<1>3. CASE ToolCallArgs(e)
  <2>1. KeepsClosedCalls
    BY <1>1, <1>3 DEF ToolCallArgs
  <2>2. CASE UNCHANGED openToolCalls
    BY <2>1, <2>2, UntouchedCallsKept
  <2>3. CASE /\ c \in DOMAIN openToolCalls
             /\ openToolCalls' = [openToolCalls EXCEPT ![c].args = Extend(@, e.delta)]
    <3>1. e.delta \in Ids(Fragments)
      BY <1>3 DEF ToolCallArgs, ToolEvents
    <3> QED BY <2>1, <2>3, <3>1, ExtendedCallKept
  <2> QED BY <1>3, <2>2, <2>3 DEF ToolCallArgs
<1>4. CASE ToolCallEnd(e)
  <2>1. CASE \E findings : CloseToolChunkAndReport(eventCount, findings) /\ UNCHANGED openToolCalls
    BY <1>1, <2>1, UntouchedCallsKept
  <2>2. CASE /\ c \in DOMAIN openToolCalls
             /\ openToolCalls' = Drop(openToolCalls, c)
             /\ closedToolCalls' = Put(closed, c, eventCount)
    <3>1. /\ DOMAIN closedToolCalls \subseteq DOMAIN closed
          /\ \A k \in DOMAIN closedToolCalls : closed[k] = closedToolCalls[k]
      BY PositionType, ChunkEndKeepsClosed
    <3>2. c \notin DOMAIN closedToolCalls
      BY <2>2 DEF ToolInv, CallHasOneForm
    <3>3. KeepsClosedCalls
      BY <2>2, <3>1, <3>2 DEF KeepsClosedCalls, Put
    <3>4. /\ c \in DOMAIN closedToolCalls'
          /\ \A k \in DOMAIN openToolCalls : k # c =>
               k \in DOMAIN openToolCalls' /\ openToolCalls'[k] = openToolCalls[k]
      BY <2>2 DEF Put, Drop
    <3>5. \A k \in DOMAIN openToolCalls :
            SubSeq(openToolCalls[k].args, 1, Len(openToolCalls[k].args)) = openToolCalls[k].args
      BY CallType DEF OpenCall
    <3> QED BY <3>3, <3>4, <3>5 DEF KeepsOpenCalls
  <2> QED BY <1>4, <2>1, <2>2 DEF ToolCallEnd
<1>5. CASE ToolCallResult(e)
  BY <1>1, <1>5, UntouchedCallsKept DEF ToolCallResult
<1>6. CASE ToolCallChunk(e)
  <2>1. KeepsClosedCalls
    <3>1. CASE UNCHANGED closedToolCalls
      BY <3>1 DEF KeepsClosedCalls
    <3>2. CASE closedToolCalls' = closed
      BY <3>2, PositionType, ChunkEndKeepsHistory
    <3> QED BY <1>6, <3>1, <3>2 DEF ToolCallChunk, toolCallVars, CloseToolChunkAndReport
  <2>2. CASE UNCHANGED openToolCalls
    BY <2>1, <2>2, UntouchedCallsKept
  <2>3. CASE /\ c \in DOMAIN openToolCalls
             /\ openToolCalls' = [openToolCalls EXCEPT ![c].args = Extend(@, e.delta)]
    <3>1. e.delta \in Ids(Fragments)
      BY <1>6 DEF ToolCallChunk, ToolEvents
    <3> QED BY <2>1, <2>3, <3>1, ExtendedCallKept
  <2> QED BY <1>6, <2>2, <2>3 DEF ToolCallChunk, toolCallVars
<1> QED BY <1>2, <1>3, <1>4, <1>5, <1>6 DEF ToolEvent

\* What every step of one run does to the calls.
LEMMA StepKeepsCalls ==
  ASSUME ToolInv, [ToolNext]_toolVars, SameRun
  PROVE  KeepsClosedCalls /\ KeepsOpenCalls
<1>1. ASSUME UNCHANGED openToolCalls,
             \/ UNCHANGED closedToolCalls
             \/ closedToolCalls' = ClosedOnceToolChunkEnds(eventCount)
             \/ closedToolCalls' = ClosedOnceToolChunkEnds(AtEndOfStream)
      PROVE  KeepsClosedCalls /\ KeepsOpenCalls
  <2>1. CASE UNCHANGED closedToolCalls
    BY <1>1, <2>1, UntouchedCallsKept DEF KeepsClosedCalls
  <2> QED BY <1>1, <2>1, UntouchedCallsKept, PositionType, ChunkEndKeepsHistory
<1>2. ASSUME NEW e \in ToolInputs, ToolEvent(e) PROVE KeepsClosedCalls /\ KeepsOpenCalls
  BY <1>2, ToolInputsAssumption, EventKeepsCalls
<1>3. CASE ToolElsewhere
  BY <1>1, <1>3 DEF ToolElsewhere, CloseToolChunkAndReport
<1>4. CASE ToolUnjudged \/ UNCHANGED toolVars
  BY <1>1, <1>4 DEF ToolUnjudged, toolVars, toolCallVars
<1>5. ~ ToolNewRun
  BY DEF ToolNewRun, NewRun, SameRun
<1>6. ASSUME NEW type \in TerminalTypes, ToolEnds(type)
      PROVE  KeepsClosedCalls /\ KeepsOpenCalls
  BY <1>1, <1>6 DEF ToolEnds, CloseToolChunkAndReport
<1>7. CASE ToolFinalize
  BY <1>1, <1>7 DEF ToolFinalize, CloseToolChunkAndReport
<1> QED BY <1>2, <1>3, <1>4, <1>5, <1>6, <1>7 DEF ToolNext, MessagesSnapshot

\* For any stream, a closed call stays closed at the index recorded then, and an
\* open one keeps its start, its owner and the arguments it received until it
\* ends, until the next run begins.
THEOREM CallHistoryStable == ToolSpec => CallHistoryIsStable
<1>1. ToolInv /\ [ToolNext]_toolVars =>
        [SameRun => KeepsClosedCalls /\ KeepsOpenCalls]_toolVars
  BY StepKeepsCalls
<1> QED BY <1>1, ToolInvariant, PTL DEF ToolSpec, CallHistoryIsStable

-----------------------------------------------------------------------------
(* The dictionaries remember of each id what the whole stream says of it. *)

CallMirrored(c, n) ==
  /\ c \in DOMAIN openToolCalls <=> StartedAt(Call, c, n) # {}
  /\ \A p \in StartedAt(Call, c, n) :
       openToolCalls[c] = [start |-> log[p].at, args |-> ArgumentsOf(c, n), owner |-> OwnerOf(p)]
  /\ c \in DOMAIN closedToolCalls <=> ClosedAt(Call, c, n) # {}
  /\ \A q \in ClosedAt(Call, c, n) : closedToolCalls[c] = log[q].at
  /\ ChunkId = c <=> StreamedAt(Call, c, n) # {}
  /\ \A p \in StreamedAt(Call, c, n) :
       toolChunk = [id |-> c, start |-> log[p].at, args |-> ArgumentsOf(c, n)]

OwnerMirrored(m, n) ==
  /\ m \in DOMAIN messageOwner <=> Sightings(m, n) # {}
  /\ Sightings(m, n) # {} =>
       messageOwner[m] = log[The(Latest(Sightings(m, n)))].event.owner

SharedMirrored(n) ==
  /\ \A m \in MessageIds : OwnerMirrored(m, n)
  /\ \A m \in MessageIds : m \in knownMessageIds <=> KnownMessage(m, n)
  /\ \A c \in ToolCallIds : c \in knownToolCallIds <=> KnownCall(c, n)

CallsMirrored(n) == \A c \in ToolCallIds : CallMirrored(c, n)

Seen(m, owner) == [type |-> "MESSAGE", messageId |-> m, owner |-> owner]

History(messages, calls) ==
  [type |-> "MESSAGES_SNAPSHOT", messages |-> messages, calls |-> calls]

LoggedTool ==
  ToolInputs
  \cup {Seen(m, owner) : m \in MessageIds, owner \in Tags}
  \cup {History(messages, calls) : messages \in SUBSET MessageIds, calls \in SUBSET ToolCallIds}
  \cup {Mark(kind) : kind \in TerminalTypes \cup
          {"OTHER", "UNJUDGED", "RUN_STARTED", "END_OF_STREAM", "END_AFTER_RUN"}}

\* What is logged, by its type.
LEMMA LoggedByType ==
  ASSUME NEW e \in LoggedTool
  PROVE  /\ e.type \in CallTypes => e \in ToolInputs /\ e.toolCallId \in ToolCallIds \cup {None}
         /\ e.type = "MESSAGE" => e.messageId \in MessageIds
<1>1. ASSUME NEW kind, e = Mark(kind) PROVE e.type = kind
  BY <1>1 DEF Mark
<1>2. ASSUME NEW m \in MessageIds, NEW owner, e = Seen(m, owner)
      PROVE  e.type = "MESSAGE" /\ e.messageId \in MessageIds
  BY <1>2 DEF Seen
<1>3. ASSUME NEW messages, NEW calls, e = History(messages, calls)
      PROVE  e.type = "MESSAGES_SNAPSHOT"
  BY <1>3 DEF History
<1>4. e \in ToolInputs => e.type \in CallTypes /\ e.toolCallId \in ToolCallIds \cup {None}
  BY ToolInputsAssumption DEF ToolEvents, CallTypes, Ids
<1> QED BY <1>1, <1>2, <1>3, <1>4 DEF LoggedTool, CallTypes, TerminalTypes

\* What the forms of a call look for in an event.
LEMMA CallNames ==
  ASSUME NEW e, NEW c
  PROVE  /\ \A type : Names(Call, e, type, c) <=> e.type = type /\ e.toolCallId = c
         /\ Call.start = "TOOL_CALL_START" /\ Call.end = "TOOL_CALL_END"
         /\ e[Call.field] = e.toolCallId /\ Call.chunk = "TOOL_CALL_CHUNK"
         /\ Call \in Kinds
BY DEF Names, Call, Kinds

-----------------------------------------------------------------------------
(* The arguments and the owners that the stream gives, as it grows. *)

\* Position q, of an earlier entry, adds what it added.
LEMMA ExtendsPast ==
  ASSUME NEW n, NEW i, NEW e, Grows(n, i, e), NEW c
  PROVE  \A q, p \in 1..n : Extends(q, p, c)' <=> Extends(q, p, c)
<1>1. \A p \in 1..n : log'[p] = log[p]
  BY DEF Grows
<1> QED BY <1>1 DEF Extends, NamedAt, Names

LEMMA AppendIs ==
  ASSUME NEW V, NEW s \in Seq(V), NEW x \in V, NEW t \in Seq(V), Len(t) = Len(s) + 1,
         \A k \in 1..Len(s) : t[k] = s[k], t[Len(s) + 1] = x
  PROVE  t = Append(s, x)
OBVIOUS

\* What an addition to a set of positions adds to their deltas.
LEMMA DeltasGrow ==
  ASSUME NEW n, NEW i, NEW e, Grows(n, i, e), NEW S, S \subseteq 1..n
  PROVE  /\ Deltas(S)' = Deltas(S)
         /\ Deltas(S \cup {n + 1})' = Append(Deltas(S), e.delta)
<1>1. /\ n \in Nat
      /\ \A p \in 1..n : log'[p] = log[p]
      /\ log'[n + 1].event = e
  BY DEF Grows
<1>2. /\ Cardinality(S) \in Nat
      /\ Cardinality(S \cup {n + 1}) = Cardinality(S) + 1
      /\ \A k \in 1..Cardinality(S) : Nth(S \cup {n + 1}, k) = Nth(S, k)
      /\ Nth(S \cup {n + 1}, Cardinality(S) + 1) = {n + 1}
  BY <1>1, NthOfMore
<1>3. ASSUME NEW k \in 1..Cardinality(S) PROVE log'[The(Nth(S, k))] = log[The(Nth(S, k))]
  BY <1>1, NthExists
<1>4. log'[The(Nth(S \cup {n + 1}, Cardinality(S) + 1))].event.delta = e.delta
  BY <1>1, <1>2, TheOnly
<1>5. PICK C, D, old, new :
        /\ C = Cardinality(S) /\ D = Cardinality(S \cup {n + 1})
        /\ old = [k \in 1..C |-> log[The(Nth(S, k))].event.delta]
        /\ new = [k \in 1..D |-> log'[The(Nth(S \cup {n + 1}, k))].event.delta]
  OBVIOUS
<1>6. /\ C \in Nat /\ D = C + 1
      /\ DOMAIN new = 1..C + 1 /\ DOMAIN old = 1..C
      /\ new = [k \in 1..C + 1 |-> new[k]] /\ old = [k \in 1..C |-> old[k]]
  BY <1>2, <1>5
<1>7. /\ \A k \in 1..C : new[k] = old[k]
      /\ new[C + 1] = e.delta
  <2>1. \A k \in 1..C + 1 : new[k] = log'[The(Nth(S \cup {n + 1}, k))].event.delta
    BY <1>5, <1>6
  <2>2. ASSUME NEW k \in 1..C PROVE new[k] = old[k]
    <3>1. new[k] = log'[The(Nth(S \cup {n + 1}, k))].event.delta
      BY <1>6, <2>1
    <3>2. Nth(S \cup {n + 1}, k) = Nth(S, k)
      BY <1>2, <1>5
    <3>3. old[k] = log[The(Nth(S, k))].event.delta
      BY <1>5
    <3>4. log'[The(Nth(S, k))] = log[The(Nth(S, k))]
      BY <1>3, <1>5
    <3> QED BY <3>1, <3>2, <3>3, <3>4
  <2>3. new[C + 1] = e.delta
    BY <1>4, <1>5, <1>6, <2>1
  <2> QED BY <2>2, <2>3
<1>8. new = Append(old, e.delta)
  <2> DEFINE Values == {old[k] : k \in 1..C} \cup {e.delta}
  <2>1. /\ \A k \in 1..C : old[k] \in Values
        /\ e.delta \in Values
    OBVIOUS
  <2> HIDE DEF Values
  <2>2. old \in Seq(Values) /\ Len(old) = C
    BY <1>6, <2>1
  <2>3. \A k \in 1..C + 1 : new[k] \in Values
    <3> SUFFICES ASSUME NEW k \in 1..C + 1 PROVE new[k] \in Values
      OBVIOUS
    <3>1. k \in 1..C \/ k = C + 1
      BY <1>6
    <3> QED BY <1>7, <2>1, <3>1
  <2>4. new \in Seq(Values) /\ Len(new) = C + 1
    BY <1>6, <2>3
  <2>5. \A k \in 1..Len(old) : new[k] = old[k]
    BY <1>7, <2>2
  <2>6. new[Len(old) + 1] = e.delta /\ e.delta \in Values /\ Len(new) = Len(old) + 1
    BY <1>7, <2>1, <2>2, <2>4
  <2> QED BY <2>2, <2>4, <2>5, <2>6, AppendIs
<1>9. Deltas(S) = old /\ Deltas(S \cup {n + 1})' = new
  BY <1>5 DEF Deltas, The, Nth
<1>10. Deltas(S)' = Deltas(S)
  <2>1. /\ Deltas(S) = [k \in 1..Cardinality(S) |-> log[The(Nth(S, k))].event.delta]
        /\ Deltas(S)' = [k \in 1..Cardinality(S) |-> log'[The(Nth(S, k))].event.delta]
    BY DEF Deltas, The, Nth
  <2> QED BY <1>3, <2>1
<1> QED BY <1>8, <1>9, <1>10

LEMMA NoDeltas == Deltas({}) = <<>>
BY FS_EmptySet DEF Deltas

\* The arguments of a call that was introduced before the step.
LEMMA ArgumentsGrow ==
  ASSUME NEW n, NEW i, NEW e, Grows(n, i, e), NEW c, NEW p,
         IntroducedAt(Call, c, n) = {p}, IntroducedAt(Call, c, n + 1)' = {p}
  PROVE  ArgumentsOf(c, n + 1)' = IF Extends(n + 1, p, c)'
                                  THEN Append(ArgumentsOf(c, n), e.delta) ELSE ArgumentsOf(c, n)
<1>1. n \in Nat /\ p \in 1..n
  <2>1. n \in Nat
    BY DEF Grows
  <2>2. IntroducedAt(Call, c, n) \subseteq 1..n
    BY <2>1, FormsPast
  <2> QED BY <2>1, <2>2
<1>2. /\ \A q \in 1..n : q \in Additions(c, n + 1)' <=> q \in Additions(c, n)
      /\ n + 1 \in Additions(c, n + 1)' <=> Extends(n + 1, p, c)'
      /\ Additions(c, n + 1)' \subseteq 1..n \cup {n + 1}
      /\ Additions(c, n) \subseteq 1..n
  <2>1. \A q \in 1..n : Extends(q, p, c)' <=> Extends(q, p, c)
    BY <1>1, ExtendsPast
  <2> QED BY <1>1, <2>1 DEF Additions
<1>3. PICK S, T : S = Additions(c, n) /\ T = Additions(c, n + 1)'
  OBVIOUS
<1>4. S \subseteq 1..n /\ T = IF Extends(n + 1, p, c)' THEN S \cup {n + 1} ELSE S
  BY <1>1, <1>2, <1>3
<1>5. ArgumentsOf(c, n) = Deltas(S) /\ ArgumentsOf(c, n + 1)' = Deltas(T)'
  BY <1>3 DEF ArgumentsOf
<1>6. Deltas(S)' = Deltas(S) /\ Deltas(S \cup {n + 1})' = Append(Deltas(S), e.delta)
  BY <1>4, DeltasGrow
<1>7. CASE Extends(n + 1, p, c)'
  <2>1. Deltas(T)' = Deltas(S \cup {n + 1})'
    BY <1>4, <1>7
  <2> QED BY <1>5, <1>6, <1>7, <2>1
<1>8. CASE ~ Extends(n + 1, p, c)'
  <2>1. Deltas(T)' = Deltas(S)'
    BY <1>4, <1>8
  <2> QED BY <1>5, <1>6, <1>8, <2>1
<1> QED BY <1>7, <1>8

\* The arguments of a call that the step introduces.
LEMMA ArgumentsBegin ==
  ASSUME NEW n, NEW i, NEW e, Grows(n, i, e), NEW c, IntroducedAt(Call, c, n + 1)' = {n + 1}
  PROVE  ArgumentsOf(c, n + 1)' = IF Extends(n + 1, n + 1, c)' THEN <<e.delta>> ELSE <<>>
<1>1. n \in Nat
  BY DEF Grows
<1>2. Additions(c, n + 1)' = IF Extends(n + 1, n + 1, c)' THEN {n + 1} ELSE {}
  BY <1>1 DEF Additions
<1>4. PICK T : T = Additions(c, n + 1)'
  OBVIOUS
<1>5. ArgumentsOf(c, n + 1)' = Deltas(T)'
  BY <1>4 DEF ArgumentsOf
<1>6. Deltas({})' = <<>> /\ Deltas({} \cup {n + 1})' = Append(<<>>, e.delta)
  <2>1. {} \subseteq 1..n
    OBVIOUS
  <2> QED BY <2>1, NoDeltas, DeltasGrow
<1>7. CASE Extends(n + 1, n + 1, c)'
  <2>1. Deltas(T)' = Deltas({} \cup {n + 1})'
    BY <1>2, <1>4, <1>7
  <2> QED BY <1>5, <1>6, <1>7, <2>1
<1>8. CASE ~ Extends(n + 1, n + 1, c)'
  <2>1. Deltas(T)' = Deltas({})'
    BY <1>2, <1>4, <1>8
  <2> QED BY <1>5, <1>6, <1>8, <2>1
<1> QED BY <1>7, <1>8

\* The arguments read off earlier positions stay what they were.
LEMMA ArgumentsPast ==
  ASSUME NEW n, NEW i, NEW e, Grows(n, i, e), NEW c
  PROVE  ArgumentsOf(c, n)' = ArgumentsOf(c, n)
<1>1. n \in Nat
  BY DEF Grows
<1>2. IntroducedAt(Call, c, n)' = IntroducedAt(Call, c, n) /\ IntroducedAt(Call, c, n) \subseteq 1..n
  BY <1>1, FormsPast
<1>3. \A q, p \in 1..n : Extends(q, p, c)' <=> Extends(q, p, c)
  BY ExtendsPast
<1>4. Additions(c, n)' = Additions(c, n) /\ Additions(c, n) \subseteq 1..n
  BY <1>2, <1>3 DEF Additions
<1>5. PICK S : S = Additions(c, n) /\ S = Additions(c, n)'
  BY <1>4
<1>6. ArgumentsOf(c, n) = Deltas(S) /\ ArgumentsOf(c, n)' = Deltas(S)'
  BY <1>5 DEF ArgumentsOf
<1> QED BY <1>4, <1>5, <1>6, DeltasGrow

\* The sightings of a message, as the log grows.
LEMMA SightingsGrow ==
  ASSUME NEW n, NEW i, NEW e, Grows(n, i, e), NEW m
  PROVE  /\ \A k \in 0..n : Sightings(m, k)' = Sightings(m, k) /\ Sightings(m, k) \subseteq 1..k
         /\ Sightings(m, n + 1)' =
              (IF e.type = "RUN_STARTED" THEN {} ELSE Sightings(m, n))
              \cup (IF e.type = "MESSAGE" /\ e.messageId = m THEN {n + 1} ELSE {})
<1>1. /\ n \in Nat /\ log'[n + 1].event = e
      /\ \A p \in 1..n : log'[p] = log[p]
  BY DEF Grows
<1>2. /\ \A k \in 0..n : RunPositions(k)' = RunPositions(k) /\ RunPositions(k) \subseteq 1..k
      /\ RunPositions(n + 1)' = (IF e.type = "RUN_STARTED" THEN {} ELSE RunPositions(n))
                                \cup {n + 1}
      /\ RunPositions(n) \subseteq 1..n
  BY RunGrows DEF RunPositions
<1>3. ASSUME NEW k \in 0..n
      PROVE  Sightings(m, k)' = Sightings(m, k) /\ Sightings(m, k) \subseteq 1..k
  <2>1. \A p \in RunPositions(k) : log'[p] = log[p]
    BY <1>1, <1>2
  <2> QED BY <1>2, <2>1 DEF Sightings, TypeAt
<1>4. ASSUME NEW p \in 1..n
      PROVE  p \in Sightings(m, n + 1)' <=> e.type # "RUN_STARTED" /\ p \in Sightings(m, n)
  BY <1>1, <1>2 DEF Sightings, TypeAt
<1>5. n + 1 \in Sightings(m, n + 1)' <=> e.type = "MESSAGE" /\ e.messageId = m
  BY <1>1, <1>2 DEF Sightings, TypeAt
<1>6. /\ Sightings(m, n + 1)' \subseteq 1..n \cup {n + 1}
      /\ Sightings(m, n) \subseteq 1..n /\ n + 1 \notin 1..n
  BY <1>1, <1>2 DEF Sightings
<1> QED BY <1>3, <1>4, <1>5, <1>6

\* The owner a START was given does not change.
LEMMA OwnersPast ==
  ASSUME NEW n, NEW i, NEW e, Grows(n, i, e)
  PROVE  \A p \in 1..n : OwnerOf(p)' = OwnerOf(p)
<1> SUFFICES ASSUME NEW p \in 1..n PROVE OwnerOf(p)' = OwnerOf(p)
  OBVIOUS
<1>1. n \in Nat /\ \A q \in 1..n : log'[q] = log[q]
  BY DEF Grows
<1>2. PICK m, S : m = log[p].event.parentMessageId /\ S = Sightings(m, p)
  OBVIOUS
<1>3. Sightings(m, p)' = S /\ S \subseteq 1..p
  BY <1>1, <1>2, SightingsGrow
<1>4. S # {} => log'[The(Latest(S))] = log[The(Latest(S))]
  <2>1. PICK x : x = The(Latest(S))
    OBVIOUS
  <2>2. S \subseteq 1..n
    BY <1>1, <1>3
  <2>3. ASSUME S # {} PROVE x \in S
    BY <1>1, <2>1, <2>2, <2>3, LatestExists
  <2> QED BY <1>1, <2>1, <2>2, <2>3
<1>5. log'[p].event = log[p].event
  BY <1>1
<1>6. OwnerOf(p) = IF log[p].event.subagentRunId # None \/ S = {}
                   THEN log[p].event.subagentRunId ELSE log[The(Latest(S))].event.owner
  BY <1>2 DEF OwnerOf
<1>7. OwnerOf(p)' = IF log[p].event.subagentRunId # None \/ S = {}
                    THEN log[p].event.subagentRunId ELSE log'[The(Latest(S))].event.owner
  <2>1. Sightings(log[p].event.parentMessageId, p)' = S
    BY <1>2, <1>3, <1>5 DEF Sightings
  <2> QED BY <1>5, <2>1 DEF OwnerOf, The, Latest
<1> QED BY <1>4, <1>6, <1>7

-----------------------------------------------------------------------------
(* What other components tell of messages and histories. *)

\* The step, logged as e, records what e says of messages and histories.
SharedMoves(e) ==
  /\ \A m \in MessageIds :
       IF e.type = "MESSAGE" /\ e.messageId = m
       THEN m \in DOMAIN messageOwner' /\ messageOwner'[m] = e.owner
       ELSE /\ m \in DOMAIN messageOwner' <=> m \in DOMAIN messageOwner
            /\ m \in DOMAIN messageOwner => messageOwner'[m] = messageOwner[m]
  /\ \A m \in MessageIds :
       m \in knownMessageIds' <=>
         \/ m \in knownMessageIds
         \/ e.type \in {"MESSAGE", "TOOL_CALL_RESULT"} /\ e.messageId = m
         \/ e.type = "MESSAGES_SNAPSHOT" /\ m \in e.messages
  /\ \A c \in ToolCallIds :
       c \in knownToolCallIds' <=>
         \/ c \in knownToolCallIds
         \/ e.type = "MESSAGES_SNAPSHOT" /\ c \in e.calls

LEMMA KnownGrows ==
  ASSUME NEW n, NEW i, NEW e, Grows(n, i, e)
  PROVE  /\ \A m : KnownMessage(m, n + 1)' <=>
              \/ e.type # "RUN_STARTED" /\ KnownMessage(m, n)
              \/ e.type \in {"MESSAGE", "TOOL_CALL_RESULT"} /\ e.messageId = m
              \/ e.type = "MESSAGES_SNAPSHOT" /\ m \in e.messages
         /\ \A c : KnownCall(c, n + 1)' <=>
              \/ e.type # "RUN_STARTED" /\ KnownCall(c, n)
              \/ e.type = "MESSAGES_SNAPSHOT" /\ c \in e.calls
<1>1. /\ n \in Nat /\ log'[n + 1].event = e
      /\ \A p \in 1..n : log'[p].event = log[p].event
  BY DEF Grows
<1>2. /\ RunPositions(n + 1)' = (IF e.type = "RUN_STARTED" THEN {} ELSE RunPositions(n))
                                \cup {n + 1}
      /\ RunPositions(n) \subseteq 1..n
  BY RunGrows
<1>3. \A p \in RunPositions(n) : log'[p].event = log[p].event
  BY <1>1, <1>2
<1> QED BY <1>1, <1>2, <1>3 DEF KnownMessage, KnownCall, TypeAt

LEMMA OwnerMirrorGrows ==
  ASSUME NEW n, NEW i, NEW e, Grows(n, i, e), e.type # "RUN_STARTED",
         NEW m \in MessageIds, OwnerMirrored(m, n), SharedMoves(e)
  PROVE  OwnerMirrored(m, n + 1)'
<1>1. /\ n \in Nat /\ log'[n + 1].event = e
      /\ \A p \in 1..n : log'[p] = log[p]
  BY DEF Grows
<1>2. PICK S, T : S = Sightings(m, n) /\ T = Sightings(m, n + 1)'
  OBVIOUS
<1>3. S \subseteq 1..n /\ T = S \cup (IF e.type = "MESSAGE" /\ e.messageId = m THEN {n + 1} ELSE {})
  BY <1>1, <1>2, SightingsGrow
<1>4. /\ OwnerMirrored(m, n) <=>
           /\ m \in DOMAIN messageOwner <=> S # {}
           /\ S # {} => messageOwner[m] = log[The(Latest(S))].event.owner
      /\ OwnerMirrored(m, n + 1)' <=>
           /\ m \in DOMAIN messageOwner' <=> T # {}
           /\ T # {} => messageOwner'[m] = log'[The(Latest(T))].event.owner
  BY <1>2 DEF OwnerMirrored, The, Latest
<1>5. CASE e.type = "MESSAGE" /\ e.messageId = m
  <2>1. T = S \cup {n + 1}
    BY <1>3, <1>5
  <2>2. Latest(T) = {n + 1}
    BY <1>1, <1>3, <2>1, LatestOfMore
  <2>3. The(Latest(T)) = n + 1
    BY <2>2, TheOnly
  <2> QED BY <1>1, <1>4, <1>5, <2>1, <2>3 DEF SharedMoves
<1>6. CASE ~ (e.type = "MESSAGE" /\ e.messageId = m)
  <2>1. PICK x : x = The(Latest(S))
    OBVIOUS
  <2>2. ASSUME S # {} PROVE x \in S
    BY <1>1, <1>3, <2>1, <2>2, LatestExists
  <2>3. S # {} => log'[x] = log[x]
    BY <1>1, <1>3, <2>2
  <2>4. T = S
    BY <1>3, <1>6
  <2>5. /\ m \in DOMAIN messageOwner' <=> m \in DOMAIN messageOwner
        /\ m \in DOMAIN messageOwner => messageOwner'[m] = messageOwner[m]
    BY <1>6 DEF SharedMoves
  <2> QED BY <1>4, <2>1, <2>3, <2>4, <2>5
<1> QED BY <1>5, <1>6

LEMMA SharedMirrorGrows ==
  ASSUME NEW n, NEW i, NEW e, Grows(n, i, e), e.type # "RUN_STARTED",
         SharedMirrored(n), SharedMoves(e)
  PROVE  SharedMirrored(n + 1)'
<1>1. \A m \in MessageIds : OwnerMirrored(m, n + 1)'
  BY OwnerMirrorGrows DEF SharedMirrored
<1>2. \A m \in MessageIds : m \in knownMessageIds' <=> KnownMessage(m, n + 1)'
  BY KnownGrows DEF SharedMirrored, SharedMoves
<1>3. \A c \in ToolCallIds : c \in knownToolCallIds' <=> KnownCall(c, n + 1)'
  <2>1. \A c : KnownCall(c, n + 1)' <=>
          \/ e.type # "RUN_STARTED" /\ KnownCall(c, n)
          \/ e.type = "MESSAGES_SNAPSHOT" /\ c \in e.calls
    BY KnownGrows
  <2>2. \A c \in ToolCallIds : c \in knownToolCallIds <=> KnownCall(c, n)
    BY DEF SharedMirrored
  <2> QED BY <2>1, <2>2 DEF SharedMoves
<1> QED BY <1>1, <1>2, <1>3 DEF SharedMirrored

\* The owner a START is given is the one that the dictionary of messages gives it.
LEMMA OwnerBegins ==
  ASSUME ToolInv, IsLog(LoggedTool), NEW n, NEW i, NEW e \in ToolInputs, Grows(n, i, e),
         e.type = "TOOL_CALL_START", SharedMirrored(n)
  PROVE  OwnerOf(n + 1)' = CallOwner(e)
<1>1. /\ n \in Nat /\ Len(log) = n /\ log'[n + 1].event = e
      /\ \A p \in 1..n : log'[p] = log[p]
  BY DEF Grows
<1>2. PICK m, S : m = e.parentMessageId /\ S = Sightings(m, n)
  OBVIOUS
<1>3. m \in MessageIds \cup {None}
  BY <1>2, ToolInputsAssumption DEF ToolEvents, Ids
<1>4. S \subseteq 1..n /\ Sightings(m, n + 1)' = S
  <2>1. /\ \A k \in 0..n : Sightings(m, k)' = Sightings(m, k) /\ Sightings(m, k) \subseteq 1..k
        /\ Sightings(m, n + 1)' =
             (IF e.type = "RUN_STARTED" THEN {} ELSE Sightings(m, n))
             \cup (IF e.type = "MESSAGE" /\ e.messageId = m THEN {n + 1} ELSE {})
    BY SightingsGrow
  <2> QED BY <1>1, <1>2, <2>1
<1>5. OwnerOf(n + 1)' = IF e.subagentRunId # None \/ S = {}
                        THEN e.subagentRunId ELSE log'[The(Latest(S))].event.owner
  <2>1. PICK k : k = n + 1
    OBVIOUS
  <2>2. log'[k].event = e /\ Sightings(m, k)' = S
    BY <1>1, <1>4, <2>1
  <2>3. Sightings(log[k].event.parentMessageId, k)' = S
    BY <1>2, <2>2 DEF Sightings
  <2>4. OwnerOf(k)' = IF e.subagentRunId # None \/ S = {}
                      THEN e.subagentRunId ELSE log'[The(Latest(S))].event.owner
    BY <2>2, <2>3 DEF OwnerOf, The, Latest
  <2> QED BY <2>1, <2>4
<1>6. CASE m = None
  <2>1. S = {}
    <3> SUFFICES ASSUME NEW p \in S PROVE FALSE
      OBVIOUS
    <3>1. log[p].event.type = "MESSAGE" /\ log[p].event.messageId = None
      BY <1>2, <1>6 DEF Sightings, TypeAt
    <3>2. log[p].event \in LoggedTool
      BY <1>1, <1>4, LogEntries
    <3>3. log[p].event.messageId \in MessageIds
      BY <3>1, <3>2, LoggedByType
    <3> QED BY <3>1, <3>3, ToolIdsAssumption
  <2>2. m \notin DOMAIN messageOwner
    BY <1>6, ToolIdsAssumption DEF ToolInv, ToolTypeOK, IsDict
  <2> QED BY <1>2, <1>5, <2>1, <2>2 DEF CallOwner
<1>7. CASE m \in MessageIds
  <2>1. /\ m \in DOMAIN messageOwner <=> S # {}
        /\ S # {} => messageOwner[m] = log[The(Latest(S))].event.owner
    BY <1>2, <1>7 DEF SharedMirrored, OwnerMirrored
  <2>2. PICK x : x = The(Latest(S))
    OBVIOUS
  <2>3. ASSUME S # {} PROVE x \in S
    BY <1>1, <1>4, <2>2, <2>3, LatestExists
  <2>4. S # {} => log'[x] = log[x]
    BY <1>1, <1>4, <2>3
  <2> QED BY <1>2, <1>5, <2>1, <2>2, <2>4 DEF CallOwner
<1> QED BY <1>3, <1>6, <1>7

-----------------------------------------------------------------------------
(* What an input does to a call, and why that keeps the mirror. *)

\* Event e introduces c; it ends the chunk stream of c, when open are the calls that a
\* START holds open.
NamesFirst(e, c) ==
  e.type \in {"TOOL_CALL_START", "TOOL_CALL_CHUNK"} /\ e.toolCallId = c

EndsCallStream(e, c, open) ==
  /\ e.type \notin {"UNJUDGED", "END_AFTER_RUN"}
  /\ ~ (e.type = "TOOL_CALL_CHUNK" /\ e.toolCallId \in {None, c} \cup open)

\* The arguments once e, if it is of one of the types and names one of the ids, has been
\* read.
Grown(args, e, types, ids) ==
  IF e.type \in types /\ e.toolCallId \in ids THEN Extend(args, e.delta) ELSE args

WhenStarted(args, e, c) == Grown(args, e, {"TOOL_CALL_ARGS", "TOOL_CALL_CHUNK"}, {c})

WhenStreamed(args, e, c) == Grown(args, e, {"TOOL_CALL_CHUNK"}, {None, c})

\* The step, logged at index i as e, moves c between its forms.
CallMoves(c, i, e) ==
  /\ c \notin DOMAIN openToolCalls \cup DOMAIN closedToolCalls \cup {ChunkId} =>
       IF NamesFirst(e, c)
       THEN IF e.type = "TOOL_CALL_START"
            THEN /\ c \in DOMAIN openToolCalls'
                 /\ openToolCalls'[c] = [start |-> i, args |-> <<>>, owner |-> CallOwner(e)]
            ELSE /\ ChunkId' = c
                 /\ toolChunk' = [id |-> c, start |-> i, args |-> Extend(<<>>, e.delta)]
       ELSE c \notin DOMAIN openToolCalls' \cup DOMAIN closedToolCalls' \cup {ChunkId'}
  /\ c \in DOMAIN openToolCalls =>
       IF e.type = "TOOL_CALL_END" /\ e.toolCallId = c
       THEN c \in DOMAIN closedToolCalls' /\ closedToolCalls'[c] = i
       ELSE /\ c \in DOMAIN openToolCalls'
            /\ openToolCalls'[c] = [start |-> openToolCalls[c].start,
                                    args |-> WhenStarted(openToolCalls[c].args, e, c),
                                    owner |-> openToolCalls[c].owner]
  /\ ChunkId = c =>
       IF EndsCallStream(e, c, DOMAIN openToolCalls)
       THEN c \in DOMAIN closedToolCalls' /\ closedToolCalls'[c] = i
       ELSE /\ ChunkId' = c
            /\ toolChunk' = [id |-> c, start |-> toolChunk.start,
                             args |-> WhenStreamed(toolChunk.args, e, c)]
  /\ c \in DOMAIN closedToolCalls =>
       c \in DOMAIN closedToolCalls' /\ closedToolCalls'[c] = closedToolCalls[c]

\* What the stream says of the arguments, by the form of the call.
ArgumentsMove(c, n, e) ==
  /\ StartedAt(Call, c, n) # {} =>
       ArgumentsOf(c, n + 1)' = WhenStarted(ArgumentsOf(c, n), e, c)
  /\ StreamedAt(Call, c, n) # {} =>
       ArgumentsOf(c, n + 1)' = WhenStreamed(ArgumentsOf(c, n), e, c)
  /\ Fresh(Call, c, n) /\ NamesFirst(e, c) =>
       ArgumentsOf(c, n + 1)' = Grown(<<>>, e, {"TOOL_CALL_CHUNK"}, {c})

LEMMA ArgumentsTold ==
  ASSUME NEW n, NEW i, NEW e, Grows(n, i, e), NEW c, e.type # "RUN_STARTED"
  PROVE  ArgumentsMove(c, n, e)
<1>1. /\ n \in Nat /\ log'[n + 1].event = e
      /\ \A p \in 1..n : log'[p] = log[p]
  BY DEF Grows
<1>2. /\ ~ Fresh(Call, c, n) => IntroducedAt(Call, c, n + 1)' = IntroducedAt(Call, c, n)
      /\ Fresh(Call, c, n) =>
           IntroducedAt(Call, c, n + 1)' = (IF Introduces(Call, e, c) THEN {n + 1} ELSE {})
  BY CallNames, FormsMove
<1>3. /\ StartedAt(Call, c, n) # {} => IntroducedAt(Call, c, n) = StartedAt(Call, c, n)
      /\ StreamedAt(Call, c, n) # {} => IntroducedAt(Call, c, n) = StreamedAt(Call, c, n)
      /\ IntroducedAt(Call, c, n) \subseteq 1..n
  BY <1>1, CallNames, OneFormAt
<1>4. \A p, q \in IntroducedAt(Call, c, n) : p = q
  BY <1>1, <1>3 DEF IntroducedAt, First
<1>5. ASSUME NEW p \in 1..n + 1
      PROVE  Extends(n + 1, p, c)' <=>
               /\ \/ e.type = "TOOL_CALL_CHUNK" /\ e.toolCallId = c
                  \/ IF NamedAt(Call, p, "TOOL_CALL_START", c)'
                     THEN e.type = "TOOL_CALL_ARGS" /\ e.toolCallId = c
                     ELSE e.type = "TOOL_CALL_CHUNK" /\ e.toolCallId = None
               /\ e.delta # None
  <2>1. \A id : \A type :
          NamedAt(Call, n + 1, type, id)' <=> e.type = type /\ e.toolCallId = id
    BY CallNames, FormsEntry
  <2> QED BY <1>1, <2>1 DEF Extends
<1>6. \A p \in 1..n :
        NamedAt(Call, p, "TOOL_CALL_START", c)' <=> NamedAt(Call, p, "TOOL_CALL_START", c)
  BY <1>1 DEF NamedAt, Names
<1>7. ASSUME NEW p \in StartedAt(Call, c, n)
      PROVE  ArgumentsOf(c, n + 1)' = WhenStarted(ArgumentsOf(c, n), e, c)
  <2>1. IntroducedAt(Call, c, n) = {p} /\ IntroducedAt(Call, c, n + 1)' = {p} /\ p \in 1..n
    BY <1>2, <1>3, <1>4 DEF Fresh
  <2>2. NamedAt(Call, p, "TOOL_CALL_START", c)
    BY CallNames DEF StartedAt
  <2>3. Extends(n + 1, p, c)' <=>
          /\ e.type \in {"TOOL_CALL_ARGS", "TOOL_CALL_CHUNK"} /\ e.toolCallId \in {c}
          /\ e.delta # None
    BY <1>1, <1>5, <1>6, <2>1, <2>2
  <2>4. ArgumentsOf(c, n + 1)' = IF Extends(n + 1, p, c)'
                                 THEN Append(ArgumentsOf(c, n), e.delta) ELSE ArgumentsOf(c, n)
    BY <2>1, ArgumentsGrow
  <2> QED BY <2>3, <2>4 DEF WhenStarted, Grown, Extend
<1>8. ASSUME NEW p \in StreamedAt(Call, c, n)
      PROVE  ArgumentsOf(c, n + 1)' = WhenStreamed(ArgumentsOf(c, n), e, c)
  <2>1. IntroducedAt(Call, c, n) = {p} /\ IntroducedAt(Call, c, n + 1)' = {p} /\ p \in 1..n
    BY <1>2, <1>3, <1>4 DEF Fresh
  <2>2. ~ NamedAt(Call, p, "TOOL_CALL_START", c)
    BY CallNames DEF StreamedAt, NamedAt
  <2>3. Extends(n + 1, p, c)' <=>
          /\ e.type \in {"TOOL_CALL_CHUNK"} /\ e.toolCallId \in {None, c}
          /\ e.delta # None
    BY <1>1, <1>5, <1>6, <2>1, <2>2
  <2>4. ArgumentsOf(c, n + 1)' = IF Extends(n + 1, p, c)'
                                 THEN Append(ArgumentsOf(c, n), e.delta) ELSE ArgumentsOf(c, n)
    BY <2>1, ArgumentsGrow
  <2> QED BY <2>3, <2>4 DEF WhenStreamed, Grown, Extend
<1>9. ASSUME Fresh(Call, c, n), NamesFirst(e, c)
      PROVE  ArgumentsOf(c, n + 1)' = Grown(<<>>, e, {"TOOL_CALL_CHUNK"}, {c})
  <2>1. Introduces(Call, e, c)
    BY <1>9, CallNames DEF NamesFirst, Introduces
  <2>2. IntroducedAt(Call, c, n + 1)' = {n + 1}
    BY <1>2, <1>9, <2>1
  <2>3. NamedAt(Call, n + 1, "TOOL_CALL_START", c)' <=> e.type = "TOOL_CALL_START"
    BY <1>9, CallNames, FormsEntry DEF NamesFirst
  <2>4. Extends(n + 1, n + 1, c)' <=> e.type = "TOOL_CALL_CHUNK" /\ e.delta # None
    BY <1>1, <1>5, <1>9, <2>3 DEF NamesFirst
  <2>5. ArgumentsOf(c, n + 1)' = IF Extends(n + 1, n + 1, c)' THEN <<e.delta>> ELSE <<>>
    BY <2>2, ArgumentsBegin
  <2>6. Append(<<>>, e.delta) = <<e.delta>>
    OBVIOUS
  <2> QED BY <1>9, <2>4, <2>5, <2>6 DEF Grown, Extend, NamesFirst
<1> QED BY <1>7, <1>8, <1>9 DEF ArgumentsMove

\* What the stream says ends the chunk stream of c is what the dictionaries say.
LEMMA EndsCallStreamTold ==
  ASSUME NEW n, CallsMirrored(n), NEW e \in LoggedTool, NEW c
  PROVE  EndsStreaming(Call, e, c, n) <=> EndsCallStream(e, c, DOMAIN openToolCalls)
<1>1. EndsStreaming(Call, e, c, n) <=>
        /\ e.type \notin {"UNJUDGED", "END_AFTER_RUN"}
        /\ ~ /\ e.type = "TOOL_CALL_CHUNK"
             /\ e.toolCallId \in {None, c} \/ Started(Call, e.toolCallId, n)
  BY CallNames DEF EndsStreaming
<1>2. CASE e.type = "TOOL_CALL_CHUNK"
  <2>1. e.toolCallId \in ToolCallIds \cup {None}
    BY <1>2, LoggedByType DEF CallTypes
  <2>2. e.toolCallId \in ToolCallIds =>
          (e.toolCallId \in DOMAIN openToolCalls <=> Started(Call, e.toolCallId, n))
    BY DEF CallsMirrored, CallMirrored, Started
  <2> QED BY <1>1, <2>1, <2>2 DEF EndsCallStream
<1>3. CASE e.type # "TOOL_CALL_CHUNK"
  BY <1>1, <1>3 DEF EndsCallStream
<1> QED BY <1>2, <1>3

\* The three forms exclude one another.
LEMMA OneFormOfCall ==
  ASSUME ToolInv, NEW c \in ToolCallIds
  PROVE  /\ c \in DOMAIN openToolCalls => c \notin DOMAIN closedToolCalls /\ ChunkId # c
         /\ c \in DOMAIN closedToolCalls => ChunkId # c
BY ToolIdsAssumption DEF ToolInv, CallHasOneForm

\* What the stream says of the forms of a call, by the dictionaries.
LEMMA FormsOfCallMove ==
  ASSUME ToolInv, NEW c \in ToolCallIds, NEW n, NEW i, NEW e \in LoggedTool,
         Grows(n, i, e), CallsMirrored(n), e.type # "RUN_STARTED"
  PROVE  /\ c \notin DOMAIN openToolCalls \cup DOMAIN closedToolCalls \cup {ChunkId} =>
              /\ Fresh(Call, c, n)
              /\ StartedAt(Call, c, n + 1)' =
                   (IF e.type = "TOOL_CALL_START" /\ e.toolCallId = c THEN {n + 1} ELSE {})
              /\ StreamedAt(Call, c, n + 1)' =
                   (IF e.type = "TOOL_CALL_CHUNK" /\ e.toolCallId = c THEN {n + 1} ELSE {})
              /\ ClosedAt(Call, c, n + 1)' = {}
         /\ c \in DOMAIN openToolCalls =>
              /\ StartedAt(Call, c, n + 1)' =
                   (IF e.type = "TOOL_CALL_END" /\ e.toolCallId = c
                    THEN {} ELSE StartedAt(Call, c, n))
              /\ StreamedAt(Call, c, n + 1)' = {}
              /\ ClosedAt(Call, c, n + 1)' =
                   (IF e.type = "TOOL_CALL_END" /\ e.toolCallId = c THEN {n + 1} ELSE {})
         /\ ChunkId = c =>
              /\ StartedAt(Call, c, n + 1)' = {}
              /\ StreamedAt(Call, c, n + 1)' =
                   (IF EndsCallStream(e, c, DOMAIN openToolCalls) THEN {} ELSE StreamedAt(Call, c, n))
              /\ ClosedAt(Call, c, n + 1)' =
                   (IF EndsCallStream(e, c, DOMAIN openToolCalls) THEN {n + 1} ELSE {})
         /\ c \in DOMAIN closedToolCalls =>
              /\ StartedAt(Call, c, n + 1)' = {} /\ StreamedAt(Call, c, n + 1)' = {}
              /\ ClosedAt(Call, c, n + 1)' = ClosedAt(Call, c, n)
<1>1. /\ c \in DOMAIN openToolCalls <=> StartedAt(Call, c, n) # {}
      /\ c \in DOMAIN closedToolCalls <=> ClosedAt(Call, c, n) # {}
      /\ ChunkId = c <=> StreamedAt(Call, c, n) # {}
  BY DEF CallsMirrored, CallMirrored
<1>2. EndsStreaming(Call, e, c, n) <=> EndsCallStream(e, c, DOMAIN openToolCalls)
  BY EndsCallStreamTold
<1>3. /\ Fresh(Call, c, n) =>
           /\ StartedAt(Call, c, n + 1)' =
                (IF Names(Call, e, Call.start, c) THEN {n + 1} ELSE {})
           /\ StreamedAt(Call, c, n + 1)' =
                (IF Names(Call, e, Call.chunk, c) THEN {n + 1} ELSE {})
           /\ ClosedAt(Call, c, n + 1)' = {}
      /\ StartedAt(Call, c, n) # {} =>
           /\ StartedAt(Call, c, n + 1)' =
                (IF Names(Call, e, Call.end, c) THEN {} ELSE StartedAt(Call, c, n))
           /\ StreamedAt(Call, c, n + 1)' = {}
           /\ ClosedAt(Call, c, n + 1)' =
                (IF Names(Call, e, Call.end, c) THEN {n + 1} ELSE {})
      /\ StreamedAt(Call, c, n) # {} =>
           /\ StartedAt(Call, c, n + 1)' = {}
           /\ StreamedAt(Call, c, n + 1)' =
                (IF EndsStreaming(Call, e, c, n) THEN {} ELSE StreamedAt(Call, c, n))
           /\ ClosedAt(Call, c, n + 1)' =
                (IF EndsStreaming(Call, e, c, n) THEN {n + 1} ELSE {})
      /\ ClosedAt(Call, c, n) # {} =>
           /\ StartedAt(Call, c, n + 1)' = {} /\ StreamedAt(Call, c, n + 1)' = {}
           /\ ClosedAt(Call, c, n + 1)' = ClosedAt(Call, c, n)
  BY CallNames, FormsMove
<1>4. /\ Names(Call, e, Call.start, c) <=> e.type = "TOOL_CALL_START" /\ e.toolCallId = c
      /\ Names(Call, e, Call.chunk, c) <=> e.type = "TOOL_CALL_CHUNK" /\ e.toolCallId = c
      /\ Names(Call, e, Call.end, c) <=> e.type = "TOOL_CALL_END" /\ e.toolCallId = c
  BY CallNames
<1> QED BY <1>1, <1>2, <1>3, <1>4 DEF Fresh

LEMMA CallMirrorGrows ==
  ASSUME ToolInv, ToolInv', IsLog(LoggedTool), NEW c \in ToolCallIds, NEW n, NEW i,
         NEW e \in LoggedTool, Grows(n, i, e), CallsMirrored(n), SharedMirrored(n),
         CallMoves(c, i, e), e.type # "RUN_STARTED"
  PROVE  CallMirrored(c, n + 1)'
<1>1. /\ n \in Nat
      /\ \A p \in 1..n : log'[p] = log[p]
      /\ log'[n + 1] = [at |-> i, event |-> e]
      /\ CallMirrored(c, n)
  BY DEF Grows, CallsMirrored
<1>2. /\ c \in DOMAIN openToolCalls => c \notin DOMAIN closedToolCalls /\ ChunkId # c
      /\ c \in DOMAIN closedToolCalls => ChunkId # c
  BY OneFormOfCall
<1>3. /\ c \in DOMAIN openToolCalls' => c \notin DOMAIN closedToolCalls' /\ ChunkId' # c
      /\ c \in DOMAIN closedToolCalls' => ChunkId' # c
  BY DEF ToolInv, CallHasOneForm
<1>4. /\ StartedAt(Call, c, n) \subseteq 1..n /\ ClosedAt(Call, c, n) \subseteq 1..n
      /\ StreamedAt(Call, c, n) \subseteq 1..n
  BY DEF StartedAt, StreamedAt, ClosedAt, Closers, IntroducedAt, Introducers, RunPositions, First
<1>5. \A p \in 1..n : OwnerOf(p)' = OwnerOf(p)
  BY OwnersPast
<1>6. PICK A, B : A = ArgumentsOf(c, n) /\ B = ArgumentsOf(c, n + 1)'
  OBVIOUS
<1>7. /\ StartedAt(Call, c, n) # {} => B = WhenStarted(A, e, c)
      /\ StreamedAt(Call, c, n) # {} => B = WhenStreamed(A, e, c)
      /\ Fresh(Call, c, n) /\ NamesFirst(e, c) => B = Grown(<<>>, e, {"TOOL_CALL_CHUNK"}, {c})
  <2>0. ArgumentsMove(c, n, e)
    BY ArgumentsTold
  <2>1. /\ StartedAt(Call, c, n) # {} =>
             ArgumentsOf(c, n + 1)' = WhenStarted(ArgumentsOf(c, n), e, c)
        /\ StreamedAt(Call, c, n) # {} =>
             ArgumentsOf(c, n + 1)' = WhenStreamed(ArgumentsOf(c, n), e, c)
        /\ Fresh(Call, c, n) /\ NamesFirst(e, c) =>
             ArgumentsOf(c, n + 1)' = Grown(<<>>, e, {"TOOL_CALL_CHUNK"}, {c})
    BY <2>0 DEF ArgumentsMove
  <2> QED BY <1>6, <2>1
<1>8. CallMirrored(c, n) <=>
        /\ c \in DOMAIN openToolCalls <=> StartedAt(Call, c, n) # {}
        /\ \A p \in StartedAt(Call, c, n) :
             openToolCalls[c] = [start |-> log[p].at, args |-> A, owner |-> OwnerOf(p)]
        /\ c \in DOMAIN closedToolCalls <=> ClosedAt(Call, c, n) # {}
        /\ \A q \in ClosedAt(Call, c, n) : closedToolCalls[c] = log[q].at
        /\ ChunkId = c <=> StreamedAt(Call, c, n) # {}
        /\ \A p \in StreamedAt(Call, c, n) :
             toolChunk = [id |-> c, start |-> log[p].at, args |-> A]
  BY <1>6 DEF CallMirrored
<1>9. CallMirrored(c, n + 1)' <=>
        /\ c \in DOMAIN openToolCalls' <=> StartedAt(Call, c, n + 1)' # {}
        /\ \A p \in StartedAt(Call, c, n + 1)' :
             openToolCalls'[c] = [start |-> log'[p].at, args |-> B, owner |-> OwnerOf(p)']
        /\ c \in DOMAIN closedToolCalls' <=> ClosedAt(Call, c, n + 1)' # {}
        /\ \A q \in ClosedAt(Call, c, n + 1)' : closedToolCalls'[c] = log'[q].at
        /\ ChunkId' = c <=> StreamedAt(Call, c, n + 1)' # {}
        /\ \A p \in StreamedAt(Call, c, n + 1)' :
             toolChunk' = [id |-> c, start |-> log'[p].at, args |-> B]
  BY <1>6 DEF CallMirrored
<1>10. CASE c \notin DOMAIN openToolCalls \cup DOMAIN closedToolCalls \cup {ChunkId}
  <2>1. /\ Fresh(Call, c, n)
        /\ StartedAt(Call, c, n + 1)' =
             (IF e.type = "TOOL_CALL_START" /\ e.toolCallId = c THEN {n + 1} ELSE {})
        /\ StreamedAt(Call, c, n + 1)' =
             (IF e.type = "TOOL_CALL_CHUNK" /\ e.toolCallId = c THEN {n + 1} ELSE {})
        /\ ClosedAt(Call, c, n + 1)' = {}
    BY <1>10, FormsOfCallMove
  <2>2. CASE ~ NamesFirst(e, c)
    BY <1>3, <1>9, <1>10, <2>1, <2>2 DEF CallMoves, NamesFirst
  <2>3. CASE NamesFirst(e, c) /\ e.type = "TOOL_CALL_START"
    <3>1. OwnerOf(n + 1)' = CallOwner(e)
      BY <2>3, LoggedByType, OwnerBegins DEF CallTypes
    <3>2. B = <<>>
      BY <1>7, <2>1, <2>3 DEF Grown
    <3>3. /\ c \in DOMAIN openToolCalls'
          /\ openToolCalls'[c] = [start |-> i, args |-> <<>>, owner |-> CallOwner(e)]
      BY <1>10, <2>3 DEF CallMoves
    <3> QED BY <1>1, <1>3, <1>9, <2>1, <2>3, <3>1, <3>2, <3>3 DEF NamesFirst
  <2>4. CASE NamesFirst(e, c) /\ e.type = "TOOL_CALL_CHUNK"
    <3>1. B = Extend(<<>>, e.delta)
      BY <1>7, <2>1, <2>4 DEF Grown, NamesFirst
    <3>2. ChunkId' = c /\ toolChunk' = [id |-> c, start |-> i, args |-> Extend(<<>>, e.delta)]
      BY <1>10, <2>4 DEF CallMoves
    <3> QED BY <1>1, <1>3, <1>9, <2>1, <2>4, <3>1, <3>2 DEF NamesFirst
  <2> QED BY <2>2, <2>3, <2>4 DEF NamesFirst
<1>11. CASE c \in DOMAIN openToolCalls
  <2>1. /\ StartedAt(Call, c, n + 1)' =
             (IF e.type = "TOOL_CALL_END" /\ e.toolCallId = c THEN {} ELSE StartedAt(Call, c, n))
        /\ StreamedAt(Call, c, n + 1)' = {}
        /\ ClosedAt(Call, c, n + 1)' =
             (IF e.type = "TOOL_CALL_END" /\ e.toolCallId = c THEN {n + 1} ELSE {})
    BY <1>11, FormsOfCallMove
  <2>2. CASE e.type = "TOOL_CALL_END" /\ e.toolCallId = c
    BY <1>1, <1>3, <1>9, <1>11, <2>1, <2>2 DEF CallMoves
  <2>3. CASE ~ (e.type = "TOOL_CALL_END" /\ e.toolCallId = c)
    <3>1. /\ c \in DOMAIN openToolCalls'
          /\ openToolCalls'[c] = [start |-> openToolCalls[c].start,
                                  args |-> WhenStarted(openToolCalls[c].args, e, c),
                                  owner |-> openToolCalls[c].owner]
      BY <1>11, <2>3 DEF CallMoves
    <3>2. StartedAt(Call, c, n + 1)' = StartedAt(Call, c, n) /\ ClosedAt(Call, c, n + 1)' = {}
      BY <2>1, <2>3
    <3>3. StartedAt(Call, c, n) # {} /\ B = WhenStarted(A, e, c)
      BY <1>1, <1>7, <1>8, <1>11
    <3>4. ASSUME NEW p \in StartedAt(Call, c, n)
          PROVE  openToolCalls'[c] = [start |-> log'[p].at, args |-> B, owner |-> OwnerOf(p)']
      <4>1. openToolCalls[c] = [start |-> log[p].at, args |-> A, owner |-> OwnerOf(p)]
        BY <1>1, <1>8
      <4>2. log'[p] = log[p] /\ OwnerOf(p)' = OwnerOf(p)
        BY <1>1, <1>4, <1>5
      <4> QED BY <3>1, <3>3, <4>1, <4>2
    <3> QED BY <1>3, <1>9, <2>1, <3>1, <3>2, <3>3, <3>4
  <2> QED BY <2>2, <2>3
<1>12. CASE ChunkId = c
  <2>1. /\ StartedAt(Call, c, n + 1)' = {}
        /\ StreamedAt(Call, c, n + 1)' =
             (IF EndsCallStream(e, c, DOMAIN openToolCalls) THEN {} ELSE StreamedAt(Call, c, n))
        /\ ClosedAt(Call, c, n + 1)' =
             (IF EndsCallStream(e, c, DOMAIN openToolCalls) THEN {n + 1} ELSE {})
    BY <1>12, FormsOfCallMove
  <2>2. CASE EndsCallStream(e, c, DOMAIN openToolCalls)
    BY <1>1, <1>3, <1>9, <1>12, <2>1, <2>2 DEF CallMoves
  <2>3. CASE ~ EndsCallStream(e, c, DOMAIN openToolCalls)
    <3>1. /\ ChunkId' = c
          /\ toolChunk' = [id |-> c, start |-> toolChunk.start,
                           args |-> WhenStreamed(toolChunk.args, e, c)]
      BY <1>12, <2>3 DEF CallMoves
    <3>2. StreamedAt(Call, c, n) # {} /\ B = WhenStreamed(A, e, c)
      BY <1>1, <1>7, <1>8, <1>12
    <3>3. ASSUME NEW p \in StreamedAt(Call, c, n)
          PROVE  toolChunk' = [id |-> c, start |-> log'[p].at, args |-> B]
      <4>1. toolChunk = [id |-> c, start |-> log[p].at, args |-> A]
        BY <1>1, <1>8
      <4>2. log'[p] = log[p]
        BY <1>1, <1>4
      <4> QED BY <3>1, <3>2, <4>1, <4>2
    <3> QED BY <1>3, <1>9, <2>1, <2>3, <3>1, <3>2, <3>3
  <2> QED BY <2>2, <2>3
<1>13. CASE c \in DOMAIN closedToolCalls
  <2>1. /\ StartedAt(Call, c, n + 1)' = {} /\ StreamedAt(Call, c, n + 1)' = {}
        /\ ClosedAt(Call, c, n + 1)' = ClosedAt(Call, c, n)
    BY <1>13, FormsOfCallMove
  <2>2. c \in DOMAIN closedToolCalls' /\ closedToolCalls'[c] = closedToolCalls[c]
    BY <1>13 DEF CallMoves
  <2> QED BY <1>1, <1>3, <1>4, <1>8, <1>9, <1>13, <2>1, <2>2
<1> QED BY <1>10, <1>11, <1>12, <1>13

\* A step that closes the chunk stream and introduces, extends and ends no call.
LEMMA ClosingMoves ==
  ASSUME ToolInv, NEW c \in ToolCallIds, NEW i \in Indices, NEW e,
         closedToolCalls' = ClosedOnceToolChunkEnds(i), toolChunk' = None,
         UNCHANGED openToolCalls,
         ChunkId = c => EndsCallStream(e, c, DOMAIN openToolCalls),
         NamesFirst(e, c) => c \in DOMAIN openToolCalls \cup DOMAIN closedToolCalls \cup {ChunkId},
         e.type \in {"TOOL_CALL_ARGS", "TOOL_CALL_CHUNK", "TOOL_CALL_END"} /\ e.toolCallId = c =>
           c \notin DOMAIN openToolCalls
  PROVE  CallMoves(c, i, e)
<1>1. /\ DOMAIN closedToolCalls' = DOMAIN closedToolCalls \cup ({ChunkId} \ {None})
      /\ \A k \in DOMAIN closedToolCalls : closedToolCalls'[k] = closedToolCalls[k]
  BY ChunkEndKeepsClosed
<1>2. ChunkId = c => c \in DOMAIN closedToolCalls' /\ closedToolCalls'[c] = i
  BY ToolIdsAssumption DEF ClosedOnceToolChunkEnds, ChunkId, Put
<1>3. ChunkId' = None /\ c # None
  BY ToolIdsAssumption DEF ChunkId
<1>4. c \in DOMAIN openToolCalls =>
        openToolCalls'[c] = [start |-> openToolCalls[c].start,
                             args |-> WhenStarted(openToolCalls[c].args, e, c),
                             owner |-> openToolCalls[c].owner]
  BY CallType DEF WhenStarted, Grown, OpenCall
<1> QED BY <1>1, <1>2, <1>3, <1>4 DEF CallMoves

\* A step that leaves the calls alone.
LEMMA StandingMoves ==
  ASSUME ToolInv, NEW c \in ToolCallIds, NEW i, NEW e, UNCHANGED toolCallVars,
         e.type \notin CallTypes, ~ EndsCallStream(e, c, DOMAIN openToolCalls)
  PROVE  CallMoves(c, i, e)
<1>1. c \in DOMAIN openToolCalls =>
        openToolCalls'[c] = [start |-> openToolCalls[c].start,
                             args |-> WhenStarted(openToolCalls[c].args, e, c),
                             owner |-> openToolCalls[c].owner]
  BY CallType DEF WhenStarted, Grown, OpenCall, CallTypes, toolCallVars
<1>2. ChunkId = c =>
        toolChunk' = [id |-> c, start |-> toolChunk.start,
                      args |-> WhenStreamed(toolChunk.args, e, c)]
  BY ToolIdsAssumption
     DEF WhenStreamed, Grown, CallTypes, toolCallVars, ToolInv, ToolTypeOK, ChunkId
<1>3. ChunkId' = ChunkId /\ UNCHANGED <<openToolCalls, closedToolCalls>> /\ ~ NamesFirst(e, c)
  BY DEF toolCallVars, ChunkId, NamesFirst, CallTypes
<1> QED BY <1>1, <1>2, <1>3 DEF CallMoves, CallTypes

\* What the end of the chunk stream does to the closed calls.
LEMMA ChunkEndTold ==
  ASSUME ToolInv, NEW c \in ToolCallIds, NEW i \in Indices, NEW closed,
         closed = ClosedOnceToolChunkEnds(i)
  PROVE  /\ DOMAIN closed = DOMAIN closedToolCalls \cup ({ChunkId} \ {None})
         /\ \A x \in DOMAIN closedToolCalls : closed[x] = closedToolCalls[x]
         /\ ChunkId = c => c \in DOMAIN closed /\ closed[c] = i
<1>1. ChunkId = c => c \in DOMAIN closed /\ closed[c] = i
  BY ToolIdsAssumption DEF ClosedOnceToolChunkEnds, ChunkId, Put
<1> QED BY <1>1, ChunkEndKeepsClosed

LEMMA CallStartMoves ==
  ASSUME ToolInv, NEW c \in ToolCallIds, NEW i \in Indices, i = eventCount, NEW e,
         ToolCallStart(e)
  PROVE  CallMoves(c, i, e)
<1>1. PICK k, closed : k = e.toolCallId /\ closed = ClosedOnceToolChunkEnds(i)
  OBVIOUS
<1>2. /\ e.type = "TOOL_CALL_START" /\ closedToolCalls' = closed /\ toolChunk' = None
      /\ EndsCallStream(e, c, DOMAIN openToolCalls)
      /\ ChunkId' = None /\ c # None
  BY <1>1, ToolIdsAssumption DEF ToolCallStart, CloseToolChunkAndReport, EndsCallStream, ChunkId
<1>3. /\ DOMAIN closed = DOMAIN closedToolCalls \cup ({ChunkId} \ {None})
      /\ \A x \in DOMAIN closedToolCalls : closed[x] = closedToolCalls[x]
      /\ ChunkId = c => c \in DOMAIN closed /\ closed[c] = i
  BY <1>1, ChunkEndTold
<1>4. CASE /\ UNCHANGED openToolCalls
           /\ k = c => c \in DOMAIN openToolCalls \cup DOMAIN closed
  <2>1. NamesFirst(e, c) => c \in DOMAIN openToolCalls \cup DOMAIN closedToolCalls \cup {ChunkId}
    BY <1>1, <1>3, <1>4 DEF NamesFirst
  <2>2. e.type \notin {"TOOL_CALL_ARGS", "TOOL_CALL_CHUNK", "TOOL_CALL_END"}
    BY <1>2
  <2> QED BY <1>1, <1>2, <1>4, <2>1, <2>2, ClosingMoves
<1>5. CASE /\ k \in ToolCallIds \ (DOMAIN openToolCalls \cup DOMAIN closed)
           /\ openToolCalls' = Put(openToolCalls, k,
                [start |-> i, args |-> <<>>, owner |-> CallOwner(e)])
  <2>1. /\ c \in DOMAIN openToolCalls =>
             c \in DOMAIN openToolCalls' /\ openToolCalls'[c] = openToolCalls[c]
        /\ k = c =>
             /\ c \in DOMAIN openToolCalls'
             /\ openToolCalls'[c] = [start |-> i, args |-> <<>>, owner |-> CallOwner(e)]
        /\ k # c => (c \in DOMAIN openToolCalls' <=> c \in DOMAIN openToolCalls)
    BY <1>5 DEF Put
  <2>2. c \in DOMAIN openToolCalls =>
          openToolCalls[c] = [start |-> openToolCalls[c].start,
                              args |-> WhenStarted(openToolCalls[c].args, e, c),
                              owner |-> openToolCalls[c].owner]
    BY <1>2, CallType DEF WhenStarted, Grown, OpenCall
  <2> QED BY <1>1, <1>2, <1>3, <2>1, <2>2 DEF CallMoves, NamesFirst
<1>6. \/ /\ UNCHANGED openToolCalls
         /\ k = c => c \in DOMAIN openToolCalls \cup DOMAIN closed
      \/ /\ k \in ToolCallIds \ (DOMAIN openToolCalls \cup DOMAIN closed)
         /\ openToolCalls' = Put(openToolCalls, k,
              [start |-> i, args |-> <<>>, owner |-> CallOwner(e)])
  BY <1>1, <1>2 DEF ToolCallStart
<1> QED BY <1>4, <1>5, <1>6

\* A delta that is added to an open call.
LEMMA OpenCallExtended ==
  ASSUME ToolInv, NEW k \in DOMAIN openToolCalls, NEW delta,
         openToolCalls' = [openToolCalls EXCEPT ![k].args = Extend(@, delta)]
  PROVE  /\ DOMAIN openToolCalls' = DOMAIN openToolCalls
         /\ \A c \in DOMAIN openToolCalls :
              openToolCalls'[c] =
                [start |-> openToolCalls[c].start,
                 args |-> IF c = k THEN Extend(openToolCalls[c].args, delta) ELSE openToolCalls[c].args,
                 owner |-> openToolCalls[c].owner]
BY CallType DEF OpenCall

LEMMA CallArgsMoves ==
  ASSUME ToolInv, NEW c \in ToolCallIds, NEW i \in Indices, i = eventCount, NEW e,
         ToolCallArgs(e)
  PROVE  CallMoves(c, i, e)
<1>1. PICK k, closed : k = e.toolCallId /\ closed = ClosedOnceToolChunkEnds(i)
  OBVIOUS
<1>2. /\ e.type = "TOOL_CALL_ARGS" /\ closedToolCalls' = closed /\ toolChunk' = None
      /\ EndsCallStream(e, c, DOMAIN openToolCalls) /\ ~ NamesFirst(e, c)
      /\ ChunkId' = None /\ c # None
  BY <1>1, ToolIdsAssumption
     DEF ToolCallArgs, CloseToolChunkAndReport, EndsCallStream, ChunkId, NamesFirst
<1>3. /\ DOMAIN closed = DOMAIN closedToolCalls \cup ({ChunkId} \ {None})
      /\ \A x \in DOMAIN closedToolCalls : closed[x] = closedToolCalls[x]
      /\ ChunkId = c => c \in DOMAIN closed /\ closed[c] = i
  BY <1>1, ChunkEndTold
<1>4. CASE UNCHANGED openToolCalls /\ k \notin DOMAIN openToolCalls
  BY <1>1, <1>2, <1>4, ClosingMoves
<1>5. CASE /\ k \in DOMAIN openToolCalls
           /\ openToolCalls' = [openToolCalls EXCEPT ![k].args = Extend(@, e.delta)]
  <2>1. /\ DOMAIN openToolCalls' = DOMAIN openToolCalls
        /\ c \in DOMAIN openToolCalls =>
             openToolCalls'[c] =
               [start |-> openToolCalls[c].start,
                args |-> IF c = k THEN Extend(openToolCalls[c].args, e.delta) ELSE openToolCalls[c].args,
                owner |-> openToolCalls[c].owner]
    BY <1>5, OpenCallExtended
  <2>2. c \in DOMAIN openToolCalls =>
          openToolCalls'[c] = [start |-> openToolCalls[c].start,
                               args |-> WhenStarted(openToolCalls[c].args, e, c),
                               owner |-> openToolCalls[c].owner]
    BY <1>1, <1>2, <2>1 DEF WhenStarted, Grown
  <2> QED BY <1>2, <1>3, <2>1, <2>2 DEF CallMoves
<1>6. \/ UNCHANGED openToolCalls /\ k \notin DOMAIN openToolCalls
      \/ /\ k \in DOMAIN openToolCalls
         /\ openToolCalls' = [openToolCalls EXCEPT ![k].args = Extend(@, e.delta)]
  BY <1>1, CallType DEF ToolCallArgs
<1> QED BY <1>4, <1>5, <1>6

LEMMA CallEndMoves ==
  ASSUME ToolInv, NEW c \in ToolCallIds, NEW i \in Indices, i = eventCount, NEW e,
         ToolCallEnd(e)
  PROVE  CallMoves(c, i, e)
<1>1. PICK k, closed : k = e.toolCallId /\ closed = ClosedOnceToolChunkEnds(i)
  OBVIOUS
<1>2. /\ e.type = "TOOL_CALL_END" /\ toolChunk' = None
      /\ EndsCallStream(e, c, DOMAIN openToolCalls) /\ ~ NamesFirst(e, c)
      /\ ChunkId' = None /\ c # None
  BY ToolIdsAssumption
     DEF ToolCallEnd, CloseToolChunkAndReport, EndsCallStream, ChunkId, NamesFirst
<1>3. /\ DOMAIN closed = DOMAIN closedToolCalls \cup ({ChunkId} \ {None})
      /\ \A x \in DOMAIN closedToolCalls : closed[x] = closedToolCalls[x]
      /\ ChunkId = c => c \in DOMAIN closed /\ closed[c] = i
  BY <1>1, ChunkEndTold
<1>4. CASE /\ closedToolCalls' = closed
           /\ UNCHANGED openToolCalls /\ k \notin DOMAIN openToolCalls
  BY <1>1, <1>2, <1>4, ClosingMoves
<1>5. CASE /\ k \in DOMAIN openToolCalls
           /\ openToolCalls' = Drop(openToolCalls, k)
           /\ closedToolCalls' = Put(closed, k, i)
  <2>1. /\ k \notin DOMAIN closedToolCalls
        /\ c \in DOMAIN openToolCalls =>
             openToolCalls[c] = [start |-> openToolCalls[c].start,
                                 args |-> WhenStarted(openToolCalls[c].args, e, c),
                                 owner |-> openToolCalls[c].owner]
    BY <1>2, <1>5, CallType DEF ToolInv, CallHasOneForm, WhenStarted, Grown, OpenCall
  <2>2. /\ k # c => (c \in DOMAIN openToolCalls' <=> c \in DOMAIN openToolCalls)
        /\ c \in DOMAIN openToolCalls /\ k # c => openToolCalls'[c] = openToolCalls[c]
        /\ k = c => c \in DOMAIN closedToolCalls' /\ closedToolCalls'[c] = i
        /\ c \in DOMAIN closed /\ k # c =>
             c \in DOMAIN closedToolCalls' /\ closedToolCalls'[c] = closed[c]
        /\ DOMAIN closedToolCalls' = DOMAIN closed \cup {k}
    BY <1>5 DEF Put, Drop
  <2> QED BY <1>1, <1>2, <1>3, <1>5, <2>1, <2>2 DEF CallMoves
<1>6. \/ /\ closedToolCalls' = closed
         /\ UNCHANGED openToolCalls /\ k \notin DOMAIN openToolCalls
      \/ /\ k \in DOMAIN openToolCalls
         /\ openToolCalls' = Drop(openToolCalls, k)
         /\ closedToolCalls' = Put(closed, k, i)
  BY <1>1, CallType DEF ToolCallEnd, CloseToolChunkAndReport
<1> QED BY <1>4, <1>5, <1>6

LEMMA CallResultMoves ==
  ASSUME ToolInv, NEW c \in ToolCallIds, NEW i \in Indices, i = eventCount, NEW e,
         ToolCallResult(e)
  PROVE  CallMoves(c, i, e)
<1>1. /\ e.type = "TOOL_CALL_RESULT" /\ toolChunk' = None /\ UNCHANGED openToolCalls
      /\ closedToolCalls' = ClosedOnceToolChunkEnds(i)
  BY DEF ToolCallResult, CloseToolChunkAndReport
<1>2. EndsCallStream(e, c, DOMAIN openToolCalls) /\ ~ NamesFirst(e, c)
  BY <1>1 DEF EndsCallStream, NamesFirst
<1> QED BY <1>1, <1>2, ClosingMoves

LEMMA CallChunkMoves ==
  ASSUME ToolInv, NEW c \in ToolCallIds, NEW i \in Indices, i = eventCount, NEW e \in ToolEvents,
         ToolCallChunk(e)
  PROVE  CallMoves(c, i, e)
<1>1. PICK k, closed : k = e.toolCallId /\ closed = ClosedOnceToolChunkEnds(i)
  OBVIOUS
<1>2. /\ e.type = "TOOL_CALL_CHUNK" /\ c # None
      /\ EndsCallStream(e, c, DOMAIN openToolCalls) <=> k \notin {None, c} \cup DOMAIN openToolCalls
      /\ NamesFirst(e, c) <=> k = c
      /\ e.delta \in Ids(Fragments)
  BY <1>1, ToolIdsAssumption DEF ToolCallChunk, EndsCallStream, NamesFirst, ToolEvents
<1>3. /\ DOMAIN closed = DOMAIN closedToolCalls \cup ({ChunkId} \ {None})
      /\ \A x \in DOMAIN closedToolCalls : closed[x] = closedToolCalls[x]
      /\ ChunkId = c => c \in DOMAIN closed /\ closed[c] = i
  BY <1>1, ChunkEndTold
<1>4. /\ None \notin DOMAIN openToolCalls /\ None \notin DOMAIN closedToolCalls
      /\ ChunkId \in Ids(ToolCallIds) /\ ChunkId \notin DOMAIN openToolCalls
      /\ ChunkId \notin DOMAIN closedToolCalls
      /\ toolChunk # None => ChunkId = toolChunk.id /\ ChunkId # None
      /\ toolChunk = None => ChunkId = None
  BY ToolIdsAssumption, ChunkEndKeepsClosed, PositionType
     DEF ToolInv, ToolTypeOK, IsDict, CallHasOneForm, ChunkId
<1>5. c \in DOMAIN openToolCalls =>
        openToolCalls[c] = [start |-> openToolCalls[c].start,
                            args |-> openToolCalls[c].args, owner |-> openToolCalls[c].owner]
  BY CallType DEF OpenCall
<1>6. ChunkId = c =>
        toolChunk = [id |-> c, start |-> toolChunk.start, args |-> toolChunk.args]
  BY <1>2 DEF ToolInv, ToolTypeOK, ChunkId
<1>7. /\ k # c => WhenStarted(openToolCalls[c].args, e, c) = openToolCalls[c].args
      /\ k = c => WhenStarted(openToolCalls[c].args, e, c) = Extend(openToolCalls[c].args, e.delta)
      /\ WhenStreamed(toolChunk.args, e, c) =
           IF k \in {None, c} THEN Extend(toolChunk.args, e.delta) ELSE toolChunk.args
  BY <1>1, <1>2 DEF WhenStarted, WhenStreamed, Grown
<1>8. CASE k = None /\ toolChunk = None /\ UNCHANGED toolCallVars
  BY <1>2, <1>4, <1>5, <1>7, <1>8 DEF CallMoves, toolCallVars, ChunkId
<1>9. CASE /\ k \in DOMAIN openToolCalls
           /\ openToolCalls' = [openToolCalls EXCEPT ![k].args = Extend(@, e.delta)]
           /\ UNCHANGED <<closedToolCalls, toolChunk>>
  <2>1. /\ DOMAIN openToolCalls' = DOMAIN openToolCalls
        /\ c \in DOMAIN openToolCalls =>
             openToolCalls'[c] =
               [start |-> openToolCalls[c].start,
                args |-> IF c = k THEN Extend(openToolCalls[c].args, e.delta) ELSE openToolCalls[c].args,
                owner |-> openToolCalls[c].owner]
    BY <1>9, OpenCallExtended
  <2>2. ChunkId' = ChunkId
    BY <1>9 DEF ChunkId
  <2> QED BY <1>2, <1>4, <1>6, <1>7, <1>9, <2>1, <2>2 DEF CallMoves
<1>10. CASE /\ toolChunk # None /\ k \in {None, toolChunk.id}
            /\ toolChunk' = [toolChunk EXCEPT !.args = Extend(@, e.delta)]
            /\ UNCHANGED <<openToolCalls, closedToolCalls>>
  <2>1. toolChunk \in [id : ToolCallIds, start : Nat, args : Seq(Fragments)]
    BY <1>10 DEF ToolInv, ToolTypeOK
  <2>2. Extend(toolChunk.args, e.delta) \in Seq(Fragments)
    BY <1>2, <2>1, ExtendAppends
  <2>3. /\ toolChunk' = [id |-> toolChunk.id, start |-> toolChunk.start,
                         args |-> Extend(toolChunk.args, e.delta)]
        /\ toolChunk' \in [id : ToolCallIds, start : Nat, args : Seq(Fragments)]
    BY <1>10, <2>1, <2>2
  <2>4. ChunkId' = ChunkId
    BY <1>4, <1>10, <2>3, NoToolChunkAssumption DEF ChunkId
  <2>5. k \notin DOMAIN openToolCalls /\ (k = c => ChunkId = c)
    BY <1>2, <1>4, <1>10
  <2> QED BY <1>2, <1>4, <1>5, <1>6, <1>7, <1>10, <2>3, <2>4, <2>5 DEF CallMoves
<1>11. CASE /\ k \in DOMAIN closed \ (DOMAIN openToolCalls \cup {ChunkId})
            /\ closedToolCalls' = closed /\ toolChunk' = None /\ UNCHANGED openToolCalls
  <2>1. k \in DOMAIN closedToolCalls /\ k # None /\ k # ChunkId
    BY <1>3, <1>4, <1>11
  <2>2. ChunkId = c => EndsCallStream(e, c, DOMAIN openToolCalls)
    BY <1>2, <1>11, <2>1
  <2>3. NamesFirst(e, c) => c \in DOMAIN openToolCalls \cup DOMAIN closedToolCalls \cup {ChunkId}
    BY <1>2, <2>1
  <2> QED BY <1>1, <1>11, <2>2, <2>3, ClosingMoves
<1>12. CASE /\ k \in ToolCallIds \ (DOMAIN openToolCalls \cup DOMAIN closed)
            /\ toolChunk' = [id |-> k, start |-> i, args |-> Extend(<<>>, e.delta)]
            /\ closedToolCalls' = closed /\ UNCHANGED openToolCalls
  <2>1. Extend(<<>>, e.delta) \in Seq(Fragments) /\ i \in Nat
    <3>1. <<>> \in Seq(Fragments)
      OBVIOUS
    <3> QED BY <1>2, <3>1, ExtendAppends, PositionType
  <2>2. ChunkId' = k
    BY <1>12, <2>1, NoToolChunkAssumption DEF ChunkId
  <2>3. k # None /\ k \notin DOMAIN openToolCalls /\ k \notin DOMAIN closedToolCalls
        /\ (ChunkId = c => k # c)
    BY <1>3, <1>12, ToolIdsAssumption
  <2> QED BY <1>2, <1>3, <1>5, <1>7, <1>12, <2>2, <2>3 DEF CallMoves
<1> QED BY <1>1, <1>8, <1>9, <1>10, <1>11, <1>12 DEF ToolCallChunk, CloseToolChunkAndReport

\* What an input other than one that tells of messages or histories does to what is known
\* of them.
LEMMA SharedStand ==
  ASSUME NEW e, e.type \notin {"MESSAGE", "MESSAGES_SNAPSHOT", "TOOL_CALL_RESULT"},
         UNCHANGED <<knownToolCallIds, sharedMessageVars>>
  PROVE  SharedMoves(e)
BY DEF SharedMoves, sharedMessageVars

LEMMA ToolEventShares ==
  ASSUME ToolInv, NEW e \in ToolEvents, ToolEvent(e)
  PROVE  SharedMoves(e)
<1>1. CASE ToolCallResult(e)
  <2>1. /\ e.type = "TOOL_CALL_RESULT" /\ UNCHANGED <<knownToolCallIds, messageOwner>>
        /\ knownMessageIds' = knownMessageIds \cup ({e.messageId} \ {None})
    BY <1>1 DEF ToolCallResult
  <2> QED BY <2>1, ToolIdsAssumption DEF SharedMoves
<1>2. CASE ToolCallStart(e) \/ ToolCallArgs(e) \/ ToolCallEnd(e) \/ ToolCallChunk(e)
  <2>1. UNCHANGED <<knownToolCallIds, sharedMessageVars>>
    BY <1>2 DEF ToolCallStart, ToolCallArgs, ToolCallEnd, ToolCallChunk
  <2>2. e.type \notin {"MESSAGE", "MESSAGES_SNAPSHOT", "TOOL_CALL_RESULT"}
    BY <1>2 DEF ToolCallStart, ToolCallArgs, ToolCallEnd, ToolCallChunk
  <2> QED BY <2>1, <2>2, SharedStand
<1> QED BY <1>1, <1>2 DEF ToolEvent

LEMMA SeenShares ==
  ASSUME NEW m, NEW owner, SeeMessage(m, owner), UNCHANGED knownToolCallIds
  PROVE  SharedMoves(Seen(m, owner))
<1>1. PICK e : e = Seen(m, owner)
  OBVIOUS
<1>2. e.type = "MESSAGE" /\ e.messageId = m /\ e.owner = owner
  BY <1>1 DEF Seen
<1>3. \A x \in MessageIds :
        IF x = m THEN x \in DOMAIN messageOwner' /\ messageOwner'[x] = owner
        ELSE /\ x \in DOMAIN messageOwner' <=> x \in DOMAIN messageOwner
             /\ x \in DOMAIN messageOwner => messageOwner'[x] = messageOwner[x]
  BY DEF SeeMessage, Put
<1>4. SharedMoves(e)
  BY <1>2, <1>3 DEF SharedMoves, SeeMessage
<1> QED BY <1>1, <1>4

LEMMA HistoryShares ==
  ASSUME NEW messages, NEW calls, MessagesSnapshot(messages, calls), UNCHANGED messageOwner
  PROVE  SharedMoves(History(messages, calls))
<1>1. PICK e : e = History(messages, calls)
  OBVIOUS
<1>2. e.type = "MESSAGES_SNAPSHOT" /\ e.messages = messages /\ e.calls = calls
  BY <1>1 DEF History
<1>3. SharedMoves(e)
  BY <1>2 DEF SharedMoves, MessagesSnapshot
<1> QED BY <1>1, <1>3

-----------------------------------------------------------------------------
(* What the rules report is what the stream deserves. *)

\* What the step, logged at index i as e, reports for ending calls with arguments that do
\* not parse.
EndFindings(i, e) ==
  (IF toolChunk # None /\ EndsCallStream(e, ChunkId, DOMAIN openToolCalls)
   THEN ToolChunkFindings(i) ELSE {})
  \cup (IF e.type = "TOOL_CALL_END" /\ e.toolCallId \in DOMAIN openToolCalls
        THEN ArgsFindings(i, e.toolCallId, openToolCalls[e.toolCallId].args,
                          openToolCalls[e.toolCallId].start)
        ELSE {})

\* The same, of one call.
EndFindingsOf(c, i, e) ==
  (IF ChunkId = c /\ EndsCallStream(e, c, DOMAIN openToolCalls)
   THEN ArgsFindings(i, c, toolChunk.args, toolChunk.start) ELSE {})
  \cup (IF e.type = "TOOL_CALL_END" /\ e.toolCallId = c /\ c \in DOMAIN openToolCalls
        THEN ArgsFindings(i, c, openToolCalls[c].args, openToolCalls[c].start)
        ELSE {})

AllAt(positions, index) == \A p \in positions : log[p].at = index

\* The position of its start names the call in a diagnostic about its arguments.
LEMMA ArgumentsJudged ==
  ASSUME NEW n, NEW i, NEW e, Grows(n, i, e), NEW c, NEW S, S # {},
         IntroducedAt(Call, c, n + 1)' = S, n + 1 \in ClosedAt(Call, c, n + 1)',
         NEW args, NEW start, args = ArgumentsOf(c, n), AllAt(S, start)'
  PROVE  OfArguments(c, n + 1)' = ArgsFindings(i, c, args, start)
<1>1. /\ n \in Nat /\ log'[n + 1].at = i /\ log'[n + 1].event = e
  BY DEF Grows
<1>2. PICK k : k = n + 1 /\ k - 1 = n
  BY <1>1
<1>3. ArgumentsOf(c, k - 1)' = args
  <2>1. PICK r : r = n
    OBVIOUS
  <2>2. ArgumentsOf(c, r)' = args
    BY <2>1, ArgumentsPast
  <2>3. k - 1 = r
    BY <1>2, <2>1
  <2> QED BY <2>2, <2>3
<1>4. Malformed(c, k - 1)' <=> args \notin JsonTexts \cup {<<>>}
  BY <1>3 DEF Malformed
<1>5. IndicesOf(IntroducedAt(Call, c, k))' = {start}
  <2>1. IndicesOf(IntroducedAt(Call, c, k))' = {log'[p].at : p \in IntroducedAt(Call, c, k)'}
    BY DEF IndicesOf
  <2> QED BY <1>2, <2>1 DEF AllAt
<1>6. OfArguments(c, k)' =
        IF k \in ClosedAt(Call, c, k)' /\ Malformed(c, k - 1)'
        THEN {Finding("AGUI204", log'[k].at, c, x) : x \in IndicesOf(IntroducedAt(Call, c, k))'}
        ELSE {}
  BY DEF OfArguments, AboutEach, Finding
<1> QED BY <1>1, <1>2, <1>4, <1>5, <1>6 DEF ArgsFindings


LEMMA CallEndTold ==
  ASSUME ToolInv, NEW c \in ToolCallIds, NEW n, NEW i, NEW e \in LoggedTool,
         Grows(n, i, e), CallsMirrored(n), e.type # "RUN_STARTED"
  PROVE  OfArguments(c, n + 1)' = EndFindingsOf(c, i, e)
<1>1. /\ n \in Nat
      /\ \A p \in 1..n : log'[p] = log[p]
      /\ CallMirrored(c, n)
      /\ n + 1 \notin 1..n
  BY DEF Grows, CallsMirrored
<1>2. /\ c \in DOMAIN openToolCalls => c \notin DOMAIN closedToolCalls /\ ChunkId # c
      /\ c \in DOMAIN closedToolCalls => ChunkId # c
  BY OneFormOfCall
<1>3. /\ ~ Fresh(Call, c, n) => IntroducedAt(Call, c, n + 1)' = IntroducedAt(Call, c, n)
      /\ StartedAt(Call, c, n) # {} => IntroducedAt(Call, c, n) = StartedAt(Call, c, n)
      /\ StreamedAt(Call, c, n) # {} => IntroducedAt(Call, c, n) = StreamedAt(Call, c, n)
      /\ IntroducedAt(Call, c, n) \subseteq 1..n
  <2>1. ~ Fresh(Call, c, n) => IntroducedAt(Call, c, n + 1)' = IntroducedAt(Call, c, n)
    BY CallNames, FormsMove
  <2> QED BY <1>1, <2>1, CallNames, OneFormAt
<1>4. ClosedAt(Call, c, n) \subseteq 1..n
  BY DEF ClosedAt, Closers, First
<1>5. n + 1 \notin ClosedAt(Call, c, n + 1)' => OfArguments(c, n + 1)' = {}
  BY DEF OfArguments
<1>6. CASE c \notin DOMAIN openToolCalls \cup DOMAIN closedToolCalls \cup {ChunkId}
  <2>1. ClosedAt(Call, c, n + 1)' = {}
    BY <1>6, FormsOfCallMove
  <2> QED BY <1>5, <1>6, <2>1 DEF EndFindingsOf
<1>7. CASE c \in DOMAIN openToolCalls
  <2>1. ClosedAt(Call, c, n + 1)' =
          (IF e.type = "TOOL_CALL_END" /\ e.toolCallId = c THEN {n + 1} ELSE {})
    BY <1>7, FormsOfCallMove
  <2>2. CASE e.type = "TOOL_CALL_END" /\ e.toolCallId = c
    <3>1. PICK S, args, start :
            /\ S = StartedAt(Call, c, n)
            /\ args = openToolCalls[c].args /\ start = openToolCalls[c].start
      OBVIOUS
    <3>2. S # {} /\ IntroducedAt(Call, c, n + 1)' = S /\ S \subseteq 1..n
      BY <1>1, <1>3, <1>7, <3>1 DEF CallMirrored, Fresh
    <3>3. ASSUME NEW p \in S PROVE start = log[p].at /\ args = ArgumentsOf(c, n)
      <4>1. openToolCalls[c] = [start |-> log[p].at, args |-> ArgumentsOf(c, n),
                                owner |-> OwnerOf(p)]
        BY <1>1, <3>1 DEF CallMirrored
      <4> QED BY <3>1, <4>1
    <3>4. args = ArgumentsOf(c, n)
      BY <3>1, <3>2, <3>3
    <3>5. AllAt(S, start)'
      BY <1>1, <3>1, <3>2, <3>3 DEF AllAt
    <3>6. n + 1 \in ClosedAt(Call, c, n + 1)'
      BY <2>1, <2>2
    <3>7. OfArguments(c, n + 1)' = ArgsFindings(i, c, args, start)
      BY <3>2, <3>4, <3>5, <3>6, ArgumentsJudged
    <3> QED BY <1>2, <1>7, <2>2, <3>1, <3>7 DEF EndFindingsOf
  <2>3. CASE ~ (e.type = "TOOL_CALL_END" /\ e.toolCallId = c)
    BY <1>2, <1>5, <1>7, <2>1, <2>3 DEF EndFindingsOf
  <2> QED BY <2>2, <2>3
<1>8. CASE ChunkId = c
  <2>1. ClosedAt(Call, c, n + 1)' =
          (IF EndsCallStream(e, c, DOMAIN openToolCalls) THEN {n + 1} ELSE {})
    BY <1>8, FormsOfCallMove
  <2>2. CASE EndsCallStream(e, c, DOMAIN openToolCalls)
    <3>1. PICK S, args, start :
            /\ S = StreamedAt(Call, c, n)
            /\ args = toolChunk.args /\ start = toolChunk.start
      OBVIOUS
    <3>2. S # {} /\ IntroducedAt(Call, c, n + 1)' = S /\ S \subseteq 1..n
      BY <1>1, <1>3, <1>8, <3>1 DEF CallMirrored, Fresh
    <3>3. \A p \in S : toolChunk = [id |-> c, start |-> log[p].at, args |-> ArgumentsOf(c, n)]
      BY <1>1, <3>1 DEF CallMirrored
    <3>4. args = ArgumentsOf(c, n)
      BY <3>1, <3>2, <3>3
    <3>5. AllAt(S, start)'
      BY <1>1, <3>1, <3>2, <3>3 DEF AllAt
    <3>6. n + 1 \in ClosedAt(Call, c, n + 1)'
      BY <2>1, <2>2
    <3>7. OfArguments(c, n + 1)' = ArgsFindings(i, c, args, start)
      BY <3>2, <3>4, <3>5, <3>6, ArgumentsJudged
    <3> QED BY <1>2, <1>8, <2>2, <3>1, <3>7 DEF EndFindingsOf
  <2>3. CASE ~ EndsCallStream(e, c, DOMAIN openToolCalls)
    BY <1>2, <1>5, <1>8, <2>1, <2>3 DEF EndFindingsOf
  <2> QED BY <2>2, <2>3
<1>9. CASE c \in DOMAIN closedToolCalls
  <2>1. ClosedAt(Call, c, n + 1)' = ClosedAt(Call, c, n)
    BY <1>9, FormsOfCallMove
  <2> QED BY <1>1, <1>2, <1>4, <1>5, <1>9, <2>1 DEF EndFindingsOf
<1> QED BY <1>6, <1>7, <1>8, <1>9

LEMMA EndsTold ==
  ASSUME ToolInv, NEW n, NEW i, NEW e \in LoggedTool,
         Grows(n, i, e), CallsMirrored(n), e.type # "RUN_STARTED"
  PROVE  DeservedAtEnds(n + 1)' = EndFindings(i, e)
<1>1. DeservedAtEnds(n + 1)' = UNION {OfArguments(c, n + 1)' : c \in ToolCallIds}
  BY DEF DeservedAtEnds
<1>2. \A c \in ToolCallIds : OfArguments(c, n + 1)' = EndFindingsOf(c, i, e)
  BY CallEndTold
<1>3. UNION {OfArguments(c, n + 1)' : c \in ToolCallIds} =
        UNION {EndFindingsOf(c, i, e) : c \in ToolCallIds}
  BY <1>2
<1>4. /\ DOMAIN openToolCalls \subseteq ToolCallIds /\ None \notin ToolCallIds
      /\ toolChunk # None => toolChunk.id = ChunkId /\ ChunkId \in ToolCallIds
      /\ toolChunk = None => ChunkId = None
  BY CallType DEF ToolInv, ToolTypeOK, ChunkId
<1>5. \A c \in ToolCallIds : EndFindingsOf(c, i, e) \subseteq EndFindings(i, e)
  BY <1>4 DEF EndFindings, EndFindingsOf, ToolChunkFindings
<1>6. EndFindings(i, e) \subseteq UNION {EndFindingsOf(c, i, e) : c \in ToolCallIds}
  <2>1. toolChunk # None /\ EndsCallStream(e, ChunkId, DOMAIN openToolCalls) =>
          ToolChunkFindings(i) \subseteq EndFindingsOf(ChunkId, i, e)
    BY <1>4 DEF EndFindingsOf, ToolChunkFindings
  <2>2. e.type = "TOOL_CALL_END" /\ e.toolCallId \in DOMAIN openToolCalls =>
          ArgsFindings(i, e.toolCallId, openToolCalls[e.toolCallId].args,
                       openToolCalls[e.toolCallId].start)
          \subseteq EndFindingsOf(e.toolCallId, i, e)
    BY DEF EndFindingsOf
  <2> QED BY <1>4, <2>1, <2>2 DEF EndFindings
<1>7. UNION {EndFindingsOf(c, i, e) : c \in ToolCallIds} = EndFindings(i, e)
  BY <1>5, <1>6
<1> QED BY <1>1, <1>3, <1>7

\* The start of a run ends no call.
LEMMA NoEndAtNewRun ==
  ASSUME NEW n, NEW i, NEW e, Grows(n, i, e), e.type = "RUN_STARTED"
  PROVE  DeservedAtEnds(n + 1)' = {}
<1>1. \A c : ClosedAt(Call, c, n + 1)' = {}
  BY CallNames, FormsRenewed DEF Fresh
<1>2. \A c : OfArguments(c, n + 1)' = {}
  BY <1>1 DEF OfArguments
<1> QED BY <1>2 DEF DeservedAtEnds

-----------------------------------------------------------------------------
\* What the stream says of a call before and after the event, by the dictionaries.
LEMMA CallIndicesTold ==
  ASSUME NEW n, NEW i, NEW e, Grows(n, i, e), NEW c,
         CallMirrored(c, n), CallMirrored(c, n + 1)'
  PROVE  /\ StartedAt(Call, c, (n + 1) - 1)' = StartedAt(Call, c, n)
         /\ StreamedAt(Call, c, (n + 1) - 1)' = StreamedAt(Call, c, n)
         /\ StartedAt(Call, c, n) # {} <=> c \in DOMAIN openToolCalls
         /\ c \in DOMAIN openToolCalls =>
              /\ {log'[p].at : p \in StartedAt(Call, c, n)} = {openToolCalls[c].start}
              /\ \A p \in StartedAt(Call, c, n) : OwnerOf(p)' = openToolCalls[c].owner
         /\ IndicesOf(ClosedAt(Call, c, n + 1))' =
              IF c \in DOMAIN closedToolCalls' THEN {closedToolCalls'[c]} ELSE {}
<1>1. /\ n \in Nat /\ n \in 0..n
      /\ \A p \in 1..n : log'[p] = log[p]
  BY DEF Grows
<1>2. /\ StartedAt(Call, c, n)' = StartedAt(Call, c, n) /\ StartedAt(Call, c, n) \subseteq 1..n
      /\ StreamedAt(Call, c, n)' = StreamedAt(Call, c, n)
  BY <1>1, FormsPast, ClosersPast DEF StartedAt
<1>3. /\ StartedAt(Call, c, (n + 1) - 1)' = StartedAt(Call, c, n)
      /\ StreamedAt(Call, c, (n + 1) - 1)' = StreamedAt(Call, c, n)
  <2>1. PICK k : k = n
    OBVIOUS
  <2>2. (n + 1) - 1 = k
    BY <1>1, <2>1
  <2> QED BY <1>2, <2>1, <2>2
<1>4. StartedAt(Call, c, n) # {} <=> c \in DOMAIN openToolCalls
  BY DEF CallMirrored
<1>5. ASSUME NEW p \in StartedAt(Call, c, n)
      PROVE  log'[p].at = openToolCalls[c].start /\ OwnerOf(p)' = openToolCalls[c].owner
  <2>1. openToolCalls[c] = [start |-> log[p].at, args |-> ArgumentsOf(c, n), owner |-> OwnerOf(p)]
    BY DEF CallMirrored
  <2>2. log'[p] = log[p] /\ OwnerOf(p)' = OwnerOf(p)
    BY <1>1, <1>2, OwnersPast
  <2> QED BY <2>1, <2>2
<1>6. IndicesOf(ClosedAt(Call, c, n + 1))' =
        IF c \in DOMAIN closedToolCalls' THEN {closedToolCalls'[c]} ELSE {}
  <2>1. IndicesOf(ClosedAt(Call, c, n + 1))' = {log'[q].at : q \in ClosedAt(Call, c, n + 1)'}
    BY DEF IndicesOf
  <2>2. c \in DOMAIN closedToolCalls' <=> ClosedAt(Call, c, n + 1)' # {}
    BY DEF CallMirrored
  <2>3. \A q \in ClosedAt(Call, c, n + 1)' : closedToolCalls'[c] = log'[q].at
    BY DEF CallMirrored
  <2> QED BY <2>1, <2>2, <2>3
<1> QED BY <1>3, <1>4, <1>5, <1>6

\* What an event of call c deserves besides, by the dictionaries.
StartDeserves(i, c, parent) ==
  IF c \in DOMAIN openToolCalls THEN {Finding("AGUI205", i, c, openToolCalls[c].start)}
  ELSE IF c \in DOMAIN closedToolCalls' THEN {Finding("AGUI205", i, c, closedToolCalls'[c])}
  ELSE IF parent \in knownMessageIds' \cup {None} THEN {}
  ELSE {Finding("AGUI208", i, parent, None)}

ResultDeserves(i, c) ==
  IF c \in DOMAIN openToolCalls THEN {Finding("AGUI206", i, c, openToolCalls[c].start)}
  ELSE IF c \in DOMAIN closedToolCalls' \cup knownToolCallIds' THEN {}
  ELSE {Finding("AGUI207", i, c, None)}

ChunkDeserves(i, c, named) ==
  IF c \in DOMAIN openToolCalls THEN {}
  ELSE IF c \in DOMAIN closedToolCalls' THEN {Finding("AGUI205", i, c, closedToolCalls'[c])}
  ELSE IF named \/ ChunkId = c THEN {}
  ELSE {Finding("AGUI504", i, None, None)}

OpenDeserves(rule, i, c, tag) ==
  IF c \in DOMAIN openToolCalls THEN OwnerFindings(i, c, tag, openToolCalls[c].owner)
  ELSE {Finding(rule, i, c, None)}

LEMMA CallDeserves ==
  ASSUME ToolInv, NEW n, NEW i, NEW e \in ToolInputs, Grows(n, i, e), NEW c \in ToolCallIds,
         c = e.toolCallId, CallMirrored(c, n), CallMirrored(c, n + 1)', SharedMirrored(n + 1)'
  PROVE  /\ e.type = "TOOL_CALL_START" =>
              DeservedByEvent(n + 1)' = StartDeserves(i, c, e.parentMessageId)
         /\ e.type = "TOOL_CALL_ARGS" =>
              DeservedByEvent(n + 1)' = OpenDeserves("AGUI201", i, c, e.subagentRunId)
         /\ e.type = "TOOL_CALL_END" =>
              DeservedByEvent(n + 1)' = OpenDeserves("AGUI202", i, c, e.subagentRunId)
         /\ e.type = "TOOL_CALL_RESULT" => DeservedByEvent(n + 1)' = ResultDeserves(i, c)
         /\ e.type = "TOOL_CALL_CHUNK" => DeservedByEvent(n + 1)' = ChunkDeserves(i, c, e.named)
<1>1. /\ log'[n + 1].event = e /\ log'[n + 1].at = i
      /\ n \in Nat /\ c # None
  BY ToolIdsAssumption DEF Grows
<1>2. PICK S, C : S = StartedAt(Call, c, n) /\ C = IndicesOf(ClosedAt(Call, c, n + 1))'
  OBVIOUS
<1>3. PICK N : N = n + 1
  OBVIOUS
<1>4. /\ StartedAt(Call, c, N - 1)' = S /\ IndicesOf(ClosedAt(Call, c, N))' = C
      /\ log'[N].event = e /\ log'[N].at = i
  <2>1. StartedAt(Call, c, (n + 1) - 1)' = S
    BY <1>2, CallIndicesTold
  <2> QED BY <1>1, <1>2, <1>3, <2>1
<1>5. e.type \in CallTypes => DeservedByEvent(N)' = OfCall(N, S, C)'
  <2>1. /\ log[N].event.toolCallId' = c /\ log[N].event' = e
    BY <1>4
  <2>2. StartedAt(Call, log[N].event.toolCallId, N - 1)' = S
    BY <1>4, <2>1
  <2>3. IndicesOf(ClosedAt(Call, log[N].event.toolCallId, N))' = C
    BY <1>4, <2>1
  <2>4. OfCall(N, StartedAt(Call, log[N].event.toolCallId, N - 1),
               IndicesOf(ClosedAt(Call, log[N].event.toolCallId, N)))' = OfCall(N, S, C)'
    BY <2>2, <2>3
  <2> QED BY <1>1, <1>4, <2>1, <2>4 DEF DeservedByEvent, CallTypes
<1>6. C = IF c \in DOMAIN closedToolCalls' THEN {closedToolCalls'[c]} ELSE {}
  BY <1>2, CallIndicesTold
<1>7. S # {} <=> c \in DOMAIN openToolCalls
  BY <1>2, CallIndicesTold
<1>8. \A rule, x : AboutEach(rule, i, c, {x}) = {Finding(rule, i, c, x)}
  BY DEF AboutEach
<1>9. \A rule : AboutEach(rule, i, c, {}) = {}
  BY DEF AboutEach
<1>10. c \in DOMAIN openToolCalls =>
         /\ IndicesOf(S)' = {openToolCalls[c].start}
         /\ \A tag : Disowned(i, c, tag, S)' = OwnerFindings(i, c, tag, openToolCalls[c].owner)
  <2> SUFFICES ASSUME c \in DOMAIN openToolCalls, NEW tag
               PROVE  /\ IndicesOf(S)' = {openToolCalls[c].start}
                      /\ Disowned(i, c, tag, S)' =
                           OwnerFindings(i, c, tag, openToolCalls[c].owner)
    OBVIOUS
  <2>1. /\ {log'[p].at : p \in S} = {openToolCalls[c].start}
        /\ \A p \in S : OwnerOf(p)' = openToolCalls[c].owner
    <3>1. /\ {log'[p].at : p \in StartedAt(Call, c, n)} = {openToolCalls[c].start}
          /\ \A p \in StartedAt(Call, c, n) : OwnerOf(p)' = openToolCalls[c].owner
      BY CallIndicesTold
    <3> QED BY <1>2, <3>1
  <2>2. IndicesOf(S)' = {log'[p].at : p \in S}
    BY DEF IndicesOf
  <2>3. Disowned(i, c, tag, S)' = UNION {OwnerFindings(i, c, tag, OwnerOf(p)') : p \in S}
    BY DEF Disowned, OwnerFindings, Finding
  <2>4. UNION {OwnerFindings(i, c, tag, OwnerOf(p)') : p \in S} =
          OwnerFindings(i, c, tag, openToolCalls[c].owner)
    BY <1>7, <2>1
  <2> QED BY <2>1, <2>2, <2>3, <2>4
<1>11. CASE e.type = "TOOL_CALL_START"
  <2>1. e.parentMessageId \in MessageIds \cup {None}
    BY <1>11, ToolInputsAssumption DEF ToolEvents, Ids
  <2>2. e.parentMessageId = None \/ KnownMessage(e.parentMessageId, N)' <=>
          e.parentMessageId \in knownMessageIds' \cup {None}
    BY <1>3, <2>1 DEF SharedMirrored
  <2>3. OfCall(N, S, C)' =
          IF S # {} THEN AboutEach("AGUI205", i, c, IndicesOf(S)')
          ELSE IF C # {} THEN AboutEach("AGUI205", i, c, C)
          ELSE IF e.parentMessageId = None \/ KnownMessage(e.parentMessageId, N)' THEN {}
          ELSE AboutEach("AGUI208", i, e.parentMessageId, {None})
    BY <1>4, <1>11 DEF OfCall, AboutEach, Finding, IndicesOf, KnownMessage
  <2>4. AboutEach("AGUI208", i, e.parentMessageId, {None}) =
          {Finding("AGUI208", i, e.parentMessageId, None)}
    BY DEF AboutEach
  <2>5. DeservedByEvent(N)' = StartDeserves(i, c, e.parentMessageId)
    <3>0. DeservedByEvent(N)' = OfCall(N, S, C)'
      BY <1>5, <1>11 DEF CallTypes
    <3>1. CASE c \in DOMAIN openToolCalls
      BY <1>7, <1>8, <1>10, <2>3, <3>0, <3>1 DEF StartDeserves
    <3>2. CASE c \notin DOMAIN openToolCalls /\ c \in DOMAIN closedToolCalls'
      BY <1>6, <1>7, <1>8, <2>3, <3>0, <3>2 DEF StartDeserves
    <3>3. CASE c \notin DOMAIN openToolCalls /\ c \notin DOMAIN closedToolCalls'
      BY <1>6, <1>7, <2>2, <2>3, <2>4, <3>0, <3>3 DEF StartDeserves
    <3> QED BY <3>1, <3>2, <3>3
  <2> QED BY <1>3, <1>11, <2>5
<1>12. CASE e.type = "TOOL_CALL_ARGS"
  <2>1. OfCall(N, S, C)' = IF S = {} THEN AboutEach("AGUI201", i, c, {None})
                           ELSE Disowned(i, c, e.subagentRunId, S)'
    BY <1>4, <1>12 DEF OfCall, AboutEach, Finding
  <2>2. DeservedByEvent(N)' = OpenDeserves("AGUI201", i, c, e.subagentRunId)
    BY <1>5, <1>7, <1>8, <1>10, <1>12, <2>1 DEF OpenDeserves, CallTypes
  <2> QED BY <1>3, <1>12, <2>2
<1>13. CASE e.type = "TOOL_CALL_END"
  <2>1. OfCall(N, S, C)' = IF S = {} THEN AboutEach("AGUI202", i, c, {None})
                           ELSE Disowned(i, c, e.subagentRunId, S)'
    BY <1>4, <1>13 DEF OfCall, AboutEach, Finding
  <2>2. DeservedByEvent(N)' = OpenDeserves("AGUI202", i, c, e.subagentRunId)
    BY <1>5, <1>7, <1>8, <1>10, <1>13, <2>1 DEF OpenDeserves, CallTypes
  <2> QED BY <1>3, <1>13, <2>2
<1>14. CASE e.type = "TOOL_CALL_RESULT"
  <2>1. KnownCall(c, N)' <=> c \in knownToolCallIds'
    BY <1>3 DEF SharedMirrored
  <2>2. OfCall(N, S, C)' =
          IF S # {} THEN AboutEach("AGUI206", i, c, IndicesOf(S)')
          ELSE IF C # {} \/ KnownCall(c, N)' THEN {} ELSE AboutEach("AGUI207", i, c, {None})
    BY <1>4, <1>14 DEF OfCall, AboutEach, Finding, IndicesOf, KnownCall
  <2>3. DeservedByEvent(N)' = ResultDeserves(i, c)
    BY <1>5, <1>6, <1>7, <1>8, <1>10, <1>14, <2>1, <2>2 DEF ResultDeserves, CallTypes
  <2> QED BY <1>3, <1>14, <2>3
<1>15. CASE e.type = "TOOL_CALL_CHUNK"
  <2>1. PICK I : I = IntroducedAt(Call, c, n + 1)'
    OBVIOUS
  <2>2. OfCall(N, S, C)' =
          IF S # {} THEN {} ELSE IF C # {} THEN AboutEach("AGUI205", i, c, C)
          ELSE IF ~e.named /\ N \in IntroducedAt(Call, c, N)'
          THEN {Finding("AGUI504", i, None, None)} ELSE {}
    BY <1>4, <1>15 DEF OfCall, AboutEach, Finding, IntroducedAt, Introducers
  <2>3. c \notin DOMAIN openToolCalls /\ c \notin DOMAIN closedToolCalls' =>
          (N \in I <=> ChunkId # c)
    <3> SUFFICES ASSUME c \notin DOMAIN openToolCalls, c \notin DOMAIN closedToolCalls'
                 PROVE  N \in I <=> ChunkId # c
      OBVIOUS
    <3>1. /\ ~ Fresh(Call, c, n) =>
               IntroducedAt(Call, c, n + 1)' = IntroducedAt(Call, c, n)
          /\ Fresh(Call, c, n) =>
               IntroducedAt(Call, c, n + 1)' = (IF Introduces(Call, e, c) THEN {n + 1} ELSE {})
      BY <1>15, CallNames, FormsMove
    <3>6. ClosedAt(Call, c, n) # {} => ClosedAt(Call, c, n + 1)' = ClosedAt(Call, c, n)
      BY <1>15, CallNames, FormsMove
    <3>2. IntroducedAt(Call, c, n) \subseteq 1..n
      BY <1>1, CallNames, OneFormAt
    <3>3. Introduces(Call, e, c)
      BY <1>15, CallNames DEF Introduces
    <3>4. ChunkId = c => ~ Fresh(Call, c, n)
      BY DEF CallMirrored, Fresh
    <3>5. ChunkId # c => Fresh(Call, c, n)
      BY <3>6 DEF CallMirrored, Fresh
    <3> QED BY <1>1, <1>3, <2>1, <3>1, <3>2, <3>3, <3>4, <3>5
  <2>4. DeservedByEvent(N)' = ChunkDeserves(i, c, e.named)
    BY <1>3, <1>5, <1>6, <1>7, <1>8, <1>10, <1>15, <2>1, <2>2, <2>3
       DEF ChunkDeserves, CallTypes
  <2> QED BY <1>3, <1>15, <2>4
<1> QED BY <1>11, <1>12, <1>13, <1>14, <1>15

\* What a step reports for the calls it ends.
LEMMA EndFindingsBy ==
  ASSUME ToolInv, NEW i, NEW e
  PROVE  /\ e.type \notin {"UNJUDGED", "END_AFTER_RUN", "TOOL_CALL_CHUNK", "TOOL_CALL_END"} =>
              EndFindings(i, e) = ToolChunkFindings(i)
         /\ e.type \in {"UNJUDGED", "END_AFTER_RUN"} => EndFindings(i, e) = {}
         /\ e.type = "TOOL_CALL_END" /\ e.toolCallId \notin DOMAIN openToolCalls =>
              EndFindings(i, e) = ToolChunkFindings(i)
         /\ e.type = "TOOL_CALL_END" /\ e.toolCallId \in DOMAIN openToolCalls =>
              EndFindings(i, e) =
                ToolChunkFindings(i)
                \cup ArgsFindings(i, e.toolCallId, openToolCalls[e.toolCallId].args,
                                  openToolCalls[e.toolCallId].start)
         /\ e.type = "TOOL_CALL_CHUNK" =>
              EndFindings(i, e) =
                IF e.toolCallId \in {None, ChunkId} \cup DOMAIN openToolCalls
                THEN {} ELSE ToolChunkFindings(i)
BY DEF EndFindings, EndsCallStream, ToolChunkFindings

\* A tool call event that names no call.
LEMMA NamelessDeserves ==
  ASSUME ToolInv, NEW n, NEW i, NEW e \in ToolInputs, Grows(n, i, e), e.toolCallId = None,
         CallsMirrored(n), CallsMirrored(n + 1)'
  PROVE  DeservedByEvent(n + 1)' =
           IF e.type = "TOOL_CALL_CHUNK" /\ toolChunk = None
           THEN {Finding("AGUI504", i, None, None)} ELSE {}
<1>1. log'[n + 1].event = e /\ log'[n + 1].at = i
  BY DEF Grows
<1>2. e.type \in CallTypes
  BY ToolInputsAssumption DEF ToolEvents, CallTypes
<1>3. DeservedByEvent(n + 1)' =
        IF e.type = "TOOL_CALL_CHUNK"
           /\ \A c \in ToolCallIds : StreamedAt(Call, c, (n + 1) - 1)' = {}
        THEN {Finding("AGUI504", i, None, None)} ELSE {}
  <2>1. AboutEach("AGUI504", i, None, {None})' = {Finding("AGUI504", i, None, None)}
    BY DEF AboutEach, Finding
  <2> QED BY <1>1, <1>2, <2>1 DEF DeservedByEvent, CallTypes
<1>4. (\A c \in ToolCallIds : StreamedAt(Call, c, (n + 1) - 1)' = {}) <=> toolChunk = None
  <2>1. ASSUME NEW c \in ToolCallIds
        PROVE  StreamedAt(Call, c, (n + 1) - 1)' = {} <=> ChunkId # c
    <3>1. StreamedAt(Call, c, (n + 1) - 1)' = StreamedAt(Call, c, n)
      BY CallIndicesTold DEF CallsMirrored
    <3> QED BY <3>1 DEF CallsMirrored, CallMirrored
  <2>2. toolChunk # None => ChunkId \in ToolCallIds
    BY DEF ToolInv, ToolTypeOK, ChunkId
  <2>3. toolChunk = None => ChunkId \notin ToolCallIds
    BY ToolIdsAssumption DEF ChunkId
  <2> QED BY <2>1, <2>2, <2>3
<1> QED BY <1>3, <1>4

LEMMA ToolEventTold ==
  ASSUME ToolInv, NEW n, NEW i, i = eventCount, NEW e \in ToolInputs, Grows(n, i, e),
         CallsMirrored(n), CallsMirrored(n + 1)', SharedMirrored(n + 1)', ToolEvent(e)
  PROVE  toolFound' = EndFindings(i, e) \cup DeservedByEvent(n + 1)'
<1>1. e.toolCallId \in ToolCallIds \cup {None} /\ e.type \in CallTypes
  BY ToolInputsAssumption DEF ToolEvents, CallTypes, Ids
<1>2. /\ DOMAIN openToolCalls \subseteq ToolCallIds /\ None \notin ToolCallIds
      /\ DOMAIN ClosedOnceToolChunkEnds(i) \subseteq ToolCallIds
      /\ toolChunk = None <=> ChunkId = None
      /\ ChunkId \notin DOMAIN openToolCalls
  BY CallType DEF ToolInv, ToolTypeOK, CallHasOneForm, ChunkId
<1>3. PICK c : c = e.toolCallId
  OBVIOUS
<1>4. PICK D : D = DeservedByEvent(n + 1)'
  OBVIOUS
<1>5. \A rule, id, related : About(rule, id, related) = {Finding(rule, i, id, related)}
  BY DEF About
<1>6. c = None => D = IF e.type = "TOOL_CALL_CHUNK" /\ toolChunk = None
                      THEN {Finding("AGUI504", i, None, None)} ELSE {}
  BY <1>3, <1>4, NamelessDeserves
<1>7. c # None =>
        /\ e.type = "TOOL_CALL_START" => D = StartDeserves(i, c, e.parentMessageId)
        /\ e.type = "TOOL_CALL_ARGS" => D = OpenDeserves("AGUI201", i, c, e.subagentRunId)
        /\ e.type = "TOOL_CALL_END" => D = OpenDeserves("AGUI202", i, c, e.subagentRunId)
        /\ e.type = "TOOL_CALL_RESULT" => D = ResultDeserves(i, c)
        /\ e.type = "TOOL_CALL_CHUNK" => D = ChunkDeserves(i, c, e.named)
  <2> SUFFICES ASSUME c # None
               PROVE  /\ e.type = "TOOL_CALL_START" => D = StartDeserves(i, c, e.parentMessageId)
                      /\ e.type = "TOOL_CALL_ARGS" =>
                           D = OpenDeserves("AGUI201", i, c, e.subagentRunId)
                      /\ e.type = "TOOL_CALL_END" =>
                           D = OpenDeserves("AGUI202", i, c, e.subagentRunId)
                      /\ e.type = "TOOL_CALL_RESULT" => D = ResultDeserves(i, c)
                      /\ e.type = "TOOL_CALL_CHUNK" => D = ChunkDeserves(i, c, e.named)
    OBVIOUS
  <2>1. c \in ToolCallIds /\ CallMirrored(c, n) /\ CallMirrored(c, n + 1)'
    BY <1>1, <1>3 DEF CallsMirrored
  <2>2. /\ e.type = "TOOL_CALL_START" =>
             DeservedByEvent(n + 1)' = StartDeserves(i, c, e.parentMessageId)
        /\ e.type = "TOOL_CALL_ARGS" =>
             DeservedByEvent(n + 1)' = OpenDeserves("AGUI201", i, c, e.subagentRunId)
        /\ e.type = "TOOL_CALL_END" =>
             DeservedByEvent(n + 1)' = OpenDeserves("AGUI202", i, c, e.subagentRunId)
        /\ e.type = "TOOL_CALL_RESULT" => DeservedByEvent(n + 1)' = ResultDeserves(i, c)
        /\ e.type = "TOOL_CALL_CHUNK" => DeservedByEvent(n + 1)' = ChunkDeserves(i, c, e.named)
    BY <1>3, <2>1, CallDeserves
  <2> QED BY <1>4, <2>2
<1>8. CASE ToolCallStart(e)
  <2>1. e.type = "TOOL_CALL_START" /\ EndFindings(i, e) = ToolChunkFindings(i)
    BY <1>8, EndFindingsBy DEF ToolCallStart
  <2>2. closedToolCalls' = ClosedOnceToolChunkEnds(i) /\ UNCHANGED knownMessageIds
    BY <1>8 DEF ToolCallStart, CloseToolChunkAndReport, sharedMessageVars
  <2>3. toolFound' = ToolChunkFindings(i) \cup
          (IF c = None THEN {} ELSE StartDeserves(i, c, e.parentMessageId))
    BY <1>2, <1>3, <1>5, <1>8, <2>2 DEF ToolCallStart, CloseToolChunkAndReport, StartDeserves
  <2> QED BY <1>4, <1>6, <1>7, <2>1, <2>3
<1>9. CASE ToolCallArgs(e)
  <2>1. e.type = "TOOL_CALL_ARGS" /\ EndFindings(i, e) = ToolChunkFindings(i)
    BY <1>9, EndFindingsBy DEF ToolCallArgs
  <2>2. toolFound' = ToolChunkFindings(i) \cup
          (IF c = None THEN {} ELSE OpenDeserves("AGUI201", i, c, e.subagentRunId))
    BY <1>2, <1>3, <1>5, <1>9 DEF ToolCallArgs, CloseToolChunkAndReport, OpenDeserves
  <2> QED BY <1>4, <1>6, <1>7, <2>1, <2>2
<1>10. CASE ToolCallEnd(e)
  <2>1. e.type = "TOOL_CALL_END"
    BY <1>10 DEF ToolCallEnd
  <2>2. EndFindings(i, e) =
          ToolChunkFindings(i)
          \cup (IF c \in DOMAIN openToolCalls
                THEN ArgsFindings(i, c, openToolCalls[c].args, openToolCalls[c].start) ELSE {})
    BY <1>3, <2>1, EndFindingsBy
  <2>3. toolFound' = EndFindings(i, e) \cup
          (IF c = None THEN {} ELSE OpenDeserves("AGUI202", i, c, e.subagentRunId))
    BY <1>2, <1>3, <1>5, <1>10, <2>2 DEF ToolCallEnd, CloseToolChunkAndReport, OpenDeserves
  <2> QED BY <1>4, <1>6, <1>7, <2>1, <2>3
<1>11. CASE ToolCallResult(e)
  <2>1. e.type = "TOOL_CALL_RESULT" /\ EndFindings(i, e) = ToolChunkFindings(i)
    BY <1>11, EndFindingsBy DEF ToolCallResult
  <2>2. closedToolCalls' = ClosedOnceToolChunkEnds(i) /\ UNCHANGED knownToolCallIds
    BY <1>11 DEF ToolCallResult, CloseToolChunkAndReport
  <2>3. toolFound' = ToolChunkFindings(i) \cup (IF c = None THEN {} ELSE ResultDeserves(i, c))
    BY <1>2, <1>3, <1>5, <1>11, <2>2 DEF ToolCallResult, CloseToolChunkAndReport, ResultDeserves
  <2> QED BY <1>4, <1>6, <1>7, <2>1, <2>3
<1>12. CASE ToolCallChunk(e)
  <2>1. /\ e.type = "TOOL_CALL_CHUNK"
        /\ EndFindings(i, e) = IF c \in {None, ChunkId} \cup DOMAIN openToolCalls
                               THEN {} ELSE ToolChunkFindings(i)
    BY <1>3, <1>12, EndFindingsBy DEF ToolCallChunk
  <2>2. D = IF c = None
            THEN IF toolChunk = None THEN {Finding("AGUI504", i, None, None)} ELSE {}
            ELSE ChunkDeserves(i, c, e.named)
    BY <1>6, <1>7, <2>1
  <2>3. /\ ChunkId \notin DOMAIN closedToolCalls
        /\ toolChunk # None => ChunkId = toolChunk.id
    BY DEF ToolInv, CallHasOneForm, ChunkId
  <2>4. CASE c = None /\ toolChunk = None /\ toolFound' = About("AGUI504", None, None)
    BY <1>4, <1>5, <2>1, <2>2, <2>4
  <2>5. CASE c \in DOMAIN openToolCalls /\ toolFound' = {}
    BY <1>2, <1>4, <2>1, <2>2, <2>5 DEF ChunkDeserves
  <2>6. CASE /\ toolChunk # None /\ c \in {None, toolChunk.id} /\ toolFound' = {}
             /\ UNCHANGED closedToolCalls
    BY <1>2, <1>4, <2>1, <2>2, <2>3, <2>6 DEF ChunkDeserves
  <2>7. CASE /\ c \in DOMAIN ClosedOnceToolChunkEnds(i) \ (DOMAIN openToolCalls \cup {ChunkId})
             /\ closedToolCalls' = ClosedOnceToolChunkEnds(i)
             /\ toolFound' = ToolChunkFindings(i)
                             \cup About("AGUI205", c, ClosedOnceToolChunkEnds(i)[c])
    BY <1>2, <1>4, <1>5, <2>1, <2>2, <2>7 DEF ChunkDeserves
  <2>8. CASE /\ c \in ToolCallIds \ (DOMAIN openToolCalls \cup DOMAIN ClosedOnceToolChunkEnds(i))
             /\ closedToolCalls' = ClosedOnceToolChunkEnds(i)
             /\ toolFound' = ToolChunkFindings(i)
                             \cup IF e.named THEN {} ELSE About("AGUI504", None, None)
    <3>1. c # ChunkId
      BY <1>2, <2>8, ChunkEndKeepsClosed, PositionType
    <3> QED BY <1>2, <1>4, <1>5, <2>1, <2>2, <2>8, <3>1 DEF ChunkDeserves
  <2> QED BY <1>3, <1>12, <2>4, <2>5, <2>6, <2>7, <2>8
          DEF ToolCallChunk, CloseToolChunkAndReport
<1> QED BY <1>8, <1>9, <1>10, <1>11, <1>12 DEF ToolEvent

\* What an input that is no tool call event deserves.
LEMMA OtherDeserves ==
  ASSUME NEW n, NEW i, NEW e, Grows(n, i, e), e.type \notin CallTypes,
         CallsMirrored(n + 1)', DOMAIN openToolCalls' \subseteq ToolCallIds
  PROVE  DeservedByEvent(n + 1)' =
           IF e.type \in {"RUN_FINISHED", "END_OF_STREAM"} THEN UnterminatedCalls(i)' ELSE {}
<1>1. log'[n + 1].event = e /\ log'[n + 1].at = i
  BY DEF Grows
<1>2. DeservedByEvent(n + 1)' =
        IF e.type \in {"RUN_FINISHED", "END_OF_STREAM"} THEN LeftOpen(i, n + 1)' ELSE {}
  BY <1>1 DEF DeservedByEvent, CallTypes
<1> DEFINE Debris(c) == AboutEach("AGUI203", i, c, IndicesOf(StartedAt(Call, c, n + 1)))'
<1>3. LeftOpen(i, n + 1)' = UNION {Debris(c) : c \in ToolCallIds}
  BY DEF LeftOpen
<1>4. ASSUME NEW c \in ToolCallIds
      PROVE  Debris(c) = IF c \in DOMAIN openToolCalls'
                         THEN {Finding("AGUI203", i, c, openToolCalls'[c].start)} ELSE {}
  <2>1. CallMirrored(c, n + 1)'
    BY DEF CallsMirrored
  <2>2. c \in DOMAIN openToolCalls' <=> StartedAt(Call, c, n + 1)' # {}
    BY <2>1 DEF CallMirrored
  <2>3. \A p \in StartedAt(Call, c, n + 1)' : openToolCalls'[c].start = log'[p].at
    <3> SUFFICES ASSUME NEW p \in StartedAt(Call, c, n + 1)'
                 PROVE  openToolCalls'[c].start = log'[p].at
      OBVIOUS
    <3>1. openToolCalls'[c] =
            [start |-> log'[p].at, args |-> ArgumentsOf(c, n + 1)', owner |-> OwnerOf(p)']
      BY <2>1 DEF CallMirrored
    <3> QED BY <3>1
  <2>4. Debris(c) =
          {Finding("AGUI203", i, c, k) : k \in {log'[p].at : p \in StartedAt(Call, c, n + 1)'}}
    BY DEF AboutEach, IndicesOf, Finding
  <2>5. {log'[p].at : p \in StartedAt(Call, c, n + 1)'} =
          IF c \in DOMAIN openToolCalls' THEN {openToolCalls'[c].start} ELSE {}
    BY <2>2, <2>3
  <2> QED BY <2>4, <2>5
<1> HIDE DEF Debris
<1>5. UNION {Debris(c) : c \in ToolCallIds} =
        {Finding("AGUI203", i, c, openToolCalls'[c].start) : c \in DOMAIN openToolCalls'}
  BY <1>4
<1>6. UnterminatedCalls(i)' =
        {Finding("AGUI203", i, c, openToolCalls'[c].start) : c \in DOMAIN openToolCalls'}
  BY DEF UnterminatedCalls, Finding
<1> QED BY <1>2, <1>3, <1>5, <1>6

-----------------------------------------------------------------------------
\* The dictionaries mirror the log, whose last entry is reported as it deserves.
ToolMirrored(n) == CallsMirrored(n) /\ SharedMirrored(n)

ToolDeserved(n) == DeservedAtEnds(n) \cup DeservedByEvent(n)

HistoryInv ==
  /\ ToolInv
  /\ IsLog(LoggedTool)
  /\ ToolMirrored(Len(log))
  /\ ToolFindingsExact

LEMMA HistoryStarts == HistoryInit => HistoryInv
<1> SUFFICES ASSUME HistoryInit PROVE HistoryInv
  OBVIOUS
<1>1. log = <<>> /\ Len(log) = 0 /\ ToolInit
  BY DEF HistoryInit
<1>2. ToolInv
  BY <1>1, ToolInitInv
<1>3. IsLog(LoggedTool)
  BY <1>1 DEF IsLog
<1>4. DOMAIN EmptyDict = {}
  BY EmptyDictType
<1>5. ASSUME NEW c \in ToolCallIds PROVE CallMirrored(c, 0)
  <2>1. Fresh(Call, c, 0)
    BY FormsStart
  <2> QED BY <1>1, <1>4, <2>1, ToolIdsAssumption DEF ToolInit, CallMirrored, Fresh, ChunkId
<1>6. RunPositions(0) = {}
  BY DEF RunPositions
<1>7. SharedMirrored(0)
  BY <1>1, <1>4, <1>6
     DEF ToolInit, SharedMirrored, OwnerMirrored, Sightings, KnownMessage, KnownCall
<1> QED BY <1>1, <1>2, <1>3, <1>5, <1>7
        DEF HistoryInv, ToolMirrored, CallsMirrored, ToolFindingsExact

LEMMA HistoryStands ==
  ASSUME HistoryInv, UNCHANGED historyVars
  PROVE  HistoryInv'
<1>1. /\ UNCHANGED <<log, toolVars>> /\ UNCHANGED <<knownToolCallIds, sharedMessageVars, toolFound>>
      /\ UNCHANGED <<openToolCalls, closedToolCalls, toolChunk>>
      /\ UNCHANGED <<knownMessageIds, messageOwner>>
  BY DEF historyVars, toolVars, toolCallVars, sharedMessageVars
<1>2. ToolInv'
  BY <1>1, ToolNextInv DEF HistoryInv
<1>3. IsLog(LoggedTool)'
  BY <1>1 DEF HistoryInv, IsLog
<1>4. ASSUME NEW n PROVE ToolMirrored(n)' <=> ToolMirrored(n)
  BY <1>1 DEF ToolMirrored, CallsMirrored, SharedMirrored, CallMirrored, OwnerMirrored,
              Sightings, KnownMessage, KnownCall, ArgumentsOf, Deltas, Additions, Extends, OwnerOf,
              ChunkId, StartedAt, StreamedAt, ClosedAt, Closers, EndsForm, EndsStreamOf, Started,
              IntroducedAt, Introducers, NamedAt, Judges, TypeAt, RunPositions, First, Latest, The, Nth
<1>5. ASSUME NEW n PROVE ToolDeserved(n)' = ToolDeserved(n)
  BY <1>1 DEF ToolDeserved, DeservedAtEnds, DeservedByEvent, OfArguments, OfCall, LeftOpen,
              Malformed, AboutEach, Disowned, IndicesOf,
              Sightings, KnownMessage, KnownCall, ArgumentsOf, Deltas, Additions, Extends, OwnerOf,
              StartedAt, StreamedAt, ClosedAt, Closers, EndsForm, EndsStreamOf, Started,
              IntroducedAt, Introducers, NamedAt, Judges, TypeAt, RunPositions, First, Latest, The, Nth
<1>6. Len(log') = Len(log)
  BY <1>1
<1> QED BY <1>1, <1>2, <1>3, <1>4, <1>5, <1>6 DEF HistoryInv, ToolFindingsExact, ToolDeserved

\* The mirror and the findings after an entry that is no tool call event and begins no run.
LEMMA OtherTold ==
  ASSUME ToolInv, ToolInv', IsLog(LoggedTool), NEW n, NEW i \in Indices, NEW e \in LoggedTool,
         Grows(n, i, e), ToolMirrored(n), e.type \notin CallTypes, e.type # "RUN_STARTED",
         \A c \in ToolCallIds : CallMoves(c, i, e), SharedMoves(e), UNCHANGED openToolCalls,
         toolFound' = EndFindings(i, e)
                      \cup IF e.type \in {"RUN_FINISHED", "END_OF_STREAM"}
                           THEN UnterminatedCalls(i) ELSE {}
  PROVE  ToolMirrored(n + 1)' /\ toolFound' = ToolDeserved(n + 1)'
<1>1. CallsMirrored(n + 1)' /\ SharedMirrored(n + 1)'
  BY CallMirrorGrows, SharedMirrorGrows DEF ToolMirrored, CallsMirrored
<1>2. DeservedAtEnds(n + 1)' = EndFindings(i, e)
  BY EndsTold DEF ToolMirrored
<1>3. DOMAIN openToolCalls' \subseteq ToolCallIds
  BY CallType
<1>4. UnterminatedCalls(i)' = UnterminatedCalls(i)
  BY DEF UnterminatedCalls, Finding
<1>5. DeservedByEvent(n + 1)' =
        IF e.type \in {"RUN_FINISHED", "END_OF_STREAM"} THEN UnterminatedCalls(i)' ELSE {}
  BY <1>1, <1>3, OtherDeserves
<1> QED BY <1>1, <1>2, <1>4, <1>5 DEF ToolMirrored, ToolDeserved

\* A step that closes the chunk stream, logged as something else than a tool call event.
LEMMA ClosingTold ==
  ASSUME ToolInv, ToolInv', IsLog(LoggedTool), NEW n, NEW i \in Indices, NEW e \in LoggedTool,
         Grows(n, i, e), ToolMirrored(n),
         e.type \notin CallTypes \cup {"UNJUDGED", "END_AFTER_RUN", "RUN_STARTED"},
         SharedMoves(e), UNCHANGED openToolCalls, NEW findings,
         CloseToolChunkAndReport(i, findings),
         findings = IF e.type \in {"RUN_FINISHED", "END_OF_STREAM"}
                    THEN UnterminatedCalls(i) ELSE {}
  PROVE  ToolMirrored(n + 1)' /\ toolFound' = ToolDeserved(n + 1)'
<1>1. /\ closedToolCalls' = ClosedOnceToolChunkEnds(i) /\ toolChunk' = None
      /\ toolFound' = ToolChunkFindings(i) \cup findings
  BY DEF CloseToolChunkAndReport
<1>2. EndFindings(i, e) = ToolChunkFindings(i)
  BY EndFindingsBy DEF CallTypes
<1>3. ASSUME NEW c \in ToolCallIds PROVE CallMoves(c, i, e)
  <2>1. EndsCallStream(e, c, DOMAIN openToolCalls) /\ ~ NamesFirst(e, c)
    BY DEF EndsCallStream, NamesFirst, CallTypes
  <2>2. e.type \notin {"TOOL_CALL_ARGS", "TOOL_CALL_CHUNK", "TOOL_CALL_END"}
    BY DEF CallTypes
  <2> QED BY <1>1, <2>1, <2>2, ClosingMoves
<1> QED BY <1>1, <1>2, <1>3, OtherTold

\* A step that leaves the calls alone.
LEMMA StandingTold ==
  ASSUME ToolInv, ToolInv', IsLog(LoggedTool), NEW n, NEW i \in Indices, NEW e \in LoggedTool,
         Grows(n, i, e), ToolMirrored(n), e.type \in {"UNJUDGED", "END_AFTER_RUN"},
         UNCHANGED <<toolCallVars, knownToolCallIds, sharedMessageVars>>, toolFound' = {}
  PROVE  ToolMirrored(n + 1)' /\ toolFound' = ToolDeserved(n + 1)'
<1>1. e.type \notin CallTypes /\ e.type # "RUN_STARTED"
  BY DEF CallTypes
<1>2. UNCHANGED openToolCalls /\ SharedMoves(e)
  BY SharedStand DEF toolCallVars
<1>3. ASSUME NEW c \in ToolCallIds PROVE CallMoves(c, i, e)
  <2>1. ~ EndsCallStream(e, c, DOMAIN openToolCalls)
    BY DEF EndsCallStream
  <2> QED BY <1>1, <2>1, StandingMoves
<1>4. EndFindings(i, e) = {}
  BY EndFindingsBy
<1> QED BY <1>1, <1>2, <1>3, <1>4, OtherTold

\* A new run has no call and knows no id.
LEMMA NewRunTold ==
  ASSUME ToolInv', NEW n, NEW i, NEW e, Grows(n, i, e), e = Mark("RUN_STARTED"), ToolNewRun
  PROVE  ToolMirrored(n + 1)' /\ toolFound' = ToolDeserved(n + 1)'
<1>1. e.type = "RUN_STARTED" /\ e.type \notin CallTypes
  BY DEF Mark, CallTypes
<1>2. DOMAIN EmptyDict = {}
  BY EmptyDictType
<1>3. ASSUME NEW c \in ToolCallIds PROVE CallMirrored(c, n + 1)'
  <2>1. Fresh(Call, c, n + 1)'
    BY <1>1, CallNames, FormsRenewed
  <2>2. DOMAIN openToolCalls' = {} /\ DOMAIN closedToolCalls' = {} /\ ChunkId' # c
    BY <1>2, ToolIdsAssumption DEF ToolNewRun, ChunkId
  <2> QED BY <2>1, <2>2 DEF CallMirrored, Fresh
<1>4. SharedMirrored(n + 1)'
  <2>1. ASSUME NEW m \in MessageIds PROVE OwnerMirrored(m, n + 1)'
    <3>1. Sightings(m, n + 1)' = {}
      BY <1>1, SightingsGrow
    <3> QED BY <1>2, <3>1 DEF ToolNewRun, OwnerMirrored
  <2>2. (\A m : ~ KnownMessage(m, n + 1)') /\ (\A c : ~ KnownCall(c, n + 1)')
    BY <1>1, KnownGrows
  <2> QED BY <2>1, <2>2 DEF SharedMirrored, ToolNewRun
<1>5. DeservedAtEnds(n + 1)' = {}
  BY <1>1, NoEndAtNewRun
<1>6. DeservedByEvent(n + 1)' = {}
  <2>1. CallsMirrored(n + 1)' /\ DOMAIN openToolCalls' \subseteq ToolCallIds
    BY <1>2, <1>3 DEF CallsMirrored, ToolNewRun
  <2> QED BY <1>1, <2>1, OtherDeserves
<1> QED BY <1>3, <1>4, <1>5, <1>6 DEF ToolMirrored, CallsMirrored, ToolDeserved, ToolNewRun

-----------------------------------------------------------------------------
\* What one step of the history does, for the index and the event it logs.
HistoryStep(i, e) ==
  \/ e \in ToolInputs /\ ToolEvent(e) /\ i = eventCount
  \/ \E seen \in SeenMessages :
       /\ ToolElsewhere /\ UNCHANGED knownToolCallIds /\ SeeMessage(seen[1], seen[2])
       /\ i = eventCount /\ e = Seen(seen[1], seen[2])
  \/ /\ ToolElsewhere /\ UNCHANGED <<knownToolCallIds, sharedMessageVars>>
     /\ i = eventCount /\ e = Mark("OTHER")
  \/ \E history \in Histories :
       /\ MessagesSnapshot(history[1], history[2]) /\ UNCHANGED messageOwner
       /\ i = eventCount /\ e = History(history[1], history[2])
  \/ ToolUnjudged /\ i = eventCount /\ e = Mark("UNJUDGED")
  \/ ToolNewRun /\ i = eventCount /\ e = Mark("RUN_STARTED")
  \/ \E type \in TerminalTypes : ToolEnds(type) /\ i = eventCount /\ e = Mark(type)
  \/ ToolFinalize /\ i = AtEndOfStream /\ e = EndOfStreamMark

\* A tool call event.
LEMMA CallEventTold ==
  ASSUME ToolInv, ToolInv', IsLog(LoggedTool), NEW n, NEW i \in Indices, NEW e \in LoggedTool,
         Grows(n, i, e), ToolMirrored(n), e \in ToolInputs, ToolEvent(e), i = eventCount
  PROVE  ToolMirrored(n + 1)' /\ toolFound' = ToolDeserved(n + 1)'
<1>1. e \in ToolEvents
  BY ToolInputsAssumption
<1>2. e.type # "RUN_STARTED"
  BY DEF ToolEvent, ToolCallStart, ToolCallArgs, ToolCallEnd, ToolCallResult, ToolCallChunk
<1>3. \A c \in ToolCallIds : CallMoves(c, i, e)
  BY <1>1, CallStartMoves, CallArgsMoves, CallEndMoves, CallResultMoves, CallChunkMoves
     DEF ToolEvent
<1>4. SharedMoves(e)
  BY <1>1, ToolEventShares
<1>5. CallsMirrored(n) /\ SharedMirrored(n)
  BY DEF ToolMirrored
<1>6. CallsMirrored(n + 1)'
  BY <1>2, <1>3, <1>5, CallMirrorGrows DEF CallsMirrored
<1>7. SharedMirrored(n + 1)'
  BY <1>2, <1>4, <1>5, SharedMirrorGrows
<1>8. DeservedAtEnds(n + 1)' = EndFindings(i, e)
  BY <1>2, <1>5, EndsTold
<1>9. toolFound' = EndFindings(i, e) \cup DeservedByEvent(n + 1)'
  BY <1>5, <1>6, <1>7, ToolEventTold
<1> QED BY <1>6, <1>7, <1>8, <1>9 DEF ToolMirrored, ToolDeserved

LEMMA HistoryTold ==
  ASSUME ToolInv, ToolInv', IsLog(LoggedTool), NEW n, NEW i \in Indices, NEW e \in LoggedTool,
         Grows(n, i, e), ToolMirrored(n), HistoryStep(i, e)
  PROVE  ToolMirrored(n + 1)' /\ toolFound' = ToolDeserved(n + 1)'
<1> DEFINE Told == ToolMirrored(n + 1)' /\ toolFound' = ToolDeserved(n + 1)'
<1>1. CASE e \in ToolInputs /\ ToolEvent(e) /\ i = eventCount
  BY <1>1, CallEventTold
<1>2. ASSUME NEW m, NEW owner, ToolElsewhere, UNCHANGED knownToolCallIds,
             SeeMessage(m, owner), i = eventCount, e = Seen(m, owner)
      PROVE  Told
  <2>1. e.type \notin CallTypes \cup {"UNJUDGED", "END_AFTER_RUN", "RUN_STARTED",
                                      "RUN_FINISHED", "END_OF_STREAM"}
    BY <1>2 DEF Seen, CallTypes
  <2>2. SharedMoves(e)
    BY <1>2, SeenShares
  <2>3. CloseToolChunkAndReport(i, {}) /\ UNCHANGED openToolCalls
    BY <1>2 DEF ToolElsewhere
  <2> QED BY <2>1, <2>2, <2>3, ClosingTold
<1>3. CASE /\ ToolElsewhere /\ UNCHANGED <<knownToolCallIds, sharedMessageVars>>
           /\ i = eventCount /\ e = Mark("OTHER")
  <2>1. e.type \notin CallTypes \cup {"UNJUDGED", "END_AFTER_RUN", "RUN_STARTED",
                                      "RUN_FINISHED", "END_OF_STREAM"}
    BY <1>3 DEF Mark, CallTypes
  <2>2. SharedMoves(e)
    <3>1. e.type = "OTHER"
      BY <1>3 DEF Mark
    <3> QED BY <1>3, <3>1, SharedStand
  <2>3. CloseToolChunkAndReport(i, {}) /\ UNCHANGED openToolCalls
    BY <1>3 DEF ToolElsewhere
  <2> QED BY <2>1, <2>2, <2>3, ClosingTold
<1>4. ASSUME NEW messages, NEW calls, MessagesSnapshot(messages, calls),
             UNCHANGED messageOwner, i = eventCount, e = History(messages, calls)
      PROVE  Told
  <2>1. e.type \notin CallTypes \cup {"UNJUDGED", "END_AFTER_RUN", "RUN_STARTED",
                                      "RUN_FINISHED", "END_OF_STREAM"}
    BY <1>4 DEF History, CallTypes
  <2>2. SharedMoves(e)
    BY <1>4, HistoryShares
  <2>3. CloseToolChunkAndReport(i, {}) /\ UNCHANGED openToolCalls
    BY <1>4 DEF MessagesSnapshot, ToolElsewhere
  <2> QED BY <2>1, <2>2, <2>3, ClosingTold
<1>5. CASE ToolUnjudged /\ e = Mark("UNJUDGED")
  <2>1. e.type \in {"UNJUDGED", "END_AFTER_RUN"}
    BY <1>5 DEF Mark
  <2>2. UNCHANGED <<toolCallVars, knownToolCallIds, sharedMessageVars>> /\ toolFound' = {}
    BY <1>5 DEF ToolUnjudged
  <2> QED BY <2>1, <2>2, StandingTold
<1>6. CASE ToolNewRun /\ e = Mark("RUN_STARTED")
  BY <1>6, NewRunTold
<1>7. ASSUME NEW type \in TerminalTypes, ToolEnds(type), i = eventCount, e = Mark(type)
      PROVE  Told
  <2>1. /\ e.type = type
        /\ e.type \notin CallTypes \cup {"UNJUDGED", "END_AFTER_RUN", "RUN_STARTED",
                                         "END_OF_STREAM"}
        /\ e.type \notin {"MESSAGE", "MESSAGES_SNAPSHOT", "TOOL_CALL_RESULT"}
    BY <1>7 DEF Mark, CallTypes, TerminalTypes
  <2>2. UNCHANGED openToolCalls /\ UNCHANGED <<knownToolCallIds, sharedMessageVars>>
    BY <1>7 DEF ToolEnds
  <2>3. SharedMoves(e)
    BY <2>1, <2>2, SharedStand
  <2>4. PICK findings :
          findings = IF type = "RUN_FINISHED" THEN UnterminatedCalls(i) ELSE {}
    OBVIOUS
  <2>5. CloseToolChunkAndReport(i, findings)
    BY <1>7, <2>4 DEF ToolEnds
  <2> QED BY <2>1, <2>2, <2>3, <2>4, <2>5, ClosingTold
<1>8. CASE ToolFinalize /\ i = AtEndOfStream /\ e = EndOfStreamMark
  <2>1. UNCHANGED openToolCalls /\ UNCHANGED <<knownToolCallIds, sharedMessageVars>>
    BY <1>8 DEF ToolFinalize
  <2>2. CASE terminal = None
    <3>1. /\ e.type = "END_OF_STREAM"
          /\ e.type \notin CallTypes \cup {"UNJUDGED", "END_AFTER_RUN", "RUN_STARTED"}
      BY <1>8, <2>2 DEF EndOfStreamMark, Mark, CallTypes
    <3>2. SharedMoves(e)
      BY <2>1, <3>1, SharedStand
    <3>3. CloseToolChunkAndReport(i, UnterminatedCalls(i))
      BY <1>8, <2>2 DEF ToolFinalize
    <3> QED BY <2>1, <3>1, <3>2, <3>3, ClosingTold
  <2>3. CASE terminal # None
    <3>1. e.type \in {"UNJUDGED", "END_AFTER_RUN"}
      BY <1>8, <2>3 DEF EndOfStreamMark, Mark
    <3>2. UNCHANGED <<toolCallVars, knownToolCallIds, sharedMessageVars>> /\ toolFound' = {}
      BY <1>8, <2>1, <2>3 DEF ToolFinalize, toolCallVars
    <3> QED BY <3>1, <3>2, StandingTold
  <2> QED BY <2>2, <2>3
<1> QED BY <1>1, <1>2, <1>3, <1>4, <1>5, <1>6, <1>7, <1>8 DEF HistoryStep

LEMMA HistoryGrows ==
  ASSUME HistoryInv, HistoryNext
  PROVE  HistoryInv'
<1>1. ToolInv /\ ScopeTypeOK /\ IsLog(LoggedTool) /\ ToolMirrored(Len(log))
  BY DEF HistoryInv, ToolInv, ToolTypeOK
<1>2. [ToolNext]_toolVars
  BY DEF HistoryNext, ToolNext
<1>3. ToolInv'
  BY <1>1, <1>2, ToolNextInv
<1>4. PICK i \in Indices, e \in LoggedTool : Logs(i, e) /\ HistoryStep(i, e)
  <2>1. eventCount \in Indices /\ AtEndOfStream \in Indices
    BY <1>1 DEF ScopeTypeOK, Indices
  <2>2. /\ ToolInputs \subseteq LoggedTool /\ EndOfStreamMark \in LoggedTool
        /\ \A kind \in TerminalTypes \cup {"OTHER", "UNJUDGED", "RUN_STARTED"} :
             Mark(kind) \in LoggedTool
    BY DEF LoggedTool, EndOfStreamMark
  <2>3. ASSUME NEW seen \in SeenMessages, ToolElsewhere, UNCHANGED knownToolCallIds,
               SeeMessage(seen[1], seen[2]), Logs(eventCount, Seen(seen[1], seen[2]))
        PROVE  \E i \in Indices, e \in LoggedTool : Logs(i, e) /\ HistoryStep(i, e)
    <3>1. seen[1] \in MessageIds /\ seen[2] \in Tags
      BY SeenMessagesAssumption
    <3>2. Seen(seen[1], seen[2]) \in LoggedTool
      BY <3>1 DEF LoggedTool
    <3>3. HistoryStep(eventCount, Seen(seen[1], seen[2]))
      BY <2>3 DEF HistoryStep
    <3> QED BY <2>1, <2>3, <3>2, <3>3
  <2>4. ASSUME NEW history \in Histories, MessagesSnapshot(history[1], history[2]),
               UNCHANGED messageOwner, Logs(eventCount, History(history[1], history[2]))
        PROVE  \E i \in Indices, e \in LoggedTool : Logs(i, e) /\ HistoryStep(i, e)
    <3>1. history[1] \in SUBSET MessageIds /\ history[2] \in SUBSET ToolCallIds
      BY HistoriesAssumption
    <3>2. History(history[1], history[2]) \in LoggedTool
      BY <3>1 DEF LoggedTool
    <3>3. HistoryStep(eventCount, History(history[1], history[2]))
      BY <2>4 DEF HistoryStep
    <3> QED BY <2>1, <2>4, <3>2, <3>3
  <2>5. CASE \E e \in ToolInputs : ToolEvent(e) /\ Logs(eventCount, e)
    BY <2>1, <2>2, <2>5 DEF HistoryStep
  <2>6. CASE /\ ToolElsewhere /\ UNCHANGED <<knownToolCallIds, sharedMessageVars>>
             /\ Logs(eventCount, Mark("OTHER"))
    BY <2>1, <2>2, <2>6 DEF HistoryStep
  <2>7. CASE ToolUnjudged /\ Logs(eventCount, Mark("UNJUDGED"))
    BY <2>1, <2>2, <2>7 DEF HistoryStep
  <2>8. CASE ToolNewRun /\ Logs(eventCount, Mark("RUN_STARTED"))
    BY <2>1, <2>2, <2>8 DEF HistoryStep
  <2>9. CASE \E type \in TerminalTypes : ToolEnds(type) /\ Logs(eventCount, Mark(type))
    BY <2>1, <2>2, <2>9 DEF HistoryStep
  <2>10. CASE ToolFinalize /\ Logs(AtEndOfStream, EndOfStreamMark)
    BY <2>1, <2>2, <2>10 DEF HistoryStep
  <2> QED BY <2>3, <2>4, <2>5, <2>6, <2>7, <2>8, <2>9, <2>10 DEF HistoryNext, Seen, History
<1>5. PICK n : Grows(n, i, e)
  BY <1>1, <1>4, NextEntry
<1>6. IsLog(LoggedTool)'
  BY <1>1, <1>4, LogGrows
<1>7. Len(log) = n /\ Len(log') = n + 1
  BY <1>5 DEF Grows
<1>8. ToolMirrored(n + 1)' /\ toolFound' = ToolDeserved(n + 1)'
  BY <1>1, <1>3, <1>4, <1>5, <1>7, HistoryTold
<1> QED BY <1>3, <1>6, <1>7, <1>8 DEF HistoryInv, ToolFindingsExact, ToolDeserved

LEMMA HistoryInvariant == HistorySpec => []HistoryInv
<1>1. HistoryInv /\ [HistoryNext]_historyVars => HistoryInv'
  BY HistoryStands, HistoryGrows
<1> QED BY <1>1, HistoryStarts, PTL DEF HistorySpec

\* For any stream, any ids, any fragments and any bound, the rules of tool calls report
\* every input exactly as the stream up to it deserves, the arguments judged included.
THEOREM ToolExact == HistorySpec => []ToolFindingsExact
<1>1. HistoryInv => ToolFindingsExact
  BY DEF HistoryInv
<1> QED BY <1>1, HistoryInvariant, PTL

\* For any stream, the calls the engine holds open are those the whole stream says are
\* open, each with the start, the owner and the arguments the stream gave it.
THEOREM OpenCallsTold == HistorySpec => []OpenCallsExact
<1>1. HistoryInv => OpenCallsExact
  <2> SUFFICES ASSUME HistoryInv, NEW c \in ToolCallIds
               PROVE  /\ c \in DOMAIN openToolCalls <=> Started(Call, c, Len(log))
                      /\ \A p \in StartedAt(Call, c, Len(log)) :
                           openToolCalls[c] = [start |-> log[p].at,
                                               args |-> ArgumentsOf(c, Len(log)),
                                               owner |-> OwnerOf(p)]
    BY DEF OpenCallsExact
  <2>1. CallMirrored(c, Len(log))
    BY DEF HistoryInv, ToolMirrored, CallsMirrored
  <2> QED BY <2>1 DEF CallMirrored, Started
<1> QED BY <1>1, HistoryInvariant, PTL

\* The log only watches: every stream is a behaviour of the tool call component, so that
\* what is proved of the one holds of the other.
THEOREM HistoryImplementsTools == HistorySpec => ToolSpec
<1>1. HistoryInit => ToolInit
  BY DEF HistoryInit
<1>2. [HistoryNext]_historyVars => [ToolNext]_toolVars
  BY DEF HistoryNext, ToolNext, historyVars
<1> QED BY <1>1, <1>2, PTL DEF HistorySpec, ToolSpec

=============================================================================
