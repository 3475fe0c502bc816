--------------------------- MODULE Command_proofs ---------------------------
(***************************************************************************)
(* Theorems about RunLifecycle and the two layers over it, Transport and   *)
(* Command, for any ids, payloads, command lines, listeners and bounds.    *)
(***************************************************************************)
EXTENDS Command, LifecycleHistory, RunScopeTheorems, SequenceTheorems

-----------------------------------------------------------------------------
(* The run lifecycle.                                                       *)

\* The inductive invariant: a run that ended began no later than it ended, and
\* what began an implicit run was reported.
LifecycleInv == RunTypeOK /\ TerminalFollowsStart

-----------------------------------------------------------------------------
\* A diagnostic built from the rules, fields and indices of the type is legal.
LEMMA NoteType ==
  ASSUME NEW rule \in {"AGUI001", "AGUI002", "AGUI003", "AGUI004", "AGUI005", "AGUI008",
                       "AGUI502", "AGUI503", "AGUI504", "AGUI901", "AGUI902", "AGUI903"},
         NEW at \in Indices, NEW id \in {None, "type", "timestamp", "runId", "threadId"},
         NEW related \in Nat \cup {None}
  PROVE  Finding(rule, at, id, related) \in LifecycleFindings
BY DEF Finding, LifecycleFindings

\* The findings on a single event are legal, whatever the event.
LEMMA EventFindingsType ==
  ASSUME eventCount \in Nat, NEW e
  PROVE  /\ SchemaFindings(e) \subseteq LifecycleFindings
         /\ OpeningFindings \subseteq LifecycleFindings
         /\ Advice(e) \subseteq LifecycleFindings
<1>1. eventCount \in Indices
  BY DEF Indices
<1>2. ASSUME NEW field \in {"timestamp", "runId", "threadId"}
      PROVE  Note("AGUI504", field, None) \subseteq LifecycleFindings
  BY <1>1, NoteType DEF Note
<1>3. SchemaFindings(e) \subseteq LifecycleFindings
  BY <1>2 DEF SchemaFindings
<1>4. OpeningFindings \subseteq LifecycleFindings
  BY <1>1, NoteType DEF OpeningFindings, Note
<1>5. Advice(e) \subseteq LifecycleFindings
  BY <1>1, NoteType DEF Advice, Note
<1> QED BY <1>3, <1>4, <1>5

\* Inputs that no run judges leave the run alone.
LEMMA TurnedAwayPreserves ==
  ASSUME LifecycleInv, NEW e \in StreamInputs,
         Unreadable(e) \/ UnknownType(e) \/ AfterTerminal(e)
  PROVE  LifecycleInv'
<1> USE DEF LifecycleInv, RunTypeOK
<1>1. eventCount \in Nat /\ eventCount \in Indices
  BY DEF ScopeTypeOK, Indices
<1>2. /\ Unjudged
      /\ UNCHANGED <<run, agui001Fired>>
      /\ sawTimestamp' \in BOOLEAN
  BY DEF Unreadable, UnknownType, AfterTerminal, Observes
<1>3. lifecycleFound' \subseteq LifecycleFindings
  <2>1. CASE Unreadable(e)
    BY <1>1, <2>1, NoteType DEF Unreadable, Note
  <2>2. CASE UnknownType(e)
    <3>1. Note("AGUI503", None, None) \subseteq LifecycleFindings
      BY <1>1, NoteType DEF Note
    <3> QED BY <1>1, <2>2, <3>1, EventFindingsType DEF UnknownType
  <2>3. CASE AfterTerminal(e)
    <3>1. terminal.index \in Nat
      BY <2>3 DEF AfterTerminal, ScopeTypeOK
    <3>2. ASSUME NEW rule \in {"AGUI004", "AGUI005"}
          PROVE  Note(rule, None, terminal.index) \subseteq LifecycleFindings
      BY <1>1, <3>1, NoteType DEF Note
    <3> QED BY <1>1, <2>3, <3>2, EventFindingsType DEF AfterTerminal
  <2> QED BY <2>1, <2>2, <2>3
<1>4. ScopeTypeOK'
  BY <1>2, ScopePreserved
<1>5. eventCount' = eventCount + 1 /\ UNCHANGED terminal
  BY <1>2 DEF Unjudged, Fed
<1>6. TerminalFollowsStart'
  BY <1>1, <1>2, <1>5 DEF TerminalFollowsStart, Runs, ScopeTypeOK
<1> QED BY <1>2, <1>3, <1>4, <1>6

LEMMA RunStartedPreserves ==
  ASSUME LifecycleInv, NEW e \in StreamInputs, RunStarted(e)
  PROVE  LifecycleInv'
<1> USE DEF LifecycleInv, RunTypeOK
<1>1. eventCount \in Nat /\ eventCount \in Indices
  BY DEF ScopeTypeOK, Indices
<1>2. /\ e.runId \in RunIds \cup {None}
      /\ e.threadId \in ThreadIds \cup {None}
  BY StreamInputsAssumption
     DEF RunStarted, UnreadableInputs, UnknownEvents, RunEvents, NotedEvents
<1>3. /\ ScopeTypeOK'
      /\ eventCount' = eventCount + 1
      /\ terminal' = None
      /\ sawTimestamp' \in BOOLEAN
      /\ UNCHANGED agui001Fired
  BY ScopePreserved DEF RunStarted, Judged, NewRun, Fed, Observes
<1>4. CASE run' = Announced(e) /\ lifecycleFound' = SchemaFindings(e)
  <2>1. /\ run' \in Runs
        /\ run'.start = eventCount /\ ~run'.implicit
    BY <1>1, <1>2, <1>4 DEF Announced, Runs
  <2>2. TerminalFollowsStart'
    BY <1>1, <1>3, <2>1 DEF TerminalFollowsStart
  <2> QED BY <1>1, <1>3, <1>4, <2>1, <2>2, EventFindingsType
<1>5. CASE run # None /\ run' = Legitimized(e) /\ lifecycleFound' = SchemaFindings(e)
  <2>1. /\ run' \in Runs
        /\ run'.start = run.start /\ ~run'.implicit
    BY <1>2, <1>5 DEF Legitimized, Runs
  <2>2. TerminalFollowsStart'
    BY <1>1, <1>3, <1>5, <2>1 DEF TerminalFollowsStart, Runs
  <2> QED BY <1>1, <1>3, <1>5, <2>1, <2>2, EventFindingsType
<1>6. CASE /\ run # None /\ UNCHANGED run
           /\ lifecycleFound' = SchemaFindings(e) \cup Note("AGUI002", None, run.start)
  <2>1. Note("AGUI002", None, run.start) \subseteq LifecycleFindings
    BY <1>1, <1>6, NoteType DEF Note, Runs
  <2>2. TerminalFollowsStart'
    BY <1>1, <1>3, <1>6 DEF TerminalFollowsStart, Runs
  <2> QED BY <1>1, <1>3, <1>6, <2>1, <2>2, EventFindingsType
<1> QED BY <1>4, <1>5, <1>6 DEF RunStarted

\* An event that is judged belongs to a run, the implicit one if none was
\* announced.
LEMMA EnsuresRunType ==
  ASSUME LifecycleInv, EnsuresRun
  PROVE  /\ run' \in Runs
         /\ run' # None
         /\ run'.start <= eventCount
         /\ run'.implicit => agui001Fired'
         /\ agui001Fired' \in BOOLEAN
<1> USE DEF LifecycleInv, RunTypeOK
<1>1. eventCount \in Nat
  BY DEF ScopeTypeOK
<1>2. CASE run = None
  <2>1. run' = [runId |-> None, threadId |-> None, start |-> eventCount, implicit |-> TRUE]
    BY <1>2 DEF EnsuresRun
  <2>2. agui001Fired' = TRUE
    BY <1>2 DEF EnsuresRun
  <2>3. run' \in Runs
    BY <1>1, <2>1 DEF Runs
  <2>4. run'.start = eventCount
    BY <2>1
  <2> QED BY <1>1, <2>2, <2>3, <2>4, NoRunAssumption
<1>3. CASE run # None
  BY <1>1, <1>3 DEF EnsuresRun, TerminalFollowsStart, Runs
<1> QED BY <1>2, <1>3

LEMMA JudgedPreserves ==
  ASSUME LifecycleInv, NEW e \in StreamInputs, RunEnds(e) \/ OrdinaryEvent(e)
  PROVE  LifecycleInv'
<1> USE DEF LifecycleInv, RunTypeOK
<1>1. eventCount \in Nat /\ eventCount \in Indices
  BY DEF ScopeTypeOK, Indices
<1>2. EnsuresRun /\ sawTimestamp' \in BOOLEAN
  BY DEF RunEnds, OrdinaryEvent, Observes
<1>3. ScopeTypeOK'
  BY ScopePreserved DEF RunEnds, OrdinaryEvent
<1>4. UnstableIds(e) \subseteq LifecycleFindings
  <2>1. run'.start \in Nat
    BY <1>2, EnsuresRunType DEF Runs
  <2>2. ASSUME NEW field \in {"runId", "threadId"}
        PROVE  Note("AGUI008", field, run'.start) \subseteq LifecycleFindings
    BY <1>1, <2>1, NoteType DEF Note
  <2> QED BY <2>2 DEF UnstableIds
<1>5. lifecycleFound' \subseteq LifecycleFindings
  BY <1>1, <1>4, EventFindingsType DEF RunEnds, OrdinaryEvent
<1>6. TerminalFollowsStart'
  <2>1. /\ eventCount' = eventCount + 1
        /\ terminal' = None \/ terminal' = [type |-> e.type, index |-> eventCount]
    BY DEF RunEnds, OrdinaryEvent, Ends, Judged, Fed
  <2>2. terminal' # None => terminal'.index = eventCount
    BY <2>1
  <2> QED BY <1>1, <1>2, <2>1, <2>2, EnsuresRunType DEF TerminalFollowsStart, Runs
<1> QED BY <1>2, <1>3, <1>5, <1>6, EnsuresRunType

LEMMA FinalizePreserves ==
  ASSUME LifecycleInv, LifecycleFinalize
  PROVE  LifecycleInv'
<1> USE DEF LifecycleInv, RunTypeOK
<1>1. AtEndOfStream \in Indices
  BY DEF Indices
<1>2. ScopeTypeOK'
  BY ScopePreserved DEF LifecycleFinalize
<1>3. lifecycleFound' \subseteq LifecycleFindings
  <2>1. UnterminatedRun \subseteq LifecycleFindings
    BY <1>1, NoteType DEF UnterminatedRun, Runs
  <2>2. Finding("AGUI902", AtEndOfStream, None, None) \in LifecycleFindings
    BY <1>1, NoteType
  <2> QED BY <2>1, <2>2 DEF LifecycleFinalize
<1>4. UNCHANGED <<run, agui001Fired, sawTimestamp, eventCount, terminal>>
  BY DEF LifecycleFinalize, Finalizes
<1> QED BY <1>2, <1>3, <1>4 DEF TerminalFollowsStart

-----------------------------------------------------------------------------
LEMMA LifecycleStarts == LifecycleInit => LifecycleInv
<1> SUFFICES ASSUME LifecycleInit PROVE LifecycleInv
  OBVIOUS
<1>1. RunTypeOK
  BY DEF LifecycleInit, ScopeInit, RunTypeOK, ScopeTypeOK
<1>2. TerminalFollowsStart
  BY DEF LifecycleInit, ScopeInit, TerminalFollowsStart
<1> QED BY <1>1, <1>2 DEF LifecycleInv

\* The inductive invariant holds in every reachable state.
THEOREM LifecycleInvariant == LifecycleSpec => []LifecycleInv
<1>1. LifecycleInit => LifecycleInv
  BY LifecycleStarts
<1>2. LifecycleInv /\ [LifecycleNext]_lifecycleVars => LifecycleInv'
  <2> SUFFICES ASSUME LifecycleInv, [LifecycleNext]_lifecycleVars PROVE LifecycleInv'
    OBVIOUS
  <2>1. CASE UNCHANGED lifecycleVars
    BY <2>1 DEF lifecycleVars, scopeVars, LifecycleInv, RunTypeOK, ScopeTypeOK,
                TerminalFollowsStart
  <2> QED BY <2>1, TurnedAwayPreserves, RunStartedPreserves, JudgedPreserves,
             FinalizePreserves DEF LifecycleNext, StreamInput
<1> QED BY <1>1, <1>2, PTL DEF LifecycleSpec

\* Type correctness of the run scope and of what the lifecycle rules report.
THEOREM RunTypeCorrect == LifecycleSpec => []RunTypeOK
<1>1. LifecycleInv => RunTypeOK
  BY DEF LifecycleInv
<1> QED BY <1>1, LifecycleInvariant, PTL

\* For any stream, a terminal event belongs to a run that began no later, a run
\* began at an event that was fed, and an implicit run was reported.
THEOREM TerminalsFollowStarts == LifecycleSpec => []TerminalFollowsStart
<1>1. LifecycleInv => TerminalFollowsStart
  BY DEF LifecycleInv
<1> QED BY <1>1, LifecycleInvariant, PTL

\* For any stream, a run keeps its first event until the next run, and its ids
\* once they were announced.
THEOREM RunsKeepTheirNames == LifecycleSpec => RunKeepsItsName
<1>1. LifecycleInv /\ [LifecycleNext]_lifecycleVars =>
        [run # None /\ SameRun => KeepsItsName]_lifecycleVars
  <2> SUFFICES ASSUME LifecycleInv, LifecycleNext, run # None, SameRun
               PROVE  KeepsItsName
    BY DEF lifecycleVars, scopeVars, KeepsItsName
  <2>1. ASSUME UNCHANGED run PROVE KeepsItsName
    BY <2>1 DEF KeepsItsName
  <2>2. ASSUME NEW e \in StreamInputs, RunStarted(e) PROVE KeepsItsName
    <3>1. ~ NewRun
      BY DEF NewRun, SameRun
    <3>2. CASE run.implicit /\ run' = Legitimized(e)
      BY <3>2 DEF Legitimized, KeepsItsName, LifecycleInv, RunTypeOK, Runs
    <3> QED BY <2>1, <2>2, <3>1, <3>2 DEF RunStarted
  <2>3. ASSUME NEW e \in StreamInputs, RunEnds(e) \/ OrdinaryEvent(e) PROVE KeepsItsName
    BY <2>1, <2>3 DEF RunEnds, OrdinaryEvent, EnsuresRun
  <2> QED BY <2>1, <2>2, <2>3
          DEF LifecycleNext, StreamInput, Unreadable, UnknownType, AfterTerminal,
              LifecycleFinalize
<1> QED BY <1>1, LifecycleInvariant, PTL DEF LifecycleSpec, RunKeepsItsName
-----------------------------------------------------------------------------
(* The stream: what the run scope remembers is what the stream says.        *)

\* While the stream goes on the log holds what was fed, one entry an input.
LoggedInputs == StreamInputs \cup {Mark("END_OF_STREAM")}

\* The run has ended when a terminal event follows the last RUN_STARTED.
EndMirrored(n) ==
  /\ terminal = None => Terminals(n) = {}
  /\ terminal # None => TerminalOf(n) # {}
  /\ \A p \in TerminalOf(n) : terminal = [type |-> TypeAt(p), index |-> log[p].at]

\* There is a run when there was an event of the protocol, it is implicit until a
\* RUN_STARTED names it, and it has the ids that one gave.
RunMirrored(n) ==
  /\ run = None <=> ProtocolEvents(n) = {}
  /\ run = None => ~agui001Fired
  /\ run # None => Beginning(n) # {}
  /\ \A p \in Beginning(n) : run.start = log[p].at
  /\ run # None => IF run.implicit THEN Starts(n) = {} ELSE Naming(n) # {}
  /\ \A p \in Naming(n) : /\ run.runId = log[p].event.runId
                          /\ run.threadId = log[p].event.threadId

StreamMirrored(n) ==
  /\ eventCount = n
  /\ EndMirrored(n)
  /\ RunMirrored(n)
  /\ sawTimestamp <=> Stamped(n) # {}

LifecycleMirrors == ~finalized => StreamMirrored(Len(log))


\* A set of positions chosen by type gets the new one when its type is chosen.
LEMMA OfTypeGrows ==
  ASSUME NEW n, NEW i, NEW e, Grows(n, i, e), NEW types
  PROVE  /\ OfType(types, n) \subseteq 1..n
         /\ \A k \in 0..n : OfType(types, k)' = OfType(types, k)
         /\ OfType(types, n + 1)' = OfType(types, n) \cup (IF e.type \in types THEN {n + 1} ELSE {})
<1>1. /\ n \in Nat
      /\ \A p \in 1..n : log'[p] = log[p]
      /\ log'[n + 1] = [at |-> i, event |-> e]
      /\ 1..n + 1 = 1..n \cup {n + 1}
  BY DEF Grows
<1>2. /\ \A p \in 1..n : TypeAt(p)' = TypeAt(p)
      /\ TypeAt(n + 1)' = e.type
  BY <1>1 DEF TypeAt
<1>3. ASSUME NEW k \in 0..n PROVE OfType(types, k)' = OfType(types, k)
  <2>1. 1..k \subseteq 1..n
    BY <1>1
  <2> QED BY <1>2, <2>1 DEF OfType
<1>4. OfType(types, n + 1)' = OfType(types, n) \cup (IF e.type \in types THEN {n + 1} ELSE {})
  <2>1. /\ OfType(types, n) = {p \in 1..n : TypeAt(p) \in types}
        /\ OfType(types, n + 1)' = {p \in 1..n + 1 : TypeAt(p)' \in types}
    BY DEF OfType
  <2> QED BY <1>1, <1>2, <2>1
<1>5. OfType(types, n) \subseteq 1..n
  BY DEF OfType
<1> QED BY <1>3, <1>4, <1>5

\* The terminal events since the last RUN_STARTED.
LEMMA TerminalsGrow ==
  ASSUME NEW n, NEW i, NEW e, Grows(n, i, e)
  PROVE  /\ Terminals(n) \subseteq 1..n
         /\ e.type = "RUN_STARTED" => Terminals(n + 1)' = {}
         /\ e.type \in TerminalTypes => Terminals(n + 1)' = Terminals(n) \cup {n + 1}
         /\ e.type \notin TerminalTypes \cup {"RUN_STARTED"} => Terminals(n + 1)' = Terminals(n)
<1> DEFINE ends == OfType(TerminalTypes, n)
           starts == OfType({"RUN_STARTED"}, n)
<1>1. n \in Nat
  BY DEF Grows
<1>2. /\ ends \subseteq 1..n /\ starts \subseteq 1..n
      /\ OfType(TerminalTypes, n + 1)' =
           ends \cup (IF e.type \in TerminalTypes THEN {n + 1} ELSE {})
      /\ OfType({"RUN_STARTED"}, n + 1)' =
           starts \cup (IF e.type \in {"RUN_STARTED"} THEN {n + 1} ELSE {})
  BY OfTypeGrows
<1>3. /\ Terminals(n) = {p \in ends : \A q \in starts : q < p}
      /\ Terminals(n + 1)' = {p \in OfType(TerminalTypes, n + 1)' :
                                \A q \in OfType({"RUN_STARTED"}, n + 1)' : q < p}
  BY DEF Terminals
<1> HIDE DEF ends, starts
<1>4. CASE e.type = "RUN_STARTED"
  <2>1. /\ OfType(TerminalTypes, n + 1)' = ends
        /\ OfType({"RUN_STARTED"}, n + 1)' = starts \cup {n + 1}
    BY <1>2, <1>4 DEF TerminalTypes
  <2>2. \A p \in ends : ~(n + 1 < p)
    BY <1>1, <1>2
  <2>3. Terminals(n + 1)' = {}
    BY <1>3, <2>1, <2>2
  <2>4. e.type \notin TerminalTypes
    BY <1>4 DEF TerminalTypes
  <2> QED BY <1>2, <1>3, <1>4, <2>3, <2>4
<1>5. CASE e.type \in TerminalTypes
  <2>1. /\ OfType(TerminalTypes, n + 1)' = ends \cup {n + 1}
        /\ OfType({"RUN_STARTED"}, n + 1)' = starts
    BY <1>2, <1>5 DEF TerminalTypes
  <2>2. \A q \in starts : q < n + 1
    BY <1>1, <1>2
  <2>3. Terminals(n + 1)' = Terminals(n) \cup {n + 1}
    <3>1. Terminals(n + 1)' = {p \in ends \cup {n + 1} : \A q \in starts : q < p}
      BY <1>3, <2>1
    <3> QED BY <1>3, <2>2, <3>1
  <2>4. e.type # "RUN_STARTED"
    BY <1>5 DEF TerminalTypes
  <2> QED BY <1>2, <1>3, <1>5, <2>3, <2>4 DEF TerminalTypes
<1>6. CASE e.type \notin TerminalTypes \cup {"RUN_STARTED"}
  <2>1. /\ OfType(TerminalTypes, n + 1)' = ends
        /\ OfType({"RUN_STARTED"}, n + 1)' = starts
    BY <1>2, <1>6
  <2> QED BY <1>2, <1>3, <1>6, <2>1
<1> QED BY <1>2, <1>3, <1>4, <1>5, <1>6 DEF TerminalTypes

\* What was ended at an earlier position was, and is.
LEMMA TerminalPast ==
  ASSUME NEW n, NEW i, NEW e, Grows(n, i, e), NEW k \in 0..n
  PROVE  TerminalOf(k)' = TerminalOf(k)
<1>1. /\ OfType(TerminalTypes, k)' = OfType(TerminalTypes, k)
      /\ OfType({"RUN_STARTED"}, k)' = OfType({"RUN_STARTED"}, k)
  BY OfTypeGrows
<1>2. Terminals(k)' = Terminals(k)
  BY <1>1 DEF Terminals
<1> QED BY <1>2 DEF TerminalOf, First

\* A run that ended stays ended by its first terminal event until the next run.
LEMMA TerminalOfGrows ==
  ASSUME NEW n, NEW i, NEW e, Grows(n, i, e)
  PROVE  /\ TerminalOf(n) \subseteq 1..n
         /\ Terminals(n) = {} => TerminalOf(n) = {}
         /\ e.type = "RUN_STARTED" => TerminalOf(n + 1)' = {}
         /\ e.type \in TerminalTypes /\ Terminals(n) = {} => TerminalOf(n + 1)' = {n + 1}
         /\ e.type # "RUN_STARTED" /\ TerminalOf(n) # {} => TerminalOf(n + 1)' = TerminalOf(n)
         /\ e.type \notin TerminalTypes /\ Terminals(n) = {} => TerminalOf(n + 1)' = {}
<1> DEFINE before == Terminals(n)
           now == Terminals(n + 1)'
<1>1. n \in Nat
  BY DEF Grows
<1>2. /\ before \subseteq 1..n
      /\ e.type = "RUN_STARTED" => now = {}
      /\ e.type \in TerminalTypes => now = before \cup {n + 1}
      /\ e.type \notin TerminalTypes \cup {"RUN_STARTED"} => now = before
  BY TerminalsGrow
<1>3. TerminalOf(n) = First(before) /\ TerminalOf(n + 1)' = First(now)
  BY DEF TerminalOf, First
<1> HIDE DEF before, now
<1>4. First({}) = {} /\ First(before) \subseteq before
  BY DEF First
<1>5. /\ before = {} => First(before \cup {n + 1}) = {n + 1}
      /\ First(before) # {} => First(before \cup {n + 1}) = First(before)
  BY <1>1, <1>2, FirstOfMore
<1>6. TerminalOf(n) \subseteq 1..n
  BY <1>2, <1>3, <1>4
<1>7. "RUN_STARTED" \notin TerminalTypes
  BY DEF TerminalTypes
<1> QED BY <1>2, <1>3, <1>4, <1>5, <1>6, <1>7 DEF before

\* A RUN_STARTED begins a run when the one before it ended.
LEMMA RenewalsGrow ==
  ASSUME NEW n, NEW i, NEW e, Grows(n, i, e)
  PROVE  LET renews == e.type = "RUN_STARTED" /\ TerminalOf(n) # {}
         IN  /\ Renewals(n) \subseteq ProtocolEvents(n)
             /\ Renewals(n)' = Renewals(n)
             /\ Renewals(n + 1)' = Renewals(n) \cup (IF renews THEN {n + 1} ELSE {})
<1> DEFINE starts == OfType({"RUN_STARTED"}, n)
<1>1. n \in Nat /\ n \in 0..n /\ (n + 1) - 1 = n
  BY DEF Grows
<1>2. /\ starts \subseteq 1..n
      /\ OfType({"RUN_STARTED"}, n)' = starts
      /\ OfType({"RUN_STARTED"}, n + 1)' =
           starts \cup (IF e.type \in {"RUN_STARTED"} THEN {n + 1} ELSE {})
  BY <1>1, OfTypeGrows
<1>3. ASSUME NEW p \in 1..n PROVE TerminalOf(p - 1)' = TerminalOf(p - 1)
  <2>1. p - 1 \in 0..n
    BY <1>1
  <2> QED BY <2>1, TerminalPast
<1>4. TerminalOf((n + 1) - 1)' = TerminalOf(n)
  BY <1>1, TerminalPast
<1>5. /\ Renewals(n) = {p \in starts : TerminalOf(p - 1) # {}}
      /\ Renewals(n)' = {p \in OfType({"RUN_STARTED"}, n)' : TerminalOf(p - 1)' # {}}
      /\ Renewals(n + 1)' = {p \in OfType({"RUN_STARTED"}, n + 1)' : TerminalOf(p - 1)' # {}}
  BY DEF Renewals
<1>6. starts \subseteq ProtocolEvents(n)
  BY DEF ProtocolEvents, OfType, ProtocolTypes
<1> HIDE DEF starts
<1>7. Renewals(n)' = Renewals(n) /\ Renewals(n) \subseteq ProtocolEvents(n)
  BY <1>2, <1>3, <1>5, <1>6
<1>8. \A p \in 1..n : p \in Renewals(n + 1)' <=> p \in Renewals(n)
  BY <1>1, <1>2, <1>3, <1>5
<1>9. n + 1 \in Renewals(n + 1)' <=> e.type = "RUN_STARTED" /\ TerminalOf(n) # {}
  BY <1>1, <1>2, <1>4, <1>5
<1>10. Renewals(n + 1)' \subseteq 1..n \cup {n + 1} /\ Renewals(n) \subseteq 1..n
  BY <1>2, <1>5
<1> QED BY <1>7, <1>8, <1>9, <1>10
LEMMA ProtocolGrows ==
  ASSUME NEW n, NEW i, NEW e, Grows(n, i, e)
  PROVE  /\ ProtocolEvents(n) \subseteq 1..n
         /\ ProtocolEvents(n)' = ProtocolEvents(n)
         /\ ProtocolEvents(n + 1)' =
              ProtocolEvents(n) \cup (IF e.type \in ProtocolTypes THEN {n + 1} ELSE {})
         /\ OfType({"RUN_STARTED"}, n) \subseteq ProtocolEvents(n)
<1>1. n \in Nat /\ n \in 0..n
  BY DEF Grows
<1>2. OfType({"RUN_STARTED"}, n) \subseteq ProtocolEvents(n)
  BY DEF ProtocolEvents, OfType, ProtocolTypes
<1> QED BY <1>1, <1>2, OfTypeGrows DEF ProtocolEvents

\* A run begins at a RUN_STARTED that finds the one before it ended, or at the first
\* event of the protocol, and keeps its beginning until the next.
LEMMA BeginningGrows ==
  ASSUME NEW n, NEW i, NEW e, Grows(n, i, e)
  PROVE  LET renews == e.type = "RUN_STARTED" /\ TerminalOf(n) # {}
             protocol == e.type \in ProtocolTypes
         IN  /\ Beginning(n) \subseteq 1..n
             /\ Beginning(n)' = Beginning(n)
             /\ renews => Beginning(n + 1)' = {n + 1}
             /\ ProtocolEvents(n) = {} /\ protocol => Beginning(n + 1)' = {n + 1}
             /\ ProtocolEvents(n) = {} /\ ~protocol =>
                  Beginning(n + 1)' = {} /\ Beginning(n) = {}
             /\ ~renews /\ Beginning(n) # {} => Beginning(n + 1)' = Beginning(n)
<1> DEFINE renews == e.type = "RUN_STARTED" /\ TerminalOf(n) # {}
           protocol == e.type \in ProtocolTypes
           renewals == Renewals(n)
           events == ProtocolEvents(n)
<1>1. n \in Nat
  BY DEF Grows
<1>2. /\ events \subseteq 1..n
      /\ events' = events
      /\ ProtocolEvents(n + 1)' = events \cup (IF protocol THEN {n + 1} ELSE {})
  BY ProtocolGrows
<1>3. /\ renewals \subseteq events
      /\ renewals' = renewals
      /\ Renewals(n + 1)' = renewals \cup (IF renews THEN {n + 1} ELSE {})
  BY RenewalsGrow
<1>4. renews => protocol
  BY DEF ProtocolTypes
<1>5. /\ Beginning(n) = IF renewals # {} THEN Last(renewals) ELSE First(events)
      /\ Beginning(n)' = IF renewals' # {} THEN Last(renewals') ELSE First(events')
      /\ Beginning(n + 1)' = IF Renewals(n + 1)' # {} THEN Last(Renewals(n + 1)')
                             ELSE First(ProtocolEvents(n + 1)')
  BY DEF Beginning, Last, First
<1> HIDE DEF renews, protocol, renewals, events
<1>6. First({}) = {} /\ First(events) \subseteq events /\ Last(renewals) \subseteq renewals
  BY DEF First, Last
<1>7. /\ events = {} => First(events \cup {n + 1}) = {n + 1}
      /\ First(events) # {} => First(events \cup {n + 1}) = First(events)
  BY <1>1, <1>2, FirstOfMore
<1>8. Last(renewals \cup {n + 1}) = {n + 1}
  <2>1. \A p \in renewals : p <= n + 1 /\ ~(n + 1 <= p)
    BY <1>1, <1>2, <1>3
  <2> QED BY <1>1, <2>1 DEF Last
<1>9. Beginning(n) \subseteq 1..n /\ Beginning(n)' = Beginning(n)
  BY <1>2, <1>3, <1>5, <1>6
<1>10. renews => Beginning(n + 1)' = {n + 1}
  BY <1>3, <1>5, <1>8
<1>11. events = {} /\ protocol => Beginning(n + 1)' = {n + 1}
  BY <1>2, <1>3, <1>5, <1>7, <1>10
<1>12. events = {} /\ ~protocol => Beginning(n + 1)' = {} /\ Beginning(n) = {}
  BY <1>2, <1>3, <1>4, <1>5, <1>6
<1>13. ~renews /\ Beginning(n) # {} => Beginning(n + 1)' = Beginning(n)
  BY <1>2, <1>3, <1>5, <1>7
<1> QED BY <1>9, <1>10, <1>11, <1>12, <1>13 DEF renews, protocol, events

\* The RUN_STARTED since the beginning of the run.
LEMMA StartsGrow ==
  ASSUME NEW n, NEW i, NEW e, Grows(n, i, e)
  PROVE  LET added == IF e.type = "RUN_STARTED" THEN {n + 1} ELSE {}
         IN  /\ Starts(n) \subseteq 1..n
             /\ Starts(n)' = Starts(n)
             /\ Starts(n) \subseteq ProtocolEvents(n)
             /\ Beginning(n + 1)' = {n + 1} => Starts(n + 1)' = added
             /\ Beginning(n + 1)' = Beginning(n) => Starts(n + 1)' = Starts(n) \cup added
<1> DEFINE starts == OfType({"RUN_STARTED"}, n)
           added == IF e.type = "RUN_STARTED" THEN {n + 1} ELSE {}
<1>1. n \in Nat /\ n \in 0..n
  BY DEF Grows
<1>2. /\ starts \subseteq 1..n
      /\ starts' = starts
      /\ OfType({"RUN_STARTED"}, n + 1)' = starts \cup added
      /\ starts \subseteq ProtocolEvents(n)
  BY <1>1, OfTypeGrows, ProtocolGrows
<1>3. Beginning(n) \subseteq 1..n /\ Beginning(n)' = Beginning(n)
  BY BeginningGrows
<1>4. /\ Starts(n) = {p \in starts : \A b \in Beginning(n) : b <= p}
      /\ Starts(n)' = {p \in starts' : \A b \in Beginning(n)' : b <= p}
      /\ Starts(n + 1)' = {p \in OfType({"RUN_STARTED"}, n + 1)' :
                             \A b \in Beginning(n + 1)' : b <= p}
  BY DEF Starts
<1> HIDE DEF starts
<1>5. ASSUME Beginning(n + 1)' = {n + 1} PROVE Starts(n + 1)' = added
  <2>1. /\ \A p \in starts : ~(n + 1 <= p)
        /\ \A p \in added : n + 1 <= p
    BY <1>1, <1>2
  <2>2. Starts(n + 1)' = {p \in starts \cup added : n + 1 <= p}
    BY <1>2, <1>4, <1>5
  <2> HIDE DEF added
  <2> QED BY <2>1, <2>2
<1>6. ASSUME Beginning(n + 1)' = Beginning(n) PROVE Starts(n + 1)' = Starts(n) \cup added
  <2>1. \A b \in Beginning(n) : \A p \in added : b <= p
    BY <1>1, <1>3
  <2>2. Starts(n + 1)' = {p \in starts \cup added : \A b \in Beginning(n) : b <= p}
    BY <1>2, <1>4, <1>6
  <2> HIDE DEF added
  <2> QED BY <1>4, <2>1, <2>2
<1> QED BY <1>2, <1>3, <1>4, <1>5, <1>6

\* The events that carry a time.
LEMMA StampedGrows ==
  ASSUME NEW n, NEW i, NEW e, Grows(n, i, e)
  PROVE  LET stamps == e.type \notin {"MALFORMED", "UNTYPED"} /\ e.timestamp = "number"
         IN  /\ Stamped(n)' = Stamped(n)
             /\ Stamped(n + 1)' = Stamped(n) \cup (IF stamps THEN {n + 1} ELSE {})
<1> DEFINE Stamps(p) == TypeAt(p) \notin {"MALFORMED", "UNTYPED"} /\ log[p].event.timestamp = "number"
<1>1. /\ n \in Nat
      /\ \A p \in 1..n : log'[p] = log[p]
      /\ log'[n + 1] = [at |-> i, event |-> e]
      /\ 1..n + 1 = 1..n \cup {n + 1}
  BY DEF Grows
<1>2. log'[n + 1].event = e
  BY <1>1
<1>3. /\ \A p \in 1..n : Stamps(p)' <=> Stamps(p)
      /\ Stamps(n + 1)' <=> e.type \notin {"MALFORMED", "UNTYPED"} /\ e.timestamp = "number"
  BY <1>1, <1>2 DEF TypeAt
<1>4. /\ Stamped(n) = {p \in 1..n : Stamps(p)}
      /\ Stamped(n)' = {p \in 1..n : Stamps(p)'}
      /\ Stamped(n + 1)' = {p \in 1..n + 1 : Stamps(p)'}
  BY DEF Stamped
<1> HIDE DEF Stamps
<1> QED BY <1>1, <1>3, <1>4
\* What ends a run is what the scope remembers as its end.
LEMMA EndMirrorGrows ==
  ASSUME NEW n, NEW i \in Nat, NEW e, Grows(n, i, e), EndMirrored(n),
         \/ e.type = "RUN_STARTED" /\ terminal' = None
         \/ /\ e.type \in TerminalTypes /\ terminal = None
            /\ terminal' = [type |-> e.type, index |-> i]
         \/ /\ e.type # "RUN_STARTED" /\ UNCHANGED terminal
            /\ e.type \in TerminalTypes => terminal # None
  PROVE  EndMirrored(n + 1)'
<1>1. /\ n \in Nat
      /\ \A p \in 1..n : log'[p] = log[p]
      /\ log'[n + 1] = [at |-> i, event |-> e]
  BY DEF Grows
<1>2. log'[n + 1].event.type = e.type /\ log'[n + 1].at = i
  BY <1>1
<1>3. /\ TerminalOf(n) \subseteq 1..n
      /\ Terminals(n) = {} => TerminalOf(n) = {}
      /\ e.type = "RUN_STARTED" => TerminalOf(n + 1)' = {}
      /\ e.type \in TerminalTypes /\ Terminals(n) = {} => TerminalOf(n + 1)' = {n + 1}
      /\ e.type # "RUN_STARTED" /\ TerminalOf(n) # {} => TerminalOf(n + 1)' = TerminalOf(n)
      /\ e.type \notin TerminalTypes /\ Terminals(n) = {} => TerminalOf(n + 1)' = {}
  BY TerminalOfGrows
<1>4. /\ e.type = "RUN_STARTED" => Terminals(n + 1)' = {}
      /\ e.type \notin TerminalTypes \cup {"RUN_STARTED"} => Terminals(n + 1)' = Terminals(n)
  BY TerminalsGrow
<1>5. CASE e.type = "RUN_STARTED" /\ terminal' = None
  BY <1>3, <1>4, <1>5 DEF EndMirrored
<1>6. CASE /\ e.type \in TerminalTypes /\ terminal = None
           /\ terminal' = [type |-> e.type, index |-> i]
  <2>1. TerminalOf(n + 1)' = {n + 1}
    BY <1>3, <1>6 DEF EndMirrored
  <2>2. terminal' # None
    BY <1>6, <2>1, NoTerminalAssumption
  <2> QED BY <1>2, <1>6, <2>1, <2>2 DEF EndMirrored, TypeAt
<1>7. CASE /\ e.type # "RUN_STARTED" /\ UNCHANGED terminal
           /\ e.type \in TerminalTypes => terminal # None
  <2>1. CASE terminal = None
    BY <1>3, <1>4, <1>7, <2>1 DEF EndMirrored
  <2>2. CASE terminal # None
    <3>1. TerminalOf(n + 1)' = TerminalOf(n) /\ TerminalOf(n) # {}
      BY <1>3, <1>7, <2>2 DEF EndMirrored
    <3>2. \A p \in TerminalOf(n) : TypeAt(p)' = TypeAt(p) /\ log'[p].at = log[p].at
      BY <1>1, <1>3 DEF TypeAt
    <3> QED BY <1>7, <2>2, <3>1, <3>2 DEF EndMirrored
  <2> QED BY <2>1, <2>2
<1> QED BY <1>5, <1>6, <1>7

\* A run that goes on, is not renamed and does not end by beginning anew.
LEMMA RunGoesOn ==
  ASSUME NEW n, NEW i, NEW e, Grows(n, i, e), RunMirrored(n),
         UNCHANGED run, agui001Fired' = agui001Fired \/ run # None,
         e.type \in ProtocolTypes => run # None,
         e.type = "RUN_STARTED" => TerminalOf(n) = {} /\ ~run.implicit
  PROVE  RunMirrored(n + 1)'
<1>1. /\ n \in Nat
      /\ \A p \in 1..n : log'[p] = log[p]
  BY DEF Grows
<1>2. ProtocolEvents(n + 1)' =
        ProtocolEvents(n) \cup (IF e.type \in ProtocolTypes THEN {n + 1} ELSE {})
  BY ProtocolGrows
<1>3. Beginning(n) \subseteq 1..n /\ Beginning(n + 1)' = Beginning(n)
  BY BeginningGrows DEF RunMirrored
<1>4. /\ Starts(n) \subseteq 1..n /\ Starts(n) \subseteq ProtocolEvents(n)
      /\ Starts(n + 1)' = Starts(n) \cup IF e.type = "RUN_STARTED" THEN {n + 1} ELSE {}
  BY <1>3, StartsGrow
<1>5. /\ Naming(n) = First(Starts(n)) /\ Naming(n + 1)' = First(Starts(n + 1)')
      /\ Naming(n) \subseteq 1..n
  BY <1>4 DEF Naming, First
<1>6. Naming(n + 1)' = Naming(n)
  <2>1. CASE e.type = "RUN_STARTED"
    <3>1. Naming(n) # {}
      BY <2>1 DEF RunMirrored, ProtocolTypes
    <3> QED BY <1>1, <1>4, <1>5, <2>1, <3>1, FirstOfMore
  <2>2. CASE e.type # "RUN_STARTED"
    BY <1>4, <1>5, <2>2
  <2> QED BY <2>1, <2>2
<1>7. /\ \A p \in Beginning(n + 1)' : run'.start = log'[p].at
      /\ \A p \in Naming(n + 1)' : /\ run'.runId = log'[p].event.runId
                                   /\ run'.threadId = log'[p].event.threadId
  BY <1>1, <1>3, <1>5, <1>6 DEF RunMirrored
<1>8. run' # None => IF run'.implicit THEN Starts(n + 1)' = {} ELSE Naming(n + 1)' # {}
  BY <1>4, <1>6 DEF RunMirrored, ProtocolTypes
<1>9. /\ run' = None <=> ProtocolEvents(n + 1)' = {}
      /\ run' = None => ~agui001Fired'
      /\ run' # None => Beginning(n + 1)' # {}
  BY <1>2, <1>3 DEF RunMirrored
<1> QED BY <1>7, <1>8, <1>9 DEF RunMirrored

\* A RUN_STARTED that finds no run, or a run that ended, begins one.
LEMMA RunAnnounced ==
  ASSUME eventCount \in Nat, NEW n, NEW i, NEW e, Grows(n, i, e), RunMirrored(n),
         i = eventCount, e.type = "RUN_STARTED", run' = Announced(e), run' # None,
         run = None \/ TerminalOf(n) # {}
  PROVE  RunMirrored(n + 1)'
<1>1. /\ n \in Nat
      /\ log'[n + 1] = [at |-> i, event |-> e]
  BY DEF Grows
<1>2. log'[n + 1].event = e /\ log'[n + 1].at = i
  BY <1>1
<1>3. ProtocolEvents(n + 1)' # {}
  BY ProtocolGrows DEF ProtocolTypes
<1>4. Beginning(n + 1)' = {n + 1}
  BY BeginningGrows DEF RunMirrored, ProtocolTypes
<1>5. Starts(n + 1)' = {n + 1}
  BY <1>4, StartsGrow
<1>6. Naming(n + 1)' = {n + 1}
  BY <1>1, <1>5 DEF Naming, First
<1>7. /\ run'.start = i /\ run'.implicit = FALSE
      /\ run'.runId = e.runId /\ run'.threadId = e.threadId
  BY DEF Announced
<1> QED BY <1>2, <1>3, <1>4, <1>6, <1>7 DEF RunMirrored

\* Any other event of the protocol that finds no run begins one that has no name.
LEMMA RunImplied ==
  ASSUME NEW n, NEW i, NEW e, Grows(n, i, e), RunMirrored(n),
         e.type \in ProtocolTypes \ {"RUN_STARTED"}, run = None, run' # None,
         run'.start = i, run'.implicit = TRUE
  PROVE  RunMirrored(n + 1)'
<1>1. /\ n \in Nat
      /\ log'[n + 1] = [at |-> i, event |-> e]
  BY DEF Grows
<1>2. log'[n + 1].at = i
  BY <1>1
<1>3. ProtocolEvents(n + 1)' # {}
  BY ProtocolGrows
<1>4. Beginning(n + 1)' = {n + 1}
  BY BeginningGrows DEF RunMirrored
<1>5. Starts(n + 1)' = {}
  BY <1>4, StartsGrow
<1>6. Naming(n + 1)' = {}
  BY <1>5 DEF Naming, First
<1> QED BY <1>2, <1>3, <1>4, <1>5, <1>6 DEF RunMirrored

\* The late RUN_STARTED of an implicit run names it.
LEMMA RunNamed ==
  ASSUME RunTypeOK, NEW n, NEW i, NEW e, Grows(n, i, e), RunMirrored(n),
         e.type = "RUN_STARTED", run # None, run.implicit, TerminalOf(n) = {},
         run' = Legitimized(e), run' # None
  PROVE  RunMirrored(n + 1)'
<1>1. /\ n \in Nat
      /\ \A p \in 1..n : log'[p] = log[p]
      /\ log'[n + 1] = [at |-> i, event |-> e]
  BY DEF Grows
<1>2. log'[n + 1].event = e
  BY <1>1
<1>3. ProtocolEvents(n + 1)' # {}
  BY ProtocolGrows DEF ProtocolTypes
<1>4. /\ Beginning(n) # {} /\ Beginning(n) \subseteq 1..n
      /\ Beginning(n + 1)' = Beginning(n)
  BY BeginningGrows DEF RunMirrored
<1>5. Starts(n + 1)' = {n + 1}
  BY <1>4, StartsGrow DEF RunMirrored
<1>6. Naming(n + 1)' = {n + 1}
  BY <1>1, <1>5 DEF Naming, First
<1>7. /\ run'.start = run.start /\ run'.implicit = FALSE
      /\ run'.runId = e.runId /\ run'.threadId = e.threadId
  BY DEF Legitimized, RunTypeOK, Runs
<1>8. \A p \in Beginning(n + 1)' : run'.start = log'[p].at
  BY <1>1, <1>4, <1>7 DEF RunMirrored
<1> QED BY <1>2, <1>3, <1>4, <1>6, <1>7, <1>8 DEF RunMirrored
\* A RUN_STARTED yields a run.
LEMMA AnnouncedRuns ==
  ASSUME RunTypeOK, NEW e \in StreamInputs, e.type = "RUN_STARTED"
  PROVE  /\ Announced(e) # None
         /\ run # None => Legitimized(e) # None
<1>1. /\ e.runId \in RunIds \cup {None}
      /\ e.threadId \in ThreadIds \cup {None}
  BY StreamInputsAssumption DEF UnreadableInputs, UnknownEvents, RunEvents, NotedEvents
<1>2. Announced(e) \in Runs
  BY <1>1 DEF Announced, Runs, RunTypeOK, ScopeTypeOK
<1>3. run # None => Legitimized(e) \in Runs
  BY <1>1 DEF Legitimized, Runs, RunTypeOK
<1> QED BY <1>2, <1>3, NoRunAssumption

\* Every input the stream offers keeps the scope and the stream in agreement.
LEMMA StreamMirrorGrows ==
  ASSUME LifecycleInv, LifecycleInv', NEW n, NEW e \in StreamInputs,
         Grows(n, eventCount, e), StreamMirrored(n), StreamInput(e)
  PROVE  StreamMirrored(n + 1)'
<1> USE DEF LifecycleInv, RunTypeOK
<1>1. eventCount \in Nat /\ eventCount = n /\ eventCount' = eventCount + 1
  BY DEF ScopeTypeOK, StreamMirrored, StreamInput, Unreadable, UnknownType, RunStarted,
         RunEnds, OrdinaryEvent, AfterTerminal, Judged, Unjudged, NewRun, Ends, Fed
<1>2. EndMirrored(n) /\ RunMirrored(n) /\ (sawTimestamp <=> Stamped(n) # {})
  BY DEF StreamMirrored
<1>3. sawTimestamp' <=> Stamped(n + 1)' # {}
  <2>1. Stamped(n + 1)' = Stamped(n) \cup
          (IF e.type \notin {"MALFORMED", "UNTYPED"} /\ e.timestamp = "number"
           THEN {n + 1} ELSE {})
    BY StampedGrows
  <2>2. sawTimestamp' <=>
          sawTimestamp \/ (e.type \notin {"MALFORMED", "UNTYPED"} /\ e.timestamp = "number")
    BY DEF StreamInput, Unreadable, UnknownType, RunStarted, RunEnds, OrdinaryEvent,
           AfterTerminal, Observes, TerminalTypes
  <2> QED BY <1>2, <2>1, <2>2
<1>4. EndMirrored(n + 1)'
  <2>1. \/ e.type = "RUN_STARTED" /\ terminal' = None
        \/ /\ e.type \in TerminalTypes /\ terminal = None
           /\ terminal' = [type |-> e.type, index |-> eventCount]
        \/ /\ e.type # "RUN_STARTED" /\ UNCHANGED terminal
           /\ e.type \in TerminalTypes => terminal # None
    BY DEF StreamInput, Unreadable, UnknownType, RunStarted, RunEnds, OrdinaryEvent,
           AfterTerminal, Judged, Unjudged, NewRun, Ends, TerminalTypes
  <2> QED BY <1>1, <1>2, <2>1, EndMirrorGrows
<1>5. /\ terminal = None => TerminalOf(n) = {}
      /\ terminal # None => TerminalOf(n) # {} /\ run # None
  BY <1>2 DEF EndMirrored, TerminalOf, First, TerminalFollowsStart
<1>6. RunMirrored(n + 1)'
  <2>1. CASE Unreadable(e) \/ UnknownType(e) \/ AfterTerminal(e)
    <3>1. /\ UNCHANGED <<run, agui001Fired>>
          /\ e.type # "RUN_STARTED"
          /\ e.type \in ProtocolTypes => run # None
      BY <1>5, <2>1 DEF Unreadable, UnknownType, AfterTerminal, ProtocolTypes, TerminalTypes
    <3> QED BY <1>2, <3>1, RunGoesOn
  <2>2. CASE RunStarted(e)
    <3>1. e.type = "RUN_STARTED" /\ UNCHANGED agui001Fired
      BY <2>2 DEF RunStarted
    <3>2. CASE run' = Announced(e) /\ (run = None \/ terminal # None)
      <4>1. run' # None
        BY <3>1, <3>2, AnnouncedRuns
      <4> QED BY <1>1, <1>2, <1>5, <3>1, <3>2, <4>1, RunAnnounced
    <3>3. CASE run # None /\ run.implicit /\ Judged /\ run' = Legitimized(e)
      <4>1. run' # None
        BY <3>1, <3>3, AnnouncedRuns
      <4>2. TerminalOf(n) = {}
        BY <1>5, <3>3 DEF Judged
      <4> QED BY <1>2, <3>1, <3>3, <4>1, <4>2, RunNamed
    <3>4. CASE run # None /\ ~run.implicit /\ Judged /\ UNCHANGED run
      <4>1. TerminalOf(n) = {}
        BY <1>5, <3>4 DEF Judged
      <4> QED BY <1>2, <3>1, <3>4, <4>1, RunGoesOn
    <3> QED BY <2>2, <3>2, <3>3, <3>4 DEF RunStarted, NewRun
  <2>3. CASE RunEnds(e) \/ OrdinaryEvent(e)
    <3>1. EnsuresRun /\ e.type \in ProtocolTypes \ {"RUN_STARTED"}
      BY <2>3 DEF RunEnds, OrdinaryEvent, ProtocolTypes, TerminalTypes
    <3>2. run' # None
      BY <3>1, EnsuresRunType
    <3>3. CASE run = None
      <4>1. run' = [runId |-> None, threadId |-> None, start |-> eventCount, implicit |-> TRUE]
        BY <3>1, <3>3 DEF EnsuresRun
      <4>2. run'.start = eventCount /\ run'.implicit = TRUE
        BY <4>1
      <4> QED BY <1>2, <3>1, <3>2, <3>3, <4>2, RunImplied
    <3>4. CASE run # None
      <4>1. UNCHANGED run
        BY <3>1, <3>4 DEF EnsuresRun
      <4> QED BY <1>2, <3>1, <3>4, <4>1, RunGoesOn
    <3> QED BY <3>3, <3>4
  <2> QED BY <2>1, <2>2, <2>3 DEF StreamInput
<1> QED BY <1>1, <1>3, <1>4, <1>6 DEF StreamMirrored
\* Which fields an input has.
LEMMA InputFields ==
  ASSUME NEW e \in StreamInputs
  PROVE  /\ e.type \in {"MALFORMED", "UNTYPED", "UNKNOWN"} \cup ProtocolTypes
         /\ "timestamp" \in DOMAIN e <=> e.type \notin {"MALFORMED", "UNTYPED"}
         /\ "runId" \in DOMAIN e <=> e.type \in {"RUN_STARTED", "RUN_FINISHED"}
         /\ "threadId" \in DOMAIN e <=> e.type \in {"RUN_STARTED", "RUN_FINISHED"}
         /\ e.type \in {"RAW", "CUSTOM"} => e.noted \in BOOLEAN
<1>1. CASE e \in UnreadableInputs
  BY <1>1 DEF UnreadableInputs
<1>2. CASE e \in UnknownEvents
  BY <1>2 DEF UnknownEvents
<1>3. CASE e \in RunEvents
  BY <1>3 DEF RunEvents, ProtocolTypes, TerminalTypes
<1>4. CASE e \in NotedEvents
  BY <1>4 DEF NotedEvents, ProtocolTypes, TerminalTypes
<1> QED BY <1>1, <1>2, <1>3, <1>4, StreamInputsAssumption

\* The shape of an input, as the schema check and the stream see it.
LEMMA ShapeDeserved ==
  ASSUME NEW n, NEW e \in StreamInputs, Grows(n, eventCount, e)
  PROVE  DeservedByShape(n + 1)' =
           IF e.type = "MALFORMED" THEN Note("AGUI502", None, None)
           ELSE IF e.type = "UNTYPED" THEN Note("AGUI504", "type", None)
           ELSE SchemaFindings(e)
                \cup IF e.type = "UNKNOWN" THEN Note("AGUI503", None, None) ELSE {}
<1> DEFINE Alone(rule, id, holds) == IF holds THEN {Finding(rule, eventCount, id, None)} ELSE {}
           Has(field, content) == field \in DOMAIN e /\ e[field] = content
<1>1. log'[n + 1] = [at |-> eventCount, event |-> e]
  BY DEF Grows
<1>2. log'[n + 1].event = e /\ log'[n + 1].at = eventCount
  BY <1>1
<1>3. DeservedByShape(n + 1)' =
        Alone("AGUI502", None, e.type = "MALFORMED")
        \cup Alone("AGUI503", None, e.type = "UNKNOWN")
        \cup Alone("AGUI504", "type", e.type = "UNTYPED")
        \cup Alone("AGUI504", "timestamp", Has("timestamp", "other"))
        \cup Alone("AGUI504", "runId", Has("runId", None))
        \cup Alone("AGUI504", "threadId", Has("threadId", None))
  BY <1>2 DEF DeservedByShape
<1>4. SchemaFindings(e) =
        Alone("AGUI504", "timestamp", e.timestamp = "other")
        \cup Alone("AGUI504", "runId",
                   e.type \in {"RUN_STARTED", "RUN_FINISHED"} /\ e.runId = None)
        \cup Alone("AGUI504", "threadId",
                   e.type \in {"RUN_STARTED", "RUN_FINISHED"} /\ e.threadId = None)
  BY DEF SchemaFindings, Note
<1>5. /\ Has("timestamp", "other") <=>
           e.type \notin {"MALFORMED", "UNTYPED"} /\ e.timestamp = "other"
      /\ Has("runId", None) <=>
           e.type \in {"RUN_STARTED", "RUN_FINISHED"} /\ e.runId = None
      /\ Has("threadId", None) <=>
           e.type \in {"RUN_STARTED", "RUN_FINISHED"} /\ e.threadId = None
  BY InputFields
<1>6. /\ Note("AGUI502", None, None) = Alone("AGUI502", None, TRUE)
      /\ Note("AGUI503", None, None) = Alone("AGUI503", None, TRUE)
      /\ Note("AGUI504", "type", None) = Alone("AGUI504", "type", TRUE)
      /\ \A rule, id : Alone(rule, id, FALSE) = {}
  BY DEF Note
<1> HIDE DEF Has
<1> QED BY <1>3, <1>4, <1>5, <1>6

\* The first event of the protocol, as the run scope and the stream see it.
LEMMA StreamDeserved ==
  ASSUME NEW n, NEW e, e.type # "END_OF_STREAM", Grows(n, eventCount, e), RunMirrored(n)
  PROVE  DeservedByStream(n + 1)' =
           IF e.type \in ProtocolTypes \ {"RUN_STARTED"} THEN OpeningFindings ELSE {}
<1>1. /\ n \in Nat
      /\ log'[n + 1] = [at |-> eventCount, event |-> e]
  BY DEF Grows
<1>2. log'[n + 1].event = e /\ log'[n + 1].at = eventCount
  BY <1>1
<1>3. /\ ProtocolEvents(n) \subseteq 1..n
      /\ ProtocolEvents(n + 1)' =
           ProtocolEvents(n) \cup (IF e.type \in ProtocolTypes THEN {n + 1} ELSE {})
  BY ProtocolGrows
<1>4. ProtocolEvents(n + 1)' = {n + 1} <=>
        ProtocolEvents(n) = {} /\ e.type \in ProtocolTypes
  BY <1>1, <1>3
<1>5. DeservedByStream(n + 1)' =
        IF ProtocolEvents(n + 1)' = {n + 1} /\ e.type # "RUN_STARTED"
        THEN {Finding("AGUI001", eventCount, None, None)} ELSE {}
  BY <1>2 DEF DeservedByStream, TypeAt
<1>6. ProtocolEvents(n) = {} <=> run = None /\ ~agui001Fired
  BY DEF RunMirrored
<1> QED BY <1>4, <1>5, <1>6 DEF OpeningFindings, Note

\* A noted event of an open run.
LEMMA AdviceDeserved ==
  ASSUME NEW n, NEW e, Grows(n, eventCount, e)
  PROVE  Advised(n + 1)' =
           IF e.type \in {"RAW", "CUSTOM"} /\ e.noted /\ TerminalOf(n) = {}
           THEN Note(IF e.type = "RAW" THEN "AGUI901" ELSE "AGUI903", None, None) ELSE {}
<1>1. /\ n \in Nat /\ n \in 0..n /\ (n + 1) - 1 = n
      /\ log'[n + 1] = [at |-> eventCount, event |-> e]
  BY DEF Grows
<1>2. log'[n + 1].event = e /\ log'[n + 1].at = eventCount
  BY <1>1
<1>3. TerminalOf((n + 1) - 1)' = TerminalOf(n)
  BY <1>1, TerminalPast
<1>4. Advised(n + 1)' =
        {Finding(rule, eventCount, None, None) :
           rule \in {r \in {"AGUI901", "AGUI903"} :
                       /\ e.type = IF r = "AGUI901" THEN "RAW" ELSE "CUSTOM"
                       /\ e.noted
                       /\ TerminalOf(n) = {}}}
  BY <1>2, <1>3 DEF Advised, TypeAt
<1>5. {r \in {"AGUI901", "AGUI903"} : /\ e.type = IF r = "AGUI901" THEN "RAW" ELSE "CUSTOM"
                                      /\ e.noted
                                      /\ TerminalOf(n) = {}}
      = IF e.type \in {"RAW", "CUSTOM"} /\ e.noted /\ TerminalOf(n) = {}
        THEN {IF e.type = "RAW" THEN "AGUI901" ELSE "AGUI903"} ELSE {}
  OBVIOUS
<1> QED BY <1>4, <1>5 DEF Note
\* RUN_FINISHED changes an id, as the run scope and the stream see it.
LEMMA ContradictsTold ==
  ASSUME NEW n, NEW i, NEW e, Grows(n, i, e), RunMirrored(n + 1)', run' # None,
         NEW field \in {"runId", "threadId"}
  PROVE  Contradicts(n + 1, field)' <=>
           None # e[field] /\ run'[field] \notin {None, e[field]} /\ ~run'.implicit
<1>1. log'[n + 1].event = e
  BY DEF Grows
<1>2. Contradicts(n + 1, field)' <=>
        \E p \in Naming(n + 1)' : /\ None \notin {log'[p].event[field], e[field]}
                                  /\ log'[p].event[field] # e[field]
  BY <1>1 DEF Contradicts
<1>3. \A p \in Naming(n + 1)' : run'[field] = log'[p].event[field]
  BY DEF RunMirrored
<1>4. run'.implicit <=> Naming(n + 1)' = {}
  BY DEF RunMirrored, Naming, First
<1> QED BY <1>2, <1>3, <1>4

\* The ids RUN_FINISHED changes are reported with the event that began the run.
LEMMA UnstableDeserved ==
  ASSUME NEW n, NEW i, NEW e, Grows(n, i, e), i = eventCount, RunMirrored(n + 1)', run' # None
  PROVE  UNION {About("AGUI008", i, field, Beginning(n + 1))' :
                field \in Contradicted(n + 1)'}
         = UnstableIds(e)
<1> DEFINE Told(field) == None # e[field] /\ run'[field] \notin {None, e[field]} /\ ~run'.implicit
           Report(field) == {Finding("AGUI008", i, field, run'.start)}
<1>1. IndicesOf(Beginning(n + 1))' = {run'.start}
  BY DEF RunMirrored, IndicesOf
<1>2. Contradicted(n + 1)' = {f \in {"runId", "threadId"} : Told(f)}
  BY ContradictsTold DEF Contradicted
<1>3. UnstableIds(e) =
        UNION {IF Told(field) THEN Report(field) ELSE {} : field \in {"runId", "threadId"}}
  BY DEF UnstableIds, Note
<1> DEFINE Reported(field) == About("AGUI008", i, field, Beginning(n + 1))'
<1>4. ASSUME NEW field \in {"runId", "threadId"}
      PROVE  {Finding("AGUI008", i, field, k) : k \in IndicesOf(Beginning(n + 1))'}
             = Report(field)
  BY <1>1
<1>5. ASSUME NEW field \in {"runId", "threadId"} PROVE Reported(field) = Report(field)
  BY <1>4 DEF About
<1> HIDE DEF Told, Report, Reported
<1>6. UNION {Reported(field) : field \in Contradicted(n + 1)'} = UnstableIds(e)
  BY <1>2, <1>3, <1>5
<1> QED BY <1>6 DEF Reported

\* What a RUN_STARTED deserves for its place, in terms of the stream before it.
LEMMA StartDeserved ==
  ASSUME NEW n, NEW i, NEW e, Grows(n, i, e), e.type = "RUN_STARTED"
  PROVE  DeservedByPlace(n + 1)' =
           IF TerminalOf(n) = {} /\ Naming(n) # {}
           THEN {Finding("AGUI002", i, None, log[p].at) : p \in Beginning(n)} ELSE {}
<1>1. /\ n \in Nat /\ n \in 0..n /\ (n + 1) - 1 = n
      /\ \A p \in 1..n : log'[p] = log[p]
      /\ log'[n + 1] = [at |-> i, event |-> e]
  BY DEF Grows
<1>2. log'[n + 1].event = e /\ log'[n + 1].at = i /\ TypeAt(n + 1)' = "RUN_STARTED"
  BY <1>1 DEF TypeAt
<1>3. Starts(n)' = Starts(n)
  BY StartsGrow
<1>4. Naming((n + 1) - 1)' = Naming(n)
  BY <1>1, <1>3 DEF Naming, First
<1>5. TerminalOf((n + 1) - 1)' = TerminalOf(n)
  BY <1>1, TerminalPast
<1>6. Beginning(n) \subseteq 1..n /\ Beginning((n + 1) - 1)' = Beginning(n)
  BY <1>1, BeginningGrows
<1>7. DeservedByPlace(n + 1)' =
        IF TerminalOf(n) = {} /\ Naming(n) # {}
        THEN About("AGUI002", log[n + 1].at, None, Beginning((n + 1) - 1))' ELSE {}
  BY <1>2, <1>4, <1>5 DEF DeservedByPlace
<1>8. About("AGUI002", log[n + 1].at, None, Beginning((n + 1) - 1))' =
        {Finding("AGUI002", i, None, log[p].at) : p \in Beginning(n)}
  BY <1>1, <1>2, <1>6 DEF About, IndicesOf
<1> QED BY <1>7, <1>8

\* What any other entry deserves for its place.
LEMMA PlaceDeserved ==
  ASSUME NEW n, NEW i, NEW e, Grows(n, i, e), e.type # "RUN_STARTED"
  PROVE  /\ e.type \in ProtocolTypes /\ TerminalOf(n) # {} =>
              DeservedByPlace(n + 1)' =
                {Finding(IF e.type \in TerminalTypes \ {TypeAt(p)} THEN "AGUI005" ELSE "AGUI004",
                         i, None, log[p].at) : p \in TerminalOf(n)}
         /\ e.type = "RUN_FINISHED" /\ TerminalOf(n) = {} =>
              DeservedByPlace(n + 1)' =
                UNION {About("AGUI008", i, field, Beginning(n + 1))' :
                       field \in Contradicted(n + 1)'}
         /\ e.type = "END_OF_STREAM" /\ TerminalOf(n) = {} =>
              DeservedByPlace(n + 1)' =
                {Finding("AGUI003", i, None, log'[p].at) : p \in Beginning(n + 1)'}
         /\ /\ e.type \notin {"RUN_FINISHED", "END_OF_STREAM"}
            /\ e.type \notin ProtocolTypes \/ TerminalOf(n) = {}
            => DeservedByPlace(n + 1)' = {}
         /\ e.type = "END_OF_STREAM" /\ TerminalOf(n) # {} => DeservedByPlace(n + 1)' = {}
<1>1. /\ n \in Nat /\ n \in 0..n /\ (n + 1) - 1 = n
      /\ \A p \in 1..n : log'[p] = log[p]
      /\ log'[n + 1] = [at |-> i, event |-> e]
  BY DEF Grows
<1>2. log'[n + 1].event = e /\ log'[n + 1].at = i /\ TypeAt(n + 1)' = e.type
  BY <1>1 DEF TypeAt
<1>3. TerminalOf((n + 1) - 1)' = TerminalOf(n) /\ TerminalOf(n) \subseteq 1..n
  BY <1>1, TerminalPast, TerminalOfGrows
<1> DEFINE type == e.type
           ended == TerminalOf(n)
<1>4. DeservedByPlace(n + 1)' =
    CASE type \in ProtocolTypes \ {"RUN_STARTED"} /\ ended # {} ->
           AfterEnd(log[n + 1].at, TypeAt(n + 1), TerminalOf((n + 1) - 1))'
      [] type = "RUN_FINISHED" /\ ended = {} ->
           UNION {About("AGUI008", log[n + 1].at, field, Beginning(n + 1))' :
                  field \in Contradicted(n + 1)'}
      [] type = "END_OF_STREAM" /\ ended = {} ->
           About("AGUI003", log[n + 1].at, None, Beginning(n + 1))'
      [] OTHER -> {}
  BY <1>2, <1>3 DEF DeservedByPlace
<1>5. AfterEnd(log[n + 1].at, TypeAt(n + 1), TerminalOf((n + 1) - 1))' =
        {Finding(IF e.type \in TerminalTypes \ {TypeAt(p)} THEN "AGUI005" ELSE "AGUI004",
                 i, None, log[p].at) : p \in ended}
  <2> DEFINE Said(p) ==
               About(IF e.type \in TerminalTypes \ {TypeAt(p)} THEN "AGUI005" ELSE "AGUI004",
                     log[n + 1].at, None, {p})'
             Rule(p) == IF e.type \in TerminalTypes \ {TypeAt(p)} THEN "AGUI005" ELSE "AGUI004"
  <2>1. \A p \in ended : TypeAt(p)' = TypeAt(p) /\ log'[p].at = log[p].at
    BY <1>1, <1>3 DEF TypeAt
  <2>2. AfterEnd(log[n + 1].at, TypeAt(n + 1), TerminalOf((n + 1) - 1))' =
          UNION {Said(p) : p \in ended}
    BY <1>2, <1>3 DEF AfterEnd
  <2>3. \A p \in ended : Said(p) = {Finding(Rule(p), i, None, log[p].at)}
    BY <1>2, <2>1 DEF About, IndicesOf
  <2> HIDE DEF Rule, Said
  <2>4. UNION {Said(p) : p \in ended} = {Finding(Rule(p), i, None, log[p].at) : p \in ended}
    BY <2>3
  <2> QED BY <2>2, <2>4 DEF Rule
<1>6. About("AGUI003", log[n + 1].at, None, Beginning(n + 1))' =
        {Finding("AGUI003", i, None, log'[p].at) : p \in Beginning(n + 1)'}
  BY <1>2 DEF About, IndicesOf
<1>7. UNION {About("AGUI008", log[n + 1].at, field, Beginning(n + 1))' :
             field \in Contradicted(n + 1)'}
      = UNION {About("AGUI008", i, field, Beginning(n + 1))' :
               field \in Contradicted(n + 1)'}
  BY <1>2 DEF About
<1>8. "RUN_FINISHED" \in ProtocolTypes /\ "END_OF_STREAM" \notin ProtocolTypes
  BY DEF ProtocolTypes, TerminalTypes
<1> QED BY <1>4, <1>5, <1>6, <1>7, <1>8
LEMMA LifecycleToldExactly ==
  ASSUME LifecycleInv, LifecycleInv', NEW n, NEW i, i = eventCount, NEW e \in StreamInputs,
         Grows(n, i, e), StreamMirrored(n), StreamMirrored(n + 1)', StreamInput(e)
  PROVE  lifecycleFound' = LifecycleDeserved(n + 1)'
<1>1. /\ LifecycleDeserved(n + 1)' =
           DeservedByPlace(n + 1)' \cup DeservedByShape(n + 1)' \cup DeservedByStream(n + 1)'
           \cup Advised(n + 1)'
      /\ Grows(n, eventCount, e)
      /\ EndMirrored(n) /\ RunMirrored(n) /\ RunMirrored(n + 1)'
  BY DEF LifecycleDeserved, StreamMirrored
<1>2. DeservedByShape(n + 1)' =
           IF e.type = "MALFORMED" THEN Note("AGUI502", None, None)
           ELSE IF e.type = "UNTYPED" THEN Note("AGUI504", "type", None)
           ELSE SchemaFindings(e)
                \cup IF e.type = "UNKNOWN" THEN Note("AGUI503", None, None) ELSE {}
  BY <1>1, ShapeDeserved
<1>3. /\ e.type \in {"MALFORMED", "UNTYPED", "UNKNOWN"} \cup ProtocolTypes
      /\ e.type \in {"RAW", "CUSTOM"} => e.noted \in BOOLEAN
  BY InputFields
<1>4. DeservedByStream(n + 1)' =
           IF e.type \in ProtocolTypes \ {"RUN_STARTED"} THEN OpeningFindings ELSE {}
  BY <1>1, <1>3, StreamDeserved DEF ProtocolTypes, TerminalTypes
<1>5. Advised(n + 1)' =
           IF e.type \in {"RAW", "CUSTOM"} /\ e.noted /\ TerminalOf(n) = {}
           THEN Note(IF e.type = "RAW" THEN "AGUI901" ELSE "AGUI903", None, None) ELSE {}
  BY <1>1, AdviceDeserved
<1>6. TerminalOf(n) = {} <=> terminal = None
  BY <1>1 DEF EndMirrored, TerminalOf, First
<1>7. ProtocolTypes = {"RUN_FINISHED", "RUN_ERROR", "RUN_STARTED", "EVENT", "RAW", "CUSTOM"}
  BY DEF ProtocolTypes, TerminalTypes
<1>8. CASE Unreadable(e) \/ UnknownType(e)
  <2>1. e.type \in {"MALFORMED", "UNTYPED", "UNKNOWN"}
    BY <1>8 DEF Unreadable, UnknownType
  <2>2. DeservedByPlace(n + 1)' = {}
    BY <1>7, <2>1, PlaceDeserved
  <2>3. lifecycleFound' = DeservedByShape(n + 1)'
    <3>1. ASSUME Unreadable(e) PROVE lifecycleFound' = DeservedByShape(n + 1)'
      BY <1>2, <3>1 DEF Unreadable
    <3>2. ASSUME UnknownType(e) PROVE lifecycleFound' = DeservedByShape(n + 1)'
      <4>1. /\ e.type = "UNKNOWN"
            /\ lifecycleFound' = SchemaFindings(e) \cup Note("AGUI503", None, None)
        BY <3>2 DEF UnknownType
      <4> QED BY <1>2, <4>1
    <3> QED BY <1>8, <3>1, <3>2
  <2> QED BY <1>1, <1>4, <1>5, <1>7, <2>1, <2>2, <2>3
<1>9. CASE RunStarted(e)
  <2>1. e.type = "RUN_STARTED"
    BY <1>9 DEF RunStarted
  <2>2. DeservedByPlace(n + 1)' =
          IF terminal = None /\ Naming(n) # {}
          THEN {Finding("AGUI002", i, None, log[p].at) : p \in Beginning(n)} ELSE {}
    BY <1>6, <2>1, StartDeserved
  <2>3. LifecycleDeserved(n + 1)' = DeservedByPlace(n + 1)' \cup SchemaFindings(e)
    BY <1>1, <1>2, <1>4, <1>5, <2>1
  <2>4. run = None => Naming(n) = {}
    BY <1>1, StartsGrow DEF RunMirrored, Naming, First
  <2>5. run # None => (Naming(n) = {} <=> run.implicit)
    BY <1>1 DEF RunMirrored, Naming, First
  <2>6. run # None => {Finding("AGUI002", i, None, log[p].at) : p \in Beginning(n)}
                      = Note("AGUI002", None, run.start)
    BY <1>1 DEF RunMirrored, Note
  <2>7. \/ (run = None \/ terminal # None \/ run.implicit) /\ lifecycleFound' = SchemaFindings(e)
        \/ /\ run # None /\ terminal = None /\ ~run.implicit
           /\ lifecycleFound' = SchemaFindings(e) \cup Note("AGUI002", None, run.start)
    BY <1>9 DEF RunStarted, NewRun, Judged
  <2> QED BY <2>2, <2>3, <2>4, <2>5, <2>6, <2>7
<1>10. CASE RunEnds(e)
  <2>1. e.type \in TerminalTypes /\ terminal = None
    BY <1>10 DEF RunEnds, Ends
  <2>2. LifecycleDeserved(n + 1)' =
          DeservedByPlace(n + 1)' \cup SchemaFindings(e) \cup OpeningFindings
    BY <1>1, <1>2, <1>4, <1>5, <1>7, <2>1 DEF TerminalTypes
  <2>3. ASSUME e.type = "RUN_FINISHED" PROVE DeservedByPlace(n + 1)' = UnstableIds(e)
    <3>1. run' # None
      BY <1>10, EnsuresRunType DEF RunEnds
    <3>2. DeservedByPlace(n + 1)' =
            UNION {About("AGUI008", i, field, Beginning(n + 1))' :
                   field \in Contradicted(n + 1)'}
      BY <1>6, <2>1, <2>3, PlaceDeserved
    <3>3. UNION {About("AGUI008", i, field, Beginning(n + 1))' :
                 field \in Contradicted(n + 1)'}
          = UnstableIds(e)
      BY <1>1, <3>1, UnstableDeserved
    <3> QED BY <3>2, <3>3
  <2>4. e.type # "RUN_FINISHED" => DeservedByPlace(n + 1)' = {}
    BY <1>6, <2>1, PlaceDeserved DEF TerminalTypes
  <2>5. lifecycleFound' = SchemaFindings(e) \cup OpeningFindings
                          \cup IF e.type = "RUN_FINISHED" THEN UnstableIds(e) ELSE {}
    BY <1>10 DEF RunEnds
  <2> QED BY <2>2, <2>3, <2>4, <2>5
<1>11. CASE OrdinaryEvent(e)
  <2>1. e.type \in {"EVENT", "RAW", "CUSTOM"} /\ terminal = None
    BY <1>11 DEF OrdinaryEvent, Judged
  <2>2. DeservedByPlace(n + 1)' = {}
    BY <1>6, <2>1, PlaceDeserved
  <2>3. Advised(n + 1)' = Advice(e)
    BY <1>3, <1>5, <1>6, <2>1 DEF Advice
  <2>4. lifecycleFound' = SchemaFindings(e) \cup OpeningFindings \cup Advice(e)
    BY <1>11 DEF OrdinaryEvent
  <2> QED BY <1>1, <1>2, <1>4, <1>7, <2>1, <2>2, <2>3, <2>4
<1>12. CASE AfterTerminal(e)
  <2>1. /\ e.type \in ProtocolTypes \ {"RUN_STARTED"} /\ terminal # None
        /\ lifecycleFound' =
             SchemaFindings(e)
             \cup Note(IF e.type \in TerminalTypes \ {terminal.type} THEN "AGUI005" ELSE "AGUI004",
                       None, terminal.index)
    BY <1>7, <1>12 DEF AfterTerminal, TerminalTypes
  <2>2. OpeningFindings = {}
    BY <2>1 DEF OpeningFindings, LifecycleInv, TerminalFollowsStart
  <2>3. /\ TerminalOf(n) # {}
        /\ \A p \in TerminalOf(n) : terminal.type = TypeAt(p) /\ terminal.index = log[p].at
    BY <1>1, <2>1 DEF EndMirrored
  <2>4. DeservedByPlace(n + 1)' =
          {Finding(IF e.type \in TerminalTypes \ {TypeAt(p)} THEN "AGUI005" ELSE "AGUI004",
                   i, None, log[p].at) : p \in TerminalOf(n)}
    BY <2>1, <2>3, PlaceDeserved
  <2>5. DeservedByPlace(n + 1)' =
          Note(IF e.type \in TerminalTypes \ {terminal.type} THEN "AGUI005" ELSE "AGUI004",
               None, terminal.index)
    BY <2>3, <2>4 DEF Note
  <2> QED BY <1>1, <1>2, <1>4, <1>5, <1>6, <1>7, <2>1, <2>2, <2>3, <2>5
<1> QED BY <1>8, <1>9, <1>10, <1>11, <1>12 DEF StreamInput

\* The end of the stream deserves its report too.
LEMMA EndToldExactly ==
  ASSUME LifecycleInv, NEW n, NEW i, i = AtEndOfStream, NEW e, e = Mark("END_OF_STREAM"),
         Grows(n, i, e), StreamMirrored(n), LifecycleFinalize
  PROVE  lifecycleFound' = LifecycleDeserved(n + 1)'
<1>1. /\ n \in Nat /\ (n + 1) - 1 = n
      /\ \A p \in 1..n : log'[p] = log[p]
      /\ log'[n + 1] = [at |-> i, event |-> e]
  BY DEF Grows
<1>2. /\ log'[n + 1].event = e /\ log'[n + 1].at = i /\ TypeAt(n + 1)' = "END_OF_STREAM"
      /\ e.type = "END_OF_STREAM" /\ DOMAIN e = {"type"}
  BY <1>1 DEF TypeAt, Mark
<1>3. /\ EndMirrored(n) /\ RunMirrored(n) /\ (sawTimestamp <=> Stamped(n) # {})
      /\ eventCount = n
  BY DEF StreamMirrored
<1>4. "END_OF_STREAM" \notin ProtocolTypes
  BY DEF ProtocolTypes, TerminalTypes
<1>5. DeservedByShape(n + 1)' = {}
  BY <1>2 DEF DeservedByShape
<1>6. Advised(n + 1)' = {}
  BY <1>2 DEF Advised
<1>7. DeservedByStream(n + 1)' =
        IF eventCount > 0 /\ ~sawTimestamp
        THEN {Finding("AGUI902", AtEndOfStream, None, None)} ELSE {}
  <2>1. Stamped((n + 1) - 1)' = Stamped(n)
    BY <1>1, StampedGrows
  <2>2. ProtocolEvents(n + 1)' # {n + 1}
    <3>1. ProtocolEvents(n + 1)' = ProtocolEvents(n) /\ ProtocolEvents(n) \subseteq 1..n
      BY <1>2, <1>4, ProtocolGrows
    <3> QED BY <1>1, <3>1
  <2>3. n + 1 > 1 <=> eventCount > 0
    BY <1>1, <1>3
  <2> QED BY <1>2, <1>3, <2>1, <2>2, <2>3 DEF DeservedByStream
<1>8. DeservedByPlace(n + 1)' = UnterminatedRun
  <2>1. TerminalOf(n) = {} <=> terminal = None
    BY <1>3 DEF EndMirrored, TerminalOf, First
  <2>2. CASE terminal # None
    BY <1>2, <2>1, <2>2, PlaceDeserved DEF UnterminatedRun
  <2>3. CASE terminal = None
    <3>1. DeservedByPlace(n + 1)' =
            {Finding("AGUI003", i, None, log'[p].at) : p \in Beginning(n + 1)'}
      BY <1>2, <2>1, <2>3, PlaceDeserved
    <3>2. CASE run = None
      <4>1. Beginning(n + 1)' = {}
        BY <1>2, <1>3, <1>4, <3>2, BeginningGrows DEF RunMirrored
      <4> QED BY <3>1, <3>2, <4>1 DEF UnterminatedRun
    <3>3. CASE run # None
      <4>1. /\ Beginning(n + 1)' = Beginning(n) /\ Beginning(n) # {} /\ Beginning(n) \subseteq 1..n
            /\ \A p \in Beginning(n) : run.start = log'[p].at
        BY <1>1, <1>2, <1>3, <3>3, BeginningGrows DEF RunMirrored
      <4> QED BY <2>3, <3>1, <3>3, <4>1 DEF UnterminatedRun
    <3> QED BY <3>2, <3>3
  <2> QED BY <2>2, <2>3
<1> QED BY <1>5, <1>6, <1>7, <1>8 DEF LifecycleDeserved, LifecycleFinalize
-----------------------------------------------------------------------------
\* The stream's own invariant, and what the scope and the log agree on.
HistoryInv ==
  /\ LifecycleInv
  /\ IsLog(LoggedInputs)
  /\ LifecycleMirrors
  /\ LifecycleFindingsExact

LEMMA HistoryStarts == HistoryInit => HistoryInv
<1> SUFFICES ASSUME HistoryInit PROVE HistoryInv
  OBVIOUS
<1>1. /\ log = <<>> /\ Len(log) = 0
      /\ LifecycleInit /\ run = None /\ terminal = None /\ eventCount = 0
      /\ ~agui001Fired /\ ~sawTimestamp
  BY DEF HistoryInit, LifecycleInit, ScopeInit
<1>2. LifecycleInv
  BY <1>1, LifecycleStarts
<1>3. IsLog(LoggedInputs)
  BY <1>1 DEF IsLog
<1>4. \A types : OfType(types, 0) = {}
  BY DEF OfType
<1>5. Terminals(0) = {} /\ TerminalOf(0) = {} /\ ProtocolEvents(0) = {} /\ Renewals(0) = {}
  BY <1>4 DEF Terminals, TerminalOf, ProtocolEvents, Renewals, First
<1>6. Beginning(0) = {} /\ Starts(0) = {} /\ Naming(0) = {} /\ Stamped(0) = {}
  BY <1>4, <1>5 DEF Beginning, Starts, Naming, Stamped, First
<1>7. StreamMirrored(0)
  BY <1>1, <1>5, <1>6 DEF StreamMirrored, EndMirrored, RunMirrored
<1> QED BY <1>1, <1>2, <1>3, <1>7 DEF HistoryInv, LifecycleMirrors, LifecycleFindingsExact

LEMMA HistoryStands ==
  ASSUME HistoryInv, UNCHANGED historyVars
  PROVE  HistoryInv'
<1>1. UNCHANGED <<log, eventCount, terminal, finalized, run, agui001Fired, sawTimestamp,
                  lifecycleFound>>
  BY DEF historyVars, lifecycleVars, scopeVars
<1>2. LifecycleInv' /\ IsLog(LoggedInputs)'
  BY <1>1 DEF HistoryInv, LifecycleInv, RunTypeOK, ScopeTypeOK, TerminalFollowsStart, IsLog
<1>3. ASSUME NEW n
      PROVE  /\ \A types : OfType(types, n)' = OfType(types, n)
             /\ TypeAt(n)' = TypeAt(n)
             /\ Stamped(n)' = Stamped(n)
  BY <1>1 DEF OfType, TypeAt, Stamped
<1>4. ASSUME NEW n PROVE Terminals(n)' = Terminals(n) /\ TerminalOf(n)' = TerminalOf(n)
  BY <1>3 DEF Terminals, TerminalOf, First
<1>5. ASSUME NEW n PROVE Beginning(n)' = Beginning(n)
  BY <1>3, <1>4 DEF Beginning, Renewals, ProtocolEvents, First, Last
<1>6. ASSUME NEW n PROVE Starts(n)' = Starts(n) /\ Naming(n)' = Naming(n)
  BY <1>3, <1>5 DEF Starts, Naming, First
<1>7. ASSUME NEW n PROVE StreamMirrored(n)' <=> StreamMirrored(n)
  BY <1>1, <1>3, <1>4, <1>5, <1>6
     DEF StreamMirrored, EndMirrored, RunMirrored, ProtocolEvents
<1>8. ASSUME NEW n PROVE LifecycleDeserved(n)' = LifecycleDeserved(n)
  <2>1. DeservedByPlace(n)' = DeservedByPlace(n)
    BY <1>1 DEF DeservedByPlace, AfterEnd, About, IndicesOf, Contradicted, Contradicts, Naming,
                Starts, Beginning, Renewals, ProtocolEvents, TerminalOf, Terminals, OfType,
                First, Last, TypeAt
  <2>2. DeservedByShape(n)' = DeservedByShape(n)
    BY <1>1 DEF DeservedByShape
  <2>3. DeservedByStream(n)' = DeservedByStream(n)
    BY <1>1, <1>3 DEF DeservedByStream, ProtocolEvents
  <2>4. Advised(n)' = Advised(n)
    BY <1>1, <1>3, <1>4 DEF Advised
  <2> QED BY <2>1, <2>2, <2>3, <2>4 DEF LifecycleDeserved
<1> QED BY <1>1, <1>2, <1>7, <1>8 DEF HistoryInv, LifecycleMirrors, LifecycleFindingsExact

LEMMA HistoryGrows ==
  ASSUME HistoryInv, HistoryNext
  PROVE  HistoryInv'
<1>1. LifecycleInv /\ ScopeTypeOK /\ IsLog(LoggedInputs)
  BY DEF HistoryInv, LifecycleInv, RunTypeOK
<1>2. ASSUME NEW i \in Indices, NEW e \in LoggedInputs, Logs(i, e)
      PROVE  IsLog(LoggedInputs)' /\ \E n : Grows(n, i, e)
  BY <1>1, <1>2, LogGrows, NextEntry
<1>3. ~finalized /\ StreamMirrored(Len(log))
  BY DEF HistoryInv, HistoryNext, LifecycleMirrors, LifecycleFinalize, Finalizes
<1>4. ASSUME NEW e \in StreamInputs, StreamInput(e), Logs(eventCount, e) PROVE HistoryInv'
  <2>1. LifecycleInv'
    BY <1>1, <1>4, TurnedAwayPreserves, RunStartedPreserves, JudgedPreserves DEF StreamInput
  <2>2. PICK i \in Indices : i = eventCount
    BY <1>1 DEF ScopeTypeOK, Indices
  <2>3. e \in LoggedInputs
    BY DEF LoggedInputs
  <2>4. Logs(i, e)
    BY <1>4, <2>2
  <2>5. PICK n : Grows(n, i, e)
    BY <1>2, <2>3, <2>4
  <2>6. Len(log) = n /\ Len(log') = n + 1 /\ Grows(n, eventCount, e)
    BY <2>2, <2>5 DEF Grows
  <2>7. StreamMirrored(n) /\ StreamMirrored(n + 1)'
    BY <1>1, <1>3, <1>4, <2>1, <2>6, StreamMirrorGrows
  <2>8. lifecycleFound' = LifecycleDeserved(n + 1)'
    BY <1>1, <1>4, <2>1, <2>2, <2>5, <2>7, LifecycleToldExactly
  <2>9. IsLog(LoggedInputs)'
    BY <1>2, <2>3, <2>4
  <2> QED BY <2>1, <2>6, <2>7, <2>8, <2>9
          DEF HistoryInv, LifecycleMirrors, LifecycleFindingsExact
<1>5. ASSUME LifecycleFinalize, Logs(AtEndOfStream, Mark("END_OF_STREAM")) PROVE HistoryInv'
  <2>1. LifecycleInv' /\ finalized'
    BY <1>1, <1>5, FinalizePreserves DEF LifecycleFinalize, Finalizes
  <2>2. PICK i \in Indices, e \in LoggedInputs : i = AtEndOfStream /\ e = Mark("END_OF_STREAM")
    BY DEF Indices, LoggedInputs
  <2>3. Logs(i, e)
    BY <1>5, <2>2
  <2>4. PICK n : Grows(n, i, e)
    BY <1>2, <2>3
  <2>5. Len(log) = n /\ Len(log') = n + 1
    BY <2>4 DEF Grows
  <2>6. lifecycleFound' = LifecycleDeserved(n + 1)'
    BY <1>1, <1>3, <1>5, <2>2, <2>4, <2>5, EndToldExactly
  <2>7. IsLog(LoggedInputs)'
    BY <1>2, <2>3
  <2> QED BY <2>1, <2>5, <2>6, <2>7
          DEF HistoryInv, LifecycleMirrors, LifecycleFindingsExact
<1> QED BY <1>4, <1>5 DEF HistoryNext

\* For any stream, the lifecycle rules report every input exactly as its place in the
\* stream deserves: the run scope, which remembers no stream, knows of the current run
\* what the whole stream says of it.
THEOREM LifecycleExact == HistorySpec => []LifecycleFindingsExact
<1>1. HistoryInv /\ [HistoryNext]_historyVars => HistoryInv'
  BY HistoryStands, HistoryGrows
<1>2. HistoryInv => LifecycleFindingsExact
  BY DEF HistoryInv
<1> QED BY <1>1, <1>2, HistoryStarts, PTL DEF HistorySpec
\* The log only watches: every stream is a behaviour of the run lifecycle, so that what
\* is proved of the one holds of the other.
THEOREM HistoryImplementsLifecycle == HistorySpec => LifecycleSpec
<1>1. HistoryInit => LifecycleInit
  BY DEF HistoryInit
<1>2. [HistoryNext]_historyVars => [LifecycleNext]_lifecycleVars
  BY DEF HistoryNext, LifecycleNext, historyVars
<1> QED BY <1>1, <1>2, PTL DEF HistorySpec, LifecycleSpec

-----------------------------------------------------------------------------
(* The transport and the command.                                           *)

\* Before a call begins nothing was read and nothing said; a list is validated
\* for nobody who listens.
Outset ==
  /\ call = None => pc = "main"
  /\ pc = "main" => /\ run = None /\ ~runOpen /\ ~waiting
                    /\ diagnostics = <<>> /\ told = <<>>
  /\ pc = "list" => listener = "none" /\ call.source = "list"
  /\ payloads \in Producers \cup {{}}

\* The inductive invariant: the core's own invariant holds under the transport,
\* whatever raises, and the two layers agree.
CommandInv == LifecycleInv /\ Outset /\ RunOpenAgrees /\ ListenerHearsAll

-----------------------------------------------------------------------------
LEMMA PayloadInputs ==
  ASSUME Outset, NEW p \in payloads
  PROVE  p.event \in StreamInputs
BY ProducersAssumption DEF Outset

\* A handler or a parser that raises leaves the run scope in order.
LEMMA RaisingPreserves ==
  ASSUME LifecycleInv, NEW p, HandlerFails(p) \/ ParserFails
  PROVE  LifecycleInv'
<1> USE DEF LifecycleInv, RunTypeOK
<1>1. Unjudged /\ UNCHANGED <<run, agui001Fired>> /\ sawTimestamp' \in BOOLEAN
  BY DEF HandlerFails, ParserFails, Observes
<1>2. lifecycleFound' \subseteq LifecycleFindings
  BY EventFindingsType DEF HandlerFails, ParserFails, ScopeTypeOK
<1>3. ScopeTypeOK'
  BY <1>1, ScopePreserved
<1>4. TerminalFollowsStart'
  BY <1>1 DEF Unjudged, Fed, TerminalFollowsStart, Runs, ScopeTypeOK
<1> QED BY <1>1, <1>2, <1>3, <1>4

LEMMA InputPreserves ==
  ASSUME LifecycleInv, NEW e \in StreamInputs, StreamInput(e)
  PROVE  LifecycleInv'
BY TurnedAwayPreserves, RunStartedPreserves, JudgedPreserves DEF StreamInput

LEMMA FeedsPreserves ==
  ASSUME LifecycleInv, Outset, NEW p \in payloads, Feeds(p)
  PROVE  LifecycleInv'
BY PayloadInputs, RaisingPreserves, InputPreserves DEF Feeds, Handles

\* finalize() may raise as well; it never touches the run.
LEMMA FinalizeKeepsRun ==
  ASSUME LifecycleInv, Finalize
  PROVE  /\ LifecycleInv'
         /\ UNCHANGED <<run, terminal>>
         /\ internalError => internalError'
<1>1. CASE FinalizeRaises
  <2>1. Finalizes /\ lifecycleFound' = {} /\ internalError' = TRUE
        /\ UNCHANGED <<run, agui001Fired, sawTimestamp>>
    BY <1>1 DEF Finalize
  <2>2. ScopeTypeOK'
    BY <2>1, ScopePreserved DEF LifecycleInv, RunTypeOK
  <2>3. TerminalFollowsStart'
    BY <2>1 DEF Finalizes, TerminalFollowsStart, LifecycleInv
  <2> QED BY <2>1, <2>2, <2>3 DEF Finalizes, LifecycleInv, RunTypeOK
<1>2. CASE ~FinalizeRaises
  <2>1. LifecycleFinalize /\ UNCHANGED internalError
    BY <1>2 DEF Finalize
  <2> QED BY <2>1, FinalizePreserves DEF LifecycleFinalize, Finalizes
<1> QED BY <1>1, <1>2

-----------------------------------------------------------------------------
\* The type of a payload decides alike, for the flag of the transport layer and
\* for the run scope, whether an announced run is open.
LEMMA InputsAgree ==
  ASSUME LifecycleInv, NEW p, p.event \in StreamInputs, p.nested # "payload",
         StreamInput(p.event), RunOpenFollows(p), runOpen <=> InAnnouncedRun
  PROVE  runOpen' <=> InAnnouncedRun'
<1> DEFINE e == p.event
<1> USE DEF LifecycleInv, RunTypeOK
<1>1. CASE Unreadable(e) \/ UnknownType(e)
  BY <1>1 DEF Unreadable, UnknownType, Unjudged, RunOpenFollows, TerminalTypes, InAnnouncedRun
<1>2. CASE RunStarted(e)
  <2>1. terminal' = None
    BY <1>2 DEF RunStarted, Judged, NewRun
  <2>2. run' # None /\ ~run'.implicit
    <3>1. LifecycleInv'
      BY <1>2, RunStartedPreserves
    <3>2. /\ e.runId \in RunIds \cup {None}
          /\ e.threadId \in ThreadIds \cup {None}
      BY <1>2, StreamInputsAssumption
         DEF RunStarted, UnreadableInputs, UnknownEvents, RunEvents, NotedEvents
    <3>3. CASE run' = Announced(e)
      <4>1. run' \in Runs
        BY <3>2, <3>3 DEF Announced, Runs, ScopeTypeOK
      <4> QED BY <3>3, <4>1, NoRunAssumption DEF Announced
    <3>4. CASE run # None /\ run' = Legitimized(e)
      <4>1. run' \in Runs /\ ~run'.implicit
        BY <3>2, <3>4 DEF Legitimized, Runs
      <4> QED BY <4>1, NoRunAssumption
    <3>5. CASE run # None /\ ~run.implicit /\ UNCHANGED run
      BY <3>5
    <3> QED BY <1>2, <3>3, <3>4, <3>5 DEF RunStarted
  <2>3. runOpen' = TRUE
    BY <1>2 DEF RunStarted, RunOpenFollows, TerminalTypes
  <2> QED BY <2>1, <2>2, <2>3 DEF InAnnouncedRun
<1>3. CASE RunEnds(e)
  <2>1. e.type \in TerminalTypes /\ terminal' = [type |-> e.type, index |-> eventCount]
    BY <1>3 DEF RunEnds, Ends
  <2>2. LifecycleInv'
    BY <1>3, JudgedPreserves
  <2>3. terminal' # None
    BY <1>3, <2>1, <2>2, NoTerminalAssumption DEF ScopeTypeOK
  <2>4. runOpen' = FALSE
    BY <2>1 DEF RunOpenFollows, TerminalTypes
  <2> QED BY <2>3, <2>4 DEF InAnnouncedRun
<1>4. CASE OrdinaryEvent(e)
  <2>1. UNCHANGED <<runOpen, terminal>>
    BY <1>4 DEF OrdinaryEvent, Judged, RunOpenFollows, TerminalTypes
  <2>2. CASE run = None
    <3>1. run'.implicit
      BY <1>4, <2>2 DEF OrdinaryEvent, EnsuresRun
    <3> QED BY <2>1, <2>2, <3>1 DEF InAnnouncedRun
  <2>3. CASE run # None
    BY <1>4, <2>1, <2>3 DEF OrdinaryEvent, EnsuresRun, InAnnouncedRun
  <2> QED BY <2>2, <2>3
<1>5. CASE AfterTerminal(e)
  <2>1. UNCHANGED <<run, terminal>> /\ terminal # None
    BY <1>5 DEF AfterTerminal, Unjudged
  <2>2. runOpen' = FALSE
    BY <1>5, <2>1 DEF AfterTerminal, RunOpenFollows, InAnnouncedRun, TerminalTypes
  <2> QED BY <2>1, <2>2 DEF InAnnouncedRun
<1> QED BY <1>1, <1>2, <1>3, <1>4, <1>5 DEF StreamInput

-----------------------------------------------------------------------------
\* What most actions do: the core and the transport's flag are left alone, and a
\* listener that hears is told what is added to the report.
Quiet ==
  /\ UNCHANGED <<coreVars, runOpen, callVars>>
  /\ call # None
  /\ pc' # "main"
  /\ pc' = "list" => pc = "list"
  /\ \/ UNCHANGED <<diagnostics, told>>
     \/ listener = "breaks"
     \/ \E batch : Tells(batch) /\ diagnostics' = diagnostics \o batch

LEMMA TellsKeepsUp ==
  ASSUME ListenerHearsAll, NEW batch, Tells(batch), diagnostics' = diagnostics \o batch,
         UNCHANGED listener
  PROVE  ListenerHearsAll'
BY DEF ListenerHearsAll, Tells

LEMMA QuietPreserves ==
  ASSUME CommandInv, Quiet
  PROVE  CommandInv'
<1> USE DEF CommandInv, Quiet
<1>1. LifecycleInv'
  BY DEF coreVars, lifecycleVars, scopeVars, LifecycleInv, RunTypeOK, ScopeTypeOK,
         TerminalFollowsStart
<1>2. Outset'
  BY DEF callVars, optionVars, Outset
<1>3. RunOpenAgrees'
  BY DEF RunOpenAgrees, InAnnouncedRun, callVars, coreVars, lifecycleVars, scopeVars
<1>4. ListenerHearsAll'
  <2>1. CASE UNCHANGED <<diagnostics, told>>
    BY <2>1 DEF callVars, optionVars, ListenerHearsAll
  <2>2. CASE listener = "breaks"
    BY <2>2 DEF callVars, optionVars, ListenerHearsAll
  <2> QED BY <2>1, <2>2, TellsKeepsUp DEF callVars, optionVars
<1> QED BY <1>1, <1>2, <1>3, <1>4

LEMMA BeforeReadingIsQuiet ==
  ASSUME Outset, FetchFails \/ Fetches \/ Opens
  PROVE  Quiet
<1>1. CASE FetchFails \/ Fetches
  BY <1>1 DEF Outset, Quiet, FetchFails, Fetches, reportVars
<1>2. CASE Opens
  BY <1>2 DEF Outset, Quiet, Opens, TellsUntilBroken
<1> QED BY <1>1, <1>2

LEMMA ConnectionIsQuiet ==
  ASSUME Outset, Asks \/ Chunk \/ EndOfBody \/ Breaks \/ Sniffed
  PROVE  Quiet
BY DEF Outset, Reading, Quiet, Asks, Chunk, EndOfBody, Breaks, Escapes, Sniffed, reportVars

LEMMA LoopIsQuiet ==
  ASSUME Outset, FramingProblem \/ HandlesFailure \/ LeavesLoop
  PROVE  Quiet
<1>1. CASE FramingProblem
  BY <1>1 DEF Outset, Quiet, FramingProblem, Escapes, TellsUntilBroken
<1>2. CASE HandlesFailure
  BY <1>2 DEF Outset, Quiet, HandlesFailure, TellsUntilBroken
<1>3. CASE LeavesLoop
  BY <1>3 DEF Outset, Quiet, LeavesLoop, reportVars
<1> QED BY <1>1, <1>2, <1>3

-----------------------------------------------------------------------------
LEMMA ItemPreserves ==
  ASSUME CommandInv, NEW p \in payloads, Item(p)
  PROVE  CommandInv'
<1> USE DEF CommandInv
<1>1. /\ Feeds(p) /\ RunOpenFollows(p)
      /\ pc = "read" /\ pc' \notin {"list", "main"}
      /\ UNCHANGED callVars
      /\ call # None
  BY DEF Item, Escapes, Outset
<1>2. LifecycleInv'
  BY <1>1, FeedsPreserves
<1>3. Outset'
  BY <1>1 DEF Outset, callVars, optionVars
<1>4. RunOpenAgrees'
  <2>1. CASE p.nested = "payload" \/ ClosesDeepChunk(p)
    <3>1. internalError' = TRUE
      BY <1>1, <2>1 DEF Feeds, ParserFails, Handles, HandlerFails
    <3> QED BY <3>1 DEF RunOpenAgrees
  <2>2. CASE p.nested # "payload" /\ ~ClosesDeepChunk(p)
    <3>1. StreamInput(p.event) /\ UNCHANGED internalError
      BY <1>1, <2>2 DEF Feeds, Handles, HandlerFails
    <3> QED BY <1>1, <2>2, <3>1, InputsAgree, PayloadInputs DEF RunOpenAgrees, callVars
  <2> QED BY <2>1, <2>2
<1>5. ListenerHearsAll'
  <2>1. CASE UNCHANGED <<diagnostics, told>>
    BY <1>1, <2>1 DEF ListenerHearsAll, callVars, optionVars
  <2>2. CASE listener = "breaks"
    BY <1>1, <2>2 DEF ListenerHearsAll, callVars, optionVars
  <2> QED BY <1>1, <2>1, <2>2, TellsKeepsUp DEF Item, TellsUntilBroken, callVars, optionVars
<1> QED BY <1>2, <1>3, <1>4, <1>5

LEMMA ListPreserves ==
  ASSUME CommandInv, ListEnds \/ \E p \in payloads : ListItem(p)
  PROVE  CommandInv'
<1> USE DEF CommandInv
<1>1. /\ pc = "list" /\ pc' \in {"list", "returned"}
      /\ UNCHANGED <<callVars, runOpen, told>>
      /\ listener = "none" /\ call # None /\ call.source = "list"
  BY DEF ListEnds, ListItem, Outset
<1>2. LifecycleInv'
  BY FeedsPreserves, FinalizeKeepsRun DEF ListEnds, ListItem
<1>3. Outset'
  BY <1>1 DEF Outset, callVars, optionVars
<1>4. ListenerHearsAll'
  BY <1>1 DEF ListenerHearsAll, callVars, optionVars
<1>5. RunOpenAgrees'
  BY <1>1 DEF RunOpenAgrees, Outset, callVars
<1> QED BY <1>2, <1>3, <1>4, <1>5

LEMMA WrapsUpPreserves ==
  ASSUME CommandInv, WrapsUp
  PROVE  CommandInv'
<1> USE DEF CommandInv
<1>1. /\ Finalize
      /\ pc' \notin {"list", "main"} /\ call # None
      /\ UNCHANGED <<callVars, runOpen>>
  BY DEF WrapsUp, Outset
<1>2. LifecycleInv' /\ UNCHANGED <<run, terminal>> /\ (internalError => internalError')
  BY <1>1, FinalizeKeepsRun
<1>3. Outset'
  BY <1>1 DEF Outset, callVars, optionVars
<1>4. RunOpenAgrees'
  BY <1>1, <1>2 DEF RunOpenAgrees, InAnnouncedRun, callVars
<1>5. ListenerHearsAll'
  <2>1. CASE listener = "breaks"
    BY <1>1, <2>1 DEF ListenerHearsAll, callVars, optionVars
  <2> QED BY <1>1, <2>1, TellsKeepsUp
          DEF WrapsUp, EndsTold, TellsUntilBroken, callVars, optionVars
<1> QED BY <1>2, <1>3, <1>4, <1>5

LEMMA ValidatesPreserves ==
  ASSUME CommandInv, Validates
  PROVE  CommandInv'
<1> USE DEF CommandInv
<1>1. /\ UNCHANGED <<coreVars, readVars, reportVars, runOpen>>
      /\ payloads' \in Producers
      /\ call' \in CallRecords /\ call'.source \in {"endpoint", "recording"}
      /\ pc' = Start(call')
  BY DEF Validates, CallOf, CallRecords
<1>2. pc' \notin {"list", "main"} /\ call' # None
  BY <1>1, NoCallAssumption DEF Start
<1>3. run = None /\ ~runOpen /\ diagnostics = <<>> /\ told = <<>>
  BY DEF Validates, Outset
<1>4. LifecycleInv'
  BY <1>1 DEF coreVars, lifecycleVars, scopeVars, LifecycleInv, RunTypeOK, ScopeTypeOK,
              TerminalFollowsStart
<1>5. Outset'
  BY <1>1, <1>2 DEF Outset
<1>6. RunOpenAgrees'
  BY <1>1, <1>3 DEF RunOpenAgrees, InAnnouncedRun, coreVars, lifecycleVars
<1>7. ListenerHearsAll'
  BY <1>1, <1>3 DEF ListenerHearsAll, reportVars
<1> QED BY <1>4, <1>5, <1>6, <1>7

LEMMA AsideKeeps ==
  ASSUME CommandInv, UNCHANGED transportVars
  PROVE  CommandInv'
BY DEF transportVars, coreVars, lifecycleVars, scopeVars, readVars, reportVars, callVars,
       optionVars, CommandInv, LifecycleInv, RunTypeOK, ScopeTypeOK, TerminalFollowsStart,
       Outset, RunOpenAgrees, InAnnouncedRun, ListenerHearsAll

LEMMA CommandInitInv ==
  ASSUME CommandInit
  PROVE  CommandInv
<1>1. LifecycleInv
  BY DEF CommandInit, FreshInit, LifecycleInit, ScopeInit, LifecycleInv, RunTypeOK,
         ScopeTypeOK, TerminalFollowsStart
<1>2. run = None /\ ~runOpen /\ ~waiting /\ diagnostics = <<>> /\ told = <<>>
  BY DEF CommandInit, FreshInit, LifecycleInit
<1>3. Outset
  <2>1. CASE FromCommandLine
    BY <1>2, <2>1 DEF FromCommandLine, Outset
  <2>2. CASE FromPython
    <3>1. /\ call \in CallRecords /\ pc = Start(call) /\ payloads \in Producers
          /\ call.source = "list" => listener = "none"
      BY <2>2, CallsAssumption DEF FromPython
    <3>2. pc # "main" /\ (pc = "list" => call.source = "list")
      BY <3>1 DEF Start, CallRecords
    <3> QED BY <3>1, <3>2, NoCallAssumption DEF Outset
  <2> QED BY <2>1, <2>2 DEF CommandInit
<1>4. RunOpenAgrees /\ ListenerHearsAll
  BY <1>2 DEF RunOpenAgrees, InAnnouncedRun, ListenerHearsAll
<1> QED BY <1>1, <1>3, <1>4 DEF CommandInv

LEMMA NextPreserves ==
  ASSUME CommandInv, CommandNext
  PROVE  CommandInv'
<1>1. Outset
  BY DEF CommandInv
<1>2. CASE Parses \/ AnswersAtOnce \/ Concludes
  BY <1>2, AsideKeeps DEF Parses, AnswersAtOnce, Concludes
<1>3. CASE Validates
  BY <1>3, ValidatesPreserves
<1>4. CASE Works
  BY <1>1, <1>4, ItemPreserves, ListPreserves, WrapsUpPreserves, QuietPreserves,
     BeforeReadingIsQuiet, ConnectionIsQuiet, LoopIsQuiet DEF Works
<1>5. CASE Network
  BY <1>1, <1>5, QuietPreserves, BeforeReadingIsQuiet, ConnectionIsQuiet
     DEF Network, ReadFails, TimesOut
<1> QED BY <1>2, <1>3, <1>4, <1>5 DEF CommandNext

-----------------------------------------------------------------------------
\* The inductive invariant holds in every reachable state of a call, whatever is
\* read and whatever raises (cli.py, transport/__init__.py).
THEOREM CommandInvariant == CommandSpec => []CommandInv
<1>1. CommandInit => CommandInv
  BY CommandInitInv
<1>2. CommandInv /\ [CommandNext]_commandVars => CommandInv'
  BY NextPreserves, AsideKeeps DEF commandVars
<1> QED BY <1>1, <1>2, PTL DEF CommandSpec

\* The run scopes keep their own invariant under the transport, exceptions in
\* handlers, in the parser and in finalize() included (engine.py, feed, finalize).
THEOREM ScopesSurviveExceptions == CommandSpec => []LifecycleInv
<1>1. CommandInv => LifecycleInv
  BY DEF CommandInv
<1> QED BY <1>1, CommandInvariant, PTL

\* For any payloads, the flag the transport layer reports AGUI508 by and the run
\* scope of the core agree on whether an announced run is open
\* (transport/__init__.py, feed_raw).
THEOREM LayersAgree == CommandSpec => []RunOpenAgrees
<1>1. CommandInv => RunOpenAgrees
  BY DEF CommandInv
<1> QED BY <1>1, CommandInvariant, PTL

\* For any payloads, a listener is told every diagnostic of the report in its
\* order (transport/__init__.py, on_diagnostic).
THEOREM ListenersHearAll == CommandSpec => []ListenerHearsAll
<1>1. CommandInv => ListenerHearsAll
  BY DEF CommandInv
<1> QED BY <1>1, CommandInvariant, PTL

-----------------------------------------------------------------------------
(* What is reported, and what is said of it when the call returns.          *)

OverridesTyped == \A rule \in DOMAIN overrides : overrides[rule] \in Overrides

\* batch has a diagnostic for each of the rules that is not off, and no other.
IsBatch(batch, rules) ==
  /\ batch \in Seq(Diagnostics)
  /\ \A i \in 1..Len(batch) : /\ batch[i].rule \in rules /\ ~ IsOff(batch[i].rule)
                              /\ batch[i].severity = SeverityOf(batch[i].rule)
  /\ \A rule \in rules : ~ IsOff(rule) => \E i \in 1..Len(batch) : batch[i].rule = rule

LEMMA DiagnosisType ==
  ASSUME OverridesTyped, NEW rule \in Rules, ~ IsOff(rule)
  PROVE  /\ Diagnosis(rule) \in Diagnostics
         /\ Diagnosis(rule).rule = rule /\ Diagnosis(rule).severity = SeverityOf(rule)
<1>1. SeverityOf(rule) \in Severities
  <2>1. CASE rule \in DOMAIN overrides
    BY <2>1 DEF SeverityOf, IsOff, OverridesTyped, Overrides
  <2>2. CASE rule \notin DOMAIN overrides
    <3>1. CatalogSeverity(rule) \in Severities
      BY DEF CatalogSeverity, Rules, CatalogErrors, CatalogWarnings, CatalogInfos, Severities
    <3> QED BY <2>2, <3>1 DEF SeverityOf
  <2> QED BY <2>1, <2>2
<1> QED BY <1>1 DEF Diagnosis, Diagnostics

LEMMA BatchOfNone == IsBatch(<<>>, {})
BY DEF IsBatch

LEMMA BatchGrows ==
  ASSUME OverridesTyped, NEW batch, NEW rules, IsBatch(batch, rules), NEW rule \in Rules
  PROVE  IsBatch(IF IsOff(rule) THEN batch ELSE Append(batch, Diagnosis(rule)),
                 rules \cup {rule})
<1>1. CASE IsOff(rule)
  BY <1>1 DEF IsBatch
<1>2. CASE ~ IsOff(rule)
  <2>1. PICK d : d = Diagnosis(rule)
    OBVIOUS
  <2>2. d \in Diagnostics /\ d.rule = rule /\ d.severity = SeverityOf(rule)
    BY <1>2, <2>1, DiagnosisType
  <2>3. PICK b : b = Append(batch, d)
    OBVIOUS
  <2>4. /\ b \in Seq(Diagnostics) /\ Len(b) = Len(batch) + 1 /\ Len(batch) \in Nat
        /\ b[Len(batch) + 1] = d /\ \A i \in 1..Len(batch) : b[i] = batch[i]
    BY <2>2, <2>3 DEF IsBatch
  <2>5. \A i \in 1..Len(b) : i \in 1..Len(batch) \/ i = Len(batch) + 1
    BY <2>4
  <2>6. \A i \in 1..Len(batch) : i \in 1..Len(b)
    BY <2>4
  <2>7. Len(batch) + 1 \in 1..Len(b)
    BY <2>4
  <2>8. IsBatch(b, rules \cup {rule})
    BY <1>2, <2>2, <2>4, <2>5, <2>6, <2>7 DEF IsBatch
  <2> QED BY <1>2, <2>1, <2>3, <2>8
<1> QED BY <1>1, <1>2

LEMMA BatchesJoin ==
  ASSUME NEW a, NEW A, IsBatch(a, A), NEW b, NEW B, IsBatch(b, B)
  PROVE  IsBatch(a \o b, A \cup B)
<1>1. PICK c : c = a \o b
  OBVIOUS
<1>2. /\ c \in Seq(Diagnostics) /\ Len(a) \in Nat /\ Len(b) \in Nat /\ Len(c) = Len(a) + Len(b)
      /\ \A i \in 1..Len(a) : c[i] = a[i]
      /\ \A i \in 1..Len(b) : c[Len(a) + i] = b[i]
  BY <1>1 DEF IsBatch
<1>3. \A i \in 1..Len(c) : i \in 1..Len(a) \/ (i - Len(a) \in 1..Len(b) /\ c[i] = b[i - Len(a)])
  BY <1>2
<1>4. \A i \in 1..Len(a) : i \in 1..Len(c)
  BY <1>2
<1>5. \A i \in 1..Len(b) : Len(a) + i \in 1..Len(c)
  BY <1>2
<1>6. ASSUME NEW i \in 1..Len(c)
      PROVE  /\ c[i].rule \in A \cup B /\ ~ IsOff(c[i].rule)
             /\ c[i].severity = SeverityOf(c[i].rule)
  <2>1. CASE i \in 1..Len(a)
    BY <1>2, <2>1 DEF IsBatch
  <2>2. CASE i - Len(a) \in 1..Len(b) /\ c[i] = b[i - Len(a)]
    BY <2>2 DEF IsBatch
  <2> QED BY <1>3, <2>1, <2>2
<1>7. ASSUME NEW rule \in A \cup B, ~ IsOff(rule) PROVE \E i \in 1..Len(c) : c[i].rule = rule
  <2>1. CASE rule \in A
    BY <1>2, <1>4, <1>7, <2>1 DEF IsBatch
  <2>2. CASE rule \in B
    <3>1. PICK i \in 1..Len(b) : b[i].rule = rule
      BY <1>7, <2>2 DEF IsBatch
    <3>2. c[Len(a) + i].rule = rule /\ Len(a) + i \in 1..Len(c)
      BY <1>2, <1>5, <3>1
    <3> QED BY <3>2
  <2> QED BY <2>1, <2>2
<1>8. IsBatch(c, A \cup B)
  BY <1>2, <1>6, <1>7 DEF IsBatch
<1> QED BY <1>1, <1>8

\* The batches of the first k rules, for every k up to n.
BatchesOf(rules, n, b) ==
  b = [i \in 0..n |-> IF i = 0 THEN <<>>
                      ELSE IF IsOff(rules[i]) THEN b[i - 1]
                      ELSE Append(b[i - 1], Diagnosis(rules[i]))]

LEMMA BatchesExist ==
  ASSUME NEW rules, NEW n \in Nat
  PROVE  \E b : BatchesOf(rules, n, b)
<1> DEFINE S == {k \in Nat : \E b : BatchesOf(rules, k, b)}
<1>1. 0 \in S
  <2>1. 0..0 = {0}
    OBVIOUS
  <2>2. PICK b : b = [i \in 0..0 |-> <<>>]
    OBVIOUS
  <2>3. b = [i \in 0..0 |-> IF i = 0 THEN <<>>
                      ELSE IF IsOff(rules[i]) THEN b[i - 1]
                      ELSE Append(b[i - 1], Diagnosis(rules[i]))]
    BY <2>1, <2>2
  <2> QED BY <2>3 DEF BatchesOf
<1>2. ASSUME NEW k \in Nat, k \in S PROVE k + 1 \in S
  <2>1. PICK b : BatchesOf(rules, k, b)
    BY <1>2
  <2>2. b = [i \in 0..k |-> IF i = 0 THEN <<>>
                      ELSE IF IsOff(rules[i]) THEN b[i - 1]
                      ELSE Append(b[i - 1], Diagnosis(rules[i]))]
    BY <2>1 DEF BatchesOf
  <2>3. PICK c : c = [i \in 0..k + 1 |->
                       IF i = k + 1
                       THEN IF IsOff(rules[k + 1]) THEN b[k]
                            ELSE Append(b[k], Diagnosis(rules[k + 1]))
                       ELSE b[i]]
    OBVIOUS
  <2>4. ASSUME NEW i \in 0..k + 1
        PROVE  c[i] = IF i = 0 THEN <<>>
                      ELSE IF IsOff(rules[i]) THEN c[i - 1]
                      ELSE Append(c[i - 1], Diagnosis(rules[i]))
    <3>1. CASE i = k + 1
      <4>1. c[i - 1] = b[k] /\ i # 0
        BY <2>3, <3>1
      <4> QED BY <2>3, <3>1, <4>1
    <3>2. CASE i # k + 1
      <4>1. i \in 0..k /\ c[i] = b[i] /\ (i # 0 => c[i - 1] = b[i - 1])
        BY <2>3, <3>2
      <4>2. b[i] = IF i = 0 THEN <<>>
                   ELSE IF IsOff(rules[i]) THEN b[i - 1]
                   ELSE Append(b[i - 1], Diagnosis(rules[i]))
        BY <2>2, <4>1
      <4> QED BY <4>1, <4>2
    <3> QED BY <3>1, <3>2
  <2>5. c = [i \in 0..k + 1 |-> c[i]]
    BY <2>3
  <2>6. c = [i \in 0..k + 1 |-> IF i = 0 THEN <<>>
                      ELSE IF IsOff(rules[i]) THEN c[i - 1]
                      ELSE Append(c[i - 1], Diagnosis(rules[i]))]
    BY <2>4, <2>5
  <2> QED BY <2>6 DEF BatchesOf
<1>3. \A k \in Nat : k \in S
  <2> HIDE DEF S
  <2> QED BY <1>1, <1>2, SetInduction
<1> QED BY <1>3

\* emit answers a list of rules with their batch.
LEMMA EmittedIsBatch ==
  ASSUME OverridesTyped, NEW rules \in Seq(Rules)
  PROVE  IsBatch(Emitted(rules), {rules[j] : j \in 1..Len(rules)})
<1>1. PICK n \in Nat : n = Len(rules)
  OBVIOUS
<1>2. PICK b : BatchesOf(rules, n, b) /\ Emitted(rules) = b[n]
  <2>1. \E b : BatchesOf(rules, n, b)
    BY BatchesExist
  <2>2. PICK b : b = CHOOSE d : BatchesOf(rules, n, d)
    OBVIOUS
  <2>3. BatchesOf(rules, n, b)
    BY <2>1, <2>2
  <2>4. Emitted(rules) = (CHOOSE d : BatchesOf(rules, n, d))[n]
    BY <1>1 DEF Emitted, BatchesOf
  <2> QED BY <2>2, <2>3, <2>4
<1>3. ASSUME NEW i \in 0..n
      PROVE  b[i] = IF i = 0 THEN <<>>
                    ELSE IF IsOff(rules[i]) THEN b[i - 1]
                    ELSE Append(b[i - 1], Diagnosis(rules[i]))
  <2>1. b = [k \in 0..n |-> IF k = 0 THEN <<>>
                      ELSE IF IsOff(rules[k]) THEN b[k - 1]
                      ELSE Append(b[k - 1], Diagnosis(rules[k]))]
    BY <1>2 DEF BatchesOf
  <2> QED BY <2>1
<1> DEFINE S == {k \in Nat : k <= n => IsBatch(b[k], {rules[j] : j \in 1..k})}
<1>4. 0 \in S
  <2>1. b[0] = <<>>
    BY <1>3
  <2>2. {rules[j] : j \in 1..0} = {}
    OBVIOUS
  <2> QED BY <2>1, <2>2, BatchOfNone
<1>5. ASSUME NEW k \in Nat, k \in S PROVE k + 1 \in S
  <2> SUFFICES ASSUME k + 1 <= n PROVE IsBatch(b[k + 1], {rules[j] : j \in 1..k + 1})
    OBVIOUS
  <2>1. IsBatch(b[k], {rules[j] : j \in 1..k})
    BY <1>1, <1>5
  <2>2. rules[k + 1] \in Rules
    BY <1>1
  <2>3. b[k + 1] = IF IsOff(rules[k + 1]) THEN b[k] ELSE Append(b[k], Diagnosis(rules[k + 1]))
    <3>1. k + 1 \in 0..n /\ k + 1 # 0 /\ (k + 1) - 1 = k
      BY <1>1
    <3> QED BY <1>3, <3>1
  <2>4. {rules[j] : j \in 1..k + 1} = {rules[j] : j \in 1..k} \cup {rules[k + 1]}
    OBVIOUS
  <2>5. PICK a, R, rule : /\ a = b[k] /\ R = {rules[j] : j \in 1..k}
                          /\ rule = rules[k + 1]
    OBVIOUS
  <2>6. IsBatch(IF IsOff(rule) THEN a ELSE Append(a, Diagnosis(rule)), R \cup {rule})
    BY <2>1, <2>2, <2>5, BatchGrows
  <2> QED BY <2>3, <2>4, <2>5, <2>6
<1>6. \A k \in Nat : k \in S
  <2> HIDE DEF S
  <2> QED BY <1>4, <1>5, SetInduction
<1>7. n \in S
  BY <1>6
<1>8. IsBatch(b[n], {rules[j] : j \in 1..n})
  BY <1>7
<1> QED BY <1>1, <1>2, <1>8

\* Findings are listed in some order.
LEMMA InOrderIs ==
  ASSUME NEW findings, IsFiniteSet(findings), \A f \in findings : f.rule \in Rules
  PROVE  /\ InOrder(findings) \in Seq(Rules)
         /\ {InOrder(findings)[j] : j \in 1..Len(InOrder(findings))} = {f.rule : f \in findings}
<1>1. PICK n \in Nat : n = Cardinality(findings)
  BY FS_CardinalityType
<1>2. ExistsBijection(1..n, findings)
  BY <1>1, FS_CardinalityType
<1>3. PICK order : order = CHOOSE f \in [1..n -> findings] : IsInjective(f)
  OBVIOUS
<1>4. order \in Injection(1..n, findings)
  <2>1. \E f \in [1..n -> findings] : IsInjective(f)
    BY <1>2 DEF ExistsBijection, Bijection, Injection
  <2>2. order \in [1..n -> findings] /\ IsInjective(order)
    BY <1>3, <2>1
  <2> QED BY <2>2 DEF Injection
<1>5. order \in [1..n -> findings] /\ \A f \in findings : \E i \in 1..n : order[i] = f
  <2>1. Cardinality(1..n) = n
    BY FS_Interval
  <2>2. order \in Surjection(1..n, findings)
    BY <1>1, <1>4, <2>1, FS_Injection
  <2> QED BY <2>2 DEF Surjection
<1>6. PICK s : s = [i \in 1..n |-> order[i].rule]
  OBVIOUS
<1>7. InOrder(findings) = s
  BY <1>1, <1>3, <1>6 DEF InOrder
<1>8. s \in Seq(Rules) /\ Len(s) = n
  BY <1>5, <1>6
<1>9. {s[j] : j \in 1..n} = {f.rule : f \in findings}
  BY <1>5, <1>6
<1> QED BY <1>7, <1>8, <1>9

LEMMA ReportGrows ==
  ASSUME IsBatch(diagnostics, ReportedRules), UNCHANGED overrides,
         NEW batch, NEW rules, IsBatch(batch, rules), diagnostics' = diagnostics \o batch
  PROVE  /\ IsBatch(diagnostics, ReportedRules)'
         /\ ReportedRules' = ReportedRules \cup {rule \in rules : ~ IsOff(rule)}
<1>1. PICK d, R : d = diagnostics' /\ R = ReportedRules \cup rules
  OBVIOUS
<1>2. IsBatch(d, R)
  BY <1>1, BatchesJoin
<1>3. ReportedRules' = {d[i].rule : i \in 1..Len(d)}
  <2>1. DOMAIN d = 1..Len(d)
    BY <1>2 DEF IsBatch
  <2>2. ReportedRules' = {d[i].rule : i \in DOMAIN d}
    BY <1>1 DEF ReportedRules
  <2> QED BY <2>1, <2>2
<1>4. \A rule \in ReportedRules : ~ IsOff(rule)
  BY DEF IsBatch, ReportedRules
<1>5. ReportedRules' = ReportedRules \cup {rule \in rules : ~ IsOff(rule)}
  <2>1. PICK T, Q : T = ReportedRules' /\ Q = ReportedRules
    OBVIOUS
  <2>2. ASSUME NEW rule \in T PROVE rule \in Q \cup {x \in rules : ~ IsOff(x)}
    <3>1. PICK i \in 1..Len(d) : rule = d[i].rule
      BY <1>3, <2>1, <2>2
    <3> QED BY <1>1, <1>2, <2>1, <3>1 DEF IsBatch
  <2>3. ASSUME NEW rule \in Q \cup {x \in rules : ~ IsOff(x)} PROVE rule \in T
    <3>1. rule \in R /\ ~ IsOff(rule)
      BY <1>1, <1>4, <2>1, <2>3
    <3>2. PICK i \in 1..Len(d) : d[i].rule = rule
      BY <1>2, <3>1 DEF IsBatch
    <3> QED BY <1>3, <2>1, <3>2
  <2> QED BY <2>1, <2>2, <2>3
<1>6. ASSUME NEW S, IsBatch(d, S) PROVE IsBatch(d, S)'
  BY <1>6 DEF IsBatch, IsOff, SeverityOf
<1>7. PICK S : S = ReportedRules'
  OBVIOUS
<1>8. IsBatch(d, S)
  <2>1. S = {d[i].rule : i \in 1..Len(d)}
    BY <1>3, <1>7
  <2>2. /\ d \in Seq(Diagnostics)
        /\ \A i \in 1..Len(d) : ~ IsOff(d[i].rule) /\ d[i].severity = SeverityOf(d[i].rule)
    BY <1>2 DEF IsBatch
  <2>3. \A i \in 1..Len(d) : d[i].rule \in S
    BY <2>1
  <2>4. \A rule \in S : \E i \in 1..Len(d) : d[i].rule = rule
    BY <2>1
  <2> QED BY <2>2, <2>3, <2>4 DEF IsBatch
<1>9. IsBatch(d, S)'
  BY <1>6, <1>8
<1> QED BY <1>1, <1>5, <1>7, <1>9

\* What the listener was told is made of diagnostics.
LEMMA ToldGrows ==
  ASSUME told \in Seq(Diagnostics), NEW batch \in Seq(Diagnostics), NEW least \in Nat,
         Tells(batch) \/ TellsUntilBroken(batch, least)
  PROVE  told' \in Seq(Diagnostics)
<1>1. CASE Tells(batch)
  BY <1>1 DEF Tells
<1>2. CASE TellsUntilBroken(batch, least)
  <2>1. PICK n \in least..Len(batch) : told' = told \o SubSeq(batch, 1, n)
    BY <1>2 DEF TellsUntilBroken
  <2>2. n \in Nat /\ n <= Len(batch)
    BY <2>1
  <2>3. SubSeq(batch, 1, n) \in Seq(Diagnostics)
    BY <2>2
  <2> QED BY <2>1, <2>3
<1> QED BY <1>1, <1>2

-----------------------------------------------------------------------------
(* The findings of one input.                                               *)

\* What the rules of the stream alone may report at an event.
EventRules == Rules \ (TransportRules \cup {"AGUI305"})

LEMMA LifecycleRules ==
  ASSUME NEW f \in LifecycleFindings
  PROVE  f.rule \in EventRules
BY DEF LifecycleFindings, EventRules, Rules, CatalogErrors, CatalogWarnings, CatalogInfos,
       TransportRules

LEMMA NoteIsFinite ==
  ASSUME NEW rule, NEW id, NEW related
  PROVE  IsFiniteSet(Note(rule, id, related))
BY FS_Singleton DEF Note

LEMMA SchemaFindingsAreFinite ==
  ASSUME NEW e
  PROVE  IsFiniteSet(SchemaFindings(e))
<1> DEFINE Of(field) == IF e[field] = None THEN Note("AGUI504", field, None) ELSE {}
<1>1. ASSUME NEW field PROVE IsFiniteSet(Of(field))
  BY NoteIsFinite, FS_EmptySet
<1>2. PICK a, b, c : /\ a = Of("runId") /\ b = Of("threadId")
                     /\ c = IF e.timestamp = "other" THEN Note("AGUI504", "timestamp", None) ELSE {}
  OBVIOUS
<1>3. IsFiniteSet(a) /\ IsFiniteSet(b)
  BY <1>1, <1>2
<1>4. IsFiniteSet(c)
  BY <1>2, NoteIsFinite, FS_EmptySet
<1> HIDE DEF Of
<1>5. UNION {Of(field) : field \in {"runId", "threadId"}} = a \cup b
  BY <1>2
<1>6. IsFiniteSet(a \cup b) /\ IsFiniteSet(c \cup (a \cup b)) /\ IsFiniteSet(c \cup {})
  BY <1>3, <1>4, FS_Union, FS_EmptySet
<1>7. SchemaFindings(e) = c \cup (a \cup b) \/ SchemaFindings(e) = c \cup {}
  BY <1>2, <1>5 DEF SchemaFindings, Of
<1> QED BY <1>6, <1>7

LEMMA UnstableIdsAreFinite ==
  ASSUME NEW e
  PROVE  IsFiniteSet(UnstableIds(e))
<1> DEFINE Of(field) ==
      IF None # e[field] /\ run'[field] \notin {None, e[field]} /\ ~run'.implicit
      THEN Note("AGUI008", field, run'.start) ELSE {}
<1>1. ASSUME NEW field PROVE IsFiniteSet(Of(field))
  BY NoteIsFinite, FS_EmptySet
<1>2. PICK a, b : a = Of("runId") /\ b = Of("threadId")
  OBVIOUS
<1>3. IsFiniteSet(a \cup b)
  BY <1>1, <1>2, FS_Union
<1>4. UnstableIds(e) = UNION {Of(field) : field \in {"runId", "threadId"}}
  BY DEF UnstableIds
<1> HIDE DEF Of
<1> QED BY <1>2, <1>3, <1>4

LEMMA InputFindsFinitely ==
  ASSUME NEW e, StreamInput(e)
  PROVE  IsFiniteSet(lifecycleFound')
<1>1. PICK s : s = SchemaFindings(e)
  OBVIOUS
<1>2. IsFiniteSet(s)
  BY <1>1, SchemaFindingsAreFinite
<1>3. ASSUME NEW S, IsFiniteSet(S), NEW rule, NEW id, NEW related
      PROVE  IsFiniteSet(S \cup Note(rule, id, related))
  BY <1>3, NoteIsFinite, FS_Union
<1>4. IsFiniteSet(OpeningFindings) /\ IsFiniteSet(UnstableIds(e)) /\ IsFiniteSet(Advice(e))
  BY NoteIsFinite, FS_EmptySet, UnstableIdsAreFinite DEF OpeningFindings, Advice
<1>5. CASE Unreadable(e)
  BY <1>5, NoteIsFinite DEF Unreadable
<1>6. CASE UnknownType(e)
  BY <1>1, <1>2, <1>3, <1>6 DEF UnknownType
<1>7. CASE RunStarted(e)
  BY <1>1, <1>2, <1>3, <1>7 DEF RunStarted
<1>8. CASE RunEnds(e)
  <2>1. PICK u : u = IF e.type = "RUN_FINISHED" THEN UnstableIds(e) ELSE {}
    OBVIOUS
  <2>2. IsFiniteSet(u)
    BY <1>4, <2>1, FS_EmptySet
  <2>3. lifecycleFound' = (s \cup OpeningFindings) \cup u
    BY <1>1, <1>8, <2>1 DEF RunEnds
  <2>4. IsFiniteSet(s \cup OpeningFindings)
    BY <1>2, <1>4, FS_Union
  <2> QED BY <2>2, <2>3, <2>4, FS_Union
<1>9. CASE OrdinaryEvent(e)
  <2>1. lifecycleFound' = (s \cup OpeningFindings) \cup Advice(e)
    BY <1>1, <1>9 DEF OrdinaryEvent
  <2>2. IsFiniteSet(s \cup OpeningFindings)
    BY <1>2, <1>4, FS_Union
  <2> QED BY <1>4, <2>1, <2>2, FS_Union
<1>10. CASE AfterTerminal(e)
  BY <1>1, <1>2, <1>3, <1>10 DEF AfterTerminal
<1> QED BY <1>5, <1>6, <1>7, <1>8, <1>9, <1>10 DEF StreamInput

LEMMA FeedsFinitely ==
  ASSUME NEW p, Feeds(p)
  PROVE  IsFiniteSet(lifecycleFound')
BY FS_EmptySet, SchemaFindingsAreFinite, InputFindsFinitely
   DEF Feeds, ParserFails, HandlerFails, Handles

LEMMA FinalizesFinitely ==
  ASSUME Finalize
  PROVE  /\ IsFiniteSet(lifecycleFound')
         /\ ~ FinalizeRaises /\ run # None /\ terminal = None
              => \E f \in lifecycleFound' : f.rule = "AGUI003"
<1>1. IsFiniteSet({})
  BY FS_EmptySet
<1>2. PICK u, w : /\ u = UnterminatedRun
                  /\ w = IF eventCount > 0 /\ ~sawTimestamp
                         THEN {Finding("AGUI902", AtEndOfStream, None, None)} ELSE {}
  OBVIOUS
<1>3. IsFiniteSet(u) /\ IsFiniteSet(w)
  BY <1>1, <1>2, FS_Singleton DEF UnterminatedRun
<1>4. IsFiniteSet(u \cup w)
  BY <1>3, FS_Union
<1>5. lifecycleFound' = {} \/ lifecycleFound' = u \cup w
  BY <1>2 DEF Finalize, LifecycleFinalize
<1>6. ~ FinalizeRaises => lifecycleFound' = u \cup w
  BY <1>2 DEF Finalize, LifecycleFinalize
<1>7. run # None /\ terminal = None => \E f \in u : f.rule = "AGUI003"
  BY <1>2 DEF UnterminatedRun, Finding
<1> QED BY <1>1, <1>4, <1>5, <1>6, <1>7

\* The findings of an input and what follows them make one batch.
LEMMA FindingsBatch ==
  ASSUME OverridesTyped, LifecycleInv', IsFiniteSet(lifecycleFound'),
         NEW rest \in Seq(Rules), NEW more, more = {rest[j] : j \in 1..Len(rest)}
  PROVE  \E own \in SUBSET EventRules :
           /\ own = {f.rule : f \in lifecycleFound'}
           /\ IsBatch(Emitted(InOrder(lifecycleFound') \o rest), own \cup more)
<1>1. PICK F, own : F = lifecycleFound' /\ own = {f.rule : f \in F}
  OBVIOUS
<1>2. F \subseteq LifecycleFindings
  BY <1>1 DEF LifecycleInv, RunTypeOK
<1>3. own \subseteq EventRules /\ \A f \in F : f.rule \in Rules
  BY <1>1, <1>2, LifecycleRules DEF EventRules
<1>4. PICK s : s = InOrder(F)
  OBVIOUS
<1>5. s \in Seq(Rules) /\ {s[j] : j \in 1..Len(s)} = own
  BY <1>1, <1>3, <1>4, InOrderIs
<1>6. PICK t : t = s \o rest
  OBVIOUS
<1>7. t \in Seq(Rules)
  BY <1>5, <1>6
<1>8. {t[j] : j \in 1..Len(t)} = own \cup more
  <2>1. /\ Len(s) \in Nat /\ Len(rest) \in Nat /\ Len(t) = Len(s) + Len(rest)
        /\ \A j \in 1..Len(s) : t[j] = s[j]
        /\ \A j \in 1..Len(rest) : t[Len(s) + j] = rest[j]
    BY <1>5, <1>6
  <2>2. \A j \in 1..Len(t) : \/ j \in 1..Len(s)
                             \/ j - Len(s) \in 1..Len(rest) /\ t[j] = rest[j - Len(s)]
    BY <2>1
  <2>3. \A j \in 1..Len(s) : j \in 1..Len(t)
    BY <2>1
  <2>4. \A j \in 1..Len(rest) : Len(s) + j \in 1..Len(t)
    BY <2>1
  <2>5. ASSUME NEW j \in 1..Len(t) PROVE t[j] \in own \cup more
    BY <1>5, <2>1, <2>2
  <2>6. ASSUME NEW rule \in own PROVE \E j \in 1..Len(t) : t[j] = rule
    BY <1>5, <2>1, <2>3
  <2>7. ASSUME NEW rule \in more PROVE \E j \in 1..Len(t) : t[j] = rule
    <3>1. PICK j \in 1..Len(rest) : rest[j] = rule
      BY <2>7
    <3>2. Len(s) + j \in 1..Len(t) /\ t[Len(s) + j] = rule
      BY <2>1, <2>4, <3>1
    <3> QED BY <3>2
  <2> QED BY <2>5, <2>6, <2>7
<1>9. IsBatch(Emitted(t), own \cup more)
  BY <1>7, <1>8, EmittedIsBatch
<1> QED BY <1>1, <1>3, <1>4, <1>6, <1>9

-----------------------------------------------------------------------------
(* The invariant of the report.                                             *)

ConfigTyped ==
  /\ config = [option \in DOMAIN DefaultConfig |-> config[option]]
  /\ \A rule \in DOMAIN config.overrides : config.overrides[rule] \in Overrides

\* What the place of a call says of its layers, its format and its failure.
Course ==
  /\ call # None => layers = LayersOf(call)
  /\ call # None /\ call.source = "list" => pc \in {"list", "returned"} /\ explicitSkips = {}
  /\ pc \in {"main", "fetch", "open"} => explicitSkips = {}
  /\ pc \in {"main", "fetch", "open", "sniff"} => format = None
  /\ failure # None => /\ pc \in {"failed", "wrap up", "returned", "Exception"}
                       /\ call.source \notin {"recording", "list"}
  /\ pc = "failed" => failure # None

\* What a rule of the transport or of a feature was reported for.
Grounds(rule) ==
  /\ rule \in TransportRules => call # None /\ call.source # "list"
  /\ rule = "AGUI305" => "shared-state" \in features
  /\ rule = "AGUI501" => format = "sse"
  /\ rule = "AGUI505" => call.contentType = "other"
  /\ rule \in {"AGUI506", "AGUI507"} => ~ Recorded
  /\ rule = "AGUI508" => /\ failure # None /\ runOpen
                         /\ pc \in {"wrap up", "returned", "Exception"}

\* Of what a layer marked as skipped there can be no grounds.
Marked ==
  /\ "AGUI501" \in explicitSkips => format = "ndjson"
  /\ "AGUI505" \in explicitSkips => call.contentType = None
  /\ explicitSkips \cap {"AGUI506", "AGUI507", "AGUI508"} # {} => Recorded

\* The report says only what it has grounds for.
Said ==
  /\ IsBatch(diagnostics, ReportedRules)
  /\ \A rule \in ReportedRules : Grounds(rule)
  /\ Marked

\* What a call says before it returns.
Concluded ==
  /\ /\ pc \in {"wrap up", "returned"} /\ failure # None /\ runOpen
     /\ ~ IsOff("AGUI508")
     => "AGUI508" \in ReportedRules
  /\ /\ Returned /\ ~ internalError /\ run # None /\ terminal = None
     /\ ~ IsOff("AGUI003")
     => "AGUI003" \in ReportedRules

ReportInv ==
  /\ TransportTypeOK /\ OverridesTyped /\ ConfigTyped
  /\ Course /\ Said /\ Concluded

-----------------------------------------------------------------------------
LEMMA SilenceKeepsReport ==
  ASSUME IsBatch(diagnostics, ReportedRules), UNCHANGED <<diagnostics, overrides>>
  PROVE  IsBatch(diagnostics, ReportedRules)' /\ UNCHANGED ReportedRules
<1>1. UNCHANGED ReportedRules
  BY DEF ReportedRules
<1>2. PICK d, R : d = diagnostics /\ R = ReportedRules
  OBVIOUS
<1>3. IsBatch(d, R)'
  BY <1>2 DEF IsBatch, IsOff, SeverityOf
<1> QED BY <1>1, <1>2, <1>3

\* The options of a call stay as they are.
LEMMA OptionsStay ==
  ASSUME UNCHANGED callVars
  PROVE  /\ UNCHANGED <<call, overrides, layers, features, listener>>
         /\ OverridesTyped' <=> OverridesTyped
         /\ \A rule : IsOff(rule)' <=> IsOff(rule)
         /\ Recorded' <=> Recorded
BY DEF callVars, optionVars, OverridesTyped, IsOff, Recorded

\* Nothing is said while the connection is waited for.
Silent ==
  /\ UNCHANGED <<coreVars, diagnostics, told, callVars, runOpen>>
  /\ TransportTypeOK' /\ Course'
  /\ format' # format => format = None
  /\ failure # None => UNCHANGED failure
  /\ failure' # None => UNCHANGED failure \/ pc' = "failed"
  /\ pc' = pc \/ pc \notin {"wrap up", "returned", "Exception"}
  /\ pc' \in {"wrap up", "returned"} => pc = pc' \/ failure' = None
  /\ pc' # "returned" \/ pc = "returned"
  /\ explicitSkips' = explicitSkips \/ explicitSkips' = explicitSkips \cup {"AGUI501"}
  /\ "AGUI501" \in explicitSkips' \ explicitSkips => format' = "ndjson"

LEMMA SilentKeepsReport ==
  ASSUME ReportInv, Silent, UNCHANGED config
  PROVE  ReportInv'
<1>1. IsBatch(diagnostics, ReportedRules)' /\ UNCHANGED ReportedRules
  BY SilenceKeepsReport DEF ReportInv, Said, Silent, callVars, optionVars
<1>2. /\ UNCHANGED <<call, features>> /\ OverridesTyped'
      /\ \A rule : IsOff(rule)' <=> IsOff(rule)
      /\ Recorded' <=> Recorded
  BY OptionsStay DEF ReportInv, Silent
<1>3. /\ UNCHANGED <<run, terminal>>
      /\ (runOpen' <=> runOpen) /\ (internalError' <=> internalError)
  <2>1. UNCHANGED <<internalError, run, terminal, runOpen>>
    BY DEF Silent, coreVars, lifecycleVars, scopeVars
  <2> QED BY <2>1, Zenon
<1>4. ASSUME NEW rule, Grounds(rule) PROVE Grounds(rule)'
  <2>1. /\ format' # format => format = None
        /\ failure # None => UNCHANGED failure
        /\ pc' = pc \/ pc \notin {"wrap up", "returned", "Exception"}
    BY DEF Silent
  <2>2. (rule = "AGUI501" => format = "sse") => (rule = "AGUI501" => format' = "sse")
    BY <2>1, NoTextAssumption
  <2>3. rule = "AGUI508" => /\ failure' # None /\ runOpen'
                            /\ pc' \in {"wrap up", "returned", "Exception"}
    BY <1>3, <1>4, <2>1 DEF Grounds
  <2> QED BY <1>2, <1>4, <2>2, <2>3 DEF Grounds
<1>5. Said'
  BY <1>1, <1>2, <1>4, NoTextAssumption DEF ReportInv, Said, Marked, Silent
<1>6. Concluded'
  <2>1. /\ pc' \in {"wrap up", "returned"} => pc = pc' \/ failure' = None
        /\ pc' # "returned" \/ pc = "returned"
        /\ failure' # None => UNCHANGED failure \/ pc' = "failed"
    BY DEF Silent
  <2>2. ASSUME pc' \in {"wrap up", "returned"}, failure' # None, runOpen', ~ IsOff("AGUI508")'
        PROVE  ("AGUI508" \in ReportedRules)'
    BY <1>1, <1>2, <1>3, <2>1, <2>2 DEF ReportInv, Concluded
  <2>3. ASSUME Returned', ~ internalError', run' # None, terminal' = None, ~ IsOff("AGUI003")'
        PROVE  ("AGUI003" \in ReportedRules)'
    BY <1>1, <1>2, <1>3, <2>1, <2>3 DEF ReportInv, Concluded, Returned
  <2> QED BY <2>2, <2>3 DEF Concluded
<1>7. ConfigTyped'
  BY DEF ReportInv, ConfigTyped
<1> QED BY <1>2, <1>5, <1>6, <1>7 DEF ReportInv, Silent

\* Types while only the place of the call and what is read change.
LEMMA TypesStay ==
  ASSUME TransportTypeOK, UNCHANGED <<coreVars, diagnostics, told, callVars, runOpen>>
  PROVE  /\ RunTypeOK'
         /\ call' \in CallRecords \cup {None}
         /\ {runOpen', deepChunk', internalError'} \subseteq BOOLEAN
         /\ diagnostics' \in Seq(Diagnostics) /\ told' \in Seq(Diagnostics)
         /\ finalized' = finalized
BY DEF TransportTypeOK, coreVars, lifecycleVars, scopeVars, callVars, RunTypeOK, ScopeTypeOK

LEMMA FetchingIsSilent ==
  ASSUME ReportInv, Outset, FetchFails \/ Fetches
  PROVE  Silent
<1>1. /\ pc = "fetch" /\ pc' \in {"open", "TransportError"}
      /\ UNCHANGED <<coreVars, readVars, reportVars, callVars, runOpen, failure>>
  BY DEF FetchFails, Fetches
<1>2. TransportTypeOK'
  BY <1>1, TypesStay DEF ReportInv, TransportTypeOK, readVars, reportVars, Reading, Returned
<1>3. Course'
  BY <1>1 DEF ReportInv, Course, Outset, readVars, reportVars, callVars, optionVars, LayersOf
<1> QED BY <1>1, <1>2, <1>3 DEF Silent, readVars, reportVars

LEMMA ConnectingIsSilent ==
  ASSUME ReportInv, Outset, Asks \/ Chunk \/ EndOfBody \/ Breaks \/ Sniffed \/ LeavesLoop
  PROVE  Silent
<1> USE DEF ReportInv
<1>1. UNCHANGED <<coreVars, diagnostics, told, callVars, runOpen>>
  BY DEF Asks, Chunk, EndOfBody, Breaks, Sniffed, LeavesLoop, reportVars
<1>2. UNCHANGED <<call, layers>>
  BY <1>1 DEF callVars, optionVars
<1>3. /\ call # None
      /\ pc \in {"sniff", "read"} /\ failure = None
      /\ call.source # "list"
  BY DEF Outset, Course, TransportTypeOK, Asks, Chunk, EndOfBody, Breaks, Sniffed, LeavesLoop,
         Reading
<1>4. CASE Asks \/ Chunk \/ EndOfBody
  <2>0. /\ UNCHANGED <<format, pc, failure, explicitSkips>>
        /\ chunks' \in 0..2 /\ {waiting', over', late'} \subseteq BOOLEAN
    <3>1. waiting \in BOOLEAN /\ over \in BOOLEAN /\ late \in BOOLEAN /\ chunks \in 0..2
      BY DEF TransportTypeOK
    <3>2. CASE Asks
      BY <3>1, <3>2 DEF Asks, reportVars
    <3>3. CASE Chunk
      <4>1. /\ UNCHANGED <<over, format, pc, failure, explicitSkips>> /\ waiting' = FALSE
            /\ chunks' = IF chunks = 2 THEN 2 ELSE chunks + 1
            /\ late' = late \/ late' = TRUE
        BY <3>3 DEF Chunk, reportVars
      <4>2. late' \in BOOLEAN /\ waiting' \in BOOLEAN /\ over' \in BOOLEAN
        BY <3>1, <4>1, Zenon
      <4>3. chunks' \in 0..2
        BY <3>1, <4>1
      <4> QED BY <4>1, <4>2, <4>3
    <3>4. CASE EndOfBody
      BY <3>1, <3>4 DEF EndOfBody, reportVars
    <3> QED BY <1>4, <3>2, <3>3, <3>4
  <2>1. waiting' => Reading' /\ ~over'
    <3>1. CASE Asks
      BY <1>3, <2>0, <3>1, Zenon DEF Asks, Reading
    <3>2. CASE Chunk \/ EndOfBody
      <4>1. waiting' = FALSE
        BY <3>2 DEF Chunk, EndOfBody
      <4> QED BY <4>1, Zenon
    <3> QED BY <1>4, <3>1, <3>2
  <2>2. TransportTypeOK'
    BY <1>1, <1>3, <2>0, <2>1, TypesStay DEF TransportTypeOK, Reading, Returned
  <2>3. Course'
    BY <1>2, <2>0 DEF Course, LayersOf
  <2> QED BY <1>1, <1>3, <2>0, <2>2, <2>3 DEF Silent
<1>5. CASE Breaks
  <2>1. /\ UNCHANGED <<format, over, chunks, late, explicitSkips>> /\ waiting' = FALSE
        /\ \/ pc' \in {"Exception", "TransportError"} /\ UNCHANGED failure
           \/ ~ Recorded /\ pc' = "failed" /\ failure' = "connection"
    BY <1>5 DEF Breaks, Escapes, reportVars
  <2>2. TransportTypeOK'
    BY <1>1, <2>1, TypesStay DEF TransportTypeOK, Reading, Returned
  <2>3. Course'
    BY <1>2, <1>3, <2>1, NoTextAssumption DEF Course, LayersOf, Recorded
  <2> QED BY <1>1, <1>3, <2>1, <2>2, <2>3 DEF Silent
<1>6. CASE Sniffed
  <2>1. /\ UNCHANGED <<waiting, over, chunks, late, failure>> /\ pc = "sniff" /\ pc' = "read"
        /\ format' \in {"sse", "ndjson"} /\ ~ waiting
        /\ explicitSkips' = explicitSkips \cup IF format' = "ndjson" THEN {"AGUI501"} ELSE {}
    BY <1>6 DEF Sniffed
  <2>2. explicitSkips' \subseteq TransportRules
    BY <2>1 DEF TransportTypeOK, TransportRules
  <2>3. TransportTypeOK'
    BY <1>1, <2>1, <2>2, TypesStay DEF TransportTypeOK, Reading, Returned
  <2>4. Course'
    BY <1>2, <1>3, <2>1 DEF Course, LayersOf
  <2>5. format = None
    BY <2>1 DEF Course
  <2> QED BY <1>1, <1>3, <2>1, <2>3, <2>4, <2>5 DEF Silent
<1>7. CASE LeavesLoop
  <2>1. /\ UNCHANGED <<format, waiting, over, chunks, late, failure, explicitSkips>>
        /\ pc = "read" /\ pc' = "wrap up" /\ ~ waiting
    BY <1>7 DEF LeavesLoop, readVars, reportVars
  <2>2. TransportTypeOK'
    BY <1>1, <2>1, TypesStay DEF TransportTypeOK, Reading, Returned
  <2>3. Course'
    BY <1>2, <1>3, <2>1 DEF Course, LayersOf
  <2> QED BY <1>1, <1>3, <2>1, <2>2, <2>3 DEF Silent
<1> QED BY <1>4, <1>5, <1>6, <1>7

-----------------------------------------------------------------------------
(* Actions that say something.                                              *)

\* What the report was grounded on stays.
Steady ==
  /\ UNCHANGED callVars
  /\ format' # format => format = None
  /\ failure # None => UNCHANGED failure /\ (runOpen' <=> runOpen)
  /\ pc \in {"wrap up", "returned", "Exception"} => pc' \in {"wrap up", "returned", "Exception"}

LEMMA GroundsStay ==
  ASSUME Steady, NEW rule, Grounds(rule)
  PROVE  Grounds(rule)'
<1>1. UNCHANGED <<call, features>> /\ (Recorded' <=> Recorded)
  BY OptionsStay DEF Steady
<1>2. (rule = "AGUI501" => format = "sse") => (rule = "AGUI501" => format' = "sse")
  BY NoTextAssumption DEF Steady
<1>3. rule = "AGUI508" => /\ failure' # None /\ runOpen'
                          /\ pc' \in {"wrap up", "returned", "Exception"}
  BY DEF Steady, Grounds
<1> QED BY <1>1, <1>2, <1>3 DEF Grounds

LEMMA MarksStay ==
  ASSUME Marked, UNCHANGED <<format, explicitSkips, callVars>>
  PROVE  Marked'
<1>1. UNCHANGED call /\ (Recorded' <=> Recorded)
  BY OptionsStay
<1> QED BY <1>1 DEF Marked

LEMMA ReportSpeaks ==
  ASSUME ReportInv, Steady, Marked',
         NEW batch, NEW rules, IsBatch(batch, rules), diagnostics' = diagnostics \o batch,
         \A rule \in rules : ~ IsOff(rule) => Grounds(rule)'
  PROVE  /\ Said' /\ OverridesTyped'
         /\ ReportedRules' = ReportedRules \cup {rule \in rules : ~ IsOff(rule)}
         /\ diagnostics' \in Seq(Diagnostics) /\ batch \in Seq(Diagnostics)
<1>1. UNCHANGED overrides /\ OverridesTyped'
  BY OptionsStay DEF Steady, ReportInv
<1>2. /\ IsBatch(diagnostics, ReportedRules)'
      /\ ReportedRules' = ReportedRules \cup {rule \in rules : ~ IsOff(rule)}
  BY <1>1, ReportGrows DEF ReportInv, Said
<1>3. ASSUME NEW rule \in ReportedRules' PROVE Grounds(rule)'
  <2>1. CASE rule \in ReportedRules
    BY <2>1, GroundsStay DEF ReportInv, Said
  <2>2. CASE rule \in rules /\ ~ IsOff(rule)
    BY <2>2
  <2> QED BY <1>2, <1>3, <2>1, <2>2
<1>4. (\A rule \in ReportedRules : Grounds(rule))'
  BY <1>3
<1> QED BY <1>1, <1>2, <1>4 DEF Said, IsBatch

LEMMA SpeakingTypes ==
  ASSUME TransportTypeOK, RunTypeOK', UNCHANGED <<readVars, explicitSkips, callVars>>, ~ waiting,
         pc' \in {"read", "failed", "wrap up", "list", "returned", "TransportError", "Exception"},
         Returned' => finalized',
         {runOpen', deepChunk', internalError'} \subseteq BOOLEAN,
         failure' \in {None, "connection", "listener", "payload"},
         diagnostics' \in Seq(Diagnostics), told' \in Seq(Diagnostics)
  PROVE  TransportTypeOK'
<1>1. /\ call' \in CallRecords \cup {None}
      /\ format' \in {None, "sse", "ndjson"} /\ chunks' \in 0..2
      /\ {waiting', over', late'} \subseteq BOOLEAN
      /\ explicitSkips' \subseteq TransportRules
  BY DEF TransportTypeOK, readVars, callVars
<1>2. ~ waiting'
  <2>1. waiting' = waiting
    BY DEF readVars
  <2> QED BY <2>1, Zenon
<1> QED BY <1>1, <1>2 DEF TransportTypeOK

LEMMA EventsNeedNoGrounds ==
  ASSUME NEW rule \in EventRules
  PROVE  Grounds(rule) /\ Grounds(rule)'
BY DEF EventRules, Grounds, TransportRules

LEMMA OneRule ==
  ASSUME OverridesTyped, NEW rule \in Rules
  PROVE  IsBatch(Emitted(<<rule>>), {rule})
<1>1. PICK s : s = <<rule>>
  OBVIOUS
<1>2. s \in Seq(Rules) /\ {s[j] : j \in 1..Len(s)} = {rule}
  BY <1>1
<1> QED BY <1>1, <1>2, EmittedIsBatch

LEMMA NoRule ==
  ASSUME OverridesTyped
  PROVE  IsBatch(Emitted(<<>>), {})
<1>1. PICK s : s = <<>>
  OBVIOUS
<1>2. s \in Seq(Rules) /\ {s[j] : j \in 1..Len(s)} = {}
  BY <1>1
<1> QED BY <1>1, <1>2, EmittedIsBatch

LEMMA OpensKeepsReport ==
  ASSUME ReportInv, Outset, Opens, UNCHANGED config
  PROVE  ReportInv'
<1> USE DEF ReportInv
<1>1. /\ pc = "open" /\ UNCHANGED <<coreVars, callVars, runOpen, failure>>
      /\ UNCHANGED <<waiting, over, chunks, late>>
      /\ pc' \in {"read", "sniff", "Exception"}
  BY DEF Opens
<1>2. /\ call # None /\ call.source # "list" /\ explicitSkips = {} /\ failure = None
      /\ format = None /\ call \in CallRecords
  BY <1>1 DEF Outset, Course, TransportTypeOK
<1>3. ~ waiting /\ ~ waiting'
  <2>1. ~ waiting
    BY <1>1 DEF TransportTypeOK, Reading
  <2> QED BY <1>1, <2>1, Zenon
<1>4. PICK rules, batch :
        /\ rules = IF call.contentType = "other" THEN {"AGUI505"} ELSE {}
        /\ batch = Emitted(IF call.contentType = "other" THEN <<"AGUI505">> ELSE <<>>)
  OBVIOUS
<1>5. IsBatch(batch, rules) /\ diagnostics' = diagnostics \o batch
  <2>1. "AGUI505" \in Rules
    BY DEF Rules, CatalogWarnings
  <2>2. IsBatch(batch, rules)
    BY <1>4, <2>1, OneRule, NoRule
  <2> QED BY <1>4, <2>2 DEF Opens
<1>6. Tells(batch) \/ TellsUntilBroken(batch, 1)
  BY <1>4 DEF Opens
<1>7. format' \in {None, "sse", "ndjson"} /\ (format' = "ndjson" <=> call.contentType = "ndjson")
      /\ (pc' = "sniff" => format' = None)
  BY NoTextAssumption DEF Opens, Knows
<1>8. \/ UNCHANGED explicitSkips
      \/ explicitSkips' = MarkedSkips \cup IF call.contentType = "ndjson" THEN {"AGUI501"} ELSE {}
  BY DEF Opens
<1>9. explicitSkips' \subseteq TransportRules /\ Marked'
  <2>1. UNCHANGED call /\ (Recorded' <=> Recorded)
    BY <1>1, OptionsStay
  <2>2. /\ "AGUI501" \in explicitSkips' => call.contentType = "ndjson"
        /\ "AGUI505" \in explicitSkips' => call.contentType = None
        /\ explicitSkips' \cap {"AGUI506", "AGUI507", "AGUI508"} # {} => Recorded
        /\ explicitSkips' \subseteq TransportRules
    BY <1>2, <1>8 DEF MarkedSkips, TransportRules
  <2> QED BY <1>7, <2>1, <2>2 DEF Marked
<1>10. Steady
  BY <1>1, <1>2 DEF Steady
<1>11. ASSUME NEW rule \in rules PROVE Grounds(rule)'
  <2>1. rule = "AGUI505" /\ call.contentType = "other" /\ UNCHANGED call
    BY <1>1, <1>4, <1>11 DEF callVars
  <2> QED BY <1>2, <2>1 DEF Grounds
<1>12. Said' /\ OverridesTyped' /\ diagnostics' \in Seq(Diagnostics) /\ batch \in Seq(Diagnostics)
  BY <1>5, <1>9, <1>10, <1>11, ReportSpeaks
<1>13. told' \in Seq(Diagnostics)
  BY <1>6, <1>12, ToldGrows DEF TransportTypeOK
<1>14. Course'
  BY <1>1, <1>2, <1>7 DEF Course, callVars, optionVars, LayersOf
<1>15. TransportTypeOK'
  <2>1. /\ RunTypeOK' /\ call' \in CallRecords \cup {None}
    BY <1>1 DEF TransportTypeOK, coreVars, lifecycleVars, scopeVars, callVars, RunTypeOK, ScopeTypeOK
  <2>2. /\ chunks' \in 0..2 /\ failure' = None
        /\ {waiting', over', late', runOpen', deepChunk', internalError'} \subseteq BOOLEAN
    BY <1>1, <1>2 DEF TransportTypeOK, coreVars
  <2> QED BY <1>1, <1>3, <1>7, <1>9, <1>12, <1>13, <2>1, <2>2 DEF TransportTypeOK, Returned
<1>16. Concluded'
  BY <1>1 DEF Concluded, Returned
<1>17. ConfigTyped'
  BY DEF ConfigTyped
<1> QED BY <1>12, <1>14, <1>15, <1>16, <1>17

LEMMA FramingKeepsReport ==
  ASSUME ReportInv, Outset, FramingProblem, UNCHANGED config
  PROVE  ReportInv'
<1> USE DEF ReportInv
<1>1. /\ pc = "read" /\ format = "sse" /\ ~ waiting
      /\ UNCHANGED <<coreVars, readVars, explicitSkips, callVars, runOpen>>
      /\ \/ UNCHANGED <<pc, failure>>
         \/ Recorded /\ pc' = "TransportError" /\ UNCHANGED failure
         \/ ~ Recorded /\ pc' = "failed" /\ failure' = "listener"
  BY DEF FramingProblem, Escapes
<1>2. call # None /\ call.source # "list" /\ failure = None
  BY <1>1 DEF Outset, Course
<1>3. PICK batch : batch = Emitted(<<"AGUI501">>)
  OBVIOUS
<1>4. IsBatch(batch, {"AGUI501"}) /\ diagnostics' = diagnostics \o batch
  <2>1. "AGUI501" \in Rules
    BY DEF Rules, CatalogErrors
  <2> QED BY <1>3, <2>1, OneRule DEF FramingProblem
<1>5. Tells(batch) \/ TellsUntilBroken(batch, 1)
  BY <1>3 DEF FramingProblem
<1>6. Steady /\ UNCHANGED <<format, call>>
  BY <1>1, <1>2 DEF Steady, readVars, callVars
<1>7. Marked'
  BY <1>1, <1>6, MarksStay DEF Said
<1>8. Grounds("AGUI501")'
  BY <1>1, <1>2, <1>6 DEF Grounds
<1>9. Said' /\ OverridesTyped' /\ diagnostics' \in Seq(Diagnostics) /\ batch \in Seq(Diagnostics)
  BY <1>4, <1>6, <1>7, <1>8, ReportSpeaks
<1>10. told' \in Seq(Diagnostics)
  BY <1>5, <1>9, ToldGrows DEF TransportTypeOK
<1>11. TransportTypeOK'
  <2>1. RunTypeOK' /\ {runOpen', deepChunk', internalError'} \subseteq BOOLEAN
    BY <1>1 DEF TransportTypeOK, coreVars, lifecycleVars, scopeVars, RunTypeOK, ScopeTypeOK
  <2> QED BY <1>1, <1>2, <1>9, <1>10, <2>1, SpeakingTypes DEF Returned
<1>12. Course'
  BY <1>1, <1>2, <1>6, NoTextAssumption DEF Course, callVars, optionVars, LayersOf, Recorded
<1>13. Concluded' /\ ConfigTyped'
  BY <1>1 DEF Concluded, Returned, ConfigTyped
<1> QED BY <1>9, <1>11, <1>12, <1>13

LEMMA FailureKeepsReport ==
  ASSUME ReportInv, Outset, HandlesFailure, UNCHANGED config
  PROVE  ReportInv'
<1> USE DEF ReportInv
<1>1. /\ pc = "failed" /\ pc' \in {"wrap up", "Exception"}
      /\ UNCHANGED <<coreVars, readVars, explicitSkips, callVars, runOpen, failure>>
  BY DEF HandlesFailure
<1>2. call # None /\ call.source # "list" /\ failure # None
  BY <1>1 DEF Outset, Course
<1>3. ~ waiting
  BY <1>1 DEF TransportTypeOK, Reading
<1>4. PICK rules, batch : /\ rules = IF runOpen THEN {"AGUI508"} ELSE {}
                          /\ batch = Emitted(DropRules)
  OBVIOUS
<1>5. IsBatch(batch, rules) /\ diagnostics' = diagnostics \o batch
  <2>1. "AGUI508" \in Rules
    BY DEF Rules, CatalogErrors
  <2>2. CASE runOpen
    BY <1>4, <2>1, <2>2, OneRule DEF HandlesFailure, DropRules
  <2>3. CASE ~ runOpen
    BY <1>4, <2>3, NoRule DEF HandlesFailure, DropRules
  <2> QED BY <2>2, <2>3
<1>6. Tells(batch) \/ TellsUntilBroken(batch, 1)
  BY <1>4 DEF HandlesFailure
<1>7. runOpen' <=> runOpen
  <2>1. runOpen' = runOpen
    BY <1>1
  <2> QED BY <2>1, Zenon
<1>8. Steady /\ UNCHANGED <<format, call, failure>>
  BY <1>1, <1>7 DEF Steady, readVars, callVars
<1>9. Marked'
  BY <1>1, <1>8, MarksStay DEF Said
<1>10. ASSUME NEW rule \in rules PROVE Grounds(rule)'
  <2>1. rule = "AGUI508" /\ runOpen
    BY <1>4, <1>10
  <2> QED BY <1>1, <1>2, <1>7, <1>8, <2>1 DEF Grounds
<1>11. /\ Said' /\ OverridesTyped' /\ diagnostics' \in Seq(Diagnostics) /\ batch \in Seq(Diagnostics)
       /\ ReportedRules' = ReportedRules \cup {rule \in rules : ~ IsOff(rule)}
  BY <1>5, <1>8, <1>9, <1>10, ReportSpeaks
<1>12. told' \in Seq(Diagnostics)
  BY <1>6, <1>11, ToldGrows DEF TransportTypeOK
<1>13. TransportTypeOK'
  <2>1. RunTypeOK' /\ {runOpen', deepChunk', internalError'} \subseteq BOOLEAN
    BY <1>1 DEF TransportTypeOK, coreVars, lifecycleVars, scopeVars, RunTypeOK, ScopeTypeOK
  <2>2. failure' \in {None, "connection", "listener", "payload"}
    BY <1>8 DEF TransportTypeOK
  <2>3. pc' # "returned"
    BY <1>1
  <2> QED BY <1>1, <1>3, <1>11, <1>12, <2>1, <2>2, <2>3, SpeakingTypes DEF Returned
<1>14. Course'
  BY <1>1, <1>2 DEF Course, callVars, optionVars, LayersOf
<1>15. Concluded'
  <2>1. ASSUME runOpen', ~ IsOff("AGUI508")' PROVE "AGUI508" \in ReportedRules'
    <3>1. ~ IsOff("AGUI508") /\ "AGUI508" \in rules
      BY <1>1, <1>4, <1>7, <2>1, OptionsStay
    <3> QED BY <1>11, <3>1
  <2>2. ~ Returned'
    BY <1>1 DEF Returned
  <2> QED BY <2>1, <2>2 DEF Concluded
<1>16. ConfigTyped'
  BY DEF ConfigTyped
<1> QED BY <1>11, <1>13, <1>14, <1>15, <1>16

\* What a payload adds to the report, if anything, and what becomes of the flags.
LEMMA FeedsSays ==
  ASSUME OverridesTyped, LifecycleInv', NEW p, Feeds(p), NEW rest \in Broken(p)
  PROVE  \E rules \in SUBSET EventRules :
           IsBatch(Emitted(InOrder(lifecycleFound') \o rest), rules)
<1>1. PICK more : more = {rest[j] : j \in 1..Len(rest)}
  OBVIOUS
<1>2. rest \in Seq(Rules) /\ more \subseteq EventRules
  <2>1. CASE rest = <<>>
    BY <1>1, <2>1
  <2>2. ASSUME NEW rule \in CategoryRules, rest = <<rule>>
        PROVE  rest \in Seq(Rules) /\ more \subseteq EventRules
    <3>1. rule \in EventRules /\ rule \in Rules
      BY CategoryRulesAssumption DEF EventRules
    <3> QED BY <1>1, <2>2, <3>1
  <2> QED BY <2>1, <2>2 DEF Broken
<1>3. PICK own \in SUBSET EventRules :
        IsBatch(Emitted(InOrder(lifecycleFound') \o rest), own \cup more)
  BY <1>1, <1>2, FeedsFinitely, FindingsBatch
<1> QED BY <1>2, <1>3

LEMMA FeedsFlags ==
  ASSUME NEW p, Feeds(p), {deepChunk, internalError} \subseteq BOOLEAN
  PROVE  {deepChunk', internalError'} \subseteq BOOLEAN
<1>1. deepChunk \in BOOLEAN /\ internalError \in BOOLEAN
  OBVIOUS
<1>2. CASE ParserFails
  BY <1>1, <1>2 DEF ParserFails
<1>3. CASE HandlerFails(p)
  BY <1>3 DEF HandlerFails
<1>4. CASE Handles(p)
  <2>1. internalError' = internalError
    BY <1>4 DEF Handles
  <2>2. deepChunk' \in BOOLEAN
    BY <1>4, Zenon DEF Handles
  <2> QED BY <1>1, <2>1, <2>2
<1> QED BY <1>2, <1>3, <1>4 DEF Feeds

LEMMA RunOpenIsFlag ==
  ASSUME NEW p, RunOpenFollows(p), runOpen \in BOOLEAN
  PROVE  runOpen' \in BOOLEAN
<1>1. CASE p.nested = "payload"
  BY <1>1 DEF RunOpenFollows
<1>2. CASE p.nested # "payload" /\ p.event.type = "RUN_STARTED"
  BY <1>2 DEF RunOpenFollows, TerminalTypes
<1>3. CASE p.nested # "payload" /\ p.event.type # "RUN_STARTED" /\ p.event.type \in TerminalTypes
  BY <1>3 DEF RunOpenFollows
<1>4. CASE p.nested # "payload" /\ p.event.type # "RUN_STARTED" /\ p.event.type \notin TerminalTypes
  BY <1>4 DEF RunOpenFollows
<1> QED BY <1>1, <1>2, <1>3, <1>4

LEMMA ItemKeepsReport ==
  ASSUME ReportInv, Outset, LifecycleInv', NEW p \in payloads, Item(p), UNCHANGED config
  PROVE  ReportInv'
<1> USE DEF ReportInv
<1>1. /\ pc = "read" /\ ~ waiting
      /\ Feeds(p) /\ RunOpenFollows(p)
      /\ UNCHANGED <<readVars, explicitSkips, callVars>>
      /\ \/ UNCHANGED <<pc, failure>>
         \/ Recorded /\ pc' = "TransportError" /\ UNCHANGED failure
         \/ ~ Recorded /\ pc' = "failed" /\ failure' \in {"listener", "payload"}
  BY DEF Item, Escapes
<1>2. call # None /\ call.source # "list" /\ failure = None
  BY <1>1 DEF Outset, Course
<1>3. PICK rules, batch :
        /\ rules \subseteq EventRules
        /\ IsBatch(batch, rules) /\ diagnostics' = diagnostics \o batch
        /\ told' = told \/ Tells(batch) \/ TellsUntilBroken(batch, 0)
  <2>1. CASE UNCHANGED <<diagnostics, told>>
    <3>1. diagnostics' = diagnostics \o <<>>
      BY <2>1, ConcatEmptySeq DEF TransportTypeOK
    <3> QED BY <2>1, <3>1, BatchOfNone
  <2>2. ASSUME NEW rest \in Broken(p), NEW batch,
               batch = Emitted(InOrder(lifecycleFound') \o rest),
               diagnostics' = diagnostics \o batch, Tells(batch) \/ TellsUntilBroken(batch, 0)
        PROVE  \E rules \in SUBSET EventRules : IsBatch(batch, rules)
    BY <1>1, <2>2, FeedsSays
  <2> QED BY <2>1, <2>2 DEF Item
<1>4. Steady /\ UNCHANGED <<format, call>>
  BY <1>1, <1>2 DEF Steady, readVars, callVars
<1>5. Marked'
  BY <1>1, <1>4, MarksStay DEF Said
<1>6. /\ Said' /\ OverridesTyped' /\ diagnostics' \in Seq(Diagnostics) /\ batch \in Seq(Diagnostics)
  BY <1>3, <1>4, <1>5, EventsNeedNoGrounds, ReportSpeaks
<1>7. told' \in Seq(Diagnostics)
  BY <1>3, <1>6, ToldGrows DEF TransportTypeOK
<1>8. TransportTypeOK'
  <2>1. {runOpen', deepChunk', internalError'} \subseteq BOOLEAN
    BY <1>1, FeedsFlags, RunOpenIsFlag DEF TransportTypeOK
  <2>2. RunTypeOK'
    BY DEF LifecycleInv
  <2> QED BY <1>1, <1>2, <1>6, <1>7, <2>1, <2>2, SpeakingTypes DEF Returned
<1>9. Course'
  BY <1>1, <1>2, <1>4, NoTextAssumption DEF Course, callVars, optionVars, LayersOf, Recorded
<1>10. Concluded' /\ ConfigTyped'
  BY <1>1 DEF Concluded, Returned, ConfigTyped
<1> QED BY <1>6, <1>8, <1>9, <1>10

LEMMA ListItemKeepsReport ==
  ASSUME ReportInv, Outset, LifecycleInv', NEW p \in payloads, ListItem(p), UNCHANGED config
  PROVE  ReportInv'
<1> USE DEF ReportInv
<1>1. /\ pc = "list" /\ Feeds(p)
      /\ UNCHANGED <<readVars, explicitSkips, callVars, told, pc, runOpen, failure>>
  BY DEF ListItem
<1>2. call # None /\ call.source = "list" /\ failure = None
  BY <1>1 DEF Outset, Course
<1>3. ~ waiting
  BY <1>1 DEF TransportTypeOK, Reading
<1>4. PICK rest \in Broken(p) : diagnostics' = diagnostics \o Emitted(InOrder(lifecycleFound') \o rest)
  BY DEF ListItem
<1>5. PICK rules, batch :
        rules \subseteq EventRules /\ IsBatch(batch, rules) /\ diagnostics' = diagnostics \o batch
  BY <1>1, <1>4, FeedsSays
<1>6. Steady /\ UNCHANGED <<format, call>>
  BY <1>1, <1>2 DEF Steady, readVars, callVars
<1>7. Marked'
  BY <1>1, <1>6, MarksStay DEF Said
<1>8. Said' /\ OverridesTyped' /\ diagnostics' \in Seq(Diagnostics)
  BY <1>5, <1>6, <1>7, EventsNeedNoGrounds, ReportSpeaks
<1>9. TransportTypeOK'
  <2>1. {runOpen', deepChunk', internalError'} \subseteq BOOLEAN
    BY <1>1, FeedsFlags DEF TransportTypeOK
  <2>2. RunTypeOK' /\ told' \in Seq(Diagnostics)
    BY <1>1 DEF LifecycleInv, TransportTypeOK
  <2> QED BY <1>1, <1>2, <1>3, <1>8, <2>1, <2>2, SpeakingTypes DEF Returned
<1>10. Course'
  BY <1>1, <1>2, <1>6 DEF Course, callVars, optionVars, LayersOf
<1>11. Concluded' /\ ConfigTyped'
  BY <1>1 DEF Concluded, Returned, ConfigTyped
<1> QED BY <1>8, <1>9, <1>10, <1>11

-----------------------------------------------------------------------------
(* The end of the stream.                                                   *)

LEMMA FinalizeFlags ==
  ASSUME Finalize, {deepChunk, internalError} \subseteq BOOLEAN
  PROVE  /\ {deepChunk', internalError'} \subseteq BOOLEAN /\ finalized'
         /\ ~ internalError' => ~ FinalizeRaises
<1>1. CASE FinalizeRaises
  BY <1>1 DEF Finalize, Finalizes
<1>2. CASE ~ FinalizeRaises
  BY <1>2 DEF Finalize, LifecycleFinalize, Finalizes
<1> QED BY <1>1, <1>2

\* What finalize() finds is reported: AGUI003, when a run is still open.
LEMMA FinalizeSays ==
  ASSUME OverridesTyped, LifecycleInv', Finalize, NEW feature \in FeatureRules
  PROVE  \E rules \in SUBSET (EventRules \cup {"AGUI305"}) :
           /\ IsBatch(Emitted(InOrder(lifecycleFound') \o feature), rules)
           /\ "AGUI305" \in rules => "shared-state" \in features
           /\ ~ FinalizeRaises /\ run # None /\ terminal = None => "AGUI003" \in rules
<1>1. PICK more : more = {feature[j] : j \in 1..Len(feature)}
  OBVIOUS
<1>2. /\ feature \in Seq(Rules) /\ more \subseteq {"AGUI305"}
      /\ more # {} => "shared-state" \in features
  <2>1. CASE feature = <<>>
    BY <1>1, <2>1
  <2>2. CASE feature = <<"AGUI305">> /\ "shared-state" \in features
    <3>1. "AGUI305" \in Rules
      BY DEF Rules, CatalogWarnings
    <3> QED BY <1>1, <2>2, <3>1
  <2> QED BY <2>1, <2>2 DEF FeatureRules
<1>3. PICK own \in SUBSET EventRules :
        /\ own = {f.rule : f \in lifecycleFound'}
        /\ IsBatch(Emitted(InOrder(lifecycleFound') \o feature), own \cup more)
  BY <1>1, <1>2, FinalizesFinitely, FindingsBatch
<1>4. ~ FinalizeRaises /\ run # None /\ terminal = None => "AGUI003" \in own
  BY <1>3, FinalizesFinitely
<1>5. "AGUI305" \notin own
  BY <1>3 DEF EventRules
<1> QED BY <1>2, <1>3, <1>4, <1>5

LEMMA ListEndsKeepsReport ==
  ASSUME ReportInv, Outset, LifecycleInv, ListEnds, UNCHANGED config
  PROVE  ReportInv'
<1> USE DEF ReportInv
<1>1. /\ pc = "list" /\ pc' = "returned" /\ Finalize
      /\ UNCHANGED <<readVars, explicitSkips, callVars, told, runOpen, failure>>
  BY DEF ListEnds
<1>2. call # None /\ call.source = "list" /\ failure = None
  BY <1>1 DEF Outset, Course
<1>3. ~ waiting
  BY <1>1 DEF TransportTypeOK, Reading
<1>4. LifecycleInv' /\ UNCHANGED <<run, terminal>>
  BY <1>1, FinalizeKeepsRun
<1>5. PICK feature \in FeatureRules :
        diagnostics' = diagnostics \o Emitted(InOrder(lifecycleFound') \o feature)
  BY DEF ListEnds
<1>6. PICK rules, batch :
        /\ rules \subseteq EventRules \cup {"AGUI305"}
        /\ IsBatch(batch, rules) /\ diagnostics' = diagnostics \o batch
        /\ "AGUI305" \in rules => "shared-state" \in features
        /\ ~ FinalizeRaises /\ run # None /\ terminal = None => "AGUI003" \in rules
  BY <1>1, <1>4, <1>5, FinalizeSays
<1>7. Steady /\ UNCHANGED <<format, call, features>>
  BY <1>1, <1>2 DEF Steady, readVars, callVars, optionVars
<1>8. Marked'
  BY <1>1, <1>7, MarksStay DEF Said
<1>9. ASSUME NEW rule \in rules PROVE Grounds(rule)'
  <2>1. CASE rule \in EventRules
    BY <2>1, EventsNeedNoGrounds
  <2>2. CASE rule = "AGUI305"
    BY <1>6, <1>7, <1>9, <2>2 DEF Grounds, TransportRules
  <2> QED BY <1>6, <1>9, <2>1, <2>2
<1>10. /\ Said' /\ OverridesTyped' /\ diagnostics' \in Seq(Diagnostics)
       /\ ReportedRules' = ReportedRules \cup {rule \in rules : ~ IsOff(rule)}
  BY <1>6, <1>7, <1>8, <1>9, ReportSpeaks
<1>11. /\ {deepChunk', internalError'} \subseteq BOOLEAN /\ finalized'
       /\ ~ internalError' => ~ FinalizeRaises
  BY <1>1, FinalizeFlags DEF TransportTypeOK
<1>12. TransportTypeOK'
  <2>1. RunTypeOK' /\ told' \in Seq(Diagnostics) /\ runOpen' \in BOOLEAN
    BY <1>1, <1>4 DEF LifecycleInv, TransportTypeOK
  <2> QED BY <1>1, <1>2, <1>3, <1>10, <1>11, <2>1, SpeakingTypes DEF Returned
<1>13. Course'
  BY <1>1, <1>2, <1>7 DEF Course, callVars, optionVars, LayersOf
<1>14. Concluded'
  <2>1. ASSUME ~ internalError', run' # None, terminal' = None, ~ IsOff("AGUI003")'
        PROVE  "AGUI003" \in ReportedRules'
    <3>1. "AGUI003" \in rules /\ ~ IsOff("AGUI003")
      BY <1>1, <1>4, <1>6, <1>11, <2>1, OptionsStay
    <3> QED BY <1>10, <3>1
  <2> QED BY <1>1, <1>2, <2>1 DEF Concluded
<1>15. ConfigTyped'
  BY DEF ConfigTyped
<1> QED BY <1>10, <1>12, <1>13, <1>14, <1>15

LEMMA TimingSays ==
  ASSUME OverridesTyped, NEW nowLate
  PROVE  \E rules \in SUBSET {"AGUI506", "AGUI507"} :
           /\ IsBatch(Emitted(TimingRules(nowLate)), rules)
           /\ rules # {} => ~ Recorded
<1> DEFINE T == {"AGUI506", "AGUI507"}
<1>1. PICK s, rules : s = TimingRules(nowLate) /\ rules = {s[j] : j \in 1..Len(s)}
  OBVIOUS
<1>2. s \in Seq(T) /\ (Recorded => s = <<>>)
  <2>1. PICK a, b :
          /\ a = IF late \/ (chunks > 0 /\ nowLate) THEN <<"AGUI506">> ELSE <<>>
          /\ b = IF chunks = 1 /\ eventCount >= 3 THEN <<"AGUI507">> ELSE <<>>
    OBVIOUS
  <2>2. <<>> \in Seq(T) /\ <<"AGUI506">> \in Seq(T) /\ <<"AGUI507">> \in Seq(T)
    OBVIOUS
  <2>3. a \in Seq(T) /\ b \in Seq(T)
    <3>1. /\ a = <<>> \/ a = <<"AGUI506">>
          /\ b = <<>> \/ b = <<"AGUI507">>
      BY <2>1
    <3> QED BY <2>2, <3>1
  <2>4. s = <<>> \/ s = a \o b
    BY <1>1, <2>1 DEF TimingRules
  <2>5. Recorded => s = <<>>
    BY <1>1 DEF TimingRules
  <2>6. \A x \in Seq(T), y \in Seq(T) : x \o y \in Seq(T)
    OBVIOUS
  <2>7. s \in Seq(T)
    <3> HIDE DEF T
    <3> QED BY <2>2, <2>3, <2>4, <2>6
  <2> QED BY <2>5, <2>7
<1>3. "AGUI506" \in Rules /\ "AGUI507" \in Rules
  BY DEF Rules, CatalogInfos
<1>4. s \in Seq(Rules) /\ rules \subseteq T /\ (s = <<>> => rules = {})
  <2>1. \A j \in 1..Len(s) : s[j] \in T
    BY <1>2
  <2> QED BY <1>1, <1>2, <1>3, <2>1
<1> QED BY <1>1, <1>2, <1>4, EmittedIsBatch

LEMMA WrapsUpKeepsReport ==
  ASSUME ReportInv, Outset, LifecycleInv, WrapsUp, UNCHANGED config
  PROVE  ReportInv'
<1> USE DEF ReportInv
<1>1. /\ pc = "wrap up" /\ pc' \in {"returned", "Exception"} /\ Finalize
      /\ UNCHANGED <<readVars, explicitSkips, callVars, runOpen, failure>>
  BY DEF WrapsUp
<1>2. call # None /\ call.source # "list"
  BY <1>1 DEF Outset, Course
<1>3. ~ waiting
  BY <1>1 DEF TransportTypeOK, Reading
<1>4. LifecycleInv' /\ UNCHANGED <<run, terminal>>
  BY <1>1, FinalizeKeepsRun
<1>5. PICK nowLate, feature, before, batch, all :
        /\ feature \in FeatureRules
        /\ before = Emitted(TimingRules(nowLate))
        /\ batch = Emitted(InOrder(lifecycleFound') \o feature)
        /\ all = before \o batch
        /\ diagnostics' = diagnostics \o all
        /\ Tells(all) \/ TellsUntilBroken(all, 1)
  BY DEF WrapsUp, EndsTold
<1>6. PICK early : /\ early \subseteq {"AGUI506", "AGUI507"} /\ IsBatch(before, early)
                   /\ early # {} => ~ Recorded
  BY <1>5, TimingSays
<1>7. PICK last : /\ last \subseteq EventRules \cup {"AGUI305"}
                  /\ IsBatch(batch, last)
                  /\ "AGUI305" \in last => "shared-state" \in features
                  /\ ~ FinalizeRaises /\ run # None /\ terminal = None => "AGUI003" \in last
  BY <1>1, <1>4, <1>5, FinalizeSays
<1>8. PICK rules : rules = early \cup last
  OBVIOUS
<1>9. IsBatch(all, rules)
  BY <1>5, <1>6, <1>7, <1>8, BatchesJoin
<1>10. runOpen' <=> runOpen
  <2>1. runOpen' = runOpen
    BY <1>1
  <2> QED BY <2>1, Zenon
<1>11. Steady /\ UNCHANGED <<format, call, features>>
  BY <1>1, <1>10 DEF Steady, readVars, callVars, optionVars
<1>12. Marked'
  BY <1>1, <1>11, MarksStay DEF Said
<1>13. ASSUME NEW rule \in rules PROVE Grounds(rule)'
  <2>1. CASE rule \in EventRules
    BY <2>1, EventsNeedNoGrounds
  <2>2. CASE rule = "AGUI305"
    BY <1>6, <1>7, <1>8, <1>11, <1>13, <2>2 DEF Grounds, TransportRules
  <2>3. CASE rule \in early
    <3>1. ~ Recorded'
      BY <1>1, <1>6, <2>3, OptionsStay
    <3> QED BY <1>2, <1>6, <1>11, <2>3, <3>1 DEF Grounds
  <2> QED BY <1>7, <1>8, <1>13, <2>1, <2>2, <2>3
<1>14. /\ Said' /\ OverridesTyped' /\ diagnostics' \in Seq(Diagnostics) /\ all \in Seq(Diagnostics)
       /\ ReportedRules' = ReportedRules \cup {rule \in rules : ~ IsOff(rule)}
  BY <1>5, <1>9, <1>11, <1>12, <1>13, ReportSpeaks
<1>15. told' \in Seq(Diagnostics)
  BY <1>5, <1>14, ToldGrows DEF TransportTypeOK
<1>16. /\ {deepChunk', internalError'} \subseteq BOOLEAN /\ finalized'
       /\ ~ internalError' => ~ FinalizeRaises
  BY <1>1, FinalizeFlags DEF TransportTypeOK
<1>17. TransportTypeOK'
  <2>1. RunTypeOK' /\ runOpen' \in BOOLEAN
    BY <1>1, <1>4 DEF LifecycleInv, TransportTypeOK
  <2>2. failure' \in {None, "connection", "listener", "payload"}
    BY <1>1 DEF TransportTypeOK
  <2> QED BY <1>1, <1>3, <1>14, <1>15, <1>16, <2>1, <2>2, SpeakingTypes
<1>18. Course'
  BY <1>1, <1>2, <1>11 DEF Course, callVars, optionVars, LayersOf
<1>19. Concluded'
  <2>1. ASSUME ~ internalError', run' # None, terminal' = None, ~ IsOff("AGUI003")'
        PROVE  "AGUI003" \in ReportedRules'
    <3>1. "AGUI003" \in rules /\ ~ IsOff("AGUI003")
      BY <1>1, <1>4, <1>7, <1>8, <1>16, <2>1, OptionsStay
    <3> QED BY <1>14, <3>1
  <2>2. ASSUME failure' # None, runOpen', ~ IsOff("AGUI508")'
        PROVE  "AGUI508" \in ReportedRules'
    <3>1. failure # None /\ runOpen /\ ~ IsOff("AGUI508")
      BY <1>1, <1>10, <2>2, OptionsStay
    <3>2. "AGUI508" \in ReportedRules
      BY <1>1, <3>1 DEF Concluded
    <3> QED BY <1>14, <3>2
  <2> QED BY <2>1, <2>2 DEF Concluded
<1>20. ConfigTyped'
  BY DEF ConfigTyped
<1> QED BY <1>14, <1>17, <1>18, <1>19, <1>20

-----------------------------------------------------------------------------
(* The command line and the beginning of a call.                            *)

LEMMA AppliedTyped ==
  ASSUME ConfigTyped, NEW flag \in Switches \cup ValueFlags, NEW value, Takes(flag, value),
         config' = Applied(flag, value)
  PROVE  ConfigTyped'
<1> DEFINE OptionNames == DOMAIN DefaultConfig
<1>1. /\ "overrides" \in OptionNames /\ "format" \in OptionNames /\ "files" \in OptionNames
      /\ DOMAIN config = OptionNames
  BY DEF DefaultConfig, ConfigTyped
<1>2. ASSUME NEW rule, NEW severity \in Overrides,
             config' = [config EXCEPT !.overrides = Override(rule, severity)]
      PROVE  ConfigTyped'
  <2>1. PICK d : d = Put(config.overrides, rule, severity)
    OBVIOUS
  <2>2. \A r \in DOMAIN d : d[r] \in Overrides
    BY <1>2, <2>1 DEF Put, ConfigTyped
  <2>3. config' = [config EXCEPT !.overrides = d]
    BY <1>2, <2>1 DEF Override
  <2>4. config' = [option \in OptionNames |-> config'[option]] /\ config'.overrides = d
    BY <1>1, <2>3
  <2> QED BY <2>2, <2>4 DEF ConfigTyped
<1>3. ASSUME NEW option \in OptionNames, NEW what, option # "overrides",
             config' = [config EXCEPT ![option] = what]
      PROVE  ConfigTyped'
  <2>1. config' = [o \in OptionNames |-> config'[o]] /\ config'.overrides = config.overrides
    BY <1>1, <1>3
  <2> QED BY <2>1 DEF ConfigTyped
<1>4. CASE flag = "--off"
  BY <1>2, <1>4 DEF Applied, Overrides, Formats, Files
<1>5. CASE flag = "--rule"
  <2>1. Assignments[value].severity \in Overrides
    BY <1>5, AssignmentsAssumption DEF Takes, Formats
  <2> QED BY <1>2, <1>5, <2>1 DEF Applied, Formats, Files
<1>6. CASE flag = "--max-warnings"
  BY <1>3, <1>6 DEF Applied, DefaultConfig, Formats, Files
<1>7. CASE flag = "--fail-on"
  BY <1>3, <1>7 DEF Applied, DefaultConfig, Formats, Files
<1>8. CASE flag = "--timeout"
  BY <1>3, <1>8 DEF Applied, DefaultConfig, Formats, Files
<1>9. CASE flag = "--features"
  <2>1. PICK what : what = IF value \in DOMAIN FeatureLists THEN FeatureLists[value] ELSE {}
    OBVIOUS
  <2>2. config' = [config EXCEPT !.features = what]
    BY <1>9, <2>1 DEF Applied, Formats, Files
  <2> QED BY <1>3, <2>2 DEF DefaultConfig
<1>10. CASE flag \in Formats
  <2>1. config' = [config EXCEPT !.format = flag]
    BY <1>10 DEF Applied, Formats, Files
  <2> QED BY <1>1, <1>3, <2>1
<1>11. CASE flag \in Files
  <2>1. PICK what : what = config.files \cup {flag}
    OBVIOUS
  <2>2. config' = [config EXCEPT !.files = what]
    BY <1>11, <2>1 DEF Applied, Formats, Files
  <2> QED BY <1>1, <1>3, <2>2
<1>12. CASE flag = "--group"
  BY <1>3, <1>12 DEF Applied, DefaultConfig, Formats, Files
<1>13. CASE flag = "--help"
  BY <1>3, <1>13 DEF Applied, DefaultConfig, Formats, Files
<1>14. CASE flag = "--version"
  BY <1>3, <1>14 DEF Applied, DefaultConfig, Formats, Files
<1>15. CASE flag \in {"--no-color", "--header"}
  BY <1>15 DEF Applied, ConfigTyped, Formats, Files
<1> QED BY <1>4, <1>5, <1>6, <1>7, <1>8, <1>9, <1>10, <1>11, <1>12, <1>13, <1>14, <1>15
        DEF Switches, ValueFlags, Formats, Files

LEMMA ParsingTyped ==
  ASSUME ConfigTyped, ParsesArguments
  PROVE  ConfigTyped'
<1>1. CASE UNCHANGED config
  BY <1>1 DEF ConfigTyped
<1>2. CASE Switch
  BY <1>1, <1>2, AppliedTyped DEF Switch, Refuses
<1>3. CASE ValueFlag
  BY <1>1, <1>3, AppliedTyped DEF ValueFlag, Refuses
<1>4. CASE ChecksArguments
  <2>1. PICK target : \/ UNCHANGED config
                      \/ config' = [config EXCEPT !.target = target]
    BY <1>4 DEF ChecksArguments, Refuses
  <2>2. CASE config' = [config EXCEPT !.target = target]
    <3>1. "overrides" \in DOMAIN DefaultConfig /\ "target" \in DOMAIN DefaultConfig
      BY DEF DefaultConfig
    <3>2. /\ config' = [o \in DOMAIN DefaultConfig |-> config'[o]]
          /\ config'.overrides = config.overrides
      BY <2>2, <3>1 DEF ConfigTyped
    <3> QED BY <3>2 DEF ConfigTyped
  <2> QED BY <1>1, <2>1, <2>2
<1> QED BY <1>1, <1>2, <1>3, <1>4
        DEF ParsesArguments, ReadsArgument, Target, UnknownFlag, Refuses

LEMMA ValidatesKeepsReport ==
  ASSUME ReportInv, Outset, LifecycleInv', Validates
  PROVE  ReportInv'
<1> USE DEF ReportInv
<1>1. /\ pc = "main" /\ pc' = Start(call') /\ layers' = LayersOf(call')
      /\ overrides' = config.overrides
      /\ UNCHANGED <<coreVars, readVars, reportVars, runOpen, failure, config>>
      /\ call' \in CallRecords /\ call'.source \in {"endpoint", "recording"}
  BY DEF Validates, CallOf, CallRecords
<1>2. pc' \in {"fetch", "open"} /\ UNCHANGED <<diagnostics, explicitSkips, told>>
  BY <1>1 DEF Start, reportVars
<1>3. diagnostics = <<>> /\ explicitSkips = {} /\ failure = None /\ format = None /\ ~ waiting
  BY <1>1 DEF Outset, Course
<1>4. ReportedRules' = {} /\ diagnostics' = <<>> /\ explicitSkips' = {}
  BY <1>2, <1>3 DEF ReportedRules
<1>5. Said'
  <2>1. IsBatch(diagnostics, ReportedRules)'
    BY <1>4 DEF IsBatch
  <2> QED BY <1>4, <2>1 DEF Said, Marked
<1>6. OverridesTyped' /\ ConfigTyped'
  BY <1>1 DEF OverridesTyped, ConfigTyped
<1>7. Course'
  BY <1>1, <1>2, <1>3, <1>4 DEF Course, readVars
<1>8. Concluded'
  BY <1>2 DEF Concluded, Returned
<1>9. TransportTypeOK'
  <2>1. /\ format' \in {None, "sse", "ndjson"} /\ chunks' \in 0..2
        /\ {waiting', over', late', runOpen', deepChunk', internalError'} \subseteq BOOLEAN
        /\ failure' \in {None, "connection", "listener", "payload"}
        /\ diagnostics' \in Seq(Diagnostics) /\ told' \in Seq(Diagnostics)
        /\ explicitSkips' \subseteq TransportRules
    BY <1>1, <1>2 DEF TransportTypeOK, readVars, coreVars
  <2>2. ~ waiting'
    <3>1. waiting' = waiting
      BY <1>1 DEF readVars
    <3> QED BY <1>3, <3>1, Zenon
  <2>3. RunTypeOK'
    BY DEF LifecycleInv
  <2> QED BY <1>1, <1>2, <2>1, <2>2, <2>3 DEF TransportTypeOK, Returned
<1> QED BY <1>5, <1>6, <1>7, <1>8, <1>9

LEMMA AsideKeepsReport ==
  ASSUME ReportInv, LifecycleInv', UNCHANGED transportVars, ConfigTyped'
  PROVE  ReportInv'
<1> USE DEF ReportInv
<1>1. /\ UNCHANGED <<coreVars, readVars, reportVars, callVars>>
      /\ UNCHANGED <<pc, runOpen, failure>>
  BY DEF transportVars
<1>2. UNCHANGED <<call, overrides, layers, features, format, diagnostics, explicitSkips, told>>
  BY <1>1 DEF callVars, optionVars, readVars, reportVars
<1>3. OverridesTyped' /\ (\A rule : IsOff(rule)' <=> IsOff(rule)) /\ (Recorded' <=> Recorded)
  BY <1>1, OptionsStay
<1>4. IsBatch(diagnostics, ReportedRules)' /\ UNCHANGED ReportedRules
  BY <1>2, SilenceKeepsReport DEF Said
<1>5. /\ (runOpen' <=> runOpen) /\ (internalError' <=> internalError) /\ (waiting' <=> waiting)
      /\ (over' <=> over) /\ (finalized' <=> finalized)
  <2>1. /\ runOpen' = runOpen /\ internalError' = internalError /\ waiting' = waiting
        /\ over' = over /\ finalized' = finalized
    BY <1>1 DEF coreVars, readVars, lifecycleVars, scopeVars
  <2> QED BY <2>1, Zenon
<1>6. UNCHANGED <<run, terminal>>
  BY <1>1 DEF coreVars, lifecycleVars, scopeVars
<1>7. Said'
  <2>1. ASSUME NEW rule \in ReportedRules PROVE Grounds(rule)'
    <3>1. Steady
      BY <1>1, <1>2, <1>5 DEF Steady
    <3> QED BY <2>1, <3>1, GroundsStay DEF Said
  <2>2. Marked'
    BY <1>1, <1>2, MarksStay DEF Said
  <2> QED BY <1>4, <2>1, <2>2 DEF Said
<1>8. Course'
  BY <1>1, <1>2 DEF Course, LayersOf
<1>9. Concluded'
  <2>1. ASSUME pc' \in {"wrap up", "returned"}, failure' # None, runOpen', ~ IsOff("AGUI508")'
        PROVE  ("AGUI508" \in ReportedRules)'
    BY <1>1, <1>3, <1>4, <1>5, <2>1 DEF Concluded
  <2>2. ASSUME Returned', ~ internalError', run' # None, terminal' = None, ~ IsOff("AGUI003")'
        PROVE  ("AGUI003" \in ReportedRules)'
    BY <1>1, <1>3, <1>4, <1>5, <1>6, <2>2 DEF Concluded, Returned
  <2> QED BY <2>1, <2>2 DEF Concluded
<1>10. TransportTypeOK'
  <2>1. /\ call' \in CallRecords \cup {None} /\ UNCHANGED <<pc, chunks>>
        /\ {waiting', over', late', runOpen', deepChunk', internalError'} \subseteq BOOLEAN
        /\ failure' \in {None, "connection", "listener", "payload"}
    BY <1>1, <1>2 DEF TransportTypeOK, readVars, coreVars
  <2>2. RunTypeOK'
    BY DEF LifecycleInv
  <2> QED BY <1>2, <1>5, <2>1, <2>2 DEF TransportTypeOK, Reading, Returned
<1> QED BY <1>3, <1>7, <1>8, <1>9, <1>10

LEMMA ReportInit ==
  ASSUME CommandInit
  PROVE  ReportInv
<1>1. /\ format = None /\ waiting = FALSE /\ over = FALSE /\ chunks = 0 /\ late = FALSE
      /\ runOpen = FALSE /\ failure = None /\ deepChunk = FALSE /\ internalError = FALSE
      /\ diagnostics = <<>> /\ explicitSkips = {} /\ told = <<>>
  BY DEF CommandInit, FreshInit
<1>2. LifecycleInv
  BY CommandInitInv DEF CommandInv
<1>3. ReportedRules = {}
  BY <1>1 DEF ReportedRules
<1>4. /\ \A rule \in DOMAIN EmptyDict : EmptyDict[rule] \in Overrides
      /\ DefaultConfig.overrides = EmptyDict
      /\ DefaultConfig = [option \in DOMAIN DefaultConfig |-> DefaultConfig[option]]
  BY DEF EmptyDict, DefaultConfig
<1>5. /\ pc \in {"main", "fetch", "open", "list"}
      /\ call \in CallRecords \cup {None}
      /\ call # None => layers = LayersOf(call) /\ (call.source = "list" => pc = "list")
      /\ OverridesTyped
      /\ ConfigTyped
  <2>1. CASE FromCommandLine
    BY <1>4, <2>1 DEF FromCommandLine, ArgumentsInit, OverridesTyped, ConfigTyped
  <2>2. CASE FromPython
    <3>1. PICK o \in Options :
            /\ call \in Calls /\ pc = Start(call) /\ layers = LayersOf(call)
            /\ overrides = o.overrides
            /\ config = [DefaultConfig EXCEPT !.maxWarnings = o.maxWarnings]
      BY <2>2 DEF FromPython
    <3>2. call \in CallRecords
      BY <3>1, CallsAssumption
    <3>3. /\ pc \in {"main", "fetch", "open", "list"}
          /\ call.source = "list" => pc = "list"
      BY <3>1, <3>2 DEF Start, CallRecords
    <3>4. OverridesTyped
      BY <3>1, OptionsAssumption DEF OverridesTyped
    <3>5. ConfigTyped
      <4>1. /\ config = [option \in DOMAIN DefaultConfig |-> config[option]]
            /\ config.overrides = EmptyDict
        BY <1>4, <3>1 DEF DefaultConfig
      <4> QED BY <1>4, <4>1 DEF ConfigTyped
    <3> QED BY <3>1, <3>2, <3>3, <3>4, <3>5
  <2> QED BY <2>1, <2>2 DEF CommandInit
<1>6. TransportTypeOK
  <2>1. {waiting, over, late, runOpen, deepChunk, internalError} \subseteq BOOLEAN
    BY <1>1
  <2>2. ~ waiting
    BY <1>1, Zenon
  <2>3. diagnostics \in Seq(Diagnostics) /\ told \in Seq(Diagnostics)
    BY <1>1
  <2>4. RunTypeOK
    BY <1>2 DEF LifecycleInv
  <2>5. /\ format \in {None, "sse", "ndjson"} /\ chunks \in 0..2
        /\ failure \in {None, "connection", "listener", "payload"}
        /\ explicitSkips \subseteq TransportRules
    BY <1>1
  <2> QED BY <1>5, <2>1, <2>2, <2>3, <2>4, <2>5 DEF TransportTypeOK, Returned
<1>7. Course
  BY <1>1, <1>5 DEF Course
<1>8. Said
  BY <1>1, <1>3 DEF Said, Marked, IsBatch
<1>9. Concluded
  BY <1>5 DEF Concluded, Returned
<1> QED BY <1>5, <1>6, <1>7, <1>8, <1>9 DEF ReportInv

-----------------------------------------------------------------------------
\* What the caller is answered with follows from the report.
VerdictInv ==
  verdict = 0 =>
    \/ pc = "main" /\ parsed = "ok" /\ (config.help \/ config.version)
    \/ Done /\ (Returned => ExitCode(config.failOn, config.maxWarnings) = 0)

\* The inductive invariant of a call and its report.
CallInv == CommandInv /\ ReportInv /\ VerdictInv

LEMMA ReportPreserved ==
  ASSUME CommandInv, ReportInv, CommandNext, CommandInv'
  PROVE  ReportInv'
<1>1. Outset /\ LifecycleInv /\ LifecycleInv'
  BY DEF CommandInv
<1>2. CASE Parses
  <2>1. ConfigTyped'
    BY <1>2, ParsingTyped DEF Parses, ReportInv
  <2> QED BY <1>1, <1>2, <2>1, AsideKeepsReport DEF Parses
<1>3. CASE AnswersAtOnce \/ Concludes
  <2>1. ConfigTyped'
    BY <1>3 DEF AnswersAtOnce, Concludes, argumentVars, ReportInv, ConfigTyped
  <2> QED BY <1>1, <1>3, <2>1, AsideKeepsReport DEF AnswersAtOnce, Concludes
<1>4. CASE Validates
  BY <1>1, <1>4, ValidatesKeepsReport
<1>5. CASE (Works \/ Network) /\ UNCHANGED <<argumentVars, verdict>>
  <2>1. UNCHANGED config
    BY <1>5 DEF argumentVars
  <2>2. CASE Opens \/ FramingProblem \/ HandlesFailure \/ WrapsUp \/ ListEnds
    BY <1>1, <2>1, <2>2, OpensKeepsReport, FramingKeepsReport, FailureKeepsReport,
       WrapsUpKeepsReport, ListEndsKeepsReport
  <2>3. CASE \E p \in payloads : Item(p) \/ ListItem(p)
    BY <1>1, <2>1, <2>3, ItemKeepsReport, ListItemKeepsReport
  <2>4. CASE FetchFails \/ Fetches
    BY <1>1, <2>1, <2>4, FetchingIsSilent, SilentKeepsReport
  <2>5. CASE Asks \/ Chunk \/ EndOfBody \/ Breaks \/ Sniffed \/ LeavesLoop
    BY <1>1, <2>1, <2>5, ConnectingIsSilent, SilentKeepsReport
  <2> QED BY <1>5, <2>2, <2>3, <2>4, <2>5 DEF Works, Network, ReadFails, TimesOut
<1> QED BY <1>2, <1>3, <1>4, <1>5 DEF CommandNext

LEMMA VerdictPreserved ==
  ASSUME VerdictInv, ReportInv, CommandNext
  PROVE  VerdictInv'
<1>1. CASE Parses
  BY <1>1 DEF Parses, ParsesArguments, ReadsArgument, ChecksArguments, VerdictInv, transportVars,
              Done, Returned, Raised
<1>2. CASE Validates
  BY <1>2 DEF Validates, VerdictInv, Done, Returned, Raised
<1>3. CASE (Works \/ Network) /\ UNCHANGED <<argumentVars, verdict>>
  <2>1. Works \/ Network => pc # "main" /\ ~ Done
    BY DEF Works, Network, Opens, Asks, Sniffed, Item, ListItem, FramingProblem, HandlesFailure,
           LeavesLoop, WrapsUp, ListEnds, FetchFails, Fetches, Chunk, EndOfBody, ReadFails,
           TimesOut, Breaks, Reading, ReportInv, TransportTypeOK, Done, Returned, Raised
  <2> QED BY <1>3, <2>1 DEF VerdictInv
<1>4. CASE AnswersAtOnce
  BY <1>4 DEF AnswersAtOnce, Answers, VerdictInv, transportVars, argumentVars
<1>5. CASE Concludes
  <2>1. /\ Done /\ UNCHANGED <<pc, diagnostics, config>>
        /\ \/ verdict' = 2
           \/ verdict' = ExitCode(config.failOn, config.maxWarnings)
    BY <1>5 DEF Concludes, Answers, transportVars, reportVars, argumentVars
  <2>2. ExitCode(config.failOn, config.maxWarnings)' = ExitCode(config.failOn, config.maxWarnings)
    BY <2>1 DEF ExitCode, Count
  <2> QED BY <2>1, <2>2 DEF VerdictInv, Done, Returned, Raised
<1> QED BY <1>1, <1>2, <1>3, <1>4, <1>5 DEF CommandNext

LEMMA CallInvInit ==
  ASSUME CommandInit
  PROVE  CallInv
<1>1. verdict # 0
  BY NoVerdictAssumption DEF CommandInit
<1> QED BY <1>1, CommandInitInv, ReportInit DEF CallInv, VerdictInv

LEMMA CallInvPreserved ==
  ASSUME CallInv, [CommandNext]_commandVars
  PROVE  CallInv'
<1> USE DEF CallInv
<1>1. CASE CommandNext
  BY <1>1, NextPreserves, ReportPreserved, VerdictPreserved
<1>2. CASE UNCHANGED commandVars
  <2>1. UNCHANGED <<transportVars, argumentVars, verdict>>
    BY <1>2 DEF commandVars
  <2>2. CommandInv' /\ LifecycleInv'
    BY <2>1, AsideKeeps DEF CommandInv
  <2>3. ConfigTyped'
    BY <2>1 DEF argumentVars, ReportInv, ConfigTyped
  <2>4. ReportInv'
    BY <2>1, <2>2, <2>3, AsideKeepsReport
  <2>5. VerdictInv'
    <3>1. UNCHANGED <<pc, diagnostics, config, parsed>>
      BY <2>1 DEF transportVars, reportVars, argumentVars
    <3>2. ExitCode(config.failOn, config.maxWarnings)' = ExitCode(config.failOn, config.maxWarnings)
      BY <3>1 DEF ExitCode, Count
    <3> QED BY <2>1, <3>1, <3>2 DEF VerdictInv, Done, Returned, Raised
  <2> QED BY <2>2, <2>4, <2>5
<1> QED BY <1>1, <1>2

\* The report of a call has grounds for what it says and says what it has grounds
\* for, in every reachable state (transport/__init__.py, engine.py).
THEOREM CallInvariant == CommandSpec => []CallInv
<1>1. CommandInit => CallInv
  BY CallInvInit
<1>2. CallInv /\ [CommandNext]_commandVars => CallInv'
  BY CallInvPreserved
<1> QED BY <1>1, <1>2, PTL DEF CommandSpec

\* The state of the transport, whatever is read and whatever raises, has its type
\* (transport/__init__.py, validate_body).
THEOREM TransportTypeCorrect == CommandSpec => []TransportTypeOK
<1>1. CallInv => TransportTypeOK
  BY DEF CallInv, ReportInv
<1> QED BY <1>1, CallInvariant, PTL

\* AGUI508 is reported exactly when the reading loop ended in an exception inside
\* an announced run, and the run is then reported as unterminated too
\* (transport/__init__.py, validate_body; engine.py, finalize).
THEOREM DropsTold == CommandSpec => []DropsAreTold
<1>1. ASSUME CallInv, Returned, ~ internalError
      PROVE  /\ ~ IsOff("AGUI508") =>
                  ("AGUI508" \in ReportedRules <=> failure # None /\ InAnnouncedRun)
             /\ "AGUI508" \in ReportedRules /\ ~ IsOff("AGUI003") => "AGUI003" \in ReportedRules
  <2>1. Outset /\ RunOpenAgrees /\ Course /\ Said /\ Concluded
    BY <1>1 DEF CallInv, CommandInv, ReportInv
  <2>2. ASSUME "AGUI508" \in ReportedRules PROVE failure # None /\ InAnnouncedRun
    <3>1. Grounds("AGUI508")
      BY <2>1, <2>2 DEF Said
    <3>2. failure # None /\ runOpen /\ call # None /\ call.source # "list"
      BY <3>1 DEF Grounds, TransportRules
    <3> QED BY <1>1, <2>1, <3>2 DEF RunOpenAgrees
  <2>3. ASSUME failure # None, InAnnouncedRun, ~ IsOff("AGUI508")
        PROVE  "AGUI508" \in ReportedRules
    <3>1. call # None /\ call.source # "list"
      BY <1>1, <2>1, <2>3 DEF Outset, Course, Returned
    <3>2. runOpen
      BY <1>1, <2>1, <2>3, <3>1 DEF RunOpenAgrees
    <3> QED BY <1>1, <2>1, <2>3, <3>2 DEF Concluded, Returned
  <2>4. ASSUME "AGUI508" \in ReportedRules, ~ IsOff("AGUI003")
        PROVE  "AGUI003" \in ReportedRules
    <3>1. run # None /\ terminal = None
      BY <2>2, <2>4 DEF InAnnouncedRun
    <3> QED BY <1>1, <2>1, <2>4, <3>1 DEF Concluded
  <2> QED BY <2>2, <2>3, <2>4
<1>2. CallInv => DropsAreTold
  BY <1>1 DEF DropsAreTold
<1> QED BY <1>2, CallInvariant, PTL

\* What a layer marks as skipped, or what the report finds nobody evaluated, is
\* skipped for one reason and was never reported (engine.py, mark_skipped, report).
THEOREM SkippedSilent == CommandSpec => []SkippedAreSilent
<1>1. ASSUME NEW s \in Skipped
      PROVE  \/ s.rule \in explicitSkips /\ s = Skip(s.rule, "marked")
             \/ /\ s.rule \notin explicitSkips
                /\ \/ /\ s = Skip(s.rule, "no transport") /\ s.rule \in TransportRules
                      /\ "transport" \notin layers /\ ~ IsOff(s.rule)
                   \/ /\ s = Skip(s.rule, "undeclared feature") /\ s.rule = "AGUI305"
                      /\ "shared-state" \notin features /\ ~ IsOff(s.rule)
                   \/ s = Skip(s.rule, "off") /\ IsOff(s.rule)
  <2>1. CASE s \in ExplicitSkips
    <3>1. PICK rule \in explicitSkips : s = Skip(rule, "marked")
      BY <2>1 DEF ExplicitSkips
    <3>2. s.rule = rule
      BY <3>1 DEF Skip
    <3> QED BY <3>1, <3>2
  <2>2. CASE s \in ComputedSkips /\ s.rule \notin explicitSkips
    <3>1. \/ \E rule \in TransportRules : /\ s = Skip(rule, "no transport") /\ ~ IsOff(rule)
                                         /\ "transport" \notin layers
          \/ /\ s = Skip("AGUI305", "undeclared feature") /\ ~ IsOff("AGUI305")
             /\ "shared-state" \notin features
          \/ \E rule \in Rules : s = Skip(rule, "off") /\ IsOff(rule)
      BY <2>2 DEF ComputedSkips
    <3>2. ASSUME NEW rule, NEW reason PROVE Skip(rule, reason).rule = rule
      BY DEF Skip
    <3> QED BY <2>2, <3>1, <3>2
  <2> QED BY <2>1, <2>2 DEF Skipped
<1>2. ASSUME NEW s \in Skipped, NEW t \in Skipped, t.rule = s.rule PROVE t = s
  <2>1. CASE s.rule \in explicitSkips
    BY <1>1, <1>2, <2>1
  <2>2. CASE s.rule \notin explicitSkips
    BY <1>1, <1>2, <2>2 DEF TransportRules
  <2> QED BY <2>1, <2>2
<1>3. ASSUME CallInv, Returned, NEW s \in Skipped, s.rule \in ReportedRules PROVE FALSE
  <2>1. Outset /\ Course /\ Said /\ TransportTypeOK
    BY <1>3 DEF CallInv, CommandInv, ReportInv
  <2>2. Grounds(s.rule) /\ ~ IsOff(s.rule)
    BY <1>3, <2>1 DEF Said, IsBatch, ReportedRules
  <2>3. call # None
    BY <1>3, <2>1 DEF Outset, Returned
  <2>4. CASE s.rule \in explicitSkips
    <3>1. s.rule \in TransportRules
      BY <2>1, <2>4 DEF TransportTypeOK
    <3>2. Marked
      BY <2>1 DEF Said
    <3>3. s.rule # "AGUI501"
      BY <2>2, <2>4, <3>2 DEF Marked, Grounds
    <3>4. s.rule # "AGUI505"
      BY <2>2, <2>4, <3>2, NoTextAssumption DEF Marked, Grounds
    <3>5. s.rule \in {"AGUI506", "AGUI507", "AGUI508"} /\ Recorded
      BY <2>4, <3>1, <3>2, <3>3, <3>4 DEF Marked, TransportRules
    <3>6. failure = None
      BY <2>1, <3>5 DEF Course, Recorded
    <3> QED BY <2>2, <3>5, <3>6 DEF Grounds
  <2>5. CASE s.rule \in TransportRules /\ "transport" \notin layers
    BY <2>1, <2>2, <2>3, <2>5 DEF Grounds, Course, LayersOf
  <2>6. CASE s.rule = "AGUI305" /\ "shared-state" \notin features
    BY <2>2, <2>6 DEF Grounds
  <2> QED BY <1>1, <2>2, <2>4, <2>5, <2>6
<1>4. CallInv => SkippedAreSilent
  BY <1>2, <1>3 DEF SkippedAreSilent
<1> QED BY <1>4, CallInvariant, PTL

\* An error that was reported counts.
LEMMA ErrorsCount ==
  ASSUME Said, "AGUI003" \in ReportedRules, "AGUI003" \notin DOMAIN overrides
  PROVE  Count("error") > 0
<1>1. PICK n \in Nat : n = Len(diagnostics) /\ DOMAIN diagnostics = 1..n
  BY DEF Said, IsBatch
<1>2. PICK i \in 1..n : diagnostics[i].rule = "AGUI003"
  BY <1>1 DEF ReportedRules
<1>3. diagnostics[i].severity = "error"
  <2>1. diagnostics[i].severity = SeverityOf("AGUI003")
    BY <1>1, <1>2 DEF Said, IsBatch
  <2>2. CatalogSeverity("AGUI003") = "error"
    BY DEF CatalogSeverity, CatalogErrors, CatalogWarnings, CatalogInfos
  <2> QED BY <2>1, <2>2 DEF SeverityOf
<1>4. PICK E : E = {k \in DOMAIN diagnostics : diagnostics[k].severity = "error"}
  OBVIOUS
<1>5. i \in E /\ E \subseteq 1..n
  BY <1>1, <1>3, <1>4
<1>6. IsFiniteSet(E)
  <2>1. IsFiniteSet(1..n)
    BY FS_Interval
  <2>2. E \in SUBSET (1..n)
    BY <1>5
  <2> QED BY <2>1, <2>2, FS_Subset
<1>7. Cardinality(E) \in Nat /\ Cardinality(E) # 0
  BY <1>5, <1>6, FS_CardinalityType, FS_EmptySet
<1> QED BY <1>4, <1>7 DEF Count

\* A stream that stops inside a run is not called clean, whatever stopped it
\* (cli.py, pytest_plugin.py; engine.py, finalize).
THEOREM BrokenRunsNotClean == CommandSpec => []BrokenRunsAreNotClean
<1>1. ASSUME CallInv, verdict = 0, Returned, config.failOn # "none",
             "AGUI003" \notin DOMAIN overrides, run # None, terminal = None
      PROVE  internalError
  <2> SUFFICES ASSUME ~ internalError PROVE FALSE
    OBVIOUS
  <2>1. Concluded /\ Said /\ VerdictInv
    BY <1>1 DEF CallInv, ReportInv
  <2>2. "AGUI003" \in ReportedRules
    BY <1>1, <2>1 DEF Concluded, IsOff
  <2>3. ExitCode(config.failOn, config.maxWarnings) = 1
    BY <1>1, <2>1, <2>2, ErrorsCount DEF ExitCode
  <2> QED BY <1>1, <2>1, <2>3 DEF VerdictInv, Returned
<1>2. CallInv => BrokenRunsAreNotClean
  BY <1>1 DEF BrokenRunsAreNotClean
<1> QED BY <1>2, CallInvariant, PTL

-----------------------------------------------------------------------------
(* The command line.  Whether an argument is a value depends on all those   *)
(* before it; v is a table of what is.                                      *)

\* The flag at q takes the next argument for its value.
TakesNext(line, q) == line[q].flag \in ValueFlags /\ line[q].inline = Absent

IsTable(v, line) ==
  \A p \in Nat : v[p] <=> p > 1 /\ ~ v[p - 1] /\ TakesNext(line, p - 1)

\* An argument is a value when the flags without one that come just before it are
\* odd in number.
LEMMA TableExists ==
  ASSUME NEW line
  PROVE  \E v : v = [p \in Nat |-> p > 1 /\ ~ v[p - 1] /\ TakesNext(line, p - 1)]
<1> DEFINE Flags(p, k) == \A i \in 1..k : TakesNext(line, p - i)
           Row(p, k) == k < p /\ Flags(p, k) /\ (p - k = 1 \/ ~ TakesNext(line, p - k - 1))
           Odd(p) == \E j \in Nat : Row(p, 2 * j + 1)
<1>1. ASSUME NEW p \in Nat, NEW k \in Nat, p > 1, TakesNext(line, p - 1)
      PROVE  Row(p, k + 1) <=> Row(p - 1, k)
  <2>1. ASSUME Flags(p, k + 1) PROVE Flags(p - 1, k)
    <3> SUFFICES ASSUME NEW i \in 1..k PROVE TakesNext(line, (p - 1) - i)
      OBVIOUS
    <3>1. i + 1 \in 1..k + 1 /\ p - (i + 1) = (p - 1) - i
      OBVIOUS
    <3> HIDE DEF Flags
    <3>2. TakesNext(line, p - (i + 1))
      BY <2>1, <3>1 DEF Flags
    <3> QED BY <3>1, <3>2
  <2>2. ASSUME Flags(p - 1, k) PROVE Flags(p, k + 1)
    <3> SUFFICES ASSUME NEW i \in 1..k + 1 PROVE TakesNext(line, p - i)
      OBVIOUS
    <3>1. CASE i = 1
      BY <1>1, <3>1
    <3>2. CASE i # 1
      <4>1. i - 1 \in 1..k /\ (p - 1) - (i - 1) = p - i
        BY <3>2
      <4>2. TakesNext(line, (p - 1) - (i - 1))
        BY <2>2, <4>1
      <4> QED BY <4>1, <4>2
    <3> QED BY <3>1, <3>2
  <2>3. p - (k + 1) = (p - 1) - k /\ p - (k + 1) - 1 = (p - 1) - k - 1
    OBVIOUS
  <2> HIDE DEF Flags
  <2> QED BY <1>1, <2>1, <2>2, <2>3
<1>2. ASSUME NEW p \in Nat, NEW k \in Nat, NEW m \in Nat, Row(p, k), Row(p, m) PROVE k >= m
  <2> SUFFICES ASSUME k < m PROVE FALSE
    OBVIOUS
  <2>1. k + 1 \in 1..m /\ p - (k + 1) = p - k - 1
    OBVIOUS
  <2>2. TakesNext(line, p - k - 1)
    BY <1>2, <2>1
  <2> QED BY <1>2, <2>2
<1>3. ASSUME NEW p \in Nat, p >= 1 PROVE \E k \in Nat : Row(p, k)
  <2> DEFINE Limits == {k \in 0..p - 1 : p - k = 1 \/ ~ TakesNext(line, p - k - 1)}
  <2>1. Limits \subseteq Nat /\ p - 1 \in Limits
    BY <1>3
  <2>2. First(Limits) # {}
    BY <2>1, FirstExists
  <2>3. PICK k \in Limits : \A q \in Limits : k <= q
    <3> HIDE DEF Limits
    <3> QED BY <2>2 DEF First
  <2>4. ASSUME NEW i \in 1..k PROVE TakesNext(line, p - i)
    <3>1. i - 1 \in 0..p - 1 /\ ~ (k <= i - 1) /\ p - (i - 1) - 1 = p - i
      BY <2>3
    <3>2. i - 1 \notin Limits
      <4> HIDE DEF Limits
      <4> QED BY <2>3, <3>1
    <3>3. TakesNext(line, p - (i - 1) - 1)
      BY <3>1, <3>2
    <3> QED BY <3>1, <3>3
  <2> QED BY <2>3, <2>4
<1> HIDE DEF Row
<1>4. ASSUME NEW p \in Nat PROVE Odd(p) <=> p > 1 /\ ~ Odd(p - 1) /\ TakesNext(line, p - 1)
  <2>1. ASSUME Odd(p) PROVE p > 1 /\ ~ Odd(p - 1) /\ TakesNext(line, p - 1)
    <3>1. PICK j \in Nat : Row(p, 2 * j + 1)
      BY <2>1
    <3>2. p > 1 /\ TakesNext(line, p - 1)
      <4>1. 1 \in 1..2 * j + 1
        OBVIOUS
      <4> QED BY <3>1, <4>1 DEF Row
    <3>3. Row(p - 1, 2 * j)
      BY <1>1, <3>1, <3>2
    <3>4. ASSUME NEW i \in Nat, Row(p - 1, 2 * i + 1) PROVE FALSE
      <4>1. 2 * j >= 2 * i + 1 /\ 2 * i + 1 >= 2 * j
        BY <1>2, <3>2, <3>3, <3>4
      <4> QED BY <4>1
    <3> QED BY <3>2, <3>4
  <2>2. ASSUME p > 1, ~ Odd(p - 1), TakesNext(line, p - 1) PROVE Odd(p)
    <3>1. PICK k \in Nat : Row(p - 1, k)
      BY <1>3, <2>2
    <3>2. PICK j \in Nat : k = 2 * j \/ k = 2 * j + 1
      <4>1. k \div 2 \in Nat /\ (k = 2 * (k \div 2) \/ k = 2 * (k \div 2) + 1)
        OBVIOUS
      <4> QED BY <4>1
    <3>3. Row(p, 2 * j + 1)
      BY <1>1, <2>2, <3>1, <3>2
    <3> QED BY <3>3
  <2> QED BY <2>1, <2>2
<1>5. PICK values : values = {p \in Nat : Odd(p)}
  OBVIOUS
<1>6. PICK v : v = [p \in Nat |-> p \in values]
  OBVIOUS
<1> HIDE DEF Odd
<1>7. ASSUME NEW p \in Nat
      PROVE  p \in values <=> p > 1 /\ ~ v[p - 1] /\ TakesNext(line, p - 1)
  <2>1. p \in values <=> Odd(p)
    BY <1>5
  <2>2. ASSUME p > 1 PROVE v[p - 1] <=> Odd(p - 1)
    <3>1. p - 1 \in Nat
      BY <2>2
    <3>2. v[p - 1] = (p - 1 \in values)
      BY <1>6, <3>1
    <3>3. p - 1 \in values <=> Odd(p - 1)
      BY <1>5, <3>1
    <3> QED BY <3>2, <3>3, Zenon
  <2> QED BY <1>4, <2>1, <2>2
<1>8. [p \in Nat |-> p \in values] =
        [p \in Nat |-> p > 1 /\ ~ v[p - 1] /\ TakesNext(line, p - 1)]
  BY <1>7 DEF TakesNext
<1> QED BY <1>6, <1>8

LEMMA ValuesAreTold == IsTable(IsValue, argv)
<1>1. \E v : v = [p \in Nat |-> /\ p > 1
                               /\ ~ v[p - 1]
                               /\ argv[p - 1].flag \in ValueFlags /\ argv[p - 1].inline = Absent]
  BY TableExists DEF TakesNext
<1>2. IsValue = [p \in Nat |-> /\ p > 1
                              /\ ~ IsValue[p - 1]
                              /\ argv[p - 1].flag \in ValueFlags /\ argv[p - 1].inline = Absent]
  BY <1>1 DEF IsValue
<1> QED BY <1>2 DEF IsTable, TakesNext

-----------------------------------------------------------------------------
\* What Arguments says of the whole command line, of the arguments before n.
Before(v, n) == {p \in 1..n - 1 : ~ v[p]}
UsesTo(v, line, n, flags) == {p \in Before(v, n) : line[p].flag \in flags}
ValueIn(line, p) == IF line[p].inline # Absent THEN line[p].inline ELSE line[p + 1].text
SetsIn(line, p) ==
  IF line[p].flag = "--off" THEN [rule |-> ValueIn(line, p), severity |-> "off"]
  ELSE Assignments[ValueIn(line, p)]

GivenTo(v, line, n, flag, meaning, default) ==
  IF UsesTo(v, line, n, {flag}) = {} THEN default
  ELSE meaning[ValueIn(line, LatestOf(UsesTo(v, line, n, {flag})))]

Overriding(v, line, n) == UsesTo(v, line, n, {"--off", "--rule"})
OverridingOn(v, line, n, rule) == {p \in Overriding(v, line, n) : SetsIn(line, p).rule = rule}

OverridesTo(v, line, n) ==
  [rule \in {SetsIn(line, p).rule : p \in Overriding(v, line, n)} |->
     SetsIn(line, LatestOf(OverridingOn(v, line, n, rule))).severity]

FailOnTexts == [f \in FailOns |-> f]

\* The configuration c is what the arguments before n say.
ReadTo(v, line, n, c) ==
  /\ DOMAIN c = DOMAIN DefaultConfig
  /\ \A p \in Before(v, n) : line[p].flag \in Switches \cup ValueFlags \cup {Absent}
  /\ {line[p].flag : p \in UsesTo(v, line, n, Formats)} \cup {"pretty"} = {c.format, "pretty"}
  /\ c.overrides = OverridesTo(v, line, n)
  /\ c.maxWarnings = GivenTo(v, line, n, "--max-warnings", Counts, NoLimit)
  /\ c.timeout = GivenTo(v, line, n, "--timeout", Durations, NoLimit)
  /\ c.failOn = GivenTo(v, line, n, "--fail-on", FailOnTexts, "error")
  /\ c.files = {line[p].flag : p \in UsesTo(v, line, n, Files)}
  /\ \/ c.group = TRUE /\ UsesTo(v, line, n, {"--group"}) # {}
     \/ c.group = FALSE /\ UsesTo(v, line, n, {"--group"}) = {}

\* The targets are the arguments before n that are neither flags nor values, as far
\* as there is one.
TargetsTo(v, line, n, texts) ==
  /\ texts \in Seq({line[p].text : p \in DOMAIN line})
  /\ \/ texts = <<>> /\ UsesTo(v, line, n, {Absent}) = {}
     \/ \E p \in DOMAIN line :
          texts = <<line[p].text>> /\ UsesTo(v, line, n, {Absent}) = {p}
     \/ Len(texts) > 1

\* The argument at n is read and m is the next that is no value.
Advances(v, line, n, m) ==
  /\ n \in Nat \ {0}
  /\ Before(v, m) = Before(v, n) \cup {n}
  /\ ~ v[m]

LEMMA ArgumentAdvances ==
  ASSUME NEW v, NEW line, IsTable(v, line), NEW n \in Nat \ {0}, ~ v[n]
  PROVE  /\ ~ TakesNext(line, n) => Advances(v, line, n, n + 1)
         /\ TakesNext(line, n) => Advances(v, line, n, n + 2)
<1>1. /\ v[n + 1] <=> TakesNext(line, n)
      /\ v[n + 2] => ~ v[n + 1]
  <2>1. n + 1 \in Nat /\ n + 1 > 1 /\ (n + 1) - 1 = n
    OBVIOUS
  <2>2. n + 2 \in Nat /\ n + 2 > 1 /\ (n + 2) - 1 = n + 1
    OBVIOUS
  <2>3. v[n + 1] <=> ~ v[n] /\ TakesNext(line, n)
    BY <2>1 DEF IsTable
  <2>4. v[n + 2] <=> ~ v[n + 1] /\ TakesNext(line, n + 1)
    BY <2>2 DEF IsTable
  <2> QED BY <2>3, <2>4
<1>2. Before(v, n + 1) = Before(v, n) \cup {n}
  BY DEF Before
<1>3. ASSUME v[n + 1] PROVE Before(v, n + 2) = Before(v, n) \cup {n}
  <2>1. ASSUME NEW p \in 1..(n + 2) - 1, ~ v[p] PROVE p \in 1..n
    <3>1. p # n + 1
      BY <1>3, <2>1
    <3> QED BY <3>1
  <2> QED BY <2>1 DEF Before
<1> QED BY <1>1, <1>2, <1>3 DEF Advances

LEMMA UsesGrow ==
  ASSUME NEW v, NEW line, NEW n, NEW m, Advances(v, line, n, m), NEW flags
  PROVE  /\ UsesTo(v, line, m, flags) =
              UsesTo(v, line, n, flags) \cup (IF line[n].flag \in flags THEN {n} ELSE {})
         /\ UsesTo(v, line, n, flags) \subseteq 1..n - 1
BY DEF Advances, UsesTo, Before

\* The last of some positions and a later one is the later one.
LEMMA LatestIsLast ==
  ASSUME NEW n \in Nat, NEW positions, positions \subseteq 1..n - 1
  PROVE  LatestOf(positions \cup {n}) = n
<1>1. /\ n \in positions \cup {n} /\ \A q \in positions \cup {n} : q <= n
      /\ \A p \in positions \cup {n} : n <= p => p = n
  OBVIOUS
<1> QED BY <1>1 DEF LatestOf

LEMMA GivenGrows ==
  ASSUME NEW v, NEW line, NEW n, NEW m, Advances(v, line, n, m),
         NEW flag, NEW meaning, NEW default
  PROVE  GivenTo(v, line, m, flag, meaning, default) =
           IF line[n].flag = flag THEN meaning[ValueIn(line, n)]
           ELSE GivenTo(v, line, n, flag, meaning, default)
<1>1. UsesTo(v, line, m, {flag}) =
        UsesTo(v, line, n, {flag}) \cup (IF line[n].flag \in {flag} THEN {n} ELSE {})
  BY UsesGrow
<1>2. n \in Nat /\ UsesTo(v, line, n, {flag}) \subseteq 1..n - 1
  BY UsesGrow DEF Advances
<1>3. LatestOf(UsesTo(v, line, n, {flag}) \cup {n}) = n
  BY <1>2, LatestIsLast
<1> QED BY <1>1, <1>3 DEF GivenTo

LEMMA OverridesGrow ==
  ASSUME NEW v, NEW line, NEW n, NEW m, Advances(v, line, n, m)
  PROVE  OverridesTo(v, line, m) =
           IF line[n].flag \in {"--off", "--rule"}
           THEN Put(OverridesTo(v, line, n), SetsIn(line, n).rule, SetsIn(line, n).severity)
           ELSE OverridesTo(v, line, n)
<1>1. Overriding(v, line, m) =
        Overriding(v, line, n) \cup (IF line[n].flag \in {"--off", "--rule"} THEN {n} ELSE {})
  BY UsesGrow DEF Overriding
<1>2. n \in Nat /\ Overriding(v, line, n) \subseteq 1..n - 1
  BY UsesGrow DEF Overriding, Advances
<1>3. CASE line[n].flag \notin {"--off", "--rule"}
  BY <1>1, <1>3 DEF OverridesTo, OverridingOn
<1>4. CASE line[n].flag \in {"--off", "--rule"}
  <2>1. PICK set : set = SetsIn(line, n)
    OBVIOUS
  <2>2. Overriding(v, line, m) = Overriding(v, line, n) \cup {n}
    BY <1>1, <1>4
  <2>3. {SetsIn(line, p).rule : p \in Overriding(v, line, m)} =
        {SetsIn(line, p).rule : p \in Overriding(v, line, n)} \cup {set.rule}
    BY <2>1, <2>2
  <2>4. LatestOf(OverridingOn(v, line, m, set.rule)) = n
    <3>1. /\ OverridingOn(v, line, m, set.rule) = OverridingOn(v, line, n, set.rule) \cup {n}
          /\ OverridingOn(v, line, n, set.rule) \subseteq 1..n - 1
      BY <1>2, <2>1, <2>2 DEF OverridingOn
    <3> QED BY <1>2, <3>1, LatestIsLast
  <2>5. ASSUME NEW rule, rule # set.rule
        PROVE  OverridingOn(v, line, m, rule) = OverridingOn(v, line, n, rule)
    BY <2>1, <2>2, <2>5 DEF OverridingOn
  <2>6. OverridesTo(v, line, m) =
          [rule \in {SetsIn(line, p).rule : p \in Overriding(v, line, n)} \cup {set.rule} |->
             IF rule = set.rule THEN set.severity
             ELSE SetsIn(line, LatestOf(OverridingOn(v, line, n, rule))).severity]
    BY <2>1, <2>3, <2>4, <2>5 DEF OverridesTo
  <2>7. OverridesTo(v, line, m) = Put(OverridesTo(v, line, n), set.rule, set.severity)
    BY <2>6 DEF OverridesTo, Put
  <2> QED BY <1>4, <2>1, <2>7
<1> QED BY <1>3, <1>4

-----------------------------------------------------------------------------
\* What a flag leaves in the configuration, option by option.
Became(c, flag, value) ==
  /\ DOMAIN c = DOMAIN DefaultConfig
  /\ c.format = IF flag \in Formats THEN flag ELSE config.format
  /\ c.overrides =
       IF flag = "--off" THEN Put(config.overrides, value, "off")
       ELSE IF flag = "--rule"
            THEN Put(config.overrides, Assignments[value].rule, Assignments[value].severity)
            ELSE config.overrides
  /\ c.maxWarnings = IF flag = "--max-warnings" THEN Counts[value] ELSE config.maxWarnings
  /\ c.timeout = IF flag = "--timeout" THEN Durations[value] ELSE config.timeout
  /\ c.failOn = IF flag = "--fail-on" THEN value ELSE config.failOn
  /\ c.files = IF flag \in Files THEN config.files \cup {flag} ELSE config.files
  /\ \/ flag = "--group" /\ c.group = TRUE
     \/ flag # "--group" /\ c.group = config.group

LEMMA AppliedFields ==
  ASSUME NEW flag \in Switches \cup ValueFlags, NEW value,
         DOMAIN config = DOMAIN DefaultConfig,
         config = [o \in DOMAIN DefaultConfig |-> config[o]]
  PROVE  Became(Applied(flag, value), flag, value)
<1>1. PICK c : c = Applied(flag, value)
  OBVIOUS
<1>2. DOMAIN DefaultConfig = {"target", "format", "group", "overrides", "maxWarnings", "failOn",
                              "timeout", "features", "files", "help", "version"}
  BY DEF DefaultConfig
<1>3. ASSUME NEW option \in DOMAIN DefaultConfig, NEW what, c = [config EXCEPT ![option] = what]
      PROVE  /\ DOMAIN c = DOMAIN DefaultConfig
             /\ c[option] = what
             /\ \A o \in DOMAIN DefaultConfig : o # option => c[o] = config[o]
  BY <1>3
<1>4. CASE flag = "--off"
  <2>1. PICK d : d = Put(config.overrides, value, "off")
    OBVIOUS
  <2>2. c = [config EXCEPT !.overrides = d]
    BY <1>1, <1>4, <2>1 DEF Applied, Override, Formats, Files
  <2> QED BY <1>1, <1>2, <1>3, <1>4, <2>1, <2>2 DEF Became, Formats, Files
<1>5. CASE flag = "--rule"
  <2>1. PICK d : d = Put(config.overrides, Assignments[value].rule, Assignments[value].severity)
    OBVIOUS
  <2>2. c = [config EXCEPT !.overrides = d]
    BY <1>1, <1>5, <2>1 DEF Applied, Override, Formats, Files
  <2> QED BY <1>1, <1>2, <1>3, <1>5, <2>1, <2>2 DEF Became, Formats, Files
<1>6. CASE flag = "--max-warnings"
  <2>1. c = [config EXCEPT !.maxWarnings = Counts[value]]
    BY <1>1, <1>6 DEF Applied, Formats, Files
  <2> QED BY <1>1, <1>2, <1>3, <1>6, <2>1 DEF Became, Formats, Files
<1>7. CASE flag = "--fail-on"
  <2>1. c = [config EXCEPT !.failOn = value]
    BY <1>1, <1>7 DEF Applied, Formats, Files
  <2> QED BY <1>1, <1>2, <1>3, <1>7, <2>1 DEF Became, Formats, Files
<1>8. CASE flag = "--timeout"
  <2>1. c = [config EXCEPT !.timeout = Durations[value]]
    BY <1>1, <1>8 DEF Applied, Formats, Files
  <2> QED BY <1>1, <1>2, <1>3, <1>8, <2>1 DEF Became, Formats, Files
<1>9. CASE flag = "--features"
  <2>1. PICK what : what = IF value \in DOMAIN FeatureLists THEN FeatureLists[value] ELSE {}
    OBVIOUS
  <2>2. c = [config EXCEPT !.features = what]
    BY <1>1, <1>9, <2>1 DEF Applied, Formats, Files
  <2> QED BY <1>1, <1>2, <1>3, <1>9, <2>2 DEF Became, Formats, Files
<1>10. CASE flag \in Formats
  <2>1. c = [config EXCEPT !.format = flag]
    BY <1>1, <1>10 DEF Applied, Formats, Files
  <2> QED BY <1>1, <1>2, <1>3, <1>10, <2>1 DEF Became, Formats, Files
<1>11. CASE flag \in Files
  <2>1. PICK what : what = config.files \cup {flag}
    OBVIOUS
  <2>2. c = [config EXCEPT !.files = what]
    BY <1>1, <1>11, <2>1 DEF Applied, Formats, Files
  <2> QED BY <1>1, <1>2, <1>3, <1>11, <2>1, <2>2 DEF Became, Formats, Files
<1>12. CASE flag = "--group"
  <2>1. c = [config EXCEPT !.group = TRUE]
    BY <1>1, <1>12 DEF Applied, Formats, Files
  <2> QED BY <1>1, <1>2, <1>3, <1>12, <2>1 DEF Became, Formats, Files
<1>13. CASE flag = "--help"
  <2>1. c = [config EXCEPT !.help = TRUE]
    BY <1>1, <1>13 DEF Applied, Formats, Files
  <2> QED BY <1>1, <1>2, <1>3, <1>13, <2>1 DEF Became, Formats, Files
<1>14. CASE flag = "--version"
  <2>1. c = [config EXCEPT !.version = TRUE]
    BY <1>1, <1>14 DEF Applied, Formats, Files
  <2> QED BY <1>1, <1>2, <1>3, <1>14, <2>1 DEF Became, Formats, Files
<1>15. CASE flag \in {"--no-color", "--header"}
  <2>1. c = config
    BY <1>1, <1>15 DEF Applied, Formats, Files
  <2> QED BY <1>1, <1>15, <2>1 DEF Became, Formats, Files
<1> QED BY <1>4, <1>5, <1>6, <1>7, <1>8, <1>9, <1>10, <1>11, <1>12, <1>13, <1>14, <1>15
        DEF Switches, ValueFlags, Formats, Files

\* A flag read with its value.
LEMMA FlagRead ==
  ASSUME NEW v, NEW line, NEW n, NEW m, Advances(v, line, n, m), ReadTo(v, line, n, config),
         NEW flag \in Switches \cup ValueFlags, flag = line[n].flag,
         NEW value, flag \in ValueFlags => value = ValueIn(line, n),
         Takes(flag, value), NEW c, Became(c, flag, value)
  PROVE  ReadTo(v, line, m, c)
<1>1. /\ Before(v, m) = Before(v, n) \cup {n}
      /\ \A p \in Before(v, m) : line[p].flag \in Switches \cup ValueFlags \cup {Absent}
  BY DEF Advances, ReadTo
<1>2. ASSUME NEW flags
      PROVE  UsesTo(v, line, m, flags) =
               UsesTo(v, line, n, flags) \cup (IF flag \in flags THEN {n} ELSE {})
  BY UsesGrow
<1>3. {line[p].flag : p \in UsesTo(v, line, m, Formats)} \cup {"pretty"} = {c.format, "pretty"}
  <2>1. PICK fs : fs = {line[p].flag : p \in UsesTo(v, line, n, Formats)}
    OBVIOUS
  <2>2. fs \cup {"pretty"} = {config.format, "pretty"}
    BY <2>1 DEF ReadTo
  <2>3. CASE flag \notin Formats
    BY <1>2, <2>1, <2>2, <2>3 DEF Became
  <2>4. CASE flag \in Formats
    <3>1. config.format \in {"pretty", flag}
      BY <2>4 DEF Takes, Formats
    <3>2. {line[p].flag : p \in UsesTo(v, line, m, Formats)} = fs \cup {flag}
      BY <1>2, <2>1, <2>4
    <3>3. c.format = flag
      BY <2>4 DEF Became
    <3> QED BY <2>2, <3>1, <3>2, <3>3
  <2> QED BY <2>3, <2>4
<1>4. c.overrides = OverridesTo(v, line, m)
  <2>1. config.overrides = OverridesTo(v, line, n)
    BY DEF ReadTo
  <2>2. CASE flag \notin {"--off", "--rule"}
    BY <2>1, <2>2, OverridesGrow DEF Became
  <2>3. CASE flag = "--off"
    <3>1. value = ValueIn(line, n)
      BY <2>3 DEF ValueFlags
    <3>2. SetsIn(line, n).rule = value /\ SetsIn(line, n).severity = "off"
      BY <2>3, <3>1 DEF SetsIn
    <3>3. OverridesTo(v, line, m) = Put(OverridesTo(v, line, n), value, "off")
      BY <2>3, <3>2, OverridesGrow
    <3>4. c.overrides = Put(config.overrides, value, "off")
      BY <2>3 DEF Became
    <3> QED BY <2>1, <3>3, <3>4
  <2>4. CASE flag = "--rule"
    <3>1. value = ValueIn(line, n)
      BY <2>4 DEF ValueFlags
    <3>2. SetsIn(line, n) = Assignments[value]
      BY <2>4, <3>1 DEF SetsIn
    <3>3. OverridesTo(v, line, m) =
            Put(OverridesTo(v, line, n), Assignments[value].rule, Assignments[value].severity)
      BY <2>4, <3>2, OverridesGrow
    <3>4. c.overrides =
            Put(config.overrides, Assignments[value].rule, Assignments[value].severity)
      BY <2>4 DEF Became
    <3> QED BY <2>1, <3>3, <3>4
  <2> QED BY <2>2, <2>3, <2>4
<1>5. ASSUME flag \in {"--max-warnings", "--timeout", "--fail-on"} PROVE value = ValueIn(line, n)
  BY <1>5 DEF ValueFlags
<1>6. c.maxWarnings = GivenTo(v, line, m, "--max-warnings", Counts, NoLimit)
  BY <1>5, GivenGrows DEF Became, ReadTo
<1>7. c.timeout = GivenTo(v, line, m, "--timeout", Durations, NoLimit)
  BY <1>5, GivenGrows DEF Became, ReadTo
<1>8. c.failOn = GivenTo(v, line, m, "--fail-on", FailOnTexts, "error")
  <2>1. config.failOn = GivenTo(v, line, n, "--fail-on", FailOnTexts, "error")
    BY DEF ReadTo
  <2>2. c.failOn = IF flag = "--fail-on" THEN value ELSE config.failOn
    BY DEF Became
  <2>3. ASSUME flag = "--fail-on" PROVE FailOnTexts[ValueIn(line, n)] = value
    <3>1. value \in FailOns /\ value = ValueIn(line, n)
      BY <1>5, <2>3 DEF Takes, Formats
    <3> QED BY <3>1 DEF FailOnTexts
  <2> QED BY <2>1, <2>2, <2>3, GivenGrows
<1>9. c.files = {line[p].flag : p \in UsesTo(v, line, m, Files)}
  BY <1>2 DEF Became, ReadTo
<1>10. \/ c.group = TRUE /\ UsesTo(v, line, m, {"--group"}) # {}
       \/ c.group = FALSE /\ UsesTo(v, line, m, {"--group"}) = {}
  <2>1. UsesTo(v, line, m, {"--group"}) =
          UsesTo(v, line, n, {"--group"}) \cup (IF flag \in {"--group"} THEN {n} ELSE {})
    BY <1>2
  <2>2. CASE flag = "--group"
    BY <2>1, <2>2 DEF Became
  <2>3. CASE flag # "--group"
    <3>1. c.group = config.group /\ UsesTo(v, line, m, {"--group"}) = UsesTo(v, line, n, {"--group"})
      BY <2>1, <2>3 DEF Became
    <3> QED BY <3>1, Zenon DEF ReadTo
  <2> QED BY <2>2, <2>3
<1>11. DOMAIN c = DOMAIN DefaultConfig
  BY DEF Became
<1> QED BY <1>1, <1>3, <1>4, <1>6, <1>7, <1>8, <1>9, <1>10, <1>11 DEF ReadTo

\* An argument that is no flag leaves the configuration.
LEMMA TargetRead ==
  ASSUME NEW v, NEW line, NEW n, NEW m, Advances(v, line, n, m), NEW c, ReadTo(v, line, n, c),
         line[n].flag = Absent
  PROVE  ReadTo(v, line, m, c)
<1>1. /\ Before(v, m) = Before(v, n) \cup {n}
      /\ \A p \in Before(v, m) : line[p].flag \in Switches \cup ValueFlags \cup {Absent}
  BY DEF Advances, ReadTo
<1>2. /\ Absent \notin {"--off", "--rule"} /\ Absent \notin Formats /\ Absent \notin Files
      /\ Absent \notin {"--max-warnings", "--timeout", "--fail-on", "--group"}
  BY DEF Absent, Formats, Files
<1>3. ASSUME NEW flags, Absent \notin flags
      PROVE  UsesTo(v, line, m, flags) = UsesTo(v, line, n, flags)
  <2>1. UsesTo(v, line, m, flags) =
          UsesTo(v, line, n, flags) \cup (IF line[n].flag \in flags THEN {n} ELSE {})
    BY UsesGrow
  <2> QED BY <1>3, <2>1
<1>4. /\ UsesTo(v, line, m, Formats) = UsesTo(v, line, n, Formats)
      /\ UsesTo(v, line, m, Files) = UsesTo(v, line, n, Files)
      /\ UsesTo(v, line, m, {"--group"}) = UsesTo(v, line, n, {"--group"})
  <2>1. Absent \notin {"--group"}
    BY <1>2
  <2> QED BY <1>2, <1>3, <2>1
<1>5. OverridesTo(v, line, m) = OverridesTo(v, line, n)
  BY <1>2, OverridesGrow
<1>6. /\ GivenTo(v, line, m, "--max-warnings", Counts, NoLimit) =
           GivenTo(v, line, n, "--max-warnings", Counts, NoLimit)
      /\ GivenTo(v, line, m, "--timeout", Durations, NoLimit) =
           GivenTo(v, line, n, "--timeout", Durations, NoLimit)
      /\ GivenTo(v, line, m, "--fail-on", FailOnTexts, "error") =
           GivenTo(v, line, n, "--fail-on", FailOnTexts, "error")
  BY <1>2, GivenGrows
<1> QED BY <1>1, <1>4, <1>5, <1>6 DEF ReadTo

LEMMA TargetsGrow ==
  ASSUME NEW v, NEW line, NEW n \in DOMAIN line, NEW m, Advances(v, line, n, m), NEW texts,
         TargetsTo(v, line, n, texts)
  PROVE  /\ line[n].flag = Absent => TargetsTo(v, line, m, Append(texts, line[n].text))
         /\ line[n].flag # Absent => TargetsTo(v, line, m, texts)
<1>1. UsesTo(v, line, m, {Absent}) =
        UsesTo(v, line, n, {Absent}) \cup (IF line[n].flag \in {Absent} THEN {n} ELSE {})
  BY UsesGrow
<1>2. ASSUME line[n].flag = Absent PROVE TargetsTo(v, line, m, Append(texts, line[n].text))
  <2>1. PICK T : T = {line[p].text : p \in DOMAIN line}
    OBVIOUS
  <2>2. PICK text : text = line[n].text
    OBVIOUS
  <2>3. texts \in Seq(T) /\ text \in T
    BY <2>1, <2>2 DEF TargetsTo
  <2>4. Append(texts, text) \in Seq(T) /\ Len(Append(texts, text)) = Len(texts) + 1
    BY <2>3
  <2>5. UsesTo(v, line, m, {Absent}) = UsesTo(v, line, n, {Absent}) \cup {n}
    BY <1>1, <1>2
  <2>6. CASE texts = <<>> /\ UsesTo(v, line, n, {Absent}) = {}
    <3>1. Append(texts, text) = <<text>>
      BY <2>6
    <3>2. UsesTo(v, line, m, {Absent}) = {n}
      BY <2>5, <2>6
    <3> QED BY <2>1, <2>2, <2>4, <3>1, <3>2 DEF TargetsTo
  <2>7. CASE \E p \in DOMAIN line : texts = <<line[p].text>> /\ UsesTo(v, line, n, {Absent}) = {p}
    <3>1. Len(texts) = 1
      BY <2>7
    <3> QED BY <2>1, <2>2, <2>4, <3>1 DEF TargetsTo
  <2>8. CASE Len(texts) > 1
    <3>1. Len(texts) \in Nat
      BY <2>3
    <3> QED BY <2>1, <2>2, <2>4, <2>8, <3>1 DEF TargetsTo
  <2> QED BY <2>6, <2>7, <2>8 DEF TargetsTo
<1>3. ASSUME line[n].flag # Absent PROVE TargetsTo(v, line, m, texts)
  BY <1>1, <1>3 DEF TargetsTo
<1> QED BY <1>2, <1>3

-----------------------------------------------------------------------------
\* What is read of the command line so far.
ReadSoFar(v, line, n, c, texts) ==
  /\ n \in 1..Len(line) + 1
  /\ ~ v[n]
  /\ ReadTo(v, line, n, c)
  /\ TargetsTo(v, line, n, texts)

\* The configuration c is what the whole command line says, and may be run.
ReadAll(v, line, c) ==
  /\ ReadTo(v, line, Len(line) + 1, c)
  /\ \/ /\ UsesTo(v, line, Len(line) + 1, {Absent}) = {}
        /\ c.target = Absent /\ (c.help \/ c.version)
     \/ \E p \in DOMAIN line :
          UsesTo(v, line, Len(line) + 1, {Absent}) = {p} /\ c.target = line[p].text
  /\ c.group => c.format = "pretty"

IsLine(line) == Len(line) \in Nat /\ DOMAIN line = 1..Len(line)

\* The inductive invariant: the parser is as far as its position says, and an
\* accepted command line was read to its end.
ArgumentsInv ==
  /\ pc = "main" => IsLine(argv)
  /\ pc = "main" /\ parsed = "no" =>
       \A v : IsTable(v, argv) => ReadSoFar(v, argv, position, config, targets)
  /\ parsed = "ok" => pc = "main" /\ \A v : IsTable(v, argv) => ReadAll(v, argv, config)

LEMMA FirstToRead ==
  ASSUME NEW line, IsLine(line), NEW v, IsTable(v, line)
  PROVE  ReadSoFar(v, line, 1, DefaultConfig, <<>>)
<1>1. ~ v[1] /\ 1 \in 1..Len(line) + 1
  BY DEF IsTable, IsLine
<1>2. Before(v, 1) = {}
  BY DEF Before
<1>3. \A flags : UsesTo(v, line, 1, flags) = {}
  BY <1>2 DEF UsesTo
<1>4. OverridesTo(v, line, 1) = EmptyDict
  BY <1>3 DEF OverridesTo, Overriding, EmptyDict
<1>5. ReadTo(v, line, 1, DefaultConfig)
  <2>1. /\ DefaultConfig.format = "pretty" /\ DefaultConfig.overrides = EmptyDict
        /\ DefaultConfig.maxWarnings = NoLimit /\ DefaultConfig.timeout = NoLimit
        /\ DefaultConfig.failOn = "error" /\ DefaultConfig.files = {}
        /\ DefaultConfig.group = FALSE
    BY DEF DefaultConfig
  <2> QED BY <1>2, <1>3, <1>4, <2>1 DEF ReadTo, GivenTo
<1>6. TargetsTo(v, line, 1, <<>>)
  BY <1>3 DEF TargetsTo
<1> QED BY <1>1, <1>5, <1>6 DEF ReadSoFar

\* One argument is read, with the next if it is its value.
LEMMA ReadsOn ==
  ASSUME ConfigTyped, IsLine(argv), NEW v, IsTable(v, argv),
         ReadSoFar(v, argv, position, config, targets), ReadsArgument, parsed' # "error"
  PROVE  /\ UNCHANGED <<argv, parsed>>
         /\ ReadSoFar(v, argv, position', config', targets')
<1>1. /\ position \in 1..Len(argv) /\ position \in Nat \ {0} /\ position \in DOMAIN argv
      /\ Len(argv) \in Nat /\ ~ v[position]
  BY DEF ReadSoFar, IsLine, ReadsArgument
<1>2. /\ ~ TakesNext(argv, position) => Advances(v, argv, position, position + 1)
      /\ TakesNext(argv, position) => Advances(v, argv, position, position + 2)
  BY <1>1, ArgumentAdvances
<1>3. /\ DOMAIN config = DOMAIN DefaultConfig
      /\ config = [o \in DOMAIN DefaultConfig |-> config[o]]
  BY DEF ConfigTyped
<1>4. CASE Target
  <2>1. /\ argv[position].flag = Absent /\ position' = position + 1
        /\ targets' = Append(targets, argv[position].text)
        /\ UNCHANGED <<argv, config, parsed>>
    BY <1>4 DEF Target, Arg
  <2>2. Advances(v, argv, position, position')
    BY <1>2, <2>1 DEF TakesNext, ValueFlags, Files, Absent
  <2>3. ReadTo(v, argv, position', config)
    BY <2>1, <2>2, TargetRead DEF ReadSoFar
  <2>4. TargetsTo(v, argv, position', targets')
    BY <1>1, <2>1, <2>2, TargetsGrow DEF ReadSoFar
  <2> QED BY <1>1, <2>1, <2>2, <2>3, <2>4 DEF ReadSoFar, Advances
<1>5. ASSUME NEW flag \in Switches \cup ValueFlags, flag = argv[position].flag,
             NEW value, flag \in ValueFlags => value = ValueIn(argv, position),
             Takes(flag, value), config' = Applied(flag, value), UNCHANGED <<argv, targets, parsed>>,
             Advances(v, argv, position, position'), position' \in 1..Len(argv) + 1
      PROVE  ReadSoFar(v, argv, position', config', targets')
  <2>1. Became(config', flag, value)
    BY <1>3, <1>5, AppliedFields
  <2>2. ReadTo(v, argv, position', config')
    BY <1>5, <2>1, FlagRead DEF ReadSoFar
  <2>3. argv[position].flag # Absent
    BY <1>5 DEF Switches, ValueFlags, Formats, Files, Absent
  <2>4. TargetsTo(v, argv, position', targets')
    BY <1>1, <1>5, <2>3, TargetsGrow DEF ReadSoFar
  <2> QED BY <1>5, <2>2, <2>4 DEF ReadSoFar, Advances
<1>6. CASE Switch
  <2>1. PICK flag : flag = argv[position].flag
    OBVIOUS
  <2>2. /\ flag \in Switches /\ argv[position].inline = Absent /\ Takes(flag, Absent)
        /\ config' = Applied(flag, Absent) /\ position' = position + 1
        /\ UNCHANGED <<argv, targets, parsed>>
    BY <1>6, <2>1 DEF Switch, Arg, Refuses
  <2>3. flag \notin ValueFlags
    BY <2>2 DEF Switches, ValueFlags, Formats, Files
  <2>4. Advances(v, argv, position, position')
    BY <1>2, <2>1, <2>2, <2>3 DEF TakesNext
  <2> QED BY <1>1, <1>5, <2>1, <2>2, <2>3, <2>4
<1>7. CASE ValueFlag
  <2>1. PICK flag : flag = argv[position].flag
    OBVIOUS
  <2>2. PICK value : value = ValueIn(argv, position)
    OBVIOUS
  <2>3. /\ flag \in ValueFlags /\ Takes(flag, value) /\ config' = Applied(flag, value)
        /\ UNCHANGED <<argv, targets, parsed>>
        /\ position' = position + IF argv[position].inline # Absent THEN 1 ELSE 2
        /\ argv[position].inline # Absent \/ position # Len(argv)
    BY <1>7, <2>1, <2>2 DEF ValueFlag, ValueIn, Arg, Refuses
  <2>4. TakesNext(argv, position) <=> argv[position].inline = Absent
    BY <2>1, <2>3 DEF TakesNext
  <2>5. Advances(v, argv, position, position') /\ position' \in 1..Len(argv) + 1
    BY <1>1, <1>2, <2>3, <2>4
  <2> QED BY <1>5, <2>1, <2>2, <2>3, <2>5
<1>8. ~ UnknownFlag
  BY DEF UnknownFlag, Refuses
<1> QED BY <1>4, <1>6, <1>7, <1>8 DEF ReadsArgument

\* The whole command line was read and is accepted.
LEMMA ReadsToTheEnd ==
  ASSUME ConfigTyped, IsLine(argv), NEW v, IsTable(v, argv),
         ReadSoFar(v, argv, position, config, targets), ChecksArguments, parsed' # "error"
  PROVE  UNCHANGED argv /\ ReadAll(v, argv, config')
<1>1. /\ UNCHANGED argv
      /\ ~ (config.group /\ config.format # "pretty") /\ ~ (Len(targets) > 1)
      /\ ~ (targets = <<>> /\ ~ config.help /\ ~ config.version)
      /\ config' = [config EXCEPT !.target = IF targets = <<>> THEN Absent ELSE Head(targets)]
  BY DEF ChecksArguments, Refuses
<1>2. position = Len(argv) + 1
  BY DEF ReadSoFar, IsLine, ChecksArguments
<1>3. PICK target : target = IF targets = <<>> THEN Absent ELSE Head(targets)
  OBVIOUS
<1>4. PICK c : c = [config EXCEPT !.target = target]
  OBVIOUS
<1>5. /\ DOMAIN c = DOMAIN DefaultConfig /\ c.target = target
      /\ c.format = config.format /\ c.overrides = config.overrides
      /\ c.maxWarnings = config.maxWarnings /\ c.timeout = config.timeout
      /\ c.failOn = config.failOn /\ c.files = config.files /\ c.group = config.group
      /\ c.help = config.help /\ c.version = config.version
  <2>1. config = [o \in DOMAIN DefaultConfig |-> config[o]]
    BY DEF ConfigTyped
  <2>2. DOMAIN DefaultConfig = {"target", "format", "group", "overrides", "maxWarnings", "failOn",
                                "timeout", "features", "files", "help", "version"}
    BY DEF DefaultConfig
  <2> QED BY <1>4, <2>1, <2>2
<1>6. ReadTo(v, argv, Len(argv) + 1, c)
  <2>1. ReadTo(v, argv, Len(argv) + 1, config)
    BY <1>2 DEF ReadSoFar
  <2>2. \/ c.group = TRUE /\ UsesTo(v, argv, Len(argv) + 1, {"--group"}) # {}
        \/ c.group = FALSE /\ UsesTo(v, argv, Len(argv) + 1, {"--group"}) = {}
    <3>1. c.group = config.group
      BY <1>5
    <3> QED BY <2>1, <3>1, Zenon DEF ReadTo
  <2> QED BY <1>5, <2>1, <2>2 DEF ReadTo
<1>7. (c.group => c.format = "pretty") /\ (targets = <<>> => c.help \/ c.version)
  <2>1. (c.group <=> config.group) /\ (c.help <=> config.help) /\ (c.version <=> config.version)
    <3>1. c.group = config.group /\ c.help = config.help /\ c.version = config.version
      BY <1>5
    <3> QED BY <3>1, Zenon
  <2> QED BY <1>1, <1>5, <2>1
<1>8. \/ targets = <<>> /\ UsesTo(v, argv, Len(argv) + 1, {Absent}) = {}
      \/ \E p \in DOMAIN argv : /\ targets = <<argv[p].text>>
                                /\ UsesTo(v, argv, Len(argv) + 1, {Absent}) = {p}
  BY <1>1, <1>2 DEF ReadSoFar, TargetsTo
<1>9. ASSUME NEW text, targets = <<text>> PROVE target = text
  BY <1>3, <1>9
<1>10. \/ /\ UsesTo(v, argv, Len(argv) + 1, {Absent}) = {}
           /\ c.target = Absent /\ (c.help \/ c.version)
       \/ \E p \in DOMAIN argv :
            UsesTo(v, argv, Len(argv) + 1, {Absent}) = {p} /\ c.target = argv[p].text
  BY <1>3, <1>5, <1>7, <1>8, <1>9
<1>11. config' = c
  BY <1>1, <1>3, <1>4
<1>12. ReadAll(v, argv, c)
  BY <1>6, <1>7, <1>10 DEF ReadAll
<1> QED BY <1>1, <1>11, <1>12

-----------------------------------------------------------------------------
\* A call that began is never back before its beginning.
LEMMA CallGoesOn ==
  ASSUME TransportTypeOK, Works \/ Network
  PROVE  pc' # "main"
<1>1. Works \/ Network => pc # "main"
  BY DEF Works, Network, Opens, Asks, Sniffed, Item, ListItem, FramingProblem, HandlesFailure,
         LeavesLoop, WrapsUp, ListEnds, FetchFails, Fetches, Chunk, EndOfBody, ReadFails,
         TimesOut, Breaks, Reading, TransportTypeOK
<1>2. ASSUME pc' = "main" PROVE pc = "main"
  <2>1. ~ (\E what : Escapes(what))
    BY <1>2 DEF Escapes
  <2>2. CASE Opens \/ Asks \/ Sniffed \/ HandlesFailure \/ LeavesLoop \/ WrapsUp \/ ListEnds
    BY <1>2, <2>2 DEF Opens, Asks, Sniffed, HandlesFailure, LeavesLoop, WrapsUp, ListEnds
  <2>3. CASE FramingProblem
    BY <1>2, <2>1, <2>3 DEF FramingProblem
  <2>4. CASE \E p \in payloads : Item(p) \/ ListItem(p)
    BY <1>2, <2>1, <2>4 DEF Item, ListItem
  <2>5. CASE Breaks
    BY <1>2, <2>1, <2>5 DEF Breaks
  <2>6. CASE FetchFails \/ Fetches \/ Chunk \/ EndOfBody
    BY <1>2, <2>6 DEF FetchFails, Fetches, Chunk, EndOfBody
  <2> QED BY <2>2, <2>3, <2>4, <2>5, <2>6 DEF Works, Network, ReadFails, TimesOut
<1> QED BY <1>1, <1>2

LEMMA BeginsToRead == ASSUME CommandInit PROVE ArgumentsInv
<1>1. CASE FromCommandLine
  <2>1. /\ argv \in CommandLines /\ position = 1 /\ targets = <<>> /\ config = DefaultConfig
        /\ parsed = "no" /\ pc = "main"
    BY <1>1 DEF FromCommandLine, ArgumentsInit
  <2>2. IsLine(argv)
    BY <2>1, CommandLinesAssumption DEF IsLine
  <2> QED BY <2>1, <2>2, FirstToRead DEF ArgumentsInv
<1>2. CASE FromPython
  <2>1. parsed = "no" /\ pc \in {"fetch", "list", "open"}
    BY <1>2 DEF FromPython, Start
  <2> QED BY <2>1 DEF ArgumentsInv
<1> QED BY <1>1, <1>2 DEF CommandInit

LEMMA ReadingPreserved ==
  ASSUME ArgumentsInv, ConfigTyped, TransportTypeOK, [CommandNext]_commandVars
  PROVE  ArgumentsInv'
<1>1. ASSUME UNCHANGED <<argv, position, targets, config, parsed>>, UNCHANGED pc
      PROVE  ArgumentsInv'
  BY <1>1 DEF ArgumentsInv
<1>2. CASE UNCHANGED commandVars
  <2>1. UNCHANGED <<argv, position, targets, config, parsed>> /\ UNCHANGED pc
    BY <1>2 DEF commandVars, transportVars, argumentVars
  <2> QED BY <1>1, <2>1
<1>3. CASE AnswersAtOnce \/ Concludes
  <2>1. UNCHANGED <<argv, position, targets, config, parsed>> /\ UNCHANGED pc
    BY <1>3 DEF AnswersAtOnce, Concludes, transportVars, argumentVars
  <2> QED BY <1>1, <2>1
<1>4. CASE Validates
  <2>1. parsed' = "no" /\ pc' \in {"fetch", "list", "open"}
    BY <1>4 DEF Validates, Start
  <2> QED BY <2>1 DEF ArgumentsInv
<1>5. CASE (Works \/ Network) /\ UNCHANGED <<argumentVars, verdict>>
  <2>1. pc' # "main" /\ pc # "main" /\ UNCHANGED parsed
    <3>1. Works \/ Network => pc # "main"
      BY DEF Works, Network, Opens, Asks, Sniffed, Item, ListItem, FramingProblem, HandlesFailure,
             LeavesLoop, WrapsUp, ListEnds, FetchFails, Fetches, Chunk, EndOfBody, ReadFails,
             TimesOut, Breaks, Reading, TransportTypeOK
    <3> QED BY <1>5, <3>1, CallGoesOn DEF argumentVars
  <2> QED BY <2>1 DEF ArgumentsInv
<1>6. CASE Parses
  <2>1. pc = "main" /\ UNCHANGED pc /\ ParsesArguments /\ UNCHANGED argv /\ parsed = "no"
    BY <1>6 DEF Parses, transportVars, ParsesArguments, ReadsArgument, Target, UnknownFlag, Switch,
                ValueFlag, ChecksArguments, Refuses
  <2>2. IsLine(argv)
    BY <2>1 DEF ArgumentsInv
  <2>3. CASE parsed' = "error"
    BY <2>1, <2>2, <2>3 DEF ArgumentsInv, IsLine
  <2>4. CASE parsed' # "error" /\ ReadsArgument
    <3>1. ASSUME NEW v, IsTable(v, argv)
          PROVE  UNCHANGED parsed /\ ReadSoFar(v, argv, position', config', targets')
      BY <2>1, <2>2, <2>4, <3>1, ReadsOn DEF ArgumentsInv
    <3>2. UNCHANGED parsed
      BY <3>1, ValuesAreTold
    <3>3. \A v : IsTable(v, argv') => ReadSoFar(v, argv', position', config', targets')
      BY <2>1, <3>1
    <3>4. IsLine(argv')
      BY <2>1, <2>2
    <3> QED BY <2>1, <3>2, <3>3, <3>4 DEF ArgumentsInv
  <2>5. CASE parsed' # "error" /\ ChecksArguments
    <3>1. ASSUME NEW v, IsTable(v, argv) PROVE ReadAll(v, argv, config')
      BY <2>1, <2>2, <2>5, <3>1, ReadsToTheEnd DEF ArgumentsInv
    <3>2. parsed' = "ok"
      BY <2>5 DEF ChecksArguments, Refuses
    <3>3. \A v : IsTable(v, argv') => ReadAll(v, argv', config')
      BY <2>1, <3>1
    <3>4. IsLine(argv')
      BY <2>1, <2>2
    <3> QED BY <2>1, <3>2, <3>3, <3>4 DEF ArgumentsInv
  <2> QED BY <2>1, <2>3, <2>4, <2>5 DEF ParsesArguments
<1> QED BY <1>2, <1>3, <1>4, <1>5, <1>6 DEF CommandNext

\* What the parser read is what ParsedAsWritten says, for the arguments that are
\* values by IsValue.
LEMMA ReadAllIsWritten ==
  ASSUME IsLine(argv), ReadAll(IsValue, argv, config)
  PROVE  LET overridings == Uses({"--off", "--rule"})
             own == {p \in OwnArguments : argv[p].flag = Absent}
             LastOn(rule) == LatestOf({p \in overridings : Sets(p).rule = rule})
         IN  /\ Uses(Switches \cup ValueFlags) \cup own = OwnArguments
             /\ config.target = IF own = {} THEN Absent ELSE argv[LatestOf(own)].text
             /\ Cardinality(own) <= 1 /\ (own = {} => config.help \/ config.version)
             /\ {argv[p].flag : p \in Uses(Formats)} \cup {"pretty"} = {config.format, "pretty"}
             /\ config.overrides =
                  [rule \in {Sets(p).rule : p \in overridings} |-> Sets(LastOn(rule)).severity]
             /\ config.maxWarnings = Given("--max-warnings", Counts, NoLimit)
             /\ config.timeout = Given("--timeout", Durations, NoLimit)
             /\ config.failOn = Given("--fail-on", [f \in FailOns |-> f], "error")
             /\ config.files = {argv[p].flag : p \in Uses(Files)}
             /\ config.group = (Uses({"--group"}) # {}) /\ (config.group => config.format = "pretty")
<1> DEFINE N == Len(argv) + 1
<1>1. OwnArguments = Before(IsValue, N)
  BY DEF OwnArguments, Before, IsLine
<1>2. ASSUME NEW flags PROVE Uses(flags) = UsesTo(IsValue, argv, N, flags)
  BY <1>1 DEF Uses, UsesTo
<1>3. ASSUME NEW p PROVE ValueOf(p) = ValueIn(argv, p) /\ Sets(p) = SetsIn(argv, p)
  BY DEF ValueOf, ValueIn, Sets, SetsIn
<1>4. ASSUME NEW flag, NEW meaning, NEW default
      PROVE  Given(flag, meaning, default) = GivenTo(IsValue, argv, N, flag, meaning, default)
  BY <1>2, <1>3 DEF Given, GivenTo
<1>5. PICK own : own = {p \in OwnArguments : argv[p].flag = Absent}
  OBVIOUS
<1>6. own = UsesTo(IsValue, argv, N, {Absent})
  BY <1>1, <1>5 DEF UsesTo
<1> HIDE DEF N
<1>7. ReadTo(IsValue, argv, N, config)
  BY DEF ReadAll, N
<1>8. Uses(Switches \cup ValueFlags) \cup own = OwnArguments
  BY <1>1, <1>5, <1>7 DEF ReadTo, Uses
<1>9. /\ config.target = IF own = {} THEN Absent ELSE argv[LatestOf(own)].text
      /\ Cardinality(own) <= 1 /\ (own = {} => config.help \/ config.version)
  <2>1. CASE own = {} /\ config.target = Absent /\ (config.help \/ config.version)
    <3>1. Cardinality(own) = 0
      BY <2>1, FS_EmptySet
    <3> QED BY <2>1, <3>1
  <2>2. ASSUME NEW p \in DOMAIN argv, own = {p}, config.target = argv[p].text
        PROVE  /\ config.target = IF own = {} THEN Absent ELSE argv[LatestOf(own)].text
               /\ Cardinality(own) <= 1 /\ (own = {} => config.help \/ config.version)
    <3>1. Cardinality(own) = 1
      BY <2>2, FS_Singleton
    <3>2. LatestOf(own) = p
      <4>1. p <= p
        BY DEF IsLine
      <4> QED BY <2>2, <4>1 DEF LatestOf
    <3> QED BY <2>2, <3>1, <3>2
  <2> QED BY <1>6, <2>1, <2>2 DEF ReadAll, N
<1>10. {argv[p].flag : p \in Uses(Formats)} \cup {"pretty"} = {config.format, "pretty"}
  BY <1>2, <1>7 DEF ReadTo
<1>11. config.overrides =
         [rule \in {Sets(p).rule : p \in Uses({"--off", "--rule"})} |->
            Sets(LatestOf({p \in Uses({"--off", "--rule"}) : Sets(p).rule = rule})).severity]
  <2>1. PICK P : P = Uses({"--off", "--rule"})
    OBVIOUS
  <2>2. P = Overriding(IsValue, argv, N)
    BY <1>2, <2>1 DEF Overriding
  <2>3. ASSUME NEW rule
        PROVE  {p \in P : Sets(p).rule = rule} = OverridingOn(IsValue, argv, N, rule)
    BY <1>3, <2>2 DEF OverridingOn
  <2>4. {Sets(p).rule : p \in P} = {SetsIn(argv, p).rule : p \in Overriding(IsValue, argv, N)}
    BY <1>3, <2>2
  <2>5. config.overrides =
          [rule \in {Sets(p).rule : p \in P} |->
             SetsIn(argv, LatestOf(OverridingOn(IsValue, argv, N, rule))).severity]
    BY <1>7, <2>4 DEF ReadTo, OverridesTo
  <2>6. config.overrides =
          [rule \in {Sets(p).rule : p \in P} |->
             Sets(LatestOf({p \in P : Sets(p).rule = rule})).severity]
    BY <1>3, <2>3, <2>5
  <2> QED BY <2>1, <2>6
<1>12. /\ config.maxWarnings = Given("--max-warnings", Counts, NoLimit)
       /\ config.timeout = Given("--timeout", Durations, NoLimit)
       /\ config.failOn = Given("--fail-on", [f \in FailOns |-> f], "error")
  BY <1>4, <1>7 DEF ReadTo, FailOnTexts
<1>13. config.files = {argv[p].flag : p \in Uses(Files)}
  BY <1>2, <1>7 DEF ReadTo
<1>14. config.group = (Uses({"--group"}) # {})
  <2>1. Uses({"--group"}) = UsesTo(IsValue, argv, N, {"--group"})
    BY <1>2
  <2> QED BY <1>7, <2>1, Zenon DEF ReadTo
<1>15. config.group => config.format = "pretty"
  BY DEF ReadAll
<1> QED BY <1>5, <1>8, <1>9, <1>10, <1>11, <1>12, <1>13, <1>14, <1>15

\* For any command lines and tables of texts: the parser takes each argument for
\* what it stands for, lets the last of several uses count and accepts no command
\* line it cannot run (cli_args.py, parse_cli_args).
THEOREM CommandLinesParsed == CommandSpec => []ParsedAsWritten
<1>1. CommandInit => ArgumentsInv
  BY BeginsToRead
<1>2. CallInv => ConfigTyped /\ TransportTypeOK
  BY DEF CallInv, ReportInv
<1>3. ArgumentsInv /\ ConfigTyped /\ TransportTypeOK /\ [CommandNext]_commandVars => ArgumentsInv'
  BY ReadingPreserved
<1>4. ArgumentsInv => ParsedAsWritten
  <2> SUFFICES ASSUME ArgumentsInv, parsed = "ok" PROVE ParsedAsWritten
    BY DEF ParsedAsWritten
  <2>1. IsLine(argv) /\ ReadAll(IsValue, argv, config)
    BY ValuesAreTold DEF ArgumentsInv
  <2> QED BY <2>1, ReadAllIsWritten DEF ParsedAsWritten
<1> QED BY <1>1, <1>2, <1>3, <1>4, CallInvariant, PTL DEF CommandSpec

=============================================================================
