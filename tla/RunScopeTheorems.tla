-------------------------- MODULE RunScopeTheorems --------------------------
(***************************************************************************)
(* What the dictionary operations return, what every input does to the     *)
(* scope variables and what one more entry does to the log, stated once    *)
(* and cited by the proofs about every component.  A module that extends   *)
(* this one and whose component keeps no log leaves log unconstrained.     *)
(***************************************************************************)
EXTENDS Forms, PositionTheorems

\* The empty dictionary has no key and belongs to every dictionary type.
LEMMA EmptyDictType ==
  ASSUME NEW Keys, NEW Values
  PROVE  IsDict(EmptyDict, Keys, Values) /\ DOMAIN EmptyDict = {}
BY DEF EmptyDict, IsDict

\* Put binds k to v and changes no other key.
LEMMA PutKeys ==
  ASSUME NEW d, NEW k, NEW v
  PROVE  /\ DOMAIN Put(d, k, v) = DOMAIN d \cup {k}
         /\ Put(d, k, v)[k] = v
         /\ \A x \in DOMAIN d : x # k => Put(d, k, v)[x] = d[x]
BY DEF Put

\* A dictionary stays one when a legal key is bound to a legal value.
LEMMA PutType ==
  ASSUME NEW Keys, NEW Values, NEW d, IsDict(d, Keys, Values),
         NEW k \in Keys, NEW v \in Values
  PROVE  IsDict(Put(d, k, v), Keys, Values)
<1>1. Put(d, k, v) = [x \in DOMAIN Put(d, k, v) |-> Put(d, k, v)[x]]
  BY DEF Put
<1>2. \A x \in DOMAIN Put(d, k, v) : x \in Keys /\ Put(d, k, v)[x] \in Values
  BY DEF IsDict, Put
<1> QED BY <1>1, <1>2 DEF IsDict

\* Drop removes k and changes no other key.
LEMMA DropKeys ==
  ASSUME NEW d, NEW k
  PROVE  /\ DOMAIN Drop(d, k) = DOMAIN d \ {k}
         /\ \A x \in DOMAIN d : x # k => Drop(d, k)[x] = d[x]
BY DEF Drop

\* A dictionary stays one when a key is removed.
LEMMA DropType ==
  ASSUME NEW Keys, NEW Values, NEW d, IsDict(d, Keys, Values), NEW k
  PROVE  IsDict(Drop(d, k), Keys, Values)
<1>1. Drop(d, k) = [x \in DOMAIN Drop(d, k) |-> Drop(d, k)[x]]
  BY DEF Drop
<1>2. \A x \in DOMAIN Drop(d, k) : x \in Keys /\ Drop(d, k)[x] \in Values
  BY DEF IsDict, Drop
<1> QED BY <1>1, <1>2 DEF IsDict

\* Every input keeps the scope variables in their type.
LEMMA ScopePreserved ==
  ASSUME ScopeTypeOK,
         Judged \/ Unjudged \/ NewRun \/ Finalizes
           \/ \E type \in TerminalTypes : Ends(type)
  PROVE  ScopeTypeOK'
<1>1. eventCount' \in Nat
  BY DEF ScopeTypeOK, Judged, Unjudged, NewRun, Finalizes, Ends, Fed
<1>2. terminal' \in [type : TerminalTypes, index : Nat] \cup {None}
  BY DEF ScopeTypeOK, Judged, Unjudged, NewRun, Finalizes, Ends, Fed
<1>3. finalized' \in BOOLEAN
  BY DEF ScopeTypeOK, Judged, Unjudged, NewRun, Finalizes, Ends, Fed
<1> QED BY <1>1, <1>2, <1>3 DEF ScopeTypeOK

-----------------------------------------------------------------------------
(* The log, when the events it records are members of Events. *)

IsLog(Events) == log \in Seq([at : Indices, event : Events])

LEMMA LogEntries ==
  ASSUME NEW Events, IsLog(Events)
  PROVE  /\ Len(log) \in Nat
         /\ \A p \in 1..Len(log) : log[p].at \in Indices /\ log[p].event \in Events
<1>1. \A p \in 1..Len(log) : log[p] \in [at : Indices, event : Events]
  <2> DEFINE Entries == [at : Indices, event : Events]
  <2>1. log \in Seq(Entries)
    BY DEF IsLog
  <2> HIDE DEF Entries
  <2>2. \A p \in 1..Len(log) : log[p] \in Entries
    BY <2>1
  <2> QED BY <2>2 DEF Entries
<1> QED BY <1>1 DEF IsLog

\* The step appends event e at index i as the entry after the n-th.
Grows(n, i, e) ==
  /\ n \in Nat
  /\ Len(log) = n /\ Len(log') = n + 1
  /\ \A p \in 1..n : log'[p] = log[p]
  /\ log'[n + 1] = [at |-> i, event |-> e]

\* One more entry changes none of those before it.
LEMMA LogGrows ==
  ASSUME NEW Events, IsLog(Events), NEW at \in Indices, NEW e \in Events, Logs(at, e)
  PROVE  IsLog(Events)' /\ Grows(Len(log), at, e)
<1> DEFINE entry == [at |-> at, event |-> e]
<1>1. entry \in [at : Indices, event : Events]
  OBVIOUS
<1>2. log' = Append(log, entry)
  BY DEF Logs
<1>3. Len(log) \in Nat
  BY LogEntries
<1> HIDE DEF entry
<1> QED BY <1>1, <1>2, <1>3 DEF IsLog, Grows, entry

\* The run of an earlier position stays what it was, and the new position begins a
\* run or continues the one before it.
LEMMA RunGrows ==
  ASSUME NEW n, NEW i, NEW e, Grows(n, i, e)
  PROVE  /\ RunPositions(n) \subseteq 1..n
         /\ \A k \in 0..n : RunPositions(k)' = RunPositions(k)
         /\ RunPositions(n + 1)' = (IF e.type = "RUN_STARTED" THEN {} ELSE RunPositions(n))
                                   \cup {n + 1}
<1> USE DEF Grows
<1>1. ASSUME NEW k \in 0..n PROVE RunPositions(k)' = RunPositions(k)
  BY DEF RunPositions
<1>2. ASSUME NEW p \in 1..n
      PROVE  p \in RunPositions(n + 1)' <=> e.type # "RUN_STARTED" /\ p \in RunPositions(n)
  BY DEF RunPositions
<1>3. n + 1 \in RunPositions(n + 1)'
  BY DEF RunPositions
<1>4. RunPositions(n + 1)' \subseteq 1..n + 1 /\ RunPositions(n) \subseteq 1..n
  BY DEF RunPositions
<1>5. 1..n + 1 = 1..n \cup {n + 1}
  OBVIOUS
<1> QED BY <1>1, <1>2, <1>3, <1>4, <1>5

\* What a step logs is the next entry.
LEMMA NextEntry ==
  ASSUME NEW Events, IsLog(Events), NEW i, NEW e, Logs(i, e)
  PROVE  \E n : Grows(n, i, e)
<1>1. log \in Seq([at : Indices, event : Events])
  BY DEF IsLog
<1>2. PICK n \in Nat : n = Len(log)
  BY <1>1
<1>3. Grows(n, i, e)
  BY <1>1, <1>2 DEF Grows, Logs
<1> QED BY <1>3

\* The least position of a set that gets a later one.
LEMMA FirstOfMore ==
  ASSUME NEW n \in Nat, NEW positions, positions \subseteq 1..n
  PROVE  /\ First(positions) \subseteq positions
         /\ positions = {} => First(positions \cup {n + 1}) = {n + 1}
         /\ First(positions) # {} => First(positions \cup {n + 1}) = First(positions)
<1>1. First(positions) \subseteq positions
  BY DEF First
<1>2. ASSUME positions = {} PROVE First(positions \cup {n + 1}) = {n + 1}
  BY <1>2 DEF First
<1>3. ASSUME NEW a \in First(positions)
      PROVE  First(positions \cup {n + 1}) = First(positions)
  <2>1. a \in 1..n /\ \A q \in positions : a <= q /\ q <= n
    BY DEF First
  <2>2. ASSUME NEW p \in positions
        PROVE  p \in First(positions \cup {n + 1}) <=> p \in First(positions)
    BY <2>1 DEF First
  <2>3. n + 1 \notin First(positions \cup {n + 1})
    BY <2>1 DEF First
  <2>4. First(positions \cup {n + 1}) \subseteq positions \cup {n + 1}
    BY DEF First
  <2> QED BY <1>1, <2>2, <2>3, <2>4
<1> QED BY <1>1, <1>2, <1>3

-----------------------------------------------------------------------------
(* The forms of messages and tool calls, as the stream tells them.              *)

Kinds == {Message, Call}

\* The stream has not named id yet.
Fresh(kind, id, n) ==
  StartedAt(kind, id, n) = {} /\ StreamedAt(kind, id, n) = {} /\ ClosedAt(kind, id, n) = {}

\* Event e, logged after position n, introduces id if nothing did; it ends the chunk
\* stream of id.
Introduces(kind, e, id) == Names(kind, e, kind.start, id) \/ Names(kind, e, kind.chunk, id)

EndsStreaming(kind, e, id, n) ==
  /\ e.type \notin {"UNJUDGED", "END_AFTER_RUN"}
  /\ ~ /\ e.type = kind.chunk
       /\ e[kind.field] \in {None, id} \/ Started(kind, e[kind.field], n)

\* What the stream said of earlier positions it still says.
LEMMA FormsPast ==
  ASSUME NEW n, NEW i, NEW e, Grows(n, i, e), NEW kind, NEW id, NEW k \in 0..n
  PROVE  /\ Introducers(kind, id, k)' = Introducers(kind, id, k)
         /\ IntroducedAt(kind, id, k)' = IntroducedAt(kind, id, k)
         /\ StartedAt(kind, id, k)' = StartedAt(kind, id, k)
         /\ Introducers(kind, id, k) \subseteq 1..k /\ IntroducedAt(kind, id, k) \subseteq 1..k
<1>1. n \in Nat /\ \A p \in 1..n : log'[p] = log[p]
  BY DEF Grows
<1>2. ASSUME NEW p \in 1..n, NEW type
      PROVE  NamedAt(kind, p, type, id)' <=> NamedAt(kind, p, type, id)
  BY <1>1 DEF NamedAt, Names
<1>3. RunPositions(k)' = RunPositions(k) /\ RunPositions(k) \subseteq 1..k
  BY RunGrows DEF RunPositions
<1>4. Introducers(kind, id, k)' = Introducers(kind, id, k)
  BY <1>1, <1>2, <1>3 DEF Introducers
<1>5. IntroducedAt(kind, id, k)' = IntroducedAt(kind, id, k)
  BY <1>4 DEF IntroducedAt, First
<1>6. Introducers(kind, id, k) \subseteq 1..k /\ IntroducedAt(kind, id, k) \subseteq 1..k
  BY <1>3 DEF Introducers, IntroducedAt, First
<1>7. StartedAt(kind, id, k)' = StartedAt(kind, id, k)
  <2>1. ASSUME NEW p \in 1..k
        PROVE  (\A q \in p + 1..k : ~ NamedAt(kind, q, kind.end, id)')
               <=> (\A q \in p + 1..k : ~ NamedAt(kind, q, kind.end, id))
    BY <1>1, <1>2
  <2>2. \A p \in 1..k : NamedAt(kind, p, kind.start, id)' <=> NamedAt(kind, p, kind.start, id)
    BY <1>1, <1>2
  <2> QED BY <1>5, <1>6, <2>1, <2>2 DEF StartedAt
<1> QED BY <1>4, <1>5, <1>6, <1>7

LEMMA ClosersPast ==
  ASSUME NEW n, NEW i, NEW e, Grows(n, i, e), NEW kind, NEW id
  PROVE  /\ \A q \in 1..n : EndsStreamOf(kind, q, id)' <=> EndsStreamOf(kind, q, id)
         /\ \A q, p \in 1..n : EndsForm(kind, q, p, id)' <=> EndsForm(kind, q, p, id)
         /\ StreamedAt(kind, id, n)' = StreamedAt(kind, id, n)
<1>1. n \in Nat /\ \A p \in 1..n : log'[p] = log[p]
  BY DEF Grows
<1>2. ASSUME NEW q \in 1..n PROVE EndsStreamOf(kind, q, id)' <=> EndsStreamOf(kind, q, id)
  <2>1. PICK x, r : x = log[q].event[kind.field] /\ r = q - 1
    OBVIOUS
  <2>2. StartedAt(kind, x, r)' = StartedAt(kind, x, r)
    <3>1. StartedAt(kind, x, q - 1)' = StartedAt(kind, x, q - 1)
      BY <1>1, FormsPast
    <3> QED BY <2>1, <3>1
  <2>3. Started(kind, x, r)' <=> Started(kind, x, r)
    BY <2>2 DEF Started
  <2>4. /\ EndsStreamOf(kind, q, id) <=>
             Judges(q) /\ ~ (TypeAt(q) = kind.chunk /\ (x \in {None, id} \/ Started(kind, x, r)))
        /\ EndsStreamOf(kind, q, id)' <=>
             Judges(q)' /\ ~ (TypeAt(q)' = kind.chunk /\ (x \in {None, id} \/ Started(kind, x, r)'))
    BY <1>1, <2>1 DEF EndsStreamOf
  <2>5. TypeAt(q)' = TypeAt(q) /\ (Judges(q)' <=> Judges(q))
    BY <1>1 DEF TypeAt, Judges
  <2> QED BY <2>3, <2>4, <2>5
<1>3. ASSUME NEW q \in 1..n, NEW p \in 1..n
      PROVE  EndsForm(kind, q, p, id)' <=> EndsForm(kind, q, p, id)
  <2>1. \A r \in 1..n : \A type : NamedAt(kind, r, type, id)' <=> NamedAt(kind, r, type, id)
    BY <1>1 DEF NamedAt, Names
  <2> QED BY <1>2, <2>1 DEF EndsForm
<1>4. IntroducedAt(kind, id, n)' = IntroducedAt(kind, id, n) /\ IntroducedAt(kind, id, n) \subseteq 1..n
  BY <1>1, FormsPast
<1>5. StreamedAt(kind, id, n)' = StreamedAt(kind, id, n)
  <2>1. ASSUME NEW p \in 1..n
        PROVE  (\A q \in p + 1..n : ~ EndsStreamOf(kind, q, id)')
               <=> (\A q \in p + 1..n : ~ EndsStreamOf(kind, q, id))
    BY <1>1, <1>2
  <2>2. \A p \in 1..n : NamedAt(kind, p, kind.chunk, id)' <=> NamedAt(kind, p, kind.chunk, id)
    BY <1>1 DEF NamedAt, Names
  <2> QED BY <1>4, <2>1, <2>2 DEF StreamedAt
<1> QED BY <1>2, <1>3, <1>5

\* What the new entry is.
LEMMA FormsEntry ==
  ASSUME NEW n, NEW i, NEW e, Grows(n, i, e), NEW kind, NEW id
  PROVE  /\ \A type : NamedAt(kind, n + 1, type, id)' <=> Names(kind, e, type, id)
         /\ EndsStreamOf(kind, n + 1, id)' <=> EndsStreaming(kind, e, id, n)
<1>1. /\ n \in Nat /\ (n + 1) - 1 = n
      /\ log'[n + 1].event = e
  BY DEF Grows
<1>2. /\ TypeAt(n + 1)' = e.type
      /\ \A type : NamedAt(kind, n + 1, type, id)' <=> Names(kind, e, type, id)
  BY <1>1 DEF NamedAt, Names, TypeAt
<1>3. EndsStreamOf(kind, n + 1, id)' <=> EndsStreaming(kind, e, id, n)
  <2>1. PICK x, r : x = e[kind.field] /\ r = n
    OBVIOUS
  <2>2. StartedAt(kind, x, n)' = StartedAt(kind, x, n)
    BY <1>1, FormsPast
  <2>3. Started(kind, x, r)' <=> Started(kind, x, r)
    BY <2>1, <2>2 DEF Started
  <2>4. EndsStreamOf(kind, n + 1, id)' <=>
          /\ e.type \notin {"UNJUDGED", "END_AFTER_RUN"}
          /\ ~ (e.type = kind.chunk /\ (x \in {None, id} \/ Started(kind, x, r)'))
    BY <1>1, <1>2, <2>1 DEF EndsStreamOf, Judges
  <2> QED BY <2>1, <2>3, <2>4 DEF EndsStreaming
<1> QED BY <1>2, <1>3

LEMMA IntroducersGrow ==
  ASSUME NEW n, NEW i, NEW e, Grows(n, i, e), NEW kind, NEW id
  PROVE  Introducers(kind, id, n + 1)' =
           (IF e.type = "RUN_STARTED" THEN {} ELSE Introducers(kind, id, n))
           \cup (IF Introduces(kind, e, id) THEN {n + 1} ELSE {})
<1>1. n \in Nat /\ \A p \in 1..n : log'[p] = log[p]
  BY DEF Grows
<1>2. \A type : NamedAt(kind, n + 1, type, id)' <=> Names(kind, e, type, id)
  BY FormsEntry
<1>3. /\ RunPositions(n + 1)' =
           (IF e.type = "RUN_STARTED" THEN {} ELSE RunPositions(n)) \cup {n + 1}
      /\ RunPositions(n) \subseteq 1..n
  BY RunGrows
<1>4. ASSUME NEW p \in 1..n, NEW type
      PROVE  NamedAt(kind, p, type, id)' <=> NamedAt(kind, p, type, id)
  BY <1>1 DEF NamedAt, Names
<1>5. ASSUME NEW p \in 1..n
      PROVE  p \in Introducers(kind, id, n + 1)'
             <=> e.type # "RUN_STARTED" /\ p \in Introducers(kind, id, n)
  BY <1>1, <1>3, <1>4 DEF Introducers
<1>6. n + 1 \in Introducers(kind, id, n + 1)' <=> Introduces(kind, e, id)
  BY <1>2, <1>3 DEF Introducers, Introduces
<1>7. /\ Introducers(kind, id, n + 1)' \subseteq 1..n \cup {n + 1}
      /\ Introducers(kind, id, n) \subseteq 1..n /\ n + 1 \notin 1..n
  BY <1>1, <1>3 DEF Introducers
<1> QED BY <1>5, <1>6, <1>7

\* The entity that had a form before the step.
LEMMA FormGrows ==
  ASSUME NEW n, NEW i, NEW e, Grows(n, i, e), NEW kind, NEW id, e.type # "RUN_STARTED",
         IntroducedAt(kind, id, n) # {}
  PROVE  /\ IntroducedAt(kind, id, n + 1)' = IntroducedAt(kind, id, n)
         /\ StartedAt(kind, id, n + 1)' =
              IF Names(kind, e, kind.end, id) THEN {} ELSE StartedAt(kind, id, n)
         /\ StreamedAt(kind, id, n + 1)' =
              IF EndsStreaming(kind, e, id, n) THEN {} ELSE StreamedAt(kind, id, n)
         /\ Closers(kind, id, n + 1)' =
              Closers(kind, id, n)
              \cup (IF \E p \in IntroducedAt(kind, id, n) : EndsForm(kind, n + 1, p, id)'
                    THEN {n + 1} ELSE {})
<1>1. /\ n \in Nat /\ n \in 0..n
      /\ \A p \in 1..n : log'[p] = log[p]
  BY DEF Grows
<1>2. /\ Introducers(kind, id, n) \subseteq 1..n
      /\ IntroducedAt(kind, id, n) \subseteq Introducers(kind, id, n)
  BY <1>1, FormsPast DEF IntroducedAt, First
<1>3. \/ Introducers(kind, id, n + 1)' = Introducers(kind, id, n)
      \/ Introducers(kind, id, n + 1)' = Introducers(kind, id, n) \cup {n + 1}
  BY <1>2, IntroducersGrow
<1>4. IntroducedAt(kind, id, n + 1)' = IntroducedAt(kind, id, n)
  <2>1. IntroducedAt(kind, id, n + 1)' = First(Introducers(kind, id, n + 1)')
    BY DEF IntroducedAt, First
  <2>2. First(Introducers(kind, id, n) \cup {n + 1}) = First(Introducers(kind, id, n))
    BY <1>1, <1>2, FirstOfMore DEF IntroducedAt
  <2> QED BY <1>3, <2>1, <2>2 DEF IntroducedAt
<1>5. \A p \in 1..n : p + 1..n + 1 = (p + 1..n) \cup {n + 1}
  BY <1>1
<1>6. StartedAt(kind, id, n + 1)' =
        IF Names(kind, e, kind.end, id) THEN {} ELSE StartedAt(kind, id, n)
  <2>1. ASSUME NEW p \in 1..n
        PROVE  (\A q \in p + 1..n + 1 : ~ NamedAt(kind, q, kind.end, id)') <=>
                 /\ \A q \in p + 1..n : ~ NamedAt(kind, q, kind.end, id)
                 /\ ~ Names(kind, e, kind.end, id)
    <3>1. \A q \in p + 1..n : NamedAt(kind, q, kind.end, id)' <=> NamedAt(kind, q, kind.end, id)
      BY <1>1 DEF NamedAt, Names
    <3>2. NamedAt(kind, n + 1, kind.end, id)' <=> Names(kind, e, kind.end, id)
      BY FormsEntry
    <3> QED BY <1>5, <3>1, <3>2
  <2>2. \A p \in 1..n : NamedAt(kind, p, kind.start, id)' <=> NamedAt(kind, p, kind.start, id)
    BY <1>1 DEF NamedAt, Names
  <2> QED BY <1>2, <1>4, <2>1, <2>2 DEF StartedAt
<1>7. StreamedAt(kind, id, n + 1)' =
        IF EndsStreaming(kind, e, id, n) THEN {} ELSE StreamedAt(kind, id, n)
  <2>1. ASSUME NEW p \in 1..n
        PROVE  (\A q \in p + 1..n + 1 : ~ EndsStreamOf(kind, q, id)') <=>
                 /\ \A q \in p + 1..n : ~ EndsStreamOf(kind, q, id)
                 /\ ~ EndsStreaming(kind, e, id, n)
    <3>0. \A q \in 1..n : EndsStreamOf(kind, q, id)' <=> EndsStreamOf(kind, q, id)
      BY ClosersPast
    <3>1. \A q \in p + 1..n : EndsStreamOf(kind, q, id)' <=> EndsStreamOf(kind, q, id)
      BY <1>1, <3>0
    <3>2. EndsStreamOf(kind, n + 1, id)' <=> EndsStreaming(kind, e, id, n)
      BY FormsEntry
    <3> QED BY <1>5, <3>1, <3>2
  <2>2. \A p \in 1..n : NamedAt(kind, p, kind.chunk, id)' <=> NamedAt(kind, p, kind.chunk, id)
    BY <1>1 DEF NamedAt, Names
  <2> QED BY <1>2, <1>4, <2>1, <2>2 DEF StreamedAt
<1>8. Closers(kind, id, n + 1)' =
        Closers(kind, id, n)
        \cup (IF \E p \in IntroducedAt(kind, id, n) : EndsForm(kind, n + 1, p, id)'
              THEN {n + 1} ELSE {})
  <2>1. \A q, p \in 1..n : EndsForm(kind, q, p, id)' <=> EndsForm(kind, q, p, id)
    BY ClosersPast
  <2>2. \A q \in 1..n : q \in Closers(kind, id, n + 1)' <=> q \in Closers(kind, id, n)
    BY <1>1, <1>2, <1>4, <2>1 DEF Closers
  <2>3. n + 1 \in Closers(kind, id, n + 1)' <=>
          \E p \in IntroducedAt(kind, id, n) : EndsForm(kind, n + 1, p, id)'
    BY <1>1, <1>2, <1>4 DEF Closers
  <2>4. /\ Closers(kind, id, n + 1)' \subseteq 1..n \cup {n + 1}
        /\ Closers(kind, id, n) \subseteq 1..n /\ n + 1 \notin 1..n
    BY <1>1 DEF Closers
  <2> QED BY <2>2, <2>3, <2>4
<1> QED BY <1>4, <1>6, <1>7, <1>8

\* The entity that had none, and all of them at the start of a run.
LEMMA FormBegins ==
  ASSUME NEW n, NEW i, NEW e, Grows(n, i, e), NEW kind, NEW id,
         e.type = "RUN_STARTED" \/ Introducers(kind, id, n) = {}
  PROVE  /\ Introducers(kind, id, n + 1)' = IntroducedAt(kind, id, n + 1)'
         /\ IntroducedAt(kind, id, n + 1)' = (IF Introduces(kind, e, id) THEN {n + 1} ELSE {})
         /\ StartedAt(kind, id, n + 1)' =
              (IF Names(kind, e, kind.start, id) THEN {n + 1} ELSE {})
         /\ StreamedAt(kind, id, n + 1)' =
              (IF Names(kind, e, kind.chunk, id) THEN {n + 1} ELSE {})
         /\ Closers(kind, id, n + 1)' = {} /\ ClosedAt(kind, id, n + 1)' = {}
<1>1. n \in Nat
  BY DEF Grows
<1>2. Introducers(kind, id, n + 1)' = (IF Introduces(kind, e, id) THEN {n + 1} ELSE {})
  BY IntroducersGrow
<1>3. /\ IntroducedAt(kind, id, n + 1)' = Introducers(kind, id, n + 1)'
      /\ Introducers(kind, id, n + 1)' \subseteq {n + 1}
  BY <1>1, <1>2 DEF IntroducedAt, First
<1>4. \A type : NamedAt(kind, n + 1, type, id)' <=> Names(kind, e, type, id)
  BY FormsEntry
<1>5. StartedAt(kind, id, n + 1)' = (IF Names(kind, e, kind.start, id) THEN {n + 1} ELSE {})
  BY <1>1, <1>2, <1>3, <1>4 DEF StartedAt, Introduces
<1>6. StreamedAt(kind, id, n + 1)' = (IF Names(kind, e, kind.chunk, id) THEN {n + 1} ELSE {})
  BY <1>1, <1>2, <1>3, <1>4 DEF StreamedAt, Introduces
<1>7. Closers(kind, id, n + 1)' = {}
  BY <1>1, <1>3 DEF Closers
<1>8. ClosedAt(kind, id, n + 1)' = {}
  BY <1>7 DEF ClosedAt, First
<1> QED BY <1>2, <1>3, <1>5, <1>6, <1>7, <1>8

\* The three forms exclude one another, and what was introduced has one.
LEMMA OneFormAt ==
  ASSUME NEW kind \in Kinds, NEW n \in Nat, NEW id
  PROVE  /\ StartedAt(kind, id, n) # {} =>
              /\ StreamedAt(kind, id, n) = {} /\ Closers(kind, id, n) = {}
              /\ IntroducedAt(kind, id, n) = StartedAt(kind, id, n)
         /\ StreamedAt(kind, id, n) # {} =>
              /\ Closers(kind, id, n) = {}
              /\ IntroducedAt(kind, id, n) = StreamedAt(kind, id, n)
         /\ ClosedAt(kind, id, n) # {} => Closers(kind, id, n) # {}
         /\ Closers(kind, id, n) # {} => IntroducedAt(kind, id, n) # {}
         /\ Fresh(kind, id, n) => Introducers(kind, id, n) = {}
         /\ ~ Fresh(kind, id, n) => IntroducedAt(kind, id, n) # {}
         /\ IntroducedAt(kind, id, n) \subseteq 1..n
<1>0. /\ Introducers(kind, id, n) # {} => IntroducedAt(kind, id, n) # {}
      /\ Closers(kind, id, n) # {} => ClosedAt(kind, id, n) # {}
  <2>1. Introducers(kind, id, n) \subseteq Nat /\ Closers(kind, id, n) \subseteq Nat
    BY DEF Introducers, Closers, RunPositions
  <2> QED BY <2>1, FirstExists DEF IntroducedAt, ClosedAt
<1>1. /\ IntroducedAt(kind, id, n) \subseteq 1..n
      /\ \A p, q \in IntroducedAt(kind, id, n) : p = q
      /\ \A p \in IntroducedAt(kind, id, n) :
           NamedAt(kind, p, kind.start, id) \/ NamedAt(kind, p, kind.chunk, id)
  BY DEF IntroducedAt, Introducers, First, RunPositions
<1>2. \A p : ~ (NamedAt(kind, p, kind.start, id) /\ NamedAt(kind, p, kind.chunk, id))
  BY DEF NamedAt, Names, Kinds, Message, Call
<1>3. ASSUME NEW p \in StartedAt(kind, id, n)
      PROVE  /\ StreamedAt(kind, id, n) = {} /\ Closers(kind, id, n) = {}
             /\ IntroducedAt(kind, id, n) = StartedAt(kind, id, n)
  <2>1. /\ p \in IntroducedAt(kind, id, n) /\ NamedAt(kind, p, kind.start, id)
        /\ \A q \in p + 1..n : ~ NamedAt(kind, q, kind.end, id)
    BY DEF StartedAt
  <2>2. StreamedAt(kind, id, n) = {}
    BY <1>1, <1>2, <2>1 DEF StreamedAt
  <2>3. Closers(kind, id, n) = {}
    BY <1>1, <2>1 DEF Closers, EndsForm
  <2> QED BY <1>1, <2>1, <2>2, <2>3 DEF StartedAt
<1>4. ASSUME NEW p \in StreamedAt(kind, id, n)
      PROVE  /\ Closers(kind, id, n) = {}
             /\ IntroducedAt(kind, id, n) = StreamedAt(kind, id, n)
  <2>1. /\ p \in IntroducedAt(kind, id, n) /\ NamedAt(kind, p, kind.chunk, id)
        /\ \A q \in p + 1..n : ~ EndsStreamOf(kind, q, id)
    BY DEF StreamedAt
  <2>2. Closers(kind, id, n) = {}
    BY <1>1, <1>2, <2>1 DEF Closers, EndsForm
  <2> QED BY <1>1, <2>1, <2>2 DEF StreamedAt
<1>5. ASSUME NEW p \in IntroducedAt(kind, id, n) PROVE ~ Fresh(kind, id, n)
  <2>1. CASE NamedAt(kind, p, kind.start, id)
    <3>1. CASE \A q \in p + 1..n : ~ NamedAt(kind, q, kind.end, id)
      BY <2>1, <3>1 DEF StartedAt, Fresh
    <3>2. ASSUME NEW q \in p + 1..n, NamedAt(kind, q, kind.end, id) PROVE ~ Fresh(kind, id, n)
      <4>1. q \in Closers(kind, id, n)
        BY <1>1, <2>1, <3>2 DEF Closers, EndsForm
      <4> QED BY <4>1, <1>0 DEF Fresh
    <3> QED BY <3>1, <3>2
  <2>2. CASE ~ NamedAt(kind, p, kind.start, id)
    <3>1. CASE \A q \in p + 1..n : ~ EndsStreamOf(kind, q, id)
      BY <1>1, <2>2, <3>1 DEF StreamedAt, Fresh
    <3>2. ASSUME NEW q \in p + 1..n, EndsStreamOf(kind, q, id) PROVE ~ Fresh(kind, id, n)
      <4>1. q \in Closers(kind, id, n)
        BY <1>1, <2>2, <3>2 DEF Closers, EndsForm
      <4> QED BY <4>1, <1>0 DEF Fresh
    <3> QED BY <3>1, <3>2
  <2> QED BY <2>1, <2>2
<1>6. /\ ClosedAt(kind, id, n) # {} => Closers(kind, id, n) # {}
      /\ Closers(kind, id, n) # {} => IntroducedAt(kind, id, n) # {}
  BY DEF ClosedAt, First, Closers
<1>7. ~ Fresh(kind, id, n) => IntroducedAt(kind, id, n) # {}
  BY <1>6 DEF Fresh, StartedAt, StreamedAt
<1> QED BY <1>0, <1>1, <1>3, <1>4, <1>5, <1>6, <1>7

\* The forms, as a machine of their own that each entry drives.
LEMMA FormsMove ==
  ASSUME NEW n, NEW i, NEW e, Grows(n, i, e), NEW kind \in Kinds, NEW id,
         e.type # "RUN_STARTED"
  PROVE  /\ Fresh(kind, id, n) =>
              /\ StartedAt(kind, id, n + 1)' =
                   (IF Names(kind, e, kind.start, id) THEN {n + 1} ELSE {})
              /\ StreamedAt(kind, id, n + 1)' =
                   (IF Names(kind, e, kind.chunk, id) THEN {n + 1} ELSE {})
              /\ ClosedAt(kind, id, n + 1)' = {}
              /\ IntroducedAt(kind, id, n + 1)' =
                   (IF Introduces(kind, e, id) THEN {n + 1} ELSE {})
         /\ ~ Fresh(kind, id, n) =>
              IntroducedAt(kind, id, n + 1)' = IntroducedAt(kind, id, n)
         /\ StartedAt(kind, id, n) # {} =>
              /\ StartedAt(kind, id, n + 1)' =
                   (IF Names(kind, e, kind.end, id) THEN {} ELSE StartedAt(kind, id, n))
              /\ StreamedAt(kind, id, n + 1)' = {}
              /\ ClosedAt(kind, id, n + 1)' =
                   (IF Names(kind, e, kind.end, id) THEN {n + 1} ELSE {})
         /\ StreamedAt(kind, id, n) # {} =>
              /\ StartedAt(kind, id, n + 1)' = {}
              /\ StreamedAt(kind, id, n + 1)' =
                   (IF EndsStreaming(kind, e, id, n) THEN {} ELSE StreamedAt(kind, id, n))
              /\ ClosedAt(kind, id, n + 1)' =
                   (IF EndsStreaming(kind, e, id, n) THEN {n + 1} ELSE {})
         /\ ClosedAt(kind, id, n) # {} =>
              /\ StartedAt(kind, id, n + 1)' = {} /\ StreamedAt(kind, id, n + 1)' = {}
              /\ ClosedAt(kind, id, n + 1)' = ClosedAt(kind, id, n)
<1>1. /\ n \in Nat /\ n \in 0..n
      /\ \A p \in 1..n : log'[p] = log[p]
  BY DEF Grows
<1>2. /\ StartedAt(kind, id, n) # {} =>
           /\ StreamedAt(kind, id, n) = {} /\ Closers(kind, id, n) = {}
           /\ IntroducedAt(kind, id, n) = StartedAt(kind, id, n)
      /\ StreamedAt(kind, id, n) # {} =>
           /\ Closers(kind, id, n) = {}
           /\ IntroducedAt(kind, id, n) = StreamedAt(kind, id, n)
      /\ ClosedAt(kind, id, n) # {} => Closers(kind, id, n) # {}
      /\ Closers(kind, id, n) # {} => IntroducedAt(kind, id, n) # {}
      /\ Fresh(kind, id, n) => Introducers(kind, id, n) = {}
      /\ ~ Fresh(kind, id, n) => IntroducedAt(kind, id, n) # {}
      /\ IntroducedAt(kind, id, n) \subseteq 1..n
  BY <1>1, OneFormAt
<1>3. CASE Fresh(kind, id, n)
  <2>1. /\ Introducers(kind, id, n + 1)' = IntroducedAt(kind, id, n + 1)'
        /\ IntroducedAt(kind, id, n + 1)' = (IF Introduces(kind, e, id) THEN {n + 1} ELSE {})
        /\ StartedAt(kind, id, n + 1)' =
             (IF Names(kind, e, kind.start, id) THEN {n + 1} ELSE {})
        /\ StreamedAt(kind, id, n + 1)' =
             (IF Names(kind, e, kind.chunk, id) THEN {n + 1} ELSE {})
        /\ Closers(kind, id, n + 1)' = {} /\ ClosedAt(kind, id, n + 1)' = {}
    BY <1>2, <1>3, FormBegins
  <2> QED BY <1>3, <2>1 DEF Fresh
<1>4. CASE ~ Fresh(kind, id, n)
  <2>1. /\ IntroducedAt(kind, id, n + 1)' = IntroducedAt(kind, id, n)
        /\ StartedAt(kind, id, n + 1)' =
             (IF Names(kind, e, kind.end, id) THEN {} ELSE StartedAt(kind, id, n))
        /\ StreamedAt(kind, id, n + 1)' =
             (IF EndsStreaming(kind, e, id, n) THEN {} ELSE StreamedAt(kind, id, n))
        /\ Closers(kind, id, n + 1)' =
             Closers(kind, id, n)
             \cup (IF \E p \in IntroducedAt(kind, id, n) : EndsForm(kind, n + 1, p, id)'
                   THEN {n + 1} ELSE {})
    BY <1>2, <1>4, FormGrows
  <2>2. /\ Closers(kind, id, n) \subseteq 1..n
        /\ ClosedAt(kind, id, n + 1)' = First(Closers(kind, id, n + 1)')
        /\ First({}) = {}
    BY DEF Closers, ClosedAt, First
  <2>3. /\ Closers(kind, id, n) = {} => First(Closers(kind, id, n) \cup {n + 1}) = {n + 1}
        /\ ClosedAt(kind, id, n) # {} =>
             First(Closers(kind, id, n) \cup {n + 1}) = ClosedAt(kind, id, n)
    BY <1>1, <2>2, FirstOfMore DEF ClosedAt
  <2>4. /\ StartedAt(kind, id, n) # {} =>
             \A p \in IntroducedAt(kind, id, n) :
               EndsForm(kind, n + 1, p, id)' <=> Names(kind, e, kind.end, id)
        /\ StreamedAt(kind, id, n) # {} =>
             \A p \in IntroducedAt(kind, id, n) :
               EndsForm(kind, n + 1, p, id)' <=> EndsStreaming(kind, e, id, n)
    <3>1. \A p \in 1..n : NamedAt(kind, p, kind.start, id)' <=> NamedAt(kind, p, kind.start, id)
      BY <1>1 DEF NamedAt, Names
    <3>2. /\ NamedAt(kind, n + 1, kind.end, id)' <=> Names(kind, e, kind.end, id)
          /\ EndsStreamOf(kind, n + 1, id)' <=> EndsStreaming(kind, e, id, n)
      BY FormsEntry
    <3>3. /\ \A p \in StartedAt(kind, id, n) : NamedAt(kind, p, kind.start, id)
          /\ \A p \in StreamedAt(kind, id, n) : ~ NamedAt(kind, p, kind.start, id)
      BY DEF StartedAt, StreamedAt, NamedAt, Names, Kinds, Message, Call
    <3> QED BY <1>2, <3>1, <3>2, <3>3 DEF EndsForm
  <2>5. StartedAt(kind, id, n) # {} =>
          /\ StreamedAt(kind, id, n + 1)' = {}
          /\ ClosedAt(kind, id, n + 1)' =
               (IF Names(kind, e, kind.end, id) THEN {n + 1} ELSE {})
    BY <1>2, <2>1, <2>2, <2>3, <2>4
  <2>6. StreamedAt(kind, id, n) # {} =>
          /\ StartedAt(kind, id, n + 1)' = {}
          /\ ClosedAt(kind, id, n + 1)' =
               (IF EndsStreaming(kind, e, id, n) THEN {n + 1} ELSE {})
    BY <1>2, <2>1, <2>2, <2>3, <2>4
  <2>7. ClosedAt(kind, id, n) # {} =>
          /\ StartedAt(kind, id, n + 1)' = {} /\ StreamedAt(kind, id, n + 1)' = {}
          /\ ClosedAt(kind, id, n + 1)' = ClosedAt(kind, id, n)
    BY <1>2, <2>1, <2>2, <2>3 DEF ClosedAt
  <2> QED BY <1>4, <2>1, <2>5, <2>6, <2>7
<1> QED BY <1>3, <1>4

\* In a new run nothing has a form.
LEMMA FormsRenewed ==
  ASSUME NEW n, NEW i, NEW e, Grows(n, i, e), NEW kind \in Kinds, NEW id,
         e.type = "RUN_STARTED"
  PROVE  Fresh(kind, id, n + 1)'
<1>1. ~ Names(kind, e, kind.start, id) /\ ~ Names(kind, e, kind.chunk, id)
  BY DEF Names, Kinds, Message, Call
<1>2. /\ Introducers(kind, id, n + 1)' = {} /\ StartedAt(kind, id, n + 1)' = {}
      /\ StreamedAt(kind, id, n + 1)' = {}
      /\ Closers(kind, id, n + 1)' = {} /\ ClosedAt(kind, id, n + 1)' = {}
  BY <1>1, FormBegins DEF Introduces
<1> QED BY <1>2 DEF Fresh

\* Before the first entry nothing has a form.
LEMMA FormsStart ==
  ASSUME NEW kind, NEW id
  PROVE  Fresh(kind, id, 0)
<1>1. Introducers(kind, id, 0) = {} /\ IntroducedAt(kind, id, 0) = {}
  BY DEF Introducers, IntroducedAt, RunPositions, First
<1>2. /\ StartedAt(kind, id, 0) = {} /\ StreamedAt(kind, id, 0) = {}
      /\ Closers(kind, id, 0) = {} /\ ClosedAt(kind, id, 0) = {}
  BY <1>1 DEF StartedAt, StreamedAt, Closers, ClosedAt, First
<1> QED BY <1>2 DEF Fresh

\* Without an entry nothing changes.
LEMMA FormsStand ==
  ASSUME UNCHANGED log, NEW kind, NEW id, NEW n
  PROVE  /\ IntroducedAt(kind, id, n)' = IntroducedAt(kind, id, n)
         /\ StartedAt(kind, id, n)' = StartedAt(kind, id, n)
         /\ StreamedAt(kind, id, n)' = StreamedAt(kind, id, n)
         /\ ClosedAt(kind, id, n)' = ClosedAt(kind, id, n)
BY DEF StartedAt, StreamedAt, ClosedAt, Closers, EndsForm, EndsStreamOf, Started, IntroducedAt,
       Introducers, NamedAt, Judges, TypeAt, RunPositions, First


-----------------------------------------------------------------------------
(* Sets of positions in their order.                                           *)

=============================================================================
