--------------------------- MODULE Framing_proofs ---------------------------
(***************************************************************************)
(* Proofs about Framing: the readers keep their types and deliver the      *)
(* items of the text received in its order, however the network cuts it.   *)
(*                                                                         *)
(* The argument: at any moment the text received is what was read, the     *)
(* buffer and the chunks held, and what was read ends where a line ends.   *)
(* The frame so far and the items delivered are those of the lines read    *)
(* (ReadingInv).  Text that arrives changes no line already read; taking a *)
(* line from the buffer adds the next line of the text to the lines read,  *)
(* and so to the frame and to the items.                                   *)
(***************************************************************************)
EXTENDS Framing, PositionTheorems, SequenceTheorems

\* FlattenSeq's recursive function: what its definition names.
Flattens(f, seqs, n) ==
  f = [i \in 1..n |-> IF i = 1 THEN seqs[i] ELSE f[i - 1] \o seqs[i]]

\* There is such a function, of sequences of the same elements, and one only.
LEMMA FlattensExists ==
  ASSUME NEW S, NEW seqs \in Seq(Seq(S))
  PROVE  \A n \in Nat : n <= Len(seqs) =>
           \E f \in [1..n -> Seq(S)] : Flattens(f, seqs, n)
<1> DEFINE P == {n \in Nat : n <= Len(seqs) => \E f \in [1..n -> Seq(S)] : Flattens(f, seqs, n)}
<1>1. 0 \in P
  <2> DEFINE f == [i \in 1..0 |-> <<>>]
  <2>1. f \in [1..0 -> Seq(S)]
    OBVIOUS
  <2>2. f = [i \in 1..0 |-> IF i = 1 THEN seqs[i] ELSE f[i - 1] \o seqs[i]]
    OBVIOUS
  <2> HIDE DEF f
  <2> QED BY <2>1, <2>2 DEF Flattens
<1>2. ASSUME NEW n \in Nat, n \in P PROVE n + 1 \in P
  <2> SUFFICES ASSUME n + 1 <= Len(seqs)
               PROVE  \E g \in [1..n + 1 -> Seq(S)] : Flattens(g, seqs, n + 1)
    OBVIOUS
  <2>1. PICK f \in [1..n -> Seq(S)] : Flattens(f, seqs, n)
    BY <1>2
  <2>2. f = [i \in 1..n |-> IF i = 1 THEN seqs[i] ELSE f[i - 1] \o seqs[i]]
    BY <2>1 DEF Flattens
  <2>3. \A i \in 1..n + 1 : seqs[i] \in Seq(S)
    OBVIOUS
  <2>4. PICK last \in Seq(S) : last = IF n = 0 THEN seqs[n + 1] ELSE f[n] \o seqs[n + 1]
    <3>1. CASE n = 0
      BY <2>3, <3>1
    <3>2. CASE n # 0
      <4>1. f[n] \in Seq(S) /\ seqs[n + 1] \in Seq(S)
        BY <2>3, <3>2
      <4>2. f[n] \o seqs[n + 1] \in Seq(S)
        BY <4>1, ConcatProperties
      <4> QED BY <3>2, <4>2
    <3> QED BY <3>1, <3>2
  <2>5. PICK g : g = [i \in 1..n + 1 |-> IF i <= n THEN f[i] ELSE last]
    OBVIOUS
  <2>6. g \in [1..n + 1 -> Seq(S)]
    BY <2>5
  <2>7. \A i \in 1..n + 1 : g[i] = IF i = 1 THEN seqs[i] ELSE g[i - 1] \o seqs[i]
    <3> TAKE i \in 1..n + 1
    <3>1. CASE i = n + 1
      <4>1. n # 0 => g[n] = f[n] /\ i - 1 = n
        BY <2>5, <3>1
      <4> QED BY <2>4, <2>5, <3>1, <4>1
    <3>2. CASE i # n + 1
      <4>1. i \in 1..n
        BY <3>2
      <4>2. g[i] = f[i]
        BY <2>5, <4>1
      <4>3. i # 1 => i - 1 \in 1..n /\ g[i - 1] = f[i - 1]
        BY <2>5, <4>1
      <4>4. f[i] = IF i = 1 THEN seqs[i] ELSE f[i - 1] \o seqs[i]
        BY <2>2, <4>1
      <4> QED BY <4>2, <4>3, <4>4
    <3> QED BY <3>1, <3>2
  <2>8. g = [i \in 1..n + 1 |-> IF i = 1 THEN seqs[i] ELSE g[i - 1] \o seqs[i]]
    BY <2>5, <2>7
  <2> QED BY <2>6, <2>8 DEF Flattens
<1>3. \A n \in Nat : n \in P
  <2> HIDE DEF P
  <2> QED BY <1>1, <1>2, SetInduction
<1> QED BY <1>3

\* Two such functions agree where the sequences do.
LEMMA FlattensAgree ==
  ASSUME NEW seqs, NEW more, NEW f, NEW g, NEW n \in Nat, NEW m \in Nat,
         Flattens(f, seqs, n), Flattens(g, more, m), \A i \in 1..n : seqs[i] = more[i]
  PROVE  \A i \in Nat : i \in 1..n /\ i \in 1..m => f[i] = g[i]
<1> DEFINE P == {i \in Nat : i \in 1..n /\ i \in 1..m => f[i] = g[i]}
<1>1. /\ f = [i \in 1..n |-> IF i = 1 THEN seqs[i] ELSE f[i - 1] \o seqs[i]]
      /\ g = [i \in 1..m |-> IF i = 1 THEN more[i] ELSE g[i - 1] \o more[i]]
  BY DEF Flattens
<1>2. 0 \in P
  OBVIOUS
<1>3. ASSUME NEW i \in Nat, i \in P PROVE i + 1 \in P
  <2> SUFFICES ASSUME i + 1 \in 1..n, i + 1 \in 1..m PROVE f[i + 1] = g[i + 1]
    OBVIOUS
  <2>1. /\ f[i + 1] = IF i + 1 = 1 THEN seqs[i + 1] ELSE f[(i + 1) - 1] \o seqs[i + 1]
        /\ g[i + 1] = IF i + 1 = 1 THEN more[i + 1] ELSE g[(i + 1) - 1] \o more[i + 1]
    BY <1>1
  <2>2. (i + 1) - 1 = i /\ seqs[i + 1] = more[i + 1]
    OBVIOUS
  <2>3. i # 0 => f[i] = g[i]
    BY <1>3
  <2> QED BY <2>1, <2>2, <2>3
<1>4. \A i \in Nat : i \in P
  <2> HIDE DEF P
  <2> QED BY <1>2, <1>3, SetInduction
<1> QED BY <1>4

\* FlattenSeq is the last value of that function.
LEMMA FlattenSeqIs ==
  ASSUME NEW S, NEW seqs \in Seq(Seq(S)), seqs # <<>>
  PROVE  \E f \in [1..Len(seqs) -> Seq(S)] : Flattens(f, seqs, Len(seqs)) /\ FlattenSeq(seqs) = f[Len(seqs)]
<1>1. Len(seqs) \in Nat /\ Len(seqs) # 0
  OBVIOUS
<1>2. PICK g \in [1..Len(seqs) -> Seq(S)] : Flattens(g, seqs, Len(seqs))
  <2>1. PICK n \in Nat : n = Len(seqs)
    BY <1>1
  <2>2. n <= Len(seqs)
    BY <2>1
  <2>3. \E f \in [1..n -> Seq(S)] : Flattens(f, seqs, n)
    BY <2>2, FlattensExists
  <2> QED BY <2>1, <2>3
<1> DEFINE F == CHOOSE f : f = [i \in 1..Len(seqs) |-> IF i = 1 THEN seqs[i] ELSE f[i - 1] \o seqs[i]]
<1>3. FlattenSeq(seqs) = F[Len(seqs)]
  BY <1>1 DEF FlattenSeq
<1>4. Flattens(F, seqs, Len(seqs))
  <2>1. \E f : f = [i \in 1..Len(seqs) |-> IF i = 1 THEN seqs[i] ELSE f[i - 1] \o seqs[i]]
    BY <1>2 DEF Flattens
  <2> QED BY <2>1 DEF Flattens
<1> HIDE DEF F
<1>5. F \in [1..Len(seqs) -> Seq(S)]
  <2>1. \A i \in 1..Len(seqs) : F[i] = g[i]
    BY <1>1, <1>2, <1>4, FlattensAgree
  <2>2. F = [i \in 1..Len(seqs) |-> F[i]]
    BY <1>4 DEF Flattens
  <2> QED BY <1>2, <2>1, <2>2
<1> QED BY <1>3, <1>4, <1>5

\* No chunks, no text.
LEMMA FlattenSeqEmpty == FlattenSeq(<<>>) = <<>>
BY DEF FlattenSeq

\* Texts joined are a text.
LEMMA FlattenSeqType ==
  ASSUME NEW S, NEW seqs \in Seq(Seq(S))
  PROVE  FlattenSeq(seqs) \in Seq(S)
<1>1. CASE seqs = <<>>
  <2>1. FlattenSeq(seqs) = <<>>
    BY <1>1, FlattenSeqEmpty
  <2> QED BY <2>1
<1>2. CASE seqs # <<>>
  <2>1. PICK f \in [1..Len(seqs) -> Seq(S)] : FlattenSeq(seqs) = f[Len(seqs)]
    BY <1>2, FlattenSeqIs
  <2>2. Len(seqs) \in 1..Len(seqs)
    BY <1>2
  <2> QED BY <2>1, <2>2
<1> QED BY <1>1, <1>2

Joins(s, a, b) == s = a \o b

\* One more step of such a function.
LEMMA FlattensMore ==
  ASSUME NEW seqs, NEW more, NEW f, NEW g, NEW n \in Nat, n # 0,
         Flattens(f, seqs, n), Flattens(g, more, n + 1), \A i \in 1..n : seqs[i] = more[i]
  PROVE  Joins(g[n + 1], f[n], more[n + 1])
<1>1. \A i \in Nat : i \in 1..n /\ i \in 1..n + 1 => f[i] = g[i]
  BY FlattensAgree
<1>2. g = [i \in 1..n + 1 |-> IF i = 1 THEN more[i] ELSE g[i - 1] \o more[i]]
  BY DEF Flattens
<1>3. g[n + 1] = IF n + 1 = 1 THEN more[n + 1] ELSE g[(n + 1) - 1] \o more[n + 1]
  <2>1. n + 1 \in 1..n + 1
    OBVIOUS
  <2> QED BY <1>2, <2>1, Zenon
<1>4. (n + 1) - 1 = n /\ n \in 1..n /\ n \in 1..n + 1 /\ n + 1 # 1
  OBVIOUS
<1> QED BY <1>1, <1>3, <1>4 DEF Joins

\* The first of the sequences joined.
LEMMA FlattensFirst ==
  ASSUME NEW seqs, NEW f, Flattens(f, seqs, 1)
  PROVE  f[1] = seqs[1]
BY DEF Flattens

\* One more sequence at the end.
LEMMA FlattenSeqAppend ==
  ASSUME NEW S, NEW seqs \in Seq(Seq(S)), NEW last \in Seq(S)
  PROVE  FlattenSeq(Append(seqs, last)) = FlattenSeq(seqs) \o last
<1>1. PICK more : more = Append(seqs, last)
  OBVIOUS
<1>2. PICK n \in Nat : n = Len(seqs)
  OBVIOUS
<1>3. more \in Seq(Seq(S)) /\ Len(more) = n + 1 /\ more[n + 1] = last
  BY <1>1, <1>2, AppendProperties
<1>4. (\A i \in 1..n : seqs[i] = more[i]) /\ more # <<>>
  BY <1>1, <1>2, AppendProperties
<1>5. PICK g : Flattens(g, more, n + 1) /\ FlattenSeq(more) = g[n + 1]
  BY <1>3, <1>4, FlattenSeqIs
<1>6. CASE seqs = <<>>
  <2>1. n = 0
    BY <1>2, <1>6
  <2>2. g[1] = last
    BY <1>3, <1>5, <2>1, FlattensFirst
  <2>3. <<>> \o last = last
    BY ConcatEmptySeq
  <2> QED BY <1>1, <1>5, <1>6, <2>1, <2>2, <2>3, FlattenSeqEmpty
<1>7. CASE seqs # <<>>
  <2>1. PICK f : Flattens(f, seqs, n) /\ FlattenSeq(seqs) = f[n]
    BY <1>2, <1>7, FlattenSeqIs
  <2>2. n # 0
    BY <1>2, <1>7, EmptySeq
  <2>3. Joins(g[n + 1], f[n], more[n + 1])
    BY <1>4, <1>5, <2>1, <2>2, FlattensMore
  <2> QED BY <1>1, <1>3, <1>5, <2>1, <2>3 DEF Joins
<1> QED BY <1>6, <1>7

\* Joining is associative.
LEMMA Associates ==
  ASSUME NEW S, NEW s \in Seq(S), NEW t \in Seq(S), NEW u \in Seq(S)
  PROVE  (s \o t) \o u = s \o (t \o u)
BY SMTT(30)

\* The first sequence comes first.
LEMMA FlattenSeqHead ==
  ASSUME NEW S, NEW seqs \in Seq(Seq(S)), seqs # <<>>
  PROVE  FlattenSeq(seqs) = Head(seqs) \o FlattenSeq(Tail(seqs))
<1> DEFINE Splits(s) == FlattenSeq(s) = Head(s) \o FlattenSeq(Tail(s))
           P == {n \in Nat : \A s \in Seq(Seq(S)) : Len(s) = n /\ s # <<>> => Splits(s)}
<1>1. ASSUME NEW s \in Seq(Seq(S)), NEW last \in Seq(S), s # <<>> => Splits(s)
      PROVE  Splits(Append(s, last))
  <2>1. FlattenSeq(Append(s, last)) = FlattenSeq(s) \o last
    BY FlattenSeqAppend
  <2>2. /\ Head(Append(s, last)) = IF s = <<>> THEN last ELSE Head(s)
        /\ Tail(Append(s, last)) = IF s = <<>> THEN <<>> ELSE Append(Tail(s), last)
    BY HeadTailAppend
  <2>3. CASE s = <<>>
    <3>1. <<>> \o last = last /\ last \o <<>> = last
      BY ConcatEmptySeq
    <3> QED BY <2>1, <2>2, <2>3, <3>1, FlattenSeqEmpty
  <2>4. CASE s # <<>>
    <3>1. Head(s) \in Seq(S) /\ Tail(s) \in Seq(Seq(S))
      BY <2>4, HeadTailProperties
    <3>2. FlattenSeq(Tail(s)) \in Seq(S)
      BY <3>1, FlattenSeqType
    <3>3. FlattenSeq(Append(Tail(s), last)) = FlattenSeq(Tail(s)) \o last
      BY <3>1, FlattenSeqAppend
    <3>4. PICK a \in Seq(S) : a = Head(s)
      BY <3>1
    <3>5. PICK b \in Seq(S) : b = FlattenSeq(Tail(s))
      BY <3>2
    <3>6. (a \o b) \o last = a \o (b \o last)
      BY Associates, SMTT(30)
    <3>7. FlattenSeq(s) = a \o b
      BY <1>1, <2>4, <3>4, <3>5
    <3> QED BY <2>1, <2>2, <2>4, <3>3, <3>4, <3>5, <3>6, <3>7
  <2> QED BY <2>3, <2>4
<1> HIDE DEF Splits
<1>2. 0 \in P
  BY EmptySeq
<1>3. ASSUME NEW n \in Nat, n \in P PROVE n + 1 \in P
  <2> SUFFICES ASSUME NEW s \in Seq(Seq(S)), Len(s) = n + 1, s # <<>> PROVE Splits(s)
    OBVIOUS
  <2>1. PICK t \in Seq(Seq(S)), last \in Seq(S) : s = Append(t, last)
    BY SequenceEmptyOrAppend
  <2>2. Len(t) = n
    BY <2>1, AppendProperties
  <2> QED BY <1>1, <1>3, <2>1, <2>2
<1>4. \A n \in Nat : n \in P
  <2> HIDE DEF P
  <2> QED BY <1>2, <1>3, SetInduction
<1>5. Splits(seqs)
  BY <1>4, LenProperties
<1> QED BY <1>5 DEF Splits

\* Min is the least of a set of positions.
LEMMA MinIs ==
  ASSUME NEW positions, positions \subseteq Nat, positions # {}
  PROVE  Min(positions) \in positions /\ \A p \in positions : Min(positions) <= p
<1>1. \E q \in positions : \A p \in positions : q <= p
  BY FirstExists DEF First
<1> QED BY <1>1 DEF Min

\* str.find returns the first position of a symbol, or 0.
LEMMA FindIs ==
  ASSUME NEW symbol, buffer \in Texts
  PROVE  \/ Find(symbol) = 0 /\ \A i \in 1..Len(buffer) : buffer[i] # symbol
         \/ /\ Find(symbol) \in 1..Len(buffer) /\ buffer[Find(symbol)] = symbol
            /\ \A i \in 1..Find(symbol) - 1 : buffer[i] # symbol
<1> DEFINE at == {i \in 1..Len(buffer) : buffer[i] = symbol}
<1>1. Find(symbol) = IF at # {} THEN Min(at) ELSE 0
  BY DEF Find, SelectInSeq
<1>2. Len(buffer) \in Nat
  BY DEF Texts
<1>3. CASE at = {}
  BY <1>1, <1>3
<1>4. CASE at # {}
  <2>1. at \subseteq Nat
    OBVIOUS
  <2>2. Min(at) \in at /\ \A p \in at : Min(at) <= p
    BY <1>4, <2>1, MinIs
  <2>3. Find(symbol) \in 1..Len(buffer) /\ buffer[Find(symbol)] = symbol
    BY <1>1, <1>4, <2>2
  <2>4. \A i \in 1..Find(symbol) - 1 : buffer[i] # symbol
    BY <1>1, <1>2, <1>4, <2>2, <2>3
  <2> QED BY <2>3, <2>4
<1> QED BY <1>3, <1>4

\* What str.lstrip leaves: nothing of a blank text, else the text from the first
\* symbol that is not blank.
LEMMA UnindentedIs ==
  ASSUME NEW text \in Texts
  PROVE  /\ Unindented(text) = <<>> <=> \A i \in 1..Len(text) : text[i] \in Blank
         /\ text # <<>> /\ Head(text) \notin Blank => Unindented(text) = text
<1> DEFINE at == {i \in 1..Len(text) : text[i] \notin Blank}
           first == IF at # {} THEN Min(at) ELSE 0
<1>1. Unindented(text) = IF first = 0 THEN <<>> ELSE SubSeq(text, first, Len(text))
  BY DEF Unindented, SelectInSeq
<1>2. Len(text) \in Nat /\ \A i \in 1..Len(text) : text[i] \in Symbols
  BY DEF Texts
<1>3. CASE at = {}
  <2>1. \A i \in 1..Len(text) : text[i] \in Blank
    BY <1>3
  <2>2. Unindented(text) = <<>>
    BY <1>1, <1>3
  <2>3. ~ (text # <<>> /\ Head(text) \notin Blank)
    BY <1>2, <2>1 DEF Texts
  <2> QED BY <2>1, <2>2, <2>3
<1>4. CASE at # {}
  <2>1. at \subseteq Nat
    OBVIOUS
  <2>2. Min(at) \in at /\ \A p \in at : Min(at) <= p
    BY <1>4, <2>1, MinIs
  <2>3. first \in 1..Len(text) /\ text[first] \notin Blank
    BY <1>4, <2>2
  <2>4. first = Min(at)
    BY <1>4
  <2> HIDE DEF first
  <2>5. Unindented(text) = SubSeq(text, first, Len(text))
    BY <1>1, <2>3
  <2>6. Len(Unindented(text)) # 0
    <3>1. \A i \in first..Len(text) : text[i] \in Symbols
      BY <1>2, <2>3
    <3>2. Len(SubSeq(text, first, Len(text))) = IF first <= Len(text) THEN Len(text) - first + 1 ELSE 0
      BY <1>2, <2>3, <3>1, SubSeqProperties
    <3> QED BY <1>2, <2>3, <2>5, <3>2
  <2>7. Unindented(text) # <<>>
    BY <2>6, EmptySeq
  <2>8. ASSUME text # <<>>, Head(text) \notin Blank PROVE Unindented(text) = text
    <3>1. 1 \in at
      BY <2>8, <1>2 DEF Texts
    <3>2. first = 1
      BY <2>2, <2>3, <2>4, <3>1
    <3>3. SubSeq(text, 1, Len(text)) = text
      BY SubSeqFull DEF Texts
    <3> QED BY <2>5, <3>2, <3>3
  <2> QED BY <2>3, <2>7, <2>8
<1> QED BY <1>3, <1>4

\* A text that begins with a field name, a comment or a line end opens no JSON.
LEMMA OpensNothing ==
  ASSUME NEW text \in Texts, text # <<>>, Head(text) \in Fields \cup {":"}
  PROVE  ~ OpensJson(text)
<1>1. Head(text) \notin Blank /\ Head(text) # "{"
  BY DEF Blank, Fields
<1>2. Unindented(text) = text
  BY <1>1, UnindentedIs
<1> QED BY <1>1, <1>2 DEF OpensJson, StartsWith

\* The first line of a text, and what the reader may conclude from it.
LEMMA FirstLineIs ==
  ASSUME NEW text \in Texts
  PROVE  /\ FirstLine(text) \in Texts
         /\ "LF" \notin ToSet(text) => FirstLine(text) = text
         /\ "LF" \in ToSet(text) => FirstLine(text) # text
<1> DEFINE at == {i \in 1..Len(text) : text[i] = "LF"}
           lf == IF at # {} THEN Min(at) ELSE 0
<1>1. FirstLine(text) = IF lf = 0 THEN text ELSE SubSeq(text, 1, lf - 1)
  BY DEF FirstLine, SelectInSeq
<1>2. Len(text) \in Nat /\ \A i \in 1..Len(text) : text[i] \in Symbols
  BY DEF Texts
<1>3. "LF" \in ToSet(text) <=> at # {}
  BY DEF ToSet, Texts
<1>4. CASE at = {}
  BY <1>1, <1>3, <1>4
<1>5. CASE at # {}
  <2>1. at \subseteq Nat
    OBVIOUS
  <2>2. Min(at) \in at
    BY <1>5, <2>1, MinIs
  <2>3. lf \in 1..Len(text)
    BY <1>5, <2>2
  <2> HIDE DEF lf
  <2>4. FirstLine(text) = SubSeq(text, 1, lf - 1)
    BY <1>1, <2>3
  <2>5. \A i \in 1..lf - 1 : text[i] \in Symbols
    BY <1>2, <2>3
  <2>6. FirstLine(text) \in Texts /\ Len(FirstLine(text)) = IF 1 <= lf - 1 THEN (lf - 1) - 1 + 1 ELSE 0
    BY <2>3, <2>4, <2>5, SubSeqProperties DEF Texts
  <2>7. Len(FirstLine(text)) # Len(text)
    BY <1>2, <2>3, <2>6
  <2> QED BY <1>3, <1>5, <2>6, <2>7
<1> QED BY <1>4, <1>5

\* Where a text may be cut into what is read and what is not.
IsMark(text, whole, form, n) == n = Opening(text, form) \/ n \in Ends(text, whole, form)

Forms == {"sse", "ndjson"}

\* At most one symbol opens a text, the byte order mark.
LEMMA OpeningIs ==
  ASSUME NEW text \in Texts, NEW form
  PROVE  /\ Opening(text, form) \in 0..1
         /\ Opening(text, form) = 1 => text # <<>> /\ text[1] = "BOM"
  BY DEF Opening, StartsWith, Texts

\* A line that ends begins after the byte order mark.
LEMMA EndsAfterOpening ==
  ASSUME NEW text \in Texts, NEW whole, NEW form, NEW e \in Ends(text, whole, form)
  PROVE  e \in 1..Len(text) /\ Opening(text, form) < e
<1>1. e \in 1..Len(text) /\ IsEnd(text, whole, form, e)
  BY DEF Ends
<1>2. Len(text) \in Nat
  BY DEF Texts
<1>3. text[e] = "LF" \/ text[e] = "CR"
  BY <1>1 DEF IsEnd
<1>4. Opening(text, form) = 1 => e # 1
  BY <1>3, OpeningIs
<1>5. Opening(text, form) \in 0..1
  BY OpeningIs
<1> QED BY <1>1, <1>2, <1>4, <1>5

\* A mark is a position of the text, after the byte order mark.
LEMMA MarkIs ==
  ASSUME NEW text \in Texts, NEW whole, NEW form, NEW n, IsMark(text, whole, form, n)
  PROVE  n \in 0..Len(text) /\ Opening(text, form) <= n
<1>1. Opening(text, form) \in 0..1 /\ (Opening(text, form) = 1 => text # <<>>)
  BY OpeningIs
<1>2. Len(text) \in Nat /\ (text # <<>> => Len(text) >= 1)
  BY EmptySeq DEF Texts
<1>3. CASE n = Opening(text, form)
  BY <1>1, <1>2, <1>3
<1>4. CASE n \in Ends(text, whole, form)
  BY <1>1, <1>2, <1>4, EndsAfterOpening
<1> QED BY <1>3, <1>4 DEF IsMark

\* The last cut before a position is a mark.
LEMMA CutType ==
  ASSUME NEW text \in Texts, NEW whole, NEW form, NEW e \in Nat, Opening(text, form) < e
  PROVE  /\ Cut(text, whole, form, e) \in Nat /\ Cut(text, whole, form, e) < e
         /\ IsMark(text, whole, form, Cut(text, whole, form, e))
<1> DEFINE before == {i \in {Opening(text, form)} \cup Ends(text, whole, form) : i < e}
<1>1. Opening(text, form) \in before
  BY OpeningIs
<1>2. before \subseteq 0..e
  BY OpeningIs DEF Ends
<1> HIDE DEF before
<1>3. The(Latest(before)) \in before
  BY <1>1, <1>2, LatestFromZero
<1>4. Cut(text, whole, form, e) \in before
  BY <1>3 DEF Cut, before
<1>5. Cut(text, whole, form, e) \in Nat
  <2>1. \A i \in 0..e : i \in Nat
    OBVIOUS
  <2> QED BY <1>2, <1>4, <2>1
<1> QED BY <1>4, <1>5 DEF before, IsMark

\* When no line ends between a mark and a position, the mark is the last cut.
LEMMA CutIs ==
  ASSUME NEW text \in Texts, NEW whole, NEW form, NEW n, NEW e \in Nat,
         IsMark(text, whole, form, n), n < e,
         \A i \in Ends(text, whole, form) : n < i => e <= i
  PROVE  Cut(text, whole, form, e) = n
<1> DEFINE before == {i \in {Opening(text, form)} \cup Ends(text, whole, form) : i < e}
<1>1. n \in 0..Len(text) /\ Opening(text, form) <= n /\ Opening(text, form) \in Nat
  BY MarkIs, OpeningIs
<1>2. Len(text) \in Nat
  BY DEF Texts
<1>3. n \in before
  BY DEF IsMark
<1>4. before \subseteq Nat
  BY <1>1 DEF Ends
<1>5. \A i \in before : i <= n
  <2> TAKE i \in before
  <2>1. CASE i = Opening(text, form)
    BY <1>1, <2>1
  <2>2. CASE i \in Ends(text, whole, form)
    <3>1. i \in Nat /\ i < e /\ n \in Nat
      BY <1>1, <1>4
    <3> QED BY <2>2, <3>1
  <2> QED BY <2>1, <2>2
<1> HIDE DEF before
<1>6. The(Latest(before)) = n
  BY <1>3, <1>4, <1>5, LatestIs
<1> QED BY <1>6 DEF Cut, before

\* A piece of a text that goes on.
LEMMA PieceOfMore ==
  ASSUME NEW text \in Texts, NEW more \in Texts, NEW a \in Nat, NEW b \in Int, a >= 1, b <= Len(text)
  PROVE  SubSeq(text \o more, a, b) = SubSeq(text, a, b)
<1>1. Len(text) \in Nat /\ \A i \in 1..Len(text) : text[i] \in Symbols /\ (text \o more)[i] = text[i]
  BY DEF Texts
<1>2. \A i \in a..b : (text \o more)[i] = text[i] /\ text[i] \in Symbols
  BY <1>1
<1>3. PICK u : u = text \o more
  OBVIOUS
<1>4. \A i \in a..b : u[i] = text[i] /\ text[i] \in Symbols /\ u[i] \in Symbols
  BY <1>2, <1>3
<1>5. PICK s, t : s = SubSeq(u, a, b) /\ t = SubSeq(text, a, b)
  OBVIOUS
<1>6. /\ t \in Texts /\ Len(t) = IF a <= b THEN b - a + 1 ELSE 0
      /\ \A i \in 1..b - a + 1 : t[i] = text[a + i - 1]
  BY <1>4, <1>5, SubSeqProperties DEF Texts
<1>7. /\ s \in Texts /\ Len(s) = IF a <= b THEN b - a + 1 ELSE 0
      /\ \A i \in 1..b - a + 1 : s[i] = u[a + i - 1]
  BY <1>4, <1>5, SubSeqProperties DEF Texts
<1>8. \A i \in 1..b - a + 1 : s[i] = t[i]
  BY <1>4, <1>6, <1>7
<1>9. Len(s) = Len(t) /\ \A i \in 1..Len(s) : s[i] = t[i]
  <2>1. Len(s) = Len(t)
    BY <1>6, <1>7
  <2>2. CASE a <= b
    <3>1. Len(s) = b - a + 1
      BY <1>7, <2>2
    <3> QED BY <1>8, <2>1, <3>1
  <2>3. CASE ~(a <= b)
    <3>1. Len(s) = 0
      BY <1>7, <2>3
    <3>2. 1..Len(s) = {}
      BY <3>1
    <3> QED BY <2>1, <3>2
  <2> QED BY <2>2, <2>3
<1>10. s = t
  BY <1>6, <1>7, <1>9, SeqEqual DEF Texts
<1> QED BY <1>3, <1>5, <1>10

-----------------------------------------------------------------------------
\* A text that goes on.
Prolongs(all, text, more) == all = text \o more

\* Not the whole of it.
SoFar == FALSE

\* It keeps its opening.
LEMMA OpeningStays ==
  ASSUME NEW text \in Texts, NEW more \in Texts, NEW form, text # <<>>, NEW u, Prolongs(u, text, more)
  PROVE  Opening(u, form) = Opening(text, form)
<1>1. u = text \o more
  BY DEF Prolongs
<1>2. /\ u \in Texts /\ Len(text) \in Nat /\ Len(u) \in Nat /\ Len(text) <= Len(u)
      /\ \A i \in 1..Len(text) : u[i] = text[i]
  BY <1>1 DEF Texts
<1> QED BY <1>2, EmptySeq DEF Opening, StartsWith, Texts

\* The ends up to a mark stay when the text goes on.
LEMMA EndsStay ==
  ASSUME NEW text \in Texts, NEW more \in Texts, NEW whole, NEW form, NEW n,
         IsMark(text, SoFar, form, n), text # <<>>, NEW u, Prolongs(u, text, more)
  PROVE  \A i : i <= n => (i \in Ends(u, whole, form) <=> i \in Ends(text, SoFar, form))
<1>1. u = text \o more
  BY DEF Prolongs
<1>2. /\ u \in Texts /\ Len(text) \in Nat /\ Len(u) \in Nat /\ Len(text) <= Len(u)
      /\ \A i \in 1..Len(text) : u[i] = text[i]
  BY <1>1 DEF Texts
<1>3. n \in 0..Len(text) /\ Opening(text, form) \in Nat
  <2>1. n \in 0..Len(text)
    BY MarkIs
  <2>2. Opening(text, form) \in 0..1
    BY OpeningIs
  <2> QED BY <2>1, <2>2
<1>4. Opening(u, form) = Opening(text, form)
  BY <1>2, EmptySeq DEF Opening, StartsWith, Texts
<1>5. ASSUME NEW i \in 1..n
      PROVE  IsEnd(u, whole, form, i) <=> IsEnd(text, SoFar, form, i)
  <2>1. i \in 1..Len(text) /\ u[i] = text[i]
    BY <1>2, <1>3
  <2>2. CASE i # Len(text)
    <3>1. i + 1 \in 1..Len(text) /\ i # Len(u)
      BY <1>2, <2>1, <2>2
    <3>2. u[i + 1] = text[i + 1]
      BY <1>2, <3>1
    <3> QED BY <2>1, <2>2, <3>1, <3>2 DEF IsEnd, SoFar
  <2>3. CASE i = Len(text)
    <3>1. i = n
      BY <1>2, <1>3, <2>3
    <3>2. CASE n \in Ends(text, SoFar, form)
      BY <2>1, <2>3, <3>1, <3>2 DEF Ends, IsEnd, SoFar
    <3>3. CASE n = Opening(text, form)
      <4>1. n = 1 /\ text[n] = "BOM"
        BY <3>1, <3>3, OpeningIs
      <4> QED BY <2>1, <3>1, <4>1 DEF IsEnd, SoFar
    <3> QED BY <3>2, <3>3 DEF IsMark
  <2> QED BY <2>2, <2>3
<1>6. ASSUME NEW i, i <= n
      PROVE  i \in Ends(u, whole, form) <=> i \in Ends(text, SoFar, form)
  <2>1. i \in 1..Len(u) <=> i \in 1..Len(text)
    BY <1>2, <1>3, <1>6
  <2>2. i \in 1..Len(text) => i \in 1..n
    BY <1>3, <1>6
  <2> QED BY <1>5, <2>1, <2>2 DEF Ends
<1> QED BY <1>6

\* The mark stays.
LEMMA MarkStays ==
  ASSUME NEW text \in Texts, NEW more \in Texts, NEW whole, NEW form, NEW n,
         IsMark(text, SoFar, form, n), text # <<>>, NEW u, Prolongs(u, text, more)
  PROVE  IsMark(u, whole, form, n)
<1>1. n \in 0..Len(text) /\ Len(text) \in Nat /\ n <= n
  <2>1. n \in 0..Len(text)
    BY MarkIs
  <2> QED BY <2>1 DEF Texts
<1>2. Opening(u, form) = Opening(text, form) /\ (n \in Ends(u, whole, form) <=> n \in Ends(text, SoFar, form))
  BY <1>1, EndsStay, OpeningStays
<1> QED BY <1>2 DEF IsMark

\* And what was read up to it.
LEMMA LinesStay ==
  ASSUME NEW text \in Texts, NEW more \in Texts, NEW whole, NEW form, NEW n,
         IsMark(text, SoFar, form, n), text # <<>>, NEW u, Prolongs(u, text, more)
  PROVE  Upto(Lines(u, whole, form), n) = Upto(Lines(text, SoFar, form), n)
<1>1. u = text \o more
  BY DEF Prolongs
<1>2. /\ u \in Texts /\ Len(text) \in Nat /\ Len(u) \in Nat /\ Len(text) <= Len(u)
      /\ \A i \in 1..Len(text) : u[i] = text[i]
  BY <1>1 DEF Texts
<1>3. n \in 0..Len(text) /\ Opening(text, form) \in Nat
  <2>1. n \in 0..Len(text)
    BY MarkIs
  <2>2. Opening(text, form) \in 0..1
    BY OpeningIs
  <2> QED BY <2>1, <2>2
<1>4. Opening(u, form) = Opening(text, form)
  BY OpeningStays
<1>5. \A i : i <= n => (i \in Ends(u, whole, form) <=> i \in Ends(text, SoFar, form))
  BY EndsStay
<1>6. ASSUME NEW e \in Ends(text, SoFar, form), e <= n
      PROVE  LineAt(u, whole, form, e) = LineAt(text, SoFar, form, e)
  <2>1. e \in 1..Len(text) /\ Opening(text, form) < e /\ e \in Nat
    <3>1. e \in 1..Len(text) /\ Opening(text, form) < e
      BY EndsAfterOpening
    <3> QED BY <1>2, <3>1
  <2>2. {i \in {Opening(u, form)} \cup Ends(u, whole, form) : i < e}
        = {i \in {Opening(text, form)} \cup Ends(text, SoFar, form) : i < e}
    <3>1. \A i \in Ends(u, whole, form) \cup Ends(text, SoFar, form) : i \in Nat
      <4>1. Ends(u, whole, form) \subseteq 1..Len(u)
        BY DEF Ends
      <4>2. Ends(text, SoFar, form) \subseteq 1..Len(text)
        BY DEF Ends
      <4>3. 1..Len(u) \subseteq Nat /\ 1..Len(text) \subseteq Nat
        OBVIOUS
      <4> QED BY <4>1, <4>2, <4>3
    <3>2. \A i \in Ends(u, whole, form) \cup Ends(text, SoFar, form) : i < e => i <= n
      BY <1>3, <1>6, <2>1, <3>1
    <3> QED BY <1>4, <1>5, <3>2
  <2>3. Cut(u, whole, form, e) = Cut(text, SoFar, form, e)
    BY <2>2 DEF Cut
  <2>4. PICK c \in Nat : c = Cut(text, SoFar, form, e)
    BY <2>1, CutType
  <2>5. u[e] = text[e] /\ (e > 1 => u[e - 1] = text[e - 1])
    BY <1>2, <2>1
  <2>6. \A b \in {e - 1, e - 2} : SubSeq(u, c + 1, b) = SubSeq(text, c + 1, b)
    <3>1. ASSUME NEW b \in Int, b <= Len(text) PROVE SubSeq(u, c + 1, b) = SubSeq(text, c + 1, b)
      BY <1>1, <3>1, PieceOfMore
    <3> QED BY <1>2, <2>1, <3>1
  <2> QED BY <2>3, <2>4, <2>5, <2>6 DEF LineAt
<1>7. Upto(Lines(u, whole, form), n) = Upto(Lines(text, SoFar, form), n)
  <2>1. DOMAIN Lines(u, whole, form) = Ends(u, whole, form)
        /\ DOMAIN Lines(text, SoFar, form) = Ends(text, SoFar, form)
    BY DEF Lines
  <2>2. {p \in Ends(u, whole, form) : p <= n} = {p \in Ends(text, SoFar, form) : p <= n}
    BY <1>5
  <2>3. \A p \in {p \in Ends(text, SoFar, form) : p <= n} :
          Lines(u, whole, form)[p] = Lines(text, SoFar, form)[p]
    BY <1>5, <1>6 DEF Lines
  <2> QED BY <2>1, <2>2, <2>3 DEF Upto
<1> QED BY <1>7

\* A piece of a text is a text.
LEMMA PieceType ==
  ASSUME NEW text \in Texts, NEW a \in Nat, NEW b \in Int, a >= 1, b <= Len(text)
  PROVE  /\ SubSeq(text, a, b) \in Texts
         /\ Len(SubSeq(text, a, b)) = IF a <= b THEN b - a + 1 ELSE 0
         /\ \A i \in 1..b - a + 1 : SubSeq(text, a, b)[i] = text[a + i - 1]
<1>1. \A i \in a..b : text[i] \in Symbols
  BY DEF Texts
<1> QED BY <1>1, SubSeqProperties DEF Texts

\* The lines of a text are texts, each known by its end.
LEMMA LinesType ==
  ASSUME NEW text \in Texts, NEW whole, NEW form, NEW n
  PROVE  /\ DOMAIN Lines(text, whole, form) = Ends(text, whole, form)
         /\ \A e \in Ends(text, whole, form) :
              Lines(text, whole, form)[e] = LineAt(text, whole, form, e)
         /\ \A e \in Ends(text, whole, form) : LineAt(text, whole, form, e) \in Texts
<1>1. ASSUME NEW e \in Ends(text, whole, form) PROVE LineAt(text, whole, form, e) \in Texts
  <2>1. e \in 1..Len(text) /\ Opening(text, form) < e
    BY EndsAfterOpening
  <2>2. e \in Nat /\ Len(text) \in Nat
    BY <2>1 DEF Texts
  <2>3. PICK c \in Nat : c = Cut(text, whole, form, e)
    BY <2>1, <2>2, CutType
  <2>4. ASSUME NEW b \in Int, b <= Len(text) PROVE SubSeq(text, c + 1, b) \in Texts
    <3>1. c + 1 \in Nat /\ c + 1 >= 1
      OBVIOUS
    <3> QED BY <2>4, <3>1, PieceType
  <2>5. SubSeq(text, c + 1, e - 1) \in Texts /\ SubSeq(text, c + 1, e - 2) \in Texts
    BY <2>1, <2>2, <2>4
  <2> QED BY <2>3, <2>5 DEF LineAt
<1> QED BY <1>1 DEF Lines

\* The next line after a mark.
LEMMA LinesNext ==
  ASSUME NEW text \in Texts, NEW whole, NEW form, NEW n, NEW e \in Ends(text, whole, form),
         IsMark(text, whole, form, n), n < e,
         \A i \in Ends(text, whole, form) : n < i => e <= i,
         NEW lines, lines = Lines(text, whole, form)
  PROVE  /\ e - 1 \in Nat /\ DOMAIN Upto(lines, n) \subseteq 1..e - 1
         /\ DOMAIN Upto(lines, e) = DOMAIN Upto(lines, n) \cup {e}
         /\ \A p \in DOMAIN Upto(lines, n) : Upto(lines, e)[p] = Upto(lines, n)[p]
         /\ Upto(lines, e)[e] = lines[e]
         /\ lines[e] = LineAt(text, whole, form, e)
<1>1. /\ DOMAIN lines = Ends(text, whole, form)
      /\ \A p \in Ends(text, whole, form) : lines[p] = LineAt(text, whole, form, p)
  BY LinesType
<1>2. Ends(text, whole, form) \subseteq 1..Len(text) /\ Len(text) \in Nat
  BY DEF Ends, Texts
<1>3. n \in Nat
  BY <1>2, MarkIs
<1>4. \A m : /\ DOMAIN Upto(lines, m) = {p \in Ends(text, whole, form) : p <= m}
             /\ \A p \in DOMAIN Upto(lines, m) : Upto(lines, m)[p] = lines[p]
  BY <1>1 DEF Upto
<1>5. e \in Nat /\ e >= 1
  BY <1>2
<1>6. \A p \in Ends(text, whole, form) : p <= e <=> p <= n \/ p = e
  BY <1>2, <1>3
<1>7. DOMAIN Upto(lines, e) = DOMAIN Upto(lines, n) \cup {e}
  BY <1>4, <1>6
<1>8. DOMAIN Upto(lines, n) \subseteq 1..e - 1
  <2> SUFFICES ASSUME NEW p \in DOMAIN Upto(lines, n) PROVE p \in 1..e - 1
    OBVIOUS
  <2>0. p \in Ends(text, whole, form) /\ p <= n
    BY <1>4
  <2>1. p \in Nat /\ p >= 1 /\ p <= n
    BY <1>2, <2>0
  <2> QED BY <1>3, <1>5, <2>1
<1> QED BY <1>1, <1>4, <1>5, <1>7, <1>8

-----------------------------------------------------------------------------
\* The buffer is the piece of the text received that begins after position n.
Placed(n) ==
  /\ n + Len(buffer) <= Len(received)
  /\ \A i \in 1..Len(buffer) : received[n + i] = buffer[i]
  /\ held = <<>> => n + Len(buffer) = Len(received)

IsCRLF == buffer[LineEnd] = "CR" /\ LineEnd < Len(buffer) /\ buffer[LineEnd + 1] = "LF"

\* The line that ends first and its end, one symbol or two, take this much.
Takes == LineEnd + (IF IsCRLF THEN 1 ELSE 0)

\* LineEnd: the first line end of the buffer, if it is certain.
LEMMA LineEndIs ==
  ASSUME buffer \in Texts, format \in Forms, LineEnd # 0
  PROVE  /\ LineEnd \in 1..Len(buffer)
         /\ \A i \in 1..LineEnd - 1 : buffer[i] # "LF"
         /\ format = "sse" => \A i \in 1..LineEnd - 1 : buffer[i] # "CR"
         /\ \/ buffer[LineEnd] = "LF"
            \/ format = "sse" /\ buffer[LineEnd] = "CR" /\ (LineEnd # Len(buffer) \/ AtEnd)
<1>1. \/ Find("CR") = 0 /\ \A i \in 1..Len(buffer) : buffer[i] # "CR"
      \/ /\ Find("CR") \in 1..Len(buffer) /\ buffer[Find("CR")] = "CR"
         /\ \A i \in 1..Find("CR") - 1 : buffer[i] # "CR"
  BY FindIs
<1>2. \/ Find("LF") = 0 /\ \A i \in 1..Len(buffer) : buffer[i] # "LF"
      \/ /\ Find("LF") \in 1..Len(buffer) /\ buffer[Find("LF")] = "LF"
         /\ \A i \in 1..Find("LF") - 1 : buffer[i] # "LF"
  BY FindIs
<1>3. Len(buffer) \in Nat
  BY DEF Texts
<1>4. CASE format = "sse" /\ EndsWithCR
  <2>1. LineEnd = Find("CR")
    BY <1>4 DEF LineEnd, WaitsForLF
  <2>2. Find("CR") # 0 /\ (Find("LF") = 0 \/ Find("CR") < Find("LF")) /\ (Find("CR") # Len(buffer) \/ AtEnd)
    BY <1>4 DEF EndsWithCR
  <2> QED BY <1>1, <1>2, <1>3, <1>4, <2>1, <2>2
<1>5. CASE format = "sse" /\ ~EndsWithCR
  <2>1. LineEnd = Find("LF") /\ ~WaitsForLF
    BY <1>5 DEF LineEnd
  <2>2. ~ (Find("CR") # 0 /\ (Find("LF") = 0 \/ Find("CR") < Find("LF")))
    BY <1>5, <2>1 DEF WaitsForLF
  <2> QED BY <1>1, <1>2, <1>3, <2>1, <2>2
<1>6. CASE format # "sse"
  <2>1. LineEnd = Find("LF")
    BY <1>6 DEF LineEnd
  <2> QED BY <1>2, <1>3, <1>6, <2>1
<1> QED BY <1>4, <1>5, <1>6

\* When no more text is to come, a buffer without LineEnd has no line end.
LEMMA NoLineEnds ==
  ASSUME buffer \in Texts, format \in Forms, LineEnd = 0, AtEnd
  PROVE  \A i \in 1..Len(buffer) : buffer[i] # "LF" /\ (format = "sse" => buffer[i] # "CR")
<1>1. \/ Find("CR") = 0 /\ \A i \in 1..Len(buffer) : buffer[i] # "CR"
      \/ /\ Find("CR") \in 1..Len(buffer) /\ buffer[Find("CR")] = "CR"
         /\ \A i \in 1..Find("CR") - 1 : buffer[i] # "CR"
  BY FindIs
<1>2. \/ Find("LF") = 0 /\ \A i \in 1..Len(buffer) : buffer[i] # "LF"
      \/ /\ Find("LF") \in 1..Len(buffer) /\ buffer[Find("LF")] = "LF"
         /\ \A i \in 1..Find("LF") - 1 : buffer[i] # "LF"
  BY FindIs
<1>3. Len(buffer) \in Nat
  BY DEF Texts
<1>4. CASE format = "sse"
  <2>1. ~EndsWithCR
    <3> SUFFICES ASSUME EndsWithCR PROVE FALSE
      OBVIOUS
    <3>1. LineEnd = Find("CR")
      BY <1>4 DEF LineEnd, WaitsForLF
    <3> QED BY <3>1 DEF EndsWithCR
  <2>2. ~WaitsForLF
    BY <2>1 DEF WaitsForLF, EndsWithCR
  <2>3. Find("LF") = 0
    BY <1>4, <2>1, <2>2 DEF LineEnd
  <2>4. Find("CR") = 0
    BY <2>1, <2>2, <2>3 DEF WaitsForLF
  <2> QED BY <1>1, <1>2, <1>3, <2>3, <2>4
<1>5. CASE format # "sse"
  <2>1. Find("LF") = 0
    BY <1>5 DEF LineEnd
  <2> QED BY <1>2, <1>3, <1>5, <2>1
<1> QED BY <1>4, <1>5

\* The line the reader takes next is the next line of the text received.
LEMMA TakesNext ==
  ASSUME buffer \in Texts, received \in Texts, format \in Forms, LineEnd # 0,
         NEW n, IsMark(received, ended, format, n), Placed(n), NEW e, e = n + Takes
  PROVE  /\ Takes \in 1..Len(buffer) /\ n \in Nat
         /\ AfterLine = SubSeq(buffer, Takes + 1, Len(buffer))
         /\ e \in Ends(received, ended, format) /\ n < e
         /\ \A i \in Ends(received, ended, format) : n < i => e <= i
         /\ LineAt(received, ended, format, e) = Line
<1> DEFINE k == LineEnd
<1>1. /\ k \in 1..Len(buffer)
      /\ \A i \in 1..k - 1 : buffer[i] # "LF"
      /\ format = "sse" => \A i \in 1..k - 1 : buffer[i] # "CR"
      /\ \/ buffer[k] = "LF"
         \/ format = "sse" /\ buffer[k] = "CR" /\ (k # Len(buffer) \/ AtEnd)
  BY LineEndIs
<1>2. Len(buffer) \in Nat /\ Len(received) \in Nat
  BY DEF Texts
<1>3. n \in Nat
  BY <1>2, MarkIs
<1>4. /\ n + Len(buffer) <= Len(received)
      /\ \A i \in 1..Len(buffer) : received[n + i] = buffer[i]
      /\ held = <<>> => n + Len(buffer) = Len(received)
  BY DEF Placed
<1>5. /\ IsCRLF <=> (buffer[k] = "CR" /\ k < Len(buffer) /\ buffer[k + 1] = "LF")
      /\ Takes = k + (IF IsCRLF THEN 1 ELSE 0)
      /\ IsCRLF \in BOOLEAN
  BY DEF IsCRLF, Takes
<1>6. AfterLine = SubSeq(buffer, k + (IF IsCRLF THEN 2 ELSE 1), Len(buffer))
  BY DEF AfterLine, IsCRLF
<1>7. Line = SubSeq(buffer, 1, k - 1)
  BY DEF Line
<1> HIDE DEF k
<1>8. Takes \in 1..Len(buffer) /\ Takes + 1 = k + (IF IsCRLF THEN 2 ELSE 1)
  BY <1>1, <1>2, <1>5
<1>9. e \in 1..Len(received) /\ n < e
  BY <1>2, <1>3, <1>4, <1>8
<1>10. ASSUME NEW i \in 1..Len(received), n < i, i < e, IsEnd(received, ended, format, i)
       PROVE  FALSE
  <2>1. PICK j \in 1..Len(buffer) : i = n + j
    BY <1>2, <1>3, <1>8, <1>10
  <2>2. received[i] = buffer[j]
    BY <1>4, <2>1
  <2>3. j < Takes
    BY <1>3, <1>8, <1>10, <2>1
  <2>4. CASE j < k
    BY <1>1, <1>10, <2>1, <2>2, <2>4 DEF IsEnd, Forms
  <2>5. CASE j = k
    <3>1. IsCRLF
      BY <1>5, <2>3, <2>5
    <3>2. buffer[j] = "CR" /\ j + 1 \in 1..Len(buffer) /\ buffer[j + 1] = "LF"
      BY <1>1, <1>2, <1>5, <2>5, <3>1
    <3>3. received[i + 1] = "LF" /\ i # Len(received)
      <4>1. n + (j + 1) = i + 1 /\ i < n + Len(buffer)
        BY <1>2, <1>3, <2>1, <3>2
      <4> QED BY <1>2, <1>3, <1>4, <2>1, <3>2, <4>1
    <3> QED BY <1>10, <2>2, <3>2, <3>3 DEF IsEnd
  <2> QED BY <1>1, <1>2, <1>5, <2>3, <2>4, <2>5
<1>11. IsEnd(received, ended, format, e)
  <2>1. CASE IsCRLF
    <3>1. received[e] = buffer[k + 1] /\ buffer[k + 1] = "LF"
      BY <1>1, <1>2, <1>3, <1>4, <1>5, <2>1
    <3> QED BY <3>1 DEF IsEnd
  <2>2. CASE ~IsCRLF
    <3>1. e = n + k /\ received[e] = buffer[k]
      BY <1>1, <1>2, <1>3, <1>4, <1>5, <2>2
    <3>2. CASE buffer[k] = "LF"
      BY <3>1, <3>2 DEF IsEnd
    <3>3. CASE buffer[k] # "LF" /\ k # Len(buffer)
      <4>1. k + 1 \in 1..Len(buffer) /\ k < Len(buffer)
        BY <1>1, <1>2, <3>3
      <4>2. buffer[k + 1] # "LF"
        BY <1>1, <1>5, <2>2, <3>3, <4>1
      <4>3. n + (k + 1) = e + 1 /\ e # Len(received)
        <5>1. PICK m \in Nat, b \in Nat, l \in Nat : m = k /\ b = Len(buffer) /\ l = Len(received)
          BY <1>1, <1>2
        <5>2. e = n + m /\ m < b /\ n + b <= l
          BY <1>4, <3>1, <4>1, <5>1
        <5>3. n + (m + 1) = e + 1 /\ e # l
          BY <1>3, <5>2
        <5> QED BY <5>1, <5>3
      <4>4. received[e + 1] # "LF"
        BY <1>4, <4>1, <4>2, <4>3
      <4> QED BY <1>1, <3>1, <3>3, <4>3, <4>4 DEF IsEnd
    <3>4. CASE buffer[k] # "LF" /\ k = Len(buffer)
      <4>1. ended /\ held = <<>>
        BY <1>1, <3>4 DEF AtEnd
      <4>2. e = Len(received)
        BY <1>4, <3>1, <3>4, <4>1
      <4> QED BY <1>1, <3>1, <3>4, <4>1, <4>2 DEF IsEnd
    <3> QED BY <3>2, <3>3, <3>4
  <2> QED BY <2>1, <2>2
<1>12. e \in Ends(received, ended, format)
  BY <1>9, <1>11 DEF Ends
<1>13. \A i \in Ends(received, ended, format) : n < i => e <= i
  <2> TAKE i \in Ends(received, ended, format)
  <2>1. i \in 1..Len(received) /\ IsEnd(received, ended, format, i)
    BY DEF Ends
  <2>2. ~ (n < i /\ i < e)
    BY <1>10, <2>1
  <2> QED BY <1>2, <1>3, <1>9, <2>1, <2>2
<1>14. Cut(received, ended, format, e) = n
  <2>1. e \in Nat
    BY <1>2, <1>9
  <2> QED BY <1>9, <1>13, <2>1, CutIs
<1>15. (format = "sse" /\ e > 1 /\ received[e] = "LF" /\ received[e - 1] = "CR") <=> IsCRLF
  <2>1. CASE IsCRLF
    <3>1. format = "sse"
      BY <1>1, <1>5, <2>1
    <3>2. received[n + (k + 1)] = buffer[k + 1] /\ received[n + k] = buffer[k]
      BY <1>1, <1>2, <1>4, <1>5, <2>1
    <3>3. e = n + (k + 1) /\ e - 1 = n + k /\ e > 1
      BY <1>1, <1>2, <1>3, <1>5, <2>1
    <3> QED BY <1>5, <2>1, <3>1, <3>2, <3>3
  <2>2. CASE ~IsCRLF
    <3> SUFFICES ASSUME format = "sse", e > 1, received[e] = "LF", received[e - 1] = "CR"
                 PROVE  FALSE
      BY <2>2
    <3>1. e = n + k /\ received[e] = buffer[k]
      BY <1>1, <1>2, <1>3, <1>4, <1>5, <2>2
    <3>2. CASE k > 1
      <4>1. k - 1 \in 1..Len(buffer) /\ n + (k - 1) = e - 1 /\ k - 1 \in 1..k - 1
        BY <1>1, <1>2, <1>3, <3>1, <3>2
      <4>2. received[e - 1] = buffer[k - 1]
        BY <1>4, <4>1
      <4> QED BY <1>1, <4>1, <4>2
    <3>3. CASE k = 1
      <4>1. e - 1 = n /\ n + 1 = e /\ n # Len(received)
        BY <1>2, <1>3, <1>9, <3>1, <3>3
      <4>2. CASE n = Opening(received, format)
        <5>1. n = 1
          BY <1>3, <1>9, <4>1, <4>2, OpeningIs
        <5> QED BY <4>1, <4>2, <5>1, OpeningIs
      <4>3. CASE n \in Ends(received, ended, format)
        BY <4>1, <4>3 DEF Ends, IsEnd
      <4> QED BY <4>2, <4>3 DEF IsMark
    <3> QED BY <1>1, <1>2, <3>2, <3>3
  <2> QED BY <2>1, <2>2
<1>16. LineAt(received, ended, format, e) = SubSeq(received, n + 1, n + (k - 1))
  <2>1. IF IsCRLF THEN e - 2 = n + (k - 1) ELSE e - 1 = n + (k - 1)
    BY <1>1, <1>2, <1>3, <1>5
  <2>2. LineAt(received, ended, format, e) = SubSeq(received, n + 1, IF IsCRLF THEN e - 2 ELSE e - 1)
    BY <1>14, <1>15 DEF LineAt
  <2> QED BY <1>5, <2>1, <2>2
<1>17. SubSeq(received, n + 1, n + (k - 1)) = SubSeq(buffer, 1, k - 1)
  <2> DEFINE s == SubSeq(received, n + 1, n + (k - 1))
             t == SubSeq(buffer, 1, k - 1)
  <2>0. /\ n + 1 \in Nat
        /\ n + (k - 1) \in Int
        /\ k - 1 \in Int
        /\ n + (k - 1) <= Len(received)
        /\ k - 1 <= Len(buffer)
    BY <1>1, <1>2, <1>3, <1>4
  <2>1. /\ s \in Texts
        /\ Len(s) = IF n + 1 <= n + (k - 1) THEN (n + (k - 1)) - (n + 1) + 1 ELSE 0
        /\ \A i \in 1..(n + (k - 1)) - (n + 1) + 1 : s[i] = received[(n + 1) + i - 1]
    <3>1. PICK a \in Nat, b \in Int : a = n + 1 /\ b = n + (k - 1)
      BY <2>0
    <3>2. a >= 1 /\ b <= Len(received)
      BY <1>3, <2>0, <3>1
    <3>3. /\ SubSeq(received, a, b) \in Texts
          /\ Len(SubSeq(received, a, b)) = IF a <= b THEN b - a + 1 ELSE 0
          /\ \A i \in 1..b - a + 1 : SubSeq(received, a, b)[i] = received[a + i - 1]
      BY <3>2, PieceType
    <3> QED BY <3>1, <3>3
  <2>2. /\ t \in Texts
        /\ Len(t) = IF 1 <= k - 1 THEN (k - 1) - 1 + 1 ELSE 0
        /\ \A i \in 1..(k - 1) - 1 + 1 : t[i] = buffer[1 + i - 1]
    BY <2>0, PieceType
  <2> HIDE DEF s, t
  <2>3. Len(s) = Len(t) /\ Len(s) = k - 1
    BY <1>1, <1>2, <1>3, <2>1, <2>2
  <2>4. ASSUME NEW i \in 1..Len(s) PROVE s[i] = t[i]
    <3>1. i \in 1..Len(buffer) /\ (n + 1) + i - 1 = n + i /\ 1 + i - 1 = i
      BY <1>1, <1>2, <1>3, <2>3
    <3>2. s[i] = received[n + i] /\ t[i] = buffer[i]
      BY <1>1, <1>2, <1>3, <2>1, <2>2, <2>3, <3>1
    <3> QED BY <1>4, <3>1, <3>2
  <2>5. s = t
    BY <2>1, <2>2, <2>3, <2>4, SeqEqual DEF Texts
  <2> QED BY <2>5 DEF s, t
<1> QED BY <1>3, <1>6, <1>7, <1>8, <1>9, <1>12, <1>13, <1>16, <1>17

\* One more line, which ends at position e.
Adds(lines, more, e, line) ==
  /\ lines = [p \in DOMAIN lines |-> lines[p]]
  /\ e \in Nat /\ e - 1 \in Nat /\ DOMAIN lines \subseteq 1..e - 1
  /\ DOMAIN more = DOMAIN lines \cup {e}
  /\ \A p \in DOMAIN lines : more[p] = lines[p]
  /\ more[e] = line

\* The line added is the last.
LEMMA AddsLater ==
  ASSUME NEW lines, NEW more, NEW e, NEW line, Adds(lines, more, e, line)
  PROVE  \A p \in DOMAIN lines : p \in Nat /\ p <= e /\ ~ e <= p /\ p <= e - 1
BY DEF Adds

\* A blank line ends the frame, any other joins it.
LEMMA FrameOfMore ==
  ASSUME NEW lines, NEW more, NEW e, NEW line, Adds(lines, more, e, line)
  PROVE  Frame(more) = IF line = <<>> THEN {} ELSE Frame(lines) \cup {e}
<1>1. /\ DOMAIN more = DOMAIN lines \cup {e} /\ more[e] = line
      /\ \A p \in DOMAIN lines : more[p] = lines[p]
      /\ e <= e
  BY DEF Adds
<1>2. \A p \in DOMAIN lines : p <= e /\ ~ e <= p
  BY AddsLater
<1>3. CASE line = <<>>
  BY <1>1, <1>2, <1>3 DEF Frame
<1>4. CASE line # <<>>
  <2>1. e \in Frame(more)
    BY <1>1, <1>2, <1>4 DEF Frame
  <2>2. \A p \in DOMAIN lines : p \in Frame(more) <=> p \in Frame(lines)
    BY <1>1, <1>4 DEF Frame
  <2>3. Frame(more) \subseteq DOMAIN more /\ Frame(lines) \subseteq DOMAIN lines
    BY DEF Frame
  <2> QED BY <1>1, <1>4, <2>1, <2>2, <2>3
<1> QED BY <1>3, <1>4

\* The lines of a field, with one more line.
LEMMA HavingOfMore ==
  ASSUME NEW lines, NEW more, NEW e, NEW line, Adds(lines, more, e, line), NEW field
  PROVE  Having(more, field) = Having(lines, field) \cup (IF StartsWith(line, field) THEN {e} ELSE {})
<1>1. /\ DOMAIN more = DOMAIN lines \cup {e} /\ more[e] = line
      /\ \A p \in DOMAIN lines : more[p] = lines[p]
  BY DEF Adds
<1>2. \A p \in DOMAIN lines : StartsWith(more[p], field) <=> StartsWith(lines[p], field)
  BY <1>1
<1> QED BY <1>1, <1>2 DEF Having

\* The frame's lines of a field, after one more line.
LEMMA FieldOfMore ==
  ASSUME NEW lines, NEW more, NEW e, NEW line, Adds(lines, more, e, line), NEW field
  PROVE  Frame(more) \cap Having(more, field)
         = IF line = <<>> THEN {}
           ELSE (Frame(lines) \cap Having(lines, field)) \cup (IF StartsWith(line, field) THEN {e} ELSE {})
<1>1. e \notin DOMAIN lines
  BY AddsLater DEF Adds
<1>2. Frame(lines) \subseteq DOMAIN lines /\ Having(lines, field) \subseteq DOMAIN lines
  BY DEF Frame, Having
<1> QED BY <1>1, <1>2, FrameOfMore, HavingOfMore

\* handle_line: a blank line drops the data, a data line adds to it.
LEMMA DataOfMore ==
  ASSUME NEW lines, NEW more, NEW e, NEW line, Adds(lines, more, e, line)
  PROVE  /\ line = <<>> => Data(more) = <<>>
         /\ StartsWith(line, "data:") => Data(more) = Append(Data(lines), Valued(line))
         /\ line # <<>> /\ ~StartsWith(line, "data:") => Data(more) = Data(lines)
<1> DEFINE S == Frame(lines) \cap Having(lines, "data:")
           T == Frame(more) \cap Having(more, "data:")
           at == [p \in S |-> Valued(lines[p])]
           now == [p \in T |-> Valued(more[p])]
<1>1. Data(lines) = ValuesInOrder(at) /\ Data(more) = ValuesInOrder(now)
  BY DEF Data
<1>2. T = IF line = <<>> THEN {} ELSE S \cup (IF StartsWith(line, "data:") THEN {e} ELSE {})
  BY FieldOfMore
<1>3. S \subseteq DOMAIN lines /\ DOMAIN lines \subseteq 1..e - 1 /\ e - 1 \in Nat /\ (e - 1) + 1 = e
      /\ more[e] = line /\ \A p \in DOMAIN lines : more[p] = lines[p]
  BY DEF Frame, Adds
<1>4. /\ DOMAIN at = S /\ DOMAIN now = T
      /\ \A p \in S : at[p] = Valued(lines[p])
      /\ \A p \in T : now[p] = Valued(more[p])
  OBVIOUS
<1>5. \A p \in S : Valued(more[p]) = Valued(lines[p])
  BY <1>3
<1>6. CASE line = <<>>
  BY <1>1, <1>2, <1>4, <1>6, ValuesInOrderOfNone DEF StartsWith
<1>7. CASE StartsWith(line, "data:")
  <2>1. T = S \cup {e}
    BY <1>2, <1>7 DEF StartsWith
  <2>2. (\A p \in S : now[p] = at[p]) /\ now[e] = Valued(line)
    BY <1>3, <1>4, <1>5, <2>1
  <2>3. /\ DOMAIN at \subseteq 1..e - 1
        /\ DOMAIN now = DOMAIN at \cup {(e - 1) + 1}
        /\ \A p \in DOMAIN at : now[p] = at[p]
    BY <1>3, <1>4, <2>1, <2>2
  <2> HIDE DEF S, T, at, now
  <2>4. ValuesInOrder(now) = Append(ValuesInOrder(at), now[(e - 1) + 1])
    BY <1>3, <2>3, ValuesInOrderOfMore
  <2> QED BY <1>1, <1>3, <1>7, <2>2, <2>4 DEF StartsWith
<1>8. CASE line # <<>> /\ ~StartsWith(line, "data:")
  <2>1. T = S
    BY <1>2, <1>8
  <2>2. now = at
    BY <1>5, <2>1
  <2> QED BY <1>1, <1>8, <2>2
<1> QED BY <1>6, <1>7, <1>8

\* The last line of a field, after one more line.
LEMMA LatestWith ==
  ASSUME NEW e \in Nat, NEW positions, e - 1 \in Nat, positions \subseteq 1..e - 1
  PROVE  Latest(positions \cup {e}) = {e}
<1>1. (e - 1) + 1 = e
  OBVIOUS
<1> QED BY <1>1, LatestOfMore

\* A blank line drops the name, an event line sets it.
LEMMA NameOfMore ==
  ASSUME NEW lines, NEW more, NEW e, NEW line, Adds(lines, more, e, line)
  PROVE  /\ line = <<>> => Name(more) = {}
         /\ StartsWith(line, "event:") => Name(more) = {Valued(line)} \ {<<>>}
         /\ line # <<>> /\ ~StartsWith(line, "event:") => Name(more) = Name(lines)
<1> DEFINE S == Frame(lines) \cap Having(lines, "event:")
           T == Frame(more) \cap Having(more, "event:")
<1>1. T = IF line = <<>> THEN {} ELSE S \cup (IF StartsWith(line, "event:") THEN {e} ELSE {})
  BY FieldOfMore
<1>2. S \subseteq DOMAIN lines /\ S \subseteq 1..e - 1 /\ e \in Nat /\ e - 1 \in Nat
      /\ more[e] = line /\ \A p \in DOMAIN lines : more[p] = lines[p]
  BY DEF Frame, Adds
<1>3. /\ Name(lines) = {Valued(lines[p]) : p \in Latest(S)} \ {<<>>}
      /\ Name(more) = {Valued(more[p]) : p \in Latest(T)} \ {<<>>}
  BY DEF Name
<1> HIDE DEF S, T
<1>4. CASE line = <<>>
  <2>1. Latest(T) = {}
    BY <1>1, <1>4 DEF Latest
  <2> QED BY <1>3, <1>4, <2>1 DEF StartsWith
<1>5. CASE StartsWith(line, "event:")
  <2>1. T = S \cup {e}
    BY <1>1, <1>5 DEF StartsWith
  <2>2. Latest(T) = {e}
    BY <1>2, <2>1, LatestWith
  <2>3. {Valued(more[p]) : p \in Latest(T)} = {Valued(line)}
    BY <1>2, <2>2
  <2> QED BY <1>3, <1>5, <2>3 DEF StartsWith
<1>6. CASE line # <<>> /\ ~StartsWith(line, "event:")
  <2>1. T = S
    BY <1>1, <1>6
  <2>2. \A p \in Latest(S) : more[p] = lines[p]
    BY <1>2 DEF Latest
  <2>3. {Valued(more[p]) : p \in Latest(S)} = {Valued(lines[p]) : p \in Latest(S)}
    BY <2>2
  <2> QED BY <1>3, <1>6, <2>1, <2>3
<1> QED BY <1>4, <1>5, <1>6

\* An id line without NUL sets the id, and nothing drops it.
LEMMA IdOfMore ==
  ASSUME NEW lines, NEW more, NEW e, NEW line, Adds(lines, more, e, line)
  PROVE  Id(more) = IF StartsWith(line, "id:") /\ "NUL" \notin ToSet(line) THEN {Valued(line)} ELSE Id(lines)
<1> DEFINE S == {q \in Having(lines, "id:") : "NUL" \notin ToSet(lines[q])}
           T == {q \in Having(more, "id:") : "NUL" \notin ToSet(more[q])}
           sets == StartsWith(line, "id:") /\ "NUL" \notin ToSet(line)
<1>1. S \subseteq DOMAIN lines /\ S \subseteq 1..e - 1 /\ e \in Nat /\ e - 1 \in Nat
      /\ more[e] = line /\ \A p \in DOMAIN lines : more[p] = lines[p]
  BY DEF Having, Adds
<1>2. T = S \cup (IF sets THEN {e} ELSE {})
  <2>1. Having(more, "id:") = Having(lines, "id:") \cup (IF StartsWith(line, "id:") THEN {e} ELSE {})
    BY HavingOfMore
  <2>2. \A q \in Having(lines, "id:") : more[q] = lines[q]
    BY <1>1 DEF Having
  <2> QED BY <1>1, <2>1, <2>2
<1>3. /\ Id(lines) = {Valued(lines[p]) : p \in Latest(S)}
      /\ Id(more) = {Valued(more[p]) : p \in Latest(T)}
  BY DEF Id
<1> HIDE DEF S, T
<1>4. CASE sets
  <2>1. Latest(T) = {e}
    BY <1>1, <1>2, <1>4, LatestWith
  <2>2. {Valued(more[p]) : p \in Latest(T)} = {Valued(line)}
    BY <1>1, <2>1
  <2> QED BY <1>3, <1>4, <2>2
<1>5. CASE ~sets
  <2>1. T = S
    BY <1>2, <1>5
  <2>2. \A p \in Latest(S) : more[p] = lines[p]
    BY <1>1 DEF Latest
  <2>3. {Valued(more[p]) : p \in Latest(S)} = {Valued(lines[p]) : p \in Latest(S)}
    BY <2>2
  <2> QED BY <1>3, <1>5, <2>1, <2>3
<1> QED BY <1>4, <1>5

\* What was read before a line, after one more line.
LEMMA UptoOfMore ==
  ASSUME NEW lines, NEW more, NEW e, NEW line, Adds(lines, more, e, line)
  PROVE  /\ \A p \in DOMAIN lines : Upto(more, p - 1) = Upto(lines, p - 1)
         /\ Upto(more, e - 1) = lines
<1>1. /\ DOMAIN more = DOMAIN lines \cup {e} /\ \A p \in DOMAIN lines : more[p] = lines[p]
      /\ lines = [p \in DOMAIN lines |-> lines[p]] /\ e \in Nat
  BY DEF Adds
<1>2. \A p \in DOMAIN lines : p \in Nat /\ p <= e /\ ~ e <= p /\ p <= e - 1
  BY AddsLater
<1>3. ASSUME NEW p \in DOMAIN lines PROVE Upto(more, p - 1) = Upto(lines, p - 1)
  <2>1. ~ e <= p - 1
    BY <1>1, <1>2
  <2>2. {q \in DOMAIN more : q <= p - 1} = {q \in DOMAIN lines : q <= p - 1}
    BY <1>1, <2>1
  <2> QED BY <1>1, <2>2 DEF Upto
<1>4. Upto(more, e - 1) = lines
  <2>1. ~ e <= e - 1
    BY <1>1
  <2>2. {q \in DOMAIN more : q <= e - 1} = DOMAIN lines
    BY <1>1, <1>2, <2>1
  <2>3. [q \in {q \in DOMAIN more : q <= e - 1} |-> more[q]] = [q \in DOMAIN lines |-> lines[q]]
    BY <1>1, <2>2
  <2> QED BY <1>1, <2>3 DEF Upto
<1> QED BY <1>3, <1>4

\* One more line adds the item it completes, if any, to the items.
LEMMA ItemsOfMore ==
  ASSUME NEW form, NEW lines, NEW more, NEW e, NEW line, Adds(lines, more, e, line)
  PROVE  ValuesInOrder(ItemsOf(form, more))
         = IF Item(form, lines, line) = {} THEN ValuesInOrder(ItemsOf(form, lines))
           ELSE Append(ValuesInOrder(ItemsOf(form, lines)), The(Item(form, lines, line)))
<1> DEFINE I(p) == Item(form, Upto(lines, p - 1), lines[p])
           J(p) == Item(form, Upto(more, p - 1), more[p])
           S == {p \in DOMAIN lines : I(p) # {}}
           T == {p \in DOMAIN more : J(p) # {}}
<1>1. /\ DOMAIN more = DOMAIN lines \cup {e} /\ more[e] = line
      /\ \A p \in DOMAIN lines : more[p] = lines[p]
      /\ DOMAIN lines \subseteq 1..e - 1 /\ e - 1 \in Nat /\ (e - 1) + 1 = e
  BY DEF Adds
<1>2. (\A p \in DOMAIN lines : J(p) = I(p)) /\ J(e) = Item(form, lines, line)
  BY <1>1, UptoOfMore
<1>3. ItemsOf(form, lines) = [p \in S |-> The(I(p))] /\ ItemsOf(form, more) = [p \in T |-> The(J(p))]
  BY DEF ItemsOf
<1> HIDE DEF I, J
<1>4. T = S \cup (IF J(e) # {} THEN {e} ELSE {}) /\ S \subseteq DOMAIN lines
  BY <1>1, <1>2
<1> DEFINE at == [p \in S |-> The(I(p))]
           now == [p \in T |-> The(J(p))]
<1>5. DOMAIN at = S /\ DOMAIN now = T /\ (\A p \in S : at[p] = The(I(p))) /\ (\A p \in T : now[p] = The(J(p)))
  OBVIOUS
<1>6. CASE J(e) # {}
  <2>1. T = S \cup {e}
    BY <1>4, <1>6
  <2>2. (\A p \in S : now[p] = at[p]) /\ now[e] = The(J(e))
    BY <1>2, <1>4, <1>5, <2>1
  <2>3. /\ DOMAIN at \subseteq 1..e - 1
        /\ DOMAIN now = DOMAIN at \cup {(e - 1) + 1}
        /\ \A p \in DOMAIN at : now[p] = at[p]
    BY <1>1, <1>4, <1>5, <2>1, <2>2
  <2> HIDE DEF S, T, at, now
  <2>4. ValuesInOrder(now) = Append(ValuesInOrder(at), now[(e - 1) + 1])
    BY <1>1, <2>3, ValuesInOrderOfMore
  <2> QED BY <1>1, <1>2, <1>3, <1>6, <2>2, <2>4 DEF at, now
<1>7. CASE J(e) = {}
  <2>1. T = S
    BY <1>4, <1>7
  <2>2. now = at
    BY <1>2, <1>4, <2>1
  <2> QED BY <1>2, <1>3, <1>7, <2>2
<1> QED BY <1>6, <1>7

\* What was read up to a position gives the first of the items.
LEMMA ItemsBegin ==
  ASSUME NEW m \in Nat, NEW n \in Nat, NEW form, NEW lines, DOMAIN lines \subseteq 1..m,
         NEW now, now = ValuesInOrder(ItemsOf(form, Upto(lines, n))),
         NEW all, all = ValuesInOrder(ItemsOf(form, lines))
  PROVE  /\ Len(now) \in Nat /\ Len(all) \in Nat /\ Len(now) <= Len(all)
         /\ Agree(all, now, Len(now))
<1> DEFINE some == Upto(lines, n)
           at == ItemsOf(form, some)
           more == ItemsOf(form, lines)
<1>1. DOMAIN some = {p \in DOMAIN lines : p <= n} /\ \A p \in DOMAIN some : some[p] = lines[p]
  BY DEF Upto
<1>2. ASSUME NEW p \in DOMAIN lines, p <= n PROVE Upto(some, p - 1) = Upto(lines, p - 1)
  <2>1. p \in Nat
    OBVIOUS
  <2>2. \A q \in DOMAIN lines : q <= p - 1 => q \in DOMAIN some
    <3> SUFFICES ASSUME NEW q \in DOMAIN lines, q <= p - 1 PROVE q \in DOMAIN some
      OBVIOUS
    <3>1. q \in Nat
      OBVIOUS
    <3>2. q <= n
      BY <1>2, <2>1, <3>1
    <3> QED BY <1>1, <3>2
  <2>3. DOMAIN some \subseteq DOMAIN lines
    BY <1>1
  <2> HIDE DEF some
  <2>4. {q \in DOMAIN some : q <= p - 1} = {q \in DOMAIN lines : q <= p - 1}
    BY <2>2, <2>3
  <2>5. \A q \in {q \in DOMAIN lines : q <= p - 1} : some[q] = lines[q]
    BY <1>1, <2>2
  <2> QED BY <2>4, <2>5 DEF Upto
<1> HIDE DEF some
<1>3. /\ DOMAIN at = {p \in DOMAIN some : Item(form, Upto(some, p - 1), some[p]) # {}}
      /\ DOMAIN more = {p \in DOMAIN lines : Item(form, Upto(lines, p - 1), lines[p]) # {}}
      /\ \A p \in DOMAIN at : at[p] = The(Item(form, Upto(some, p - 1), some[p]))
      /\ \A p \in DOMAIN more : more[p] = The(Item(form, Upto(lines, p - 1), lines[p]))
  BY DEF ItemsOf
<1>4. DOMAIN more \subseteq 1..m
  BY <1>3
<1> HIDE DEF at, more
<1>5. DOMAIN at = {p \in DOMAIN more : p <= n}
  BY <1>1, <1>2, <1>3
<1>6. \A p \in DOMAIN at : more[p] = at[p]
  BY <1>1, <1>2, <1>3, <1>5
<1>7. PICK f : f = at
  OBVIOUS
<1>8. PICK g : g = more
  OBVIOUS
<1>9. DOMAIN g \subseteq 1..m /\ DOMAIN f = {p \in DOMAIN g : p <= n} /\ \A p \in DOMAIN f : g[p] = f[p]
  BY <1>4, <1>5, <1>6, <1>7, <1>8
<1>10. /\ Cardinality(DOMAIN f) \in Nat /\ Cardinality(DOMAIN g) \in Nat
       /\ Cardinality(DOMAIN f) <= Cardinality(DOMAIN g)
       /\ Agree(ValuesInOrder(g), ValuesInOrder(f), Cardinality(DOMAIN f))
  BY <1>9, ValuesInOrderPrefix
<1>11. DOMAIN f \subseteq 1..m
  BY <1>9
<1>12. Len(ValuesInOrder(f)) = Cardinality(DOMAIN f) /\ Len(ValuesInOrder(g)) = Cardinality(DOMAIN g)
  BY <1>9, <1>11, ValuesInOrderLength
<1>13. now = ValuesInOrder(f) /\ all = ValuesInOrder(g)
  BY <1>7, <1>8 DEF at, more, some
<1> QED BY <1>10, <1>12, <1>13

-----------------------------------------------------------------------------
NoLines == [p \in {} |-> <<>>]

\* Nothing is read before the first line.
LEMMA NothingRead ==
  ASSUME NEW text \in Texts, NEW whole, NEW form, NEW n \in Nat, n <= Opening(text, form)
  PROVE  Upto(Lines(text, whole, form), n) = NoLines
<1>1. DOMAIN Lines(text, whole, form) = Ends(text, whole, form)
  BY DEF Lines
<1>2. \A e \in Ends(text, whole, form) : ~ e <= n
  <2> TAKE e \in Ends(text, whole, form)
  <2>1. e \in 1..Len(text) /\ Opening(text, form) < e
    BY EndsAfterOpening
  <2>2. e \in Nat /\ Opening(text, form) \in 0..1
    BY <2>1, OpeningIs
  <2> QED BY <2>1, <2>2
<1>3. {p \in DOMAIN Lines(text, whole, form) : p <= n} = {}
  BY <1>1, <1>2
<1> QED BY <1>3 DEF Upto, NoLines

\* No lines make no frame and no items.
LEMMA NothingOf ==
  /\ Data(NoLines) = <<>> /\ Name(NoLines) = {} /\ Id(NoLines) = {}
  /\ \A form : ValuesInOrder(ItemsOf(form, NoLines)) = <<>>
<1>1. DOMAIN NoLines = {}
  BY DEF NoLines
<1>2. Frame(NoLines) = {} /\ \A field : Having(NoLines, field) = {}
  BY <1>1 DEF Frame, Having
<1>3. Latest({}) = {}
  BY DEF Latest
<1>4. Data(NoLines) = <<>>
  <2> DEFINE at == [p \in Frame(NoLines) \cap Having(NoLines, "data:") |-> Valued(NoLines[p])]
  <2>1. DOMAIN at = {}
    BY <1>2
  <2> HIDE DEF at
  <2>2. ValuesInOrder(at) = <<>>
    BY <2>1, ValuesInOrderOfNone
  <2> QED BY <2>2 DEF Data, at
<1>5. Name(NoLines) = {}
  <2>1. Frame(NoLines) \cap Having(NoLines, "event:") = {}
    BY <1>2
  <2> QED BY <1>3, <2>1 DEF Name
<1>6. Id(NoLines) = {}
  <2>1. {q \in Having(NoLines, "id:") : "NUL" \notin ToSet(NoLines[q])} = {}
    BY <1>2
  <2> QED BY <1>3, <2>1 DEF Id
<1>7. ASSUME NEW form PROVE ValuesInOrder(ItemsOf(form, NoLines)) = <<>>
  <2>1. DOMAIN ItemsOf(form, NoLines) = {}
    BY <1>1 DEF ItemsOf
  <2> QED BY <2>1, ValuesInOrderOfNone
<1> QED BY <1>4, <1>5, <1>6, <1>7

-----------------------------------------------------------------------------
\* A text is what was read of it, n symbols, then the buffer, then what is held.
TextAt(text, buf, rest, n) ==
  /\ n \in Nat /\ n + Len(buf) + Len(rest) = Len(text)
  /\ \A i \in 1..Len(buf) : text[n + i] = buf[i]
  /\ \A i \in 1..Len(rest) : text[n + Len(buf) + i] = rest[i]

\* What arrives with nothing held goes to the buffer.
LEMMA TextArrives ==
  ASSUME NEW text \in Texts, NEW buf \in Texts, NEW n, NEW chunk \in Texts, TextAt(text, buf, <<>>, n)
  PROVE  TextAt(text \o chunk, buf \o chunk, <<>>, n)
<1>1. Len(<<>>) = 0 /\ Len(text) \in Nat /\ Len(buf) \in Nat /\ Len(chunk) \in Nat
  BY DEF Texts
<1>2. n \in Nat /\ n + Len(buf) = Len(text) /\ \A i \in 1..Len(buf) : text[n + i] = buf[i]
  BY <1>1 DEF TextAt
<1>3. PICK t : t = text \o chunk
  OBVIOUS
<1>4. PICK b : b = buf \o chunk
  OBVIOUS
<1>5. /\ Len(t) = Len(text) + Len(chunk)
      /\ \A i \in 1..Len(text) + Len(chunk) : t[i] = IF i <= Len(text) THEN text[i] ELSE chunk[i - Len(text)]
  BY <1>3, ConcatProperties DEF Texts
<1>6. /\ Len(b) = Len(buf) + Len(chunk)
      /\ \A i \in 1..Len(buf) + Len(chunk) : b[i] = IF i <= Len(buf) THEN buf[i] ELSE chunk[i - Len(buf)]
  BY <1>4, ConcatProperties DEF Texts
<1>7. ASSUME NEW i \in 1..Len(b) PROVE t[n + i] = b[i]
  <2>1. n + i \in 1..Len(text) + Len(chunk) /\ i \in 1..Len(buf) + Len(chunk)
    BY <1>1, <1>2, <1>6
  <2>2. CASE i <= Len(buf)
    BY <1>1, <1>2, <1>5, <1>6, <2>1, <2>2
  <2>3. CASE ~ i <= Len(buf)
    <3>1. ~ n + i <= Len(text) /\ (n + i) - Len(text) = i - Len(buf)
      BY <1>1, <1>2, <2>3
    <3> QED BY <1>5, <1>6, <2>1, <2>3, <3>1
  <2> QED BY <2>2, <2>3
<1>8. n + Len(b) + Len(<<>>) = Len(t)
  <2>1. PICK lb, lt, lc \in Nat : lb = Len(buf) /\ lt = Len(text) /\ lc = Len(chunk)
    BY <1>1
  <2>2. n \in Nat /\ n + lb = lt /\ Len(b) = lb + lc /\ Len(t) = lt + lc
    BY <1>2, <1>5, <1>6, <2>1
  <2>3. n + (lb + lc) + 0 = lt + lc
    BY <2>2
  <2> QED BY <1>1, <2>2, <2>3
<1>9. TextAt(t, b, <<>>, n)
  BY <1>1, <1>2, <1>7, <1>8 DEF TextAt
<1> QED BY <1>3, <1>4, <1>9

\* A chunk held is read.
LEMMA TextReplays ==
  ASSUME NEW text \in Texts, NEW buf \in Texts, NEW n, NEW head \in Texts, NEW tail \in Texts,
         TextAt(text, buf, head \o tail, n)
  PROVE  TextAt(text, buf \o head, tail, n)
<1>1. Len(text) \in Nat /\ Len(buf) \in Nat /\ Len(head) \in Nat /\ Len(tail) \in Nat
  BY DEF Texts
<1>2. PICK r : r = head \o tail
  OBVIOUS
<1>3. PICK b : b = buf \o head
  OBVIOUS
<1>4. /\ n \in Nat /\ n + Len(buf) + Len(r) = Len(text)
      /\ \A i \in 1..Len(buf) : text[n + i] = buf[i]
      /\ \A i \in 1..Len(r) : text[n + Len(buf) + i] = r[i]
  BY <1>2 DEF TextAt
<1>5. /\ Len(r) = Len(head) + Len(tail)
      /\ \A i \in 1..Len(head) + Len(tail) : r[i] = IF i <= Len(head) THEN head[i] ELSE tail[i - Len(head)]
  BY <1>2, ConcatProperties DEF Texts
<1>6. /\ Len(b) = Len(buf) + Len(head)
      /\ \A i \in 1..Len(buf) + Len(head) : b[i] = IF i <= Len(buf) THEN buf[i] ELSE head[i - Len(buf)]
  BY <1>3, ConcatProperties DEF Texts
<1>7. ASSUME NEW i \in 1..Len(b) PROVE text[n + i] = b[i]
  <2>1. CASE i <= Len(buf)
    BY <1>1, <1>4, <1>6, <2>1
  <2>2. CASE ~ i <= Len(buf)
    <3>1. PICK j \in 1..Len(head) : j = i - Len(buf)
      BY <1>1, <1>6, <2>2
    <3>2. n + i = n + Len(buf) + j /\ j \in 1..Len(r) /\ j \in 1..Len(head) + Len(tail) /\ j <= Len(head)
      BY <1>1, <1>4, <1>5, <3>1
    <3>3. b[i] = head[j]
      BY <1>1, <1>6, <2>2, <3>1
    <3>4. r[j] = head[j]
      BY <1>5, <3>2
    <3> QED BY <1>4, <3>2, <3>3, <3>4
  <2> QED BY <2>1, <2>2
<1>8. ASSUME NEW i \in 1..Len(tail) PROVE text[n + Len(b) + i] = tail[i]
  <2>1. PICK j \in Nat : j = Len(head) + i
    BY <1>1
  <2>2. j \in 1..Len(head) + Len(tail) /\ j \in 1..Len(r) /\ ~ j <= Len(head) /\ j - Len(head) = i
    BY <1>1, <1>5, <2>1
  <2>3. r[j] = tail[i]
    BY <1>5, <2>2
  <2>4. n + Len(b) + i = n + Len(buf) + j
    BY <1>1, <1>4, <1>6, <2>1
  <2> QED BY <1>4, <2>2, <2>3, <2>4
<1>9. n + Len(b) + Len(tail) = Len(text)
  BY <1>1, <1>4, <1>5, <1>6
<1>10. TextAt(text, b, tail, n)
  BY <1>4, <1>7, <1>8, <1>9 DEF TextAt
<1> QED BY <1>3, <1>10

\* The first symbols of the buffer are read.
LEMMA TextTaken ==
  ASSUME NEW text \in Texts, NEW buf \in Texts, NEW n, NEW rest \in Texts, NEW t \in 1..Len(buf),
         TextAt(text, buf, rest, n)
  PROVE  /\ TextAt(text, SubSeq(buf, t + 1, Len(buf)), rest, n + t)
         /\ SubSeq(buf, t + 1, Len(buf)) \in Texts
<1>1. Len(text) \in Nat /\ Len(buf) \in Nat /\ Len(rest) \in Nat /\ t \in Nat
  BY DEF Texts
<1>2. PICK b : b = SubSeq(buf, t + 1, Len(buf))
  OBVIOUS
<1>3. /\ n \in Nat /\ n + Len(buf) + Len(rest) = Len(text)
      /\ \A i \in 1..Len(buf) : text[n + i] = buf[i]
      /\ \A i \in 1..Len(rest) : text[n + Len(buf) + i] = rest[i]
  BY DEF TextAt
<1>4. /\ b \in Texts
      /\ Len(b) = IF t + 1 <= Len(buf) THEN Len(buf) - (t + 1) + 1 ELSE 0
      /\ \A i \in 1..Len(buf) - (t + 1) + 1 : b[i] = buf[t + 1 + i - 1]
  BY <1>1, <1>2, PieceType
<1>5. Len(b) = Len(buf) - t
  BY <1>1, <1>4
<1>6. ASSUME NEW i \in 1..Len(b) PROVE text[n + t + i] = b[i]
  <2>1. /\ i \in 1..Len(buf) - (t + 1) + 1
        /\ t + 1 + i - 1 = t + i
        /\ t + i \in 1..Len(buf)
        /\ n + t + i = n + (t + i)
    BY <1>1, <1>3, <1>5
  <2> QED BY <1>3, <1>4, <2>1
<1>7. ASSUME NEW i \in 1..Len(rest) PROVE text[n + t + Len(b) + i] = rest[i]
  <2>1. n + t + Len(b) + i = n + Len(buf) + i
    BY <1>1, <1>3, <1>5
  <2> QED BY <1>3, <2>1
<1>8. n + t \in Nat /\ n + t + Len(b) + Len(rest) = Len(text)
  <2>1. PICK lb, lt, lr \in Nat : lb = Len(buf) /\ lt = Len(text) /\ lr = Len(rest)
    BY <1>1
  <2>2. n \in Nat /\ n + lb + lr = lt /\ Len(b) = lb - t
    BY <1>3, <1>5, <2>1
  <2>3. n + t + (lb - t) + lr = lt
    BY <1>1, <2>2
  <2> QED BY <1>1, <2>1, <2>2, <2>3
<1> QED BY <1>2, <1>4, <1>6, <1>7, <1>8 DEF TextAt

\* How much of the text received has been read: all but the buffer and the chunks held.
Consumed == Len(received) - Len(buffer) - Len(FlattenSeq(held))

LinesRead == Upto(Lines(received, ended, format), Consumed)

TypeInv ==
  /\ body \in Bodies
  /\ received \in Texts /\ buffer \in Texts /\ eventName \in Texts
  /\ held \in Seq(Texts) /\ \A i \in 1..Len(held) : held[i] # <<>>
  /\ dataLines \in Seq(Texts)
  /\ lastId \in SUBSET Texts /\ (lastId = {} \/ \E id : lastId = {id})
  /\ format \in Forms \cup {"unknown"}
  /\ ended \in BOOLEAN /\ sawFirstChars \in BOOLEAN /\ closed \in BOOLEAN

\* The buffer and the chunks held are the text not read yet.
PlaceInv == TextAt(received, buffer, FlattenSeq(held), Consumed)

UnknownInv ==
  format = "unknown" =>
    /\ FlattenSeq(held) = received /\ buffer = <<>> /\ ~sawFirstChars
    /\ delivered = <<>> /\ dataLines = <<>> /\ eventName = <<>> /\ lastId = {} /\ ~closed

\* Reading has not begun, or it stands where a line begins.
MarkInv ==
  format # "unknown" =>
    \/ Consumed = 0 /\ ~sawFirstChars /\ buffer = <<>>
    \/ /\ IsMark(received, ended, format, Consumed) /\ received # <<>>
       /\ sawFirstChars \/ AtEnd

\* The frame so far is that of the lines read.
FrameInv ==
  format = "sse" =>
    dataLines = Data(LinesRead) /\ {eventName} \ {<<>>} = Name(LinesRead) /\ lastId = Id(LinesRead)

\* What was delivered are the items of the lines read; a reader that has closed has
\* delivered all.
ItemsInv ==
  format # "unknown" /\ ~closed => delivered = ValuesInOrder(ItemsOf(format, LinesRead))

ClosedInv ==
  closed => AtEnd /\ LineEnd = 0 /\ format # "unknown" /\ delivered = Items(received, ended, format)

ReadingInv ==
  /\ TypeInv /\ PlaceInv /\ UnknownInv /\ MarkInv /\ FrameInv /\ ItemsInv /\ ClosedInv

-----------------------------------------------------------------------------
\* Receive: a chunk is a text, and not empty.
LEMMA ChunkType ==
  ASSUME body \in Bodies, NEW n \in 1..MaxChunk, NEW chunk \in [1..n -> body.symbols]
  PROVE  chunk \in Texts /\ chunk # <<>>
<1>1. body.symbols \subseteq Symbols /\ MaxChunk \in Nat
  BY FramingAssumption
<1>2. PICK m \in Nat : m = n /\ m # 0
  BY <1>1
<1>3. chunk \in [1..m -> Symbols]
  BY <1>1, <1>2
<1>4. chunk \in Seq(Symbols)
  BY <1>2, <1>3, IsASeq
<1>5. Len(chunk) = m
  BY <1>2, <1>3
<1> QED BY <1>2, <1>4, <1>5, EmptySeq DEF Texts

\* EndOfBody: the replacement character is a text.
LEMMA RemainderType ==
  ASSUME NEW remainder \in {<<>>, <<"x">>}
  PROVE  remainder \in Texts
<1>1. \A s \in Symbols : <<s>> \in Seq(Symbols)
  OBVIOUS
<1>2. "x" \in Symbols
  BY DEF Symbols
<1>3. <<>> \in Seq(Symbols)
  OBVIOUS
<1> QED BY <1>1, <1>2, <1>3 DEF Texts

\* The value of a field is a text.
LEMMA ValuedType ==
  ASSUME NEW line \in Texts, line # <<>>
  PROVE  Valued(line) \in Texts
<1>1. Tail(line) \in Texts
  BY HeadTailProperties DEF Texts
<1>2. StartsWith(Tail(line), "SP") => Tail(Tail(line)) \in Texts
  BY <1>1, HeadTailProperties DEF Texts, StartsWith
<1> QED BY <1>1, <1>2 DEF Valued

\* The line taken and what stays in the buffer are texts.
LEMMA LineType ==
  ASSUME buffer \in Texts, format \in Forms, LineEnd # 0
  PROVE  Line \in Texts /\ AfterLine \in Texts
<1>1. LineEnd \in 1..Len(buffer) /\ Len(buffer) \in Nat
  BY LineEndIs DEF Texts
<1>2. PICK k \in Nat : k = LineEnd /\ k >= 1 /\ k <= Len(buffer)
  BY <1>1
<1>3. SubSeq(buffer, 1, k - 1) \in Texts
  BY <1>1, <1>2, PieceType
<1>4. \A j \in {1, 2} : SubSeq(buffer, k + j, Len(buffer)) \in Texts
  BY <1>1, <1>2, PieceType
<1>5. Line = SubSeq(buffer, 1, k - 1)
  BY <1>2 DEF Line
<1>6. AfterLine = SubSeq(buffer, k + 1, Len(buffer)) \/ AfterLine = SubSeq(buffer, k + 2, Len(buffer))
  BY <1>2 DEF AfterLine
<1> QED BY <1>3, <1>4, <1>5, <1>6

\* Two texts joined are a text.
LEMMA TextConcat ==
  ASSUME NEW s \in Texts, NEW t \in Texts
  PROVE  s \o t \in Texts
BY ConcatProperties DEF Texts

\* A text without its first symbol is a text.
LEMMA TailType ==
  ASSUME NEW s \in Texts, s # <<>>
  PROVE  Tail(s) \in Texts
BY HeadTailProperties DEF Texts

\* The buffer stays a text when a chunk is read.
LEMMA BuffersType ==
  ASSUME buffer \in Texts, NEW chunk \in Texts, Buffers(chunk)
  PROVE  buffer' \in Texts /\ sawFirstChars' = TRUE
<1>1. buffer \o chunk \in Texts
  BY TextConcat
<1>2. StartsWith(buffer \o chunk, "BOM") => Tail(buffer \o chunk) \in Texts
  BY <1>1, TailType DEF StartsWith
<1> QED BY <1>1, <1>2 DEF Buffers

\* Every chunk held has a symbol.
LEMMA HeldType ==
  ASSUME NEW seqs \in Seq(Texts), \A i \in 1..Len(seqs) : seqs[i] # <<>>
  PROVE  /\ \A chunk \in Texts : chunk # <<>> =>
              /\ Append(seqs, chunk) \in Seq(Texts)
              /\ \A i \in 1..Len(Append(seqs, chunk)) : Append(seqs, chunk)[i] # <<>>
         /\ seqs # <<>> =>
              /\ Tail(seqs) \in Seq(Texts) /\ Head(seqs) \in Texts /\ Head(seqs) # <<>>
              /\ \A i \in 1..Len(Tail(seqs)) : Tail(seqs)[i] # <<>>
<1>1. ASSUME NEW chunk \in Texts, chunk # <<>>
      PROVE  /\ Append(seqs, chunk) \in Seq(Texts)
             /\ \A i \in 1..Len(Append(seqs, chunk)) : Append(seqs, chunk)[i] # <<>>
  <2>1. PICK more : more = Append(seqs, chunk)
    OBVIOUS
  <2>2. /\ more \in Seq(Texts) /\ Len(more) = Len(seqs) + 1
        /\ \A i \in 1..Len(seqs) : more[i] = seqs[i]
        /\ more[Len(seqs) + 1] = chunk
    BY <2>1, AppendProperties
  <2>3. ASSUME NEW i \in 1..Len(more) PROVE more[i] # <<>>
    <3>1. i \in 1..Len(seqs) \/ i = Len(seqs) + 1
      BY <2>2
    <3> QED BY <1>1, <2>2, <3>1
  <2> QED BY <2>1, <2>2, <2>3
<1>2. ASSUME seqs # <<>>
      PROVE  /\ Tail(seqs) \in Seq(Texts) /\ Head(seqs) \in Texts /\ Head(seqs) # <<>>
             /\ \A i \in 1..Len(Tail(seqs)) : Tail(seqs)[i] # <<>>
  <2>1. PICK rest : rest = Tail(seqs)
    OBVIOUS
  <2>2. /\ rest \in Seq(Texts) /\ Head(seqs) \in Texts /\ Len(rest) = Len(seqs) - 1
        /\ \A i \in 1..Len(rest) : rest[i] = seqs[i + 1]
    BY <1>2, <2>1, HeadTailProperties
  <2>3. Head(seqs) # <<>>
    <3>1. Head(seqs) = seqs[1] /\ 1 \in 1..Len(seqs)
      BY <1>2
    <3> QED BY <3>1
  <2>4. ASSUME NEW i \in 1..Len(rest) PROVE rest[i] # <<>>
    <3>1. i + 1 \in 1..Len(seqs)
      BY <2>2
    <3> QED BY <2>2, <3>1
  <2> QED BY <2>1, <2>2, <2>3, <2>4
<1> QED BY <1>1, <1>2

\* Every step keeps the types of the variables.
LEMMA TypesStep ==
  ASSUME TypeInv, [FramingNext]_framingVars
  PROVE  TypeInv'
<1> USE DEF TypeInv
<1>1. CASE Receive
  <2>0. PICK n \in 1..MaxChunk : \E chunk \in [1..n -> body.symbols] :
          /\ received' = received \o chunk
          /\ IF format = "unknown"
             THEN held' = Append(held, chunk) /\ UNCHANGED bufferVars
             ELSE Buffers(chunk) /\ UNCHANGED held
    BY <1>1 DEF Receive
  <2>1. PICK chunk \in [1..n -> body.symbols] :
          /\ received' = received \o chunk
          /\ IF format = "unknown"
             THEN held' = Append(held, chunk) /\ UNCHANGED bufferVars
             ELSE Buffers(chunk) /\ UNCHANGED held
    BY <2>0
  <2>2. chunk \in Texts /\ chunk # <<>>
    BY ChunkType
  <2>3. received' \in Texts
    BY <2>1, <2>2, TextConcat
  <2>4. UNCHANGED <<body, ended, format, frameVars, closed>>
    BY <1>1 DEF Receive
  <2>5. CASE format = "unknown"
    <3>1. held' = Append(held, chunk) /\ buffer' = buffer /\ sawFirstChars' = sawFirstChars
      BY <2>1, <2>5 DEF bufferVars
    <3>2. held' \in Seq(Texts) /\ \A i \in 1..Len(held') : held'[i] # <<>>
      BY <2>2, <3>1, HeldType
    <3> QED BY <2>3, <2>4, <3>1, <3>2 DEF frameVars
  <2>6. CASE format # "unknown"
    <3>1. Buffers(chunk) /\ held' = held
      BY <2>1, <2>6
    <3>2. buffer' \in Texts /\ sawFirstChars' = TRUE
      BY <2>2, <3>1, BuffersType
    <3> QED BY <2>3, <2>4, <3>1, <3>2 DEF frameVars
  <2> QED BY <2>5, <2>6
<1>2. CASE EndOfBody
  <2>1. PICK remainder \in {<<>>, <<"x">>} :
          /\ received' = received \o remainder
          /\ IF format = "unknown"
             THEN held' = (IF remainder = <<>> THEN held ELSE Append(held, remainder)) /\ UNCHANGED buffer
             ELSE buffer' = buffer \o remainder /\ UNCHANGED held
    BY <1>2 DEF EndOfBody
  <2>2. remainder \in Texts
    BY RemainderType
  <2>3. received' \in Texts /\ buffer \o remainder \in Texts
    BY <2>1, <2>2, TextConcat
  <2>4. ended' = TRUE /\ UNCHANGED <<body, format, sawFirstChars, frameVars, closed>>
    BY <1>2 DEF EndOfBody
  <2>5. buffer' \in Texts
    BY <2>1, <2>3
  <2>6. held' \in Seq(Texts) /\ \A i \in 1..Len(held') : held'[i] # <<>>
    <3>1. held' = held \/ (remainder # <<>> /\ held' = Append(held, remainder))
      BY <2>1
    <3> QED BY <2>2, <3>1, HeldType
  <2> QED BY <2>3, <2>4, <2>5, <2>6 DEF frameVars
<1>3. CASE Decide
  BY <1>3 DEF Decide, bodyVars, frameVars, bufferVars, Forms
<1>4. CASE Replay
  <2>1. /\ Buffers(Head(held))
        /\ held' = Tail(held)
        /\ held # <<>>
        /\ UNCHANGED <<bodyVars, format, frameVars, closed>>
    BY <1>4 DEF Replay
  <2>2. /\ held' \in Seq(Texts) /\ Head(held) \in Texts
        /\ \A i \in 1..Len(held') : held'[i] # <<>>
    BY <2>1, HeldType
  <2>3. buffer' \in Texts /\ sawFirstChars' = TRUE
    BY <2>1, <2>2, BuffersType
  <2> QED BY <2>1, <2>2, <2>3 DEF bodyVars, frameVars
<1>5. ASSUME TakesLine, format \in Forms
      PROVE  /\ buffer' \in Texts /\ Line \in Texts
             /\ UNCHANGED <<bodyVars, format, held, sawFirstChars, closed>>
  BY <1>5, LineType DEF TakesLine
<1>6. CASE Dispatch
  <2>1. TakesLine /\ format \in Forms /\ dataLines' = <<>> /\ eventName' = <<>> /\ lastId' = lastId
    BY <1>6 DEF Dispatch, Forms
  <2>2. <<>> \in Texts /\ <<>> \in Seq(Texts)
    BY DEF Texts
  <2> QED BY <1>5, <2>1, <2>2 DEF bodyVars
<1>7. CASE CommentLine
  <2>1. TakesLine /\ format \in Forms /\ UNCHANGED frameVars
    BY <1>7 DEF CommentLine, Forms
  <2> QED BY <1>5, <2>1 DEF bodyVars, frameVars
<1>8. CASE Field
  <2>1. TakesLine /\ format \in Forms /\ Line # <<>>
    BY <1>8 DEF Field, Forms
  <2>2. Valued(Line) \in Texts
    BY <1>5, <2>1, ValuedType
  <2>3. /\ dataLines' = IF Head(Line) = "data:" THEN Append(dataLines, Valued(Line)) ELSE dataLines
        /\ eventName' = IF Head(Line) = "event:" THEN Valued(Line) ELSE eventName
        /\ lastId' = IF Head(Line) = "id:" /\ "NUL" \notin ToSet(Line) THEN {Valued(Line)} ELSE lastId
    BY <1>8 DEF Field
  <2>4. dataLines' \in Seq(Texts)
    BY <2>2, <2>3, AppendProperties
  <2>5. eventName' \in Texts
    BY <2>2, <2>3
  <2>6. lastId' \in SUBSET Texts /\ (lastId' = {} \/ \E id : lastId' = {id})
    BY <2>2, <2>3
  <2> QED BY <1>5, <2>1, <2>4, <2>5, <2>6 DEF bodyVars
<1>9. CASE UnknownField
  <2>1. TakesLine /\ format \in Forms /\ UNCHANGED frameVars
    BY <1>9 DEF UnknownField, Forms
  <2> QED BY <1>5, <2>1 DEF bodyVars, frameVars
<1>10. CASE NdjsonLine
  <2>1. TakesLine /\ format \in Forms /\ UNCHANGED frameVars
    BY <1>10 DEF NdjsonLine, Forms
  <2> QED BY <1>5, <2>1 DEF bodyVars, frameVars
<1>11. CASE CloseStream \/ CloseLines
  <2>1. closed' = TRUE /\ UNCHANGED <<bodyVars, format, held, bufferVars, frameVars>>
    BY <1>11 DEF CloseStream, CloseLines
  <2> QED BY <2>1 DEF bodyVars, frameVars, bufferVars
<1>12. CASE UNCHANGED framingVars
  BY <1>12 DEF framingVars, bodyVars, frameVars, bufferVars
<1> QED BY <1>1, <1>2, <1>3, <1>4, <1>6, <1>7, <1>8, <1>9, <1>10, <1>11, <1>12 DEF FramingNext, Reads

\* What is neither in the buffer nor held has been read.
LEMMA ConsumedIs ==
  ASSUME NEW text \in Texts, NEW buf \in Texts, NEW rest \in Texts, NEW n, TextAt(text, buf, rest, n)
  PROVE  n \in Nat /\ n = Len(text) - Len(buf) - Len(rest)
<1>1. Len(text) \in Nat /\ Len(buf) \in Nat /\ Len(rest) \in Nat
  BY DEF Texts
<1> QED BY <1>1 DEF TextAt

\* The chunks held make up a text.
LEMMA FlattenType ==
  ASSUME NEW seqs \in Seq(Texts)
  PROVE  FlattenSeq(seqs) \in Texts
BY FlattenSeqType DEF Texts

\* Nothing held is no text.
LEMMA NothingHeld ==
  /\ FlattenSeq(<<>>) = <<>> /\ <<>> \in Texts /\ <<>> \in Seq(Texts)
BY FlattenSeqEmpty DEF Texts

\* The parts of the text received, with what has been read.
LEMMA TextIs ==
  ASSUME TypeInv, PlaceInv
  PROVE  /\ FlattenSeq(held) \in Texts /\ Consumed \in Nat
         /\ Len(received) \in Nat /\ Len(buffer) \in Nat /\ Len(FlattenSeq(held)) \in Nat
         /\ Consumed + Len(buffer) + Len(FlattenSeq(held)) = Len(received)
<1>1. received \in Texts /\ buffer \in Texts /\ held \in Seq(Texts)
  BY DEF TypeInv
<1>2. FlattenSeq(held) \in Texts
  BY <1>1, FlattenType
<1>3. Len(received) \in Nat /\ Len(buffer) \in Nat /\ Len(FlattenSeq(held)) \in Nat
  BY <1>1, <1>2 DEF Texts
<1>4. Consumed \in Nat
  BY <1>1, <1>2, ConsumedIs DEF PlaceInv
<1> QED BY <1>2, <1>3, <1>4 DEF PlaceInv, TextAt

\* Nothing happens after the reader has closed.
LEMMA ClosedStays ==
  ASSUME TypeInv, ClosedInv, FramingNext
  PROVE  ~closed
<1> SUFFICES ASSUME closed PROVE FALSE
  OBVIOUS
<1>1. ended /\ held = <<>> /\ LineEnd = 0 /\ format # "unknown"
  BY DEF ClosedInv, AtEnd
<1>2. ~Receive /\ ~EndOfBody
  BY <1>1 DEF Receive, EndOfBody
<1>3. ~Decide /\ ~Replay
  BY <1>1 DEF Decide, Replay
<1>4. ~TakesLine
  BY <1>1 DEF TakesLine
<1>5. ~Dispatch /\ ~CommentLine /\ ~Field /\ ~UnknownField /\ ~NdjsonLine
  BY <1>4 DEF Dispatch, CommentLine, Field, UnknownField, NdjsonLine
<1>6. ~CloseStream /\ ~CloseLines
  BY DEF CloseStream, CloseLines
<1> QED BY <1>2, <1>3, <1>5, <1>6 DEF FramingNext, Reads

\* A step that reads no line.
LEMMA NoLineRead ==
  ASSUME FrameInv, ItemsInv, ~closed, format' = format, LinesRead' = LinesRead,
         UNCHANGED <<frameVars, delivered, closed>>
  PROVE  FrameInv' /\ ItemsInv' /\ ClosedInv'
<1>1. dataLines' = dataLines /\ eventName' = eventName /\ lastId' = lastId /\ delivered' = delivered
  BY DEF frameVars
<1>2. ~closed'
  OBVIOUS
<1>3. FrameInv'
  BY <1>1 DEF FrameInv
<1>4. ItemsInv'
  BY <1>1, <1>2 DEF ItemsInv
<1>5. ClosedInv'
  BY <1>2 DEF ClosedInv
<1> QED BY <1>3, <1>4, <1>5

\* While the format is unknown everything received is held.
LEMMA StillUnknown ==
  ASSUME TypeInv, TypeInv', UnknownInv, format = "unknown", format' = format,
         FlattenSeq(held') = received',
         UNCHANGED <<buffer, sawFirstChars, frameVars, delivered, closed>>
  PROVE  PlaceInv' /\ UnknownInv' /\ MarkInv' /\ FrameInv' /\ ItemsInv' /\ ClosedInv'
<1>1. /\ buffer' = <<>> /\ delivered' = <<>> /\ dataLines' = <<>> /\ eventName' = <<>> /\ lastId' = {}
      /\ ~sawFirstChars' /\ ~closed'
  BY DEF UnknownInv, frameVars
<1>2. UnknownInv'
  BY <1>1 DEF UnknownInv
<1>3. PICK r \in Texts : r = received'
  BY DEF TypeInv
<1>4. Consumed' = 0
  <2>1. Len(r) \in Nat
    BY DEF Texts
  <2> QED BY <1>1, <1>3, <2>1 DEF Consumed
<1>5. TextAt(r, <<>>, r, 0)
  BY DEF TextAt, Texts
<1>6. PlaceInv'
  BY <1>1, <1>3, <1>4, <1>5 DEF PlaceInv
<1>7. format' = "unknown"
  OBVIOUS
<1> QED BY <1>1, <1>2, <1>6, <1>7 DEF MarkInv, FrameInv, ItemsInv, ClosedInv, Forms

\* More text arrives for the reader.
Extends(text, buf, more, grown, longer) == grown = text \o more /\ longer = buf \o more

\* A mark stays where it is when more text arrives,
LEMMA MoreArrives ==
  ASSUME NEW text \in Texts, NEW buf \in Texts, NEW more \in Texts, NEW whole, NEW form, NEW n,
         IsMark(text, SoFar, form, n), text # <<>>, TextAt(text, buf, <<>>, n),
         NEW grown, NEW longer, Extends(text, buf, more, grown, longer)
  PROVE  IsMark(grown, whole, form, n) /\ grown # <<>> /\ TextAt(grown, longer, <<>>, n)
<1>1. grown = text \o more /\ longer = buf \o more
  BY DEF Extends
<1>2. IsMark(grown, whole, form, n)
  BY <1>1, MarkStays DEF Prolongs
<1>3. TextAt(grown, longer, <<>>, n)
  BY <1>1, TextArrives
<1>4. grown # <<>>
  <2>1. Len(grown) = Len(text) + Len(more) /\ Len(text) \in Nat /\ Len(more) \in Nat
    BY <1>1 DEF Texts
  <2>2. Len(text) # 0
    BY EmptySeq DEF Texts
  <2> QED BY <2>1, <2>2
<1> QED BY <1>2, <1>3, <1>4

\* and so do the lines read up to it.
LEMMA LinesRemain ==
  ASSUME NEW text \in Texts, NEW buf \in Texts, NEW more \in Texts, NEW whole, NEW form, NEW n,
         IsMark(text, SoFar, form, n), text # <<>>,
         NEW grown, NEW longer, Extends(text, buf, more, grown, longer)
  PROVE  Upto(Lines(grown, whole, form), n) = Upto(Lines(text, SoFar, form), n)
<1>1. Prolongs(grown, text, more)
  BY DEF Extends, Prolongs
<1> QED BY <1>1, LinesStay

\* The text goes on after what stands in the buffer.
LEMMA GoesOn ==
  ASSUME TypeInv, PlaceInv, MarkInv, TypeInv', format \in Forms, format' = format, ~ended,
         held = <<>>, held' = held, sawFirstChars, sawFirstChars',
         NEW chunk \in Texts, Extends(received, buffer, chunk, received', buffer')
  PROVE  PlaceInv' /\ UnknownInv' /\ MarkInv' /\ LinesRead' = LinesRead
<1>1. received \in Texts /\ buffer \in Texts /\ ended = SoFar
  BY DEF TypeInv, SoFar
<1>2. TextAt(received, buffer, <<>>, Consumed)
  BY NothingHeld DEF PlaceInv
<1>3. PICK n, w, r, b : n = Consumed /\ w = ended' /\ r = received' /\ b = buffer'
  BY <1>1
<1>4. IsMark(received, SoFar, format, n) /\ received # <<>>
  BY <1>1, <1>3 DEF MarkInv, Forms
<1>5. /\ IsMark(r, w, format, n) /\ r # <<>> /\ TextAt(r, b, <<>>, n)
      /\ Upto(Lines(r, w, format), n) = Upto(Lines(received, SoFar, format), n)
  <2>1. TextAt(received, buffer, <<>>, n) /\ Extends(received, buffer, chunk, r, b)
    BY <1>2, <1>3
  <2>2. IsMark(r, w, format, n) /\ r # <<>> /\ TextAt(r, b, <<>>, n)
    BY <1>1, <1>4, <2>1, MoreArrives
  <2>3. Upto(Lines(r, w, format), n) = Upto(Lines(received, SoFar, format), n)
    BY <1>1, <1>4, <2>1, LinesRemain
  <2> QED BY <2>2, <2>3
<1>6. FlattenSeq(held') = <<>>
  BY NothingHeld
<1>7. Consumed' = n
  <2>1. r \in Texts /\ b \in Texts /\ <<>> \in Texts
    BY <1>3 DEF TypeInv, Texts
  <2>2. n = Len(r) - Len(b) - Len(<<>>)
    BY <1>5, <2>1, ConsumedIs
  <2> QED BY <1>3, <1>6, <2>2 DEF Consumed
<1>8. PlaceInv'
  BY <1>3, <1>5, <1>6, <1>7 DEF PlaceInv
<1>9. MarkInv'
  BY <1>3, <1>5, <1>7 DEF MarkInv
<1>10. LinesRead' = LinesRead
  BY <1>1, <1>3, <1>5, <1>7 DEF LinesRead
<1>11. UnknownInv'
  BY DEF UnknownInv, Forms
<1> QED BY <1>8, <1>9, <1>10, <1>11

\* Reading begins: what precedes the buffer is at most the byte order mark.
LEMMA Begins ==
  ASSUME TypeInv', format \in Forms, format' = format, NEW n \in Nat,
         n = Opening(received', format), received' # <<>>, sawFirstChars' \/ AtEnd',
         TextAt(received', buffer', FlattenSeq(held'), n)
  PROVE  PlaceInv' /\ UnknownInv' /\ MarkInv' /\ LinesRead' = NoLines
<1>1. PICK r \in Texts, b \in Texts, h \in Texts : r = received' /\ b = buffer' /\ h = FlattenSeq(held')
  BY FlattenType DEF TypeInv
<1>2. PICK w : w = ended'
  OBVIOUS
<1>3. Consumed' = n
  <2>1. n = Len(r) - Len(b) - Len(h)
    BY <1>1, ConsumedIs
  <2> QED BY <1>1, <2>1 DEF Consumed
<1>4. PlaceInv'
  BY <1>3 DEF PlaceInv
<1>5. Upto(Lines(r, w, format), n) = NoLines
  BY <1>1, NothingRead
<1>6. LinesRead' = NoLines
  BY <1>1, <1>2, <1>3, <1>5 DEF LinesRead
<1>7. IsMark(r, w, format, n)
  BY <1>1 DEF IsMark
<1>8. MarkInv'
  BY <1>1, <1>2, <1>3, <1>7 DEF MarkInv
<1>9. UnknownInv'
  BY DEF UnknownInv, Forms
<1> QED BY <1>4, <1>6, <1>8, <1>9

\* Before reading begins no line has been read.
LEMMA Unread ==
  ASSUME TypeInv, Consumed = 0
  PROVE  LinesRead = NoLines
<1>1. received \in Texts /\ 0 <= Opening(received, format)
  BY OpeningIs DEF TypeInv
<1> QED BY <1>1, NothingRead DEF LinesRead

\* A chunk reaches the buffer, after the byte order mark if it is the first.
LEMMA BuffersIs ==
  ASSUME NEW chunk \in Texts, chunk # <<>>, Buffers(chunk),
         buffer \in Texts, format \in Forms, sawFirstChars \in BOOLEAN
  PROVE  /\ sawFirstChars' = TRUE
         /\ sawFirstChars => buffer' = buffer \o chunk
         /\ ~sawFirstChars /\ buffer = <<>> =>
              /\ Opening(chunk, format) = 0 => buffer' = chunk
              /\ Opening(chunk, format) = 1 => buffer' = SubSeq(chunk, 2, Len(chunk))
<1>1. sawFirstChars' = TRUE
  BY DEF Buffers
<1>2. sawFirstChars => buffer' = buffer \o chunk
  BY DEF Buffers
<1>3. CASE ~sawFirstChars /\ buffer = <<>>
  <2>1. PICK whole : whole = buffer \o chunk
    OBVIOUS
  <2>2. whole = chunk
    BY <1>3, <2>1, ConcatEmptySeq DEF Texts
  <2>3. buffer' = IF format = "sse" /\ StartsWith(whole, "BOM") THEN Tail(whole) ELSE whole
    BY <1>3, <2>1 DEF Buffers
  <2>4. Tail(chunk) = SubSeq(chunk, 2, Len(chunk))
    BY TailIsSubSeq DEF Texts
  <2> QED BY <1>1, <1>3, <2>2, <2>3, <2>4 DEF Opening
<1> QED BY <1>1, <1>2, <1>3

\* What the byte order mark is to the first chunk it is to the text.
LEMMA OpeningOfMore ==
  ASSUME NEW text \in Texts, NEW more \in Texts, text # <<>>, NEW form, NEW all, Prolongs(all, text, more)
  PROVE  Opening(all, form) = Opening(text, form) /\ all # <<>>
<1>1. Len(all) = Len(text) + Len(more) /\ Len(text) \in Nat /\ Len(more) \in Nat
  BY DEF Texts, Prolongs
<1>2. Len(text) # 0
  BY EmptySeq DEF Texts
<1>3. Opening(all, form) = Opening(text, form)
  BY OpeningStays
<1> QED BY <1>1, <1>2, <1>3

\* The first chunk in the buffer: what is left out is the byte order mark.
LEMMA FirstChunk ==
  ASSUME TypeInv, NEW chunk \in Texts, chunk # <<>>, NEW rest \in Texts, NEW all, Prolongs(all, chunk, rest),
         Buffers(chunk), format \in Forms, ~sawFirstChars, buffer = <<>>
  PROVE  /\ TextAt(all, buffer', rest, Opening(all, format)) /\ all # <<>>
         /\ Opening(all, format) \in Nat /\ sawFirstChars'
<1>1. buffer \in Texts /\ sawFirstChars \in BOOLEAN
  BY DEF TypeInv
<1>2. PICK n, b : n = Opening(all, format) /\ b = buffer'
  OBVIOUS
<1>3. n = Opening(chunk, format) /\ all # <<>>
  BY <1>2, OpeningOfMore
<1>4. /\ sawFirstChars'
      /\ n = 0 => b = chunk
      /\ n = 1 => b = SubSeq(chunk, 2, Len(chunk))
  BY <1>1, <1>2, <1>3, BuffersIs
<1>5. TextAt(all, chunk, rest, 0) /\ all \in Texts
  <2>1. /\ Len(all) = Len(chunk) + Len(rest) /\ Len(chunk) \in Nat /\ Len(rest) \in Nat
        /\ \A i \in 1..Len(chunk) : all[i] = chunk[i]
        /\ \A i \in 1..Len(rest) : all[Len(chunk) + i] = rest[i]
        /\ all \in Texts
    BY ConcatProperties DEF Texts, Prolongs
  <2> QED BY <2>1 DEF TextAt
<1>6. n \in 0..1 /\ (n = 1 => chunk # <<>>)
  BY <1>3, OpeningIs
<1>7. CASE n = 0
  BY <1>2, <1>3, <1>4, <1>5, <1>7
<1>8. CASE n = 1
  <2>1. 1 \in 1..Len(chunk)
    <3>1. Len(chunk) \in Nat /\ Len(chunk) # 0
      BY EmptySeq DEF Texts
    <3> QED BY <3>1
  <2>2. TextAt(all, SubSeq(chunk, 1 + 1, Len(chunk)), rest, 0 + 1)
    BY <1>5, <2>1, TextTaken
  <2>3. TextAt(all, b, rest, 1)
    <3>1. 1 + 1 = 2 /\ 0 + 1 = 1
      OBVIOUS
    <3>2. TextAt(all, SubSeq(chunk, 2, Len(chunk)), rest, 1)
      BY <2>2, <3>1
    <3>3. b = SubSeq(chunk, 2, Len(chunk))
      BY <1>4, <1>8
    <3> QED BY <3>2, <3>3
  <2> QED BY <1>2, <1>3, <1>4, <1>8, <2>3
<1> QED BY <1>6, <1>7, <1>8

\* A chunk that is held.
LEMMA HeldMore ==
  ASSUME held \in Seq(Texts), NEW chunk \in Texts, FlattenSeq(held) = received,
         received' = received \o chunk, held' = Append(held, chunk)
  PROVE  FlattenSeq(held') = received'
<1>1. PICK h \in Seq(Texts) : h = held
  OBVIOUS
<1>2. FlattenSeq(Append(h, chunk)) = FlattenSeq(h) \o chunk
  BY FlattenSeqAppend DEF Texts
<1> QED BY <1>1, <1>2

\* Before reading begins with nothing held, nothing was received.
LEMMA NothingReceived ==
  ASSUME TypeInv, PlaceInv, held = <<>>, buffer = <<>>, Consumed = 0
  PROVE  received = <<>>
<1>1. FlattenSeq(held) = <<>>
  BY NothingHeld
<1>2. Len(received) = 0
  BY <1>1, TextIs
<1> QED BY <1>2, EmptySeq DEF TypeInv, Texts

\* The reader has read something, or it has not begun.
LEMMA Begun ==
  ASSUME TypeInv, MarkInv, format # "unknown", ~AtEnd
  PROVE  \/ sawFirstChars /\ IsMark(received, ended, format, Consumed) /\ received # <<>>
         \/ ~sawFirstChars /\ buffer = <<>> /\ Consumed = 0
BY DEF MarkInv

\* Receive, once the format is known.
LEMMA Reaches ==
  ASSUME ReadingInv, TypeInv', format \in Forms, format' = format, ~ended, ~closed,
         held = <<>>, held' = held,
         NEW chunk \in Texts, chunk # <<>>, received' = received \o chunk, Buffers(chunk),
         UNCHANGED <<frameVars, delivered, closed>>
  PROVE  ReadingInv'
<1> USE DEF ReadingInv
<1>1. format # "unknown" /\ ~AtEnd
  BY DEF Forms, AtEnd
<1>2. CASE sawFirstChars /\ IsMark(received, ended, format, Consumed) /\ received # <<>>
  <2>1. sawFirstChars' = TRUE /\ buffer' = buffer \o chunk
    BY <1>2, BuffersIs DEF TypeInv
  <2>2. Extends(received, buffer, chunk, received', buffer')
    BY <2>1 DEF Extends
  <2>3. PlaceInv' /\ UnknownInv' /\ MarkInv' /\ LinesRead' = LinesRead
    BY <1>2, <2>1, <2>2, GoesOn
  <2>4. FrameInv' /\ ItemsInv' /\ ClosedInv'
    BY <2>3, NoLineRead
  <2> QED BY <2>3, <2>4
<1>3. CASE ~sawFirstChars /\ buffer = <<>> /\ Consumed = 0
  <2>1. received = <<>>
    BY <1>3, NothingReceived
  <2>2. PICK r \in Texts : r = received'
    BY DEF TypeInv
  <2>3. r = chunk
    BY <2>1, <2>2, ConcatEmptySeq DEF Texts
  <2>4. Prolongs(r, chunk, <<>>) /\ <<>> \in Texts
    BY <2>3, ConcatEmptySeq DEF Prolongs, Texts
  <2>5. /\ TextAt(r, buffer', <<>>, Opening(r, format)) /\ r # <<>>
        /\ Opening(r, format) \in Nat /\ sawFirstChars'
    BY <1>3, <2>4, FirstChunk
  <2>6. FlattenSeq(held') = <<>>
    BY NothingHeld
  <2>7. PlaceInv' /\ UnknownInv' /\ MarkInv' /\ LinesRead' = NoLines
    <3>1. PICK n \in Nat : n = Opening(r, format)
      BY <2>5
    <3>2. n = Opening(received', format) /\ received' # <<>>
      BY <2>2, <2>5, <3>1
    <3>3. TextAt(received', buffer', FlattenSeq(held'), n)
      BY <2>2, <2>5, <2>6, <3>1
    <3> QED BY <2>5, <3>2, <3>3, Begins
  <2>8. LinesRead = NoLines
    BY <1>3, Unread
  <2>9. FrameInv' /\ ItemsInv' /\ ClosedInv'
    BY <2>7, <2>8, NoLineRead
  <2> QED BY <2>7, <2>9
<1> QED BY <1>1, <1>2, <1>3, Begun

\* Receive keeps the invariant.
LEMMA ReceiveReads ==
  ASSUME ReadingInv, TypeInv', Receive
  PROVE  ReadingInv'
<1> USE DEF ReadingInv
<1>1. PICK n \in 1..MaxChunk : \E chunk \in [1..n -> body.symbols] :
        /\ received' = received \o chunk
        /\ IF format = "unknown"
           THEN held' = Append(held, chunk) /\ UNCHANGED bufferVars
           ELSE Buffers(chunk) /\ UNCHANGED held
  BY DEF Receive
<1>2. PICK chunk \in [1..n -> body.symbols] :
        /\ received' = received \o chunk
        /\ IF format = "unknown"
           THEN held' = Append(held, chunk) /\ UNCHANGED bufferVars
           ELSE Buffers(chunk) /\ UNCHANGED held
  BY <1>1
<1>3. chunk \in Texts /\ chunk # <<>>
  <2>1. body \in Bodies
    BY DEF TypeInv
  <2> QED BY <2>1, ChunkType
<1>4. ~closed
  BY ClosedStays DEF FramingNext
<1>5. Asks /\ ~ended /\ format' = format /\ UNCHANGED <<frameVars, delivered, closed>>
  BY DEF Receive
<1>6. CASE format = "unknown"
  <2>1. received' = received \o chunk /\ held' = Append(held, chunk)
    BY <1>2, <1>6
  <2>2. buffer' = buffer /\ sawFirstChars' = sawFirstChars
    BY <1>2, <1>6 DEF bufferVars
  <2>3. held \in Seq(Texts) /\ FlattenSeq(held) = received
    BY <1>6 DEF TypeInv, UnknownInv
  <2>4. FlattenSeq(held') = received'
    BY <1>3, <2>1, <2>3, HeldMore
  <2> QED BY <1>5, <1>6, <2>2, <2>4, StillUnknown
<1>7. CASE format # "unknown"
  <2>1. held = <<>>
    BY <1>5, <1>7 DEF Asks, Sniffs
  <2>2. received' = received \o chunk /\ Buffers(chunk) /\ held' = held
    BY <1>2, <1>7
  <2>3. format \in Forms
    BY <1>7 DEF TypeInv
  <2> QED BY <1>3, <1>4, <1>5, <2>1, <2>2, <2>3, Reaches
<1> QED BY <1>6, <1>7

-----------------------------------------------------------------------------
\* EndOfBody keeps the invariant.
LEMMA EndOfBodyReads ==
  ASSUME ReadingInv, TypeInv', EndOfBody
  PROVE  ReadingInv'
<1> USE DEF ReadingInv
<1>1. PICK remainder \in {<<>>, <<"x">>} :
        /\ received' = received \o remainder
        /\ IF format = "unknown"
           THEN held' = (IF remainder = <<>> THEN held ELSE Append(held, remainder)) /\ UNCHANGED buffer
           ELSE buffer' = buffer \o remainder /\ UNCHANGED held
  BY DEF EndOfBody
<1>2. remainder \in Texts
  BY RemainderType
<1>3. ~closed
  BY ClosedStays DEF FramingNext
<1>4. /\ Asks /\ ~ended /\ ended' = TRUE /\ format' = format
      /\ sawFirstChars' = sawFirstChars /\ UNCHANGED <<frameVars, delivered, closed>>
  BY DEF EndOfBody
<1>5. CASE format = "unknown"
  <2>1. buffer' = buffer /\ received' = received \o remainder
    BY <1>1, <1>5
  <2>2. held \in Seq(Texts) /\ received \in Texts /\ FlattenSeq(held) = received
    BY <1>5 DEF TypeInv, UnknownInv
  <2>3. FlattenSeq(held') = received'
    <3>1. CASE remainder = <<>>
      <4>1. held' = held
        BY <1>1, <1>5, <3>1
      <4>2. received' = received
        BY <2>1, <2>2, <3>1, ConcatEmptySeq DEF Texts
      <4> QED BY <2>2, <4>1, <4>2
    <3>2. CASE remainder # <<>>
      <4>1. held' = Append(held, remainder)
        BY <1>1, <1>5, <3>2
      <4> QED BY <1>2, <2>1, <2>2, <4>1, HeldMore
    <3> QED BY <3>1, <3>2
  <2> QED BY <1>4, <1>5, <2>1, <2>3, StillUnknown
<1>6. CASE format # "unknown"
  <2>1. held = <<>> /\ format \in Forms
    BY <1>4, <1>6 DEF Asks, Sniffs, TypeInv
  <2>2. received' = received \o remainder /\ buffer' = buffer \o remainder /\ held' = held
    BY <1>1, <1>6
  <2>3. ~AtEnd /\ AtEnd'
    BY <1>4, <2>1, <2>2 DEF AtEnd
  <2>4. CASE sawFirstChars /\ IsMark(received, ended, format, Consumed) /\ received # <<>>
    <3>1. Extends(received, buffer, remainder, received', buffer')
      BY <2>2 DEF Extends
    <3>2. PlaceInv' /\ UnknownInv' /\ MarkInv' /\ LinesRead' = LinesRead
      BY <1>2, <1>4, <2>1, <2>2, <2>4, <3>1, GoesOn
    <3>3. FrameInv' /\ ItemsInv' /\ ClosedInv'
      BY <1>3, <1>4, <3>2, NoLineRead
    <3> QED BY <3>2, <3>3
  <2>5. CASE ~sawFirstChars /\ buffer = <<>> /\ Consumed = 0
    <3>1. received = <<>>
      BY <2>1, <2>5, NothingReceived
    <3>2. PICK r \in Texts : r = remainder
      BY <1>2
    <3>3. received' = r /\ buffer' = r
      BY <2>2, <2>5, <3>1, <3>2, ConcatEmptySeq DEF Texts
    <3>4. FlattenSeq(held') = <<>> /\ <<>> \in Texts
      BY <2>1, <2>2, NothingHeld
    <3>5. TextAt(r, r, <<>>, 0)
      BY DEF TextAt, Texts
    <3>6. Consumed' = 0
      <4>1. 0 = Len(r) - Len(r) - Len(<<>>)
        <5>1. PICK m \in Nat : m = Len(r)
          BY DEF Texts
        <5>2. Len(<<>>) = 0 /\ m - m - 0 = 0
          OBVIOUS
        <5> QED BY <5>1, <5>2
      <4> QED BY <3>3, <3>4, <4>1 DEF Consumed
    <3>7. PlaceInv'
      BY <3>3, <3>4, <3>5, <3>6 DEF PlaceInv
    <3>8. UnknownInv'
      BY <1>4, <1>6 DEF UnknownInv
    <3>9. MarkInv'
      <4>1. CASE r = <<>>
        BY <1>4, <2>5, <3>3, <3>6, <4>1 DEF MarkInv
      <4>2. CASE r # <<>>
        <5>1. Opening(r, format) = 0
          BY <1>1, <3>2, <4>2 DEF Opening, StartsWith
        <5>2. IsMark(r, ended', format, 0)
          BY <5>1 DEF IsMark
        <5> QED BY <1>4, <2>3, <3>3, <3>6, <4>2, <5>2 DEF MarkInv
      <4> QED BY <4>1, <4>2
    <3>10. LinesRead = NoLines /\ LinesRead' = NoLines
      <4>1. LinesRead = NoLines
        BY <2>5, Unread
      <4>2. PICK w : w = ended'
        OBVIOUS
      <4>3. 0 <= Opening(r, format)
        BY OpeningIs
      <4>4. Upto(Lines(r, w, format), 0) = NoLines
        BY <4>3, NothingRead
      <4> QED BY <1>4, <3>3, <3>6, <4>1, <4>2, <4>4 DEF LinesRead
    <3>11. FrameInv' /\ ItemsInv' /\ ClosedInv'
      BY <1>3, <1>4, <3>10, NoLineRead
    <3> QED BY <3>7, <3>8, <3>9, <3>11
  <2> QED BY <1>6, <2>3, <2>4, <2>5, Begun
<1> QED BY <1>5, <1>6

-----------------------------------------------------------------------------
\* A step that leaves the text as it was.
LEMMA SameText ==
  ASSUME TypeInv, UNCHANGED <<bodyVars, held, bufferVars>>
  PROVE  /\ Consumed' = Consumed
         /\ (PlaceInv => PlaceInv')
         /\ UNCHANGED <<received, ended, held, buffer, sawFirstChars>>
<1>1. UNCHANGED <<received, ended, held, buffer, sawFirstChars>>
  BY DEF bodyVars, bufferVars
<1>2. Consumed' = Consumed
  BY <1>1 DEF Consumed
<1>3. PlaceInv => PlaceInv'
  BY <1>1, <1>2 DEF PlaceInv
<1> QED BY <1>1, <1>2, <1>3

\* _sniff_format keeps the invariant: all is held, nothing is read.
LEMMA DecideReads ==
  ASSUME ReadingInv, TypeInv', Decide
  PROVE  ReadingInv'
<1> USE DEF ReadingInv
<1>1. /\ format = "unknown"
      /\ format' \in Forms
      /\ UNCHANGED <<bodyVars, delivered, held, bufferVars, frameVars, closed>>
  BY DEF Decide, Forms
<1>2. /\ FlattenSeq(held) = received /\ buffer = <<>> /\ ~sawFirstChars /\ ~closed
      /\ delivered = <<>> /\ dataLines = <<>> /\ eventName = <<>> /\ lastId = {}
  BY <1>1 DEF UnknownInv
<1>3. PlaceInv' /\ Consumed' = Consumed /\ UNCHANGED <<received, ended, held, buffer, sawFirstChars>>
  BY <1>1, SameText
<1>4. Consumed' = 0
  BY <1>2, <1>3, TextIs
<1>5. UnknownInv'
  BY <1>1 DEF UnknownInv, Forms
<1>6. MarkInv'
  BY <1>2, <1>3, <1>4 DEF MarkInv
<1>7. LinesRead' = NoLines
  <2>1. PICK r \in Texts : r = received'
    BY DEF TypeInv
  <2>2. PICK w, f : w = ended' /\ f = format'
    OBVIOUS
  <2>3. 0 <= Opening(r, f)
    BY OpeningIs
  <2>4. Upto(Lines(r, w, f), 0) = NoLines
    BY <2>3, NothingRead
  <2> QED BY <1>4, <2>1, <2>2, <2>4 DEF LinesRead
<1>8. /\ dataLines' = <<>> /\ eventName' = <<>> /\ lastId' = {} /\ delivered' = <<>> /\ ~closed'
  BY <1>1, <1>2 DEF frameVars
<1>9. FrameInv'
  BY <1>7, <1>8, NothingOf DEF FrameInv
<1>10. ItemsInv'
  BY <1>7, <1>8, NothingOf DEF ItemsInv
<1>11. ClosedInv'
  BY <1>8 DEF ClosedInv
<1> QED BY <1>3, <1>5, <1>6, <1>9, <1>10, <1>11

\* replay keeps the invariant: the chunk held first follows the buffer.
LEMMA ReplayReads ==
  ASSUME ReadingInv, TypeInv', Replay
  PROVE  ReadingInv'
<1> USE DEF ReadingInv
<1>1. /\ format # "unknown" /\ held # <<>> /\ Buffers(Head(held)) /\ held' = Tail(held)
      /\ format' = format /\ UNCHANGED <<bodyVars, delivered, frameVars, closed>>
  BY DEF Replay
<1>2. ~closed
  BY ClosedStays DEF FramingNext, Reads
<1>3. ~AtEnd /\ format \in Forms /\ received' = received /\ ended' = ended
  BY <1>1 DEF AtEnd, TypeInv, bodyVars
<1>4. held \in Seq(Texts) /\ \A i \in 1..Len(held) : held[i] # <<>>
  BY DEF TypeInv
<1>5. PICK h, t, f : h = Head(held) /\ t = FlattenSeq(Tail(held)) /\ f = FlattenSeq(held)
  OBVIOUS
<1>6. h \in Texts /\ h # <<>> /\ t \in Texts
  <2>1. Head(held) \in Texts /\ Head(held) # <<>> /\ Tail(held) \in Seq(Texts)
    BY <1>1, <1>4, HeldType
  <2> QED BY <1>5, <2>1, FlattenType
<1>7. f = h \o t
  <2>1. PICK c \in Seq(Texts) : c = held
    BY <1>4
  <2>2. FlattenSeq(c) = Head(c) \o FlattenSeq(Tail(c))
    BY <1>1, <2>1, FlattenSeqHead DEF Texts
  <2> QED BY <1>5, <2>1, <2>2
<1>8. FlattenSeq(held') = t
  BY <1>1, <1>5
<1>9. PICK n \in Nat : n = Consumed
  BY TextIs
<1>10. PICK r \in Texts, b \in Texts : r = received /\ b = buffer
  BY DEF TypeInv
<1>11. CASE sawFirstChars /\ IsMark(received, ended, format, Consumed) /\ received # <<>>
  <2>1. sawFirstChars' = TRUE /\ buffer' = b \o h
    BY <1>1, <1>3, <1>5, <1>6, <1>10, <1>11, BuffersIs DEF TypeInv
  <2>2. TextAt(r, b, h \o t, n)
    BY <1>5, <1>7, <1>9, <1>10 DEF PlaceInv
  <2>3. TextAt(r, b \o h, t, n)
    BY <1>6, <2>2, TextReplays
  <2>4. Consumed' = n
    <3>1. PICK c \in Texts : c = buffer'
      BY DEF TypeInv
    <3>2. TextAt(r, c, t, n)
      BY <2>1, <2>3, <3>1
    <3>3. n = Len(r) - Len(c) - Len(t)
      BY <1>6, <3>2, ConsumedIs
    <3> QED BY <1>3, <1>8, <1>10, <3>1, <3>3 DEF Consumed
  <2>5. PlaceInv'
    BY <1>3, <1>8, <1>10, <2>1, <2>3, <2>4 DEF PlaceInv
  <2>6. MarkInv'
    BY <1>1, <1>3, <1>9, <1>11, <2>1, <2>4 DEF MarkInv
  <2>7. LinesRead' = LinesRead
    BY <1>1, <1>3, <1>9, <2>4 DEF LinesRead
  <2>8. UnknownInv'
    BY <1>1 DEF UnknownInv
  <2>9. FrameInv' /\ ItemsInv' /\ ClosedInv'
    BY <1>1, <1>2, <2>7, NoLineRead
  <2> QED BY <2>5, <2>6, <2>8, <2>9
<1>12. CASE ~sawFirstChars /\ buffer = <<>> /\ Consumed = 0
  <2>1. r = f
    <3>1. Len(r) = Len(f) /\ f \in Texts /\ Len(f) \in Nat
      BY <1>5, <1>10, <1>12, TextIs
    <3>2. \A i \in 1..Len(f) : r[i] = f[i]
      <4>1. \A i \in 1..Len(f) : r[0 + Len(b) + i] = f[i]
        BY <1>5, <1>9, <1>10, <1>12 DEF PlaceInv, TextAt
      <4>2. Len(b) = 0
        BY <1>10, <1>12
      <4>3. \A i \in 1..Len(f) : 0 + Len(b) + i = i
        BY <3>1, <4>2
      <4> QED BY <4>1, <4>3
    <3> QED BY <3>1, <3>2, SeqEqual DEF Texts
  <2>2. Prolongs(r, h, t)
    BY <1>7, <2>1 DEF Prolongs
  <2>3. /\ TextAt(r, buffer', t, Opening(r, format)) /\ r # <<>>
        /\ Opening(r, format) \in Nat /\ sawFirstChars'
    <3>1. Buffers(h)
      BY <1>1, <1>5
    <3> QED BY <1>3, <1>6, <1>12, <2>2, <3>1, FirstChunk
  <2>4. PlaceInv' /\ UnknownInv' /\ MarkInv' /\ LinesRead' = NoLines
    <3>1. PICK k \in Nat : k = Opening(r, format)
      BY <2>3
    <3>2. k = Opening(received', format) /\ received' # <<>>
      BY <1>3, <1>10, <2>3, <3>1
    <3>3. TextAt(received', buffer', FlattenSeq(held'), k)
      BY <1>3, <1>8, <1>10, <2>3, <3>1
    <3> QED BY <1>1, <1>3, <2>3, <3>2, <3>3, Begins
  <2>5. LinesRead = NoLines
    BY <1>12, Unread
  <2>6. FrameInv' /\ ItemsInv' /\ ClosedInv'
    BY <1>1, <1>2, <2>4, <2>5, NoLineRead
  <2> QED BY <2>4, <2>6
<1> QED BY <1>1, <1>3, <1>11, <1>12, Begun

\* A line is taken: it is the next line of the text received.
LEMMA LineTaken ==
  ASSUME ReadingInv, TypeInv', TakesLine, format \in Forms
  PROVE  /\ PlaceInv' /\ UnknownInv' /\ MarkInv' /\ Line \in Texts /\ ~closed'
         /\ \E e : Adds(LinesRead, LinesRead', e, Line)
<1> USE DEF ReadingInv
<1>1. /\ LineEnd # 0 /\ buffer' = AfterLine
      /\ UNCHANGED <<received, ended, body, format, held, sawFirstChars, closed>>
  BY DEF TakesLine, bodyVars
<1>2. received \in Texts /\ buffer \in Texts /\ held \in Seq(Texts)
  BY DEF TypeInv
<1>3. format # "unknown" /\ ~closed
  BY <1>1 DEF Forms, ClosedInv
<1>4. Line \in Texts
  BY <1>1, <1>2, LineType
<1>5. PICK n, r, b, h, w, f : /\ n = Consumed /\ r = received /\ b = buffer /\ h = FlattenSeq(held)
                              /\ w = ended /\ f = format
  OBVIOUS
<1>6. /\ n \in Nat /\ Len(r) \in Nat /\ Len(b) \in Nat /\ Len(h) \in Nat /\ h \in Texts
      /\ n + Len(b) + Len(h) = Len(r)
  BY <1>5, TextIs
<1>7. TextAt(r, b, h, n)
  BY <1>5 DEF PlaceInv
<1>8. buffer # <<>>
  <2>1. LineEnd \in 1..Len(buffer)
    BY <1>1, <1>2, LineEndIs
  <2> QED BY <2>1
<1>9. IsMark(received, ended, format, n) /\ received # <<>> /\ (sawFirstChars \/ AtEnd)
  BY <1>3, <1>5, <1>8 DEF MarkInv
<1>10. Placed(n)
  <2>1. n + Len(b) <= Len(r)
    BY <1>6
  <2>2. \A i \in 1..Len(b) : r[n + i] = b[i]
    BY <1>7 DEF TextAt
  <2>3. held = <<>> => n + Len(b) = Len(r)
    <3>1. held = <<>> => Len(h) = 0
      BY <1>5, NothingHeld
    <3> QED BY <1>6, <3>1
  <2> QED BY <1>5, <2>1, <2>2, <2>3 DEF Placed
<1>11. PICK t, e : t = Takes /\ e = n + t
  OBVIOUS
<1>12. /\ t \in 1..Len(buffer)
       /\ AfterLine = SubSeq(buffer, t + 1, Len(buffer))
       /\ e \in Ends(received, ended, format) /\ n < e
       /\ \A i \in Ends(received, ended, format) : n < i => e <= i
       /\ LineAt(received, ended, format, e) = Line
  BY <1>1, <1>2, <1>9, <1>10, <1>11, TakesNext
<1>13. PICK c \in Texts : c = buffer' /\ TextAt(r, c, h, e)
  <2>1. t \in 1..Len(b) /\ b \in Texts /\ r \in Texts
    BY <1>2, <1>5, <1>12
  <2>2. TextAt(r, SubSeq(b, t + 1, Len(b)), h, n + t) /\ SubSeq(b, t + 1, Len(b)) \in Texts
    BY <1>6, <1>7, <2>1, TextTaken
  <2> QED BY <1>1, <1>5, <1>11, <1>12, <2>2
<1>14. Consumed' = e
  <2>1. e = Len(r) - Len(c) - Len(h)
    BY <1>2, <1>5, <1>6, <1>13, ConsumedIs
  <2> QED BY <1>1, <1>5, <1>13, <2>1 DEF Consumed
<1>15. PlaceInv'
  BY <1>1, <1>5, <1>13, <1>14 DEF PlaceInv
<1>16. MarkInv'
  <2>1. IsMark(received, ended, format, e)
    BY <1>12 DEF IsMark
  <2>2. sawFirstChars' \/ AtEnd'
    BY <1>1, <1>9 DEF AtEnd
  <2> QED BY <1>1, <1>9, <1>14, <2>1, <2>2 DEF MarkInv
<1>17. UnknownInv'
  BY <1>1, <1>3 DEF UnknownInv
<1>18. PICK lines, some, more : /\ lines = Lines(r, w, f) /\ some = Upto(lines, n) /\ more = Upto(lines, e)
  OBVIOUS
<1>19. LinesRead = some /\ LinesRead' = more
  BY <1>1, <1>5, <1>14, <1>18 DEF LinesRead
<1>20. Adds(some, more, e, Line)
  <2>1. /\ r \in Texts /\ e \in Ends(r, w, f) /\ IsMark(r, w, f, n) /\ n < e
        /\ \A i \in Ends(r, w, f) : n < i => e <= i
        /\ LineAt(r, w, f, e) = Line
    BY <1>2, <1>5, <1>9, <1>12
  <2>2. /\ e - 1 \in Nat /\ DOMAIN Upto(lines, n) \subseteq 1..e - 1
        /\ DOMAIN Upto(lines, e) = DOMAIN Upto(lines, n) \cup {e}
        /\ \A p \in DOMAIN Upto(lines, n) : Upto(lines, e)[p] = Upto(lines, n)[p]
        /\ Upto(lines, e)[e] = lines[e]
        /\ lines[e] = LineAt(r, w, f, e)
    BY <1>18, <2>1, LinesNext
  <2>3. e \in Nat
    <3>1. e \in 1..Len(r)
      BY <2>1, EndsAfterOpening
    <3> QED BY <1>6, <3>1
  <2>4. some = [p \in DOMAIN some |-> some[p]]
    BY <1>18 DEF Upto
  <2> QED BY <1>18, <2>1, <2>2, <2>3, <2>4 DEF Adds
<1> QED BY <1>1, <1>3, <1>4, <1>15, <1>16, <1>17, <1>19, <1>20

-----------------------------------------------------------------------------
\* A line delivers the item it completes.
Yields(before, item, after) ==
  after = IF item = {} THEN before ELSE Append(before, The(item))

\* The items delivered stay those of the lines read.
LEMMA ItemsTaken ==
  ASSUME ReadingInv, TakesLine, format \in Forms, NEW e, Adds(LinesRead, LinesRead', e, Line),
         Yields(delivered, Item(format, LinesRead, Line), delivered')
  PROVE  ItemsInv' /\ ClosedInv'
<1> USE DEF ReadingInv
<1>1. format' = format /\ closed' = closed /\ format # "unknown" /\ ~closed
  BY DEF TakesLine, Forms, ClosedInv
<1>2. delivered = ValuesInOrder(ItemsOf(format, LinesRead))
  BY <1>1 DEF ItemsInv
<1>3. PICK lines, more, line, f, d : /\ lines = LinesRead /\ more = LinesRead' /\ line = Line
                                     /\ f = format /\ d = delivered
  OBVIOUS
<1>4. ValuesInOrder(ItemsOf(f, more))
      = IF Item(f, lines, line) = {} THEN ValuesInOrder(ItemsOf(f, lines))
        ELSE Append(ValuesInOrder(ItemsOf(f, lines)), The(Item(f, lines, line)))
  <2>1. Adds(lines, more, e, line)
    BY <1>3
  <2> QED BY <2>1, ItemsOfMore
<1>5. delivered' = ValuesInOrder(ItemsOf(f, more))
  BY <1>2, <1>3, <1>4 DEF Yields
<1>6. ItemsInv'
  BY <1>1, <1>3, <1>5 DEF ItemsInv
<1>7. ClosedInv'
  BY <1>1 DEF ClosedInv
<1> QED BY <1>6, <1>7

\* The frame after one more line.
LEMMA FrameTaken ==
  ASSUME NEW lines, NEW more, NEW e, NEW line \in Texts, Adds(lines, more, e, line)
  PROVE  /\ line = <<>> => Data(more) = <<>> /\ Name(more) = {} /\ Id(more) = Id(lines)
         /\ line # <<>> /\ Head(line) \notin Fields =>
              Data(more) = Data(lines) /\ Name(more) = Name(lines) /\ Id(more) = Id(lines)
         /\ line # <<>> /\ Head(line) \in Fields =>
              /\ Data(more) = IF Head(line) = "data:" THEN Append(Data(lines), Valued(line)) ELSE Data(lines)
              /\ Name(more) = IF Head(line) = "event:" THEN {Valued(line)} \ {<<>>} ELSE Name(lines)
              /\ Id(more) = IF Head(line) = "id:" /\ "NUL" \notin ToSet(line) THEN {Valued(line)} ELSE Id(lines)
<1>1. /\ line = <<>> => Data(more) = <<>>
      /\ StartsWith(line, "data:") => Data(more) = Append(Data(lines), Valued(line))
      /\ line # <<>> /\ ~StartsWith(line, "data:") => Data(more) = Data(lines)
  BY DataOfMore
<1>2. /\ line = <<>> => Name(more) = {}
      /\ StartsWith(line, "event:") => Name(more) = {Valued(line)} \ {<<>>}
      /\ line # <<>> /\ ~StartsWith(line, "event:") => Name(more) = Name(lines)
  BY NameOfMore
<1>3. Id(more) = IF StartsWith(line, "id:") /\ "NUL" \notin ToSet(line) THEN {Valued(line)} ELSE Id(lines)
  BY IdOfMore
<1>4. \A field : StartsWith(line, field) <=> line # <<>> /\ Head(line) = field
  BY DEF StartsWith
<1>5. CASE line = <<>>
  BY <1>1, <1>2, <1>3, <1>4, <1>5
<1>6. CASE line # <<>> /\ Head(line) \notin Fields
  <2>1. Head(line) # "data:" /\ Head(line) # "event:" /\ Head(line) # "id:"
    BY <1>6 DEF Fields
  <2> QED BY <1>1, <1>2, <1>3, <1>4, <1>6, <2>1
<1>7. CASE line # <<>> /\ Head(line) \in Fields
  BY <1>1, <1>2, <1>3, <1>4, <1>7
<1> QED BY <1>5, <1>6, <1>7

\* The items of an event stream.
LEMMA SseItemIs ==
  ASSUME NEW lines, NEW line \in Texts
  PROVE  /\ line = <<>> =>
              Item("sse", lines, line) = IF Data(lines) \in {<<>>, <<(<<>>)>>} THEN {}
                                         ELSE {Event(Data(lines), Name(lines), Id(lines))}
         /\ StartsWith(line, ":") => Item("sse", lines, line) = {Comment(Tail(line))}
         /\ line # <<>> /\ Head(line) \in Fields => Item("sse", lines, line) = {}
         /\ line # <<>> /\ Head(line) \notin Fields \cup {":"} =>
              Item("sse", lines, line)
              = IF OpensJson(line) THEN {Problem("json-line-without-data-prefix")} ELSE {}
<1>1. Item("sse", lines, line) = SseItem(lines, line)
  BY DEF Item
<1>2. /\ line = <<>> => ~ StartsWith(line, ":") /\ ~ OpensJson(line)
      /\ StartsWith(line, ":") => line # <<>> /\ ~ OpensJson(line)
  <2>1. line = <<>> => Unindented(line) = <<>>
    <3>1. line = <<>> => \A i \in 1..Len(line) : line[i] \in Blank
      OBVIOUS
    <3> QED BY <3>1, UnindentedIs
  <2>2. StartsWith(line, ":") => line # <<>> /\ Head(line) \in Fields \cup {":"}
    BY DEF StartsWith
  <2> QED BY <2>1, <2>2, OpensNothing DEF OpensJson, StartsWith
<1>3. line = <<>> =>
        Item("sse", lines, line) = IF Data(lines) \in {<<>>, <<(<<>>)>>} THEN {}
                                   ELSE {Event(Data(lines), Name(lines), Id(lines))}
  BY <1>1, <1>2 DEF SseItem
<1>4. StartsWith(line, ":") => Item("sse", lines, line) = {Comment(Tail(line))}
  BY <1>1, <1>2 DEF SseItem
<1>5. line # <<>> /\ Head(line) # ":" =>
        Item("sse", lines, line)
        = IF OpensJson(line) THEN {Problem("json-line-without-data-prefix")} ELSE {}
  BY <1>1 DEF SseItem, StartsWith
<1>6. line # <<>> /\ Head(line) \in Fields => ~OpensJson(line) /\ Head(line) # ":"
  BY OpensNothing DEF Fields
<1> QED BY <1>3, <1>4, <1>5, <1>6

\* The frame of an event stream, as the variables hold it.
LEMMA FrameIs ==
  ASSUME ReadingInv, format = "sse"
  PROVE  dataLines = Data(LinesRead) /\ {eventName} \ {<<>>} = Name(LinesRead) /\ lastId = Id(LinesRead)
BY DEF ReadingInv, FrameInv

\* A blank line keeps the invariant: frame and variables start afresh.
LEMMA DispatchReads ==
  ASSUME ReadingInv, TypeInv', Dispatch
  PROVE  ReadingInv'
<1>1. /\ format = "sse" /\ TakesLine /\ Line = <<>> /\ format \in Forms
      /\ dataLines' = <<>> /\ eventName' = <<>> /\ lastId' = lastId
      /\ IF dataLines \in {<<>>, <<(<<>>)>>} THEN UNCHANGED delivered
         ELSE Delivers(Event(dataLines, {eventName} \ {<<>>}, lastId))
  BY DEF Dispatch, Forms
<1>2. PlaceInv' /\ UnknownInv' /\ MarkInv' /\ Line \in Texts
  BY <1>1, LineTaken
<1>3. PICK e : Adds(LinesRead, LinesRead', e, Line)
  BY <1>1, LineTaken
<1>4. PICK lines, more, line : lines = LinesRead /\ more = LinesRead' /\ line = Line
  OBVIOUS
<1>5. Data(more) = <<>> /\ Name(more) = {} /\ Id(more) = Id(lines)
  BY <1>1, <1>2, <1>3, <1>4, FrameTaken
<1>6. dataLines = Data(lines) /\ {eventName} \ {<<>>} = Name(lines) /\ lastId = Id(lines)
  BY <1>1, <1>4, FrameIs
<1>7. FrameInv'
  <2>1. {eventName'} \ {<<>>} = {}
    BY <1>1
  <2> QED BY <1>1, <1>4, <1>5, <1>6, <2>1 DEF FrameInv
<1>8. Item("sse", lines, line) = IF Data(lines) \in {<<>>, <<(<<>>)>>} THEN {}
                                 ELSE {Event(Data(lines), Name(lines), Id(lines))}
  BY <1>1, <1>2, <1>4, SseItemIs
<1>9. Yields(delivered, Item(format, LinesRead, Line), delivered')
  <2>1. CASE Data(lines) \in {<<>>, <<(<<>>)>>}
    <3>1. delivered' = delivered
      BY <1>1, <1>6, <2>1
    <3> QED BY <1>1, <1>4, <1>8, <2>1, <3>1 DEF Yields
  <2>2. CASE Data(lines) \notin {<<>>, <<(<<>>)>>}
    <3>1. PICK item : item = Event(Data(lines), Name(lines), Id(lines))
      OBVIOUS
    <3>2. delivered' = Append(delivered, item)
      BY <1>1, <1>6, <2>2, <3>1 DEF Delivers
    <3>3. Item(format, LinesRead, Line) = {item} /\ {item} # {}
      BY <1>1, <1>4, <1>8, <2>2, <3>1
    <3>4. The({item}) = item
      BY TheOnly
    <3> QED BY <3>2, <3>3, <3>4 DEF Yields
  <2> QED BY <2>1, <2>2
<1>10. ItemsInv' /\ ClosedInv'
  BY <1>1, <1>3, <1>9, ItemsTaken
<1> QED BY <1>2, <1>7, <1>10 DEF ReadingInv

\* A line that changes nothing of the frame.
LEMMA FrameKept ==
  ASSUME ReadingInv, TypeInv', TakesLine, format = "sse", Line # <<>>, Head(Line) \notin Fields,
         UNCHANGED frameVars
  PROVE  FrameInv'
<1>1. format \in Forms /\ UNCHANGED <<dataLines, eventName, lastId>>
  BY DEF Forms, frameVars
<1>2. Line \in Texts
  BY <1>1, LineTaken
<1>3. PICK e : Adds(LinesRead, LinesRead', e, Line)
  BY <1>1, LineTaken
<1>4. PICK lines, more, line : lines = LinesRead /\ more = LinesRead' /\ line = Line
  OBVIOUS
<1>5. Data(more) = Data(lines) /\ Name(more) = Name(lines) /\ Id(more) = Id(lines)
  BY <1>2, <1>3, <1>4, FrameTaken
<1>6. dataLines = Data(lines) /\ {eventName} \ {<<>>} = Name(lines) /\ lastId = Id(lines)
  BY <1>4, FrameIs
<1> QED BY <1>1, <1>4, <1>5, <1>6 DEF FrameInv

\* A comment keeps the invariant.
LEMMA CommentLineReads ==
  ASSUME ReadingInv, TypeInv', CommentLine
  PROVE  ReadingInv'
<1>1. /\ format = "sse" /\ TakesLine /\ StartsWith(Line, ":") /\ format \in Forms
      /\ Delivers(Comment(Tail(Line))) /\ UNCHANGED frameVars
  BY DEF CommentLine, Forms
<1>2. PlaceInv' /\ UnknownInv' /\ MarkInv' /\ Line \in Texts
  BY <1>1, LineTaken
<1>3. PICK e : Adds(LinesRead, LinesRead', e, Line)
  BY <1>1, LineTaken
<1>4. Line # <<>> /\ Head(Line) \notin Fields
  BY <1>1 DEF StartsWith, Fields
<1>5. FrameInv'
  BY <1>1, <1>4, FrameKept
<1>6. PICK item : item = Comment(Tail(Line))
  OBVIOUS
<1>7. Item(format, LinesRead, Line) = {item} /\ {item} # {}
  <2>0. PICK line \in Texts : line = Line
    BY <1>2
  <2>1. PICK lines : lines = LinesRead
    OBVIOUS
  <2>2. Item("sse", lines, line) = {Comment(Tail(line))}
    BY <1>1, <2>0, SseItemIs
  <2> QED BY <1>1, <1>6, <2>0, <2>1, <2>2
<1>8. Yields(delivered, Item(format, LinesRead, Line), delivered')
  <2>1. delivered' = Append(delivered, item)
    BY <1>1, <1>6 DEF Delivers
  <2>2. The({item}) = item
    BY TheOnly
  <2> QED BY <1>7, <2>1, <2>2 DEF Yields
<1>9. ItemsInv' /\ ClosedInv'
  BY <1>1, <1>3, <1>8, ItemsTaken
<1> QED BY <1>2, <1>5, <1>9 DEF ReadingInv

\* A field keeps the invariant: the variables take what the line adds to the frame.
LEMMA FieldReads ==
  ASSUME ReadingInv, TypeInv', Field
  PROVE  ReadingInv'
<1>1. /\ format = "sse" /\ TakesLine /\ Line # <<>> /\ Head(Line) \in Fields /\ format \in Forms
      /\ dataLines' = IF Head(Line) = "data:" THEN Append(dataLines, Valued(Line)) ELSE dataLines
      /\ eventName' = IF Head(Line) = "event:" THEN Valued(Line) ELSE eventName
      /\ lastId' = IF Head(Line) = "id:" /\ "NUL" \notin ToSet(Line) THEN {Valued(Line)} ELSE lastId
      /\ delivered' = delivered
  BY DEF Field, Forms
<1>2. PlaceInv' /\ UnknownInv' /\ MarkInv' /\ Line \in Texts
  BY <1>1, LineTaken
<1>3. PICK e : Adds(LinesRead, LinesRead', e, Line)
  BY <1>1, LineTaken
<1>4. PICK lines, more, line : lines = LinesRead /\ more = LinesRead' /\ line = Line
  OBVIOUS
<1>5. /\ Data(more) = IF Head(line) = "data:" THEN Append(Data(lines), Valued(line)) ELSE Data(lines)
      /\ Name(more) = IF Head(line) = "event:" THEN {Valued(line)} \ {<<>>} ELSE Name(lines)
      /\ Id(more) = IF Head(line) = "id:" /\ "NUL" \notin ToSet(line) THEN {Valued(line)} ELSE Id(lines)
  BY <1>1, <1>2, <1>3, <1>4, FrameTaken
<1>6. dataLines = Data(lines) /\ {eventName} \ {<<>>} = Name(lines) /\ lastId = Id(lines)
  BY <1>1, <1>4, FrameIs
<1>7. dataLines' = Data(more)
  BY <1>1, <1>4, <1>5, <1>6
<1>8. {eventName'} \ {<<>>} = Name(more)
  BY <1>1, <1>4, <1>5, <1>6
<1>9. lastId' = Id(more)
  BY <1>1, <1>4, <1>5, <1>6
<1>10. FrameInv'
  BY <1>4, <1>7, <1>8, <1>9 DEF FrameInv
<1>11. Item(format, LinesRead, Line) = {}
  <2>1. Item("sse", lines, line) = {}
    BY <1>1, <1>2, <1>4, SseItemIs
  <2> QED BY <1>1, <1>4, <2>1
<1>12. Yields(delivered, Item(format, LinesRead, Line), delivered')
  BY <1>1, <1>11 DEF Yields
<1>13. ItemsInv' /\ ClosedInv'
  BY <1>1, <1>3, <1>12, ItemsTaken
<1> QED BY <1>2, <1>10, <1>13 DEF ReadingInv

\* A line of no known field keeps the invariant.
LEMMA UnknownFieldReads ==
  ASSUME ReadingInv, TypeInv', UnknownField
  PROVE  ReadingInv'
<1>1. /\ format = "sse" /\ TakesLine /\ Line # <<>> /\ Head(Line) \notin Fields \cup {":"} /\ format \in Forms
      /\ IF OpensJson(Line) THEN Delivers(Problem("json-line-without-data-prefix")) ELSE UNCHANGED delivered
      /\ UNCHANGED frameVars
  BY DEF UnknownField, Forms
<1>2. PlaceInv' /\ UnknownInv' /\ MarkInv' /\ Line \in Texts
  BY <1>1, LineTaken
<1>3. PICK e : Adds(LinesRead, LinesRead', e, Line)
  BY <1>1, LineTaken
<1>4. FrameInv'
  BY <1>1, FrameKept
<1>5. PICK item : item = Problem("json-line-without-data-prefix")
  OBVIOUS
<1>6. Item(format, LinesRead, Line) = IF OpensJson(Line) THEN {item} ELSE {}
  <2>0. PICK line \in Texts : line = Line
    BY <1>2
  <2>1. PICK lines : lines = LinesRead
    OBVIOUS
  <2>2. Item("sse", lines, line) = IF OpensJson(line) THEN {Problem("json-line-without-data-prefix")} ELSE {}
    BY <1>1, <2>0, SseItemIs
  <2> QED BY <1>1, <1>5, <2>0, <2>1, <2>2
<1>7. Yields(delivered, Item(format, LinesRead, Line), delivered')
  <2>1. CASE OpensJson(Line)
    <3>1. delivered' = Append(delivered, item) /\ Item(format, LinesRead, Line) = {item} /\ {item} # {}
      BY <1>1, <1>5, <1>6, <2>1 DEF Delivers
    <3>2. The({item}) = item
      BY TheOnly
    <3> QED BY <3>1, <3>2 DEF Yields
  <2>2. CASE ~OpensJson(Line)
    BY <1>1, <1>6, <2>2 DEF Yields
  <2> QED BY <2>1, <2>2
<1>8. ItemsInv' /\ ClosedInv'
  BY <1>1, <1>3, <1>7, ItemsTaken
<1> QED BY <1>2, <1>4, <1>8 DEF ReadingInv

-----------------------------------------------------------------------------
\* _clean: what it hands on is the item of the line.
LEMMA CleansIs ==
  ASSUME NEW line \in Texts, Cleans(line)
  PROVE  Yields(delivered, NdjsonItem(line), delivered')
<1> DEFINE ends == line # <<>> /\ line[Len(line)] = "CR"
           trimmed == IF ends THEN SubSeq(line, 1, Len(line) - 1) ELSE line
<1>1. IF Unindented(trimmed) = <<>> THEN UNCHANGED delivered ELSE Delivers(trimmed)
  BY DEF Cleans
<1>2. Len(line) \in Nat /\ (Len(line) = 0 <=> line = <<>>)
  BY EmptySeq DEF Texts
<1>3. trimmed \in Texts /\ (Unindented(trimmed) = <<>> <=> Unindented(line) = <<>>)
  <2>1. CASE ends
    <3>1. PICK m \in Nat : m = Len(line) /\ m >= 1
      BY <1>2, <2>1
    <3>2. PICK s : s = trimmed
      OBVIOUS
    <3>3. s = SubSeq(line, 1, m - 1)
      BY <2>1, <3>1, <3>2
    <3>4. /\ s \in Texts /\ Len(s) = IF 1 <= m - 1 THEN m - 1 - 1 + 1 ELSE 0
          /\ \A i \in 1..m - 1 - 1 + 1 : s[i] = line[1 + i - 1]
      BY <3>1, <3>3, PieceType
    <3>5. Len(s) = m - 1 /\ \A i \in 1..m - 1 : s[i] = line[i]
      BY <3>1, <3>4
    <3>6. line[m] \in Blank
      BY <2>1, <3>1 DEF Blank
    <3>7. (\A i \in 1..m - 1 : s[i] \in Blank) <=> (\A i \in 1..m : line[i] \in Blank)
      <4>1. ASSUME NEW i \in 1..m, i # m PROVE i \in 1..m - 1
        BY <3>1, <4>1
      <4>2. 1..m - 1 \subseteq 1..m
        BY <3>1
      <4> QED BY <3>5, <3>6, <4>1, <4>2
    <3>8. Unindented(s) = <<>> <=> \A i \in 1..m - 1 : s[i] \in Blank
      BY <3>4, <3>5, UnindentedIs
    <3>9. Unindented(line) = <<>> <=> \A i \in 1..m : line[i] \in Blank
      BY <3>1, UnindentedIs
    <3> QED BY <3>2, <3>4, <3>7, <3>8, <3>9
  <2>2. CASE ~ends
    BY <2>2
  <2> QED BY <2>1, <2>2
<1>4. NdjsonItem(line) = IF Unindented(line) = <<>> THEN {} ELSE {trimmed}
  <2>1. Unindented(<<>>) = <<>>
    <3>1. <<>> \in Texts /\ \A i \in 1..Len(<<>>) : <<>>[i] \in Blank
      BY DEF Texts
    <3> QED BY <3>1, UnindentedIs
  <2>2. CASE line = <<>>
    BY <2>1, <2>2 DEF NdjsonItem
  <2>3. CASE line # <<>>
    BY <2>3 DEF NdjsonItem
  <2> QED BY <2>2, <2>3
<1> HIDE DEF trimmed
<1>5. CASE Unindented(line) = <<>>
  BY <1>1, <1>3, <1>4, <1>5 DEF Yields
<1>6. CASE Unindented(line) # <<>>
  <2>1. delivered' = Append(delivered, trimmed)
    BY <1>1, <1>3, <1>6 DEF Delivers
  <2>2. NdjsonItem(line) = {trimmed} /\ {trimmed} # {}
    BY <1>4, <1>6
  <2>3. The({trimmed}) = trimmed
    BY TheOnly
  <2> QED BY <2>1, <2>2, <2>3 DEF Yields
<1> QED BY <1>5, <1>6

\* A line of NDJSON keeps the invariant.
LEMMA NdjsonLineReads ==
  ASSUME ReadingInv, TypeInv', NdjsonLine
  PROVE  ReadingInv'
<1>1. format = "ndjson" /\ format \in Forms /\ TakesLine /\ Cleans(Line) /\ format' = format
  BY DEF NdjsonLine, TakesLine, Forms
<1>2. PlaceInv' /\ UnknownInv' /\ MarkInv' /\ Line \in Texts
  BY <1>1, LineTaken
<1>3. PICK e : Adds(LinesRead, LinesRead', e, Line)
  BY <1>1, LineTaken
<1>4. Yields(delivered, NdjsonItem(Line), delivered')
  BY <1>1, <1>2, CleansIs
<1>5. NdjsonItem(Line) = Item(format, LinesRead, Line)
  BY <1>1 DEF Item
<1>6. ItemsInv' /\ ClosedInv'
  BY <1>1, <1>3, <1>4, <1>5, ItemsTaken
<1>7. FrameInv'
  BY <1>1 DEF FrameInv
<1> QED BY <1>2, <1>6, <1>7 DEF ReadingInv

\* When the body has ended and no line of the buffer does, every line is read, and the
\* buffer is the rest of the text.
LEMMA AllRead ==
  ASSUME NEW text \in Texts, NEW whole, NEW form, NEW n, IsMark(text, whole, form, n),
         NEW buf \in Texts, TextAt(text, buf, <<>>, n),
         \A i \in 1..Len(buf) : buf[i] # "LF" /\ (form = "sse" => buf[i] # "CR")
  PROVE  /\ Upto(Lines(text, whole, form), n) = Lines(text, whole, form)
         /\ Rest(text, whole, form) = buf
<1>1. /\ n \in Nat /\ Len(text) \in Nat /\ Len(buf) \in Nat /\ n + Len(buf) = Len(text)
      /\ \A i \in 1..Len(buf) : text[n + i] = buf[i]
  <2>1. Len(<<>>) = 0 /\ Len(text) \in Nat /\ Len(buf) \in Nat
    BY DEF Texts
  <2>2. /\ n \in Nat /\ n + Len(buf) + Len(<<>>) = Len(text)
        /\ \A i \in 1..Len(buf) : text[n + i] = buf[i]
    BY DEF TextAt
  <2> QED BY <2>1, <2>2
<1>2. ASSUME NEW i \in Ends(text, whole, form) PROVE i \in 1..Len(text) /\ i <= n
  <2>1. i \in 1..Len(text) /\ IsEnd(text, whole, form, i)
    BY DEF Ends
  <2>2. SUFFICES ASSUME ~ i <= n PROVE FALSE
    BY <2>1
  <2>3. PICK j \in 1..Len(buf) : i = n + j
    <3>1. i - n \in 1..Len(buf) /\ i = n + (i - n)
      BY <1>1, <2>1, <2>2
    <3> QED BY <3>1
  <2>4. text[i] = buf[j]
    BY <1>1, <2>3
  <2> QED BY <2>1, <2>3, <2>4 DEF IsEnd
<1>3. Upto(Lines(text, whole, form), n) = Lines(text, whole, form)
  <2>1. DOMAIN Lines(text, whole, form) = Ends(text, whole, form)
    BY DEF Lines
  <2>2. {p \in Ends(text, whole, form) : p <= n} = Ends(text, whole, form)
    BY <1>2
  <2>3. Lines(text, whole, form) = [p \in Ends(text, whole, form) |-> Lines(text, whole, form)[p]]
    BY DEF Lines
  <2> QED BY <2>1, <2>2, <2>3 DEF Upto
<1>4. Cut(text, whole, form, Len(text) + 1) = n
  <2>1. PICK e : e = Len(text) + 1
    OBVIOUS
  <2>2. e \in Nat /\ n < e
    BY <1>1, <2>1
  <2>3. \A i \in Ends(text, whole, form) : n < i => e <= i
    <3>1. \A i \in 1..Len(text) : i \in Nat
      BY <1>1
    <3> QED BY <1>1, <1>2, <3>1
  <2>4. Cut(text, whole, form, e) = n
    BY <2>2, <2>3, CutIs
  <2> QED BY <2>1, <2>4
<1>5. PICK s : s = SubSeq(text, n + 1, Len(text))
  OBVIOUS
<1>6. /\ s \in Texts
      /\ Len(s) = IF n + 1 <= Len(text) THEN Len(text) - (n + 1) + 1 ELSE 0
      /\ \A i \in 1..Len(text) - (n + 1) + 1 : s[i] = text[n + 1 + i - 1]
  <2>1. n + 1 \in Nat /\ n + 1 >= 1 /\ Len(text) \in Int /\ Len(text) <= Len(text)
    BY <1>1
  <2> QED BY <1>5, <2>1, PieceType
<1>7. Len(s) = Len(buf)
  BY <1>1, <1>6
<1>8. \A i \in 1..Len(buf) : s[i] = buf[i]
  <2>1. ASSUME NEW i \in 1..Len(buf) PROVE s[i] = buf[i]
    <3>1. i \in 1..Len(text) - (n + 1) + 1 /\ n + 1 + i - 1 = n + i
      BY <1>1
    <3> QED BY <1>1, <1>6, <3>1
  <2> QED BY <2>1
<1>9. s = buf
  BY <1>6, <1>7, <1>8, SeqEqual DEF Texts
<1> QED BY <1>3, <1>4, <1>5, <1>9 DEF Rest

\* The items of a text that has ended.
LEMMA LastYields ==
  ASSUME NEW text \in Texts, NEW form, NEW lines, lines = Lines(text, TRUE, form),
         NEW rest, rest = Rest(text, TRUE, form), NEW before, before = ValuesInOrder(ItemsOf(form, lines)),
         NEW after, Yields(before, LastItem(form, lines, rest), after)
  PROVE  after = Items(text, TRUE, form)
<1> DEFINE last == LastItem(form, lines, rest)
           at == ItemsOf(form, lines)
<1>1. Items(text, TRUE, form) = before \o IF last # {} THEN <<The(last)>> ELSE <<>>
  BY DEF Items
<1>2. DOMAIN at \subseteq 1..Len(text) /\ Len(text) \in Nat
  <2>1. DOMAIN lines = Ends(text, TRUE, form) /\ Ends(text, TRUE, form) \subseteq 1..Len(text)
    BY DEF Lines, Ends
  <2>2. DOMAIN at \subseteq DOMAIN lines
    BY DEF ItemsOf
  <2>3. Len(text) \in Nat
    BY DEF Texts
  <2> QED BY <2>1, <2>2, <2>3
<1>3. PICK V : V = {at[p] : p \in DOMAIN at} \cup {The(last)}
  OBVIOUS
<1> HIDE DEF at, last
<1>4. before \in Seq(V)
  <2>0. PICK m \in Nat : m = Len(text)
    BY <1>2
  <2>1. PICK g : g = at
    OBVIOUS
  <2>2. DOMAIN g \subseteq 1..m /\ \A p \in DOMAIN g : g[p] \in V
    BY <1>2, <1>3, <2>0, <2>1
  <2>3. ValuesInOrder(g) \in Seq(V)
    BY <2>2, ValuesInOrderType
  <2> QED BY <2>1, <2>3 DEF at
<1>5. The(last) \in V
  BY <1>3
<1>6. CASE last = {}
  <2>1. after = before
    BY <1>6 DEF Yields, last
  <2>2. before \o <<>> = before
    BY <1>4, ConcatEmptySeq
  <2> QED BY <1>1, <1>6, <2>1, <2>2
<1>7. CASE last # {}
  <2>1. after = Append(before, The(last))
    BY <1>7 DEF Yields, last
  <2>2. Append(before, The(last)) = before \o <<The(last)>>
    BY <1>4, <1>5, AppendIsConcat
  <2> QED BY <1>1, <1>7, <2>1, <2>2
<1> QED BY <1>6, <1>7

\* A reader that has taken every line and knows of no more is at the end of the text.
LEMMA Drained ==
  ASSUME ReadingInv, format \in Forms, AtEnd, LineEnd = 0
  PROVE  LinesRead = Lines(received, TRUE, format) /\ buffer = Rest(received, TRUE, format)
<1> USE DEF ReadingInv
<1>1. held = <<>> /\ ended = TRUE /\ received \in Texts /\ buffer \in Texts /\ format # "unknown"
  BY DEF AtEnd, TypeInv, Forms
<1>2. PICK n, r, b, w, f : n = Consumed /\ r = received /\ b = buffer /\ w = ended /\ f = format
  OBVIOUS
<1>3. TextAt(r, b, <<>>, n)
  BY <1>1, <1>2, NothingHeld DEF PlaceInv
<1>4. IsMark(r, w, f, n)
  <2>1. CASE Consumed = 0 /\ buffer = <<>>
    <3>1. received = <<>>
      BY <1>1, <2>1, NothingReceived
    <3>2. Opening(r, f) = 0
      BY <1>2, <3>1 DEF Opening, StartsWith
    <3> QED BY <1>2, <2>1, <3>2 DEF IsMark
  <2>2. CASE IsMark(received, ended, format, Consumed)
    BY <1>2, <2>2
  <2> QED BY <1>1, <2>1, <2>2 DEF MarkInv
<1>5. \A i \in 1..Len(b) : b[i] # "LF" /\ (f = "sse" => b[i] # "CR")
  BY <1>1, <1>2, NoLineEnds
<1>6. Upto(Lines(r, w, f), n) = Lines(r, w, f) /\ Rest(r, w, f) = b
  <2>1. r \in Texts /\ b \in Texts
    BY <1>1, <1>2
  <2>2. Upto(Lines(r, w, f), n) = Lines(r, w, f)
    BY <1>3, <1>4, <1>5, <2>1, AllRead
  <2>3. Rest(r, w, f) = b
    BY <1>3, <1>4, <1>5, <2>1, AllRead
  <2> QED BY <2>2, <2>3
<1> QED BY <1>1, <1>2, <1>6 DEF LinesRead

\* The end of a line in a buffer that stays.
LEMMA SameEnd ==
  ASSUME UNCHANGED <<format, buffer, held, ended>>
  PROVE  LineEnd' = LineEnd /\ (AtEnd' <=> AtEnd)
<1>1. format' = format /\ buffer' = buffer /\ held' = held /\ (ended' <=> ended)
  OBVIOUS
<1>2. AtEnd' <=> AtEnd
  BY <1>1, Zenon DEF AtEnd
<1>3. Find("CR")' = Find("CR") /\ Find("LF")' = Find("LF")
  BY <1>1 DEF Find, SelectInSeq
<1>4. EndsWithCR' <=> EndsWithCR
  BY <1>1, <1>2, <1>3 DEF EndsWithCR
<1>5. WaitsForLF' <=> WaitsForLF
  BY <1>3, <1>4 DEF WaitsForLF
<1>6. LineEnd' = LineEnd
  BY <1>1, <1>3, <1>4, <1>5 DEF LineEnd
<1> QED BY <1>2, <1>6

\* The end of a reader.
LEMMA Closes ==
  ASSUME ReadingInv, TypeInv', format \in Forms, AtEnd, LineEnd = 0, ~closed, closed' = TRUE,
         UNCHANGED <<bodyVars, format, held, bufferVars, frameVars>>,
         Yields(delivered, LastItem(format, LinesRead, buffer), delivered')
  PROVE  ReadingInv'
<1> USE DEF ReadingInv
<1>1. /\ PlaceInv' /\ Consumed' = Consumed
      /\ UNCHANGED <<received, ended, held, buffer, sawFirstChars, dataLines, eventName, lastId, format>>
  BY SameText DEF frameVars
<1>2. LinesRead' = LinesRead
  BY <1>1 DEF LinesRead
<1>3. MarkInv'
  BY <1>1 DEF MarkInv, AtEnd
<1>4. UnknownInv'
  BY <1>1 DEF UnknownInv, Forms
<1>5. FrameInv'
  BY <1>1, <1>2 DEF FrameInv
<1>6. ItemsInv'
  BY DEF ItemsInv
<1>7. ended = TRUE /\ received \in Texts /\ format # "unknown"
  BY DEF AtEnd, TypeInv, Forms
<1>8. delivered' = Items(received, TRUE, format)
  <2>0. PICK t \in Texts : t = received
    BY <1>7
  <2>1. PICK f, lines, rest, before, after :
          /\ f = format /\ lines = LinesRead /\ rest = buffer
          /\ before = delivered /\ after = delivered'
    OBVIOUS
  <2>2. lines = Lines(t, TRUE, f) /\ rest = Rest(t, TRUE, f)
    BY <2>0, <2>1, Drained
  <2>3. before = ValuesInOrder(ItemsOf(f, lines))
    BY <1>7, <2>1 DEF ItemsInv
  <2>4. Yields(before, LastItem(f, lines, rest), after)
    BY <2>1
  <2>5. after = Items(t, TRUE, f)
    BY <2>2, <2>3, <2>4, LastYields
  <2> QED BY <2>0, <2>1, <2>5
<1>9. delivered' = Items(received', ended', format')
  BY <1>1, <1>7, <1>8
<1>10. AtEnd' /\ LineEnd' = LineEnd
  BY <1>1, SameEnd
<1>11. ClosedInv'
  BY <1>1, <1>7, <1>9, <1>10 DEF ClosedInv
<1> QED BY <1>1, <1>3, <1>4, <1>5, <1>6, <1>11

\* The end of sse_items keeps the invariant.
LEMMA CloseStreamReads ==
  ASSUME ReadingInv, TypeInv', CloseStream
  PROVE  ReadingInv'
<1>1. /\ format = "sse" /\ format \in Forms /\ AtEnd /\ LineEnd = 0 /\ ~closed /\ closed' = TRUE
      /\ IF buffer # <<>> \/ dataLines # <<>> THEN Delivers(Problem("truncated-frame"))
         ELSE UNCHANGED delivered
      /\ UNCHANGED <<bodyVars, format, held, bufferVars, frameVars>>
  BY DEF CloseStream, Forms
<1>2. dataLines = Data(LinesRead)
  BY <1>1, FrameIs
<1>3. PICK item : item = Problem("truncated-frame")
  OBVIOUS
<1>4. LastItem(format, LinesRead, buffer) = IF buffer # <<>> \/ dataLines # <<>> THEN {item} ELSE {}
  BY <1>1, <1>2, <1>3 DEF LastItem, Truncated
<1>5. Yields(delivered, LastItem(format, LinesRead, buffer), delivered')
  <2>1. CASE buffer # <<>> \/ dataLines # <<>>
    <3>1. delivered' = Append(delivered, item)
      BY <1>1, <1>3, <2>1 DEF Delivers
    <3>2. LastItem(format, LinesRead, buffer) = {item} /\ {item} # {} /\ The({item}) = item
      BY <1>4, <2>1, TheOnly
    <3> QED BY <3>1, <3>2 DEF Yields
  <2>2. CASE ~(buffer # <<>> \/ dataLines # <<>>)
    BY <1>1, <1>4, <2>2 DEF Yields
  <2> QED BY <2>1, <2>2
<1> QED BY <1>1, <1>5, Closes

\* The end of ndjson_lines keeps the invariant.
LEMMA CloseLinesReads ==
  ASSUME ReadingInv, TypeInv', CloseLines
  PROVE  ReadingInv'
<1>1. /\ format = "ndjson" /\ format \in Forms /\ AtEnd /\ LineEnd = 0 /\ ~closed /\ closed' = TRUE
      /\ Cleans(buffer)
      /\ UNCHANGED <<bodyVars, format, held, bufferVars, frameVars>>
  BY DEF CloseLines, Forms
<1>2. buffer \in Texts
  BY DEF ReadingInv, TypeInv
<1>3. Yields(delivered, NdjsonItem(buffer), delivered')
  BY <1>1, <1>2, CleansIs
<1>4. NdjsonItem(buffer) = LastItem(format, LinesRead, buffer)
  BY <1>1 DEF LastItem
<1> QED BY <1>1, <1>3, <1>4, Closes

-----------------------------------------------------------------------------
\* The invariant holds of a reader that has read nothing.
LEMMA ReadingInit == FramingInit => ReadingInv
<1> SUFFICES ASSUME FramingInit PROVE ReadingInv
  OBVIOUS
<1>1. /\ body \in Bodies /\ received = <<>> /\ ended = FALSE /\ delivered = <<>> /\ held = <<>>
      /\ buffer = <<>> /\ sawFirstChars = FALSE /\ dataLines = <<>> /\ eventName = <<>>
      /\ lastId = {} /\ closed = FALSE /\ format \in body.formats
  BY DEF FramingInit
<1>2. <<>> \in Texts /\ <<>> \in Seq(Texts) /\ FlattenSeq(<<>>) = <<>> /\ Len(<<>>) = 0
  BY NothingHeld
<1>3. format \in Forms \cup {"unknown"}
  BY <1>1, FramingAssumption DEF Forms
<1>4. TypeInv
  <2>1. /\ received \in Texts
        /\ buffer \in Texts
        /\ eventName \in Texts
        /\ held \in Seq(Texts)
        /\ dataLines \in Seq(Texts)
    BY <1>1, <1>2
  <2>2. \A i \in 1..Len(held) : held[i] # <<>>
    BY <1>1, <1>2
  <2>3. lastId \in SUBSET Texts /\ lastId = {}
    BY <1>1
  <2> QED BY <1>1, <1>3, <2>1, <2>2, <2>3 DEF TypeInv
<1>5. Consumed = 0
  BY <1>1, <1>2 DEF Consumed
<1>6. TextAt(<<>>, <<>>, <<>>, 0)
  BY <1>2 DEF TextAt
<1>7. PlaceInv
  BY <1>1, <1>2, <1>5, <1>6 DEF PlaceInv
<1>8. UnknownInv /\ MarkInv /\ ClosedInv
  BY <1>1, <1>2, <1>5 DEF UnknownInv, MarkInv, ClosedInv
<1>9. LinesRead = NoLines
  BY <1>4, <1>5, Unread
<1>10. FrameInv /\ ItemsInv
  <2>1. {eventName} \ {<<>>} = {}
    BY <1>1
  <2> QED BY <1>1, <1>9, <2>1, NothingOf DEF FrameInv, ItemsInv
<1> QED BY <1>4, <1>7, <1>8, <1>10 DEF ReadingInv

\* Every step keeps the invariant.
LEMMA ReadingStep == ReadingInv /\ [FramingNext]_framingVars => ReadingInv'
<1> SUFFICES ASSUME ReadingInv, [FramingNext]_framingVars PROVE ReadingInv'
  OBVIOUS
<1>1. TypeInv'
  BY TypesStep DEF ReadingInv
<1>2. CASE Receive
  BY <1>1, <1>2, ReceiveReads
<1>3. CASE EndOfBody
  BY <1>1, <1>3, EndOfBodyReads
<1>4. CASE Decide
  BY <1>1, <1>4, DecideReads
<1>5. CASE Replay
  BY <1>1, <1>5, ReplayReads
<1>6. CASE Dispatch
  BY <1>1, <1>6, DispatchReads
<1>7. CASE CommentLine
  BY <1>1, <1>7, CommentLineReads
<1>8. CASE Field
  BY <1>1, <1>8, FieldReads
<1>9. CASE UnknownField
  BY <1>1, <1>9, UnknownFieldReads
<1>10. CASE CloseStream
  BY <1>1, <1>10, CloseStreamReads
<1>11. CASE NdjsonLine
  BY <1>1, <1>11, NdjsonLineReads
<1>12. CASE CloseLines
  BY <1>1, <1>12, CloseLinesReads
<1>13. CASE UNCHANGED framingVars
  <2>1. UNCHANGED <<body, received, ended, format, delivered, held, buffer, sawFirstChars, dataLines, eventName,
                    lastId, closed>>
    BY <1>13 DEF framingVars, bodyVars, bufferVars, frameVars
  <2>2. Consumed' = Consumed /\ LineEnd' = LineEnd /\ (AtEnd' <=> AtEnd)
    <3>1. Consumed' = Consumed
      BY <2>1 DEF Consumed
    <3> QED BY <2>1, <3>1, SameEnd
  <2>3. LinesRead' = LinesRead
    BY <2>1, <2>2 DEF LinesRead
  <2>4. PlaceInv' /\ UnknownInv' /\ MarkInv'
    BY <2>1, <2>2 DEF ReadingInv, PlaceInv, UnknownInv, MarkInv
  <2>5. FrameInv' /\ ItemsInv' /\ ClosedInv'
    BY <2>1, <2>2, <2>3 DEF ReadingInv, FrameInv, ItemsInv, ClosedInv
  <2> QED BY <1>1, <2>4, <2>5 DEF ReadingInv
<1> QED BY <1>2, <1>3, <1>4, <1>5, <1>6, <1>7, <1>8, <1>9, <1>10, <1>11, <1>12, <1>13 DEF FramingNext, Reads

\* However the body is cut, what stands in the buffer, in the frame and among the items
\* delivered is what the text read so far makes of them.
THEOREM ReadingInvHolds == FramingSpec => []ReadingInv
BY ReadingInit, ReadingStep, PTL DEF FramingSpec

\* A text that another one ends with.
LEMMA SuffixIs ==
  ASSUME NEW text \in Texts, NEW rest \in Texts, NEW n \in Nat, n + Len(rest) = Len(text),
         \A i \in 1..Len(rest) : text[n + i] = rest[i]
  PROVE  IsSuffix(rest, text)
<1>1. PICK a, b : a = Reverse(rest) /\ b = Reverse(text)
  OBVIOUS
<1>2. Len(text) \in Nat /\ Len(rest) \in Nat
  BY DEF Texts
<1>3. PICK m \in Nat, k \in Nat : m = Len(rest) /\ k = Len(text) /\ n + m = k
  BY <1>2
<1>4. a = [i \in 1..m |-> rest[m - i + 1]] /\ b = [i \in 1..k |-> text[k - i + 1]]
  BY <1>1, <1>3 DEF Reverse
<1>5. \A i \in 1..m : a[i] \in Symbols
  <2>1. \A i \in 1..m : m - i + 1 \in 1..m
    BY <1>3
  <2>2. \A i \in 1..m : rest[i] \in Symbols
    BY <1>3 DEF Texts
  <2> QED BY <1>4, <2>1, <2>2
<1>6. \A i \in 1..k : b[i] \in Symbols
  <2>1. \A i \in 1..k : k - i + 1 \in 1..k
    BY <1>3
  <2>2. \A i \in 1..k : text[i] \in Symbols
    BY <1>3 DEF Texts
  <2> QED BY <1>4, <2>1, <2>2
<1>7. a \in Texts /\ b \in Texts /\ Len(a) = m /\ Len(b) = k
  <2>1. a \in [1..m -> Symbols] /\ b \in [1..k -> Symbols]
    BY <1>4, <1>5, <1>6
  <2>2. a \in Seq(Symbols) /\ b \in Seq(Symbols)
    BY <2>1, IsASeq
  <2> QED BY <2>1, <2>2, LenProperties DEF Texts
<1>8. \A i \in 1..m : a[i] = b[i]
  <2> TAKE i \in 1..m
  <2>1. i \in 1..k /\ m - i + 1 \in 1..m /\ k - i + 1 = n + (m - i + 1)
    BY <1>3
  <2>2. text[n + (m - i + 1)] = rest[m - i + 1]
    BY <1>3, <2>1
  <2> QED BY <1>4, <2>1, <2>2
<1>9. PICK s, t : s = SubSeq(a, 1, m) /\ t = SubSeq(b, 1, m)
  OBVIOUS
<1>10. /\ s \in Texts /\ Len(s) = IF 1 <= m THEN m - 1 + 1 ELSE 0
       /\ \A i \in 1..m - 1 + 1 : s[i] = a[1 + i - 1]
  <2>1. m \in Int /\ 1 \in Nat /\ 1 >= 1 /\ m <= Len(a) /\ a \in Texts
    BY <1>3, <1>7
  <2>2. PICK d : d = 1
    OBVIOUS
  <2>3. d \in Nat /\ d >= 1
    BY <2>1, <2>2
  <2>4. s = SubSeq(a, d, m)
    BY <1>9, <2>2
  <2>5. /\ s \in Texts /\ Len(s) = IF d <= m THEN m - d + 1 ELSE 0
        /\ \A i \in 1..m - d + 1 : s[i] = a[d + i - 1]
    <3> QED BY <2>1, <2>3, <2>4, PieceType
  <2> QED BY <2>2, <2>5
<1>11. /\ t \in Texts /\ Len(t) = IF 1 <= m THEN m - 1 + 1 ELSE 0
       /\ \A i \in 1..m - 1 + 1 : t[i] = b[1 + i - 1]
  <2>1. m \in Int /\ 1 \in Nat /\ 1 >= 1 /\ m <= Len(b) /\ b \in Texts
    BY <1>3, <1>7
  <2>2. PICK d : d = 1
    OBVIOUS
  <2>3. d \in Nat /\ d >= 1
    BY <2>1, <2>2
  <2>4. t = SubSeq(b, d, m)
    BY <1>9, <2>2
  <2>5. /\ t \in Texts /\ Len(t) = IF d <= m THEN m - d + 1 ELSE 0
        /\ \A i \in 1..m - d + 1 : t[i] = b[d + i - 1]
    <3> QED BY <2>1, <2>3, <2>4, PieceType
  <2> QED BY <2>2, <2>5
<1>12. Len(s) = m /\ Len(t) = m /\ \A i \in 1..m : s[i] = a[i] /\ t[i] = b[i]
  BY <1>3, <1>10, <1>11
<1>13. \A i \in 1..m : s[i] = t[i]
  BY <1>8, <1>12
<1>14. s = t
  BY <1>10, <1>11, <1>12, <1>13, SeqEqual DEF Texts
<1> QED BY <1>1, <1>3, <1>7, <1>9, <1>14 DEF IsSuffix, IsPrefix

\* A set of one or no element.
LEMMA IdOnce ==
  ASSUME NEW S, S = {} \/ \E id : S = {id}
  PROVE  Cardinality(S) <= 1
<1>1. CASE S = {}
  BY <1>1, FS_EmptySet
<1>2. CASE \E id : S = {id}
  BY <1>2, FS_Singleton
<1> QED BY <1>1, <1>2

\* The types follow from the invariant.
LEMMA ReadingType == ReadingInv => FramingTypeOK
<1> SUFFICES ASSUME ReadingInv PROVE FramingTypeOK
  OBVIOUS
<1> USE DEF ReadingInv
<1>1. /\ received \in Texts /\ buffer \in Texts /\ eventName \in Texts
      /\ held \in Seq(Texts) /\ dataLines \in Seq(Texts)
      /\ lastId \in SUBSET Texts
  BY DEF TypeInv
<1>2. Cardinality(lastId) <= 1
  BY IdOnce DEF TypeInv
<1>3. format \in {"sse", "ndjson", "unknown"}
  BY DEF TypeInv, Forms
<1>4. {ended, sawFirstChars, closed} \subseteq BOOLEAN
  <2>1. ended \in BOOLEAN /\ sawFirstChars \in BOOLEAN /\ closed \in BOOLEAN
    BY DEF TypeInv
  <2> QED BY <2>1
<1>5. format = "unknown" => delivered = <<>> /\ buffer = <<>> /\ FlattenSeq(held) = received
  BY DEF UnknownInv
<1>6. IsSuffix(FlattenSeq(held), received)
  <2>1. PICK r \in Texts, b \in Texts, h \in Texts, n \in Nat :
          r = received /\ b = buffer /\ h = FlattenSeq(held) /\ n = Consumed
    BY <1>1, TextIs
  <2>2. /\ n + Len(b) + Len(h) = Len(r)
        /\ \A i \in 1..Len(h) : r[n + Len(b) + i] = h[i]
    BY <2>1 DEF PlaceInv, TextAt
  <2>3. PICK m \in Nat : m = n + Len(b)
    <3>1. Len(b) \in Nat
      BY DEF Texts
    <3> QED BY <3>1
  <2>4. IsSuffix(h, r)
    BY <2>2, <2>3, SuffixIs
  <2> QED BY <2>1, <2>4
<1>7. closed => AtEnd /\ LineEnd = 0
  BY DEF ClosedInv
<1> QED BY <1>1, <1>2, <1>3, <1>4, <1>5, <1>6, <1>7 DEF FramingTypeOK

\* The variables of the readers keep their types; until the format is known nothing is
\* parsed, and the chunks still held are the end of the text received; a reader that has
\* returned left no finished line (sse_items, ndjson_lines, _sniff_format).
THEOREM FramingTypeCorrect == FramingSpec => []FramingTypeOK
BY ReadingInvHolds, ReadingType, PTL

\* The operators of the abstract specification are those of StreamText, one layer after
\* the other: those of Positions are the same,
LEMMA SamePositions ==
  /\ \A S : Stream!Latest(S) = Latest(S) /\ Stream!The(S) = The(S)
  /\ \A f : Stream!ValuesInOrder(f) = ValuesInOrder(f)
<1>1. \A S : Stream!Latest(S) = Latest(S)
  BY DEF Stream!Latest, Latest
<1>2. \A S : Stream!The(S) = The(S)
  BY DEF Stream!The, The
<1>3. \A S : Stream!Cardinality(S) = Cardinality(S)
  BY DEF Stream!Cardinality, Cardinality
<1>4. \A S, k : Stream!Nth(S, k) = Nth(S, k)
  BY <1>3 DEF Stream!Nth, Nth
<1>5. \A f : Stream!ValuesInOrder(f) = ValuesInOrder(f)
  BY <1>2, <1>3, <1>4 DEF Stream!ValuesInOrder, ValuesInOrder
<1> QED BY <1>1, <1>2, <1>5

\* ... so are those of StreamText,
LEMMA SameTexts ==
  /\ \A text, symbol : Stream!StartsWith(text, symbol) <=> StartsWith(text, symbol)
  /\ \A text : Stream!Unindented(text) = Unindented(text)
  /\ \A text : Stream!OpensJson(text) <=> OpensJson(text)
  /\ \A text : Stream!FirstLine(text) = FirstLine(text)
  /\ \A text : Stream!Valued(text) = Valued(text)
  /\ \A text : Stream!ToSet(text) = ToSet(text)
<1>1. \A text, symbol : Stream!StartsWith(text, symbol) <=> StartsWith(text, symbol)
  BY DEF Stream!StartsWith, StartsWith
<1>2. \A S : Stream!Min(S) = Min(S)
  BY DEF Stream!Min, Min
<1>3. \A text : Stream!Unindented(text) = Unindented(text)
  BY <1>2 DEF Stream!Unindented, Unindented, Stream!SelectInSeq, SelectInSeq, Stream!Blank, Blank
<1>4. \A text : Stream!FirstLine(text) = FirstLine(text)
  BY <1>2 DEF Stream!FirstLine, FirstLine, Stream!SelectInSeq, SelectInSeq
<1>5. \A text : Stream!OpensJson(text) <=> OpensJson(text)
  BY <1>1, <1>3 DEF Stream!OpensJson, OpensJson
<1>6. \A text : Stream!Valued(text) = Valued(text)
  BY <1>1 DEF Stream!Valued, Valued
<1>7. \A text : Stream!ToSet(text) = ToSet(text)
  BY DEF Stream!ToSet, ToSet
<1> QED BY <1>1, <1>3, <1>4, <1>5, <1>6, <1>7

\* the lines,
LEMMA SameLines ==
  /\ \A text, whole, form : Stream!Lines(text, whole, form) = Lines(text, whole, form)
  /\ \A text, whole, form : Stream!Rest(text, whole, form) = Rest(text, whole, form)
  /\ \A lines, n : Stream!Upto(lines, n) = Upto(lines, n)
<1>1. \A text, form : Stream!Opening(text, form) = Opening(text, form)
  BY SameTexts DEF Stream!Opening, Opening
<1>2. \A text, whole, form : Stream!Ends(text, whole, form) = Ends(text, whole, form)
  BY DEF Stream!Ends, Ends, Stream!IsEnd, IsEnd
<1>3. \A text, whole, form, e : Stream!Cut(text, whole, form, e) = Cut(text, whole, form, e)
  BY <1>1, <1>2, SamePositions DEF Stream!Cut, Cut
<1>4. \A text, whole, form, e : Stream!LineAt(text, whole, form, e) = LineAt(text, whole, form, e)
  BY <1>3 DEF Stream!LineAt, LineAt
<1>5. \A text, whole, form : Stream!Lines(text, whole, form) = Lines(text, whole, form)
  BY <1>2, <1>4 DEF Stream!Lines, Lines
<1>6. \A text, whole, form : Stream!Rest(text, whole, form) = Rest(text, whole, form)
  BY <1>3 DEF Stream!Rest, Rest
<1>7. \A lines, n : Stream!Upto(lines, n) = Upto(lines, n)
  BY DEF Stream!Upto, Upto
<1> QED BY <1>5, <1>6, <1>7

\* the frame,
LEMMA SameFrame ==
  \A lines : /\ Stream!Data(lines) = Data(lines)
             /\ Stream!Name(lines) = Name(lines)
             /\ Stream!Id(lines) = Id(lines)
<1>1. \A lines : Stream!Frame(lines) = Frame(lines)
  BY DEF Stream!Frame, Frame
<1>2. \A lines, field : Stream!Having(lines, field) = Having(lines, field)
  BY SameTexts DEF Stream!Having, Having
<1>3. \A lines : Stream!Data(lines) = Data(lines)
  BY <1>1, <1>2, SameTexts, SamePositions DEF Stream!Data, Data
<1>4. \A lines : Stream!Name(lines) = Name(lines)
  BY <1>1, <1>2, SameTexts, SamePositions DEF Stream!Name, Name
<1>5. \A lines : Stream!Id(lines) = Id(lines)
  BY <1>2, SameTexts, SamePositions DEF Stream!Id, Id
<1> QED BY <1>3, <1>4, <1>5

\* and the items.
LEMMA SameItems ==
  \A text, whole, form : Stream!Items(text, whole, form) = Items(text, whole, form)
<1>1. \A lines, line : Stream!SseItem(lines, line) = SseItem(lines, line)
  <2>1. \A data, name, id : Stream!Event(data, name, id) = Event(data, name, id)
    BY DEF Stream!Event, Event
  <2>2. \A text : Stream!Comment(text) = Comment(text) /\ Stream!Problem(text) = Problem(text)
    BY DEF Stream!Comment, Comment, Stream!Problem, Problem
  <2> TAKE lines, line
  <2>3. /\ Stream!Data(lines) = Data(lines)
        /\ Stream!Name(lines) = Name(lines)
        /\ Stream!Id(lines) = Id(lines)
        /\ (Stream!StartsWith(line, ":") <=> StartsWith(line, ":"))
        /\ (Stream!OpensJson(line) <=> OpensJson(line))
    BY SameFrame, SameTexts
  <2> QED BY <2>1, <2>2, <2>3 DEF Stream!SseItem, SseItem
<1>2. \A line : Stream!NdjsonItem(line) = NdjsonItem(line)
  BY SameTexts DEF Stream!NdjsonItem, NdjsonItem
<1>3. \A form, lines, line : Stream!Item(form, lines, line) = Item(form, lines, line)
  BY <1>1, <1>2 DEF Stream!Item, Item
<1>4. \A lines, rest : Stream!Truncated(lines, rest) = Truncated(lines, rest)
  BY SameFrame DEF Stream!Truncated, Truncated, Stream!Problem, Problem
<1>5. \A form, lines, rest : Stream!LastItem(form, lines, rest) = LastItem(form, lines, rest)
  BY <1>2, <1>4 DEF Stream!LastItem, LastItem
<1>6. \A form, lines : Stream!ItemsOf(form, lines) = ItemsOf(form, lines)
  BY <1>3, SameLines, SamePositions DEF Stream!ItemsOf, ItemsOf
<1> QED BY <1>5, <1>6, SameLines, SamePositions DEF Stream!Items, Items

\* A text that goes on is longer.
LEMMA GoesOnStrictly ==
  ASSUME NEW text \in Texts, NEW more \in Texts, more # <<>>, NEW u, u = text \o more
  PROVE  Stream!IsStrictPrefix(text, u)
<1>1. /\ Len(text) \in Nat /\ Len(more) \in Nat /\ Len(more) # 0
      /\ Len(u) = Len(text) + Len(more) /\ u \in Texts
  BY EmptySeq DEF Texts
<1>2. text # u
  BY <1>1
<1>3. SubSeq(u, 1, Len(text)) = SubSeq(text, 1, Len(text))
  <2>1. PICK m \in Nat : m = Len(text)
    BY <1>1
  <2>2. m \in Int /\ 1 \in Nat /\ 1 >= 1 /\ m <= Len(text)
    BY <2>1
  <2>3. SubSeq(text \o more, 1, m) = SubSeq(text, 1, m)
    BY <2>2, PieceOfMore
  <2> QED BY <2>1, <2>3
<1> QED BY <1>1, <1>2, <1>3 DEF Stream!IsStrictPrefix, Stream!IsPrefix

\* Receive is the arrival of text.
LEMMA ReceiveArrives ==
  ASSUME ReadingInv, Receive
  PROVE  Stream!Arrive
<1>1. PICK n \in 1..MaxChunk : \E chunk \in [1..n -> body.symbols] : received' = received \o chunk
  BY DEF Receive
<1>2. PICK chunk \in [1..n -> body.symbols] : received' = received \o chunk
  BY <1>1
<1>3. body \in Bodies /\ received \in Texts
  BY DEF ReadingInv, TypeInv
<1>4. chunk \in Texts /\ chunk # <<>>
  BY <1>3, ChunkType
<1>0. PICK t \in Texts : t = received
  BY <1>3
<1>5. PICK u : u = received'
  OBVIOUS
<1>6. u = t \o chunk
  BY <1>0, <1>2, <1>5
<1>7. Stream!IsStrictPrefix(t, u)
  BY <1>4, <1>6, GoesOnStrictly
<1> QED BY <1>0, <1>5, <1>7 DEF Receive, Stream!Arrive

\* EndOfBody is the end of the text.
LEMMA EndOfBodyEnds ==
  ASSUME ReadingInv, EndOfBody
  PROVE  Stream!End
<1>1. PICK remainder \in {<<>>, <<"x">>} : received' = received \o remainder
  BY DEF EndOfBody
<1>2. received \in Seq(Symbols) /\ "x" \in Symbols
  BY DEF ReadingInv, TypeInv, Texts, Symbols
<1>3. received \o <<>> = received
  BY <1>2, ConcatEmptySeq
<1>4. received \o <<"x">> = Append(received, "x")
  <2>1. PICK t \in Seq(Symbols), x \in Symbols : t = received /\ x = "x"
    BY <1>2
  <2>2. Append(t, x) = t \o <<x>>
    BY AppendIsConcat
  <2> QED BY <2>1, <2>2
<1>5. received' \in {received, Append(received, "x")}
  BY <1>1, <1>3, <1>4
<1> QED BY <1>5 DEF EndOfBody, Stream!End

\* _sniff_format: enough was read to tell, or nothing but white space.
LEMMA DecideGuesses ==
  ASSUME ReadingInv, Decide
  PROVE  Stream!Guess
<1>1. /\ format = "unknown" /\ ~Sniffs
      /\ format' = IF OpensJson(FirstLine(FlattenSeq(held))) THEN "ndjson" ELSE "sse"
      /\ UNCHANGED <<received, ended, delivered>>
  BY DEF Decide, bodyVars
<1>2. FlattenSeq(held) = received /\ received \in Texts
  BY <1>1 DEF ReadingInv, UnknownInv, TypeInv
<1>3. PICK first : first = FirstLine(received)
  OBVIOUS
<1>4. /\ first \in Texts
      /\ "LF" \notin ToSet(received) => first = received
      /\ "LF" \in ToSet(received) => first # received
  BY <1>2, <1>3, FirstLineIs
<1>5. (format' = "ndjson" <=> OpensJson(first)) /\ format' \in {"sse", "ndjson"}
  BY <1>1, <1>2, <1>3
<1>6. \/ ended \/ first # received \/ Unindented(first) # <<>>
      \/ \A i \in 1..SniffLimit : i \in DOMAIN first /\ first[i] \in Blank
  <2>1. SUFFICES ASSUME ~ended, first = received, Unindented(first) = <<>>
                 PROVE  \A i \in 1..SniffLimit : i \in DOMAIN first /\ first[i] \in Blank
    OBVIOUS
  <2>2. "LF" \notin ToSet(received)
    BY <1>4, <2>1
  <2>3. ~(Len(received) < SniffLimit)
    BY <1>1, <2>1, <2>2 DEF Sniffs
  <2>4. \A i \in 1..Len(first) : first[i] \in Blank
    BY <1>4, <2>1, UnindentedIs
  <2>5. SniffLimit \in Nat /\ Len(first) \in Nat /\ DOMAIN first = 1..Len(first)
    BY <1>4, FramingAssumption DEF Texts
  <2>6. 1..SniffLimit \subseteq 1..Len(first)
    BY <2>1, <2>3, <2>5
  <2> QED BY <2>4, <2>5, <2>6
<1>7. /\ Stream!FirstLine(received) = first /\ Stream!Unindented(first) = Unindented(first)
      /\ (Stream!OpensJson(first) <=> OpensJson(first)) /\ Stream!Blank = Blank
  BY <1>3, SameTexts DEF Stream!Blank, Blank
<1> QED BY <1>1, <1>5, <1>6, <1>7 DEF Stream!Guess

-----------------------------------------------------------------------------
\* A sequence of items that others follow.
OpensWith(now, items) == \A k \in 1..Len(now) : k \in DOMAIN items /\ items[k] = now[k]

\* The items of the lines read begin the items of the text.
LEMMA Settled ==
  ASSUME NEW text \in Texts, NEW whole, NEW form, NEW n \in Nat
  PROVE  OpensWith(ValuesInOrder(ItemsOf(form, Upto(Lines(text, whole, form), n))), Items(text, whole, form))
<1> DEFINE last == LastItem(form, Lines(text, whole, form), Rest(text, whole, form))
<1>9. PICK now, items : /\ now = ValuesInOrder(ItemsOf(form, Upto(Lines(text, whole, form), n)))
                        /\ items = Items(text, whole, form)
  OBVIOUS
<1>0. PICK m \in Nat : m = Len(text)
  BY DEF Texts
<1>1. PICK lines : lines = Lines(text, whole, form)
  OBVIOUS
<1>2. DOMAIN lines \subseteq 1..m
  BY <1>0, <1>1 DEF Lines, Ends
<1>3. PICK all, more : /\ all = ValuesInOrder(ItemsOf(form, lines))
                       /\ more = IF whole /\ last # {} THEN <<The(last)>> ELSE <<>>
  OBVIOUS
<1>4. items = all \o more
  BY <1>9, <1>1, <1>3 DEF Items
<1>5. /\ Len(now) \in Nat /\ Len(all) \in Nat /\ Len(now) <= Len(all)
      /\ Agree(all, now, Len(now))
  BY <1>9, <1>1, <1>2, <1>3, ItemsBegin
<1>6. \A k \in 1..Len(now) : all[k] = now[k] /\ k \in 1..Len(all)
  BY <1>5 DEF Agree
<1>7. \A k \in 1..Len(all) : k \in DOMAIN items /\ items[k] = all[k]
  <2>1. PICK at : at = ItemsOf(form, lines)
    OBVIOUS
  <2>2. DOMAIN at \subseteq 1..m
    BY <1>2, <2>1 DEF ItemsOf
  <2>3. PICK V : V = {at[p] : p \in DOMAIN at} \cup {The(last)}
    OBVIOUS
  <2>4. all \in Seq(V)
    <3>1. \A p \in DOMAIN at : at[p] \in V
      BY <2>3
    <3>2. ValuesInOrder(at) \in Seq(V)
      BY <2>2, <3>1, ValuesInOrderType
    <3> QED BY <1>3, <2>1, <3>2
  <2>5. more \in Seq(V)
    <3>1. PICK x : x = The(last)
      OBVIOUS
    <3>2. x \in V /\ (more = <<>> \/ more = <<x>>)
      BY <1>3, <2>3, <3>1
    <3>3. \A W : <<>> \in Seq(W) /\ \A y \in W : <<y>> \in Seq(W)
      OBVIOUS
    <3>4. CASE more = <<>>
      BY <3>3, <3>4
    <3>5. CASE more = <<x>>
      BY <3>2, <3>3, <3>5
    <3> QED BY <3>2, <3>4, <3>5
  <2>6. /\ items \in Seq(V) /\ Len(items) = Len(all) + Len(more)
        /\ Len(all) \in Nat /\ Len(more) \in Nat
        /\ \A k \in 1..Len(all) : items[k] = all[k]
    BY <1>4, <2>4, <2>5, ConcatProperties
  <2>7. DOMAIN items = 1..Len(items)
    BY <2>6
  <2> QED BY <2>6, <2>7
<1> QED BY <1>9, <1>5, <1>6, <1>7 DEF OpensWith

\* An item that is delivered is the next of those the text has settled.
LEMMA Delivery ==
  ASSUME ReadingInv, ReadingInv', format # "unknown", ~closed,
         UNCHANGED <<received, ended, format>>, NEW item, delivered' = Append(delivered, item)
  PROVE  Stream!Deliver
<1> USE DEF ReadingInv
<1>1. received \in Texts /\ delivered = ValuesInOrder(ItemsOf(format, LinesRead))
  BY DEF TypeInv, ItemsInv
<1>2. PICK d, before : d = delivered' /\ before = delivered
  OBVIOUS
<1>3. PICK n : n = Consumed'
  OBVIOUS
<1>4. PICK w, f, items : w = ended /\ f = format /\ items = Items(received, ended, format)
  OBVIOUS
<1>5. /\ d = Append(before, item) /\ Len(before) \in Nat
      /\ Len(d) = Len(before) + 1 /\ d[Len(before) + 1] = item
  <2>1. PICK m \in Nat : m = Len(received)
    BY <1>1 DEF Texts
  <2>2. PICK at : at = ItemsOf(format, LinesRead)
    OBVIOUS
  <2>3. DOMAIN at \subseteq 1..m
    <3>1. DOMAIN LinesRead \subseteq 1..m
      BY <2>1 DEF LinesRead, Upto, Lines, Ends
    <3> QED BY <2>2, <3>1 DEF ItemsOf
  <2>4. PICK V : V = {at[p] : p \in DOMAIN at} \cup {item}
    OBVIOUS
  <2>5. \A p \in DOMAIN at : at[p] \in V
    BY <2>4
  <2>6. ValuesInOrder(at) \in Seq(V)
    BY <2>3, <2>5, ValuesInOrderType
  <2>7. before \in Seq(V) /\ item \in V /\ d = Append(before, item)
    BY <1>1, <1>2, <2>2, <2>4, <2>6
  <2> QED BY <2>7, AppendProperties
<1>6. \A k \in 1..Len(d) : k \in DOMAIN items /\ items[k] = d[k]
  <2>1. CASE closed'
    <3>1. d = items
      BY <1>2, <1>4, <2>1 DEF ClosedInv
    <3>2. \A k \in 1..Len(d) : k \in DOMAIN d
      <4>1. PICK m \in Nat : m = Len(before)
        BY <1>5
      <4> QED BY <1>5, <3>1, <4>1
    <3> QED BY <3>1, <3>2
  <2>2. CASE ~closed'
    <3>1. d = ValuesInOrder(ItemsOf(f, LinesRead'))
      BY <1>2, <1>4, <2>2 DEF ItemsInv
    <3>2. PICK t \in Texts : t = received
      BY <1>1
    <3>3. LinesRead' = Upto(Lines(t, w, f), n)
      BY <1>3, <1>4, <3>2 DEF LinesRead
    <3>4. n \in Nat
      BY <1>3 DEF PlaceInv, TextAt
    <3>5. d = ValuesInOrder(ItemsOf(f, Upto(Lines(t, w, f), n))) /\ items = Items(t, w, f)
      BY <1>4, <3>1, <3>2, <3>3
    <3>6. OpensWith(d, items)
      BY <3>4, <3>5, Settled
    <3> QED BY <3>6 DEF OpensWith
  <2> QED BY <2>1, <2>2
<1>7. Stream!Available = items
  BY <1>4, SameItems DEF Stream!Available
<1>8. Len(before) + 1 \in DOMAIN items /\ items[Len(before) + 1] = item
  <2>1. Len(before) + 1 \in 1..Len(d)
    BY <1>5
  <2> QED BY <1>5, <1>6, <2>1
<1> QED BY <1>2, <1>7, <1>8 DEF Stream!Deliver

\* A line or the end of the text delivers an item, or nothing.
LEMMA TakesOrCloses ==
  ASSUME Dispatch \/ CommentLine \/ Field \/ UnknownField \/ CloseStream \/ NdjsonLine \/ CloseLines
  PROVE  /\ UNCHANGED <<received, ended, format>> /\ format # "unknown"
         /\ delivered' = delivered \/ \E item : delivered' = Append(delivered, item)
<1>1. CASE Dispatch
  <2>1. delivered' = delivered \/ Delivers(Event(dataLines, {eventName} \ {<<>>}, lastId))
    BY <1>1 DEF Dispatch
  <2> QED BY <1>1, <2>1 DEF Dispatch, TakesLine, bodyVars, Delivers
<1>2. CASE CommentLine
  BY <1>2 DEF CommentLine, TakesLine, bodyVars, Delivers
<1>3. CASE Field
  BY <1>3 DEF Field, TakesLine, bodyVars
<1>4. CASE UnknownField
  BY <1>4 DEF UnknownField, TakesLine, bodyVars, Delivers
<1>5. CASE CloseStream
  BY <1>5 DEF CloseStream, bodyVars, Delivers
<1>6. ASSUME NEW line, Cleans(line)
      PROVE  delivered' = delivered \/ \E item : delivered' = Append(delivered, item)
  BY <1>6 DEF Cleans, Delivers
<1>7. CASE NdjsonLine
  BY <1>6, <1>7 DEF NdjsonLine, TakesLine, bodyVars
<1>8. CASE CloseLines
  BY <1>6, <1>8 DEF CloseLines, bodyVars
<1> QED BY <1>1, <1>2, <1>3, <1>4, <1>5, <1>7, <1>8

-----------------------------------------------------------------------------
\* The initial states map to initial states.
LEMMA StreamInit == FramingInit => Stream!Init
<1> SUFFICES ASSUME FramingInit PROVE Stream!Init
  OBVIOUS
<1>1. body \in Bodies /\ format \in body.formats
  BY DEF FramingInit
<1>2. format \in {"sse", "ndjson", "unknown"}
  BY <1>1, FramingAssumption
<1> QED BY <1>2 DEF FramingInit, Stream!Init

\* Every step maps to a step of the abstract specification or to none.
LEMMA StreamStep ==
  ReadingInv /\ ReadingInv' /\ [FramingNext]_framingVars => [Stream!Next]_(Stream!streamVars)
<1> SUFFICES ASSUME ReadingInv, ReadingInv', [FramingNext]_framingVars
             PROVE  [Stream!Next]_(Stream!streamVars)
  OBVIOUS
<1>1. CASE Receive
  BY <1>1, ReceiveArrives DEF Stream!Next
<1>2. CASE EndOfBody
  BY <1>2, EndOfBodyEnds DEF Stream!Next
<1>3. CASE Decide
  BY <1>3, DecideGuesses DEF Stream!Next
<1>4. CASE Replay
  BY <1>4 DEF Replay, bodyVars, Stream!streamVars
<1>5. CASE Dispatch \/ CommentLine \/ Field \/ UnknownField \/ CloseStream \/ NdjsonLine \/ CloseLines
  <2>1. /\ UNCHANGED <<received, ended, format>> /\ format # "unknown"
        /\ delivered' = delivered \/ \E item : delivered' = Append(delivered, item)
    BY <1>5, TakesOrCloses
  <2>2. ~closed
    BY <1>5, ClosedStays DEF ReadingInv, FramingNext, Reads
  <2>3. CASE delivered' = delivered
    BY <2>1, <2>3 DEF Stream!streamVars
  <2>4. CASE \E item : delivered' = Append(delivered, item)
    <3>1. PICK item : delivered' = Append(delivered, item)
      BY <2>4
    <3> QED BY <2>1, <2>2, <3>1, Delivery DEF Stream!Next
  <2> QED BY <2>1, <2>3, <2>4
<1>6. CASE UNCHANGED framingVars
  BY <1>6 DEF framingVars, bodyVars, Stream!streamVars
<1> QED BY <1>1, <1>2, <1>3, <1>4, <1>5, <1>6 DEF FramingNext, Reads

\* However the network cuts the body, the readers yield the items of the text received,
\* in its order, and guess the format no sooner than the text tells.
THEOREM ReadersDeliverInOrder == FramingSpec => ReadsTheStream
BY ReadingInvHolds, StreamInit, StreamStep, PTL DEF FramingSpec, ReadsTheStream, Stream!Safety

-----------------------------------------------------------------------------
\* The items of a text are a sequence.
LEMMA ItemsAreASequence ==
  ASSUME NEW text \in Texts, NEW whole, NEW form
  PROVE  \E V : Items(text, whole, form) \in Seq(V)
<1> DEFINE last == LastItem(form, Lines(text, whole, form), Rest(text, whole, form))
<1>0. PICK m \in Nat : m = Len(text)
  BY DEF Texts
<1>1. PICK items, lines : items = Items(text, whole, form) /\ lines = Lines(text, whole, form)
  OBVIOUS
<1>2. PICK at : at = ItemsOf(form, lines)
  OBVIOUS
<1>3. DOMAIN at \subseteq 1..m
  <2>1. DOMAIN lines \subseteq 1..m
    BY <1>0, <1>1 DEF Lines, Ends
  <2> QED BY <1>2, <2>1 DEF ItemsOf
<1>4. PICK x, more : x = The(last) /\ more = IF whole /\ last # {} THEN <<The(last)>> ELSE <<>>
  OBVIOUS
<1>5. more = <<>> \/ more = <<x>>
  BY <1>4
<1>6. PICK V : V = {at[p] : p \in DOMAIN at} \cup {x}
  OBVIOUS
<1>7. ValuesInOrder(at) \in Seq(V)
  <2>1. \A p \in DOMAIN at : at[p] \in V
    BY <1>6
  <2> QED BY <1>3, <2>1, ValuesInOrderType
<1>8. more \in Seq(V)
  <2>1. x \in V /\ \A y \in V : <<y>> \in Seq(V)
    BY <1>6
  <2>2. <<>> \in Seq(V)
    OBVIOUS
  <2> QED BY <1>5, <2>1, <2>2
<1>9. items = ValuesInOrder(at) \o more
  BY <1>1, <1>2, <1>4 DEF Items
<1> QED BY <1>1, <1>7, <1>8, <1>9, ConcatProperties

\* A sequence that another opens with is a prefix of it.
LEMMA OpensWithPrefix ==
  ASSUME NEW V, NEW W, NEW d \in Seq(W), NEW items \in Seq(V), OpensWith(d, items)
  PROVE  IsPrefix(d, items)
<1>1. PICK n \in Nat, m \in Nat : n = Len(d) /\ m = Len(items)
  OBVIOUS
<1>2. DOMAIN items = 1..m
  BY <1>1
<1>3. \A k \in 1..n : k \in 1..m /\ items[k] = d[k]
  BY <1>1, <1>2 DEF OpensWith
<1>4. n <= m
  <2>1. CASE n = 0
    BY <2>1
  <2>2. CASE n # 0
    <3>1. n \in 1..n
      BY <2>2
    <3> QED BY <1>3, <3>1
  <2> QED BY <2>1, <2>2
<1>5. PICK U, one : U = V \cup W /\ one = 1
  OBVIOUS
<1>6. one \in Int /\ n \in Int /\ (one <= n <=> n # 0) /\ n - one + 1 = n
  BY <1>5
<1>7. \A i \in one..n : d[i] \in U /\ items[i] \in U
  <2> TAKE i \in one..n
  <2>1. i \in 1..n /\ d[i] \in W
    BY <1>1, <1>5
  <2> QED BY <1>3, <1>5, <2>1
<1>8. PICK s, t : s = SubSeq(d, one, n) /\ t = SubSeq(items, one, n)
  OBVIOUS
<1>9. /\ s \in Seq(U)
      /\ Len(s) = IF one <= n THEN n - one + 1 ELSE 0
      /\ \A i \in 1..n - one + 1 : s[i] = d[one + i - 1]
  BY <1>6, <1>7, <1>8, SubSeqProperties
<1>10. /\ t \in Seq(U)
       /\ Len(t) = IF one <= n THEN n - one + 1 ELSE 0
       /\ \A i \in 1..n - one + 1 : t[i] = items[one + i - 1]
  BY <1>6, <1>7, <1>8, SubSeqProperties
<1>11. Len(s) = n /\ Len(t) = n
  BY <1>6, <1>9, <1>10
<1>12. \A i \in 1..n : s[i] = t[i]
  <2> TAKE i \in 1..n
  <2>1. one + i - 1 = i /\ i \in 1..n - one + 1
    BY <1>5, <1>6
  <2> QED BY <1>3, <1>9, <1>10, <2>1
<1>13. s = t
  BY <1>9, <1>10, <1>11, <1>12, SeqEqual
<1> QED BY <1>1, <1>4, <1>5, <1>8, <1>13 DEF IsPrefix

\* What the invariant says of the items delivered.
LEMMA ReadingSettles == ReadingInv => DeliveredIsSettled
<1> SUFFICES ASSUME ReadingInv PROVE DeliveredIsSettled
  OBVIOUS
<1> USE DEF ReadingInv
<1>0. PICK t \in Texts : t = received
  BY DEF TypeInv
<1>1. PICK w, f, n, d, items :
        /\ w = ended /\ f = format /\ n = Consumed /\ d = delivered
        /\ items = Items(received, ended, format)
  OBVIOUS
<1>2. n \in Nat
  BY <1>1 DEF PlaceInv, TextAt
<1>3. PICK V : items \in Seq(V)
  BY <1>0, <1>1, ItemsAreASequence
<1>4. CASE f = "unknown"
  <2>1. d = <<>> /\ ~closed
    BY <1>1, <1>4 DEF UnknownInv
  <2>2. Stream!Available = <<>>
    BY <1>1, <1>4 DEF Stream!Available
  <2>3. <<>> \in Seq(V) /\ OpensWith(<<>>, <<>>)
    BY DEF OpensWith
  <2>4. IsPrefix(<<>>, <<>>)
    BY <2>3, OpensWithPrefix
  <2> QED BY <1>1, <2>1, <2>2, <2>4 DEF DeliveredIsSettled
<1>5. CASE f # "unknown"
  <2>1. Stream!Available = items
    BY <1>1, <1>5, SameItems DEF Stream!Available
  <2>2. CASE closed
    <3>1. d = items
      BY <1>1, <2>2 DEF ClosedInv
    <3>2. OpensWith(items, items)
      BY <1>3 DEF OpensWith
    <3>3. IsPrefix(items, items)
      BY <1>3, <3>2, OpensWithPrefix
    <3> QED BY <1>1, <2>1, <3>1, <3>3 DEF DeliveredIsSettled
  <2>3. CASE ~closed
    <3>1. d = ValuesInOrder(ItemsOf(f, LinesRead))
      BY <1>1, <1>5, <2>3 DEF ItemsInv
    <3>2. LinesRead = Upto(Lines(t, w, f), n)
      BY <1>0, <1>1 DEF LinesRead
    <3>3. OpensWith(d, items)
      <4>1. d = ValuesInOrder(ItemsOf(f, Upto(Lines(t, w, f), n))) /\ items = Items(t, w, f)
        BY <1>0, <1>1, <3>1, <3>2
      <4> QED BY <1>2, <4>1, Settled
    <3>4. \E W : d \in Seq(W)
      <4>0. PICK m \in Nat : m = Len(t)
        BY DEF Texts
      <4>1. PICK at : at = ItemsOf(f, LinesRead)
        OBVIOUS
      <4>2. DOMAIN at \subseteq 1..m
        <5>1. DOMAIN LinesRead \subseteq 1..m
          BY <3>2, <4>0 DEF Upto, Lines, Ends
        <5> QED BY <4>1, <5>1 DEF ItemsOf
      <4>3. PICK W : W = {at[p] : p \in DOMAIN at}
        OBVIOUS
      <4>4. \A p \in DOMAIN at : at[p] \in W
        BY <4>3
      <4>5. ValuesInOrder(at) \in Seq(W)
        BY <4>2, <4>4, ValuesInOrderType
      <4> QED BY <3>1, <4>1, <4>5
    <3>5. IsPrefix(d, items)
      BY <1>3, <3>3, <3>4, OpensWithPrefix
    <3> QED BY <1>1, <2>1, <2>3, <3>5 DEF DeliveredIsSettled
  <2> QED BY <2>2, <2>3
<1> QED BY <1>4, <1>5

\* What was delivered opens the items of all the text that has arrived, so that no text that
\* arrives later revises it, and a reader that has closed has delivered every item.
THEOREM WhatIsDeliveredStands == FramingSpec => []DeliveredIsSettled
BY ReadingInvHolds, ReadingSettles, PTL

=============================================================================
