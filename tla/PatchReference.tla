--------------------------- MODULE PatchReference ---------------------------
(***************************************************************************)
(* RFC 6902 over flat documents, to compare JsonPatch with.  A document is *)
(* the set of its nodes <<place, what is there>>: a place is a sequence of *)
(* object keys and array indices, and what is there a scalar, "obj" or     *)
(* "arr".  An operation maps a document to the set of documents it may     *)
(* leave: the empty set when it fails.                                     *)
(***************************************************************************)
EXTENDS JsonPatch

Under(step, F) == {<< <<step>> \o f[1], f[2] >> : f \in F}

RECURSIVE Flat(_)
Flat(node) ==
  IF node \in Scalars THEN {<< <<>>, node >>}
  ELSE IF IsObject(node)
       THEN {<< <<>>, "obj" >>} \cup UNION {Under(k, Flat(node.obj[k])) : k \in DOMAIN node.obj}
       ELSE {<< <<>>, "arr" >>} \cup UNION {Under(i - 1, Flat(node.arr[i])) : i \in DOMAIN node.arr}

Below(F, p) == {f \in F : IsPrefix(p, f[1])}

\* The node at p as a document of its own, and a document put at p.
Cut(F, p) == {<< SubSeq(f[1], Len(p) + 1, Len(f[1])), f[2] >> : f \in Below(F, p)}
Graft(G, p) == {<< p \o g[1], g[2] >> : g \in G}

\* The elements of the array at p, from the i-th on, move by one.
Shifted(F, p, i, by) ==
  {IF IsStrictPrefix(p, f[1]) /\ f[1][Len(p) + 1] >= i
   THEN << [f[1] EXCEPT ![Len(p) + 1] = @ + by], f[2] >> ELSE f : f \in F}

\* The place a pointer denotes, if there is one.
Denoted(F, tokens) ==
  {p \in {f[1] : f \in F} :
     /\ Len(p) = Len(tokens)
     /\ \A i \in DOMAIN p :
          p[i] = IF << SubSeq(p, 1, i - 1), "arr" >> \in F
                 THEN IndexOf[tokens[i]] ELSE tokens[i]}

Length(F, p) == Cardinality({f \in Below(F, p) : Len(f[1]) = Len(p) + 1})

\* The indices at which a token lets an element be added.
Insertions(F, p, token) ==
  {i \in 0..Length(F, p) : i = IF token = Dash THEN Length(F, p) ELSE IndexOf[token]}

RfcAdd(F, tokens, G) ==
  IF tokens = <<>> THEN {G}
  ELSE UNION {
    IF << p, "obj" >> \in F
    THEN LET q == Append(p, Last(tokens)) IN {(F \ Below(F, q)) \cup Graft(G, q)}
    ELSE IF << p, "arr" >> \in F
    THEN {Shifted(F, p, i, 1) \cup Graft(G, Append(p, i)) : i \in Insertions(F, p, Last(tokens))}
    ELSE {} : p \in Denoted(F, Front(tokens))}

RfcRemove(F, tokens) ==
  {LET rest == F \ Below(F, p)
   IN  IF << Front(p), "arr" >> \in F THEN Shifted(rest, Front(p), Last(p), -1) ELSE rest :
   p \in Denoted(F, tokens) \ {<<>>}}

RfcReplace(F, tokens, G) ==
  {(F \ Below(F, p)) \cup Graft(G, p) : p \in Denoted(F, tokens)}

\* "The from location MUST NOT be a proper prefix of the path location".
RfcMove(F, from, to) ==
  IF IsStrictPrefix(from, to) THEN {}
  ELSE UNION {RfcAdd(rest, to, Cut(F, p)) : rest \in RfcRemove(F, from), p \in Denoted(F, from)}

RfcCopy(F, from, to) == UNION {RfcAdd(F, to, Cut(F, p)) : p \in Denoted(F, from)}

RfcTest(F, tokens, G) == {D \in {F} : \E p \in Denoted(F, tokens) : Cut(F, p) = G}

RfcStep(F, e) ==
  CASE e.op = "add" -> RfcAdd(F, e.path, Flat(e.value))
    [] e.op = "remove" -> RfcRemove(F, e.path)
    [] e.op = "replace" -> RfcReplace(F, e.path, Flat(e.value))
    [] e.op = "move" -> RfcMove(F, e.from, e.path)
    [] e.op = "copy" -> RfcCopy(F, e.from, e.path)
    [] e.op = "test" -> RfcTest(F, e.path, Flat(e.value))

\* What the first n operations of the patch leave.
RECURSIVE RfcAfter(_)
RfcAfter(n) ==
  IF n = 0 THEN {Flat(base)} ELSE UNION {RfcStep(F, patch[n]) : F \in RfcAfter(n - 1)}

\* A patch with a misshapen operation is not applied at all.  Of any other, the
\* document is at every operation the one RFC 6902 describes, and it is refused at
\* the first operation that has no outcome by it and at no other (jsonpatch.py,
\* apply_patch).
PatchResultExact ==
  /\ MisshapenNeverApplied
  /\ phase \in {"applying", "applied", "refused"} => RfcAfter(opIndex) = {Flat(result)}
  /\ phase = "refused" => RfcAfter(opIndex + 1) = {}
  /\ phase = "applied" => opIndex = Len(patch)

=============================================================================
