------------------------------ MODULE JsonPatch ------------------------------
(***************************************************************************)
(* RFC 6902 patches as the validator applies them (protocol/jsonpatch.py): *)
(* the shape of the whole patch is validated first, then its operations    *)
(* change a copy of the document one after the other, and the first that   *)
(* fails refuses the patch.                                                *)
(*                                                                         *)
(* A document is a scalar, [obj |-> dictionary] or [arr |-> sequence].  A  *)
(* pointer is the sequence of its unescaped tokens, None when it has no    *)
(* valid form; a token written in two ways ("~" and "~0") is not told      *)
(* apart.  What a token is as an array index is given by IndexOf.          *)
(***************************************************************************)
EXTENDS Integers, SequencesExt, Dicts

CONSTANTS
  None,        \* a field an operation lacks; no node of a document
  Scalars,     \* JSON values that are neither objects nor arrays
  Tokens,
  Dash,        \* the token "-"
  IndexOf,     \* token -> the array index it writes, or None
  Documents,   \* bound: the documents a patch may meet
  Operations,  \* bound: the operations of patches, misshapen ones included
  MaxLength    \* bound: operations in a patch

Kinds == {"add", "remove", "replace", "move", "copy", "test"}

ASSUME DashAssumption == Dash \in Tokens
ASSUME IndexOfAssumption == IndexOf \in [Tokens -> Nat \cup {None}] /\ IndexOf[Dash] = None
ASSUME MaxLengthAssumption == MaxLength \in Nat

VARIABLES
  base,      \* the document given to apply_patch
  patch,     \* sequence of operations [op, path, from, value]
  result,    \* the copy the operations change
  opIndex,   \* operations done: the index of the one that is next, or failed
  phase      \* where apply_patch is, or what it returned

patchVars == <<base, patch, result, opIndex, phase>>

Phases == {"validating", "applying", "applied", "refused", "misshapen", "raised"}

PatchInit ==
  /\ base \in Documents
  /\ patch \in BoundedSeq(Operations, MaxLength)
  /\ result = base
  /\ opIndex = 0
  /\ phase = "validating"

-----------------------------------------------------------------------------
\* What validate_patch_shape finds wrong with an operation.  An "op" that is a
\* list or an object cannot be looked up in the set of names: that raises.
Misshapen(e) ==
  \/ e.op \notin Kinds
  \/ e.path = None
  \/ e.op \in {"add", "replace", "test"} /\ e.value = None
  \/ e.op \in {"move", "copy"} /\ e.from = None

\* Mutant: the operations before a misshapen one are applied.
ValidatesLazily ==
  /\ phase = "validating"
  /\ phase' = "applying"
  /\ UNCHANGED <<base, patch, result, opIndex>>

ValidateShape ==
  LET wrong == {i \in DOMAIN patch : Misshapen(patch[i])}
  IN  /\ phase = "validating"
      /\ UNCHANGED <<base, patch, result>>
      /\ \/ /\ wrong = {}
            /\ phase' = "applying"
            /\ UNCHANGED opIndex
         \/ /\ wrong # {}
            /\ opIndex' = Min(wrong) - 1
            /\ phase' = IF patch[Min(wrong)].op = "unhashable" THEN "raised" ELSE "misshapen"

-----------------------------------------------------------------------------
IsObject(node) == node \notin Scalars \cup {None} /\ "obj" \in DOMAIN node
IsArray(node) == node \notin Scalars \cup {None} /\ "arr" \in DOMAIN node

\* _array_index: up to the length itself, which "-" means when adding.
ArrayIndex(token, length, forAdd) ==
  IF forAdd /\ token = Dash THEN length
  ELSE IF IndexOf[token] # None /\ IndexOf[token] <= length THEN IndexOf[token] ELSE None

\* The child a token leads to; None when there is none.
Child(node, token) ==
  IF IsObject(node) THEN IF token \in DOMAIN node.obj THEN node.obj[token] ELSE None
  ELSE IF IsArray(node)
       THEN LET i == ArrayIndex(token, Len(node.arr), FALSE)
            IN  IF i = None \/ i = Len(node.arr) THEN None ELSE node.arr[i + 1]
       ELSE None

RECURSIVE GetAt(_, _)
GetAt(node, tokens) ==
  IF tokens = <<>> \/ node = None THEN node ELSE GetAt(Child(node, Head(tokens)), Tail(tokens))

\* The document with another node where tokens, which exists, leads.
RECURSIVE WithNode(_, _, _)
WithNode(node, tokens, new) ==
  IF tokens = <<>> THEN new
  ELSE IF IsObject(node)
       THEN [obj |-> [node.obj EXCEPT ![Head(tokens)] = WithNode(@, Tail(tokens), new)]]
       ELSE [arr |-> [node.arr EXCEPT ![IndexOf[Head(tokens)] + 1] =
                        WithNode(@, Tail(tokens), new)]]

\* set_at: add, or replace when the target must exist; None when refused.
SetAt(doc, tokens, new, mustExist) ==
  IF tokens = <<>> THEN new
  ELSE LET parent == GetAt(doc, Front(tokens))
           key == Last(tokens)
           i == ArrayIndex(key, Len(parent.arr), ~mustExist)
           changed ==
             IF IsObject(parent)
             THEN IF mustExist /\ key \notin DOMAIN parent.obj THEN None
                  ELSE [obj |-> Put(parent.obj, key, new)]
             ELSE IF ~IsArray(parent) \/ i = None THEN None
                  ELSE IF ~mustExist THEN [arr |-> InsertAt(parent.arr, i + 1, new)]
                  ELSE IF i = Len(parent.arr) THEN None
                  ELSE [arr |-> ReplaceAt(parent.arr, i + 1, new)]
       IN  IF changed = None THEN None ELSE WithNode(doc, Front(tokens), changed)

\* remove_at: never the whole document; None when refused.
RemoveFrom(doc, tokens) ==
  IF tokens = <<>> \/ GetAt(doc, tokens) = None THEN None
  ELSE LET parent == GetAt(doc, Front(tokens))
       IN  WithNode(doc, Front(tokens),
             IF IsObject(parent) THEN [obj |-> Drop(parent.obj, Last(tokens))]
             ELSE [arr |-> RemoveAt(parent.arr, IndexOf[Last(tokens)] + 1)])

-----------------------------------------------------------------------------
\* Mutant: what a failed operation leaves behind is taken for the document.
KeepsFailure(node) ==
  /\ UNCHANGED <<base, patch>>
  /\ result' = node
  /\ IF node # None THEN opIndex' = opIndex + 1 /\ UNCHANGED phase
     ELSE phase' = "refused" /\ UNCHANGED opIndex

\* The operation that is next leaves node as the document, or fails.
Becomes(node) ==
  /\ UNCHANGED <<base, patch>>
  /\ \/ /\ node # None
        /\ result' = node
        /\ opIndex' = opIndex + 1
        /\ UNCHANGED phase
     \/ /\ node = None
        /\ phase' = "refused"
        /\ UNCHANGED <<result, opIndex>>

IsNext(kind) ==
  /\ phase = "applying"
  /\ opIndex < Len(patch)
  /\ patch[opIndex + 1].op = kind

operation == patch[opIndex + 1]

AddOp == IsNext("add") /\ Becomes(SetAt(result, operation.path, operation.value, FALSE))

ReplaceOp == IsNext("replace") /\ Becomes(SetAt(result, operation.path, operation.value, TRUE))

RemoveOp == IsNext("remove") /\ Becomes(RemoveFrom(result, operation.path))

\* Mutant: the value is put at its new place before it leaves the old one.
MoveAddsFirst ==
  LET moved == GetAt(result, operation.from)
      added == IF moved = None THEN None ELSE SetAt(result, operation.path, moved, FALSE)
  IN  /\ IsNext("move")
      /\ Becomes(IF added = None \/ IsStrictPrefix(operation.from, operation.path) THEN None
                 ELSE RemoveFrom(added, operation.from))

MoveOp ==
  LET rest == RemoveFrom(result, operation.from)
  IN  /\ IsNext("move")
      /\ Becomes(IF rest = None \/ IsStrictPrefix(operation.from, operation.path) THEN None
                 ELSE SetAt(rest, operation.path, GetAt(result, operation.from), FALSE))

CopyOp ==
  LET copied == GetAt(result, operation.from)
  IN  /\ IsNext("copy")
      /\ Becomes(IF copied = None THEN None ELSE SetAt(result, operation.path, copied, FALSE))

\* The value a test compares with is never None, which stands for nothing found.
TestOp ==
  /\ IsNext("test")
  /\ Becomes(IF GetAt(result, operation.path) = operation.value THEN result ELSE None)

Return ==
  /\ phase = "applying"
  /\ opIndex = Len(patch)
  /\ phase' = "applied"
  /\ UNCHANGED <<base, patch, result, opIndex>>

PatchNext ==
  \/ ValidateShape
  \/ AddOp \/ ReplaceOp \/ RemoveOp \/ MoveOp \/ CopyOp \/ TestOp
  \/ Return

PatchSpec == PatchInit /\ [][PatchNext]_patchVars

-----------------------------------------------------------------------------
RECURSIVE IsDocument(_)
IsDocument(node) ==
  \/ node \in Scalars
  \/ /\ IsObject(node)
     /\ DOMAIN node.obj \subseteq Tokens
     /\ \A k \in DOMAIN node.obj : IsDocument(node.obj[k])
  \/ /\ IsArray(node)
     /\ \A i \in DOMAIN node.arr : IsDocument(node.arr[i])

\* The document stays a document, whatever an operation that fails was doing, and
\* the index that AGUI302 points at is one of the patch's operations.
PatchTypeOK ==
  /\ IsDocument(base)
  /\ IsDocument(result)
  /\ phase \in Phases
  /\ opIndex \in 0..Len(patch)
  /\ phase \in {"refused", "misshapen", "raised"} => opIndex < Len(patch)

\* A patch is validated as a whole before any of it is applied: with a misshapen
\* operation anywhere, the first of them is what is reported and the document is
\* as it was (AGUI303), even when an operation before it would have failed.
MisshapenNeverApplied ==
  (\E i \in DOMAIN patch : Misshapen(patch[i])) /\ phase # "validating" =>
    /\ phase \in {"misshapen", "raised"}
    /\ result = base
    /\ Misshapen(patch[opIndex + 1])
    /\ \A i \in 1..opIndex : ~Misshapen(patch[i])

=============================================================================
