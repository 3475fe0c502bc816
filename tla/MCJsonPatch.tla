---------------------------- MODULE MCJsonPatch ----------------------------
(***************************************************************************)
(* TLC instance of PatchReference: an object holding an array, an array    *)
(* holding an object, the empty ones and a scalar; pointers that lead to   *)
(* members, to elements, one past the end, to "-" and nowhere.             *)
(***************************************************************************)
EXTENDS PatchReference

CONSTANTS x, y, a, zero, one, dash

Indices == (zero :> 0) @@ (one :> 1) @@ (a :> None) @@ (dash :> None)

Member == [obj |-> (a :> y)]
SomeDocuments ==
  {x, [obj |-> EmptyDict], [arr |-> <<>>], [arr |-> <<x, Member>>],
   [obj |-> (a :> x) @@ (zero :> [arr |-> <<x, y>>])]}

Pointers == {<<>>, <<a>>, <<zero>>, <<dash>>, <<one, a>>, <<zero, zero>>, <<zero, one>>,
             <<zero, dash>>}
Operation(kind, path, from, new) == [op |-> kind, path |-> path, from |-> from, value |-> new]

SomeOperations ==
  {Operation(kind, p, None, v) : kind \in {"add", "replace", "test"}, p \in Pointers, v \in {x, Member}}
  \cup {Operation("remove", p, None, None) : p \in Pointers}
  \cup {Operation(kind, p, q, None) : kind \in {"move", "copy"}, p \in Pointers, q \in Pointers}
  \cup {Operation("rename", <<a>>, None, x), Operation("unhashable", <<a>>, None, x),
        Operation("remove", None, None, None), Operation("add", <<a>>, None, None),
        Operation("move", <<a>>, None, None)}

=============================================================================
