------------------------------- MODULE Dicts -------------------------------
(***************************************************************************)
(* The Python dictionaries of a RunState (rules/checks/context.py) are     *)
(* functions whose domain is the set of keys present at the moment.        *)
(***************************************************************************)

\* d is a dictionary with keys among Keys and values in Values.
IsDict(d, Keys, Values) ==
  /\ d = [k \in DOMAIN d |-> d[k]]
  /\ DOMAIN d \subseteq Keys
  /\ \A k \in DOMAIN d : d[k] \in Values

EmptyDict == [k \in {} |-> k]

\* d[k] = v
Put(d, k, v) == [x \in DOMAIN d \cup {k} |-> IF x = k THEN v ELSE d[x]]

\* d.pop(k, None)
Drop(d, k) == [x \in DOMAIN d \ {k} |-> d[x]]

=============================================================================
