---------------------------- MODULE ObjectGraph ----------------------------
(***************************************************************************)
(* What the heap promises the bytecode: objects without addresses, seen    *)
(* through references.  Collections do not show: objects are forgotten as  *)
(* soon as nothing refers to them.                                         *)
(***************************************************************************)
EXTENDS Naturals

CONSTANTS Slots, Kinds, Refs, Words, Idents, NULL

VARIABLES
  root,   \* the object each slot refers to
  object  \* the objects some slot leads to: their kinds and fields

vars == <<root, object>>

Pointees(o) == {o.fields[w] : w \in Refs[o.kind]} \ {NULL}

\* A set of objects no reference leads out of, with those r refers to.
Closed(r, h, S) ==
  /\ \A s \in Slots : r[s] # NULL => r[s] \in S
  /\ \A i \in S : Pointees(h[i]) \subseteq S

\* The objects r leads to in heap h: those in every closed set.
Reached(r, h) ==
  LET closed == {S \in SUBSET DOMAIN h : Closed(r, h, S)}
  IN  {i \in DOMAIN h : \A S \in closed : i \in S}

Init ==
  /\ root = [s \in Slots |-> NULL]
  /\ object = [i \in {} |-> NULL]

Becomes(r, h) ==
  LET heap == h
  IN  /\ root' = r
      /\ object' = [i \in Reached(r, heap) |-> heap[i]]

\* The allocations: a blank object nothing refers to yet.
New(s, k) ==
  \E i \in Idents \ DOMAIN object :
    Becomes([root EXCEPT ![s] = i],
            [j \in DOMAIN object \cup {i} |->
               IF j = i THEN [kind |-> k, fields |-> [w \in 0..Words[k] - 1 |-> NULL]]
               ELSE object[j]])

Assign(s, value) == Becomes([root EXCEPT ![s] = value], object)

Get(s, from, w) ==
  /\ root[from] # NULL
  /\ w \in Refs[object[root[from]].kind]
  /\ Assign(s, object[root[from]].fields[w])

Put(s, w, from) ==
  /\ root[s] # NULL
  /\ w \in Refs[object[root[s]].kind]
  /\ Becomes(root, [object EXCEPT ![root[s]].fields[w] = root[from]])

Next ==
  \E s, from \in Slots :
    \/ Assign(s, NULL)
    \/ Assign(s, root[from])
    \/ \E k \in Kinds : New(s, k)
    \/ \E k \in Kinds : \E w \in Refs[k] : Get(s, from, w) \/ Put(s, w, from)

Spec == Init /\ [][Next]_vars

============================================================================
