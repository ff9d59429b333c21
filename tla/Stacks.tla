------------------------------- MODULE Stacks -------------------------------
(***************************************************************************)
(* Families of sequences: the stacks of frames of the threads, the lists   *)
(* of arcs of the tasks.  How often an element of some set occurs in them, *)
(* and what comes before and after a place of a sequence.                  *)
(***************************************************************************)
EXTENDS Integers, Sequences, FiniteSets

(* The places of a sequence, and of a family s, with an element of P. *)
Places(s, P) == {i \in DOMAIN s : s[i] \in P}
Where(s, P)  == UNION {{x} \X Places(s[x], P) : x \in DOMAIN s}

(* How many there are. *)
Number(s, P) == Cardinality(Places(s, P))
Count(s, P)  == Cardinality(Where(s, P))

(* The elements before place i of a sequence, and those after it. *)
Prior(s, i) == {s[k] : k \in 1..(i - 1)}
After(s, i) == {s[k] : k \in (i + 1)..Len(s)}
=============================================================================
