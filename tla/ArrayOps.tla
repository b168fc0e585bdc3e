------------------------------ MODULE ArrayOps ------------------------------
(***************************************************************************)
(* The array methods that the browser's lists are built with.  What a      *)
(* predicate or a comparison says of the elements is given as data, a set  *)
(* or a function, so that proofs can speak of it.                          *)
(***************************************************************************)
EXTENDS Naturals, FiniteSets, SequencesExt

\* The elements of s at the positions I.
Pick(s, I) == FlattenSeq([i \in DOMAIN s |-> IF i \in I THEN <<s[i]>> ELSE <<>>])

\* filter: the elements that are in S.
FilterBy(s, S) == Pick(s, {i \in DOMAIN s : s[i] \in S})

\* uniqBy: the first of each key, where key[i] is the key of the i-th.
UniqBy(s, key) == Pick(s, {i \in DOMAIN s : \A j \in 1..(i - 1) : key[j] # key[i]})

\* sort, which is stable: those with the greatest keys first.
Descending(s, key) ==
  LET ahead(j, i) == key[j] > key[i] \/ (key[j] = key[i] /\ j < i)
  IN [k \in DOMAIN s |-> s[CHOOSE i \in DOMAIN s : Cardinality({j \in DOMAIN s : ahead(j, i)}) = k - 1]]
=============================================================================
