------------------------------- MODULE Arrays --------------------------------
(***************************************************************************)
(* What the habits' dialog and the dashboard do with arrays of ids: filter *)
(* one, find an id and move one.                                           *)
(***************************************************************************)
EXTENDS Naturals, Sequences, FiniteSets

\* The n-th of what is kept of s has n of the kept up to it.
Filter(s, S) ==
  LET kept == {k \in DOMAIN s : s[k] \in S}
  IN [n \in 1..Cardinality(kept) |-> s[CHOOSE k \in kept : Cardinality(kept \cap 1..k) = n]]

IndexOf(s, x) == CHOOSE k \in DOMAIN s : s[k] = x

\* Taken out at from, put in at to.
ArrayMove(s, from, to) ==
  [k \in DOMAIN s |->
     s[IF k = to THEN from
       ELSE IF k \in from..(to - 1) THEN k + 1
       ELSE IF k \in (to + 1)..from THEN k - 1 ELSE k]]

\* No id is in s twice.
Distinct(s) ==
  s \in Seq({s[k] : k \in DOMAIN s}) /\ \A j, k \in DOMAIN s : s[j] = s[k] => j = k
=============================================================================
