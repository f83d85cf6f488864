------------------------------- MODULE Sorting -------------------------------
(***************************************************************************)
(* What the sorts of Rust's standard library do, which                     *)
(* crates/reranklab-types calls for ranked lists and for judgments: they   *)
(* put the elements of a finite set into a sequence, in an order.          *)
(***************************************************************************)
EXTENDS Integers, SequencesExt

\* The elements of D in a sequence such that <<a, b>> \in R whenever a comes
\* before b.  R must be total and transitive on D for there to be one.
Arrangement(D, R) ==
  CHOOSE p \in [1 .. Cardinality(D) -> D] :
    IsInjective(p) /\ \A m, n \in DOMAIN p : m < n => <<p[m], p[n]>> \in R
=============================================================================
