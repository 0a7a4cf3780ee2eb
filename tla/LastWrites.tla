----------------------------- MODULE LastWrites -----------------------------
(* A store as the sequence of its entries, the oldest write first, and what  *)
(* is left of one when entries are taken out.                                *)
EXTENDS Naturals, FiniteSets

\* What s has at the indices I, in their order.
At(s, I) ==
    [n \in 1 .. Cardinality(I) |-> s[CHOOSE i \in I : Cardinality({j \in I : j <= i}) = n]]

\* s without the oldest of its entries at I, so that n of those are left.
KeepLast(s, I, n) ==
    At(s, {i \in DOMAIN s : i \in I => Cardinality({j \in I : j > i}) < n})
=============================================================================
