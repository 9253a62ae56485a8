----------------------------- MODULE ListRemoval -----------------------------
(***************************************************************************)
(* std::list::remove, by where each item goes: an item that stays moves to *)
(* the place that counts the items that stay up to it.  (A definition by   *)
(* SelectSeq would say the same, but nothing can be proved from it.)       *)
(***************************************************************************)
EXTENDS Naturals, Sequences, FiniteSets

(* How many of the items up to place p stay when x leaves the list.          *)
Staying(list, x, p) == Cardinality({q \in 1..p : list[q] # x})

(* The list when every x has left it.                                        *)
Without(list, x) ==
  [n \in 1..Staying(list, x, Len(list)) |->
     list[CHOOSE p \in DOMAIN list : list[p] # x /\ Staying(list, x, p) = n]]

(* How often x is in the list.                                               *)
Times(list, x) == Cardinality({p \in DOMAIN list : list[p] = x})

=============================================================================
