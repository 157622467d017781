------------------------------- MODULE Filter -------------------------------
(***************************************************************************)
(* JavaScript's filter(), as the elements of a sequence at some of its     *)
(* places: it says by counting, without recursion, which place of the      *)
(* sequence each element of the result comes from, so that FilterProofs    *)
(* can prove what it keeps.                                                *)
(***************************************************************************)
EXTENDS Naturals, Sequences, FiniteSets

\* The r-th of the places.
PlaceOf(places, r) == CHOOSE i \in places : Cardinality({j \in places : j <= i}) = r

\* The elements at the places, in their order.
FilterAt(seq, places) == [r \in 1 .. Cardinality(places) |-> seq[PlaceOf(places, r)]]

\* Those whose id is not one of ids.
Without(seq, ids) == FilterAt(seq, {i \in DOMAIN seq : seq[i].id \notin ids})
=============================================================================
