---------------------------- MODULE PartialMaps ----------------------------
(***************************************************************************)
(* Hash maps and key ranges: partial functions that grow and shrink.        *)
(***************************************************************************)
EXTENDS FiniteSets, Integers

MapsTo(m, K, V) == DOMAIN m \subseteq K /\ m \in [DOMAIN m -> V]

Without(m, ks) == [k \in DOMAIN m \ ks |-> m[k]]

Only(m, ks) == [k \in DOMAIN m \cap ks |-> m[k]]

Overlay(new, old) ==
  [k \in DOMAIN new \cup DOMAIN old |-> IF k \in DOMAIN new THEN new[k] ELSE old[k]]

\* The keys one by one, in an order given as the set of pairs <<k, l>> with k
\* before l.
Sorted(keys, order) ==
  [j \in 1..Cardinality(keys) |->
     CHOOSE k \in keys : Cardinality({l \in keys : <<l, k>> \in order}) = j - 1]
=============================================================================
