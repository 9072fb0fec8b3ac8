-------------------------- MODULE MCAdapterRegistry --------------------------
(***************************************************************************)
(* A small instance of AdapterRegistry: two names and two adapter objects, *)
(* each with manifests of its own for either name.                         *)
(***************************************************************************)
EXTENDS AdapterRegistry

CONSTANTS a1, a2

MCNames == {"poi", "wallet"}
MCAdapters == {a1, a2}
MCOffers ==
    [a \in MCAdapters |->
        {[adapter_id |-> n, version |-> v] : n \in MCNames, v \in IF a = a1 THEN {1, 2} ELSE {3}}]
MCManifests == UNION {MCOffers[a] : a \in MCAdapters}
=============================================================================
