---------------------------- MODULE WriteOnceMap ----------------------------
(***************************************************************************)
(* What an adapter registry promises its readers: a map from names to the  *)
(* adapter and the manifest one registration supplied together, each entry *)
(* written at most once and never changed or removed.                      *)
(***************************************************************************)
CONSTANTS
    Names,     \* names an adapter can be registered under
    Entries,   \* Entries[n]: the entries a registration of n may write
    Vacant     \* the entry of a name nobody registered

VARIABLE entries

Init == entries = [n \in Names |-> Vacant]

Write(n, e) ==
    /\ entries[n] = Vacant
    /\ entries' = [entries EXCEPT ![n] = e]

Next == \E n \in Names : \E e \in Entries[n] : Write(n, e)

Spec == Init /\ [][Next]_entries
=============================================================================
