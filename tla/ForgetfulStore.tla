---------------------------- MODULE ForgetfulStore ----------------------------
(***************************************************************************)
(* What a cache promises: for a key it finds one of the payloads that were *)
(* stored for this key, or nothing.  It may forget at any time, and give up*)
(* a store; it never hands out a payload nobody stored for the key.        *)
(***************************************************************************)
CONSTANTS Keys, Payloads, Nothing

VARIABLES
    found,    \* the payloads a lookup of a key may still find
    key,      \* the key a payload is being stored for, or Nothing
    data      \* this payload, or Nothing

vars == <<found, key, data>>

Init == found \in [Keys -> SUBSET Payloads] /\ key = Nothing /\ data = Nothing

(* Nothing is found that was not found before, except added for the key k. *)
Keeps(k, added) ==
    /\ found'[k] \subseteq found[k] \cup added
    /\ \A other \in Keys \ {k} : found'[other] \subseteq found[other]

Ends == key' = Nothing /\ data' = Nothing

(* Readers may find the payload from the beginning of its store.           *)
Begin(k, p) == key = Nothing /\ key' = k /\ data' = p /\ Keeps(k, {p})

(* The payload is put in its place.                                        *)
Store == key # Nothing /\ Keeps(key, {data}) /\ Ends

(* Something is forgotten, or the store is given up.                       *)
Forget ==
    /\ \A k \in Keys : Keeps(k, {})
    /\ UNCHANGED <<key, data>> \/ Ends

Next ==
    /\ found' \in [Keys -> SUBSET Payloads]
    /\ (\E k \in Keys, p \in Payloads : Begin(k, p)) \/ Store \/ Forget

Spec == Init /\ [][Next]_vars
=============================================================================
