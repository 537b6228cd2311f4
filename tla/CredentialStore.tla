----------------------------- MODULE CredentialStore -----------------------------
(***************************************************************************)
(* What provisioning promises of the stored network, whatever happens to   *)
(* the flash and the power: a network is remembered only once the device   *)
(* has joined it, a remembered network is never replaced by another one,   *)
(* and it is forgotten as a whole.                                          *)
(***************************************************************************)
CONSTANT NONE

VARIABLES
    stored,     \* the network the next boot would join, or NONE
    joined      \* the networks the device has joined so far

Init == stored = NONE /\ joined = {}

Join ==
    /\ \E net \in joined' : joined' = joined \cup {net}
    /\ UNCHANGED stored

Remember ==
    /\ stored = NONE /\ stored' \in joined
    /\ UNCHANGED joined

Forget ==
    /\ stored' = NONE
    /\ UNCHANGED joined

Next == Join \/ Remember \/ Forget

Spec == Init /\ [][Next]_<<stored, joined>>
================================================================================
