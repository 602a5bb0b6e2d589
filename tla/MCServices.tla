------------------------------ MODULE MCServices ------------------------------
(* Two external keys of the same tenant's org would only double what one   *)
(* shows: there is one key of each lane, and two tenants to ask for.       *)
EXTENDS Services

CONSTANTS r1, r2, f1, f2

MCLane == ("ext" :> "external") @@ ("int" :> "internal") @@ ("old" :> "internal")
            @@ ("odd" :> "unknown") @@ ("" :> "missing")
MCOwner == "ext" :> "t1"

Symmetry == Permutations(Requests) \cup Permutations(Flushes)
=============================================================================
