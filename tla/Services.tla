------------------------------ MODULE Services ------------------------------
(***************************************************************************)
(* Five parts of the server process that share no state: what a request    *)
(* passes on its way in and out (src/src/server/app.ts), which is          *)
(* authentication, the rate limiter behind its routes and the metering of  *)
(* the answer, and, behind it, a sorted set and a priority queue.  None    *)
(* looks at another's state: a behaviour of the process is any             *)
(* interleaving of one behaviour of each.  A property of one of them       *)
(* therefore holds in all interleavings when it holds with the others at   *)
(* rest, and that is what a behaviour is here: one of them, chosen at the  *)
(* start, moves.                                                           *)
(***************************************************************************)
EXTENDS KeyValidator, RateLimiter, UsageMeter, SortedSet, PriorityQueue

VARIABLE part   \* the one that moves

vars == <<keyVars, limitVars, meterVars, zsetVars, queueVars, part>>

Init ==
    /\ InitKeys
    /\ InitLimits
    /\ InitMeter
    /\ InitZset
    /\ InitQueued
    /\ part \in {"keys", "limits", "usage", "zset", "queue"}

Next ==
    /\ \/ part = "keys" /\ NextKeys /\ UNCHANGED <<limitVars, meterVars, zsetVars, queueVars>>
       \/ part = "limits" /\ NextLimits /\ UNCHANGED <<keyVars, meterVars, zsetVars, queueVars>>
       \/ part = "usage" /\ NextMeter /\ UNCHANGED <<keyVars, limitVars, zsetVars, queueVars>>
       \/ part = "zset" /\ NextZset /\ UNCHANGED <<keyVars, limitVars, meterVars, queueVars>>
       \/ part = "queue" /\ NextQueued /\ UNCHANGED <<keyVars, limitVars, meterVars, zsetVars>>
    /\ UNCHANGED part

Spec == Init /\ [][Next]_vars
=============================================================================
