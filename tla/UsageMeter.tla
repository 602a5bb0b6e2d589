----------------------------- MODULE UsageMeter -----------------------------
(***************************************************************************)
(* src/src/services/UsageMeter.ts and the middleware that feeds it         *)
(* (server/middleware/metering.ts).                                        *)
(*                                                                         *)
(* Events are counted per tenant in a buffer.  A flush takes the buffer    *)
(* away and writes it in one transaction, awaiting each statement; the     *)
(* interval starts flushes whether or not an earlier one has ended.  The   *)
(* kind of an event is part of what Tenants stands for: a counter is one   *)
(* tenant's count of one kind.                                             *)
(***************************************************************************)
EXTENDS Naturals, FiniteSetsExt

CONSTANTS
    Counters,   \* tenants and the event kinds counted for each
    Flushes,    \* flush() calls that may be under way at once
    MaxEvents   \* bound: events recorded per counter

ASSUME MeterAssumption == MaxEvents \in Nat /\ IsFiniteSet(Flushes)

VARIABLES
    buffer,    \* [Counters -> Nat]
    flush,     \* [Flushes -> phase, counts taken, statements done]
    table,     \* [Counters -> Nat]: the sum of the committed rows
    recorded,  \* history: [Counters -> Nat]: events recorded
    severed    \* history: a connection was refused or broke, or the process ended

meterVars == <<buffer, flush, table, recorded, severed>>

Nothing == [c \in Counters |-> 0]
NoFlush == [phase |-> "none", batch |-> Nothing]

InitMeter ==
    /\ buffer = Nothing
    /\ flush = [f \in Flushes |-> NoFlush]
    /\ table = Nothing
    /\ recorded = Nothing
    /\ severed = FALSE

Merged(a, b) == [c \in Counters |-> a[c] + b[c]]

(* The response of a request is finished: a 2xx answer counts for the kind *)
(* its route is classified as, a 429 as ratelimit_denied.                  *)
Record(c) ==
    /\ recorded[c] < MaxEvents
    /\ buffer' = [buffer EXCEPT ![c] = @ + 1]
    /\ recorded' = [recorded EXCEPT ![c] = @ + 1]
    /\ UNCHANGED <<flush, table, severed>>

\* flush() takes the buffer away before its first await.
FlushStarts(f) ==
    /\ buffer # Nothing
    /\ flush[f].phase = "none"
    /\ flush' = [flush EXCEPT ![f] = [phase |-> "connecting", batch |-> buffer]]
    /\ buffer' = Nothing
    /\ UNCHANGED <<table, recorded, severed>>

Connected(f) ==
    /\ flush[f].phase = "connecting"
    /\ flush' = [flush EXCEPT ![f].phase = "writing"]
    /\ UNCHANGED <<buffer, table, recorded, severed>>

\* pool.connect() rejects: the outer catch only logs.
ConnectFails(f) ==
    /\ flush[f].phase = "connecting"
    /\ flush' = [flush EXCEPT ![f] = NoFlush]
    /\ severed' = TRUE
    /\ UNCHANGED <<buffer, table, recorded>>

\* BEGIN, the INSERTs and COMMIT succeed.
Commits(f) ==
    /\ flush[f].phase = "writing"
    /\ table' = Merged(table, flush[f].batch)
    /\ flush' = [flush EXCEPT ![f] = NoFlush]
    /\ UNCHANGED <<buffer, recorded, severed>>

\* A statement is refused: the connection stands, nothing is committed.
StatementFails(f) ==
    /\ flush[f].phase = "writing"
    /\ flush' = [flush EXCEPT ![f].phase = "rollback"]
    /\ UNCHANGED <<buffer, table, recorded, severed>>

\* Variant: the buffer is restored before ROLLBACK is tried.
RestoresFirst(f) == buffer' = Merged(buffer, flush[f].batch)

\* ROLLBACK rejects: the lines that restore the buffer are not reached.
SkipsRestore(f) == UNCHANGED buffer

(* The connection breaks, before COMMIT took effect or after; ROLLBACK on  *)
(* it rejects too.                                                         *)
ConnectionBreaks(f) ==
    /\ flush[f].phase \in {"writing", "rollback"}
    /\ table' \in {table, IF flush[f].phase = "writing" THEN Merged(table, flush[f].batch)
                                                        ELSE table}
    /\ SkipsRestore(f)
    /\ flush' = [flush EXCEPT ![f] = NoFlush]
    /\ severed' = TRUE
    /\ UNCHANGED recorded

\* ROLLBACK succeeds: the counts are added to what the buffer holds by now.
Restores(f) ==
    /\ flush[f].phase = "rollback"
    /\ buffer' = Merged(buffer, flush[f].batch)
    /\ flush' = [flush EXCEPT ![f] = NoFlush]
    /\ UNCHANGED <<table, recorded, severed>>

(* The process ends, also by a graceful shutdown: destroy() only clears    *)
(* the interval.                                                           *)
ProcessEnds ==
    /\ buffer' = Nothing
    /\ flush' = [f \in Flushes |-> NoFlush]
    /\ severed' = TRUE
    /\ UNCHANGED <<table, recorded>>

NextMeter ==
    \/ \E c \in Counters : Record(c)
    \/ \E f \in Flushes :
         \/ FlushStarts(f) \/ Connected(f) \/ ConnectFails(f) \/ Commits(f)
         \/ StatementFails(f) \/ ConnectionBreaks(f) \/ Restores(f)
    \/ ProcessEnds

MeterSpec == InitMeter /\ [][NextMeter]_meterVars

-----------------------------------------------------------------------------
\* What the table, the buffer and the flushes under way hold for c.
Accounted(c) ==
    table[c] + buffer[c] + MapThenSumSet(LAMBDA f : flush[f].batch[c], Flushes)

(* An event is billed at most once, whatever fails, and exactly once as    *)
(* long as no connection broke and the process went on: overlapping        *)
(* flushes and rolled back ones neither lose nor repeat counts.            *)
CountedOnce ==
    \A c \in Counters :
        /\ Accounted(c) <= recorded[c]
        /\ ~severed => Accounted(c) = recorded[c]

(* UsageMeter.ts:143 promises "don't lose data on transient DB errors".    *)
NothingLost == \A c \in Counters : Accounted(c) = recorded[c]
=============================================================================
