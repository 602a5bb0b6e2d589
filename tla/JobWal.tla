-------------------------------- MODULE JobWal --------------------------------
(***************************************************************************)
(* The batched write-ahead log of src/src/services/BatchedJobWAL.ts: the   *)
(* in-memory buffer, the flush timer, the batch being inserted, and the    *)
(* Postgres table store_job_wal it is inserted into.                       *)
(*                                                                         *)
(* Who logs what is left to the modules that use this one: WalClients logs *)
(* any event of any job, DurableQueue what the job queue logs.  A row      *)
(* keeps the job, the event and the JSON snapshot (data).                  *)
(***************************************************************************)
EXTENDS Naturals, Sequences, FiniteSets, SequencesExt

CONSTANTS
    Jobs,           \* job ids
    Snapshots,      \* values of the data column
    MaxBufferSize,  \* entries that trigger a flush
    MaxBufferCap,   \* entries above which log() rejects
    MaxRetries,     \* INSERT attempts of one flush
    MaxRows         \* bound: rows beyond which a failed INSERT leaves none

ASSUME JobWalAssumption ==
    /\ MaxBufferSize \in Nat \ {0}
    /\ MaxBufferCap \in Nat \ {0}
    /\ MaxRetries \in Nat \ {0}
    /\ MaxRows \in Nat

VARIABLES
    wal,    \* the object's memory: buffer, inflight, flushing, timer, attempt
    table   \* the rows of store_job_wal in id order

walVars == <<wal, table>>

Events == {"enqueued", "claimed", "completed", "failed", "retry"}
Terminal == {"completed", "failed"}

Entry(j, event, data) == [job |-> j, event |-> event, data |-> data]
Entries == [job: Jobs, event: Events, data: Snapshots]

\* inflight is the batch a flush has taken out of the buffer (flushing).
EmptyWal == [buffer |-> <<>>, inflight |-> <<>>, flushing |-> FALSE,
             timer |-> FALSE, attempt |-> 0]

InitWal == wal = EmptyWal /\ table = <<>>

-----------------------------------------------------------------------------
(* flush() up to its first await: it disarms the timer, and takes the      *)
(* whole buffer unless there is nothing to take or a flush is running.     *)
Flushed(w) ==
    IF w.buffer = <<>> \/ w.flushing
    THEN [w EXCEPT !.timer = FALSE]
    ELSE [buffer |-> <<>>, inflight |-> w.buffer, flushing |-> TRUE,
          timer |-> FALSE, attempt |-> 1]

\* The entry is pushed; the first one in the buffer arms the timer.
Pushed(w, e) ==
    [w EXCEPT !.buffer = Append(@, e), !.timer = @ \/ w.buffer = <<>>]

(* log(): rejected at the cap (walLog() swallows the rejection), flushed   *)
(* at once when the buffer is full.                                        *)
Logged(w, e) ==
    IF Len(w.buffer) >= MaxBufferCap
    THEN w
    ELSE LET p == Pushed(w, e)
         IN  IF Len(p.buffer) >= MaxBufferSize THEN Flushed(p) ELSE p

\* log() rejects the entry.
Rejects(w) == Len(w.buffer) >= MaxBufferCap

\* The states of the log while one request handler logs the entries es.
Logging(es) ==
    LET after[i \in 0..Len(es)] == IF i = 0 THEN wal ELSE Logged(after[i - 1], es[i])
    IN  after

LogAll(es) == wal' = Logging(es)[Len(es)]

\* The entries log() accepts.
AcceptedOf(es) == {i \in DOMAIN es : ~Rejects(Logging(es)[i - 1])}

-----------------------------------------------------------------------------
\* The age timer's callback.
TimerFires ==
    /\ wal.timer
    /\ wal' = Flushed(wal)
    /\ UNCHANGED table

\* Variant: the finally block does not restart the timer.
SettledNoTimer(w, back) ==
    [w EXCEPT !.buffer = back \o @, !.inflight = <<>>, !.flushing = FALSE]

(* The end of flush(): a failed batch goes back to the front of the        *)
(* buffer, and the timer is restarted if anything is left.                 *)
Settled(w, back) ==
    [w EXCEPT !.buffer = back \o @, !.inflight = <<>>, !.flushing = FALSE,
              !.timer = @ \/ back \o w.buffer # <<>>]

\* The multi-row INSERT succeeds.
InsertSucceeds ==
    /\ wal.flushing
    /\ table' = table \o wal.inflight
    /\ wal' = Settled(wal, <<>>)

(* The rows an INSERT that reports an error may have left behind: none, or *)
(* the whole batch when only the answer was lost.                          *)
Committed ==
    {<<>>} \cup IF Len(table) + Len(wal.inflight) <= MaxRows THEN {wal.inflight} ELSE {}

\* An INSERT attempt fails and another one follows after the back-off.
InsertFails ==
    /\ wal.flushing
    /\ wal.attempt < MaxRetries
    /\ \E rows \in Committed : table' = table \o rows
    /\ wal' = [wal EXCEPT !.attempt = @ + 1]

\* Variant: a failed batch goes behind what was logged meanwhile.
ReturnedBehind(w) ==
    [w EXCEPT !.buffer = @ \o w.inflight, !.inflight = <<>>, !.flushing = FALSE,
              !.timer = TRUE]

\* The last attempt fails: the entries return to the buffer.
ReturnBatch(w) == Settled(w, w.inflight)

InsertGivesUp ==
    /\ wal.flushing
    /\ wal.attempt = MaxRetries
    /\ \E rows \in Committed : table' = table \o rows
    /\ wal' = ReturnBatch(wal)

-----------------------------------------------------------------------------
\* The rows of s at the positions P, in their order.
RowsAt(s, P) ==
    LET rows[n \in 0..Len(s)] ==
          IF n = 0 THEN <<>>
          ELSE IF n \in P THEN Append(rows[n - 1], s[n]) ELSE rows[n - 1]
    IN  rows[Len(s)]

RowsOf(rows, j) == RowsAt(rows, {i \in DOMAIN rows : rows[i].job = j})
HasTerminal(rows, j) == \E i \in DOMAIN rows : rows[i].job = j /\ rows[i].event \in Terminal

\* replay() returns the latest snapshot of each job without a terminal row.
SurvivesIn(rows, j) == RowsOf(rows, j) # <<>> /\ ~HasTerminal(rows, j)

FinishedJobs ==
    {j \in Jobs : RowsOf(table, j) # <<>> /\ Last(RowsOf(table, j)).event \in Terminal}

\* Variant: only the terminal row of a finished job is deleted.
PruneTerminalRow ==
    \E S \in SUBSET FinishedJobs \ {{}} :
        /\ table' = RowsAt(table, {i \in DOMAIN table :
                                  ~(table[i].job \in S /\ table[i].event \in Terminal)})
        /\ UNCHANGED wal

(* prune(): the whole history of jobs whose latest event is terminal and   *)
(* older than the cut-off.  Which of them are that old is left open.       *)
Prune ==
    \E S \in SUBSET FinishedJobs \ {{}} :
        /\ table' = RowsAt(table, {i \in DOMAIN table : table[i].job \notin S})
        /\ UNCHANGED wal

WalSteps ==
    \/ TimerFires
    \/ InsertSucceeds
    \/ InsertFails
    \/ InsertGivesUp
    \/ Prune

-----------------------------------------------------------------------------
WalTypeOK ==
    /\ wal \in [buffer: Seq(Entries), inflight: Seq(Entries), flushing: BOOLEAN,
                timer: BOOLEAN, attempt: 0..MaxRetries]
    /\ table \in Seq(Entries)
=============================================================================
