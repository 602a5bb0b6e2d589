----------------------------- MODULE WalClients -----------------------------
(***************************************************************************)
(* BatchedJobWAL.ts used by callers that log terminal and other events of  *)
(* any job at any moment.  The snapshot of the n-th accepted entry is n,   *)
(* so that a row tells when it was logged.                                 *)
(***************************************************************************)
EXTENDS JobWal

CONSTANT MaxLogged   \* bound: entries accepted

ASSUME ClientsAssumption == MaxLogged \in Nat

VARIABLE logged      \* history: [Jobs -> the latest accepted snapshot, 0 if none]

clientsVars == <<wal, table, logged>>

Serial == Cardinality({n \in 1..MaxLogged : \E j \in Jobs : logged[j] >= n})

InitClients == InitWal /\ logged = [j \in Jobs |-> 0]

\* log() by any caller; a rejected entry changes nothing.
Log(j, event) ==
    /\ Serial < MaxLogged
    /\ LogAll(<<Entry(j, event, Serial + 1)>>)
    /\ ~Rejects(wal)
    /\ logged' = [logged EXCEPT ![j] = Serial + 1]
    /\ UNCHANGED table

NextClients ==
    \/ \E j \in Jobs, event \in {"enqueued", "completed"} : Log(j, event)
    \/ WalSteps /\ UNCHANGED logged

(* The timer of a running process fires, an INSERT attempt ends, and the   *)
(* database is not down for ever: of infinitely many INSERTs one succeeds. *)
Fairness ==
    /\ WF_clientsVars(TimerFires /\ UNCHANGED logged)
    /\ WF_clientsVars((InsertSucceeds \/ InsertFails \/ InsertGivesUp) /\ UNCHANGED logged)
    /\ SF_clientsVars(InsertSucceeds /\ UNCHANGED logged)

ClientsSpec == InitClients /\ [][NextClients]_clientsVars

FairSpec == ClientsSpec /\ Fairness
-----------------------------------------------------------------------------
(***************************************************************************)
(* Properties                                                              *)
(***************************************************************************)

\* Every variable has the shape the code gives it.
TypeOK == WalTypeOK /\ logged \in [Jobs -> 0..MaxLogged]

(* The log of a job never runs backwards: whatever is retried, returned to *)
(* the buffer or inserted twice, the latest row of a job is the newest of  *)
(* its rows, and what is still in memory is newer still.  This is what     *)
(* lets replay() take the row with the highest id as the job's state.      *)
LatestIsNewest ==
    \A j \in Jobs :
        LET rows == RowsOf(table, j)
            pending == RowsOf(wal.inflight \o wal.buffer, j)
        IN  /\ \A i \in DOMAIN rows : rows[i].data <= Last(rows).data
            /\ \A i \in DOMAIN pending : \A k \in 1..(i - 1) :
                 pending[k].data < pending[i].data
            /\ pending # <<>> => Last(pending).data = logged[j]

(* An accepted entry is not stranded in memory: whatever fails meanwhile,  *)
(* each job's latest accepted entry reaches the table in the end (or, its  *)
(* whole history having been finished, is pruned) and no later one waits.  *)
EventuallyDurable ==
    \A j \in Jobs : (logged[j] > 0) ~> (RowsOf(wal.inflight \o wal.buffer, j) = <<>>)
=============================================================================
