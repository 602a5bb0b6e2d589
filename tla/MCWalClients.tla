---------------------------- MODULE MCWalClients ----------------------------
(* Two jobs and four accepted entries; a flush is triggered by two, the    *)
(* cap of three is reached while a flush is running, and a flush has two   *)
(* attempts.  Failed INSERTs leave rows behind up to three of them.         *)
EXTENDS WalClients

CONSTANTS j1, j2

MCJobs == {j1, j2}
MCSnapshots == 1..MaxLogged
=============================================================================
