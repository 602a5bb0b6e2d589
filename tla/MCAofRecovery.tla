----------------------------- MODULE MCAofRecovery -----------------------------
EXTENDS AofRecovery
MCRequests == {<<"SETEX">>, <<"RPUSH", "ENQUEUE">>, <<"LPOP">>, <<"DEQUEUE">>, <<"GET", "DEL">>}
=============================================================================
