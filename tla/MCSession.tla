------------------------------- MODULE MCSession -------------------------------
EXTENDS Session
CONSTANTS r1, b1, s1
=============================================================================
