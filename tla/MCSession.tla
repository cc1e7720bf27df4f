------------------------------ MODULE MCSession ------------------------------
EXTENDS Session

MCRecord == [id : 1..2, version : {1, 2}]
=============================================================================
