------------------------------ MODULE MCHttpTxn ------------------------------
(* Instances of HttpTxn for TLC.                                           *)
EXTENDS HttpTxn_refines

CONSTANTS t1, t2, h1
=============================================================================
