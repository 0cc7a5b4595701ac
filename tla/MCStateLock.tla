----------------------------- MODULE MCStateLock ----------------------------
(* Four threads: two readers inside, a writer that drains them, and one    *)
(* more that wants to get in.                                              *)
EXTENDS StateLock

CONSTANTS t1, t2, t3, t4

MCThread == {t1, t2, t3, t4}
=============================================================================
