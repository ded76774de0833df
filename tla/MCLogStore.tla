----------------------------- MODULE MCLogStore -----------------------------
(* Instances of LogStore for TLC.                                           *)
EXTENDS LogStore

CONSTANTS t1, t2, httpd

MCWriters == {t1, t2}
=============================================================================
