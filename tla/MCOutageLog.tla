---------------------------- MODULE MCOutageLog -----------------------------
(* Small instances of OutageLog.                                           *)
EXTENDS OutageLog
=============================================================================
