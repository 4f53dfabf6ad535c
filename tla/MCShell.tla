------------------------------ MODULE MCShell -------------------------------
(* Small instances, for TLC, of how the Go API serves a request.           *)
EXTENDS RequestShell
=============================================================================
