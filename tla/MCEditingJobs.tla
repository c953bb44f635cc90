---------------------------- MODULE MCEditingJobs ----------------------------
(* Two submissions over two timeline revisions, so that their command and   *)
(* monitor tasks overlap on the one worker.                                 *)
EXTENDS EditingJobs
=============================================================================
