------------------------ MODULE MCServiceAndManager ------------------------
(***************************************************************************)
(* ServiceAndManager for TLC.                                              *)
(***************************************************************************)
EXTENDS ServiceAndManager

\* The service replaces another owner of the name, and INDICATOR_ALLOW_NO_WATCHERS is
\* not set: the timer can stop it.
MCEnvironments == {[replace_mode |-> TRUE, allow_no_watchers |-> FALSE]}
=============================================================================
