-------------------------- MODULE ServiceLifetime --------------------------
(***************************************************************************)
(* What an indicator service promises about its own lifetime, without any  *)
(* timer, queue or D-Bus name in sight.                                    *)
(*                                                                         *)
(* A service starts out unannounced.  It then alternates between being     *)
(* watched by a non-empty set of peers and a period of grace in which      *)
(* nobody watches it.  Only grace may run out, and a service that has been *)
(* announced never again forgets that nobody is watching it: from then on  *)
(* an empty set of peers means grace or the end of it.                     *)
(***************************************************************************)
CONSTANT Peers          \* the bus names that may watch the service

VARIABLES
    phase,              \* where the service is in its life
    peers               \* who is watching it

vars == <<phase, peers>>

Phases == {"starting", "grace", "watched", "over", "retired"}

Init == phase = "starting" /\ peers = {}

\* The service is announced (it has its name, or waits for the previous owner of
\* the name to go), or is reminded that nobody watches it.
OpenGrace == /\ phase \in {"starting", "grace", "over"}
             /\ phase' = "grace"
             /\ UNCHANGED peers

\* A peer starts watching.  A service is never watched before it is announced.
Join(p) == /\ phase \in {"grace", "watched", "over"}
           /\ phase' = "watched"
           /\ peers' = peers \cup {p}

\* A peer stops watching; the last one to leave opens a period of grace.
Leave(p) == /\ phase = "watched"
            /\ peers' = peers \ {p}
            /\ phase' = IF peers' = {} THEN "grace" ELSE "watched"

\* Nobody came back in time.
Expire == /\ phase = "grace"
          /\ phase' = "over"
          /\ UNCHANGED peers

\* The object is disposed of.
Retire == phase' = "retired" /\ peers' = {}

Next == \/ OpenGrace \/ Expire \/ Retire
        \/ \E p \in Peers : Join(p) \/ Leave(p)

Spec == Init /\ [][Next]_vars
=============================================================================
