------------------------- MODULE ServiceAndManager -------------------------
(***************************************************************************)
(* The two ends of the lifetime protocol, over one bus:                    *)
(* src/src/indicator-service-manager.c in one process calls                *)
(* src/src/indicator-service.c in another.                                 *)
(*                                                                         *)
(* A step is one of IndicatorServiceManager, one of IndicatorService, or   *)
(* one of each at once: what the manager sends waits in outbox until the   *)
(* bus routes it to the owner of the name, its Watch is answered by        *)
(* bus_watch, and it hears of the name when the service takes it or ends.  *)
(* So what each module assumes of its environment is here done by the code *)
(* of the other.                                                           *)
(*                                                                         *)
(* The service's process may end at any time and is started again by the   *)
(* bus when the manager asks for the name.  Another program, of a version  *)
(* the manager does not accept, may have the name at first.                *)
(***************************************************************************)
EXTENDS Naturals, Sequences

CONSTANTS
    LittleWhile, MaxShift, MaxSubs, MaxFaults,  \* of IndicatorServiceManager
    MaxCalls,                                   \* of IndicatorService, for each process
    MaxSetbacks,    \* bound: how often the service fails on its own
    Environments,                               \* the environments the service is started in
    m, n                                        \* the manager, and the unique name of its process

ASSUME ManagerAssumption == /\ LittleWhile \in Nat /\ MaxShift \in Nat
                            /\ 0 < LittleWhile /\ LittleWhile <= MaxShift
                            /\ MaxSubs \in Nat /\ 1 < MaxSubs
                            /\ MaxFaults \in Nat
ASSUME ServiceAssumption == MaxCalls \in Nat

VARIABLES
    \* those of IndicatorServiceManager
    disposed, connected, proxy, proxy_cancel, name_watcher, restart_count, restart_source, idles,
    timers, creating, watching, dropped, subs, replies, counted, faults, restart_disabled,
    \* those of IndicatorService
    env, process, bus, watchers, timeout, named, shutdown, request, owner, inbox, alive, answered,
    calls,
    setbacks,       \* how often it did, up to MaxSetbacks
    outbox,         \* calls of the manager that the bus has not routed yet
    parted          \* history: dispose has said UnWatch, and had no restart scheduled

Up == process = "running"

\* Who has the name, as the manager sees it.
Owner == IF owner = "other" THEN "bad" ELSE IF owner = "self" /\ Up THEN "good" ELSE "none"

M == INSTANCE IndicatorServiceManager WITH inbox <- replies, owner <- Owner
S == INSTANCE IndicatorService WITH Managers <- {m}, Names <- {n}, Sender <- [x \in {m} |-> n]

manager == <<disposed, connected, proxy, proxy_cancel, name_watcher, restart_count, restart_source,
             idles, timers, creating, watching, dropped, subs, replies, counted, faults,
             restart_disabled>>
service == <<env, process, bus, watchers, timeout, named, shutdown, request, owner, inbox, alive,
             answered, calls>>
vars    == <<manager, service, setbacks, outbox, parted>>

\* The service is running already and asks for its name; restarts are not disabled.
Init ==
    /\ S!Init
    /\ env \in Environments
    /\ M!Init
    /\ ~restart_disabled
    /\ setbacks = 0
    /\ outbox = <<>>
    /\ parted = FALSE

-----------------------------------------------------------------------------
(* The manager's steps. *)

\* What was not routed yet of the Watch calls that a step has made.
Sends == outbox' = outbox \o [i \in 1 .. watching' - watching |-> "Watch"]

ManagerStep ==
    /\ UNCHANGED <<service, setbacks, parted>>
    /\ \/ M!Dispatch
       \/ M!restart_in_idle
       \/ M!restart_in_timeout
    /\ Sends

\* Creating the proxy, and calls that were cancelled, end without the service.
CallEnds ==
    /\ UNCHANGED <<service, setbacks, outbox, parted>>
    /\ M!ProxyCreated \/ M!DroppedEnds

\* Seeded fault: the proxy is dropped before UnWatch is sent.
dispose_without_unwatch ==
    /\ UNCHANGED <<service, setbacks, outbox>>
    /\ M!indicator_service_manager_dispose
    /\ parted' = (proxy /\ idles = 0 /\ timers' = 0)

ManagerDisposes ==
    /\ UNCHANGED <<service, setbacks>>
    /\ M!indicator_service_manager_dispose
    /\ outbox' = IF proxy THEN Append(outbox, "UnWatch") ELSE outbox
    /\ parted' = (proxy /\ idles = 0 /\ timers' = 0)

-----------------------------------------------------------------------------
(* Calls on their way. *)

\* A reply to a call that dispose has cancelled tells nothing: DroppedEnds ends it.
Answered(result) ==
    IF disposed THEN UNCHANGED manager
    ELSE M!WatchAnswered /\ replies' = Append(replies, [ev |-> "Watch", result |-> result])

\* The bus routes the next call: to the service, to the other owner, or nowhere.
RouteToService ==
    /\ outbox # <<>>
    /\ S!Call([op |-> Head(outbox), from |-> m])
    /\ outbox' = Tail(outbox)
    /\ UNCHANGED <<manager, setbacks, parted>>

RouteElsewhere ==
    /\ outbox # <<>>
    /\ UNCHANGED <<service, setbacks, parted>>
    /\ IF Head(outbox) = "Watch"
       THEN \E result \in IF Owner = "bad" THEN {"bad", "error"} ELSE {"error"} : Answered(result)
       ELSE Owner # "good" /\ UNCHANGED manager
    /\ outbox' = Tail(outbox)

\* bus_watch answers; an object that is not registered yet does not.
ServiceHandlesWatch ==
    /\ inbox # <<>> /\ Head(inbox).op = "Watch"
    /\ \/ S!bus_watch(m) /\ Answered("good")
       \/ S!unregistered_call /\ Answered("error")
    /\ UNCHANGED <<setbacks, outbox, parted>>

-----------------------------------------------------------------------------
(* The service's steps. *)

ServiceStep ==
    /\ \/ S!bus_get_cb /\ process' = process
       \/ S!try_and_get_name_acquired_cb
       \/ S!try_and_get_name_lost_cb
       \/ S!bus_unwatch(m)
       \/ S!unregistered_call /\ Head(inbox).op # "Watch"
    /\ UNCHANGED <<manager, setbacks, outbox, parted>>

\* Something that would keep the manager from its service, if it happened for ever.
Setback(counts) ==
    /\ setbacks' = IF counts THEN setbacks + 1 ELSE setbacks
    /\ setbacks' <= MaxSetbacks

\* While there is a manager the timer may be quicker than its Watch.
TimerFires ==
    /\ S!timeout_no_watchers
    /\ Setback(~disposed)
    /\ UNCHANGED <<manager, outbox, parted>>

\* The name comes to the service, or goes, with what the bus tells the manager.
NameChanges ==
    IF Owner' = Owner THEN UNCHANGED manager
    ELSE IF Owner' = "none" THEN M!ServiceDies
    ELSE M!ServiceAppears(Owner') \/ M!ServiceReplaced(Owner')

ServiceTakesName ==
    /\ S!RequestName
    /\ NameChanges
    /\ UNCHANGED <<setbacks, outbox, parted>>

OtherLeaves ==
    /\ S!OtherLeaves
    /\ NameChanges
    /\ UNCHANGED <<setbacks, outbox, parted>>

\* The process ends: as SHUTDOWN asks, without a bus, or by a crash.
ServiceCrashes ==
    /\ Up
    /\ process' = "exited"
    /\ UNCHANGED <<env, bus, watchers, timeout, named, shutdown, request, owner, inbox, alive,
                   answered, calls>>

ServiceEnds ==
    /\ \/ S!AppQuits
       \/ S!bus_get_cb /\ process' # process
       \/ ServiceCrashes
    /\ NameChanges
    /\ Setback(Owner' = Owner)
    /\ UNCHANGED <<outbox, parted>>

\* The bus starts a service that is asked for and not there.
ServiceStarts ==
    /\ ~Up
    /\ creating > 0
    /\ process' = "running"
    /\ bus' = "getting"
    /\ watchers' = {}
    /\ timeout' = "none"
    /\ named' = FALSE
    /\ shutdown' = FALSE
    /\ request' = "unsent"
    /\ owner' = IF owner = "self" THEN "nobody" ELSE owner
    /\ inbox' = <<>>
    /\ answered' = {}
    /\ calls' = 0
    /\ UNCHANGED <<env, alive, manager, setbacks, outbox, parted>>

-----------------------------------------------------------------------------
Next ==
    \/ ManagerStep
    \/ CallEnds
    \/ ManagerDisposes
    \/ RouteToService
    \/ RouteElsewhere
    \/ ServiceHandlesWatch
    \/ ServiceStep
    \/ TimerFires
    \/ ServiceTakesName
    \/ OtherLeaves
    \/ ServiceEnds
    \/ ServiceStarts

\* Each main loop goes on while it has something to do, the bus routes and answers, and
\* starts a service that is asked for again and again.  Nothing is assumed of the
\* application and of the other owner of the name.
Fairness ==
    /\ WF_vars(ManagerStep)
    /\ WF_vars(CallEnds \/ RouteToService \/ RouteElsewhere)
    /\ WF_vars(ServiceHandlesWatch \/ ServiceStep)
    /\ WF_vars(TimerFires)
    /\ WF_vars(ServiceTakesName)
    /\ SF_vars(ServiceStarts)

Spec     == Init /\ [][Next]_vars
FairSpec == Spec /\ Fairness

-----------------------------------------------------------------------------
(* Properties. *)

\* What the manager's module assumes: a service of the right version that has
\* answered its Watch counts it, until it ends or is told UnWatch.
CountedIsWatched == (counted /\ ~disposed /\ Owner = "good") => n \in watchers

\* Once a manager has nothing left to do it is connected to a process that watches
\* it and whose timer does not run: neither end will change that by itself.
RestIsLasting ==
    (M!Quiescent /\ ~disposed) =>
        connected /\ Up /\ named /\ n \in watchers /\ timeout # "armed"

\* The timer of the service does not fire under a manager that it counts.
TimerSparesServed ==
    [][TimerFires => ~(counted /\ ~disposed /\ Owner = "good")]_vars

\* A manager that has said UnWatch in its dispose, and had no restart scheduled, is
\* forgotten when what it sent has arrived: no Watch comes after the UnWatch, and
\* only a service that does not know the manager can miss the UnWatch.
PartedIsForgotten == (parted /\ outbox = <<>> /\ inbox = <<>> /\ Up) => n \notin watchers

\* So a service at rest that the manager has left has emitted SHUTDOWN.
PartedRestIsOver ==
    (parted /\ outbox = <<>> /\ S!AtRest /\ ~env.allow_no_watchers) => shutdown

\* A manager that is not disposed of gets connected for good, to a service that counts
\* it, whoever of the two was there first, when the service stops crashing.
EventuallyServed ==
    <>[](~disposed /\ owner # "other")
        => <>[](connected /\ n \in watchers)

\* A manager that has said UnWatch in its dispose, and had no restart scheduled, does
\* not keep the service: SHUTDOWN is emitted, or the process is gone.
PartedIsStopped == parted ~> (shutdown \/ ~Up)
=============================================================================
