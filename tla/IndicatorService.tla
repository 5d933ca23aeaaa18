-------------------------- MODULE IndicatorService --------------------------
(***************************************************************************)
(* The service side of libayatana-indicator: src/src/indicator-service.c.  *)
(*                                                                         *)
(* One IndicatorService object lives in the main loop of a service         *)
(* process.  It registers an object on the session bus, asks for a         *)
(* well-known name, counts the processes that call Watch on it and, when   *)
(* nobody watches, arms a timer whose expiry emits SHUTDOWN.  Everything   *)
(* happens in callbacks of one GMainLoop, so an action below is one whole  *)
(* callback; what interleaves is the order in which callbacks become       *)
(* ready.                                                                  *)
(*                                                                         *)
(* Of the bus the model keeps what the callbacks can tell apart: one       *)
(* connection delivers its messages in the order the bus routed them       *)
(* (inbox), a unique name is never reused (alive only shrinks), and a      *)
(* call to a well-known name reaches whoever owns the name when the bus    *)
(* routes it.  Durations of timers are left out: an armed timer may fire   *)
(* at any time.                                                            *)
(***************************************************************************)
EXTENDS Naturals, Sequences, FiniteSets

CONSTANTS
    Managers,       \* the IndicatorServiceManager objects that call the service
    Names,          \* the unique bus names of the processes they live in
    Sender,         \* the process each manager lives in
    MaxCalls        \* bound: how many calls the managers make in all

ASSUME SenderAssumption   == Sender \in [Managers -> Names]
ASSUME MaxCallsAssumption == MaxCalls \in Nat

VARIABLES
    env,            \* the environment: replace_mode and INDICATOR_ALLOW_NO_WATCHERS
    process,        \* "running", "disposed" (but alive), "aborted" by g_error, "exited"
    bus,            \* init's g_bus_get: "getting", then "ready": the object is registered
    watchers,       \* the keys of priv->watchers: unique names
    timeout,        \* priv->timeout: "none" (0), "armed", or "stale": the id of a source that ran
    named,          \* name-acquired has been called
    shutdown,       \* SHUTDOWN has been emitted
    request,        \* g_bus_own_name at the bus: "unsent", "queued", "owner"
    owner,          \* who owns the well-known name: "nobody", "other", "self"
    inbox,          \* what the bus has routed to this connection and is not dispatched yet
    alive,          \* the unique names that are still on the bus
    answered,       \* the managers whose last handled call was Watch
    calls           \* the number of calls made, up to MaxCalls

object == <<process, bus, watchers, timeout, named, shutdown, answered>>
world  == <<env, request, owner, alive, calls>>
vars   == <<object, world, inbox>>

NameEvents == [op : {"NameAcquired", "NameLost"}]
WatchCalls == [op : {"Watch", "UnWatch"}, from : Managers]
Calls      == WatchCalls \cup [op : {"Shutdown"}]
Messages   == NameEvents \cup Calls

TypeOK ==
    /\ env \in [replace_mode : BOOLEAN, allow_no_watchers : BOOLEAN]
    /\ process \in {"running", "disposed", "aborted", "exited"}
    /\ bus \in {"getting", "ready"}
    /\ watchers \in SUBSET Names
    /\ timeout \in {"none", "armed", "stale"}
    /\ named \in BOOLEAN
    /\ shutdown \in BOOLEAN
    /\ request \in {"unsent", "queued", "owner"}
    /\ owner \in {"nobody", "other", "self"}
    /\ inbox \in Seq(Messages)
    /\ alive \in SUBSET Names
    /\ answered \in SUBSET Managers
    /\ calls \in 0 .. MaxCalls

\* indicator_service_new: init starts g_bus_get, setting the name starts
\* g_bus_own_name.  Neither has completed when the main loop starts.
Init ==
    /\ env \in [replace_mode : BOOLEAN, allow_no_watchers : BOOLEAN]
    /\ process = "running"
    /\ bus = "getting"
    /\ watchers = {}
    /\ timeout = "none"
    /\ named = FALSE
    /\ shutdown = FALSE
    /\ request = "unsent"
    /\ owner \in {"nobody", "other"}
    /\ inbox = <<>>
    /\ alive = Names
    /\ answered = {}
    /\ calls = 0

\* The main loop of the process still runs.
Looping == process \in {"running", "disposed"}

\* The object is exported on the bus: what is called on it is dispatched to it.
Registered == process = "running" /\ bus = "ready"

Head1(op) == Looping /\ inbox # <<>> /\ Head(inbox).op = op
Consume   == inbox' = Tail(inbox)

-----------------------------------------------------------------------------
(* The main loop of the service. *)

\* The bus connection is there, or g_error ends the process: when it could not
\* be had, and when dispose has cancelled the request in the meantime.
bus_get_cb ==
    /\ Looping
    /\ bus = "getting"
    /\ \/ process = "running" /\ bus' = "ready" /\ UNCHANGED process
       \/ process' = "aborted" /\ UNCHANGED bus
    /\ UNCHANGED <<watchers, timeout, named, shutdown, answered, world, inbox>>

\* Seeded fault: the timer is only removed, never armed again.
acquired_cb_disarms ==
    /\ Head1("NameAcquired")
    /\ Consume
    /\ timeout' = IF timeout = "none" THEN "armed" ELSE "none"
    /\ named' = TRUE
    /\ UNCHANGED <<process, bus, watchers, shutdown, answered, world>>

\* Seeded fault: the name is had, and no timer started.
acquired_cb_without_timer ==
    /\ Head1("NameAcquired")
    /\ Consume
    /\ named' = TRUE
    /\ UNCHANGED <<process, bus, watchers, timeout, shutdown, answered, world>>

\* Arms the timer anew, whether or not one was armed.
try_and_get_name_acquired_cb ==
    /\ Head1("NameAcquired")
    /\ Consume
    /\ timeout' = "armed"
    /\ named' = TRUE
    /\ UNCHANGED <<process, bus, watchers, shutdown, answered, world>>

\* Seeded fault: replace mode waits for the name without a timer.
lost_cb_waits_forever ==
    /\ Head1("NameLost")
    /\ Consume
    /\ shutdown' = ~env.replace_mode
    /\ UNCHANGED <<process, bus, watchers, timeout, named, answered, world>>

\* Gives up, or tells the owner to shut down and waits for the name.
try_and_get_name_lost_cb ==
    /\ Head1("NameLost")
    /\ Consume
    /\ IF env.replace_mode
       THEN timeout' = "armed" /\ UNCHANGED shutdown
       ELSE shutdown' = TRUE /\ UNCHANGED timeout
    /\ UNCHANGED <<process, bus, watchers, named, answered, world>>

\* Seeded fault: the timer keeps running.
bus_watch_keeps_timer(m) ==
    /\ Registered
    /\ Head1("Watch")
    /\ Head(inbox).from = m
    /\ Consume
    /\ watchers' = watchers \cup {Sender[m]}
    /\ answered' = answered \cup {m}
    /\ UNCHANGED <<process, bus, timeout, named, shutdown, world>>

\* Seeded fault: the table is keyed by the manager, not by the name of its process.
bus_watch_by_manager(m) ==
    /\ Registered
    /\ Head1("Watch")
    /\ Head(inbox).from = m
    /\ Consume
    /\ watchers' = watchers \cup {m}
    /\ timeout' = "none"
    /\ answered' = answered \cup {m}
    /\ UNCHANGED <<process, bus, named, shutdown, world>>

\* Watch: the sender is watched from now on, and the timer is taken down.
bus_watch(m) ==
    /\ Registered
    /\ Head1("Watch")
    /\ Head(inbox).from = m
    /\ Consume
    /\ watchers' = watchers \cup {Sender[m]}
    /\ timeout' = "none"
    /\ answered' = answered \cup {m}
    /\ UNCHANGED <<process, bus, named, shutdown, world>>

\* Seeded fault: the timer is armed without a look at who is left.
unwatch_core_does_not_count(n) ==
    /\ watchers' = watchers \ {n}
    /\ timeout' = "armed"

\* Removes a name from the table; the last one to leave arms the timer, and so
\* does a name that was not in an empty table.
unwatch_core(n) ==
    /\ watchers' = watchers \ {n}
    /\ timeout' = IF watchers' = {} THEN "armed" ELSE timeout

\* UnWatch, from a watcher or not.
bus_unwatch(m) ==
    /\ Registered
    /\ Head1("UnWatch")
    /\ Head(inbox).from = m
    /\ Consume
    /\ unwatch_core(Sender[m])
    /\ answered' = answered \ {m}
    /\ UNCHANGED <<process, bus, named, shutdown, world>>

\* Shutdown passes the request on to the application.
bus_shutdown ==
    /\ Registered
    /\ Head1("Shutdown")
    /\ Consume
    /\ shutdown' = TRUE
    /\ UNCHANGED <<process, bus, watchers, timeout, named, answered, world>>

\* A call that arrives while the object is not exported is answered with an
\* error by GDBus.
unregistered_call ==
    /\ ~Registered
    /\ \E op \in {"Watch", "UnWatch", "Shutdown"} : Head1(op)
    /\ Consume
    /\ UNCHANGED <<object, world>>

\* Seeded fault: the name is removed from the table and nothing else.
vanished_only_removes(n) ==
    /\ process = "running"
    /\ n \in watchers \ alive
    /\ watchers' = watchers \ {n}
    /\ answered' = {m \in answered : Sender[m] # n}
    /\ UNCHANGED <<process, bus, timeout, named, shutdown, world, inbox>>

\* Seeded fault: the table keeps the name when it is the last one.
vanished_keeps_last(n) ==
    /\ process = "running"
    /\ n \in watchers \ alive
    /\ watchers # {n}
    /\ watchers' = watchers \ {n}
    /\ answered' = {m \in answered : Sender[m] # n}
    /\ UNCHANGED <<process, bus, timeout, named, shutdown, world, inbox>>

\* A watched name has left the bus.  Its last call was routed before that.
watcher_vanished_cb(n) ==
    /\ process = "running"
    /\ n \in watchers \ alive
    /\ \A i \in 1 .. Len(inbox) : inbox[i] \in WatchCalls => Sender[inbox[i].from] # n
    /\ unwatch_core(n)
    /\ answered' = {m \in answered : Sender[m] # n}
    /\ UNCHANGED <<process, bus, named, shutdown, world, inbox>>

\* The timer fires: the source is gone, but priv->timeout keeps its id.
timeout_no_watchers ==
    /\ Looping
    /\ timeout = "armed"
    /\ timeout' = "stale"
    /\ shutdown' = (shutdown \/ ~env.allow_no_watchers)
    /\ UNCHANGED <<process, bus, watchers, named, answered, world, inbox>>

\* The last reference of the application goes away.  The names are no longer
\* watched, the object is not exported, but the well-known name stays requested.
indicator_service_dispose ==
    /\ process = "running"
    /\ process' = "disposed"
    /\ watchers' = {}
    /\ timeout' = "none"
    /\ answered' = {}
    /\ UNCHANGED <<bus, named, shutdown, world, inbox>>

-----------------------------------------------------------------------------
(* The application, the bus and the other processes. *)

\* The application does what SHUTDOWN asks for.
AppQuits ==
    /\ Looping
    /\ shutdown
    /\ process' = "exited"
    /\ UNCHANGED <<bus, watchers, timeout, named, shutdown, answered, world, inbox>>

\* The bus handles the request for the name: granted, or queued behind its owner.
RequestName ==
    /\ Looping
    /\ request = "unsent"
    /\ IF owner = "nobody"
       THEN /\ owner' = "self"
            /\ request' = "owner"
            /\ inbox' = Append(inbox, [op |-> "NameAcquired"])
       ELSE /\ request' = "queued"
            /\ inbox' = Append(inbox, [op |-> "NameLost"])
            /\ UNCHANGED owner
    /\ UNCHANGED <<object, env, alive, calls>>

\* The other owner of the name leaves the bus, told so or not.
OtherLeaves ==
    /\ Looping
    /\ owner = "other"
    /\ IF request = "queued"
       THEN /\ owner' = "self"
            /\ request' = "owner"
            /\ inbox' = Append(inbox, [op |-> "NameAcquired"])
       ELSE /\ owner' = "nobody"
            /\ UNCHANGED <<request, inbox>>
    /\ UNCHANGED <<object, env, alive, calls>>

\* A call to the well-known name, from a manager or (Shutdown) from a service
\* that wants the name, is routed to its owner.
Call(msg) ==
    /\ Looping
    /\ owner = "self"
    /\ msg \in WatchCalls => Sender[msg.from] \in alive
    /\ calls < MaxCalls
    /\ calls' = calls + 1
    /\ inbox' = Append(inbox, msg)
    /\ UNCHANGED <<object, env, request, owner, alive>>

\* A process leaves the bus, in order or by a crash.
PeerDies(n) ==
    /\ Looping
    /\ n \in alive
    /\ alive' = alive \ {n}
    /\ UNCHANGED <<object, env, request, owner, calls, inbox>>

-----------------------------------------------------------------------------
Dispatch ==
    \/ bus_get_cb
    \/ try_and_get_name_acquired_cb
    \/ try_and_get_name_lost_cb
    \/ \E m \in Managers : bus_watch(m) \/ bus_unwatch(m)
    \/ bus_shutdown
    \/ unregistered_call

Vanish == \E n \in Names : watcher_vanished_cb(n)

Next ==
    \/ Dispatch
    \/ Vanish
    \/ timeout_no_watchers
    \/ indicator_service_dispose
    \/ AppQuits
    \/ RequestName
    \/ OtherLeaves
    \/ \E msg \in Calls : Call(msg)
    \/ \E n \in Names : PeerDies(n)

\* The main loop dispatches what is ready, the bus handles what it is sent, and
\* an armed timer fires once it is no longer replaced (calls are finitely many).
\* Nothing is assumed of the application and of the other processes.
Fairness ==
    /\ WF_vars(bus_get_cb)
    /\ WF_vars(Dispatch)
    /\ WF_vars(Vanish)
    /\ WF_vars(timeout_no_watchers)
    /\ WF_vars(RequestName)

Spec     == Init /\ [][Next]_vars
FairSpec == Spec /\ Fairness

-----------------------------------------------------------------------------
(* Properties. *)

\* The shutdown timer only runs while nobody watches.  bus_watch clears it after
\* the table is filled and every other callback that arms it relies on the table
\* being empty: try_and_get_name_acquired_cb does not look, it relies on the bus
\* delivering the name before the first call made to it.
ArmedOnlyUnwatched == timeout = "armed" => watchers = {}

\* A service that has had its name and is watched by nobody has a timer that runs
\* or has run: no order of Watch, UnWatch and vanishing watchers leaves it idle
\* with no way to stop.
UnwatchedIsTimed ==
    (named /\ process = "running" /\ watchers = {}) => timeout # "none"

\* A service that nothing will call back any more is watched, or has emitted SHUTDOWN:
\* whatever became of its name, of the calls and of the watchers, no run of callbacks
\* leaves it alone with nobody to stop it.
AtRest == /\ process = "running" /\ bus = "ready" /\ request # "unsent"
          /\ inbox = <<>> /\ timeout # "armed"
RestIsWatchedOrOver == (AtRest /\ ~env.allow_no_watchers) => watchers # {} \/ shutdown

\* What the two invariants above rest on: the service owns its name before a call
\* reaches it, and hears of that first.  Name events come before calls, nobody is
\* in the table while one is pending, and the name that is had and was not yet
\* announced is about to be.
CallOps == {"Watch", "UnWatch", "Shutdown"}
AnnouncedBeforeCalled ==
    /\ request = "owner" <=> owner = "self"
    /\ \A i \in 1 .. Len(inbox) : inbox[i].op \in CallOps => owner = "self"
    /\ \A i, j \in 1 .. Len(inbox) :
           (i < j /\ inbox[i].op \in CallOps) => inbox[j].op \in CallOps
    /\ watchers # {} =>
           /\ owner = "self"
           /\ \A i \in 1 .. Len(inbox) : inbox[i].op \in CallOps
    /\ (owner = "self" /\ ~named) =>
           \E i \in 1 .. Len(inbox) : inbox[i].op = "NameAcquired"

\* A manager that lives, whose Watch was answered and who has not unwatched since,
\* is protected: the timer does not emit SHUTDOWN under it.  The documentation of
\* the signal (indicator-service.c:143-147) says that no one is listening by then.
Listening == {m \in answered : Sender[m] \in alive}
TimeoutEmits == timeout = "armed" /\ timeout' = "stale"
TimedOutAlone == [][TimeoutEmits => Listening = {}]_vars

\* The callbacks implement the abstract lifetime of a service: a disposed object is
\* retired, an empty table means grace while the timer runs and the end of it after.
LifetimePeers == IF process = "running" THEN watchers ELSE {}
LifetimePhase ==
    CASE process # "running" -> "retired"
      [] process = "running" /\ watchers # {} -> "watched"
      [] process = "running" /\ watchers = {} /\ timeout = "armed" -> "grace"
      [] process = "running" /\ watchers = {} /\ timeout = "stale" -> "over"
      [] process = "running" /\ watchers = {} /\ timeout = "none"  -> "starting"
Lifetime == INSTANCE ServiceLifetime WITH
    Peers <- Names, peers <- LifetimePeers, phase <- LifetimePhase
ImplementsLifetime == Lifetime!Spec

\* A process that left the bus does not keep the service alive: it is dropped from
\* the table, also when it was gone before its Watch was dispatched.
DeadAreDropped ==
    \A n \in Names : (n \notin alive) ~> (n \notin watchers \/ process # "running")

\* If the name cannot be had SHUTDOWN is emitted, says the documentation of
\* indicator_service_new (indicator-service.c:607-610); unless the environment
\* variable blocks it, also in replace mode, where the old owner may never go.
Gone == process # "running"
NameOrShutdown ==
    (~env.allow_no_watchers) ~> (named \/ shutdown \/ Gone)

\* A service that has its name and that nobody watches emits SHUTDOWN in the end,
\* unless somebody comes to watch it.
LonelyServiceStops ==
    (named /\ watchers = {} /\ ~env.allow_no_watchers)
        ~> (watchers # {} \/ shutdown \/ Gone)
=============================================================================
