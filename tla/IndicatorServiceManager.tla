---------------------- MODULE IndicatorServiceManager ----------------------
(***************************************************************************)
(* The client side of libayatana-indicator:                                *)
(* src/src/indicator-service-manager.c.                                    *)
(*                                                                         *)
(* One IndicatorServiceManager keeps a service alive and says whether it   *)
(* is connected to it.  It creates a proxy (which makes the bus start the  *)
(* service), subscribes to the owner of the service's name, calls Watch,   *)
(* checks the versions in the reply, and starts over when anything goes    *)
(* wrong: at once the first time, then after a growing delay.              *)
(*                                                                         *)
(* An action is one callback of the main loop, with all it calls.  The     *)
(* object may be disposed of while callbacks are pending; it is then still *)
(* referenced by somebody, the most favourable case for the code.          *)
(*                                                                         *)
(* Of the bus the model keeps the owner of the name ("good" or "bad": what *)
(* Watch answers passes the version checks or not), the calls in flight,   *)
(* and the queue of replies and signals, which one connection delivers in  *)
(* order.  A call may fail, also because GDBus sent it to an owner that is *)
(* gone; the bound MaxFaults limits how often.  Cancelling a call does not *)
(* take its callback away: the callback is run with an error.              *)
(***************************************************************************)
EXTENDS Naturals, Sequences

CONSTANTS
    LittleWhile,    \* TIMEOUT_A_LITTLE_WHILE: restart_count after a version mismatch
    MaxShift,       \* restart_count is cut to this when a restart is timed: 16 in the code
    MaxSubs,        \* bound: subscriptions beyond this many are not told apart
    MaxFaults       \* bound: how often calls fail and the name changes hands

ASSUME BackoffAssumption == /\ LittleWhile \in Nat /\ MaxShift \in Nat
                            /\ 0 < LittleWhile /\ LittleWhile <= MaxShift
ASSUME BoundsAssumption  == /\ MaxSubs \in Nat /\ 1 < MaxSubs
                            /\ MaxFaults \in Nat

VARIABLES
    disposed,           \* dispose has run
    connected,          \* priv->connected: what CONNECTION_CHANGE said last
    proxy,              \* priv->service_proxy # NULL
    proxy_cancel,       \* priv->service_proxy_cancel # NULL
    name_watcher,       \* priv->name_watcher # 0
    restart_count,      \* priv->restart_count
    restart_source,     \* priv->restart_source: "none" (0), "timer", "blocked" (-1)
    idles,              \* idle sources with start_service_again_cb
    timers,             \* timeout sources with start_service_again_cb
    creating,           \* proxies on their way to service_proxy_cb
    watching,           \* Watch calls on their way to watch_cb
    dropped,            \* the same two after their cancellables were cancelled
    subs,               \* NameOwnerChanged subscriptions with service_proxy_name_changed
    inbox,              \* replies and signals that wait to be dispatched
    owner,              \* who owns the service's name: "none", "good", "bad"
    counted,            \* the owner has us in its table of watchers
    faults,             \* how often the environment misbehaved, up to MaxFaults
    restart_disabled    \* INDICATOR_SERVICE_RESTART_DISABLE is set

handles == <<proxy, proxy_cancel, name_watcher, subs>>
restart == <<restart_count, restart_source, idles, timers>>
pending == <<creating, watching, dropped>>
bus     == <<owner, counted, faults>>
vars    == <<disposed, connected, handles, restart, pending, inbox, bus, restart_disabled>>

ProxyReplies == [ev : {"Proxy"}, result : {"error", "unowned", "owned"}]
WatchReplies == [ev : {"Watch"}, result : {"error", "good", "bad"}]
\* NameOwnerChanged, to be handed to so many more subscriptions.
OwnerSignals == [ev : {"Lost", "Appeared"}, left : 1 .. MaxSubs]
Messages     == ProxyReplies \cup WatchReplies \cup OwnerSignals

TypeOK ==
    /\ disposed \in BOOLEAN
    /\ connected \in BOOLEAN
    /\ proxy \in BOOLEAN
    /\ proxy_cancel \in BOOLEAN
    /\ name_watcher \in BOOLEAN
    /\ restart_count \in Nat
    /\ restart_source \in {"none", "timer", "blocked"}
    /\ idles \in Nat
    /\ timers \in Nat
    /\ creating \in Nat
    /\ watching \in Nat
    /\ dropped \in [proxies : Nat, watches : Nat]
    /\ subs \in 0 .. MaxSubs
    /\ inbox \in Seq(Messages)
    /\ owner \in {"none", "good", "bad"}
    /\ counted \in BOOLEAN
    /\ faults \in 0 .. MaxFaults
    /\ restart_disabled \in BOOLEAN

\* indicator_service_manager_new: init, then start_service when the name is set.
Init ==
    /\ disposed = FALSE
    /\ connected = FALSE
    /\ proxy = FALSE
    /\ proxy_cancel = TRUE
    /\ name_watcher = FALSE
    /\ restart_count = 0
    /\ restart_source = "none"
    /\ idles = 0
    /\ timers = 0
    /\ creating = 1
    /\ watching = 0
    /\ dropped = [proxies |-> 0, watches |-> 0]
    /\ subs = 0
    /\ inbox = <<>>
    /\ owner \in {"none", "good", "bad"}
    /\ counted = FALSE
    /\ faults = 0
    /\ restart_disabled \in BOOLEAN

-----------------------------------------------------------------------------
(* What the callbacks call. *)

AtMost(max, n) == IF n < max THEN n ELSE max

\* Seeded fault: a proxy that is there is good enough.
start_service_keeps_proxy ==
    IF proxy_cancel \/ proxy
    THEN UNCHANGED <<proxy, proxy_cancel, creating>>
    ELSE proxy_cancel' = TRUE /\ creating' = creating + 1 /\ UNCHANGED proxy

\* Drops the proxy and asks for a new one, unless one is on its way.
start_service ==
    IF proxy_cancel
    THEN UNCHANGED <<proxy, proxy_cancel, creating>>
    ELSE proxy' = FALSE /\ proxy_cancel' = TRUE /\ creating' = creating + 1

\* Schedules start_service_again_cb; count is restart_count at the call.  The
\* first restart is an idle source, whose id is not kept.
start_service_again(count) ==
    \/ /\ restart_source # "none" \/ restart_disabled
       /\ restart_count' = count
       /\ UNCHANGED <<restart_source, idles, timers>>
    \/ /\ restart_source = "none" /\ ~restart_disabled
       /\ count = 0
       /\ restart_count' = 0
       /\ idles' = idles + 1
       /\ UNCHANGED <<restart_source, timers>>
    \/ /\ restart_source = "none" /\ ~restart_disabled
       /\ count # 0
       /\ restart_count' = AtMost(MaxShift, count)
       /\ restart_source' = "timer"
       /\ timers' = timers + 1
       /\ UNCHANGED idles

Received(ev, results) ==
    /\ inbox # <<>>
    /\ Head(inbox).ev = ev
    /\ Head(inbox).result \in results
    /\ inbox' = Tail(inbox)

\* A signal stays at the head until it was handed to every subscription that
\* was there when it came.
Signalled(ev) ==
    /\ inbox # <<>>
    /\ Head(inbox).ev = ev
    /\ inbox' = IF Head(inbox).left = 1 THEN Tail(inbox)
                ELSE <<[Head(inbox) EXCEPT !.left = @ - 1]>> \o Tail(inbox)

-----------------------------------------------------------------------------
(* The main loop. *)

\* The proxy could not be created, or nobody owns the name: start over.
service_proxy_cb_fails ==
    /\ Received("Proxy", {"error", "unowned"})
    /\ proxy_cancel' = FALSE
    /\ start_service_again(restart_count)
    /\ UNCHANGED <<disposed, connected, proxy, name_watcher, subs, pending, bus, restart_disabled>>

\* Seeded fault: Watch without a subscription to the owner of the name.
service_proxy_cb_deaf ==
    /\ Received("Proxy", {"owned"})
    /\ proxy_cancel' = FALSE
    /\ proxy' = TRUE
    /\ watching' = watching + 1
    /\ UNCHANGED <<disposed, connected, name_watcher, subs, restart, creating, dropped, bus,
                   restart_disabled>>

\* Keeps the proxy, subscribes to the owner of the name (a previous subscription
\* is forgotten, not dropped) and calls Watch.
service_proxy_cb_succeeds ==
    /\ Received("Proxy", {"owned"})
    /\ proxy_cancel' = FALSE
    /\ proxy' = TRUE
    /\ name_watcher' = TRUE
    /\ subs' = AtMost(MaxSubs, subs + 1)
    /\ watching' = watching + 1
    /\ UNCHANGED <<disposed, connected, restart, creating, dropped, bus, restart_disabled>>

\* Seeded fault: a failed Watch is only logged.
watch_cb_gives_up ==
    /\ Received("Watch", {"error"})
    /\ UNCHANGED <<disposed, connected, handles, restart, pending, bus, restart_disabled>>

\* Watch failed: start over.
watch_cb_fails ==
    /\ Received("Watch", {"error"})
    /\ start_service_again(restart_count)
    /\ UNCHANGED <<disposed, connected, handles, pending, bus, restart_disabled>>

\* Watch was answered by a service of the wrong version: UnWatch it, through the
\* proxy there is now, and start over in a little while.  What was connected
\* stays so.
watch_cb_mismatch ==
    /\ Received("Watch", {"bad"})
    /\ counted' = (counted /\ ~(proxy /\ owner = "bad"))
    /\ start_service_again(LittleWhile)
    /\ UNCHANGED <<disposed, connected, handles, pending, owner, faults, restart_disabled>>

\* Watch was answered by a service of the right version.
watch_cb_connects ==
    /\ Received("Watch", {"good"})
    /\ restart_count' = 0
    /\ connected' = TRUE
    /\ UNCHANGED <<disposed, handles, restart_source, idles, timers, pending, bus, restart_disabled>>

\* The name has lost its owner.
service_proxy_name_changed_lost ==
    /\ Signalled("Lost")
    /\ Head(inbox).left <= subs
    /\ connected' = FALSE
    /\ start_service_again(restart_count)
    /\ UNCHANGED <<disposed, handles, pending, bus, restart_disabled>>

\* The name has a new owner: that counts as a connection, and it is sent a Watch.
\* The test that the name had an owner before looks at a pointer that is never
\* NULL.  Without a proxy the call is refused, with a critical warning.
service_proxy_name_changed_appeared ==
    /\ Signalled("Appeared")
    /\ Head(inbox).left <= subs
    /\ connected' = TRUE
    /\ watching' = IF proxy THEN watching + 1 ELSE watching
    /\ UNCHANGED <<disposed, handles, restart, creating, dropped, bus, restart_disabled>>

\* A signal for a subscription that is gone is not delivered.
signal_unheard ==
    /\ \E ev \in {"Lost", "Appeared"} : Signalled(ev)
    /\ Head(inbox).left > subs
    /\ UNCHANGED <<disposed, connected, handles, restart, pending, bus, restart_disabled>>

\* The restart itself.  It forgets restart_source, whatever that was.
start_service_again_cb ==
    /\ restart_count' = restart_count + 1
    /\ start_service
    /\ restart_source' = "none"
    /\ UNCHANGED <<disposed, connected, name_watcher, subs, watching, dropped,
                   inbox, bus, restart_disabled>>

restart_in_idle ==
    /\ idles > 0
    /\ idles' = idles - 1
    /\ UNCHANGED timers
    /\ start_service_again_cb

restart_in_timeout ==
    /\ timers > 0
    /\ timers' = timers - 1
    /\ UNCHANGED idles
    /\ start_service_again_cb

\* A reply to a call whose cancellable is cancelled by now is an error.
Cancel(msg) == IF msg.ev \in {"Proxy", "Watch"} THEN [msg EXCEPT !.result = "error"] ELSE msg

\* Seeded fault: a source is removed whether or not there is one.
dispose_removes_blindly ==
    /\ ~disposed
    /\ disposed' = TRUE
    /\ timers' = timers - 1
    /\ restart_source' = "blocked"
    /\ connected' = FALSE
    /\ UNCHANGED <<handles, restart_count, idles, pending, inbox, bus, restart_disabled>>

\* Takes down the restart source, says that the connection is gone, unsubscribes
\* (which needs the connection of the proxy), cancels what is on its way and
\* sends UnWatch through the proxy.
indicator_service_manager_dispose ==
    /\ ~disposed
    /\ disposed' = TRUE
    /\ timers' = IF restart_source = "timer" THEN timers - 1 ELSE timers
    /\ restart_source' = "blocked"
    /\ connected' = FALSE
    /\ subs' \in IF ~(name_watcher /\ proxy) THEN {subs}
                 ELSE IF subs = MaxSubs THEN {subs, subs - 1} ELSE {subs - 1}
    /\ name_watcher' = FALSE
    /\ proxy_cancel' = FALSE
    /\ proxy' = FALSE
    /\ dropped' = [proxies |-> creating, watches |-> watching]
    /\ creating' = 0
    /\ watching' = 0
    /\ inbox' = [i \in DOMAIN inbox |-> Cancel(inbox[i])]
    /\ counted' = (counted /\ ~proxy)
    /\ UNCHANGED <<restart_count, idles, owner, faults, restart_disabled>>

-----------------------------------------------------------------------------
(* The bus and the service. *)

Blame == faults < MaxFaults /\ faults' = faults + 1

Reply(msg) == inbox' = Append(inbox, msg)

\* The bus tells every subscription.
Tell(ev) == inbox' = IF subs = 0 THEN inbox
                     ELSE Append(inbox, [ev |-> ev, left |-> subs])

\* Creating the proxy ends: with the owner of the name, if there is one.
ProxyCreated ==
    /\ creating > 0
    /\ creating' = creating - 1
    /\ \/ /\ Reply([ev |-> "Proxy", result |-> IF owner = "none" THEN "unowned" ELSE "owned"])
          /\ UNCHANGED faults
       \/ Blame /\ Reply([ev |-> "Proxy", result |-> "error"])
    /\ UNCHANGED <<disposed, connected, handles, restart, watching, dropped, owner, counted,
                   restart_disabled>>

\* Watch reaches the owner of the name, which answers, or comes to nothing.
WatchAnswered ==
    /\ watching > 0
    /\ watching' = watching - 1
    /\ \/ /\ owner # "none"
          /\ Reply([ev |-> "Watch", result |-> owner])
          /\ counted' = TRUE
          /\ UNCHANGED faults
       \/ /\ IF owner = "none" THEN UNCHANGED faults ELSE Blame
          /\ Reply([ev |-> "Watch", result |-> "error"])
          /\ UNCHANGED counted
    /\ UNCHANGED <<disposed, connected, handles, restart, creating, dropped, owner, restart_disabled>>

\* A cancelled call ends with an error.
DroppedEnds ==
    /\ \/ /\ dropped.proxies > 0
          /\ dropped' = [dropped EXCEPT !.proxies = @ - 1]
          /\ Reply([ev |-> "Proxy", result |-> "error"])
       \/ /\ dropped.watches > 0
          /\ dropped' = [dropped EXCEPT !.watches = @ - 1]
          /\ Reply([ev |-> "Watch", result |-> "error"])
    /\ UNCHANGED <<disposed, connected, handles, restart, creating, watching, bus, restart_disabled>>

\* A service takes the name, started by the bus on our behalf or by somebody else.
ServiceAppears(kind) ==
    /\ owner = "none"
    /\ owner' = kind
    /\ Tell("Appeared")
    /\ UNCHANGED <<disposed, connected, handles, restart, pending, counted, faults, restart_disabled>>

\* The service exits or crashes.
ServiceDies ==
    /\ owner # "none"
    /\ Blame
    /\ owner' = "none"
    /\ counted' = FALSE
    /\ Tell("Lost")
    /\ UNCHANGED <<disposed, connected, handles, restart, pending, restart_disabled>>

\* Another service was queued for the name and has it now.
ServiceReplaced(kind) ==
    /\ owner # "none"
    /\ Blame
    /\ owner' = kind
    /\ counted' = FALSE
    /\ Tell("Appeared")
    /\ UNCHANGED <<disposed, connected, handles, restart, pending, restart_disabled>>

-----------------------------------------------------------------------------
Dispatch ==
    \/ service_proxy_cb_fails
    \/ service_proxy_cb_succeeds
    \/ watch_cb_fails
    \/ watch_cb_mismatch
    \/ watch_cb_connects
    \/ service_proxy_name_changed_lost
    \/ service_proxy_name_changed_appeared
    \/ signal_unheard

Environment ==
    \/ ServiceDies
    \/ \E kind \in {"good", "bad"} : ServiceAppears(kind) \/ ServiceReplaced(kind)

Next ==
    \/ Dispatch
    \/ restart_in_idle
    \/ restart_in_timeout
    \/ indicator_service_manager_dispose
    \/ ProxyCreated
    \/ WatchAnswered
    \/ DroppedEnds
    \/ Environment

\* The main loop dispatches what is ready and every call ends.  Nothing is assumed
\* of the service.
Fairness ==
    /\ WF_vars(Dispatch)
    /\ WF_vars(restart_in_idle)
    /\ WF_vars(restart_in_timeout)
    /\ WF_vars(ProxyCreated)
    /\ WF_vars(WatchAnswered)
    /\ WF_vars(DroppedEnds)

Spec     == Init /\ [][Next]_vars
FairSpec == Spec /\ Fairness

-----------------------------------------------------------------------------
(* Properties. *)

\* Nothing is on its way to the manager, and nothing will wake it.
Quiescent ==
    /\ creating = 0
    /\ watching = 0
    /\ idles = 0
    /\ timers = 0
    /\ inbox = <<>>

\* The manager never gives up and never rests on a dead or foreign connection: once
\* nothing is pending any more it is connected, to a service of the right version,
\* which counts it as a watcher and so does not time out.  start_service returns
\* early while a proxy is created, start_service_again while a restart is
\* scheduled: neither may lose the last reason to go on.
QuiescentIsConnected ==
    (Quiescent /\ ~disposed /\ ~restart_disabled) =>
        connected /\ owner = "good" /\ counted

\* A manager that says it is connected will hear that the service is gone: the
\* subscription is there before the Watch whose answer makes it connected.
LossIsNoticed ==
    (connected /\ ~disposed /\ owner = "none") =>
        \E i \in 1 .. Len(inbox) : inbox[i].ev = "Lost"

\* restart_source names a timer that exists.  If it named one that does not, no
\* restart would ever be scheduled again.
RestartSourceIsLive == restart_source = "timer" => timers > 0

\* Once a good service keeps the name the manager gets connected and stays so.
EventuallyConnected ==
    <>[](owner = "good" /\ ~disposed /\ ~restart_disabled) => <>[]connected

-----------------------------------------------------------------------------
(* What comments and tests say and the callbacks do not keep. *)

\* "If they don't match then we unwatch it.  Otherwise, we signal a connection
\* change" (indicator-service-manager.c:351-356): a manager does not announce a
\* connection to a service of the wrong version, which the test
\* service-version-manager.c checks.  The step looked at is one after which no
\* news of another owner is pending.
NeverAnnouncesBad ==
    [][(~connected /\ connected' /\ inbox' = <<>>) => owner # "bad"]_vars

\* "Block any restart calls" (indicator-service-manager.c:204-209): a disposed
\* manager starts no service.
DisposedStartsNothing == [][disposed => creating' <= creating]_vars

\* "If the names are both valid [...] we need to tell the new guy that we're
\* watching them" (indicator-service-manager.c:556-558): through a proxy that exists.
WatchesThroughProxy == [][service_proxy_name_changed_appeared => proxy \/ disposed]_vars
=============================================================================
